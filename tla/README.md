# Specifications of dhan-lean

TLA+ modules, TLC configurations and TLAPS proofs for the data-ingestion core of
`dhan_lean`. The system fetches historical candles through a broker process, keeps its
evidence in immutable files, and turns candles into LEAN minute data. Line numbers below are
those of the source files; `PROJECT.json` maps every definition that models code to the
lines it translates.

## 1. Inventory

### How the parts interact

```
planner ── work items ──> ledger (sqlite) <── coordinator ── executor ── downloader.ingest
                                                                │
   adapter: resolve ─ plan ─ run_planned_request ─ publish ─ parse ─ validate
                               │        │             │
             request budget <──┘        │             └──> artifact store (bundles)
                 (sqlite)               v
                     HistoricalBroker (fake, or Unix-socket client)
                                        │ one request per connection
             broker service ── UnixHistoricalBrokerServer (threads, socket path)

 normalized bars ── validator ── converter ──> LEAN ZIP file
```

Processes share only the two sqlite databases, directories of the file system and a Unix
socket path. Nothing coordinates them apart from sqlite's write lock, `O_EXCL`, `rename`,
`link` and `bind`.

| Component (source) | State | Operations | What is hard | What makes it correct |
|---|---|---|---|---|
| Request budget (`data/request_budget.py`) | one row (allowance, consumed) per scope and window | configure, consume, snapshot | transactions of several processes, crashes around COMMIT, lock timeouts | no unit granted twice, answers durable, atomic despite the steps |
| Budgeted retry (`zerodha/retry.py`) | attempt history, IDs, the shared budget | run_planned_request | several runs on one budget, a crash between unit and call, error classes | one unit per broker call, only permitted retries, results that account for the run |
| Work-item ledger (`data/ledger.py`) | work_items, ingestion_attempts | register, claim, complete, get | claim is a transaction, registration and completion are not; registration compares part of what it stores | the tables tell one story |
| Executor and coordinator (`data/executor.py`, `data/coordinator.py`) | a batch's results | execute_single_work_item, execute_batch | errors and crashes between claim, ingestion and completion | reports are durable, claims are settled |
| Immutable bundles (`data/storage.py:294`, `zerodha/artifacts.py:281`) | staging directory, lock file, final directory | write_immutable_bundle, publish_attempt_artifact | racing publishers, failing calls, crash, loss of power | whole or absent, never altered, durable once PUBLISHED as far as its parent directory is |
| Adapter (`zerodha/adapter.py`, `zerodha/artifacts.py:313`) | the phases of one fetch | ZerodhaHistoricalAdapter.run | publication fails for some attempts, two adapters on one place | a status is earned and evidenced |
| Unix server and client (`zerodha/unix_transport.py`) | listener, serve thread, workers, slots, stop event | serve_forever, _serve_one, stop, fetch_candles | threads, timeouts, a broker that never returns | slots accounted for, a truthful stop() |
| Socket path (`zerodha/unix_transport.py:176-241, 318-380`) | the directory entry and its identity | start, stale cleanup, owned cleanup | several servers on one path, inode numbers used again | a server that is up is reachable |
| Broker service (`zerodha/broker_service.py`) | signal handlers, shutdown event, events | run_broker_service | signals and the death of the serve thread at any time | the report is true and nothing is left |
| Source artifacts (`data/storage.py:194`) | the files of one run_id | write_source_artifacts | writers that race, fail half way, die | never another writer's files |
| Validator and converter (`data/validator.py`, `data/converter.py`) | the ZIP file | validate_normalized_bars, convert_minute_bars_to_lean | truncation and rounding; publication by link | rows increase, output whole |
| Candle parser (`zerodha/historical.py`) | none | parse_historical_candles | its acceptance against the validator's | what is parsed converts |
| Broker protocol (`zerodha/broker_protocol.py`) | none | construction of requests and responses, codec, error policy | tables of conditions that three other parts rely on | what one side accepts the other serves; records tell what the broker did |
| Planning, instruments, planner (`zerodha/planning.py`, `zerodha/instruments.py`, `data/planner.py`) | none | parse a dump, resolve one record, plan one request, fingerprint it | identity and session rules stated in several places, zones and notations | what is parsed and planned is served; one fingerprint, one request for data |
| Fake broker (`zerodha/fake_broker.py`) | its position in the script | fetch_candles | server threads share it | part of the request model |
| Other value types, `data/window.py` | none | field checks | | not modelled; nothing calls `window.py` |
| Package namespaces, scripts, Dockerfile, `Market.cs`, documents | none of the program's | | | not modelled |

`PROJECT.json` lists the components with their status and the hazards, each at its line,
with the properties that would catch it.

## 2. Modules

| Module | Models | Composition |
|---|---|---|
| `RequestBudgetSpec` | the budget as its callers may think of it: configure, take, grant, all atomic | abstract specification |
| `RequestBudget` | the same as sqlite transactions | implements `RequestBudgetSpec` |
| `BudgetedRetry` | `run_planned_request` | uses the budget of `RequestBudgetSpec` |
| `HistoricalAdapter` | `ZerodhaHistoricalAdapter.run` and `publish_budgeted_result` | extends `BudgetedRetry`; one publication is one step, see `BundlePublisher` |
| `BundlePublisher` | `write_immutable_bundle`, `publish_attempt_artifact` | |
| `WorkItemSpec` | the life of a work item | abstract specification |
| `WorkLedger` | ledger, executor, coordinator | implements `WorkItemSpec` |
| `RetryDelay` | `RetryPolicy`, `calculate_retry_delay`: pure operators | |
| `BrokerProtocol` | error policy, `CandleRequest`, `BrokerResponse`: pure operators | |
| `SessionPlanning` | instrument master, `plan_historical_candles`, `plan_minute_ingestion`: pure operators | extends `BrokerProtocol` |
| `HistoricalRequest` | one request from the dump to its result, through the socket client, the server and the fake broker | extends `SessionPlanning` and `RetryDelay`; `BudgetedRetry` and `UnixServer` model the same code with its concurrency and without the data |
| `UnixServer` | server threads, `start()`, `stop()`, one-shot clients | |
| `SocketPath` | the path of the socket | what `UnixServer` starts from |
| `BrokerService` | `main`, `run_broker_service`, `_SignalHandlers` | extends `UnixServer`: the service starts and stops its threads, and its answers are theirs |
| `SourceArtifacts` | `write_source_artifacts` | |
| `MinuteBars` | validator, scaling and rows, parser acceptance: pure operators | |
| `LeanOutput` | publication of the ZIP file | extends `MinuteBars` |
| `MC...` | the small instance of the module of that name | |
| `..._proof` | theorems and proofs about the module of that name: `RequestBudget`, `WorkLedger`, `BundlePublisher`, `SocketPath`, `HistoricalAdapter` (with `BudgetedRetry`), `BrokerService` (with `UnixServer`), `HistoricalRequest` (with `SessionPlanning`, `BrokerProtocol` and `RetryDelay`); `DataFiles_proof` is about `SourceArtifacts`, `LeanOutput` and `MinuteBars` | extends it |

Some definitions come in two versions: the one the specification uses and, directly before
it, one with a plausible fault (a read transaction instead of BEGIN IMMEDIATE, a cleanup
that removes what it did not make). The second version is used by no specification. It is
there so that a property can be tested: with the faulty version in place TLC must find that
property violated. Each is named in `PROJECT.json` under `mutants` with the property it
breaks.

### State and actions against the code

**RequestBudget.** `rows` is the committed table, `writer` sqlite's RESERVED lock, `staged`
what the open transaction has written. Every method call is a sequence of actions, one per
statement: `Configure` or `Consume` (entry and argument validation), `BeginImmediate` or
`BusyTimeout`, `SelectFor...`, `InsertRow` or `UpdateRow`, `Commit`, `Return`. `SqlError`
may replace any step before COMMIT, `Crash` any step. `Snapshot` is a single SELECT outside
transactions. `granted` is a history variable: the units that a returned `consume()` handed
out, where the n-th consumed unit has the number n.

**BudgetedRetry.** A run is `next` (a request ID is drawn), `consume`, `taken` (COMMIT is
done, `consume()` has not returned), `waiting` (the broker is called), and goes round after
a permitted retry. `NextRequestId` has the three ways to fail before the budget is asked: no
canonical ID, one that was used before, and a fresh one for which the request is refused.
`Answered` covers every answer by class: success, an answer with neither
a code nor a 2xx status ("odd"), retryable, reauthentication, terminal, each returned or
raised. `CallFails` is everything that raises out of the function without a record.

**WorkLedger.** `RegisterSelect` and `RegisterInsert` are two autocommitted statements. What
is registered has `columns` (source, symbol, bar size, day, output) and a `window` (start,
end): the SELECT compares the columns, the INSERT stores both. `EXISTING_MATCH` may therefore
be told for an item that is stored with another window, and it is the stored window that
`get_work_item` hands to the ingestion. An item of `planner.py` is not exposed to it: its key
names source, symbol and day, and its window is always the session of that day.
`ClaimBegin` to the claim's COMMIT is one transaction that holds `lock`; completion is a
SELECT and two autocommitted UPDATEs (`attemptRow`, `itemRow`). `Ingest...` is
`downloader.ingest`, external. `Error` is an exception at any ledger call, `Crash` the end
of the process. The lease columns are written by the code and read by nothing
(`ledger.py:51`), so no action looks at them.

**BundlePublisher.** One action per system call that another process or a loss of power can
tell apart: parent, staging directory, each file, fsync, lock file, check of the target, rename,
fsync of the parent, unlock, and the cleanup of the `finally` block; then the verification
of an existing bundle, which ends in REUSED or in a collision. `PowerLoss` ends every
publisher and may take back what was not fsynced. The parent directory is fsynced after the
rename, but `mkdir(parents=True)` may have made it and directories above it, and nothing
fsyncs the directories that hold *their* entries. Hence `parent`: "absent", "new" since the
power came, or "kept". `ParentLost` takes a new one with everything in it, and `lost` keeps
the owners of bundles that went that way; `ParentStays` undoes a rename that was not synced,
the making of a lock file, or its removal, which is not synced either (`ghosts`). A "new"
parent stands for the whole chain of new directories: whichever of them goes, the bundle goes.

**HistoricalAdapter.** `phase` goes through prepare, execute (where the actions of
`BudgetedRetry` run), publish (one attempt per step), classify, done. `Place` is the
directory of an attempt; two adapters with one request ID and one attempt number want the
same place, and different bytes there are an artifact failure.

**UnixServer.** The serve thread (`Accept`, slot, stop check, register, start), one worker
per connection (`read`, `broker`, `reply`, `release`, `discard`), the thread in `stop()`
(event, listener, connections, join of the serve thread, joins of the workers, the two last
looks) and clients with their timeout. `workers` and `connections` are the sets the code
keeps under its lock, so that the windows between `add`, `start`, the copy `stop()` takes,
and `discard` exist. `stop()` looks at the workers (`LookAtWorkers`, lines 301-302) and only
later at the serve thread (`Complete`, lines 303-304), so the serve thread may register and
start one more worker in between. A connection is in the listener's queue (`sock` "queued")
until it is accepted or the listener is closed, also when its client has given up: it is then
accepted, takes a slot and is served.

Two simplifications. `StartServing` starts the serve thread and sets `_serve_thread` in one
step, although the code does one after the other (lines 262-263): the attribute is read by
`stop()` alone, and `run_broker_service` calls both from one thread, so nobody can look in
between. A server that was stopped is not started again; `run_broker_service` makes one
server and starts it once.

**SocketPath.** `path` is what the entry leads to, `inode` its identity; each of `lstat`,
`connect`, `lstat` again, `unlink`, `bind`, `lstat`, `chmod`, `listen` is an action, as are
the steps of `stop()` and of `_cleanup_owned`.

**BrokerService.** The main thread's statements from the checks to the restored handlers.
`Signal` and `Request` may come between any two of them, and so may the steps of the
server's threads and clients, which are the actions of `UnixServer`; whether the serve
thread is alive and what `stop()` answers is their state. A `signal.signal` that refuses to
give a handler back is swallowed (`broker_service.py:163-166`): the handler is then "kept".

**HistoricalRequest.** `Plan` makes up to `MaxPlans` plans, each from a dump, a context and
a work item: resolution, identity, window and request in the order of their refusals. `Run`
takes one of them with a policy and a script, and then the run is `next` (the request is
made anew and the budget asked), `connect`, `await`, and again `next` after a permitted
retry, or `done`. Attempt n has its own connection and server thread (`thread[n]`), whose
reply the client may no longer wait for. Times are instants in ticks of half a second with
the zone they are written in, tokens and strikes numbers with their notation, so that the
conversions (to IST, to canonical digits, through the codec) change something. `deed` is a
history variable: what the broker did for an attempt while its connection lasted.

**SourceArtifacts, LeanOutput.** One action per call on the file system, each of which may
fail. `MinuteBars` counts time in units of half a millisecond and prices in units of a
hundred thousandth, so that truncation to seconds and rounding half up at the fourth decimal
have both sides of their boundaries in the instance. A price is rounded to a whole number of
ten thousandths by `quantize`, which raises when that number has more digits than the decimal
context: `Limit` is the first such number, 10^28 in the code and 10 in the instance. The
product with 10000 is rounded to 28 digits before; prices of so many digits are not told
apart. `Converts` and `Refuses` say which bars become rows and which are refused with a
conversion error; valid bars that are neither let `InvalidOperation` out ("raises").

## 3. Runs

Each run states in its `.cfg` when `CHECK_DEADLOCK` is off; that is the case where every
process of the instance makes a bounded number of calls and the system then really stops.
`RequestBudget` never stops and is checked for deadlock.

| Run | Instance | Distinct states | What it shows |
|---|---|---|---|
| `request_budget` | 2 processes, 1 window, allowances -1, 0, 3, amounts -1, 1, 2 | 30 thousand | `TypeOK`, `NoDoubleGrant`, `AnswersAreDurable`, `ImplementsBudget`, `CallsEnd` |
| `work_ledger` | 2 registrars, 2 workers, 2 keys in opposite orders, both settings of stop_on_failure, 2 columns, 2 windows | 645 thousand | `TablesAgree`, `ReportsAreDurable`, `OneRegistration`, `ImplementsLifecycle`, `ClaimsSettle` |
| `bundle_publisher` | 3 publishers, 2 contents, a payload and a manifest, a parent that is there or not | 1.9 million | `BundleIsWhole`, `PublishedIsDurable`, `NothingLeft`, `NeverAltered` |
| `bundle_publisher_failure` | 1 publisher | | finding: `FailureMakesNoBundle` is violated |
| `historical_adapter` | 2 adapters of at most 3 attempts, 4 request IDs, allowance 0, 1 or 4 | 692 thousand | `OneUnitPerCall`, `OnlyRetriesPrecede`, `ResultAccounts`, `ResultsAreEvidenced`, `StatusIsEarned`, `NoCallOnceDone` |
| `unix_server_reports` | 1 client, 1 slot, backlog 1 | | finding: `StopReports` is violated |
| `socket_path` | 1 or 3 servers, cleanup on or off, 3 sockets, 5 inodes | 140 thousand | `UpIsReachable`, `AloneNeverFails`, `EstablishedKept` |
| `broker_service` | one service, 2 clients, 1 slot, backlog 1 | 507 thousand | `SlotsAccounted`, `TrueMeansDrained`, `ReportIsTrue`, `NothingLeft`, `ConnectionsEnd`, `ServiceEnds` |
| `source_artifacts` | 3 writers, 3 files | 11 thousand | `OneWriterWins`, `NotMineNotTouched` |
| `lean_output` | 2 conversions, up to 3 bars of 14 kinds | 238 thousand | `OutputIsWhole`, `ConvertedIsMine`, `RowsIncrease`, `ParsedConverts` |
| `historical_request` | 3 dumps, 8 contexts, 13 work items, 2 plans; 4 policies, 13 deeds of the broker, a script of 2 steps | 306 thousand | `RecordsAreTrue`, `PlansAreServed`, `FingerprintsAgree`, `RunEnds` |
| `historical_request_retry` | the same | | finding: `RetryIsRetained` is violated |

### Why these bounds

The proofs of section 4 remove the bounds of every safety property. What follows says why
the instances are enough for liveness, which is only checked, and why they meet the cases in
which a faulty version of the code would show.

- *Two processes* for the budget, the retry and the ledger: an error there is a conflict of
  two transactions, and sqlite's lock admits one writer. Three publishers, writers and
  servers where a third party matters: the one that comes after a crash and meets the lock
  file, the entry or the files of a dead one while two others race.
- *Argument values* stand on both sides of every comparison. Allowance 3 with amounts 1 and
  2 lets calls fit, exactly fit and overshoot; 4 units are too few for two runs of three
  attempts, so the window is exhausted at every point of both.
- *Four request IDs* for three attempts let the factory repeat an ID and still go on, and
  let both adapters claim one place in the store.
- *A parent that is there or not* at the start: with a new one a bundle may be lost, with an
  old one it may not.
- *Prices on both sides of `Limit`*, and a bar of another symbol: what is parsed is refused
  by the converter only for one of these.
- *Two plans*: a fingerprint relates two requests. Every pair of the instance's plans is
  made, then one of them is run.
- *Dumps and work items*: each type of instrument, a strike and a token in a second
  notation, records the parser takes and planning does not, two records nobody can tell
  apart; windows of the planner before, on and after the expiry, and windows on both sides
  of the session's open and close, of a minute and of a date.
- *Policies* with a base of zero, a base equal to the cap, a doubled and a capped backoff;
  Retry-After below and above its bound. The second is the unit of time there. *A script of
  two steps* under three attempts lets the broker run out of steps.
- *Two keys in opposite orders* are the smallest pair of batches that could wait for one
  another.
- *One slot and a backlog of one* are the smallest values; with two clients each limit is
  met. One client is enough for the worker that `StopReports` is violated with.
- *Three sockets*: a server that crashes and starts again, next to another; five inodes for
  three sockets and a file let a number be used again or not. `EnoughInodes` says that
  `bind` finds one.
- *Up to three bars*: the validator compares neighbours, and non-neighbours through the
  first one of a pair; a third bar distinguishes the two.
- *Symmetry* is used in safety runs only, over sets whose members the module never tells
  apart.

The only counters that are bounded by the model rather than by the code are `MaxSockets` in
`SocketPath` (sockets ever made), `MaxPlans` in `HistoricalRequest` and the numbers of
calls, which the instance sets fix.

### Fairness

- `RequestBudget`: weak fairness of the steps of a call. A thread that runs is scheduled,
  and sqlite answers; the busy timeout of 30 s is a step of the waiting call, and it is this
  step that makes `CallsEnd` true. No fairness of lock acquisition is assumed: sqlite has no
  queue.
- `WorkLedger`: weak fairness of a live process's steps, among them the lock or its timeout
  (5 s) and the end of `downloader.ingest`. Crashes and errors are not fair: they may happen
  and need not.
- `BrokerService`: the main thread runs, so do the serve thread and the thread in `stop()`,
  and time passes (`DeadlinePasses`). A broker call need *not* return and a worker need not
  go on: `ServiceEnds` holds without that; `ConnectionsEnd` takes both as a premise.
- `HistoricalRequest`: the thread of the run runs and the timeouts of its sockets pass,
  nothing else. Server and broker may do anything or nothing.

The other specifications state no fairness; only safety is checked of them.

## 4. Proofs

Every safety property of the passing runs has a theorem, and so has every action property
and every refinement. The theorems hold for *every* value of the constants that the
assumptions admit: any number of processes, publishers, writers, workers, adapters, clients
and servers, any allowance, any bound on attempts, slots and files, bars of any number, any
dumps, work items, policies and brokers. Each `..._proof` module has the same layout:
an inductive invariant in named parts, one lemma for each action (or for each group of
actions that move one actor), `NextKeeps` that collects them, `Invariance`, then the
theorems. TLC has checked each inductive invariant on the instance of its run.

| Module | Theorem | Statement |
|---|---|---|
| `RequestBudget_proof` | `TypeCorrect` | `Spec => []TypeOK` |
| | `NeverOversubscribed` | `Spec => []NoOversubscription`: granted units are among those the row counts, and the row is within its allowance |
| | `NeverGrantedTwice` | `Spec => []NoDoubleGrant` |
| | `WritesFindWhatWasRead` | `Spec => []ReadStillStands`: the conditional UPDATE and the INSERT never have to refuse |
| | `GrantsCounted` | in an invariant state the granted units of a window are finitely many, at most its allowance |
| | `WindowsNeverReset` | `Spec => NeverReset`, an action property |
| | `AnswersStayDurable`, `ExceededIsFinal` | what an ended call was told stays true |
| | `Refinement` | `Spec => ImplementsBudget`: every step is a step of `RequestBudgetSpec` or stutters |
| `HistoricalAdapter_proof` (`BudgetedRetry`) | `UnitForEachCall`, `RetriesOnly`, `ResultsAccount` | `Spec => []OneUnitPerCall`, `[]OnlyRetriesPrecede`, `[]ResultAccounts` |
| | `RunsUseBudget` | `Spec => UsesBudget`: all runs together are a user of `RequestBudgetSpec`; no run checks it, since `Consume` and `CallBroker` are written after the actions of that module |
| `HistoricalAdapter_proof` (`HistoricalAdapter`) | `AdaptersRunRuns` | `AdapterSpec => Spec`: adapters add nothing to what runs do |
| | `AdaptersKeepTheBudget` | the first three above, under `AdapterSpec` |
| | `Evidenced`, `Earned` | `AdapterSpec => []ResultsAreEvidenced`, `[]StatusIsEarned` |
| | `DoneIsDone` | `AdapterSpec => NoCallOnceDone`, an action property |
| `WorkLedger_proof` | `TypeCorrect`, `OneStory`, `ReportsStayTrue`, `OneIsCreated` | `Spec => []TypeOK`, `[]TablesAgree`, `[]ReportsAreDurable`, `[]OneRegistration` |
| | `LedgerImplementsLifecycle` | `Spec => ImplementsLifecycle`: every step is one of `WorkItemSpec` or stutters |
| `BundlePublisher_proof` | `TypeCorrect`, `NeverHalfABundle`, `PublishedForGood`, `LeavesNothing` | `Spec => []TypeOK`, `[]BundleIsWhole`, `[]PublishedIsDurable`, `[]NothingLeft` |
| | `OnePublisherInside` | at most one publisher is between its lock file and the end of it |
| | `BundlesAreImmutable` | `Spec => NeverAltered`, an action property |
| `DataFiles_proof` (`SourceArtifacts`) | `OneGetsTheRun` | `Spec => []OneWriterWins` |
| | `OthersFilesStay` | `Spec => NotMineNotTouched`, an action property |
| `SocketPath_proof` | `UpServersAreReachable`, `AloneComesUp` | `Spec => []UpIsReachable`, `[]AloneNeverFails` |
| | `OneServerUp` | without stale cleanup at most one server is up at the path |
| | `EstablishedServersStay` | `Spec => EstablishedKept`, an action property |
| `BrokerService_proof` (`UnixServer`) | `SlotsAreAccounted`, `TrueIsDrained` | `Spec => []SlotsAccounted`, `[]TrueMeansDrained` |
| `BrokerService_proof` (`BrokerService`) | `ServiceRunsServer` | `ServiceSpec => Spec`: the service uses its server as `UnixServer` allows |
| | `ReportsAreTrue`, `ServiceLeavesNothing` | `ServiceSpec => []ReportIsTrue`, `[]NothingLeft` |
| `DataFiles_proof` (`LeanOutput`, `MinuteBars`) | `OutputsAreWhole`, `ConvertedFilesStay` | `Spec => []OutputIsWhole`, `[]ConvertedIsMine` |
| | `RowsAreInOrder`, `ParsedBarsConvert` | `Spec => []RowsIncrease`, `[]ParsedConverts`, for bars of any number |
| `HistoricalRequest_proof` (`RetryDelay`) | `ExponentialIsBackoff` | the backoff of the code, which stops multiplying at the cap, is for every retry the documented one, doubled each time up to the cap |
| | `DelayIsDocumented` | the delay is the longer of that with its jitter and the honoured Retry-After, and beyond the cap and the jitter only ever the bound on Retry-After |
| `HistoricalRequest_proof` (`BrokerProtocol`, `SessionPlanning`) | `AcceptedForEveryAttempt` | a request that is accepted stays so with every new ID, and when it is sent |
| | `PlannedRequestsAreAccepted` | identity and window in order, then the protocol accepts the request |
| | `KnownRecordsArePlanned` | what the parser accepts and the planner asks for is planned |
| | `FingerprintsNameData` | equal metadata exactly for the same data |
| `HistoricalRequest_proof` (`HistoricalRequest`) | `RequestInvariance` | `Spec => []IInv`, the strengthening of the next three |
| | `RecordsTellTheDeeds`, `AcceptedPlansAreServed`, `PlansShareFingerprints` | `Spec => []RecordsAreTrue`, `[]PlansAreServed`, `[]FingerprintsAgree` |

### The arguments

**RequestBudget.** `NoDoubleGrant` is not inductive: nothing in it says why two calls past
COMMIT own different units. `IInv` adds what an open transaction may rely on: `LockHeld` (a
transaction is open exactly in the process that holds the lock), `WriteReady` (the row read
is still the row stored when the write comes), `CommitReady` (what is staged extends exactly
the stored row), `ReturnReady` (a call past COMMIT knows the stored row or an older one) and
`RowsFit`. `LockHeld` is where BEGIN IMMEDIATE enters: COMMIT of one call cannot happen
between the SELECT and the COMMIT of another, hence the units a COMMIT adds lie beyond every
unit owned or granted so far. The durable answers need a second invariant, `AnswerInv`,
above the first, because `outcome` outlives the transaction. For the refinement, `rows` and
`granted` map to themselves; `CommitImplements` shows that COMMIT takes units or configures,
`ReturnImplements` that return grants, `OtherStepsStutter` the rest.

**BudgetedRetry.** The invariant keeps two sorts of facts apart. `Balanced` and `Holds` are
the books of the shared window: as many units were granted as calls were made, the consumed
units are those and the ones of the runs between COMMIT and return, and no two of them are
the same. Only finitely many runs can be there at once, because each of them has taken a
unit, so the set of runs itself may be infinite. `RunOK` (`RunFits` and `ResultFits`) is
what a run may rely on: retryable records precede, IDs differ, its calls are as many as the
units its records count. It is stated over the run's own values and its own calls, so a step
of another run cannot disturb it; `BudgetSpent`, the durability of BUDGET_EXHAUSTED, is the
one fact that relates a run to the window. `RunsUseBudget` and `Refinement` of
`RequestBudget_proof` meet in `RequestBudgetSpec`: a run sees of the budget what the
abstract specification allows, and the sqlite code does no more than that.

**HistoricalAdapter.** Every adapter step is a step of its run or leaves the variables of
`BudgetedRetry` alone (`AdaptersRunRuns`), so the theorems about runs are theorems about
adapters. `AdapterFits` relates the phase to the run and counts `published`: the attempts up
to it are stored. A stored attempt stays what it was because the code never replaces a
bundle.

**WorkLedger.** `LockHeld` is the claim's transaction. `WorkerOK(w)` says which rows a worker
that is between claim and completion may count on: the item is CLAIMED, its only attempt row is
the worker's, and that row has ended exactly when the first of the two completion UPDATEs is
done. `ItemOK(k)` says from the tables' side that a CLAIMED item has a worker that is settling
it or was lost on the way, and a settled one an attempt that ended as it did. `Registered` says
that who was told CREATED has its item in the table with its own columns and window, and that
there is no item that nobody was told CREATED of. Who is told EXISTING_MATCH compared the
columns with that item, so they agree with the ones stored; of the window neither the code nor
`OneRegistration` says so. The refinement follows from these case by case: what changes a row of
`work_items` is a step of `WorkItemSpec`, all else stutters.

**BundlePublisher.** `LockHeld` says that a publisher between taking and removing the lock
file is its owner, so nobody else can be there: the check of the target and the rename are
one step as far as other publishers can tell. `Staged`, `Renamed` and `Clean` say how far a
publisher's own directory is; what is renamed into place is complete because every file was
written before, and it is there to stay once the parent directory is synced, unless the parent
itself goes: then its owner is in `lost`, which is the exception `PublishedIsDurable` states.
`GhostsHaveRun` is what `PowerLossKeeps` needs of the lock files that come back: their owners
have run, so a publisher that has not begun is nobody's stale lock.

**SourceArtifacts.** `OwnFiles` says that what a writer counts as written is its own.
`First` is the fact that no single writer could know: the first to create a file is alone in
the directory, and so cannot be turned away because of a file that exists; when it stops, it
is for another reason. `NotYet` (a writer owns nothing it has not come to) gives it.

**SocketPath.** Two regimes. Without cleanup (`Kept`) the path belongs to one server from
`bind` to the end of its `stop`, because an entry is never taken away by another. With
cleanup (`Began`, `Listens`) a socket that was listening when a start began is listening or
closed; a start unlinks only after its `connect` was refused, and what was then at the path
was closed, and a socket that has left the path does not come back, even when its inode
number does. `Alone` follows one server through its steps.

**UnixServer, BrokerService.** `Slots` says that the free slots and the connections that
hold one (`Holders`, a finite set) are together `MaxConnections`. `InHand`, `Registered` and
`NotYetAccepted` say where a connection is between `accept` and its worker's end;
`ListenerClosed` that the listener is closed once `stop` has closed it. What TRUE is worth
follows from `Kept` (a serve thread whose attribute was cleared has ended) and `Looked`: from
the look at the workers on, at most one runs, and only if the serve thread was kept and had
that connection in hand. The event is set by then, so the serve thread admits no second one.
The service's part (`Main`) is stated over
`Going`: the statement that the main thread is at or, while it gives the handlers back, the one
it will go on with, so that the two restoring statements need no cases of their own.
`ServiceRunsServer` carries the server's theorems over.

**LeanOutput.** `ConvertsGoodBars` shows that the validator, which compares each bar with the
last element before it that is a bar at all, lets exactly those sequences through that are all
bars, each with its prices in order, and each a second or more after its neighbour.
`ScaleIsMonotone` and `SecondsArePositive` are the two facts about rounding and truncation;
`RowsOfGoodBars` and `ParsedBarsAreGood` follow by neighbours and need no induction over the
length. `ParsedConverts` then says that of bars the parser took the converter refuses none but
those of another symbol, another day or a fraction of a second apart, and that what raises out
of it is a price beyond `Limit`. The publication needs `Fits` only: a conversion that linked has
the name, and nobody unlinks the name.

**RetryDelay, BrokerProtocol, SessionPlanning.** `PowerOfTwo` and `Backoff` are recursive
functions. That such a function exists at all, and what it is at each number, is proved from
the least number at which the claim fails (`Smallest`, `Inductive`): the cases before it are
all settled, so a finite piece of the function up to there can be put together and extended
by one (`DoublingExists`, `DoublingIsUnique`). `PowersIncrease` then carries the step from
`min(cap, 2 * backoff)`, taken attempt by attempt, to `min(cap, base * 2^(n-1))`: once the cap
is met it is met for good. The planning results rest on two facts: every test in
`CandleRequest` is about the instant of a time, which neither the conversion to IST nor the
codec changes (`IstKeepsTheInstant`, `RefusalIsOfTheInstants`); and a window of whole minutes
within one session is a window of whole seconds within a day (`SessionsAreWindows`).

**HistoricalRequest.** `RecordsAreTrue` speaks of records that were made from a reply, while
the deed it compares them with belongs to a thread that may go on afterwards.
`AttemptsInv` therefore says, of each attempt, in which of three situations it is. An attempt
that is not begun has no thread, no reply and no deed. An attempt that has its record has a
thread that is done, or a connection that is cut, so that no later deed can be told of it. For
the attempt that is awaited, the reply is the answer to its deed, and there is none without a
deed. `ThreadInv` gives the connection between a thread's position, the request
it read and what it did. `RunInv` keeps the plan's request acceptable while it is made anew,
`PlansMade` that each plan is what `Planned` makes of an input. `NewRecordIsTrue` is the
comparison itself, made once for any reply; `RecordsStay` shows that no other step disturbs
an old record. Of the delay the property claims what line 135 of `AGENT_HANDOFF.md` says: the
longest of backoff with jitter and bounded Retry-After for PROVIDER_429. For another code that
comes with a Retry-After it admits the backoff with its jitter alone as well as what the code
does.

### Assumptions

- *A null value is not one of the values it stands next to*: `NoRowIsNoRow`, `NoProcIsNoProc`,
  `NoProcIsNoWorker`, `NoDirIsNoDirectory`, `NoProcIsNoPublisher`, `NoOwnerIsNoWriter`,
  `NobodyIsNoConversion`, `NoSocketInstead`, `NoInodeIsNoInode`, `NoDecimalIsNoNumber`,
  `NoBarIsNoBar`. In the code these are `None`, the absence of a row or of a file, or a value
  of another type.
- *Arguments are of the type the code insists on before anything happens*: `ArgumentsAreInts`,
  `AllowancesAreNats` (`configure` refuses a negative allowance, `request_budget.py:112`),
  `MaxAttemptsPositive`, `BoundsPositive`, `BatchesValid`, `RegistrationsValid`, `InputsAreBars`
  (what a conversion is called with: bars and things that are not bars), `DumpsHaveRows`,
  `ContextsAsk`, `DeedsAreDeeds` (a broker returns a response, which may be refused, or raises),
  `ItemsHaveWindows` (a `TimeWindow` with a naive time or a start that is not before its end
  cannot be constructed, `models.py:53`), `PoliciesAreAccepted` (`RetryPolicy.__init__`,
  `retry.py:117-127`), `JittersAreNats` (a negative jitter raises, `retry.py:155`),
  `UnitsPerSecondPositive`.
- *`LimitIsNatural`*: the number of digits a decimal context has bounds what `quantize` returns;
  nothing else is assumed of the bound.
- *`CapsAreReached`*: a policy of more than 64 attempts reaches its cap within 63 doublings of
  its base. The code takes the cap there without comparing (`retry.py:182`). Only a cap above
  2^63 times the base breaks the assumption, and a microsecond, the smallest base above zero,
  doubled 63 times is 292 thousand years.
- *Notations are representatives*: the zone of a time is "IST", "+05:30", "UTC" or "naive",
  and a token or strike is a number in one of four notations. The theorems about
  `HistoricalRequest`, like its run, are about these and not about every string.
- *There is something to talk about*: `PayloadsPositive`, `FilesPositive`, `SomeWriter`,
  `EnoughInodes` (a `bind` finds a free inode), `ServersFinite` (a machine has finitely many
  processes; used for the server that is alone).

### Only model-checked

- *Liveness*: `CallsEnd`, `ClaimsSettle`, `ConnectionsEnd`, `ServiceEnds`, `RunEnds`.
  Reasoning about fairness and `ENABLED` is beyond the prover used.

No module declares a RECURSIVE operator.

## 5. Findings

1. **`FailureMakesNoBundle`** (`bundle_publisher_failure`, `storage.py:385`). When the fsync
   of the parent directory fails after the rename, the caller gets
   `ImmutablePublicationError` although the bundle is at its place.
   `docs/AGENT_HANDOFF.md:124`: "A failed staging publication never creates or removes a
   final bundle directory".
2. **`StopReports`** (`unix_server_reports`, `unix_transport.py:300`). `serve_forever` adds
   a thread to `_workers` (line 255) before it starts it (line 257). A `stop()` whose join
   of the serve thread ran out of time can join a thread that is not started: `RuntimeError`
   instead of a report, and `_cleanup_owned` is skipped. Line 267: "report whether all
   threads ended".
3. **`RetryIsRetained`** (`historical_request_retry`, `unix_transport.py:409`). A broker
   behind the server that raises `ZerodhaBrokerError` with `PROVIDER_429` or `PROVIDER_5XX`
   is answered with a `BROKER_FAILURE` response carrying that code, which `BrokerResponse`
   itself refuses (`broker_protocol.py:301`): the worker ends with no reply, the client
   raises `MALFORMED_PROVIDER_RESPONSE`, and the run does not retry, as it does when it calls
   the same broker directly. `docs/AGENT_HANDOFF.md:66`: "it can use the Unix client through
   `HistoricalBroker`, retaining adapter-owned retry"; line 59: "safe injected-exception
   responses".

Read while modelling, described by the models, and claimed by no property:

- `adapter.py:175`: when `run_planned_request` raises after answered attempts, they are
  dropped without publication (`LOCAL_FAILURE`), while `AGENT_HANDOFF.md:89-90` speaks of
  every eligible attempt.
- `unix_transport.py:301-304`: `stop()` reads the workers and then the serve thread. When the
  serve thread outlives its join by the deadline, holds an admitted connection at the first
  look and has ended by the second, `stop()` answers True with that one worker running, and
  `run_broker_service` reports CLEAN_SHUTDOWN. Line 267 has it "report whether all threads
  ended", `AGENT_HANDOFF.md:40` has "an incomplete drain" as a runtime failure.
  `TrueMeansDrained` and `ReportIsTrue` hold with exactly this exception; that it occurs shows
  when `Drained` is strengthened to `Closed /\ RunningWorkers = {}`.
- `storage.py:343`: `mkdir(parents=True)` makes the parent of a bundle and the directories above
  it, and line 385 fsyncs the parent only. A loss of power can take the new directories, and
  with them a bundle whose publisher was told PUBLISHED.
- `storage.py:393`: the removal of the lock file is not fsynced; after a loss of power it may be
  there again, and blocks as that of a dead publisher does.
- `converter.py:26`: `quantize` raises `decimal.InvalidOperation` for a price of 10^24 or more,
  which parser and validator accept. It is no `LeanConversionError`, and nothing in the package
  catches it.
- `ledger.py:26-29`: registration does not compare start and end with the ones stored; see
  `WorkLedger` in section 2.
- `broker_service.py:163-166`: a handler that cannot be given back stays, and nobody is told.
- `unix_transport.py:281`: a connection that is registered after `stop()` took its list is
  not closed by it (`AGENT_HANDOFF.md:36`); its own timeouts end it.
- `unix_transport.py:333`: a server between `bind` and `listen` refuses connections, so
  another start with stale cleanup takes its entry for stale. `EstablishedKept` is therefore
  about servers that were listening when the start began.
- `broker_service.py:250`: the handlers are given back before the drain, so a second signal
  ends the process with the server still up.
- `storage.py:266`: the file being written when a write fails is not in `written_paths`,
  stays, and blocks the `run_id`; the comment at line 285 says that partial files are
  removed.
- `converter.py:78`: an unlink that fails after the link reports a failed publication of an
  output that is there.
- `validator.py:33`: whole seconds are compared; bars less than a second apart are refused
  as duplicates.
- REUSED (`artifacts.py:294`) is answered for a bundle whose publisher may not have fsynced
  the parent yet; only PUBLISHED is durable.
- `ledger.py:51`: a lease is recorded and never read; the item of a dead worker stays
  CLAIMED.
- `storage.py:378`: the lock file of a dead publisher is never removed.
- `instruments.py:199, 202`: an equity or a future with strike zero is parsed, but no query
  that is accepted equals it, so it is never resolved.
- `instruments.py:191`: `isdigit()` takes digits of other scripts, which planning refuses
  (`planning.py:118`); so it does names not in upper case. Superscript digits pass `isdigit()`
  and fail in `int()`, with a plain ValueError in place of `InstrumentMasterParseError`.
- `planning.py:136`: `normalize()` rounds to 28 digits; two longer strikes may share a
  fingerprint. The model has shorter ones.
- `retry.py:182`: after 63 doublings the cap is taken without a comparison. Where it is more
  than 2^63 times the base the delay is then longer than `min(cap, base * 2^(n-1))`; see
  `CapsAreReached`.
- `retry.py:181`: the quotient of cap and base is a float. The models compare exactly; for
  durations below 2^51 microseconds (71 years) the two decide alike.
- `retry.py:341`: Retry-After is honoured for PROVIDER_5XX as for PROVIDER_429. The document
  speaks of 429 only; `RecordsAreTrue` admits either delay there.
- `planning.py:228`: the date of the instrument snapshot is part of the fingerprint, so the same
  bytes under two dates have two fingerprints. `FingerprintsAgree` counts the date as part of
  the snapshot.
- `unix_transport.py:257`: a worker whose thread cannot be started keeps its slot and its
  connection.

## 6. What is not modelled

- *Text*: JSON, base64, the length prefix, CSV quoting, path building and credential
  screening. They refuse before anything changes; the models have the refusal as an outcome.
  SHA-256 is taken to be injective.
- *Types of arguments*: tests that an argument is a `date`, a `bool` or a `Decimal`.
- *The candle parser's structure checks* on the JSON document: its acceptance of rows is in
  `MinuteBars`, the rest is an outcome of the adapter.
- `data/window.py`, which nothing in the package calls.
- *sqlite* is what its documentation promises: one writer at a time, readers see committed
  rows, a dead writer is rolled back. The budget sets the WAL journal (`request_budget.py:80`),
  the ledger keeps the default one; the promises used are those of both. It is external.
- *A server that is started again after `stop()`*, and a `signal.getsignal` that gives None, for
  a handler not set from Python.
- *File-system permissions*, other than `chmod` as a call that may fail.
- *Engine files* (`Market.cs`, Docker, scripts): no state of this program.

## 7. Plan

Done, in this order, the most important behaviour first: request budget with its abstract
specification and proofs; retry on that budget; ledger and batch workers with the abstract
work item; bundles; adapter; server threads; socket path; source artifacts; conversion; the
service composed with its server; protocol, planning and delays composed into one request.

The proofs followed the same order, and every safety property, action property and refinement
of it is proved.

What a continuation would take up:

1. The structure checks of the candle parser on the JSON document, and the rest of the wire
   format: at present an outcome of the adapter.
2. Liveness by hand: the steps from `WF` to `RunEnds` and `CallsEnd` as non-temporal lemmas
   (what each fair action makes progress on), so that only the temporal glue is left to TLC.
3. `adapter.py:175`, the answered attempts that are dropped: a property once the documents say
   which of the two is meant.
