------------------------------ MODULE WorkLedger ------------------------------
(***************************************************************************)
(* dhan_lean/data/ledger.py, executor.py and coordinator.py: registrars    *)
(* and batch workers, each in its own process, share the ledger database.  *)
(* claim_work_item is one BEGIN IMMEDIATE transaction; registration and    *)
(* completion are separate autocommitted statements, so other processes    *)
(* come, and a crash may fall, between any two of them.                    *)
(***************************************************************************)
EXTENDS Integers, Sequences, FiniteSets

CONSTANTS Keys,            \* work-item keys
          Columns,         \* source, symbol, bar size, day and output of an item
          Windows,         \* its start and end
          Registrations,   \* the items that may be registered, with their keys
          Registrars,      \* the calls of register_work_item
          Workers,         \* the calls of execute_batch
          Batches,         \* their arguments: [keys, max, stop]
          NoProc, NoData

Metadata == [columns : Columns, window : Windows]
ASSUME RegistrationsValid == Registrations \subseteq [key : Keys, data : Metadata]
ASSUME BatchesValid ==
  \A b \in Batches : /\ b.keys \in Seq(Keys) /\ b.max \in Nat \ {0} /\ b.stop \in BOOLEAN
                     /\ \A i, j \in DOMAIN b.keys : b.keys[i] = b.keys[j] => i = j
ASSUME NoProcIsNoWorker == NoProc \notin Workers

VARIABLES items,        \* items[k]: the state column, or "absent"
          metadata,     \* metadata[k]: the other columns
          attempts,     \* attempts[k]: the attempt rows of k, by attempt number
          lock,         \* who holds the database's write lock
          download,     \* download[k]: how far downloader.ingest went for k
          registration, \* registration[r]: the item r registers
          answer,       \* answer[r]: r's progress, then what it was told
          batch,        \* batch[w]: the arguments of worker w
          pc,           \* pc[w]: where in execute_single_work_item w is
          attempt,      \* attempt[w]: the number of the attempt w claimed
          outcome,      \* outcome[w]: the attempt state w is about to record
          results       \* results[w]: the processed_results

ledgerVars == <<items, metadata, attempts, lock>>
registrarVars == <<registration, answer>>
workerVars == <<batch, pc, attempt, outcome, results>>
vars == <<ledgerVars, download, registrarVars, workerVars>>

WorkItem == INSTANCE WorkItemSpec

ItemStates == {"absent", "PLANNED", "CLAIMED", "SUCCEEDED", "REVIEW_REQUIRED"}
Final == {"SUCCEEDED", "FAILED", "INTERRUPTED"}
Blocked == {"WORK_ITEM_NOT_FOUND", "ALREADY_CLAIMED", "ALREADY_SUCCEEDED", "REVIEW_REQUIRED"}
Busy == {"begin", "claim", "load", "ingest", "select", "attemptRow", "itemRow"}
Told == {"CREATED", "EXISTING_MATCH", "Conflict", "SqliteError", "dead"}

TypeOK ==
  /\ items \in [Keys -> ItemStates]
  /\ metadata \in [Keys -> Metadata \cup {NoData}]
  /\ attempts \in [Keys -> Seq([state : {"CLAIMED"} \cup Final, owner : Workers])]
  /\ lock \in Workers \cup {NoProc}
  /\ download \in [Keys -> {"none", "started", "succeeded", "failed"}]
  /\ registration \in [Registrars -> Registrations]
  /\ answer \in [Registrars -> {"select", "insert"} \cup Told]
  /\ batch \in [Workers -> Batches]
  /\ pc \in [Workers -> Busy \cup {"done", "raised", "dead"}]
  /\ attempt \in [Workers -> Nat]
  /\ outcome \in [Workers -> Final]
  /\ results \in [Workers -> Seq([key : Keys, status : Final \cup Blocked])]

AtMost(i, j) == IF i < j THEN i ELSE j

\* keys[:max_items]: where a worker that has s results goes next.
KeepsGoing(w, s) == Len(s) < AtMost(Len(batch[w].keys), batch[w].max)
Key(w) == batch[w].keys[Len(results[w]) + 1]

Init ==
  /\ items = [k \in Keys |-> "absent"]
  /\ metadata = [k \in Keys |-> NoData]
  /\ attempts = [k \in Keys |-> <<>>]
  /\ lock = NoProc
  /\ download = [k \in Keys |-> "none"]
  /\ registration \in [Registrars -> Registrations]
  /\ answer = [r \in Registrars |-> "select"]
  /\ batch \in [Workers -> Batches]
  /\ pc = [w \in Workers |-> IF batch[w].keys = <<>> THEN "done" ELSE "begin"]
  /\ attempt = [w \in Workers |-> 0]
  /\ outcome = [w \in Workers |-> "FAILED"]
  /\ results = [w \in Workers |-> <<>>]
-----------------------------------------------------------------------------
Unlocked == lock = NoProc

\* register_work_item: SELECT, compare, and later INSERT under the primary key.  The
\* SELECT leaves the window out, the INSERT stores it.
RegisterSelect(r) ==
  LET k == registration[r].key
  IN  /\ answer[r] = "select"
      /\ answer' = [answer EXCEPT ![r] =
           IF items[k] = "absent" THEN "insert"
           ELSE IF metadata[k].columns = registration[r].data.columns THEN "EXISTING_MATCH"
           ELSE "Conflict"]
      /\ UNCHANGED <<ledgerVars, download, registration, workerVars>>

\* INSERT OR REPLACE.
RegisterReplace(r) ==
  LET k == registration[r].key
  IN  /\ answer[r] = "insert" /\ Unlocked
      /\ items' = [items EXCEPT ![k] = "PLANNED"]
      /\ metadata' = [metadata EXCEPT ![k] = registration[r].data]
      /\ answer' = [answer EXCEPT ![r] = "CREATED"]
      /\ UNCHANGED <<attempts, lock, download, registration, workerVars>>

RegisterInsert(r) ==
  LET k == registration[r].key
  IN  /\ answer[r] = "insert" /\ Unlocked
      /\ \/ /\ items[k] = "absent"
            /\ items' = [items EXCEPT ![k] = "PLANNED"]
            /\ metadata' = [metadata EXCEPT ![k] = registration[r].data]
            /\ answer' = [answer EXCEPT ![r] = "CREATED"]
         \/ /\ items[k] # "absent"
            /\ answer' = [answer EXCEPT ![r] = "SqliteError"]
            /\ UNCHANGED <<items, metadata>>
      /\ UNCHANGED <<attempts, lock, download, registration, workerVars>>
-----------------------------------------------------------------------------
\* A result is appended, and the batch goes on, ends, or is stopped by a failure.
Result(w, status) ==
  LET s == Append(results[w], [key |-> Key(w), status |-> status])
      stopped == batch[w].stop /\ status \in {"FAILED", "INTERRUPTED"}
  IN  /\ results' = [results EXCEPT ![w] = s]
      /\ pc' = [pc EXCEPT ![w] = IF KeepsGoing(w, s) /\ ~stopped THEN "begin" ELSE "done"]

ClaimStatus(state) ==
  CASE state = "absent" -> "WORK_ITEM_NOT_FOUND"
    [] state = "CLAIMED" -> "ALREADY_CLAIMED"
    [] state = "SUCCEEDED" -> "ALREADY_SUCCEEDED"
    [] state = "REVIEW_REQUIRED" -> "REVIEW_REQUIRED"

\* A read transaction: other claims may read the same PLANNED.
ClaimBeginDeferred(w) ==
  /\ pc[w] = "begin" /\ Unlocked
  /\ IF items[Key(w)] = "PLANNED"
     THEN pc' = [pc EXCEPT ![w] = "claim"] /\ UNCHANGED results
     ELSE Result(w, ClaimStatus(items[Key(w)]))
  /\ UNCHANGED <<ledgerVars, download, registrarVars, batch, attempt, outcome>>

\* BEGIN IMMEDIATE and SELECT state: a state other than PLANNED is rolled back.
ClaimBegin(w) ==
  /\ pc[w] = "begin" /\ Unlocked
  /\ \/ /\ items[Key(w)] = "PLANNED"
        /\ lock' = w
        /\ pc' = [pc EXCEPT ![w] = "claim"]
        /\ UNCHANGED results
     \/ /\ items[Key(w)] # "PLANNED"
        /\ Result(w, ClaimStatus(items[Key(w)]))
        /\ UNCHANGED lock
  /\ UNCHANGED <<items, metadata, attempts, download, registrarVars, batch, attempt, outcome>>

\* count(*) + 1, INSERT, UPDATE and COMMIT: seen by others all at once.
ClaimCommit(w) ==
  LET k == Key(w)
  IN  /\ pc[w] = "claim"
      /\ attempts' = [attempts EXCEPT ![k] = Append(@, [state |-> "CLAIMED", owner |-> w])]
      /\ items' = [items EXCEPT ![k] = "CLAIMED"]
      /\ attempt' = [attempt EXCEPT ![w] = Len(attempts[k]) + 1]
      /\ lock' = NoProc
      /\ pc' = [pc EXCEPT ![w] = "load"]
      /\ UNCHANGED <<metadata, download, registrarVars, batch, outcome, results>>

\* get_work_item, then downloader.ingest; no row means a failed attempt.
Load(w) ==
  LET k == Key(w)
  IN  /\ pc[w] = "load"
      /\ IF items[k] = "absent"
         THEN /\ pc' = [pc EXCEPT ![w] = "select"]
              /\ outcome' = [outcome EXCEPT ![w] = "FAILED"]
              /\ UNCHANGED download
         ELSE /\ pc' = [pc EXCEPT ![w] = "ingest"]
              /\ download' = [download EXCEPT ![k] = "started"]
              /\ UNCHANGED outcome
      /\ UNCHANGED <<ledgerVars, registrarVars, batch, attempt, results>>

\* result.success ignored: whatever ingest returned is a success.
IngestBelieved(w) ==
  /\ pc[w] = "ingest"
  /\ \E d \in {"succeeded", "failed"} : download' = [download EXCEPT ![Key(w)] = d]
  /\ outcome' = [outcome EXCEPT ![w] = "SUCCEEDED"]
  /\ pc' = [pc EXCEPT ![w] = "select"]
  /\ UNCHANGED <<ledgerVars, registrarVars, batch, attempt, results>>

\* ingest returns a result, raises, or is interrupted.
IngestEnds(w) ==
  /\ pc[w] = "ingest"
  /\ \E o \in Final :
       /\ outcome' = [outcome EXCEPT ![w] = o]
       /\ download' = [download EXCEPT ![Key(w)] =
                         IF o = "SUCCEEDED" THEN "succeeded" ELSE "failed"]
  /\ pc' = [pc EXCEPT ![w] = "select"]
  /\ UNCHANGED <<ledgerVars, registrarVars, batch, attempt, results>>

\* _complete, one autocommitted statement at a time.
CompleteSelect(w) ==
  /\ pc[w] = "select"
  /\ pc' = [pc EXCEPT ![w] =
       IF attempts[Key(w)][attempt[w]].state = "CLAIMED" THEN "attemptRow" ELSE "raised"]
  /\ UNCHANGED <<ledgerVars, download, registrarVars, batch, attempt, outcome, results>>

CompleteAttempt(w) ==
  /\ pc[w] = "attemptRow" /\ Unlocked
  /\ attempts' = [attempts EXCEPT ![Key(w)][attempt[w]] =
                    [state |-> outcome[w], owner |-> @.owner]]
  /\ pc' = [pc EXCEPT ![w] = "itemRow"]
  /\ UNCHANGED <<items, metadata, lock, download, registrarVars, batch, attempt, outcome, results>>

\* A failed item is planned again.
RetryFailedItem(w) ==
  /\ pc[w] = "itemRow" /\ Unlocked
  /\ items' = [items EXCEPT ![Key(w)] = IF outcome[w] = "SUCCEEDED" THEN "SUCCEEDED" ELSE "PLANNED"]
  /\ Result(w, outcome[w])
  /\ UNCHANGED <<metadata, attempts, lock, download, registrarVars, batch, attempt, outcome>>

\* _complete without its second UPDATE.
CompleteForgetsItem(w) ==
  /\ pc[w] = "itemRow"
  /\ Result(w, outcome[w])
  /\ UNCHANGED <<ledgerVars, download, registrarVars, batch, attempt, outcome>>

CompleteItem(w) ==
  /\ pc[w] = "itemRow" /\ Unlocked
  /\ items' = [items EXCEPT ![Key(w)] =
                 IF outcome[w] = "SUCCEEDED" THEN "SUCCEEDED" ELSE "REVIEW_REQUIRED"]
  /\ Result(w, outcome[w])
  /\ UNCHANGED <<metadata, attempts, lock, download, registrarVars, batch, attempt, outcome>>
-----------------------------------------------------------------------------
\* Closing the connection or losing the process rolls back an open transaction.
Unlock(w) == lock' = IF lock = w THEN NoProc ELSE lock

\* A sqlite3 error (the lock is busy for too long, a full disk), or an interrupt
\* outside ingest: no handler of the executor or the coordinator catches it.
Error(w) ==
  /\ pc[w] \in Busy \ {"ingest"}
  /\ pc' = [pc EXCEPT ![w] = "raised"]
  /\ Unlock(w)
  /\ UNCHANGED <<items, metadata, attempts, download, registrarVars, batch, attempt, outcome, results>>

Crash(w) ==
  /\ pc[w] \in Busy
  /\ pc' = [pc EXCEPT ![w] = "dead"]
  /\ Unlock(w)
  /\ UNCHANGED <<items, metadata, attempts, download, registrarVars, batch, attempt, outcome, results>>

RegistrarFails(r) ==
  /\ answer[r] \in {"select", "insert"}
  /\ \E a \in {"SqliteError", "dead"} : answer' = [answer EXCEPT ![r] = a]
  /\ UNCHANGED <<ledgerVars, download, registration, workerVars>>

RegistrarStep(r) == RegisterSelect(r) \/ RegisterInsert(r)
WorkerStep(w) ==
  \/ ClaimBegin(w) \/ ClaimCommit(w)
  \/ Load(w) \/ IngestEnds(w)
  \/ CompleteSelect(w) \/ CompleteAttempt(w) \/ CompleteItem(w)

Next == \/ \E r \in Registrars : RegistrarStep(r) \/ RegistrarFails(r)
        \/ \E w \in Workers : WorkerStep(w) \/ Error(w) \/ Crash(w)

Spec == Init /\ [][Next]_vars

\* A live process runs; sqlite grants the lock, or raises after five seconds;
\* ingest is a call that returns or raises.
FairSpec == /\ Spec
            /\ \A r \in Registrars : WF_vars(RegistrarStep(r))
            /\ \A w \in Workers : WF_vars(WorkerStep(w))
-----------------------------------------------------------------------------
Lost(w) == pc[w] \in {"raised", "dead"}

\* The two tables tell one story ("duplicate prevention", PROJECT_BLUEPRINT.md:235):
\* an item has an attempt exactly when it was claimed, never a second one, and it
\* is settled as that attempt ended.  Only between _complete's two UPDATEs, for
\* ever if the worker stops there, is the attempt ahead of the item.  An item that
\* is claimed with nobody at work on it lost its worker: the lease that
\* claim_work_item records is never looked at again.
TablesAgree ==
  \A k \in Keys :
    LET row == attempts[k][1]
    IN  /\ Len(attempts[k]) <= 1
        /\ items[k] \in {"absent", "PLANNED"} <=> attempts[k] = <<>>
        /\ items[k] = "SUCCEEDED" => row.state = "SUCCEEDED"
        /\ items[k] = "REVIEW_REQUIRED" => row.state \in {"FAILED", "INTERRUPTED"}
        /\ items[k] = "CLAIMED" =>
             \/ Lost(row.owner)
             \/ /\ pc[row.owner] \in Busy /\ Key(row.owner) = k
                /\ row.state = "CLAIMED" \/ pc[row.owner] = "itemRow"

\* What a reported status says of the ledger and of the download.
ReportHolds(w, x) ==
  /\ x.status \in Final => attempts[x.key][1].owner = w
  /\ x.status = "SUCCEEDED" => items[x.key] = "SUCCEEDED" /\ download[x.key] = "succeeded"
  /\ x.status \in {"FAILED", "INTERRUPTED"} => items[x.key] = "REVIEW_REQUIRED"
  /\ x.status = "ALREADY_SUCCEEDED" => items[x.key] = "SUCCEEDED"
  /\ x.status = "REVIEW_REQUIRED" => items[x.key] = "REVIEW_REQUIRED"
  /\ x.status = "ALREADY_CLAIMED" => items[x.key] \notin {"absent", "PLANNED"}

\* What a worker reports is durable: an ingested item is reported as the ledger
\* has it, by the worker whose attempt the ledger holds and by no other one, and a
\* reason for not claiming it never becomes false afterwards.
ReportsAreDurable ==
  \A w \in Workers : \A i \in DOMAIN results[w] : ReportHolds(w, results[w][i])

\* Of concurrent registrations of a key one is told CREATED, and the ledger keeps what
\* that one stored, the window included.  Those told EXISTING_MATCH agree with it on the
\* columns that are compared, which the window is not among: theirs may be another.
OneRegistration ==
  \A r \in Registrars :
    LET k == registration[r].key
    IN  /\ answer[r] = "CREATED" =>
             /\ metadata[k] = registration[r].data
             /\ \A s \in Registrars \ {r} : registration[s].key = k => answer[s] # "CREATED"
        /\ answer[r] = "EXISTING_MATCH" =>
             /\ metadata[k].columns = registration[r].data.columns
             /\ \E s \in Registrars : answer[s] = "CREATED" /\ registration[s].key = k

\* The statements implement the life of a work item.
ImplementsLifecycle == WorkItem!Spec

\* A claimed item is settled unless its worker is lost, whatever the other workers
\* and the registrars do.
ClaimsSettle ==
  \A k \in Keys :
    items[k] = "CLAIMED" ~> \/ items[k] \in {"SUCCEEDED", "REVIEW_REQUIRED"}
                            \/ \E i \in DOMAIN attempts[k] : Lost(attempts[k][i].owner)
===============================================================================
