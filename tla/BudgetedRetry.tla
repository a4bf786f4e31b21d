---------------------------- MODULE BudgetedRetry ----------------------------
(***************************************************************************)
(* dhan_lean/providers/zerodha/retry.py: run_planned_request.  Several     *)
(* runs, each in its own process, share one durable window of the request  *)
(* budget.  The budget is the atomic one of RequestBudgetSpec, which       *)
(* RequestBudget implements: a unit is taken when consume() commits and    *)
(* granted when consume() returns, and a run may die in between.           *)
(***************************************************************************)
EXTENDS Integers, Sequences, FiniteSets

CONSTANTS Runs,         \* the calls of run_planned_request
          Window,       \* the (scope, window) the retry policy names
          Allowances,   \* what configure() may have been given
          MaxAttempts,  \* retry_policy.maximum_attempts
          RequestIds,   \* what the request-ID factory may return
          NoRow

ASSUME MaxAttemptsPositive == MaxAttempts \in Nat \ {0}
ASSUME AllowancesAreNats == Allowances \subseteq Nat
ASSUME NoRowIsNoRow == NoRow \notin [allowance : Nat, consumed : Nat]

VARIABLES rows, granted, \* the shared budget, see RequestBudgetSpec
          pc,            \* pc[r]: where run r is
          requestId,     \* requestId[r]: the ID of the attempt being made
          unit,          \* unit[r]: the budget unit consume() committed for it
          history,       \* history[r]: the attempt records
          result,        \* result[r]: the BudgetedBrokerResult, when returned
          calls          \* history of <<r, id>>: broker.fetch_candles was called

budgetVars == <<rows, granted>>
vars == <<rows, granted, pc, requestId, unit, history, result, calls>>

Budget == INSTANCE RequestBudgetSpec WITH Windows <- {Window}

\* The classes of BrokerErrorCode that error_policy() and the allowlist tell apart.
Retryable == {"retryable"}
Reauthentication == {"reauth"}
ErrorClasses == {"retryable", "reauth", "terminal"}

\* A response may carry an error code, no code and a 2xx status ("success"), or no
\* code and another status ("odd").
Codes == {"success", "odd"} \cup ErrorClasses

\* What fetch_candles returns or raises.
Answers == [raised : {FALSE}, code : Codes] \cup [raised : {TRUE}, code : ErrorClasses]

\* Exceptions run_planned_request raises instead of returning a result.
Failures == {"InvalidRequestId", "DuplicateRequestId", "InconsistentResponse",
             "BudgetConfiguration", "UnexpectedException", "InvalidRetryPolicy",
             "AttemptObserver"}

NoResult == [outcome |-> "none"]
Records == [id : RequestIds, consumed : BOOLEAN, code : {"none"} \cup Codes, retry : BOOLEAN]
Results == [outcome : {"SUCCESS", "BUDGET_EXHAUSTED", "INCONSISTENT_RESPONSE"} \cup ErrorClasses,
            used : Nat, budget : BOOLEAN, limit : BOOLEAN, reauth : BOOLEAN]

Live == {"next", "consume", "taken", "waiting"}
PCs == Live \cup {"returned", "raised", "dead", "deadTaken"}

TypeOK ==
  /\ rows \in [{Window} -> [allowance : Nat, consumed : Nat]]
  /\ granted \in [{Window} -> SUBSET Nat]
  /\ pc \in [Runs -> PCs]
  /\ requestId \in [Runs -> RequestIds]
  /\ unit \in [Runs -> Nat]
  /\ history \in [Runs -> Seq(Records)]
  /\ \A r \in Runs : Len(history[r]) <= MaxAttempts
  /\ result \in [Runs -> Results \cup {NoResult} \cup [outcome : Failures]]
  /\ calls \subseteq Runs \X RequestIds

Init ==
  /\ \E a \in Allowances : rows = [w \in {Window} |-> [allowance |-> a, consumed |-> 0]]
  /\ granted = [w \in {Window} |-> {}]
  /\ pc = [r \in Runs |-> "next"]
  /\ \E id \in RequestIds : requestId = [r \in Runs |-> id]
  /\ unit = [r \in Runs |-> 0]
  /\ history = [r \in Runs |-> <<>>]
  /\ result = [r \in Runs |-> NoResult]
  /\ calls = {}
-----------------------------------------------------------------------------
Number(r) == Len(history[r]) + 1
SeenIds(r) == {history[r][i].id : i \in DOMAIN history[r]}
Used(r) == Cardinality({i \in DOMAIN history[r] : history[r][i].consumed})
Remaining == rows[Window].allowance - rows[Window].consumed

Exhausted == Remaining < 1

PermittedAnyError(r, code) == code \in ErrorClasses /\ Number(r) < MaxAttempts

\* permitted and attempt_limit: a retryable code, before and at the last attempt.
Permitted(r, code) == code \in Retryable /\ Number(r) < MaxAttempts

\* The last attempt's limit reported for every error.
AttemptLimitAnyError(r, code) == code \in ErrorClasses /\ Number(r) >= MaxAttempts

AttemptLimit(r, code) == code \in Retryable /\ Number(r) >= MaxAttempts

Record(r, consumed, code, retry) ==
  [id |-> requestId[r], consumed |-> consumed, code |-> code, retry |-> retry]

Raise(r, failure) ==
  /\ pc' = [pc EXCEPT ![r] = "raised"]
  /\ result' = [result EXCEPT ![r] = [outcome |-> failure]]

Return(r, outcome, used, budget, limit, reauth) ==
  /\ pc' = [pc EXCEPT ![r] = "returned"]
  /\ result' = [result EXCEPT ![r] = [outcome |-> outcome, used |-> used, budget |-> budget,
                                      limit |-> limit, reauth |-> reauth]]

\* The factory gives a canonical UUID or none; a fresh one goes into the request
\* of the attempt, which may refuse the planned one's data.
NextRequestId(r) ==
  /\ pc[r] = "next"
  /\ \/ /\ Raise(r, "InvalidRequestId")
        /\ UNCHANGED requestId
     \/ /\ \E id \in RequestIds : id \in SeenIds(r)
        /\ Raise(r, "DuplicateRequestId")
        /\ UNCHANGED requestId
     \/ \E id \in RequestIds :
          /\ id \notin SeenIds(r)
          /\ requestId' = [requestId EXCEPT ![r] = id]
          /\ \/ Raise(r, "InconsistentResponse")
             \/ /\ pc' = [pc EXCEPT ![r] = "consume"]
                /\ UNCHANGED result
  /\ UNCHANGED <<budgetVars, unit, history, calls>>

\* consume() commits: the unit is gone, but the run has not been told.
Consume(r) ==
  /\ pc[r] = "consume"
  /\ ~Exhausted
  /\ rows' = [rows EXCEPT ![Window] = [allowance |-> @.allowance, consumed |-> @.consumed + 1]]
  /\ unit' = [unit EXCEPT ![r] = rows[Window].consumed + 1]
  /\ pc' = [pc EXCEPT ![r] = "taken"]
  /\ UNCHANGED <<granted, requestId, history, result, calls>>

BudgetExhausted(r) ==
  /\ pc[r] = "consume"
  /\ Exhausted
  /\ history' = [history EXCEPT ![r] = Append(@, Record(r, FALSE, "none", FALSE))]
  /\ Return(r, "BUDGET_EXHAUSTED", Used(r), TRUE, FALSE, FALSE)
  /\ UNCHANGED <<budgetVars, requestId, unit, calls>>

\* The exception swallowed: the broker is called without a unit.
CallUnbudgeted(r) ==
  /\ pc[r] = "consume"
  /\ calls' = calls \cup {<<r, requestId[r]>>}
  /\ pc' = [pc EXCEPT ![r] = "waiting"]
  /\ UNCHANGED <<budgetVars, requestId, unit, history, result>>

\* consume() raises RequestBudgetStateError: lock timeout or another sqlite3.Error.
BudgetFails(r) ==
  /\ pc[r] = "consume"
  /\ Raise(r, "BudgetConfiguration")
  /\ UNCHANGED <<budgetVars, requestId, unit, history, calls>>

\* consume() returns and the broker is called at once.
CallBroker(r) ==
  /\ pc[r] = "taken"
  /\ granted' = [granted EXCEPT ![Window] = @ \cup {unit[r]}]
  /\ calls' = calls \cup {<<r, requestId[r]>>}
  /\ pc' = [pc EXCEPT ![r] = "waiting"]
  /\ UNCHANGED <<rows, requestId, unit, history, result>>

\* The attempt is recorded and observed, then the run ends or goes round again.
Answered(r, a) ==
  /\ pc[r] = "waiting"
  /\ LET retry == Permitted(r, a.code)
     IN  /\ history' = [history EXCEPT ![r] = Append(@, Record(r, TRUE, a.code, retry))]
         /\ \/ Raise(r, "AttemptObserver")
            \/ /\ a.code = "success"
               /\ Return(r, "SUCCESS", Used(r) + 1, FALSE, FALSE, FALSE)
            \/ /\ a.code # "success" /\ ~retry
               /\ Return(r, IF a.code = "odd" THEN "INCONSISTENT_RESPONSE" ELSE a.code,
                         Used(r) + 1, FALSE, AttemptLimit(r, a.code),
                         a.code \in Reauthentication)
            \/ /\ retry
               /\ pc' = [pc EXCEPT ![r] = "next"]
               /\ UNCHANGED result
  /\ UNCHANGED <<budgetVars, requestId, unit, calls>>

\* The broker raises something untyped or answers another request's ID, or before
\* a retry the jitter source returns no valid duration: nothing is recorded.
CallFails(r) ==
  /\ pc[r] = "waiting"
  /\ \/ Raise(r, "UnexpectedException")
     \/ Raise(r, "InconsistentResponse")
     \/ Number(r) < MaxAttempts /\ Raise(r, "InvalidRetryPolicy")
  /\ UNCHANGED <<budgetVars, requestId, unit, history, calls>>

\* The process dies.  A unit it took without being told is lost for good.
Crash(r) ==
  /\ pc[r] \in Live
  /\ pc' = [pc EXCEPT ![r] = IF pc[r] = "taken" THEN "deadTaken" ELSE "dead"]
  /\ UNCHANGED <<budgetVars, requestId, unit, history, result, calls>>

Step(r) == \/ NextRequestId(r)
           \/ Consume(r) \/ BudgetExhausted(r) \/ BudgetFails(r)
           \/ CallBroker(r)
           \/ \E a \in Answers : Answered(r, a)
           \/ CallFails(r)

Next == \E r \in Runs : Step(r) \/ Crash(r)

Spec == Init /\ [][Next]_vars
-----------------------------------------------------------------------------
\* "Atomically consumes exactly one durable budget unit immediately before every
\* fake-broker call" (AGENT_HANDOFF.md:134): the calls of all runs together are
\* as many as the units granted, so never more than the window's allowance, and
\* the units that were taken and never used are exactly those of the runs that
\* died, or still are, between consume()'s COMMIT and its return.
OneUnitPerCall ==
  /\ Cardinality(calls) = Cardinality(granted[Window])
  /\ Cardinality(calls) <= rows[Window].allowance
  /\ rows[Window].consumed = Cardinality(calls)
       + Cardinality({r \in Runs : pc[r] \in {"taken", "deadTaken"}})

\* An attempt is made only after permitted retries, each with an ID of its own:
\* nothing follows a success, an error that is not retryable, or a refusal by the
\* budget.
OnlyRetriesPrecede ==
  \A r \in Runs :
    /\ \A i, j \in DOMAIN history[r] :
         i < j => /\ history[r][i].retry /\ history[r][i].code \in Retryable
                  /\ history[r][i].id # history[r][j].id
    /\ pc[r] \in Live /\ history[r] # <<>> =>
         history[r][Len(history[r])].retry

\* A returned result accounts for the run: the units it reports are its broker
\* calls, each terminal flag says how the last attempt ended, so that no result
\* is one __post_init__ refuses, and BUDGET_EXHAUSTED is final for all runs.
ResultAccounts ==
  \A r \in Runs : pc[r] = "returned" =>
    LET last == history[r][Len(history[r])]
    IN  /\ result[r].used = Cardinality({c \in calls : c[1] = r})
        /\ result[r].budget <=> ~last.consumed
        /\ result[r].budget => rows[Window].consumed = rows[Window].allowance
        /\ result[r].limit <=> Len(history[r]) = MaxAttempts /\ last.code \in Retryable
        /\ result[r].reauth <=> last.code \in Reauthentication
        /\ result[r].outcome = "SUCCESS" <=> last.code = "success"
        /\ result[r].outcome \in Retryable => result[r].limit

\* The runs use the budget as RequestBudgetSpec allows, once it is configured.
UsesBudget == [][Budget!Next]_budgetVars
=============================================================================
