-------------------------- MODULE HistoricalAdapter --------------------------
(***************************************************************************)
(* dhan_lean/providers/zerodha/adapter.py: ZerodhaHistoricalAdapter.run,   *)
(* with publish_budgeted_result of artifacts.py.  Several adapters, each a *)
(* process of its own, work on one planned request: they share the request *)
(* budget (BudgetedRetry) and the artifact store, where an attempt has its *)
(* place by number and request ID.  Publishing one attempt is one step     *)
(* here; BundlePublisher takes it apart.                                   *)
(***************************************************************************)
EXTENDS BudgetedRetry

VARIABLES phase,     \* phase[r]: what adapter r is doing
          body,      \* body[r]: what the body of r's 2xx response holds
          published, \* published[r]: how many attempts r has published
          store,     \* the artifact store: <<number, request ID>> -> bundle
          status     \* status[r]: the status of the adapter's result

adapterVars == <<phase, body, published, store, status>>
allVars == <<vars, adapterVars>>

\* What parse_historical_candles and validate_normalized_bars make of a body.
Bodies == {"bars", "empty", "invalid", "malformed"}

AdapterInit ==
  /\ Init
  /\ phase = [r \in Runs |-> "prepare"]
  /\ body = [r \in Runs |-> "none"]
  /\ published = [r \in Runs |-> 0]
  /\ store = <<>>
  /\ status = [r \in Runs |-> "none"]
-----------------------------------------------------------------------------
\* _attempt_path and _expected_files for r's attempt number i.
Place(r, i) == <<i, history[r][i].id>>
Bundle(r, i) ==
  [attempt |-> history[r][i], body |-> IF history[r][i].code = "success" THEN body[r] ELSE "none"]

Finish(r, s) ==
  /\ phase' = [phase EXCEPT ![r] = "done"]
  /\ status' = [status EXCEPT ![r] = s]

\* Resolution, planning and the check of the execution dependencies.
Prepare(r) ==
  /\ phase[r] = "prepare"
  /\ \/ \E s \in {"RESOLUTION_FAILURE", "PLANNING_FAILURE", "LOCAL_FAILURE"} : Finish(r, s)
     \/ phase' = [phase EXCEPT ![r] = "execute"] /\ UNCHANGED status
  /\ UNCHANGED <<vars, body, published, store>>

\* A step of run_planned_request.  The adapter's observer stores the response in a
\* dict and cannot fail.
Execute(r) ==
  /\ phase[r] = "execute"
  /\ Step(r)
  /\ result'[r].outcome # "AttemptObserver"
  /\ UNCHANGED adapterVars

\* run_planned_request returned, with the last response, or raised: an exception ends the
\* adapter.
Executed(r) ==
  /\ phase[r] = "execute"
  /\ \/ /\ pc[r] = "returned" /\ phase' = [phase EXCEPT ![r] = "publish"]
        /\ \E b \in IF result[r].outcome = "SUCCESS" THEN Bodies ELSE {"none"} :
             body' = [body EXCEPT ![r] = b]
        /\ UNCHANGED status
     \/ pc[r] = "raised" /\ Finish(r, "LOCAL_FAILURE") /\ UNCHANGED body
  /\ UNCHANGED <<vars, published, store>>

Unpublished(r) == published[r] + 1

\* The bundle is written whatever is there.
PublishOver(r) ==
  /\ phase[r] = "publish" /\ published[r] < Len(history[r])
  /\ LET i == Unpublished(r)
     IN  store' = [x \in DOMAIN store \cup {Place(r, i)} |->
                     IF x = Place(r, i) THEN Bundle(r, i) ELSE store[x]]
  /\ published' = [published EXCEPT ![r] = @ + 1]
  /\ UNCHANGED <<vars, phase, body, status>>

\* publish_attempt_artifact: PUBLISHED at a free place, REUSED over the same bytes.
Publish(r) ==
  /\ phase[r] = "publish" /\ published[r] < Len(history[r])
  /\ LET i == Unpublished(r)
         x == Place(r, i)
     IN  \/ /\ x \notin DOMAIN store
            /\ store' = [y \in DOMAIN store \cup {x} |-> IF y = x THEN Bundle(r, i) ELSE store[y]]
         \/ /\ x \in DOMAIN store
            /\ store[x] = Bundle(r, i)
            /\ UNCHANGED store
  /\ published' = [published EXCEPT ![r] = @ + 1]
  /\ UNCHANGED <<vars, phase, body, status>>

\* After a failed publication the broker is asked again.
RetryPublication(r) ==
  /\ phase[r] = "publish" /\ published[r] < Len(history[r])
  /\ phase' = [phase EXCEPT ![r] = "execute"]
  /\ status' = [status EXCEPT ![r] = "ARTIFACT_PUBLICATION_FAILURE"]
  /\ pc' = [pc EXCEPT ![r] = "next"]
  /\ UNCHANGED <<budgetVars, requestId, unit, history, result, calls, body, published, store>>

\* Other bytes are there, or the publication fails, before or after its rename; the
\* attempts that follow are not tried.
PublishFails(r) ==
  /\ phase[r] = "publish" /\ published[r] < Len(history[r])
  /\ LET i == Unpublished(r)
         x == Place(r, i)
     IN  \/ UNCHANGED store
         \/ /\ x \notin DOMAIN store
            /\ store' = [y \in DOMAIN store \cup {x} |-> IF y = x THEN Bundle(r, i) ELSE store[y]]
  /\ Finish(r, "ARTIFACT_PUBLICATION_FAILURE")
  /\ UNCHANGED <<vars, body, published>>

\* The order of the tests at the end of run(); a success depends on the body.
BodyStatus == [bars |-> "SUCCESS", empty |-> "EMPTY_RESPONSE",
               invalid |-> "VALIDATION_FAILURE", malformed |-> "MALFORMED_PROVIDER_RESPONSE"]

\* The flags ignored: a body with bars is a success.
ClassifyByBody(r) ==
  IF body[r] = "bars" THEN "SUCCESS" ELSE "PROVIDER_FAILURE"

Classify(r) ==
  IF result[r].budget THEN "BUDGET_EXHAUSTED"
  ELSE IF result[r].limit THEN "RETRY_LIMIT_EXHAUSTED"
  ELSE IF result[r].reauth THEN "REAUTHENTICATION_REQUIRED"
  ELSE IF result[r].outcome = "SUCCESS" THEN BodyStatus[body[r]] ELSE "PROVIDER_FAILURE"

\* The result of the run, classified once every attempt is published.
Conclude(r) ==
  /\ phase[r] = "publish" /\ published[r] = Len(history[r])
  /\ Finish(r, Classify(r))
  /\ UNCHANGED <<vars, body, published, store>>

\* The adapter's process dies, between calls or inside one.
AdapterCrash(r) ==
  /\ phase[r] \in {"prepare", "execute", "publish"}
  /\ phase' = [phase EXCEPT ![r] = "dead"]
  /\ IF pc[r] \in Live /\ phase[r] = "execute"
     THEN pc' = [pc EXCEPT ![r] = IF pc[r] = "taken" THEN "deadTaken" ELSE "dead"]
     ELSE UNCHANGED pc
  /\ UNCHANGED <<budgetVars, requestId, unit, history, result, calls, body, published, store, status>>

AdapterStep(r) ==
  \/ Prepare(r) \/ Execute(r) \/ Executed(r)
  \/ Publish(r) \/ PublishFails(r) \/ Conclude(r)

AdapterNext == \E r \in Runs : AdapterStep(r) \/ AdapterCrash(r)

AdapterSpec == AdapterInit /\ [][AdapterNext]_allVars
-----------------------------------------------------------------------------
Stored(r, i) == Place(r, i) \in DOMAIN store /\ store[Place(r, i)] = Bundle(r, i)

\* "Publishes every eligible attempt" (AGENT_HANDOFF.md:90): a result that rests on a
\* BudgetedBrokerResult has all of its attempts in the store, byte for byte, and they
\* stay there whatever another adapter publishes in the same place: "conflicting
\* bytes/metadata fail closed" (AGENT_HANDOFF.md:123).
ResultsAreEvidenced ==
  \A r \in Runs :
    status[r] \notin {"none", "RESOLUTION_FAILURE", "PLANNING_FAILURE", "LOCAL_FAILURE",
                      "ARTIFACT_PUBLICATION_FAILURE"} =>
      \A i \in DOMAIN history[r] : Stored(r, i)

\* Bars are handed out only after a unit was taken, the broker called, its answer
\* accepted and stored, and the body parsed and validated; and each of the outcomes
\* that AGENT_HANDOFF.md:96 calls distinct has the last attempt that it claims.
StatusIsEarned ==
  \A r \in Runs : phase[r] = "done" /\ pc[r] = "returned" =>
    LET last == history[r][Len(history[r])]
    IN  /\ status[r] \in {"SUCCESS", "EMPTY_RESPONSE", "VALIDATION_FAILURE",
                          "MALFORMED_PROVIDER_RESPONSE"} =>
             last.code = "success" /\ <<r, last.id>> \in calls
        /\ status[r] = "SUCCESS" => body[r] = "bars"
        /\ status[r] = "BUDGET_EXHAUSTED" => rows[Window].consumed = rows[Window].allowance
        /\ status[r] = "RETRY_LIMIT_EXHAUSTED" =>
             Cardinality({c \in calls : c[1] = r}) = MaxAttempts
        /\ status[r] = "REAUTHENTICATION_REQUIRED" => last.code \in Reauthentication
        /\ status[r] = "PROVIDER_FAILURE" => last.code \in {"odd", "terminal"}

\* "Artifact failure is terminal for the adapter and cannot cause a retry or an
\* additional broker call" (AGENT_HANDOFF.md:103).
NoCallOnceDone ==
  [][\A r \in Runs : phase[r] \in {"publish", "done", "dead"} \/ status[r] # "none" =>
       \A id \in RequestIds : <<r, id>> \in calls' => <<r, id>> \in calls]_allVars
==============================================================================
