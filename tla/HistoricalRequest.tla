-------------------------- MODULE HistoricalRequest --------------------------
(***************************************************************************)
(* One historical request with its data: planned from a dump and a work    *)
(* item, then attempted by run_planned_request through a                   *)
(* UnixHistoricalBrokerClient, whose server calls the broker.  Attempt n   *)
(* has a connection and a server thread of its own, and its request ID is  *)
(* n; the thread of an attempt the client gave up goes on.  The broker is  *)
(* a DeterministicFakeBroker that all threads share: its steps are         *)
(* callables, so any step does any of Deeds.                               *)
(*                                                                         *)
(* Budget, IDs and crashes are BudgetedRetry's subject, slots and stop()   *)
(* UnixServer's; here they are a budget that may be exhausted and          *)
(* connections that may be cut.                                            *)
(***************************************************************************)
EXTENDS SessionPlanning, RetryDelay

CONSTANTS Dumps,        \* the instrument-master dumps there may be
          Contexts,     \* what a ZerodhaHistoricalAdapterInput asks for
          Items,        \* the work items
          Policies,     \* the retry policies
          Deeds,        \* what a step of the broker may do
          Jitters,      \* what the jitter source may return
          Scripts,      \* how many steps the broker may have
          MaxPlans      \* plans made before one is run

\* A deed returns a response that may be refused, or raises an error of the protocol
\* or any other exception.
IsDeed(d) == /\ d.raises \in {"none", "an exception"} \cup ErrorCodes
             /\ Optional(d.response, Responses)
             /\ \A r \in d.response : Optional(r.http, Int) /\ Optional(r.retryAfter, Int)
             /\ d.raises = "none" <=> d.response # {}

ASSUME DumpsHaveRows == \A dump \in Dumps : \A i \in DOMAIN dump : IsRow(dump[i])
ASSUME ContextsAsk == \A c \in Contexts : {c.continuous, c.oi} \subseteq BOOLEAN
ASSUME ItemsHaveWindows == \A item \in Items : IsItem(item) /\ WindowAccepted(item)
ASSUME PoliciesAreAccepted == Policies \subseteq Policy /\ \A p \in Policies : PolicyAccepted(p)
\* Where the code takes the cap without comparing, after 63 doublings, it is reached.
ASSUME CapsAreReached ==
  \A p \in Policies : \/ p.maximum_attempts <= 64
                      \/ p.base = 0
                      \/ PowerOfTwo[63] * p.base >= p.cap
ASSUME DeedsAreDeeds == \A d \in Deeds : IsDeed(d)
ASSUME JittersAreNats == Jitters \subseteq Nat

VARIABLES made,      \* the plans made and refused so far
          policy,    \* the retry policy
          pc,        \* the run: planning, next, connect, await, done
          planned,   \* the CandleRequest that was planned
          history,   \* the attempt records
          result,    \* final_outcome, or the exception
          thread,    \* thread[n]: the server's thread for attempt n
          received,  \* received[n]: the frame it read
          reply,     \* reply[n]: the response it sent
          cut,       \* the attempts whose connection was cut or left by the client
          deed,      \* deed[n]: what the broker did for attempt n while it was connected
          steps,     \* the number of the broker's steps
          index      \* the broker's _index

runVars == <<pc, history, result>>
linkVars == <<thread, received, reply, cut>>
brokerVars == <<deed, steps, index>>
vars == <<made, policy, planned, runVars, linkVars, brokerVars>>

NoPolicy == [maximum_attempts |-> 0]
MaxAttempts == policy.maximum_attempts
Numbers == UNION {1..p.maximum_attempts : p \in Policies}
Number == Len(history) + 1

Init ==
  /\ made = {} /\ planned = {}
  /\ policy = NoPolicy
  /\ pc = "planning" /\ history = <<>> /\ result = "none"
  /\ thread = [n \in Numbers |-> "none"]
  /\ received = [n \in Numbers |-> {}]
  /\ reply = [n \in Numbers |-> {}]
  /\ cut = {}
  /\ deed = [n \in Numbers |-> {}]
  /\ steps = 0 /\ index = 0
-----------------------------------------------------------------------------
Query(input) ==
  [exchange |-> input.context.exchange, tradingsymbol |-> input.item.symbol,
   type |-> input.context.type, expiry |-> input.context.expiry, strike |-> input.context.strike]

\* Where the adapter gets to: a plan is made of the one record that resolves.
PlanOf(input) ==
  [item |-> input.item, snapshot |-> input.dump, snapshot_date |-> input.context.snapshot_date,
   exchange |-> input.context.exchange,
   instrument |-> input.dump[CHOOSE i \in Matching(input.dump, Query(input)) : TRUE],
   continuous |-> input.context.continuous, oi |-> input.context.oi]

Planned(input, id) ==
  IF ~Resolves(input.dump, Query(input))
  THEN [input |-> input, id |-> id, refusal |-> "RESOLUTION_FAILURE", request |-> {}, fingerprint |-> {}]
  ELSE LET plan == PlanOf(input)
           refusal == PlanRefusal(plan, id)
       IN  IF refusal # "none"
           THEN [input |-> input, id |-> id, refusal |-> refusal, request |-> {}, fingerprint |-> {}]
           ELSE [input |-> input, id |-> id, refusal |-> "none",
                 request |-> {CandleRequest(HistoricalRequestOf(plan, id))},
                 fingerprint |-> {Metadata(plan)}]

Plan(input, id) ==
  /\ pc = "planning" /\ Cardinality(made) < MaxPlans
  /\ Parses(input.dump)
  /\ made' = made \cup {Planned(input, id)}
  /\ UNCHANGED <<policy, planned, runVars, linkVars, brokerVars>>

\* One of the plans is run, with a policy and a broker; the others are of no further
\* interest.
Run ==
  /\ pc = "planning"
  /\ \E m \in made : m.request # {} /\ planned' = m.request
  /\ policy' \in Policies /\ steps' \in Scripts
  /\ pc' = "next" /\ made' = {}
  /\ UNCHANGED <<history, result, linkVars, deed, index>>
-----------------------------------------------------------------------------
Return(outcome) == pc' = "done" /\ result' = outcome

\* The request of an attempt: the planned one with an ID of its own.
Request == CandleRequest([CHOOSE r \in planned : TRUE EXCEPT !.request_id = Number])

\* The request is made anew and the budget asked for a unit.
Admit ==
  /\ pc = "next"
  /\ \/ /\ RequestRefusal(Request) # "none"
        /\ Return("InconsistentBrokerResponseError")
     \/ /\ RequestRefusal(Request) = "none"
        /\ \/ Return("BUDGET_EXHAUSTED")
           \/ pc' = "connect" /\ UNCHANGED result
  /\ UNCHANGED <<made, policy, planned, history, linkVars, brokerVars>>

\* What fetch_candles raises, and what it returns, as the run sees it.
Raised(code) == [code |-> code, http |-> {}, retryAfter |-> {}]
Returned(r) == [code |-> r.code, http |-> r.http, retryAfter |-> r.retryAfter]

Success(a) == a.code = "none" /\ a.http # {} /\ a.http \subseteq 200..299

\* The attempt is recorded; the run ends or waits out the delay, which it leaves to
\* its caller.
Settle(a) ==
  LET retry == a.code \in RetryableCodes /\ Number < MaxAttempts
  IN  /\ \E j \in Jitters :
           /\ j <= policy.jitterMax
           /\ history' = Append(history,
                [code |-> a.code, http |-> a.http, retry |-> retry,
                 delay |-> IF retry THEN {Delay(policy, Number, a.retryAfter, j)} ELSE {}])
      /\ IF retry THEN pc' = "next" /\ UNCHANGED result
         ELSE Return(IF Success(a) THEN "SUCCESS"
                     ELSE IF a.code = "none" THEN "INCONSISTENT_RESPONSE" ELSE a.code)
      /\ UNCHANGED <<made, policy, planned>>

\* connect() fails; no connection is made.
ConnectFails ==
  /\ pc = "connect"
  /\ \E code \in {"BROKER_TIMEOUT", "BROKER_UNAVAILABLE"} : Settle(Raised(code))
  /\ UNCHANGED <<linkVars, brokerVars>>

Send ==
  /\ pc = "connect"
  /\ pc' = "await"
  /\ thread' = [thread EXCEPT ![Number] = "read"]
  /\ received' = [received EXCEPT ![Number] = {Encoded(Request)}]
  /\ UNCHANGED <<made, policy, planned, history, result, reply, cut, brokerVars>>

\* A frame has come: it is decoded, and its ID compared with the request's.
Receive ==
  /\ pc = "await"
  /\ \E r \in reply[Number] :
       Settle(IF ResponseRefusal(r) = "none" /\ r.request_id = Number
              THEN Returned(r) ELSE Raised("MALFORMED_PROVIDER_RESPONSE"))
  /\ reply' = [reply EXCEPT ![Number] = {}]
  /\ UNCHANGED <<thread, received, cut, brokerVars>>

\* The connection ends before a frame has come.
Ended ==
  /\ pc = "await"
  /\ reply[Number] = {} /\ (thread[Number] = "done" \/ Number \in cut)
  /\ Settle(Raised("MALFORMED_PROVIDER_RESPONSE"))
  /\ UNCHANGED <<linkVars, brokerVars>>

\* The timeout applied to a connection that has ended, never to a silent one.
TimesOutAtTheEnd ==
  /\ pc = "await"
  /\ Number \in cut
  /\ Settle(Raised("BROKER_TIMEOUT"))
  /\ UNCHANGED <<linkVars, brokerVars>>

\* response_timeout: the client leaves, the server's thread is not told.
TimesOut ==
  /\ pc = "await"
  /\ cut' = cut \cup {Number}
  /\ Settle(Raised("BROKER_TIMEOUT"))
  /\ reply' = [reply EXCEPT ![Number] = {}]
  /\ UNCHANGED <<thread, received, brokerVars>>
-----------------------------------------------------------------------------
\* _serve_one reads the request: one that is refused is closed without a reply.
ServerReads(n) ==
  /\ thread[n] = "read"
  /\ \E f \in received[n] :
       thread' = [thread EXCEPT ![n] = IF RequestRefusal(f) = "none" THEN "broker" ELSE "done"]
  /\ received' = [received EXCEPT ![n] = {}]
  /\ UNCHANGED <<made, policy, planned, runVars, reply, cut, brokerVars>>

\* What allow_unexpected makes of a call for which there is no step.
NoCandles == [request_id |-> 0, transport |-> "PROVIDER_RESPONSE", http |-> {200},
              session |-> "READY", body |-> "some", retryAfter |-> {}, code |-> "none"]

\* fetch_candles of the fake: a step, or no step left.
FakeSteps ==
  IF index < steps THEN Deeds
  ELSE {[raises |-> "INTERNAL_BROKER_FAILURE", response |-> {}],
        [raises |-> "none", response |-> {NoCandles}]}

\* What the step does once its response is constructed with the request's ID: the
\* constructor raises for one that is not coherent.
Done(d, id) ==
  LET mine == {[r EXCEPT !.request_id = id] : r \in d.response}
      refused == {ResponseRefusal(r) : r \in mine} \ {"none"}
  IN  IF refused = {} THEN [raises |-> d.raises, response |-> mine]
      ELSE [raises |-> CHOOSE c \in refused : TRUE, response |-> {}]

\* Every failure answered alike.
AnswerAlike(id, d) ==
  IF d.response # {} THEN d.response ELSE {LocalFailure(id, "INTERNAL_BROKER_FAILURE")}

\* The reply to what the broker did: its response; the code it raised; a code for what
\* is not a broker error.  No reply where BrokerResponse refuses the local failure.
Answer(id, d) ==
  LET answer == IF d.response # {} THEN d.response
                ELSE {LocalFailure(id, IF d.raises \in ErrorCodes THEN d.raises
                                       ELSE "INTERNAL_BROKER_FAILURE")}
  IN  {r \in answer : ResponseRefusal(r) = "none"}

\* The broker is called and its answer sent, unless the client has gone.
BrokerActs(n) ==
  /\ thread[n] = "broker"
  /\ \E d \in FakeSteps :
       LET does == Done(d, n)
       IN  IF n \in cut THEN UNCHANGED <<deed, reply>>
           ELSE /\ deed' = [deed EXCEPT ![n] = {does}]
                /\ reply' = [reply EXCEPT ![n] = Answer(n, does)]
  /\ thread' = [thread EXCEPT ![n] = "done"]
  /\ index' = IF index < steps THEN index + 1 ELSE index
  /\ UNCHANGED <<made, policy, planned, runVars, received, cut, steps>>

\* The server closes the connection, its process dies, or a timeout of it passes.
Cut(n) ==
  /\ thread[n] \in {"read", "broker"} /\ n \notin cut
  /\ cut' = cut \cup {n}
  /\ \/ thread' = [thread EXCEPT ![n] = "done"]
     \/ thread[n] = "broker" /\ UNCHANGED thread
  /\ received' = [received EXCEPT ![n] = {}]
  /\ UNCHANGED <<made, policy, planned, runVars, reply, brokerVars>>

ClientStep == Admit \/ ConnectFails \/ Send \/ Receive \/ Ended \/ TimesOut

Next == \/ \E d \in Dumps, c \in Contexts, i \in Items, id \in {0, 1} :
             Plan([dump |-> d, context |-> c, item |-> i], id)
        \/ Run \/ ClientStep
        \/ \E n \in Numbers : ServerReads(n) \/ BrokerActs(n) \/ Cut(n)

Spec == Init /\ [][Next]_vars

\* The run's thread runs, and the timeouts of its sockets pass.
FairSpec == Spec /\ WF_vars(ClientStep)
-----------------------------------------------------------------------------
\* What the run would see of a deed if it called the broker itself.
Direct(d) == IF d.response # {} THEN Returned(CHOOSE r \in d.response : TRUE) ELSE Raised(d.raises)

\* The attempts in which the broker was called and the connection lasted.
Heard(n) == n \notin cut /\ deed[n] # {}

\* The backoff before retry n as the documents have it: the base, doubled, up to the cap.
Backoff(p) ==
  LET delay[n \in Nat] == IF n <= 1 THEN p.base ELSE Least(p.cap, 2 * delay[n - 1])
  IN  delay

\* The delay is the longest of these.
LongestOf(delay, waits) == \E d \in waits : delay = {d} /\ \A e \in waits : e <= d

\* An attempt's record tells what the broker did, whatever became of earlier
\* attempts: its code, its status, whether it is retried, and the documented delay,
\* "max(min(cap, base * 2**(retry-1)) + deterministic jitter, bounded Retry-After) for
\* valid provider 429 metadata" (AGENT_HANDOFF.md:135).  Of another answer with a
\* Retry-After, a PROVIDER_5XX, the document says nothing: the delay may honour it, as
\* retry.py:341 does, or be the backoff with its jitter alone.  If the broker was not
\* heard the record has a code of the connection, and never a success.  Excepted: the
\* broker raised what is no broker error, or a provider code, see RetryIsRetained.
RecordsAreTrue ==
  \A n \in DOMAIN history :
    /\ ~Heard(n) => history[n].code \in {"BROKER_TIMEOUT", "BROKER_UNAVAILABLE",
                                        "MALFORMED_PROVIDER_RESPONSE"}
    /\ \A d \in deed[n] :
         Heard(n) /\ d.raises \in {"none"} \cup (ErrorCodes \ ProviderErrorCodes) =>
           /\ history[n].code = Direct(d).code
           /\ history[n].http = Direct(d).http
           /\ history[n].retry <=> Direct(d).code \in RetryableCodes /\ n < MaxAttempts
    /\ history[n].retry =>
         \E j \in 0..policy.jitterMax :
           LET own == Backoff(policy)[n] + j
               asked == UNION {Honoured(policy, Direct(d).retryAfter) : d \in {e \in deed[n] : Heard(n)}}
           IN  \/ LongestOf(history[n].delay, {own} \cup asked)
               \/ history[n].code # "PROVIDER_429" /\ history[n].delay = {own}

\* "The adapter needs no orchestration change: it can use the Unix client through
\* HistoricalBroker, retaining adapter-owned retry" (AGENT_HANDOFF.md:66): a broker
\* that was heard is retried as if it had been called without a socket between.
RetryIsRetained ==
  \A n \in DOMAIN history : \A d \in deed[n] :
    Heard(n) => (history[n].retry <=> Direct(d).code \in RetryableCodes /\ n < MaxAttempts)

\* What one part of the pipeline accepts the next ones serve.  A plan fails as
\* INVALID_REQUEST_ID for no other reason than its ID, the run can make every
\* attempt's request of a plan, and the server refuses none of them; and a record
\* the parser accepted, asked for by the identity it has, is planned for every
\* session of the ingestion planner up to its expiry.  Excepted are records the
\* README lists: names not in upper case, tokens in other digits, and strikes of
\* zero on an equity or a future.
PlansAreServed ==
  /\ \A m \in made : m.refusal = "INVALID_REQUEST_ID" => m.id = 0
  /\ result # "InconsistentBrokerResponseError"
  /\ \A n \in DOMAIN thread : thread[n] = "done" /\ deed[n] = {} => n \in cut
  /\ \A m \in made :
       LET q == Query(m.input)
           day == m.input.item.session_date
       IN  /\ m.id # 0 /\ ~m.input.context.continuous
           /\ m.input.item \in MinuteIngestion("zerodha", m.input.item.symbol, {day})
           /\ \A e \in q.expiry : day <= e
           /\ Cardinality(Matching(m.input.dump, q)) = 1
           /\ \A i \in Matching(m.input.dump, q) :
                LET record == m.input.dump[i]
                IN  /\ record.exchange.form = "upper" /\ record.tradingsymbol.form = "upper"
                    /\ record.token.form \in {"plain", "padded"}
                    /\ record.type \notin Options => record.strike = {}
           => m.refusal = "none"

\* What two plans ask the provider for, without the way it is written.
SameData(p, q) ==
  /\ p.item.from.at = q.item.from.at /\ p.item.to.at = q.item.to.at
  /\ p.instrument.token.value = q.instrument.token.value
  /\ p.instrument.type = q.instrument.type /\ p.instrument.expiry = q.instrument.expiry
  /\ Values(p.instrument.strike) = Values(q.instrument.strike)
  /\ p.exchange = q.exchange /\ p.item.symbol = q.item.symbol
  /\ p.snapshot = q.snapshot /\ p.snapshot_date = q.snapshot_date /\ p.oi = q.oi

\* Fingerprints name data: two plans have one fingerprint exactly when they ask for
\* the same data of the same snapshot, of the same date, in whatever zone and notation,
\* so that their attempts share a place in the artifact store and no others do.
FingerprintsAgree ==
  \A p, q \in {m \in made : m.refusal = "none"} :
    p.fingerprint = q.fingerprint <=> SameData(PlanOf(p.input), PlanOf(q.input))

\* Every run ends: whatever the server and the broker do, or never do, the client's
\* timeouts and the limit of attempts bring it to a result.
RunEnds == pc = "next" ~> pc = "done"
===============================================================================
