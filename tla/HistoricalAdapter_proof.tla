----------------------- MODULE HistoricalAdapter_proof -----------------------
(***************************************************************************)
(* Proofs about BudgetedRetry and HistoricalAdapter, for any number of     *)
(* runs (finite or not), any allowance, maximum of attempts and set of     *)
(* request IDs, and whatever the store holds.                              *)
(*                                                                         *)
(* The first part is about the runs.  Their inductive invariant has two    *)
(* parts: the books of the shared window, which count units, calls and     *)
(* runs between COMMIT and return against each other, and what each run    *)
(* may rely on, stated over that run's own values so that a step of        *)
(* another run cannot disturb it.                                          *)
(*                                                                         *)
(* The second part is about the adapters.  An adapter adds nothing to the  *)
(* behaviours of the runs, so that all that is proved of them is true of   *)
(* its run; its own invariant relates the phase of an adapter to its run,  *)
(* to what it has published and to the status it ends with.                *)
(***************************************************************************)
EXTENDS HistoricalAdapter, FiniteSetTheorems, SequenceTheorems, TLAPS

CallsOf(r) == {c \in calls : c[1] = r}
Taking == {r \in Runs : pc[r] \in {"taken", "deadTaken"}}
Units == rows[Window].consumed
Last(h) == h[Len(h)]
Ids(h) == {h[i].id : i \in DOMAIN h}
UsedIn(h) == Cardinality({i \in DOMAIN h : h[i].consumed})

\* The books of the window.  A unit that a run holds is one that nobody else holds
\* and that was not granted before.
Balanced ==
  /\ IsFiniteSet(calls) /\ IsFiniteSet(granted[Window]) /\ IsFiniteSet(Taking)
  /\ Cardinality(calls) = Cardinality(granted[Window])
  /\ Units = Cardinality(calls) + Cardinality(Taking)
  /\ Units <= rows[Window].allowance
  /\ granted[Window] \subseteq 1 .. Units

Holds(r) == /\ unit[r] \in 1 .. Units
            /\ unit[r] \notin granted[Window]
            /\ \A q \in Taking \ {r} : unit[q] # unit[r]

\* A record says whether a unit was consumed, and a retry is for a retryable code.
RecordFits(x) == /\ x.retry => x.code \in Retryable
                 /\ x.consumed <=> x.code # "none"

HistoryFits(h) ==
  /\ h \in Seq(Records)
  /\ \A i \in 1 .. Len(h) : RecordFits(h[i])
  /\ \A i, j \in 1 .. Len(h) : i < j => h[i].retry /\ h[i].id # h[j].id

\* What run r may rely on at pc "at", with the history h, the ID id and its calls C.
RunFits(r, at, id, h, C) ==
  /\ HistoryFits(h)
  /\ Len(h) <= MaxAttempts
  /\ at \in Live => Len(h) < MaxAttempts /\ (h # <<>> => Last(h).retry)
  /\ at \in {"consume", "taken", "waiting"} => id \notin Ids(h)
  /\ \A c \in C : c[2] \in Ids(h) \/ (c[2] = id /\ at \notin {"next", "consume", "taken"})
  /\ \A i \in 1 .. Len(h) : h[i].consumed => <<r, h[i].id>> \in C
  /\ at \in {"next", "consume", "taken", "returned"} => Cardinality(C) = UsedIn(h)
  /\ at = "waiting" => Cardinality(C) = UsedIn(h) + 1 /\ <<r, id>> \in C

\* What a returned result says of the history it was computed from.
ResultFits(at, h, res) ==
  at = "returned" =>
    /\ res \in Results
    /\ Len(h) \in 1 .. MaxAttempts
    /\ res.used = UsedIn(h)
    /\ res.budget <=> ~Last(h).consumed
    /\ res.limit <=> Len(h) = MaxAttempts /\ Last(h).code \in Retryable
    /\ res.reauth <=> Last(h).code \in Reauthentication
    /\ res.outcome = "SUCCESS" <=> Last(h).code = "success"
    /\ Last(h).code \in ErrorClasses => res.outcome = Last(h).code
    /\ res.outcome \in Retryable => res.limit

RunOK(r) == /\ RunFits(r, pc[r], requestId[r], history[r], CallsOf(r))
            /\ ResultFits(pc[r], history[r], result[r])

BudgetSpent == \A r \in Runs : pc[r] = "returned" /\ result[r].budget =>
                 Units = rows[Window].allowance

IInv == /\ TypeOK
        /\ Balanced
        /\ \A r \in Taking : Holds(r)
        /\ \A r \in Runs : RunOK(r)
        /\ BudgetSpent
-----------------------------------------------------------------------------
\* What appending a record does to the helpers on histories.

LEMMA UsedIsCounted ==
  ASSUME NEW h \in Seq(Records)
  PROVE  /\ IsFiniteSet({i \in DOMAIN h : h[i].consumed})
         /\ UsedIn(h) \in Nat
         /\ (\A i \in DOMAIN h : h[i].consumed) => UsedIn(h) = Len(h)
<1> DEFINE U == {i \in DOMAIN h : h[i].consumed}
<1>1. DOMAIN h = 1 .. Len(h) /\ Len(h) \in Nat
  OBVIOUS
<1>2. IsFiniteSet(1 .. Len(h)) /\ Cardinality(1 .. Len(h)) = Len(h)
  BY <1>1, FS_Interval
<1>3. U \in SUBSET (1 .. Len(h))
  BY <1>1
<1>4. IsFiniteSet(U)
  BY <1>2, <1>3, FS_Subset
<1>5. Cardinality(U) \in Nat
  BY <1>4, FS_CardinalityType
<1>6. ASSUME \A i \in DOMAIN h : h[i].consumed PROVE U = 1 .. Len(h)
  BY <1>1, <1>6
<1> QED
  BY <1>1, <1>2, <1>4, <1>5, <1>6 DEF UsedIn

LEMMA UsedOfAppend ==
  ASSUME NEW h \in Seq(Records), NEW x \in Records
  PROVE  UsedIn(Append(h, x)) = IF x.consumed THEN UsedIn(h) + 1 ELSE UsedIn(h)
<1> DEFINE g == Append(h, x)
           U == {i \in DOMAIN h : h[i].consumed}
           V == {i \in DOMAIN g : g[i].consumed}
<1>1. IsFiniteSet(U)
  BY UsedIsCounted
<1>2. /\ DOMAIN h = 1 .. Len(h) /\ DOMAIN g = 1 .. (Len(h) + 1) /\ Len(h) \in Nat
      /\ \A i \in 1 .. Len(h) : g[i] = h[i]
      /\ g[Len(h) + 1] = x
  BY AppendProperties
<1>3. CASE x.consumed
  <2>1. V = U \cup {Len(h) + 1}
    BY <1>2, <1>3
  <2>2. Len(h) + 1 \notin U
    BY <1>2
  <2> QED
    BY <1>1, <1>3, <2>1, <2>2, FS_AddElement DEF UsedIn
<1>4. CASE ~x.consumed
  <2>1. V = U
    BY <1>2, <1>4
  <2> QED
    BY <1>4, <2>1 DEF UsedIn
<1> QED
  BY <1>3, <1>4

LEMMA IdsOfAppend ==
  ASSUME NEW h \in Seq(Records), NEW x \in Records
  PROVE  Ids(Append(h, x)) = Ids(h) \cup {x.id}
<1>1. /\ DOMAIN h = 1 .. Len(h) /\ DOMAIN Append(h, x) = 1 .. (Len(h) + 1) /\ Len(h) \in Nat
      /\ \A i \in 1 .. Len(h) : Append(h, x)[i] = h[i]
      /\ Append(h, x)[Len(h) + 1] = x
  BY AppendProperties
<1> QED
  BY <1>1 DEF Ids

\* A record may follow a history whose last record is a retry.
LEMMA HistoryOfAppend ==
  ASSUME NEW h, HistoryFits(h), h # <<>> => Last(h).retry,
         NEW x \in Records, RecordFits(x), x.id \notin Ids(h)
  PROVE  /\ HistoryFits(Append(h, x))
         /\ Len(Append(h, x)) = Len(h) + 1
         /\ Last(Append(h, x)) = x
<1> DEFINE g == Append(h, x)
<1>1. h \in Seq(Records)
  BY DEF HistoryFits
<1>2. /\ Len(h) \in Nat /\ g \in Seq(Records) /\ Len(g) = Len(h) + 1
      /\ \A i \in 1 .. Len(h) : g[i] = h[i]
      /\ g[Len(h) + 1] = x
  BY <1>1, AppendProperties
<1>3. \A i \in 1 .. Len(g) : RecordFits(g[i])
  BY <1>2 DEF HistoryFits
<1>4. ASSUME NEW i \in 1 .. Len(g), NEW j \in 1 .. Len(g), i < j
      PROVE  g[i].retry /\ g[i].id # g[j].id
  <2>1. i \in 1 .. Len(h) /\ g[i] = h[i]
    BY <1>2, <1>4
  <2>2. h[i].id \in Ids(h)
    BY <1>1, <2>1 DEF Ids
  <2>3. h[i].retry
    <3>1. CASE i = Len(h)
      BY <1>1, <2>1, <3>1 DEF Last
    <3>2. CASE i # Len(h)
      BY <1>2, <2>1, <3>2 DEF HistoryFits
    <3> QED
      BY <3>1, <3>2
  <2>4. CASE j = Len(h) + 1
    BY <1>2, <2>1, <2>2, <2>3, <2>4
  <2>5. CASE j # Len(h) + 1
    BY <1>2, <1>4, <2>1, <2>3, <2>5 DEF HistoryFits
  <2> QED
    BY <2>4, <2>5
<1> QED
  BY <1>2, <1>3, <1>4 DEF HistoryFits, Last
-----------------------------------------------------------------------------
LEMMA InitIsFit == Init => IInv
<1> SUFFICES ASSUME Init PROVE IInv
  OBVIOUS
<1>1. TypeOK
  <2>1. \A r \in Runs : history[r] = <<>> /\ Len(history[r]) = 0
    BY DEF Init
  <2>2. rows \in [{Window} -> [allowance : Nat, consumed : Nat]] /\ granted \in [{Window} -> SUBSET Nat]
    BY AllowancesAreNats DEF Init
  <2>3. history \in [Runs -> Seq(Records)] /\ \A r \in Runs : Len(history[r]) <= MaxAttempts
    BY <2>1, MaxAttemptsPositive DEF Init
  <2> QED
    BY <2>2, <2>3 DEF Init, TypeOK, PCs, Live
<1>2. rows[Window].consumed = 0 /\ rows[Window].allowance \in Nat
  BY AllowancesAreNats DEF Init
<1>3. calls = {} /\ granted[Window] = {} /\ Taking = {}
  BY DEF Init, Taking
<1>4. Balanced
  BY <1>2, <1>3, FS_EmptySet DEF Balanced, Units
<1>5. ASSUME NEW r \in Runs PROVE RunOK(r)
  <2>1. pc[r] = "next" /\ history[r] = <<>> /\ CallsOf(r) = {}
    BY <1>3 DEF Init, CallsOf
  <2>2. UsedIn(<<>>) = 0
    BY FS_EmptySet DEF UsedIn
  <2>3. HistoryFits(<<>>)
    BY DEF HistoryFits
  <2>4. RunFits(r, "next", requestId[r], <<>>, {})
    BY <2>2, <2>3, FS_EmptySet, MaxAttemptsPositive DEF RunFits
  <2> QED
    BY <2>1, <2>4 DEF RunOK, ResultFits
<1>6. BudgetSpent
  BY DEF Init, BudgetSpent
<1> QED
  BY <1>1, <1>3, <1>4, <1>5, <1>6 DEF IInv

\* What the type invariant and the maximum say of the sizes.
LEMMA Sizes ==
  ASSUME IInv, NEW r \in Runs
  PROVE  /\ Units \in Nat /\ rows[Window].allowance \in Nat
         /\ history[r] \in Seq(Records) /\ Len(history[r]) \in Nat
         /\ rows = [w \in {Window} |-> [allowance |-> rows[Window].allowance, consumed |-> Units]]
<1>1. history[r] \in Seq(Records)
  BY DEF IInv, RunOK, RunFits, HistoryFits
<1>2. rows[Window] \in [allowance : Nat, consumed : Nat]
  BY DEF IInv, TypeOK
<1> QED
  BY <1>1, <1>2 DEF IInv, TypeOK, Units

\* A step of another run leaves a run as it was.
LEMMA OthersFit ==
  ASSUME IInv, NEW q \in Runs, pc'[q] = pc[q], requestId'[q] = requestId[q],
         history'[q] = history[q], result'[q] = result[q], CallsOf(q)' = CallsOf(q)
  PROVE  RunOK(q)'
BY DEF IInv, RunOK

\* The steps that touch neither the budget nor the calls, and by which no run
\* begins or ends to hold a unit: it is enough that the run itself still fits.
LEMMA RunStepKeeps ==
  ASSUME IInv, NEW r \in Runs, TypeOK',
         UNCHANGED <<rows, granted, unit, calls>>,
         pc[r] \in {"taken", "deadTaken"} <=> pc'[r] \in {"taken", "deadTaken"},
         \A q \in Runs \ {r} : /\ pc'[q] = pc[q] /\ requestId'[q] = requestId[q]
                               /\ history'[q] = history[q] /\ result'[q] = result[q],
         RunOK(r)',
         pc'[r] = "returned" /\ result'[r].budget => Units = rows[Window].allowance
  PROVE  IInv'
<1>1. Taking' = Taking /\ Units' = Units
  BY DEF Taking, Units
<1>2. Balanced'
  BY <1>1 DEF IInv, Balanced
<1>3. \A q \in Taking' : Holds(q)'
  BY <1>1 DEF IInv, Holds
<1>4. ASSUME NEW q \in Runs \ {r} PROVE RunOK(q)'
  <2>1. CallsOf(q)' = CallsOf(q)
    BY DEF CallsOf
  <2> QED
    BY <2>1, OthersFit
<1>5. BudgetSpent'
  BY <1>1 DEF IInv, BudgetSpent
<1> QED
  BY <1>2, <1>3, <1>4, <1>5 DEF IInv

LEMMA NextRequestIdKeeps == ASSUME IInv, NEW r \in Runs, NextRequestId(r) PROVE IInv'
<1>1. TypeOK'
  <2>1. requestId' \in [Runs -> RequestIds] /\ pc' \in [Runs -> PCs]
    BY DEF IInv, TypeOK, NextRequestId, Raise, PCs, Live
  <2>2. result' \in [Runs -> Results \cup {NoResult} \cup [outcome : Failures]]
    <3>1. {"InvalidRequestId", "DuplicateRequestId", "InconsistentResponse"} \subseteq Failures
      BY DEF Failures
    <3>2. \/ UNCHANGED result
          \/ \E f \in Failures : result' = [result EXCEPT ![r] = [outcome |-> f]]
      BY <3>1 DEF NextRequestId, Raise
    <3>3. ASSUME NEW f \in Failures, result' = [result EXCEPT ![r] = [outcome |-> f]]
          PROVE  result' \in [Runs -> Results \cup {NoResult} \cup [outcome : Failures]]
      BY <3>3 DEF IInv, TypeOK
    <3> QED
      BY <3>2, <3>3 DEF IInv, TypeOK
  <2> QED
    BY <2>1, <2>2 DEF IInv, NextRequestId, TypeOK, budgetVars
<1>2. pc[r] = "next" /\ pc'[r] \in {"consume", "raised"} /\ history'[r] = history[r]
  BY DEF IInv, TypeOK, NextRequestId, Raise
<1>3. pc'[r] = "consume" => requestId'[r] \notin Ids(history[r])
  BY DEF IInv, TypeOK, NextRequestId, Raise, SeenIds, Ids
<1>4. CallsOf(r)' = CallsOf(r)
  BY DEF NextRequestId, CallsOf
<1>5. RunFits(r, pc'[r], requestId'[r], history[r], CallsOf(r))
  BY <1>2, <1>3 DEF IInv, RunOK, RunFits, Live
<1>6. RunOK(r)'
  BY <1>2, <1>4, <1>5 DEF RunOK, ResultFits
<1> QED
  BY <1>1, <1>2, <1>6, RunStepKeeps DEF IInv, TypeOK, NextRequestId, Raise, budgetVars

\* Raising an exception ends the run and leaves its history and its calls.
LEMMA RaiseKeeps ==
  ASSUME IInv, NEW r \in Runs, NEW f \in Failures, Raise(r, f), pc[r] \in {"consume", "waiting"},
         UNCHANGED <<rows, granted, requestId, unit, history, calls>>
  PROVE  IInv'
<1>1. TypeOK'
  BY DEF IInv, Raise, TypeOK, PCs, Live
<1>2. pc'[r] = "raised" /\ history'[r] = history[r] /\ requestId'[r] = requestId[r]
  BY DEF IInv, TypeOK, Raise
<1>3. CallsOf(r)' = CallsOf(r)
  BY DEF CallsOf
<1>4. RunFits(r, "raised", requestId[r], history[r], CallsOf(r))
  BY DEF IInv, RunOK, RunFits, Live
<1>5. RunOK(r)'
  BY <1>2, <1>3, <1>4 DEF RunOK, ResultFits
<1> QED
  BY <1>1, <1>2, <1>5, RunStepKeeps DEF IInv, TypeOK, Raise

LEMMA BudgetFailsKeeps == ASSUME IInv, NEW r \in Runs, BudgetFails(r) PROVE IInv'
BY RaiseKeeps DEF BudgetFails, Failures, budgetVars

LEMMA CallFailsKeeps == ASSUME IInv, NEW r \in Runs, CallFails(r) PROVE IInv'
BY RaiseKeeps DEF CallFails, Failures, budgetVars

LEMMA CrashKeeps == ASSUME IInv, NEW r \in Runs, Crash(r) PROVE IInv'
<1>1. TypeOK'
  BY DEF IInv, Crash, TypeOK, PCs, Live, budgetVars
<1>2. /\ pc[r] \in Live /\ pc'[r] = IF pc[r] = "taken" THEN "deadTaken" ELSE "dead"
      /\ history'[r] = history[r] /\ requestId'[r] = requestId[r]
  BY DEF IInv, TypeOK, Crash
<1>3. CallsOf(r)' = CallsOf(r)
  BY DEF Crash, CallsOf
<1>4. RunFits(r, pc'[r], requestId[r], history[r], CallsOf(r))
  BY <1>2 DEF IInv, RunOK, RunFits, Live
<1>5. RunOK(r)'
  BY <1>2, <1>3, <1>4 DEF RunOK, ResultFits
<1> QED
  BY <1>1, <1>2, <1>5, RunStepKeeps DEF IInv, TypeOK, Crash, Live, budgetVars

-----------------------------------------------------------------------------
\* A run that ends in a result, or goes round again, with a record appended.
LEMMA RecordKeeps ==
  ASSUME IInv, NEW r \in Runs, pc[r] \in {"consume", "waiting"},
         NEW x \in Records, RecordFits(x), x.id = requestId[r],
         x.consumed <=> pc[r] = "waiting",
         x.consumed => <<r, x.id>> \in calls,
         UNCHANGED <<rows, granted, requestId, unit, calls>>,
         history' = [history EXCEPT ![r] = Append(@, x)],
         NEW at \in {"next", "returned", "raised"}, pc' = [pc EXCEPT ![r] = at],
         at = "next" => x.retry /\ Len(history[r]) + 1 < MaxAttempts,
         \A q \in Runs \ {r} : result'[q] = result[q],
         result' \in [Runs -> Results \cup {NoResult} \cup [outcome : Failures]],
         ResultFits(at, Append(history[r], x), result'[r]),
         at = "returned" /\ result'[r].budget => Units = rows[Window].allowance
  PROVE  IInv'
<1> DEFINE h == history[r]
           g == Append(h, x)
<1>1. /\ h \in Seq(Records) /\ Len(h) < MaxAttempts /\ HistoryFits(h) /\ (h # <<>> => Last(h).retry)
      /\ x.id \notin Ids(h)
  BY Sizes DEF IInv, RunOK, RunFits, Live
<1>2. HistoryFits(g) /\ Len(g) = Len(h) + 1 /\ Last(g) = x
  BY <1>1, HistoryOfAppend
<1>3. /\ g \in Seq(Records) /\ Len(h) \in Nat
      /\ \A i \in 1 .. Len(h) : g[i] = h[i]
      /\ g[Len(h) + 1] = x
  BY <1>1, AppendProperties
<1>4. UsedIn(g) = (IF x.consumed THEN UsedIn(h) + 1 ELSE UsedIn(h)) /\ Ids(g) = Ids(h) \cup {x.id}
  BY <1>1, UsedOfAppend, IdsOfAppend
<1>5. history'[r] = g /\ pc'[r] = at /\ \A q \in Runs \ {r} : history'[q] = history[q] /\ pc'[q] = pc[q]
  BY DEF IInv, TypeOK
<1>6. TypeOK'
  <2>1. history' \in [Runs -> Seq(Records)] /\ \A q \in Runs : Len(history'[q]) <= MaxAttempts
    BY <1>1, <1>2, <1>3, <1>5, MaxAttemptsPositive DEF IInv, TypeOK
  <2> QED
    BY <2>1 DEF IInv, TypeOK, PCs, Live
<1>7. CallsOf(r)' = CallsOf(r)
  BY DEF CallsOf
<1>8. RunFits(r, at, requestId[r], g, CallsOf(r))
  <2>1. /\ \A c \in CallsOf(r) : c[2] \in Ids(h) \/ c[2] = x.id
        /\ \A i \in 1 .. Len(h) : h[i].consumed => <<r, h[i].id>> \in CallsOf(r)
        /\ pc[r] = "consume" => Cardinality(CallsOf(r)) = UsedIn(h)
        /\ pc[r] = "waiting" => Cardinality(CallsOf(r)) = UsedIn(h) + 1
    BY DEF IInv, RunOK, RunFits
  <2>2. x.consumed => <<r, x.id>> \in CallsOf(r)
    BY DEF CallsOf
  <2>3. \A i \in 1 .. Len(g) : g[i].consumed => <<r, g[i].id>> \in CallsOf(r)
    BY <1>2, <1>3, <2>1, <2>2
  <2>4. Cardinality(CallsOf(r)) = UsedIn(g)
    BY <1>4, <2>1
  <2>5. Len(g) <= MaxAttempts /\ (at \in Live => Len(g) < MaxAttempts /\ Last(g).retry)
    BY <1>1, <1>2, <1>3, MaxAttemptsPositive DEF Live
  <2>6. \A c \in CallsOf(r) : c[2] \in Ids(g)
    BY <1>4, <2>1
  <2> QED
    BY <1>2, <2>3, <2>4, <2>5, <2>6 DEF RunFits
<1>9. RunOK(r)'
  BY <1>5, <1>7, <1>8 DEF RunOK
<1> QED
  BY <1>5, <1>6, <1>9, RunStepKeeps

LEMMA BudgetExhaustedKeeps == ASSUME IInv, NEW r \in Runs, BudgetExhausted(r) PROVE IInv'
<1> DEFINE x == Record(r, FALSE, "none", FALSE)
           h == history[r]
           res == [outcome |-> "BUDGET_EXHAUSTED", used |-> Used(r), budget |-> TRUE,
                   limit |-> FALSE, reauth |-> FALSE]
<1>1. /\ x \in Records /\ RecordFits(x) /\ x.id = requestId[r] /\ ~x.consumed /\ x.code = "none"
  BY DEF IInv, TypeOK, Record, Records, RecordFits
<1>2. /\ h \in Seq(Records) /\ Len(h) \in Nat /\ Len(h) < MaxAttempts /\ HistoryFits(h)
      /\ (h # <<>> => Last(h).retry) /\ requestId[r] \notin Ids(h)
  BY Sizes DEF IInv, RunOK, RunFits, BudgetExhausted, Live
<1>3. HistoryFits(Append(h, x)) /\ Len(Append(h, x)) = Len(h) + 1 /\ Last(Append(h, x)) = x
  BY <1>1, <1>2, HistoryOfAppend
<1>4. UsedIn(Append(h, x)) = UsedIn(h) /\ Used(r) = UsedIn(h) /\ UsedIn(h) \in Nat
  BY <1>1, <1>2, UsedOfAppend, UsedIsCounted DEF Used, UsedIn
<1>5. res \in Results
  BY <1>4 DEF Results
<1>6. ResultFits("returned", Append(h, x), res)
  <2>1. /\ res.outcome = "BUDGET_EXHAUSTED" /\ res.used = UsedIn(Append(h, x))
        /\ res.budget /\ ~res.limit /\ ~res.reauth
    BY <1>4
  <2>2. Len(Append(h, x)) \in 1 .. MaxAttempts
    BY <1>2, <1>3, MaxAttemptsPositive
  <2> HIDE DEF x, res
  <2> QED
    BY <1>1, <1>3, <1>5, <2>1, <2>2 DEF ResultFits, Retryable, Reauthentication, ErrorClasses
<1>7. result' = [result EXCEPT ![r] = res] /\ pc' = [pc EXCEPT ![r] = "returned"]
  BY DEF BudgetExhausted, Return
<1>8. /\ result'[r] = res /\ \A q \in Runs \ {r} : result'[q] = result[q]
      /\ result' \in [Runs -> Results \cup {NoResult} \cup [outcome : Failures]]
  BY <1>5, <1>7 DEF IInv, TypeOK
<1>9. Units = rows[Window].allowance
  BY Sizes DEF IInv, Balanced, Units, BudgetExhausted, Exhausted, Remaining
<1>10. /\ pc[r] = "consume" /\ UNCHANGED <<rows, granted, requestId, unit, calls>>
       /\ history' = [history EXCEPT ![r] = Append(@, x)]
  BY DEF BudgetExhausted, budgetVars
<1> HIDE DEF x, res
<1> QED
  BY <1>1, <1>6, <1>7, <1>8, <1>9, <1>10, RecordKeeps

LEMMA AnsweredKeeps ==
  ASSUME IInv, NEW r \in Runs, NEW a \in Answers, Answered(r, a) PROVE IInv'
<1> DEFINE retry == Permitted(r, a.code)
           x == Record(r, TRUE, a.code, retry)
           h == history[r]
           out == IF a.code = "odd" THEN "INCONSISTENT_RESPONSE" ELSE a.code
           won == [outcome |-> "SUCCESS", used |-> Used(r) + 1, budget |-> FALSE,
                   limit |-> FALSE, reauth |-> FALSE]
           lost == [outcome |-> out, used |-> Used(r) + 1, budget |-> FALSE,
                    limit |-> AttemptLimit(r, a.code), reauth |-> a.code \in Reauthentication]
<1>1. a.code \in Codes /\ "none" \notin Codes
  BY DEF Answers, Codes, ErrorClasses
<1>2. /\ x \in Records /\ RecordFits(x) /\ x.id = requestId[r] /\ x.consumed
      /\ x.code = a.code /\ x.retry = retry
  BY <1>1 DEF IInv, TypeOK, Record, Records, RecordFits, Permitted
<1>3. /\ pc[r] = "waiting" /\ UNCHANGED <<rows, granted, requestId, unit, calls>>
      /\ history' = [history EXCEPT ![r] = Append(@, x)]
  BY DEF Answered, budgetVars
<1>4. /\ h \in Seq(Records) /\ Len(h) \in Nat /\ Len(h) < MaxAttempts /\ HistoryFits(h)
      /\ (h # <<>> => Last(h).retry) /\ requestId[r] \notin Ids(h)
      /\ <<r, requestId[r]>> \in calls
  BY <1>3, Sizes DEF IInv, RunOK, RunFits, Live, CallsOf
<1>5. HistoryFits(Append(h, x)) /\ Len(Append(h, x)) = Len(h) + 1 /\ Last(Append(h, x)) = x
  BY <1>2, <1>4, HistoryOfAppend
<1>6. /\ UsedIn(Append(h, x)) = UsedIn(h) + 1 /\ Used(r) = UsedIn(h) /\ UsedIn(h) \in Nat
  BY <1>2, <1>4, UsedOfAppend, UsedIsCounted DEF Used, UsedIn
<1>7. Len(Append(h, x)) \in 1 .. MaxAttempts
  BY <1>4, <1>5, MaxAttemptsPositive
<1>8. CASE Raise(r, "AttemptObserver")
  <2>1. "AttemptObserver" \in Failures
    BY DEF Failures
  <2>2. pc' = [pc EXCEPT ![r] = "raised"] /\ result' = [result EXCEPT ![r] = [outcome |-> "AttemptObserver"]]
    BY <1>8 DEF Raise
  <2>3. /\ \A q \in Runs \ {r} : result'[q] = result[q]
        /\ result' \in [Runs -> Results \cup {NoResult} \cup [outcome : Failures]]
    BY <2>1, <2>2 DEF IInv, TypeOK
  <2>4. ResultFits("raised", Append(h, x), result'[r])
    BY DEF ResultFits
  <2> HIDE DEF x
  <2> QED
    BY <1>2, <1>3, <1>4, <2>2, <2>3, <2>4, RecordKeeps
<1>9. CASE a.code = "success" /\ Return(r, "SUCCESS", Used(r) + 1, FALSE, FALSE, FALSE)
  <2>1. pc' = [pc EXCEPT ![r] = "returned"] /\ result' = [result EXCEPT ![r] = won]
    BY <1>9 DEF Return
  <2>2. won \in Results
    BY <1>6 DEF Results
  <2>3. /\ result'[r] = won /\ \A q \in Runs \ {r} : result'[q] = result[q]
        /\ result' \in [Runs -> Results \cup {NoResult} \cup [outcome : Failures]]
    BY <2>1, <2>2 DEF IInv, TypeOK
  <2>4. /\ won.outcome = "SUCCESS" /\ won.used = UsedIn(Append(h, x))
        /\ ~won.budget /\ ~won.limit /\ ~won.reauth
    BY <1>6
  <2> HIDE DEF x, won
  <2>5. ResultFits("returned", Append(h, x), won)
    BY <1>2, <1>5, <1>7, <1>9, <2>2, <2>4 DEF ResultFits, Retryable, Reauthentication, ErrorClasses
  <2> QED
    BY <1>2, <1>3, <1>4, <2>1, <2>3, <2>4, <2>5, RecordKeeps
<1>10. CASE /\ a.code # "success" /\ ~retry
            /\ Return(r, out, Used(r) + 1, FALSE, AttemptLimit(r, a.code), a.code \in Reauthentication)
  <2>1. pc' = [pc EXCEPT ![r] = "returned"] /\ result' = [result EXCEPT ![r] = lost]
    BY <1>10 DEF Return
  <2>2. lost \in Results
    BY <1>1, <1>6, <1>10 DEF Results, Codes, AttemptLimit
  <2>3. /\ result'[r] = lost /\ \A q \in Runs \ {r} : result'[q] = result[q]
        /\ result' \in [Runs -> Results \cup {NoResult} \cup [outcome : Failures]]
    BY <2>1, <2>2 DEF IInv, TypeOK
  <2>4. /\ lost.outcome = out /\ lost.used = UsedIn(Append(h, x))
        /\ ~lost.budget /\ lost.reauth = (a.code \in Reauthentication)
    BY <1>6
  <2>5. lost.limit <=> Len(h) + 1 = MaxAttempts /\ a.code \in Retryable
    <3>1. AttemptLimit(r, a.code) <=> Len(h) + 1 = MaxAttempts /\ a.code \in Retryable
      BY <1>4, MaxAttemptsPositive DEF AttemptLimit, Number
    <3> QED
      BY <3>1, Zenon
  <2>6. a.code \in Retryable => Len(h) + 1 = MaxAttempts
    BY <1>4, <1>10, MaxAttemptsPositive DEF Permitted, Number
  <2>7. a.code \in ErrorClasses \cup {"odd"}
    BY <1>1, <1>10 DEF Codes
  <2>8. out # "SUCCESS" /\ (a.code \in ErrorClasses => out = a.code) /\ (out \in Retryable => out = a.code)
    BY <2>7 DEF ErrorClasses, Retryable
  <2> HIDE DEF x, lost, out
  <2>9. ResultFits("returned", Append(h, x), lost)
    BY <1>2, <1>5, <1>7, <1>10, <2>2, <2>4, <2>5, <2>6, <2>8 DEF ResultFits
  <2> QED
    BY <1>2, <1>3, <1>4, <2>1, <2>3, <2>4, <2>9, RecordKeeps
<1>11. CASE retry /\ pc' = [pc EXCEPT ![r] = "next"] /\ UNCHANGED result
  <2>1. Len(h) + 1 < MaxAttempts
    BY <1>11 DEF Permitted, Number
  <2>2. ResultFits("next", Append(h, x), result'[r])
    BY DEF ResultFits
  <2>3. /\ \A q \in Runs \ {r} : result'[q] = result[q]
        /\ result' \in [Runs -> Results \cup {NoResult} \cup [outcome : Failures]]
    BY <1>11 DEF IInv, TypeOK
  <2> HIDE DEF x
  <2> QED
    BY <1>2, <1>3, <1>4, <1>11, <2>1, <2>2, <2>3, RecordKeeps
<1> QED
  BY <1>8, <1>9, <1>10, <1>11 DEF Answered
-----------------------------------------------------------------------------
\* consume() commits: a new unit, which nobody else holds.
LEMMA ConsumeKeeps == ASSUME IInv, NEW r \in Runs, Consume(r) PROVE IInv'
<1>1. /\ pc[r] = "consume" /\ pc' = [pc EXCEPT ![r] = "taken"]
      /\ unit' = [unit EXCEPT ![r] = Units + 1]
      /\ UNCHANGED <<granted, requestId, history, result, calls>>
  BY DEF Consume, Units
<1>2. /\ Units \in Nat /\ rows[Window].allowance \in Nat /\ Units < rows[Window].allowance
  BY Sizes DEF Consume, Exhausted, Remaining, Units
<1>3. /\ rows'[Window] = [allowance |-> rows[Window].allowance, consumed |-> Units + 1]
      /\ rows' \in [{Window} -> [allowance : Nat, consumed : Nat]]
  BY <1>2 DEF IInv, TypeOK, Consume, Units
<1>4. Units' = Units + 1 /\ rows'[Window].allowance = rows[Window].allowance
  BY <1>3 DEF Units
<1>5. TypeOK'
  BY <1>1, <1>2, <1>3 DEF IInv, TypeOK, PCs, Live
<1>6. r \notin Taking /\ Taking' = Taking \cup {r}
  BY <1>1 DEF IInv, TypeOK, Taking
<1>7. Balanced'
  <2>1. IsFiniteSet(Taking') /\ Cardinality(Taking') = Cardinality(Taking) + 1
    BY <1>6, FS_AddElement DEF IInv, Balanced
  <2>2. Cardinality(calls) \in Nat /\ Cardinality(Taking) \in Nat
    BY FS_CardinalityType DEF IInv, Balanced
  <2>3. granted[Window] \subseteq 1 .. (Units + 1)
    BY <1>2 DEF IInv, Balanced
  <2> QED
    BY <1>1, <1>2, <1>4, <2>1, <2>2, <2>3 DEF IInv, Balanced
<1>8. \A q \in Taking' : Holds(q)'
  <2>1. ASSUME NEW q \in Taking PROVE Holds(q)'
    <3>1. /\ unit[q] \in 1 .. Units /\ unit[q] \notin granted[Window]
          /\ \A p \in Taking \ {q} : unit[p] # unit[q]
      BY DEF IInv, Holds
    <3>2. q # r /\ unit'[q] = unit[q] /\ \A p \in Taking : unit'[p] = unit[p]
      BY <1>1, <1>6 DEF IInv, TypeOK, Taking
    <3>3. unit'[r] = Units + 1
      BY <1>1 DEF IInv, TypeOK
    <3> QED
      BY <1>1, <1>2, <1>4, <1>6, <3>1, <3>2, <3>3 DEF Holds
  <2>2. Holds(r)'
    <3>1. unit'[r] = Units + 1 /\ \A p \in Taking : unit'[p] = unit[p] /\ unit[p] \in 1 .. Units
      BY <1>1, <1>6 DEF IInv, TypeOK, Taking, Holds
    <3>2. Units + 1 \notin granted[Window]
      BY <1>2 DEF IInv, Balanced
    <3> QED
      BY <1>1, <1>2, <1>4, <1>6, <3>1, <3>2 DEF Holds
  <2> QED
    BY <1>6, <2>1, <2>2
<1>9. ASSUME NEW q \in Runs \ {r} PROVE RunOK(q)'
  <2>1. CallsOf(q)' = CallsOf(q)
    BY <1>1 DEF CallsOf
  <2> QED
    BY <1>1, <2>1, OthersFit DEF IInv, TypeOK
<1>10. RunOK(r)'
  <2>1. CallsOf(r)' = CallsOf(r) /\ pc'[r] = "taken"
    BY <1>1 DEF CallsOf, IInv, TypeOK
  <2>2. RunFits(r, "taken", requestId[r], history[r], CallsOf(r))
    BY <1>1 DEF IInv, RunOK, RunFits, Live
  <2> QED
    BY <1>1, <2>1, <2>2 DEF RunOK, ResultFits
<1>11. BudgetSpent'
  BY <1>1, <1>2 DEF IInv, TypeOK, BudgetSpent
<1> QED
  BY <1>5, <1>7, <1>8, <1>9, <1>10, <1>11 DEF IInv

\* consume() returns: the unit the run holds is granted, and the broker is called
\* with an ID that it has not been called with.
LEMMA CallBrokerKeeps == ASSUME IInv, NEW r \in Runs, CallBroker(r) PROVE IInv'
<1> DEFINE c == <<r, requestId[r]>>
<1>1. /\ pc[r] = "taken" /\ pc' = [pc EXCEPT ![r] = "waiting"]
      /\ granted' = [granted EXCEPT ![Window] = @ \cup {unit[r]}]
      /\ calls' = calls \cup {c}
      /\ UNCHANGED <<rows, requestId, unit, history, result>>
  BY DEF CallBroker
<1>2. TypeOK'
  BY <1>1 DEF IInv, TypeOK, PCs, Live
<1>3. r \in Taking /\ Taking' = Taking \ {r}
  BY <1>1 DEF IInv, TypeOK, Taking
<1>4. unit[r] \in 1 .. Units /\ unit[r] \notin granted[Window] /\ \A q \in Taking \ {r} : unit[q] # unit[r]
  BY <1>3 DEF IInv, Holds
<1>5. /\ requestId[r] \notin Ids(history[r]) /\ Cardinality(CallsOf(r)) = UsedIn(history[r])
      /\ \A d \in CallsOf(r) : d[2] \in Ids(history[r])
  BY <1>1 DEF IInv, RunOK, RunFits
<1>6. c \notin calls
  BY <1>5 DEF CallsOf
<1>7. Units' = Units /\ granted'[Window] = granted[Window] \cup {unit[r]}
  BY <1>1 DEF Units, IInv, TypeOK
<1>8. Balanced'
  <2> HIDE DEF c
  <2>1. /\ IsFiniteSet(calls') /\ Cardinality(calls') = Cardinality(calls) + 1
        /\ IsFiniteSet(granted'[Window]) /\ Cardinality(granted'[Window]) = Cardinality(granted[Window]) + 1
    <3>1. IsFiniteSet(calls \cup {c}) /\ Cardinality(calls \cup {c}) = Cardinality(calls) + 1
      BY <1>6, FS_AddElement DEF IInv, Balanced
    <3>2. /\ IsFiniteSet(granted[Window] \cup {unit[r]})
          /\ Cardinality(granted[Window] \cup {unit[r]}) = Cardinality(granted[Window]) + 1
      BY <1>4, FS_AddElement DEF IInv, Balanced
    <3> QED
      BY <1>1, <1>7, <3>1, <3>2
  <2>2. IsFiniteSet(Taking') /\ Cardinality(Taking') = Cardinality(Taking) - 1
    BY <1>3, FS_RemoveElement DEF IInv, Balanced
  <2>3. Cardinality(calls) \in Nat /\ Cardinality(Taking) \in Nat
    BY FS_CardinalityType DEF IInv, Balanced
  <2> QED
    BY <1>1, <1>4, <1>7, <2>1, <2>2, <2>3 DEF IInv, Balanced
<1>9. \A q \in Taking' : Holds(q)'
  BY <1>1, <1>3, <1>4, <1>7 DEF IInv, Holds
<1>10. ASSUME NEW q \in Runs \ {r} PROVE RunOK(q)'
  <2>1. CallsOf(q)' = CallsOf(q)
    BY <1>1 DEF CallsOf
  <2> QED
    BY <1>1, <2>1, OthersFit DEF IInv, TypeOK
<1>11. RunOK(r)'
  <2>1. CallsOf(r)' = CallsOf(r) \cup {c} /\ c \notin CallsOf(r) /\ pc'[r] = "waiting"
    BY <1>1, <1>6 DEF CallsOf, IInv, TypeOK
  <2>2. IsFiniteSet(CallsOf(r))
    <3>1. CallsOf(r) \in SUBSET calls
      BY DEF CallsOf
    <3> QED
      BY <3>1, FS_Subset DEF IInv, Balanced
  <2>3. Cardinality(CallsOf(r)') = UsedIn(history[r]) + 1
    BY <1>5, <2>1, <2>2, FS_AddElement
  <2>4. RunFits(r, "waiting", requestId[r], history[r], CallsOf(r)')
    BY <1>1, <1>5, <2>1, <2>3 DEF IInv, RunOK, RunFits, Live
  <2> QED
    BY <1>1, <2>1, <2>4 DEF RunOK, ResultFits
<1>12. BudgetSpent'
  BY <1>1, <1>7 DEF IInv, TypeOK, BudgetSpent
<1> QED
  BY <1>2, <1>8, <1>9, <1>10, <1>11, <1>12 DEF IInv
-----------------------------------------------------------------------------
LEMMA StepKeeps == IInv /\ [Next]_vars => IInv'
<1> SUFFICES ASSUME IInv, [Next]_vars PROVE IInv'
  OBVIOUS
<1>1. ASSUME NEW r \in Runs, Step(r) PROVE IInv'
  BY <1>1, NextRequestIdKeeps, ConsumeKeeps, BudgetExhaustedKeeps, BudgetFailsKeeps,
     CallBrokerKeeps, AnsweredKeeps, CallFailsKeeps DEF Step
<1>2. ASSUME NEW r \in Runs, Crash(r) PROVE IInv'
  BY <1>2, CrashKeeps
<1>3. CASE UNCHANGED vars
  <2>1. /\ UNCHANGED <<rows, granted, pc, requestId, unit, history, result, calls>>
        /\ Taking' = Taking /\ Units' = Units /\ \A r \in Runs : CallsOf(r)' = CallsOf(r)
    BY <1>3 DEF vars, Taking, Units, CallsOf
  <2>2. TypeOK' /\ Balanced' /\ BudgetSpent'
    BY <2>1 DEF IInv, TypeOK, Balanced, BudgetSpent
  <2>3. \A r \in Taking' : Holds(r)'
    BY <2>1 DEF IInv, Holds
  <2>4. \A r \in Runs : RunOK(r)'
    BY <2>1, OthersFit
  <2> QED
    BY <2>2, <2>3, <2>4 DEF IInv
<1> QED
  BY <1>1, <1>2, <1>3 DEF Next

\* The invariant holds of every execution.
THEOREM Invariance == Spec => []IInv
<1> QED
  BY InitIsFit, StepKeeps, PTL DEF Spec

\* What the invariant says of all runs: one unit for each call.
LEMMA UnitsMatchCalls == IInv => OneUnitPerCall
<1> SUFFICES ASSUME IInv PROVE OneUnitPerCall
  OBVIOUS
<1>1. Cardinality(calls) \in Nat /\ Cardinality(Taking) \in Nat
  BY FS_CardinalityType DEF IInv, Balanced
<1>2. Units \in Nat /\ rows[Window].allowance \in Nat
  BY DEF IInv, TypeOK, Units
<1> QED
  BY <1>1, <1>2 DEF IInv, Balanced, OneUnitPerCall, Taking, Units

LEMMA RetriesPrecede == IInv => OnlyRetriesPrecede
<1> SUFFICES ASSUME IInv, NEW r \in Runs
             PROVE  /\ \A i, j \in DOMAIN history[r] :
                         i < j => /\ history[r][i].retry /\ history[r][i].code \in Retryable
                                  /\ history[r][i].id # history[r][j].id
                    /\ pc[r] \in Live /\ history[r] # <<>> => history[r][Len(history[r])].retry
  BY DEF OnlyRetriesPrecede
<1>1. history[r] \in Seq(Records) /\ HistoryFits(history[r])
  BY DEF IInv, RunOK, RunFits, HistoryFits
<1>2. DOMAIN history[r] = 1 .. Len(history[r])
  BY <1>1
<1>3. \A i, j \in DOMAIN history[r] :
        i < j => /\ history[r][i].retry /\ history[r][i].code \in Retryable
                 /\ history[r][i].id # history[r][j].id
  BY <1>1, <1>2 DEF HistoryFits, RecordFits
<1>4. pc[r] \in Live /\ history[r] # <<>> => history[r][Len(history[r])].retry
  BY DEF IInv, RunOK, RunFits, Last
<1> QED
  BY <1>3, <1>4

LEMMA ResultsMatchRuns == IInv => ResultAccounts
<1> SUFFICES ASSUME IInv, NEW r \in Runs, pc[r] = "returned", NEW last, last = Last(history[r])
             PROVE  /\ result[r].used = Cardinality(CallsOf(r))
                    /\ result[r].budget <=> ~last.consumed
                    /\ result[r].budget => rows[Window].consumed = rows[Window].allowance
                    /\ result[r].limit <=> Len(history[r]) = MaxAttempts /\ last.code \in Retryable
                    /\ result[r].reauth <=> last.code \in Reauthentication
                    /\ result[r].outcome = "SUCCESS" <=> last.code = "success"
                    /\ result[r].outcome \in Retryable => result[r].limit
  BY DEF ResultAccounts, Last, CallsOf
<1>1. Cardinality(CallsOf(r)) = UsedIn(history[r])
  BY DEF IInv, RunOK, RunFits
<1> QED
  BY <1>1 DEF IInv, RunOK, ResultFits, BudgetSpent, Units

\* OneUnitPerCall: every broker call of every run is made on a unit of its own of
\* the durable window, so there are never more calls than the allowance, and the
\* units that no call answers for are those of runs between COMMIT and return.
THEOREM UnitForEachCall == Spec => []OneUnitPerCall
<1> QED
  BY Invariance, UnitsMatchCalls, PTL

\* OnlyRetriesPrecede: a run attempts again only after a retryable answer, with an
\* ID it has not used.
THEOREM RetriesOnly == Spec => []OnlyRetriesPrecede
<1> QED
  BY Invariance, RetriesPrecede, PTL

\* ResultAccounts: the units, flags and outcome of a returned result are those of
\* the run that returned it, and BUDGET_EXHAUSTED is never taken back.
THEOREM ResultsAccount == Spec => []ResultAccounts
<1> QED
  BY Invariance, ResultsMatchRuns, PTL

\* A step of the runs is a step of the abstract budget, or none.
LEMMA BudgetStep == IInv /\ [Next]_vars => [Budget!Next]_budgetVars
<1> SUFFICES ASSUME IInv, [Next]_vars PROVE [Budget!Next]_budgetVars
  OBVIOUS
<1>1. rows[Window] # NoRow /\ Units \in Nat /\ rows[Window].allowance \in Nat
  BY NoRowIsNoRow DEF IInv, TypeOK, Units
<1>2. ASSUME NEW r \in Runs, Consume(r) PROVE Budget!Next
  <2>1. 1 \in 1 .. (rows[Window].allowance - rows[Window].consumed)
    BY <1>1, <1>2 DEF Consume, Exhausted, Remaining, Units
  <2>2. Budget!TakeUnits(Window, 1)
    BY <1>1, <1>2, <2>1 DEF Consume, Budget!TakeUnits
  <2> QED
    BY <1>1, <2>1, <2>2 DEF Budget!Take, Budget!Next
<1>3. ASSUME NEW r \in Runs, CallBroker(r) PROVE Budget!Next
  <2>1. r \in Taking
    BY <1>3 DEF CallBroker, Taking
  <2>2. unit[r] \in 1 .. Units /\ unit[r] \notin granted[Window]
    BY <2>1 DEF IInv, Holds
  <2>3. unit[r] .. unit[r] = {unit[r]}
    BY <1>1, <2>2
  <2>4. unit[r] \in Budget!Taken(Window)
    BY <1>1, <2>2 DEF Budget!Taken, Units
  <2>5. Budget!GrantUnits(Window, unit[r], unit[r])
    BY <1>1, <1>3, <2>2, <2>3, <2>4 DEF CallBroker, Budget!GrantUnits
  <2> QED
    BY <2>4, <2>5 DEF Budget!Grant, Budget!Next
<1>4. ASSUME NEW r \in Runs, \/ NextRequestId(r) \/ BudgetExhausted(r) \/ BudgetFails(r)
                             \/ \E a \in Answers : Answered(r, a)
                             \/ CallFails(r) \/ Crash(r)
      PROVE  UNCHANGED budgetVars
  BY <1>4 DEF NextRequestId, BudgetExhausted, BudgetFails, Answered, CallFails, Crash
<1>5. CASE UNCHANGED vars
  BY <1>5 DEF vars, budgetVars
<1> QED
  BY <1>2, <1>3, <1>4, <1>5 DEF Next, Step

\* UsesBudget: all runs together use the window as RequestBudgetSpec, which
\* RequestBudget implements, allows: one free unit at a time, granted once.
THEOREM RunsUseBudget == Spec => UsesBudget
<1> QED
  BY Invariance, BudgetStep, PTL DEF Spec, UsesBudget
-----------------------------------------------------------------------------
LocalStatuses == {"RESOLUTION_FAILURE", "PLANNING_FAILURE", "LOCAL_FAILURE"}
Phases == {"prepare", "execute", "publish", "done", "dead"}

AdapterTypeOK ==
  /\ phase \in [Runs -> Phases]
  /\ body \in [Runs -> Bodies \cup {"none"}]
  /\ published \in [Runs -> Nat]
  /\ status = [r \in Runs |-> status[r]]

AdapterFits(r) ==
  /\ phase[r] = "prepare" => pc[r] = "next"
  /\ phase[r] = "publish" => pc[r] = "returned"
  /\ phase[r] \in {"prepare", "execute"} => published[r] = 0
  /\ phase[r] # "done" => status[r] = "none"
  /\ phase[r] \in {"publish", "done"} /\ pc[r] = "returned" /\ result[r].outcome = "SUCCESS" =>
       body[r] \in Bodies
  /\ published[r] <= Len(history[r])
  /\ \A i \in 1 .. published[r] : Stored(r, i)
  /\ phase[r] = "done" =>
       \/ status[r] \in LocalStatuses /\ pc[r] # "returned"
       \/ status[r] = "ARTIFACT_PUBLICATION_FAILURE"
       \/ status[r] = Classify(r) /\ pc[r] = "returned" /\ published[r] = Len(history[r])

AdapterInv == IInv /\ AdapterTypeOK /\ \A r \in Runs : AdapterFits(r)
-----------------------------------------------------------------------------
\* A step of a run is a step of that run only.
LEMMA StepIsLocal ==
  ASSUME TypeOK, NEW r \in Runs, Step(r)
  PROVE  /\ pc[r] \in {"next", "consume", "taken", "waiting"}
         /\ \A q \in Runs \ {r} : pc'[q] = pc[q] /\ history'[q] = history[q] /\ result'[q] = result[q]
         /\ \A c : c[1] # r => (c \in calls' <=> c \in calls)
<1> USE DEF TypeOK, Raise, Return
<1>1. CASE NextRequestId(r)
  BY <1>1 DEF NextRequestId
<1>2. CASE Consume(r) \/ BudgetExhausted(r) \/ BudgetFails(r) \/ CallFails(r)
  BY <1>2 DEF Consume, BudgetExhausted, BudgetFails, CallFails
<1>3. CASE CallBroker(r)
  BY <1>3 DEF CallBroker
<1>4. ASSUME NEW a \in Answers, Answered(r, a)
      PROVE  /\ pc[r] = "waiting" /\ UNCHANGED calls
             /\ \A q \in Runs \ {r} : pc'[q] = pc[q] /\ history'[q] = history[q] /\ result'[q] = result[q]
  BY <1>4 DEF Answered
<1> QED
  BY <1>1, <1>2, <1>3, <1>4 DEF Step

\* What adapter r does leaves the other adapters as they were, when the store keeps
\* what is in it.
LEMMA OtherAdaptersFit ==
  ASSUME AdapterInv, NEW q \in Runs,
         pc'[q] = pc[q], history'[q] = history[q], result'[q] = result[q],
         phase'[q] = phase[q], body'[q] = body[q], published'[q] = published[q], status'[q] = status[q],
         \A x \in DOMAIN store : x \in DOMAIN store' /\ store'[x] = store[x]
  PROVE  AdapterFits(q)'
<1>1. Classify(q)' = Classify(q)
  BY DEF Classify
<1>2. ASSUME NEW i, Stored(q, i) PROVE Stored(q, i)'
  <2>1. Place(q, i)' = Place(q, i) /\ Bundle(q, i)' = Bundle(q, i)
    BY DEF Place, Bundle
  <2> QED
    BY <1>2, <2>1 DEF Stored
<1> QED
  BY <1>1, <1>2 DEF AdapterInv, AdapterFits

LEMMA AdapterInitFits == AdapterInit => AdapterInv
<1> SUFFICES ASSUME AdapterInit PROVE AdapterInv
  OBVIOUS
<1>1. IInv
  BY InitIsFit DEF AdapterInit
<1>2. AdapterTypeOK
  BY DEF AdapterInit, AdapterTypeOK, Phases
<1>3. ASSUME NEW r \in Runs PROVE AdapterFits(r)
  BY DEF AdapterInit, Init, AdapterFits
<1> QED
  BY <1>1, <1>2, <1>3 DEF AdapterInv

\* Every step of the adapters is a step of the runs, or none.
LEMMA RunsStep == ASSUME TypeOK, [AdapterNext]_allVars PROVE [Next]_vars
<1>1. ASSUME NEW r \in Runs, Prepare(r) \/ Executed(r) \/ Publish(r) \/ PublishFails(r) \/ Conclude(r)
      PROVE  UNCHANGED vars
  BY <1>1 DEF Prepare, Executed, Publish, PublishFails, Conclude
<1>2. ASSUME NEW r \in Runs, AdapterCrash(r) PROVE Crash(r) \/ UNCHANGED vars
  BY <1>2 DEF AdapterCrash, Crash, vars, budgetVars
<1>3. ASSUME NEW r \in Runs, Execute(r) PROVE Step(r)
  BY <1>3 DEF Execute
<1>4. CASE UNCHANGED allVars
  BY <1>4 DEF allVars
<1> QED
  BY <1>1, <1>2, <1>3, <1>4 DEF AdapterNext, AdapterStep, Next
-----------------------------------------------------------------------------
\* A step of adapter r outside the run: only r's own part is left to show.
LEMMA OwnStepKeeps ==
  ASSUME AdapterInv, IInv', NEW r \in Runs, AdapterTypeOK', UNCHANGED <<history, result>>,
         \A q \in Runs \ {r} : /\ pc'[q] = pc[q] /\ phase'[q] = phase[q] /\ body'[q] = body[q]
                               /\ published'[q] = published[q] /\ status'[q] = status[q],
         \A x \in DOMAIN store : x \in DOMAIN store' /\ store'[x] = store[x],
         AdapterFits(r)'
  PROVE  AdapterInv'
<1>1. ASSUME NEW q \in Runs \ {r} PROVE AdapterFits(q)'
  BY OtherAdaptersFit
<1> QED
  BY <1>1 DEF AdapterInv

\* The run's state is untouched, and so is what was proved of it.
LEMMA VarsKept == ASSUME IInv, UNCHANGED vars PROVE IInv'
BY StepKeeps

LEMMA PrepareKeeps == ASSUME AdapterInv, NEW r \in Runs, Prepare(r) PROVE AdapterInv'
<1>1. IInv' /\ UNCHANGED <<pc, history, result, body, published, store>>
  BY VarsKept DEF Prepare, AdapterInv, vars
<1>2. AdapterTypeOK'
  BY DEF Prepare, Finish, AdapterInv, AdapterTypeOK, Phases
<1>3. AdapterFits(r)
  BY DEF AdapterInv
<1>4. phase[r] = "prepare" /\ pc[r] = "next" /\ published[r] = 0 /\ status[r] = "none"
  BY <1>3 DEF Prepare, AdapterFits
<1>5. \/ phase'[r] = "done" /\ status'[r] \in LocalStatuses
      \/ phase'[r] = "execute" /\ status'[r] = "none"
  BY <1>4 DEF Prepare, Finish, LocalStatuses, AdapterInv, AdapterTypeOK
<1>6. AdapterFits(r)'
  BY <1>1, <1>3, <1>4, <1>5 DEF AdapterFits
<1> QED
  BY <1>1, <1>2, <1>6, OwnStepKeeps DEF Prepare, Finish, AdapterInv, AdapterTypeOK

LEMMA ExecuteKeeps == ASSUME AdapterInv, NEW r \in Runs, Execute(r) PROVE AdapterInv'
<1>1. Step(r) /\ phase[r] = "execute" /\ UNCHANGED <<phase, body, published, store, status>>
  BY DEF Execute, adapterVars
<1>2. IInv' /\ TypeOK /\ TypeOK'
  BY <1>1, StepKeeps DEF AdapterInv, Next, IInv
<1>3. AdapterTypeOK'
  BY <1>1 DEF AdapterInv, AdapterTypeOK
<1>4. ASSUME NEW q \in Runs \ {r} PROVE AdapterFits(q)'
  BY <1>1, <1>2, StepIsLocal, OtherAdaptersFit
<1>5. AdapterFits(r)'
  <2>1. published[r] = 0 /\ status[r] = "none"
    BY <1>1 DEF AdapterInv, AdapterFits
  <2>2. Len(history'[r]) \in Nat
    BY <1>2 DEF TypeOK
  <2> QED
    BY <1>1, <2>1, <2>2 DEF AdapterFits
<1> QED
  BY <1>2, <1>3, <1>4, <1>5 DEF AdapterInv

LEMMA ExecutedKeeps == ASSUME AdapterInv, NEW r \in Runs, Executed(r) PROVE AdapterInv'
<1>1. IInv' /\ UNCHANGED <<pc, history, result, published, store>>
  BY VarsKept DEF Executed, AdapterInv, vars
<1>2. AdapterTypeOK'
  BY DEF Executed, Finish, AdapterInv, AdapterTypeOK, Phases
<1>3. AdapterFits(r)
  BY DEF AdapterInv
<1>4. phase[r] = "execute" /\ published[r] = 0 /\ status[r] = "none"
  BY <1>3 DEF Executed, AdapterFits
<1>5. \/ /\ phase'[r] = "publish" /\ pc[r] = "returned" /\ status'[r] = "none"
         /\ result[r].outcome = "SUCCESS" => body'[r] \in Bodies
      \/ phase'[r] = "done" /\ pc[r] = "raised" /\ status'[r] \in LocalStatuses
  BY <1>4 DEF Executed, Finish, LocalStatuses, AdapterInv, AdapterTypeOK
<1>6. AdapterFits(r)'
  BY <1>1, <1>3, <1>4, <1>5 DEF AdapterFits
<1> QED
  BY <1>1, <1>2, <1>6, OwnStepKeeps DEF Executed, Finish, AdapterInv, AdapterTypeOK

LEMMA PublishKeeps == ASSUME AdapterInv, NEW r \in Runs, Publish(r) PROVE AdapterInv'
<1>1. IInv' /\ UNCHANGED <<pc, history, result, body, phase, status>>
  BY VarsKept DEF Publish, AdapterInv, vars
<1>2. AdapterTypeOK'
  BY DEF Publish, AdapterInv, AdapterTypeOK
<1>3. AdapterFits(r) /\ published[r] \in Nat /\ Len(history[r]) \in Nat
  BY Sizes DEF AdapterInv, AdapterTypeOK
<1>4. phase[r] = "publish" /\ published[r] < Len(history[r]) /\ published'[r] = published[r] + 1
  BY DEF Publish, AdapterInv, AdapterTypeOK
<1> DEFINE i == published[r] + 1
<1>5. /\ \A x \in DOMAIN store : x \in DOMAIN store' /\ store'[x] = store[x]
      /\ Place(r, i) \in DOMAIN store' /\ store'[Place(r, i)] = Bundle(r, i)
  BY DEF Publish, Unpublished
<1>6. \A j : Place(r, j)' = Place(r, j) /\ Bundle(r, j)' = Bundle(r, j)
  BY <1>1 DEF Place, Bundle
<1>7. ASSUME NEW j \in 1 .. published'[r] PROVE Stored(r, j)'
  <2>1. CASE j = i
    BY <1>5, <1>6, <2>1 DEF Stored
  <2>2. CASE j # i
    <3>1. Stored(r, j)
      BY <1>3, <1>4, <2>2 DEF AdapterFits
    <3> QED
      BY <1>5, <1>6, <3>1 DEF Stored
  <2> QED
    BY <2>1, <2>2
<1>8. AdapterFits(r)'
  BY <1>1, <1>3, <1>4, <1>7 DEF AdapterFits
<1> QED
  BY <1>1, <1>2, <1>5, <1>8, OwnStepKeeps DEF Publish, AdapterInv, AdapterTypeOK

LEMMA PublishFailsKeeps == ASSUME AdapterInv, NEW r \in Runs, PublishFails(r) PROVE AdapterInv'
<1>1. IInv' /\ UNCHANGED <<pc, history, result, body, published>>
  BY VarsKept DEF PublishFails, AdapterInv, vars
<1>2. AdapterTypeOK'
  BY DEF PublishFails, Finish, AdapterInv, AdapterTypeOK, Phases
<1>3. AdapterFits(r)
  BY DEF AdapterInv
<1>4. /\ phase[r] = "publish" /\ phase'[r] = "done" /\ status'[r] = "ARTIFACT_PUBLICATION_FAILURE"
      /\ \A x \in DOMAIN store : x \in DOMAIN store' /\ store'[x] = store[x]
  BY DEF PublishFails, Finish, AdapterInv, AdapterTypeOK
<1>5. ASSUME NEW j \in 1 .. published[r] PROVE Stored(r, j)'
  <2>1. Place(r, j)' = Place(r, j) /\ Bundle(r, j)' = Bundle(r, j)
    BY <1>1 DEF Place, Bundle
  <2> QED
    BY <1>3, <1>4, <2>1 DEF AdapterFits, Stored
<1>6. AdapterFits(r)'
  BY <1>1, <1>3, <1>4, <1>5 DEF AdapterFits
<1> QED
  BY <1>1, <1>2, <1>4, <1>6, OwnStepKeeps DEF PublishFails, Finish, AdapterInv, AdapterTypeOK

LEMMA ConcludeKeeps == ASSUME AdapterInv, NEW r \in Runs, Conclude(r) PROVE AdapterInv'
<1>1. IInv' /\ UNCHANGED <<pc, history, result, body, published, store>>
  BY VarsKept DEF Conclude, AdapterInv, vars
<1>2. AdapterTypeOK'
  BY DEF Conclude, Finish, AdapterInv, AdapterTypeOK, Phases
<1>3. AdapterFits(r)
  BY DEF AdapterInv
<1>4. /\ phase[r] = "publish" /\ published[r] = Len(history[r])
      /\ phase'[r] = "done" /\ status'[r] = Classify(r)
  BY DEF Conclude, Finish, AdapterInv, AdapterTypeOK
<1>5. Classify(r)' = Classify(r) /\ \A j : Stored(r, j)' <=> Stored(r, j)
  BY <1>1 DEF Classify, Stored, Place, Bundle
<1>6. AdapterFits(r)'
  BY <1>1, <1>3, <1>4, <1>5 DEF AdapterFits
<1> QED
  BY <1>1, <1>2, <1>6, OwnStepKeeps DEF Conclude, Finish, AdapterInv, AdapterTypeOK

LEMMA AdapterCrashKeeps == ASSUME AdapterInv, NEW r \in Runs, AdapterCrash(r) PROVE AdapterInv'
<1>1. Crash(r) \/ UNCHANGED vars
  BY DEF AdapterCrash, Crash, vars, budgetVars
<1>2. IInv' /\ UNCHANGED <<history, result, body, published, store, status>>
  BY <1>1, VarsKept, CrashKeeps DEF AdapterCrash, AdapterInv
<1>3. AdapterTypeOK'
  BY DEF AdapterCrash, AdapterInv, AdapterTypeOK, Phases
<1>4. AdapterFits(r)
  BY DEF AdapterInv
<1>5. /\ phase[r] # "done" /\ phase'[r] = "dead"
      /\ \A q \in Runs \ {r} : pc'[q] = pc[q] /\ phase'[q] = phase[q]
  BY DEF AdapterCrash, AdapterInv, AdapterTypeOK, IInv, TypeOK
<1>6. \A j : Stored(r, j)' <=> Stored(r, j)
  BY <1>2 DEF Stored, Place, Bundle
<1>7. AdapterFits(r)'
  BY <1>2, <1>4, <1>5, <1>6 DEF AdapterFits
<1> QED
  BY <1>2, <1>3, <1>5, <1>7, OwnStepKeeps

LEMMA AdapterStepKeeps == AdapterInv /\ [AdapterNext]_allVars => AdapterInv'
<1> SUFFICES ASSUME AdapterInv, [AdapterNext]_allVars PROVE AdapterInv'
  OBVIOUS
<1>1. ASSUME NEW r \in Runs, AdapterStep(r) \/ AdapterCrash(r) PROVE AdapterInv'
  BY <1>1, PrepareKeeps, ExecuteKeeps, ExecutedKeeps, PublishKeeps, PublishFailsKeeps,
     ConcludeKeeps, AdapterCrashKeeps DEF AdapterStep
<1>2. CASE UNCHANGED allVars
  <2>1. IInv' /\ UNCHANGED <<pc, history, result, phase, body, published, store, status>>
    BY <1>2, VarsKept DEF allVars, vars, adapterVars, AdapterInv
  <2>2. AdapterTypeOK' /\ \A q \in Runs : AdapterFits(q)'
    BY <2>1, OtherAdaptersFit DEF AdapterInv, AdapterTypeOK
  <2> QED
    BY <2>1, <2>2 DEF AdapterInv
<1> QED
  BY <1>1, <1>2 DEF AdapterNext
-----------------------------------------------------------------------------
\* The adapters' invariant holds of every execution.
THEOREM AdapterInvariance == AdapterSpec => []AdapterInv
<1> QED
  BY AdapterInitFits, AdapterStepKeeps, PTL DEF AdapterSpec

\* The adapters run run_planned_request and nothing else: what is true of Spec, for
\* any number of runs, is true of the runs of the adapters.
THEOREM AdaptersRunRuns == AdapterSpec => Spec
<1>1. AdapterInit => Init
  BY DEF AdapterInit
<1>2. AdapterInv /\ [AdapterNext]_allVars => [Next]_vars
  BY RunsStep DEF AdapterInv, IInv
<1> QED
  BY <1>1, <1>2, AdapterInvariance, PTL DEF AdapterSpec, Spec

\* The promises of the runs are kept under the adapters.
THEOREM AdaptersKeepTheBudget ==
  AdapterSpec => [](OneUnitPerCall /\ OnlyRetriesPrecede /\ ResultAccounts) /\ UsesBudget
<1> QED
  BY AdaptersRunRuns, UnitForEachCall, RetriesOnly, ResultsAccount, RunsUseBudget, PTL

\* ResultsAreEvidenced: a status that rests on a broker result is given when every
\* attempt of that result is in the store, and no adapter ever alters a bundle there.
THEOREM Evidenced == AdapterSpec => []ResultsAreEvidenced
<1>1. AdapterInv => ResultsAreEvidenced
  <2> SUFFICES ASSUME AdapterInv, NEW r \in Runs,
                      status[r] \notin {"none", "RESOLUTION_FAILURE", "PLANNING_FAILURE",
                                        "LOCAL_FAILURE", "ARTIFACT_PUBLICATION_FAILURE"},
                      NEW i \in DOMAIN history[r]
               PROVE  Stored(r, i)
    BY DEF ResultsAreEvidenced
  <2>1. AdapterFits(r)
    BY DEF AdapterInv
  <2>2. published[r] = Len(history[r])
    BY <2>1 DEF AdapterFits, LocalStatuses
  <2>3. i \in 1 .. Len(history[r])
    BY Sizes DEF AdapterInv
  <2> QED
    BY <2>1, <2>2, <2>3 DEF AdapterFits
<1> QED
  BY <1>1, AdapterInvariance, PTL

\* In a returned run that ends on a retryable answer, every attempt took a unit.
LEMMA EveryAttemptUsed ==
  ASSUME IInv, NEW r \in Runs, pc[r] = "returned", Last(history[r]).code \in Retryable
  PROVE  UsedIn(history[r]) = Len(history[r])
<1> DEFINE h == history[r]
<1>1. HistoryFits(h) /\ h \in Seq(Records) /\ Len(h) \in Nat
  BY Sizes DEF IInv, RunOK, RunFits
<1>2. ASSUME NEW i \in DOMAIN h PROVE h[i].consumed
  <2>1. i \in 1 .. Len(h) /\ RecordFits(h[i])
    BY <1>1 DEF HistoryFits
  <2>2. i < Len(h) => h[i].retry
    BY <1>1, <2>1 DEF HistoryFits
  <2>3. h[i].code \in Retryable
    BY <1>1, <2>1, <2>2 DEF RecordFits, Last
  <2> QED
    BY <2>1, <2>3 DEF RecordFits, Retryable
<1> QED
  BY <1>1, <1>2, UsedIsCounted

\* StatusIsEarned: the status says what the last attempt was, and for an exhausted
\* budget or retry limit what was used.
THEOREM Earned == AdapterSpec => []StatusIsEarned
<1>1. AdapterInv => StatusIsEarned
  <2> SUFFICES ASSUME AdapterInv, NEW r \in Runs, phase[r] = "done", pc[r] = "returned",
                      NEW last, last = Last(history[r])
               PROVE  /\ status[r] \in {"SUCCESS", "EMPTY_RESPONSE", "VALIDATION_FAILURE",
                                        "MALFORMED_PROVIDER_RESPONSE"} =>
                           last.code = "success" /\ <<r, last.id>> \in calls
                      /\ status[r] = "SUCCESS" => body[r] = "bars"
                      /\ status[r] = "BUDGET_EXHAUSTED" => rows[Window].consumed = rows[Window].allowance
                      /\ status[r] = "RETRY_LIMIT_EXHAUSTED" =>
                           Cardinality(CallsOf(r)) = MaxAttempts
                      /\ status[r] = "REAUTHENTICATION_REQUIRED" => last.code \in Reauthentication
                      /\ status[r] = "PROVIDER_FAILURE" => last.code \in {"odd", "terminal"}
    BY DEF StatusIsEarned, Last, CallsOf
  <2>1. /\ IInv /\ AdapterFits(r)
        /\ RunFits(r, "returned", requestId[r], history[r], CallsOf(r))
        /\ ResultFits("returned", history[r], result[r])
    BY DEF AdapterInv, IInv, RunOK
  <2>2. /\ Len(history[r]) \in 1 .. MaxAttempts /\ last \in Records /\ RecordFits(last)
        /\ last.consumed => <<r, last.id>> \in calls
    <3>1. Len(history[r]) \in 1 .. MaxAttempts /\ HistoryFits(history[r])
      BY <2>1 DEF ResultFits, RunFits
    <3>2. Len(history[r]) \in 1 .. Len(history[r])
      BY <3>1, MaxAttemptsPositive
    <3>3. history[r] \in Seq(Records) /\ \A i \in 1 .. Len(history[r]) : RecordFits(history[r][i])
      BY <3>1 DEF HistoryFits
    <3>4. last \in Records /\ RecordFits(last)
      BY <3>2, <3>3 DEF Last
    <3>5. last.consumed => <<r, last.id>> \in CallsOf(r)
      BY <2>1, <3>2 DEF RunFits, Last
    <3> QED
      BY <3>1, <3>4, <3>5 DEF CallsOf
  <2>3. CASE status[r] = "ARTIFACT_PUBLICATION_FAILURE"
    BY <2>3
  <2>4. CASE status[r] = Classify(r)
    <3>1. /\ result[r].outcome = "SUCCESS" <=> last.code = "success"
          /\ result[r].outcome = "SUCCESS" => body[r] \in Bodies
          /\ result[r].budget <=> ~last.consumed
          /\ result[r].limit <=> Len(history[r]) = MaxAttempts /\ last.code \in Retryable
          /\ result[r].reauth <=> last.code \in Reauthentication
          /\ last.code \in Retryable => result[r].limit
          /\ Cardinality(CallsOf(r)) = UsedIn(history[r])
      BY <2>1 DEF ResultFits, RunFits, AdapterFits, Retryable, ErrorClasses
    <3>2. CASE result[r].budget
      <4>1. status[r] = "BUDGET_EXHAUSTED"
        BY <2>4, <3>2 DEF Classify
      <4>2. rows[Window].consumed = rows[Window].allowance
        BY <2>1, <3>2 DEF IInv, BudgetSpent, Units
      <4> QED
        BY <4>1, <4>2
    <3>3. CASE ~result[r].budget /\ result[r].limit
      <4>1. status[r] = "RETRY_LIMIT_EXHAUSTED"
        BY <2>4, <3>3 DEF Classify
      <4>2. Cardinality(CallsOf(r)) = MaxAttempts
        BY <2>1, <3>1, <3>3, EveryAttemptUsed
      <4> QED
        BY <4>1, <4>2
    <3>4. CASE ~result[r].budget /\ ~result[r].limit /\ result[r].reauth
      BY <2>4, <3>1, <3>4 DEF Classify
    <3>5. CASE /\ ~result[r].budget /\ ~result[r].limit /\ ~result[r].reauth
               /\ result[r].outcome = "SUCCESS"
      <4>1. status[r] = BodyStatus[body[r]]
        BY <2>4, <3>5 DEF Classify
      <4>2. last.code = "success" /\ <<r, last.id>> \in calls
        BY <2>2, <3>1, <3>5
      <4>3. /\ BodyStatus[body[r]] \in {"SUCCESS", "EMPTY_RESPONSE", "VALIDATION_FAILURE",
                                        "MALFORMED_PROVIDER_RESPONSE"}
            /\ BodyStatus[body[r]] = "SUCCESS" => body[r] = "bars"
        BY <3>1, <3>5 DEF BodyStatus, Bodies
      <4> QED
        BY <4>1, <4>2, <4>3
    <3>6. CASE /\ ~result[r].budget /\ ~result[r].limit /\ ~result[r].reauth
               /\ result[r].outcome # "SUCCESS"
      <4>1. status[r] = "PROVIDER_FAILURE"
        BY <2>4, <3>6 DEF Classify
      <4>2. last.code \in Codes
        BY <2>2, <3>1, <3>6 DEF Records, RecordFits
      <4>3. last.code \in {"odd", "terminal"}
        BY <3>1, <3>6, <4>2 DEF Codes, ErrorClasses, Retryable, Reauthentication
      <4> QED
        BY <4>1, <4>3
    <3> QED
      BY <3>2, <3>3, <3>4, <3>5, <3>6
  <2> QED
    BY <2>1, <2>3, <2>4 DEF AdapterFits
<1> QED
  BY <1>1, AdapterInvariance, PTL

\* NoCallOnceDone: once an adapter publishes, has ended or has a status, it never
\* calls the broker again, whatever fails afterwards.
THEOREM DoneIsDone == AdapterSpec => NoCallOnceDone
<1>1. ASSUME AdapterInv, [AdapterNext]_allVars, NEW r \in Runs, NEW id \in RequestIds,
             phase[r] \in {"publish", "done", "dead"} \/ status[r] # "none", <<r, id>> \in calls'
      PROVE  <<r, id>> \in calls
  <2>1. phase[r] # "execute"
    BY <1>1 DEF AdapterInv, AdapterFits
  <2>2. ASSUME NEW q \in Runs, Execute(q) PROVE <<r, id>> \in calls
    <3>1. q # r /\ Step(q)
      BY <2>1, <2>2 DEF Execute
    <3> QED
      BY <1>1, <3>1, StepIsLocal DEF AdapterInv, IInv
  <2>3. ASSUME NEW q \in Runs, \/ Prepare(q) \/ Executed(q) \/ Publish(q) \/ PublishFails(q)
                               \/ Conclude(q) \/ AdapterCrash(q)
        PROVE  UNCHANGED calls
    BY <2>3 DEF Prepare, Executed, Publish, PublishFails, Conclude, AdapterCrash, vars
  <2>4. CASE UNCHANGED allVars
    BY <1>1, <2>4 DEF allVars, vars
  <2> QED
    BY <1>1, <2>2, <2>3, <2>4 DEF AdapterNext, AdapterStep
<1>2. AdapterInv /\ [AdapterNext]_allVars =>
        [\A r \in Runs : phase[r] \in {"publish", "done", "dead"} \/ status[r] # "none" =>
           \A id \in RequestIds : <<r, id>> \in calls' => <<r, id>> \in calls]_allVars
  BY <1>1
<1> QED
  BY <1>2, AdapterInvariance, PTL DEF AdapterSpec, NoCallOnceDone
==============================================================================
