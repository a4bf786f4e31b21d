------------------------- MODULE RequestBudget_proof -------------------------
(***************************************************************************)
(* Proofs about RequestBudget, for every set of processes, windows,        *)
(* allowances and amounts.  The inductive invariant IInv says what each    *)
(* step of an open transaction may rely on: who holds the write lock, that *)
(* the row read is still the row stored, what is staged, and which units   *)
(* of the window the calls between COMMIT and return own.                  *)
(***************************************************************************)
EXTENDS RequestBudget, FiniteSetTheorems, TLAPS

\* A transaction is open exactly in the process that holds the write lock.
LockHeld == \A p \in Procs : pc[p] \in InTransaction <=> writer = p

\* A call that got past validation is a configure() or a consume() that is valid.
ArgsValid ==
  \A p \in Procs : pc[p] # "idle" =>
    \/ call[p].op = "configure" /\ call[p].arg \in Allowances /\ call[p].arg >= 0
    \/ call[p].op = "consume" /\ call[p].arg > 0

RowsFit == \A w \in Windows : rows[w] # NoRow => rows[w].consumed <= rows[w].allowance

\* What the SELECT established, when the INSERT or UPDATE is next.
WriteReady ==
  \A p \in Procs : pc[p] = "write" =>
    /\ Current(p) = seen[p]
    /\ call[p].op = "configure" => seen[p] = NoRow
    /\ call[p].op = "consume" => /\ seen[p] # NoRow
                                 /\ call[p].arg <= seen[p].allowance - seen[p].consumed

\* What the transaction has written, when its COMMIT is next.
CommitReady ==
  \A p \in Procs :
    /\ pc[p] # "commit" => staged[p] = NoRow
    /\ pc[p] = "commit" /\ call[p].op = "consume" =>
         /\ Current(p) # NoRow
         /\ staged[p] = [allowance |-> Current(p).allowance,
                         consumed |-> Current(p).consumed + call[p].arg]
         /\ call[p].arg <= Current(p).allowance - Current(p).consumed
    /\ pc[p] = "commit" /\ call[p].op = "configure" =>
         \/ /\ Current(p) = NoRow
            /\ staged[p] = [allowance |-> call[p].arg, consumed |-> 0]
         \/ /\ Current(p) # NoRow
            /\ staged[p] = NoRow
            /\ seen[p] = Current(p)
            /\ call[p].arg = Current(p).allowance

\* A call between COMMIT and return knows a row that is stored, or an older one.
ReturnReady ==
  \A p \in Procs : pc[p] = "return" =>
    /\ seen[p] # NoRow
    /\ Current(p) # NoRow
    /\ Current(p).allowance = seen[p].allowance
    /\ seen[p].consumed <= Current(p).consumed
    /\ call[p].op = "consume" => call[p].arg <= seen[p].consumed

IInv == /\ TypeOK
        /\ LockHeld
        /\ ArgsValid
        /\ RowsFit
        /\ WriteReady
        /\ CommitReady
        /\ ReturnReady
        /\ NoOversubscription
        /\ NoDoubleGrant
-----------------------------------------------------------------------------
\* The argument of a call is a number, whatever the method.
LEMMA ArgIsInt == ASSUME TypeOK, NEW p \in Procs PROVE call[p].arg \in Int
<1>1. call[p] \in Calls
  BY DEF TypeOK
<1>2. call[p].arg \in Allowances \cup Amounts \cup {0}
  BY <1>1 DEF Calls
<1>3. \A x \in Allowances \cup Amounts \cup {0} : x \in Int
  BY ArgumentsAreInts
<1> QED BY <1>2, <1>3

LEMMA InitIInv == Init => IInv
<1> SUFFICES ASSUME Init PROVE IInv
    OBVIOUS
<1> USE DEF Init, Row
<1>1. TypeOK
  BY DEF TypeOK, PCs, Outcomes, Calls
<1>2. LockHeld /\ ArgsValid /\ RowsFit /\ WriteReady /\ CommitReady /\ ReturnReady
  BY NoProcIsNoProc
     DEF LockHeld, ArgsValid, RowsFit, WriteReady, CommitReady, ReturnReady, InTransaction
<1>3. NoOversubscription /\ NoDoubleGrant
  BY DEF NoOversubscription, NoDoubleGrant, Owns
<1> QED BY <1>1, <1>2, <1>3 DEF IInv

\* A call that ends by an exception, or with its process, keeps the invariant.
LEMMA FailKeeps ==
  ASSUME IInv, NEW p \in Procs, NEW how \in Outcomes, Fail(p, how),
         pc[p] \in {"begin", "return"} \cup InTransaction,
         seen' \in [Procs -> Row \cup {NoRow}],
         \A q \in Procs \ {p} : seen'[q] = seen[q]
  PROVE  IInv'
<1> USE DEF IInv, Fail, Leave, InTransaction, Current, Window
<1>1. TypeOK'
  BY DEF TypeOK, PCs
<1>2. LockHeld'
  BY NoProcIsNoProc DEF TypeOK, LockHeld, PCs
<1>3. ArgsValid' /\ RowsFit'
  BY DEF TypeOK, ArgsValid, RowsFit
<1>4. WriteReady'
  BY DEF TypeOK, WriteReady
<1>5. CommitReady'
  BY DEF TypeOK, CommitReady
<1>6. ReturnReady'
  BY DEF TypeOK, ReturnReady
<1>7. NoOversubscription'
  BY DEF TypeOK, NoOversubscription
<1>8. NoDoubleGrant'
  BY DEF TypeOK, NoDoubleGrant, Owns
<1> QED BY <1>1, <1>2, <1>3, <1>4, <1>5, <1>6, <1>7, <1>8

\* Making a call moves nothing but the caller's own variables.
LEMMA EnterKeeps ==
  ASSUME IInv, NEW p \in Procs, NEW c \in Calls,
         pc[p] = "idle",
         NEW next \in {"idle", "begin"},
         next = "begin" => \/ c.op = "configure" /\ c.arg \in Allowances /\ c.arg >= 0
                           \/ c.op = "consume" /\ c.arg > 0,
         call' = [call EXCEPT ![p] = c],
         pc' = [pc EXCEPT ![p] = next],
         seen' \in [Procs -> Row \cup {NoRow}],
         outcome' \in [Procs -> Outcomes],
         \A q \in Procs \ {p} : seen'[q] = seen[q],
         UNCHANGED <<rows, writer, staged, granted>>
  PROVE  IInv'
<1> USE DEF IInv, InTransaction, Current, Window
<1>1. TypeOK'
  BY DEF TypeOK, PCs
<1>2. /\ pc'[p] = next /\ next # "write" /\ next # "commit" /\ next # "return"
      /\ call'[p] = c
      /\ \A q \in Procs \ {p} : pc'[q] = pc[q] /\ call'[q] = call[q]
  BY DEF TypeOK
<1>3. LockHeld'
  BY <1>2, NoProcIsNoProc DEF TypeOK, LockHeld
<1>4. ArgsValid' /\ RowsFit'
  BY <1>2 DEF ArgsValid, RowsFit
<1>5. WriteReady'
  BY <1>2 DEF WriteReady
<1>6. CommitReady'
  BY <1>2, ZenonT(30) DEF CommitReady
<1>7. ReturnReady'
  BY <1>2 DEF ReturnReady
<1>8. NoOversubscription'
  BY DEF NoOversubscription
<1>9. NoDoubleGrant'
  <2>1. \A q \in Procs : Owns(q)' =>
          /\ q # p /\ Owns(q)
          /\ call'[q] = call[q] /\ seen'[q] = seen[q]
    BY <1>2 DEF Owns
  <2> QED BY <2>1 DEF NoDoubleGrant
<1> QED BY <1>1, <1>3, <1>4, <1>5, <1>6, <1>7, <1>8, <1>9

LEMMA ConfigureKeeps ==
  ASSUME IInv, NEW p \in Procs, NEW w \in Windows, NEW a \in Allowances, Configure(p, w, a)
  PROVE  IInv'
<1> DEFINE c == [op |-> "configure", window |-> w, arg |-> a]
<1>1. c \in Calls /\ a \in Int
  BY ArgumentsAreInts DEF Calls
<1>2. /\ pc[p] = "idle"
      /\ call' = [call EXCEPT ![p] = c]
      /\ UNCHANGED <<rows, writer, staged, granted>>
      /\ seen' = [seen EXCEPT ![p] = NoRow]
  BY DEF Configure, Enter
<1>3. seen' \in [Procs -> Row \cup {NoRow}] /\ \A q \in Procs \ {p} : seen'[q] = seen[q]
  BY <1>2 DEF IInv, TypeOK
<1>4. outcome' \in [Procs -> Outcomes]
  BY DEF Configure, Enter, IInv, TypeOK, Outcomes
<1>5. CASE a >= 0
  <2>1. pc' = [pc EXCEPT ![p] = "begin"]
    BY <1>5 DEF Configure, Enter, ValidAllowance
  <2> QED BY <1>1, <1>2, <1>3, <1>4, <1>5, <2>1, EnterKeeps
<1>6. CASE ~(a >= 0)
  <2>1. pc' = [pc EXCEPT ![p] = "idle"]
    BY <1>6 DEF Configure, Enter, ValidAllowance, IInv, TypeOK
  <2> QED BY <1>1, <1>2, <1>3, <1>4, <2>1, EnterKeeps
<1> QED BY <1>5, <1>6

LEMMA ConsumeKeeps ==
  ASSUME IInv, NEW p \in Procs, NEW w \in Windows, NEW n \in Amounts, Consume(p, w, n)
  PROVE  IInv'
<1> DEFINE c == [op |-> "consume", window |-> w, arg |-> n]
<1>1. c \in Calls /\ n \in Int
  BY ArgumentsAreInts DEF Calls
<1>2. /\ pc[p] = "idle"
      /\ call' = [call EXCEPT ![p] = c]
      /\ UNCHANGED <<rows, writer, staged, granted>>
      /\ seen' = [seen EXCEPT ![p] = NoRow]
  BY DEF Consume, Enter
<1>3. seen' \in [Procs -> Row \cup {NoRow}] /\ \A q \in Procs \ {p} : seen'[q] = seen[q]
  BY <1>2 DEF IInv, TypeOK
<1>4. outcome' \in [Procs -> Outcomes]
  BY DEF Consume, Enter, IInv, TypeOK, Outcomes
<1>5. CASE n > 0
  <2>1. pc' = [pc EXCEPT ![p] = "begin"]
    BY <1>5 DEF Consume, Enter, ValidAmount
  <2> QED BY <1>1, <1>2, <1>3, <1>4, <1>5, <2>1, EnterKeeps
<1>6. CASE ~(n > 0)
  <2>1. pc' = [pc EXCEPT ![p] = "idle"]
    BY <1>6 DEF Consume, Enter, ValidAmount, IInv, TypeOK
  <2> QED BY <1>1, <1>2, <1>3, <1>4, <2>1, EnterKeeps
<1> QED BY <1>5, <1>6

LEMMA SnapshotKeeps ==
  ASSUME IInv, NEW p \in Procs, NEW w \in Windows, Snapshot(p, w) PROVE IInv'
<1>1. [op |-> "snapshot", window |-> w, arg |-> 0] \in Calls
  BY DEF Calls
<1>2. rows[w] \in Row \cup {NoRow}
  BY DEF IInv, TypeOK
<1>3. seen' \in [Procs -> Row \cup {NoRow}] /\ \A q \in Procs \ {p} : seen'[q] = seen[q]
  BY <1>2 DEF Snapshot, IInv, TypeOK
<1>4. outcome' \in [Procs -> Outcomes] /\ pc' = [pc EXCEPT ![p] = "idle"]
  BY DEF Snapshot, IInv, TypeOK, Outcomes
<1> QED BY <1>1, <1>3, <1>4, EnterKeeps DEF Snapshot

\* A step inside the transaction of p, before its COMMIT: it moves nothing but
\* p's own reading and staging, so only what p relies on has to be shown.
LEMMA InsideKeeps ==
  ASSUME IInv, NEW p \in Procs, NEW next \in {"select", "write", "commit"},
         pc[p] # "idle", pc[p] # "return",
         pc' = [pc EXCEPT ![p] = next],
         pc[p] = "begin" => writer = NoProc,
         writer' = p,
         UNCHANGED <<rows, call, outcome, granted>>,
         seen' \in [Procs -> Row \cup {NoRow}],
         staged' \in [Procs -> Row \cup {NoRow}],
         \A q \in Procs \ {p} : seen'[q] = seen[q] /\ staged'[q] = staged[q],
         next = "write" =>
           /\ Current(p) = seen'[p]
           /\ call[p].op = "configure" => seen'[p] = NoRow
           /\ call[p].op = "consume" =>
                /\ seen'[p] # NoRow
                /\ call[p].arg <= seen'[p].allowance - seen'[p].consumed,
         next # "commit" => staged'[p] = NoRow,
         next = "commit" /\ call[p].op = "consume" =>
           /\ Current(p) # NoRow
           /\ staged'[p] = [allowance |-> Current(p).allowance,
                            consumed |-> Current(p).consumed + call[p].arg]
           /\ call[p].arg <= Current(p).allowance - Current(p).consumed,
         next = "commit" /\ call[p].op = "configure" =>
           \/ /\ Current(p) = NoRow
              /\ staged'[p] = [allowance |-> call[p].arg, consumed |-> 0]
           \/ /\ Current(p) # NoRow
              /\ staged'[p] = NoRow
              /\ seen'[p] = Current(p)
              /\ call[p].arg = Current(p).allowance
  PROVE  IInv'
<1> USE DEF IInv, InTransaction, Current, Window
<1>1. TypeOK'
  BY DEF TypeOK, PCs
<1>2. LockHeld'
  BY NoProcIsNoProc DEF TypeOK, LockHeld, PCs
<1>3. ArgsValid' /\ RowsFit'
  BY DEF TypeOK, ArgsValid, RowsFit
<1>4. WriteReady'
  BY DEF TypeOK, WriteReady
<1>5. CommitReady'
  BY DEF TypeOK, CommitReady
<1>6. ReturnReady'
  BY DEF TypeOK, ReturnReady
<1>7. NoOversubscription'
  BY DEF TypeOK, NoOversubscription
<1>8. NoDoubleGrant'
  BY DEF TypeOK, NoDoubleGrant, Owns
<1> QED BY <1>1, <1>2, <1>3, <1>4, <1>5, <1>6, <1>7, <1>8

LEMMA BeginKeeps == ASSUME IInv, NEW p \in Procs, BeginImmediate(p) PROVE IInv'
<1>1. /\ seen' \in [Procs -> Row \cup {NoRow}]
      /\ staged' \in [Procs -> Row \cup {NoRow}]
      /\ staged[p] = NoRow
  BY DEF IInv, TypeOK, BeginImmediate, CommitReady
<1> QED BY <1>1, InsideKeeps DEF BeginImmediate

LEMMA SelectForConfigureKeeps ==
  ASSUME IInv, NEW p \in Procs, SelectForConfigure(p) PROVE IInv'
<1> USE DEF SelectForConfigure
<1>1. /\ Current(p) \in Row \cup {NoRow}
      /\ seen' \in [Procs -> Row \cup {NoRow}]
      /\ seen'[p] = Current(p)
      /\ staged \in [Procs -> Row \cup {NoRow}]
      /\ staged[p] = NoRow
      /\ writer = p
  BY DEF IInv, TypeOK, Calls, CommitReady, LockHeld, InTransaction, Current, Window
<1>2. CASE Current(p) = NoRow
  BY <1>1, <1>2, InsideKeeps
<1>3. CASE Current(p) # NoRow /\ Serves(Current(p), call[p].arg)
  BY <1>1, <1>3, InsideKeeps DEF Serves
<1>4. CASE Current(p) # NoRow /\ ~Serves(Current(p), call[p].arg)
  BY <1>1, <1>4, FailKeeps DEF Outcomes, InTransaction
<1> QED BY <1>2, <1>3, <1>4

LEMMA SelectForConsumeKeeps ==
  ASSUME IInv, NEW p \in Procs, SelectForConsume(p) PROVE IInv'
<1> USE DEF SelectForConsume
<1>1. /\ Current(p) \in Row \cup {NoRow}
      /\ seen' \in [Procs -> Row \cup {NoRow}]
      /\ seen'[p] = Current(p)
      /\ staged \in [Procs -> Row \cup {NoRow}]
      /\ staged[p] = NoRow
      /\ writer = p
  BY DEF IInv, TypeOK, Calls, CommitReady, LockHeld, InTransaction, Current, Window
<1>2. CASE ~Usable(Current(p)) \/ ~Fits(Current(p), call[p].arg)
  BY <1>1, <1>2, FailKeeps DEF Outcomes, InTransaction
<1>3. CASE Usable(Current(p)) /\ Fits(Current(p), call[p].arg)
  BY <1>1, <1>3, InsideKeeps DEF Usable, Fits
<1> QED BY <1>2, <1>3

LEMMA InsertRowKeeps == ASSUME IInv, NEW p \in Procs, InsertRow(p) PROVE IInv'
<1> USE DEF IInv
<1>1. pc[p] = "write" /\ call[p].op = "configure"
  BY DEF InsertRow
<1>2. call[p] \in Calls /\ seen \in [Procs -> Row \cup {NoRow}]
  BY DEF TypeOK
<1>3. call[p].arg >= 0 /\ call[p].arg \in Int
  BY <1>1, ArgIsInt DEF ArgsValid
<1>4. Current(p) = NoRow /\ writer = p
  BY <1>1 DEF WriteReady, LockHeld, InTransaction
<1>5. staged' = [staged EXCEPT ![p] = [allowance |-> call[p].arg, consumed |-> 0]]
  BY <1>4 DEF InsertRow
<1>6. staged' \in [Procs -> Row \cup {NoRow}]
  BY <1>3, <1>5 DEF TypeOK, Row
<1>7. /\ staged'[p] = [allowance |-> call[p].arg, consumed |-> 0]
      /\ \A q \in Procs \ {p} : staged'[q] = staged[q]
  BY <1>5 DEF TypeOK
<1> QED BY <1>1, <1>2, <1>4, <1>6, <1>7, InsideKeeps DEF InsertRow

LEMMA UpdateRowKeeps == ASSUME IInv, NEW p \in Procs, UpdateRow(p) PROVE IInv'
<1>1. /\ call[p].arg > 0 /\ call[p].arg \in Int
      /\ Current(p) \in Row
      /\ Current(p) = seen[p]
      /\ Current(p) # NoRow
      /\ call[p].arg <= Current(p).allowance - Current(p).consumed
      /\ seen \in [Procs -> Row \cup {NoRow}]
      /\ writer = p
  BY ArgumentsAreInts
     DEF IInv, UpdateRow, TypeOK, Calls, ArgsValid, WriteReady, LockHeld, InTransaction
<1> DEFINE new == [allowance |-> Current(p).allowance,
                   consumed |-> Current(p).consumed + call[p].arg]
<1>2. staged' = [staged EXCEPT ![p] = new]
  BY <1>1 DEF UpdateRow
<1>3. new \in Row
  BY <1>1 DEF Row
<1>4. staged' \in [Procs -> Row \cup {NoRow}]
  BY <1>2, <1>3 DEF IInv, TypeOK
<1>5. staged'[p] = new /\ \A q \in Procs \ {p} : staged'[q] = staged[q]
  BY <1>2 DEF IInv, TypeOK
<1> QED BY <1>1, <1>4, <1>5, InsideKeeps DEF UpdateRow

\* What COMMIT does to the stored rows: none changes but p's own, which appears
\* with p's allowance or moves up by exactly the units p will own.
LEMMA CommitEffect ==
  ASSUME IInv, NEW p \in Procs, Commit(p)
  PROVE  /\ rows' \in [Windows -> Row \cup {NoRow}]
         /\ \A w \in Windows \ {Window(p)} : rows'[w] = rows[w]
         /\ rows'[Window(p)] \in Row
         /\ rows'[Window(p)].allowance = seen'[p].allowance
         /\ rows'[Window(p)].consumed = seen'[p].consumed
         /\ seen'[p] \in Row
         /\ seen' = [seen EXCEPT ![p] = seen'[p]]
         /\ seen'[p].consumed <= seen'[p].allowance
         /\ call[p].op = "configure" =>
              \/ rows[Window(p)] = NoRow
              \/ rows[Window(p)] = rows'[Window(p)]
         /\ call[p].op = "consume" =>
              /\ call[p].arg \in Int /\ call[p].arg > 0
              /\ rows[Window(p)] # NoRow
              /\ rows[Window(p)] \in Row
              /\ rows'[Window(p)].allowance = rows[Window(p)].allowance
              /\ rows'[Window(p)].consumed = rows[Window(p)].consumed + call[p].arg
         /\ call[p].op \in {"configure", "consume"}
<1> USE DEF IInv
<1>1. pc[p] = "commit" /\ p \in Procs
  BY DEF Commit
<1>2. /\ call[p] \in Calls /\ Window(p) \in Windows
      /\ Current(p) \in Row \cup {NoRow}
      /\ seen \in [Procs -> Row \cup {NoRow}]
      /\ rows \in [Windows -> Row \cup {NoRow}]
  BY DEF TypeOK, Calls, Window, Current
<1>3. seen' = [seen EXCEPT ![p] = Answer(p)]
  BY DEF Commit
<1>4. seen'[p] = Answer(p)
  BY <1>2, <1>3
<1>5. call[p].arg \in Int
  BY ArgIsInt
<1>6. CASE call[p].op = "consume"
  <2> DEFINE new == [allowance |-> Current(p).allowance,
                     consumed |-> Current(p).consumed + call[p].arg]
  <2>1. /\ Current(p) # NoRow /\ staged[p] = new
        /\ call[p].arg <= Current(p).allowance - Current(p).consumed
        /\ call[p].arg > 0
    BY <1>1, <1>6 DEF CommitReady, ArgsValid
  <2>2. new \in Row /\ new # NoRow
    BY <1>2, <1>5, <2>1, NoRowIsNoRow DEF Row
  <2>3. Answer(p) = new /\ rows' = [rows EXCEPT ![Window(p)] = new]
    BY <2>1, <2>2 DEF Answer, Commit
  <2>4. rows'[Window(p)] = new
    BY <1>2, <2>3
  <2>5. new.consumed <= new.allowance
    BY <1>2, <1>5, <2>1 DEF Row
  <2> HIDE DEF new
  <2>6. /\ rows' \in [Windows -> Row \cup {NoRow}]
        /\ \A w \in Windows \ {Window(p)} : rows'[w] = rows[w]
    BY <1>2, <2>2, <2>3
  <2>7. new.allowance = Current(p).allowance /\ new.consumed = Current(p).consumed + call[p].arg
    BY DEF new
  <2> QED BY <1>2, <1>3, <1>4, <1>5, <1>6, <2>1, <2>2, <2>3, <2>4, <2>5, <2>6, <2>7 DEF Current
<1>7. CASE call[p].op = "configure" /\ staged[p] # NoRow
  <2> DEFINE new == [allowance |-> call[p].arg, consumed |-> 0]
  <2>1. Current(p) = NoRow /\ staged[p] = new /\ call[p].arg >= 0
    BY <1>1, <1>7 DEF CommitReady, ArgsValid
  <2>2. new \in Row /\ new.consumed <= new.allowance
    BY <1>5, <2>1 DEF Row
  <2> HIDE DEF new
  <2>3. Answer(p) = new /\ rows' = [rows EXCEPT ![Window(p)] = new]
    BY <1>7, <2>1 DEF Answer, Commit
  <2> QED BY <1>2, <1>3, <1>4, <1>7, <2>1, <2>2, <2>3 DEF Current
<1>8. CASE call[p].op = "configure" /\ staged[p] = NoRow
  <2>1. /\ Current(p) # NoRow /\ seen[p] = Current(p)
        /\ call[p].arg = Current(p).allowance
    <3>1. [allowance |-> call[p].arg, consumed |-> 0] # NoRow
      <4>1. call[p].arg >= 0
        BY <1>1, <1>8 DEF ArgsValid
      <4>2. [allowance |-> call[p].arg, consumed |-> 0] \in Row
        BY <1>5, <4>1 DEF Row
      <4> QED BY <4>2, NoRowIsNoRow
    <3> QED BY <1>1, <1>8, <3>1 DEF CommitReady
  <2>2. Answer(p) = Current(p) /\ rows' = rows
    BY <1>2, <1>8, <2>1 DEF Answer, Commit, Row
  <2>3. Current(p).consumed <= Current(p).allowance
    BY <1>2, <2>1 DEF RowsFit, Current
  <2> QED BY <1>2, <1>3, <1>4, <1>8, <2>1, <2>2, <2>3 DEF Current
<1>9. call[p].op = "configure" \/ call[p].op = "consume"
  BY <1>1 DEF ArgsValid
<1> QED BY <1>6, <1>7, <1>8, <1>9

LEMMA CommitKeeps == ASSUME IInv, NEW p \in Procs, Commit(p) PROVE IInv'
<1> USE DEF IInv
<1> DEFINE w == Window(p)
           old == rows[w]
           new == rows'[w]
<1>1. /\ pc[p] = "commit" /\ writer = p
      /\ pc' = [pc EXCEPT ![p] = "return"]
      /\ staged' = [staged EXCEPT ![p] = NoRow]
      /\ writer' = NoProc
      /\ UNCHANGED <<call, outcome, granted>>
  BY DEF Commit, LockHeld, InTransaction
<1>2. /\ pc'[p] = "return" /\ staged'[p] = NoRow
      /\ \A q \in Procs \ {p} :
           /\ pc'[q] = pc[q] /\ staged'[q] = staged[q] /\ seen'[q] = seen[q]
           /\ pc[q] \notin InTransaction
  BY <1>1, CommitEffect DEF TypeOK, LockHeld
<1>3. /\ \A q \in Procs : Window(q)' = Window(q) /\ call'[q] = call[q] /\ Window(q) \in Windows
      /\ rows \in [Windows -> Row \cup {NoRow}]
  BY <1>1 DEF Window, TypeOK, Calls
<1>4. /\ new \in Row /\ new # NoRow
      /\ old # NoRow => /\ old \in Row
                        /\ new.allowance = old.allowance
                        /\ old.consumed <= new.consumed
  <2>1. new \in Row /\ new # NoRow
    BY CommitEffect, NoRowIsNoRow
  <2>2. CASE call[p].op = "configure"
    BY <1>3, <2>1, <2>2, CommitEffect DEF Row
  <2>3. CASE call[p].op = "consume"
    <3>1. /\ old \in Row /\ call[p].arg \in Int /\ call[p].arg > 0
          /\ new.allowance = old.allowance
          /\ new.consumed = old.consumed + call[p].arg
      BY <2>3, CommitEffect
    <3>2. old.consumed \in Int
      BY <3>1 DEF Row
    <3> QED BY <2>1, <3>1, <3>2
  <2> QED BY <2>2, <2>3, CommitEffect
<1>5. TypeOK'
  <2>1. seen' \in [Procs -> Row \cup {NoRow}]
    BY CommitEffect DEF TypeOK
  <2> QED BY <1>1, <2>1, CommitEffect DEF TypeOK, PCs
<1>6. LockHeld'
  BY <1>1, <1>2, NoProcIsNoProc DEF LockHeld, InTransaction
<1>7. ArgsValid'
  BY <1>1, <1>2, <1>3 DEF ArgsValid
<1>8. RowsFit'
  BY CommitEffect DEF RowsFit
<1>9. WriteReady' /\ CommitReady'
  BY <1>2 DEF WriteReady, CommitReady, InTransaction
<1>10. ReturnReady'
  <2> SUFFICES ASSUME NEW q \in Procs, pc'[q] = "return"
               PROVE  /\ seen'[q] # NoRow
                      /\ rows'[Window(q)] # NoRow
                      /\ rows'[Window(q)].allowance = seen'[q].allowance
                      /\ seen'[q].consumed <= rows'[Window(q)].consumed
                      /\ call[q].op = "consume" => call[q].arg <= seen'[q].consumed
    BY <1>3 DEF ReturnReady, Current
  <2>1. CASE q = p
    <3>1. seen'[p] \in Row /\ seen'[p].consumed \in Nat
      BY CommitEffect DEF Row
    <3>2. ASSUME call[p].op = "consume" PROVE call[p].arg <= seen'[p].consumed
      <4>1. old \in Row /\ old.consumed \in Nat
        BY <3>2, CommitEffect DEF Row
      <4> QED BY <3>1, <3>2, <4>1, CommitEffect
    <3> QED BY <2>1, <3>1, <3>2, CommitEffect, NoRowIsNoRow
  <2>2. CASE q # p
    <3>1. /\ pc[q] = "return" /\ seen'[q] = seen[q]
          /\ seen[q] # NoRow /\ rows[Window(q)] # NoRow
          /\ rows[Window(q)].allowance = seen[q].allowance
          /\ seen[q].consumed <= rows[Window(q)].consumed
          /\ call[q].op = "consume" => call[q].arg <= seen[q].consumed
      BY <1>2, <2>2 DEF ReturnReady, Current
    <3>2. CASE Window(q) # w
      BY <1>3, <3>1, <3>2, CommitEffect
    <3>3. CASE Window(q) = w
      <4>1. seen[q].consumed \in Int /\ old.consumed \in Int /\ new.consumed \in Int
        BY <1>3, <1>4, <3>1, <3>3 DEF TypeOK, Row
      <4> QED BY <1>4, <3>1, <3>3, <4>1
    <3> QED BY <3>2, <3>3
  <2> QED BY <2>1, <2>2
<1>11. NoOversubscription'
  <2> SUFFICES ASSUME NEW v \in Windows
               PROVE  /\ rows'[v] = NoRow => granted[v] = {}
                      /\ rows'[v] # NoRow => /\ rows'[v].consumed <= rows'[v].allowance
                                             /\ granted[v] \subseteq 1 .. rows'[v].consumed
    BY <1>1 DEF NoOversubscription
  <2>1. CASE v # w
    BY <2>1, CommitEffect DEF NoOversubscription
  <2>2. CASE v = w /\ old = NoRow
    BY <1>4, <2>2, CommitEffect DEF NoOversubscription
  <2>3. CASE v = w /\ old # NoRow
    <3>1. granted[v] \subseteq 1 .. old.consumed
      BY <1>3, <2>3 DEF NoOversubscription
    <3>2. old.consumed \in Nat /\ new.consumed \in Nat
      BY <1>4, <2>3 DEF Row
    <3> QED BY <1>4, <2>3, <3>1, <3>2, CommitEffect
  <2> QED BY <2>1, <2>2, <2>3
<1>12. NoDoubleGrant'
  <2> DEFINE mine == Units(seen'[p], call[p].arg)
  <2>1. ASSUME call[p].op = "consume"
        PROVE  /\ old \in Row
               /\ mine = (old.consumed + 1) .. new.consumed
    <3>1. /\ call[p].arg \in Int /\ old \in Row
          /\ new.consumed = old.consumed + call[p].arg
          /\ seen'[p].consumed = new.consumed
      BY <2>1, CommitEffect
    <3>2. old.consumed \in Int
      BY <3>1 DEF Row
    <3> QED BY <3>1, <3>2 DEF Units
  <2>2. ASSUME call[p].op = "consume"
        PROVE  mine \cap granted[w] = {}
    <3>1. old \in Row /\ old # NoRow /\ old.consumed \in Int
      BY <2>1, <2>2, NoRowIsNoRow DEF Row
    <3>2. granted[w] \subseteq 1 .. old.consumed
      BY <1>3, <3>1 DEF NoOversubscription
    <3>3. mine = (old.consumed + 1) .. new.consumed
      BY <2>1, <2>2
    <3>4. new.consumed \in Int
      BY <1>4 DEF Row
    <3> HIDE DEF mine
    <3> QED BY <3>1, <3>2, <3>3, <3>4
  <2>3. ASSUME call[p].op = "consume", NEW q \in Procs \ {p}, Owns(q), Window(q) = w
        PROVE  mine \cap Units(seen[q], call[q].arg) = {}
    <3>1. /\ seen[q] # NoRow /\ seen[q].consumed <= old.consumed
          /\ call[q].arg <= seen[q].consumed
      BY <2>3 DEF Owns, ReturnReady, Current
    <3>2. old.consumed \in Int /\ seen[q].consumed \in Int /\ call[q].arg \in Int
      <4>1. seen[q] \in Row
        BY <3>1 DEF TypeOK
      <4>2. old \in Row
        BY <2>1, <2>3
      <4>3. call[q].arg \in Int
        BY ArgIsInt
      <4> QED BY <4>1, <4>2, <4>3 DEF Row
    <3>3. mine = (old.consumed + 1) .. new.consumed /\ new.consumed \in Int
      BY <1>4, <2>1, <2>3 DEF Row
    <3>4. Units(seen[q], call[q].arg) \subseteq Int
          /\ \A u \in Units(seen[q], call[q].arg) : u <= old.consumed
      BY <3>1, <3>2 DEF Units
    <3> HIDE DEF mine
    <3> QED BY <3>2, <3>3, <3>4
  <2>4. \A q \in Procs \ {p} :
          /\ Owns(q)' <=> Owns(q)
          /\ Units(seen[q], call[q].arg)' = Units(seen[q], call[q].arg)
    BY <1>1, <1>2 DEF Owns, Units
  <2>5. Owns(p)' <=> call[p].op = "consume"
    BY <1>1, <1>2 DEF Owns
  <2>6. Units(seen[p], call[p].arg)' = mine
    BY <1>1 DEF Units
  <2> SUFFICES ASSUME NEW q \in Procs, Owns(q)'
               PROVE  /\ Units(seen[q], call[q].arg)' \cap granted[Window(q)] = {}
                      /\ \A r \in Procs \ {q} :
                           Owns(r)' /\ Window(r) = Window(q) =>
                             Units(seen[q], call[q].arg)' \cap Units(seen[r], call[r].arg)' = {}
    BY <1>1, <1>3 DEF NoDoubleGrant
  <2> HIDE DEF mine
  <2>7. CASE q = p
    BY <2>2, <2>3, <2>4, <2>5, <2>6, <2>7
  <2>8. CASE q # p
    <3>1. ASSUME NEW r \in Procs \ {q}, Owns(r)', Window(r) = Window(q)
          PROVE  Units(seen[q], call[q].arg)' \cap Units(seen[r], call[r].arg)' = {}
      <4>1. CASE r = p
        BY <2>3, <2>4, <2>5, <2>6, <2>8, <3>1, <4>1
      <4>2. CASE r # p
        BY <2>4, <2>8, <3>1, <4>2 DEF NoDoubleGrant
      <4> QED BY <4>1, <4>2
    <3>2. Units(seen[q], call[q].arg)' \cap granted[Window(q)] = {}
      BY <2>4, <2>8 DEF NoDoubleGrant
    <3> QED BY <3>1, <3>2
  <2> QED BY <2>7, <2>8
<1> QED BY <1>5, <1>6, <1>7, <1>8, <1>9, <1>10, <1>11, <1>12

LEMMA ReturnKeeps == ASSUME IInv, NEW p \in Procs, Return(p) PROVE IInv'
<1> USE DEF IInv
<1>1. /\ pc[p] = "return" /\ pc' = [pc EXCEPT ![p] = "idle"]
      /\ UNCHANGED <<rows, writer, call, seen, staged>>
  BY DEF Return
<1>2. /\ pc'[p] = "idle"
      /\ \A q \in Procs \ {p} : pc'[q] = pc[q]
  BY <1>1 DEF TypeOK
<1>3. /\ seen[p] \in Row /\ Current(p) \in Row /\ Current(p) # NoRow
      /\ seen[p].consumed <= Current(p).consumed
      /\ Window(p) \in Windows
  BY <1>1 DEF ReturnReady, TypeOK, Calls, Current, Window
<1>4. ASSUME call[p].op = "consume"
      PROVE  Units(seen[p], call[p].arg) \subseteq 1 .. Current(p).consumed
  <2>1. call[p].arg <= seen[p].consumed
    BY <1>1, <1>4 DEF ReturnReady
  <2>2. call[p].arg \in Int
    BY ArgIsInt
  <2>3. seen[p].consumed \in Int /\ Current(p).consumed \in Int
    BY <1>3 DEF Row
  <2> QED BY <1>3, <2>1, <2>2, <2>3 DEF Units
<1>5. /\ granted' \in [Windows -> SUBSET Nat]
      /\ \A v \in Windows :
           \/ granted'[v] \subseteq granted[v]
           \/ /\ v = Window(p) /\ call[p].op = "consume"
              /\ granted'[v] = granted[v] \cup Units(seen[p], call[p].arg)
  <2>1. CASE call[p].op = "consume"
    <3>1. Units(seen[p], call[p].arg) \subseteq Nat
      <4>1. 1 .. Current(p).consumed \subseteq Nat
        BY <1>3 DEF Row
      <4> QED BY <1>4, <2>1, <4>1
    <3>2. granted' = [granted EXCEPT ![Window(p)] = @ \cup Units(seen[p], call[p].arg)]
      BY <2>1 DEF Return
    <3>3. granted \in [Windows -> SUBSET Nat]
      BY DEF TypeOK
    <3>4. granted[Window(p)] \cup Units(seen[p], call[p].arg) \in SUBSET Nat
      BY <1>3, <3>1, <3>3
    <3>5. /\ granted' \in [Windows -> SUBSET Nat]
          /\ granted'[Window(p)] = granted[Window(p)] \cup Units(seen[p], call[p].arg)
      BY <1>3, <3>2, <3>3, <3>4
    <3>6. \A v \in Windows : v # Window(p) => granted'[v] = granted[v]
      BY <3>2, <3>3
    <3> HIDE DEF IInv
    <3> QED BY <2>1, <3>5, <3>6
  <2>2. CASE call[p].op # "consume"
    <3>1. granted' = granted /\ granted \in [Windows -> SUBSET Nat]
      BY <2>2 DEF Return, TypeOK
    <3> HIDE DEF IInv
    <3> QED BY <3>1
  <2> QED BY <2>1, <2>2
<1>6. TypeOK'
  BY <1>1, <1>5 DEF TypeOK, PCs, Return, Outcomes
<1>7. LockHeld' /\ ArgsValid' /\ RowsFit'
  BY <1>1, <1>2 DEF LockHeld, ArgsValid, RowsFit, InTransaction
<1>8. WriteReady' /\ CommitReady' /\ ReturnReady'
  BY <1>1, <1>2 DEF WriteReady, CommitReady, ReturnReady, Current, Window
<1>9. NoOversubscription'
  <2> SUFFICES ASSUME NEW v \in Windows
               PROVE  /\ rows[v] = NoRow => granted'[v] = {}
                      /\ rows[v] # NoRow => /\ rows[v].consumed <= rows[v].allowance
                                            /\ granted'[v] \subseteq 1 .. rows[v].consumed
    BY <1>1 DEF NoOversubscription
  <2> QED BY <1>3, <1>4, <1>5 DEF NoOversubscription, Current
<1>10. NoDoubleGrant'
  <2> SUFFICES ASSUME NEW q \in Procs, Owns(q)'
               PROVE  /\ Units(seen[q], call[q].arg) \cap granted'[Window(q)] = {}
                      /\ \A r \in Procs \ {q} :
                           Owns(r)' /\ Window(r) = Window(q) =>
                             Units(seen[q], call[q].arg) \cap Units(seen[r], call[r].arg) = {}
    BY <1>1 DEF NoDoubleGrant, Window
  <2>1. q # p /\ Owns(q) /\ \A r \in Procs : Owns(r)' => r # p /\ Owns(r)
    BY <1>1, <1>2 DEF Owns
  <2>2. Window(q) \in Windows
    BY DEF TypeOK, Calls, Window
  <2>3. Units(seen[q], call[q].arg) \cap granted[Window(q)] = {}
    BY <2>1 DEF NoDoubleGrant
  <2>4. ASSUME call[p].op = "consume", Window(p) = Window(q)
        PROVE  Units(seen[q], call[q].arg) \cap Units(seen[p], call[p].arg) = {}
    BY <1>1, <2>1, <2>4 DEF NoDoubleGrant, Owns
  <2>5. Units(seen[q], call[q].arg) \cap granted'[Window(q)] = {}
    BY <1>5, <2>2, <2>3, <2>4
  <2> QED BY <2>1, <2>5 DEF NoDoubleGrant
<1> QED BY <1>6, <1>7, <1>8, <1>9, <1>10

LEMMA NextKeeps == IInv /\ [Next]_vars => IInv'
<1> SUFFICES ASSUME IInv, [Next]_vars PROVE IInv'
    OBVIOUS
<1>1. ASSUME NEW p \in Procs, NEW w \in Windows,
             \/ \E a \in Allowances : Configure(p, w, a)
             \/ \E n \in Amounts : Consume(p, w, n)
             \/ Snapshot(p, w)
      PROVE  IInv'
  BY <1>1, ConfigureKeeps, ConsumeKeeps, SnapshotKeeps
<1>2. ASSUME NEW p \in Procs, BusyTimeout(p) \/ SqlError(p) \/ Crash(p) PROVE IInv'
  <2>1. pc[p] \in {"begin", "return"} \cup InTransaction
    BY <1>2 DEF BusyTimeout, SqlError, Crash, InTransaction, IInv, TypeOK, PCs
  <2>2. /\ seen' \in [Procs -> Row \cup {NoRow}]
        /\ \A q \in Procs \ {p} : seen'[q] = seen[q]
    BY <1>2 DEF BusyTimeout, SqlError, Crash, IInv, TypeOK
  <2>3. \E how \in Outcomes : Fail(p, how)
    BY <1>2 DEF BusyTimeout, SqlError, Crash, Outcomes
  <2> QED BY <2>1, <2>2, <2>3, FailKeeps
<1>3. ASSUME NEW p \in Procs, Step(p) PROVE IInv'
  BY <1>2, <1>3, BeginKeeps, SelectForConfigureKeeps, SelectForConsumeKeeps,
     InsertRowKeeps, UpdateRowKeeps, CommitKeeps, ReturnKeeps DEF Step
<1>4. CASE UNCHANGED vars
  <2> USE <1>4 DEF vars, IInv
  <2>1. TypeOK' /\ LockHeld' /\ ArgsValid' /\ RowsFit'
    BY DEF TypeOK, LockHeld, ArgsValid, RowsFit
  <2>2. WriteReady' /\ CommitReady' /\ ReturnReady'
    BY DEF WriteReady, CommitReady, ReturnReady, Current, Window
  <2>3. NoOversubscription' /\ NoDoubleGrant'
    BY DEF NoOversubscription, NoDoubleGrant, Owns, Units, Window
  <2> QED BY <2>1, <2>2, <2>3
<1> QED BY <1>1, <1>2, <1>3, <1>4 DEF Next
-----------------------------------------------------------------------------
\* The invariant the proofs below rest on holds of every state of the protocol.
THEOREM Invariance == Spec => []IInv
<1> QED BY InitIInv, NextKeeps, PTL DEF Spec

\* The variables keep the types their comments announce: in particular no stored
\* or staged row ever has a negative allowance or count.
THEOREM TypeCorrect == Spec => []TypeOK
<1> QED BY Invariance, PTL DEF IInv

\* "Concurrent processes cannot oversubscribe the allowance" (AGENT_HANDOFF.md,
\* request budget), for any number of processes, windows and calls.
THEOREM NeverOversubscribed == Spec => []NoOversubscription
<1> QED BY Invariance, PTL DEF IInv

\* Two successful consume() calls never own the same unit of a window.
THEOREM NeverGrantedTwice == Spec => []NoDoubleGrant
<1> QED BY Invariance, PTL DEF IInv

\* Under BEGIN IMMEDIATE the row read is the row written over, so the branch
\* "affected an unexpected number of rows" and a duplicate key are unreachable.
THEOREM WritesFindWhatWasRead == Spec => []ReadStillStands
<1>1. IInv => ReadStillStands
  BY DEF IInv, WriteReady, ReadStillStands
<1> QED BY <1>1, Invariance, PTL

\* The number of units handed out on a window is at most its allowance.
THEOREM GrantsCounted ==
  ASSUME IInv, NEW w \in Windows, rows[w] # NoRow
  PROVE  /\ IsFiniteSet(granted[w])
         /\ Cardinality(granted[w]) <= rows[w].allowance
<1>1. /\ rows[w] \in Row
      /\ granted[w] \subseteq 1 .. rows[w].consumed
      /\ rows[w].consumed <= rows[w].allowance
  BY DEF IInv, TypeOK, NoOversubscription
<1>2. rows[w].consumed \in Nat /\ rows[w].allowance \in Nat
  BY <1>1 DEF Row
<1>3. /\ IsFiniteSet(1 .. rows[w].consumed)
      /\ Cardinality(1 .. rows[w].consumed) = rows[w].consumed
  <2> DEFINE c == rows[w].consumed
  <2>1. c \in Int /\ c >= 0
    BY <1>2
  <2> HIDE DEF c
  <2>2. /\ IsFiniteSet(1 .. c)
        /\ Cardinality(1 .. c) = IF 1 > c THEN 0 ELSE c - 1 + 1
    BY <2>1, FS_Interval
  <2>3. Cardinality(1 .. c) = c
    BY <2>1, <2>2
  <2> QED BY <2>2, <2>3 DEF c
<1>4. /\ IsFiniteSet(granted[w])
      /\ Cardinality(granted[w]) <= Cardinality(1 .. rows[w].consumed)
  BY <1>1, <1>3, FS_Subset
<1>5. Cardinality(granted[w]) \in Nat
  BY <1>4, FS_CardinalityType
<1> QED BY <1>1, <1>2, <1>3, <1>4, <1>5
-----------------------------------------------------------------------------
\* Only a COMMIT changes a stored row, and then it takes units from it.
LEMMA RowsStep ==
  ASSUME IInv, [Next]_vars
  PROVE  \/ UNCHANGED rows
         \/ \E p \in Procs : Commit(p)
<1> USE DEF Fail, Leave
<1>1. ASSUME NEW p \in Procs, SqlError(p) \/ Crash(p) \/ BusyTimeout(p)
      PROVE  UNCHANGED rows
  BY <1>1 DEF SqlError, Crash, BusyTimeout
<1>2. ASSUME NEW p \in Procs, NEW w \in Windows,
             \/ \E a \in Allowances : Configure(p, w, a)
             \/ \E n \in Amounts : Consume(p, w, n)
             \/ Snapshot(p, w)
      PROVE  UNCHANGED rows
  BY <1>2 DEF Configure, Consume, Snapshot, Enter
<1>3. ASSUME NEW p \in Procs,
             \/ BeginImmediate(p) \/ SelectForConfigure(p) \/ SelectForConsume(p)
             \/ InsertRow(p) \/ UpdateRow(p) \/ Return(p)
      PROVE  UNCHANGED rows
  BY <1>3 DEF BeginImmediate, SelectForConfigure, SelectForConsume, InsertRow, UpdateRow, Return
<1> QED BY <1>1, <1>2, <1>3 DEF Next, Step, vars

\* The step form of NeverReset.
LEMMA RowsGrow ==
  ASSUME IInv, [Next]_vars, NEW w \in Windows, rows[w] # NoRow
  PROVE  /\ rows'[w] # NoRow
         /\ rows'[w].allowance = rows[w].allowance
         /\ rows'[w].consumed >= rows[w].consumed
<1>1. rows[w] \in Row /\ rows[w].consumed \in Int
  BY DEF IInv, TypeOK, Row
<1>2. CASE UNCHANGED rows
  BY <1>1, <1>2
<1>3. ASSUME NEW p \in Procs, Commit(p)
      PROVE  /\ rows'[w] # NoRow
             /\ rows'[w].allowance = rows[w].allowance
             /\ rows'[w].consumed >= rows[w].consumed
  <2>1. CASE w # Window(p)
    BY <1>1, <1>3, <2>1, CommitEffect
  <2>2. CASE w = Window(p) /\ call[p].op = "configure"
    <3>1. rows'[w] = rows[w]
      BY <1>3, <2>2, CommitEffect
    <3> QED BY <1>1, <3>1
  <2>3. CASE w = Window(p) /\ call[p].op = "consume"
    <3>1. /\ rows'[w] \in Row
          /\ rows'[w].allowance = rows[w].allowance
          /\ rows'[w].consumed = rows[w].consumed + call[p].arg
          /\ call[p].arg \in Int /\ call[p].arg > 0
      BY <1>3, <2>3, CommitEffect
    <3> QED BY <1>1, <3>1, NoRowIsNoRow
  <2>4. call[p].op \in {"configure", "consume"}
    BY <1>3, CommitEffect
  <2> QED BY <2>1, <2>2, <2>3, <2>4
<1> QED BY <1>2, <1>3, RowsStep

\* A stored window is never reset and never refunded, by anyone, at any time.
THEOREM WindowsNeverReset == Spec => NeverReset
<1>1. IInv /\ [Next]_vars =>
        [\A w \in Windows : rows[w] # NoRow =>
           /\ rows'[w] # NoRow
           /\ rows'[w].allowance = rows[w].allowance
           /\ rows'[w].consumed >= rows[w].consumed]_vars
  BY RowsGrow
<1> QED BY <1>1, Invariance, PTL DEF Spec, NeverReset
-----------------------------------------------------------------------------
\* What the answers of ended calls say of the stored rows.
AnswerInv ==
  \A p \in Procs :
    /\ pc[p] # "idle" => outcome[p] = "none"
    /\ outcome[p] = "ok" => /\ seen[p] # NoRow
                            /\ Current(p) # NoRow
                            /\ Current(p).allowance = seen[p].allowance
                            /\ Current(p).consumed >= seen[p].consumed
    /\ outcome[p] = "exceeded" =>
         /\ Current(p) # NoRow
         /\ call[p].arg > Current(p).allowance - Current(p).consumed

\* An answer already given stays true, whatever anyone commits afterwards.
LEMMA AnswerStays ==
  ASSUME IInv, AnswerInv, [Next]_vars, NEW q \in Procs,
         call'[q] = call[q],
         outcome'[q] = outcome[q],
         outcome[q] = "ok" => seen'[q] = seen[q]
  PROVE  /\ outcome'[q] = "ok" => /\ seen'[q] # NoRow
                                  /\ rows'[Window(q)] # NoRow
                                  /\ rows'[Window(q)].allowance = seen'[q].allowance
                                  /\ rows'[Window(q)].consumed >= seen'[q].consumed
         /\ outcome'[q] = "exceeded" =>
              /\ rows'[Window(q)] # NoRow
              /\ call[q].arg > rows'[Window(q)].allowance - rows'[Window(q)].consumed
<1> DEFINE w == Window(q)
<1>1. w \in Windows /\ rows[w] \in Row \cup {NoRow} /\ rows'[w] \in Row \cup {NoRow}
      /\ seen[q] \in Row \cup {NoRow}
  BY NextKeeps DEF IInv, TypeOK, Calls, Window
<1>2. call[q].arg \in Int
  BY ArgIsInt DEF IInv
<1> HIDE DEF w
<1>3. ASSUME rows[w] # NoRow
      PROVE  /\ rows'[w] # NoRow
             /\ rows'[w].allowance = rows[w].allowance
             /\ rows'[w].consumed >= rows[w].consumed
             /\ rows[w].consumed \in Int /\ rows'[w].consumed \in Int
             /\ rows[w].allowance \in Int
  BY <1>1, <1>3, RowsGrow DEF Row
<1>4. CASE outcome[q] = "ok"
  <2>1. /\ seen[q] # NoRow /\ rows[w] # NoRow
        /\ rows[w].allowance = seen[q].allowance
        /\ rows[w].consumed >= seen[q].consumed
    BY <1>4 DEF AnswerInv, Current, w
  <2>2. seen[q].consumed \in Int
    BY <1>1, <2>1 DEF Row
  <2> QED BY <1>3, <1>4, <2>1, <2>2 DEF w
<1>5. CASE outcome[q] = "exceeded"
  <2>1. /\ rows[w] # NoRow
        /\ call[q].arg > rows[w].allowance - rows[w].consumed
    BY <1>5 DEF AnswerInv, Current, w
  <2> QED BY <1>2, <1>3, <1>5, <2>1 DEF w
<1>6. CASE outcome[q] # "ok" /\ outcome[q] # "exceeded"
  BY <1>6
<1> QED BY <1>4, <1>5, <1>6

LEMMA InitAnswerInv == Init => AnswerInv
<1> QED BY DEF Init, AnswerInv

\* A step of p leaves the answers of the others alone.
LEMMA OthersAnswers ==
  ASSUME IInv, NEW p \in Procs, NEW q \in Procs \ {p},
         \/ Step(p) \/ SqlError(p) \/ Crash(p)
         \/ \E w \in Windows : \/ \E a \in Allowances : Configure(p, w, a)
                             \/ \E n \in Amounts : Consume(p, w, n)
                             \/ Snapshot(p, w)
  PROVE  /\ pc'[q] = pc[q] /\ call'[q] = call[q]
         /\ outcome'[q] = outcome[q] /\ seen'[q] = seen[q]
<1> USE DEF IInv, TypeOK, Fail, Leave
<1>1. CASE Step(p)
  <2>1. CASE BeginImmediate(p) \/ BusyTimeout(p)
    BY <2>1 DEF BeginImmediate, BusyTimeout
  <2>2. CASE SelectForConfigure(p) \/ SelectForConsume(p)
    BY <2>2 DEF SelectForConfigure, SelectForConsume
  <2>3. CASE InsertRow(p) \/ UpdateRow(p)
    BY <2>3 DEF InsertRow, UpdateRow
  <2>4. CASE Commit(p) \/ Return(p)
    BY <2>4 DEF Commit, Return
  <2> QED BY <1>1, <2>1, <2>2, <2>3, <2>4 DEF Step
<1>2. CASE SqlError(p) \/ Crash(p)
  BY <1>2 DEF SqlError, Crash
<1>3. ASSUME NEW w \in Windows,
             \/ \E a \in Allowances : Configure(p, w, a)
             \/ \E n \in Amounts : Consume(p, w, n)
             \/ Snapshot(p, w)
      PROVE  /\ pc'[q] = pc[q] /\ call'[q] = call[q]
             /\ outcome'[q] = outcome[q] /\ seen'[q] = seen[q]
  BY <1>3 DEF Configure, Consume, Snapshot, Enter
<1> QED BY <1>1, <1>2, <1>3

LEMMA FailOutcome ==
  ASSUME TypeOK, NEW p \in Procs, NEW how \in Outcomes, Fail(p, how)
  PROVE  outcome'[p] = how /\ pc'[p] = "idle" /\ UNCHANGED <<rows, call>>
<1> QED BY DEF Fail, Leave, TypeOK

\* The answer of p itself: it is fixed by the step that ends the call.
LEMMA OwnAnswer ==
  ASSUME IInv, AnswerInv, NEW p \in Procs,
         \/ Step(p) \/ SqlError(p) \/ Crash(p)
         \/ \E w \in Windows : \/ \E a \in Allowances : Configure(p, w, a)
                             \/ \E n \in Amounts : Consume(p, w, n)
                             \/ Snapshot(p, w)
  PROVE  /\ pc'[p] # "idle" => outcome'[p] = "none"
         /\ outcome'[p] = "ok" => /\ seen'[p] # NoRow
                                  /\ Current(p)' # NoRow
                                  /\ Current(p)'.allowance = seen'[p].allowance
                                  /\ Current(p)'.consumed >= seen'[p].consumed
         /\ outcome'[p] = "exceeded" =>
              /\ Current(p)' # NoRow
              /\ call'[p].arg > Current(p)'.allowance - Current(p)'.consumed
<1> USE DEF Outcomes
<1>1. /\ pc \in [Procs -> PCs] /\ outcome \in [Procs -> Outcomes]
      /\ seen \in [Procs -> Row \cup {NoRow}] /\ call \in [Procs -> Calls]
      /\ rows \in [Windows -> Row \cup {NoRow}]
      /\ pc[p] # "idle" => outcome[p] = "none"
      /\ call[p].arg \in Int /\ Current(p) \in Row \cup {NoRow}
  <2>1. call[p].arg \in Int
    BY ArgIsInt DEF IInv
  <2>2. Current(p) \in Row \cup {NoRow}
    BY DEF IInv, TypeOK, Current, Window, Calls
  <2> QED BY <2>1, <2>2 DEF IInv, TypeOK, AnswerInv
<1>2. CASE BeginImmediate(p) \/ InsertRow(p) \/ UpdateRow(p) \/ Commit(p)
  <2>1. CASE BeginImmediate(p)
    BY <1>1, <2>1 DEF BeginImmediate
  <2>2. CASE InsertRow(p)
    <3>1. outcome' = outcome \/ Fail(p, "state_error")
      BY <2>2 DEF InsertRow
    <3>2. outcome[p] = "none"
      BY <1>1, <2>2 DEF InsertRow
    <3> QED BY <3>1, <3>2, FailOutcome DEF IInv
  <2>3. CASE UpdateRow(p)
    <3>1. outcome' = outcome \/ Fail(p, "state_error")
      BY <2>3 DEF UpdateRow
    <3>2. outcome[p] = "none"
      BY <1>1, <2>3 DEF UpdateRow
    <3> QED BY <3>1, <3>2, FailOutcome DEF IInv
  <2>4. CASE Commit(p)
    BY <1>1, <2>4 DEF Commit
  <2> QED BY <1>2, <2>1, <2>2, <2>3, <2>4
<1>3. CASE BusyTimeout(p) \/ SqlError(p) \/ Crash(p)
  <2>1. outcome'[p] \in {"none", "state_error"} /\ pc'[p] = "idle"
    BY <1>3, FailOutcome DEF BusyTimeout, SqlError, Crash, IInv
  <2> QED BY <2>1
<1>4. CASE SelectForConfigure(p)
  <2>1. outcome' = outcome \/ Fail(p, "state_error")
    BY <1>4 DEF SelectForConfigure
  <2>2. outcome[p] = "none"
    BY <1>1, <1>4 DEF SelectForConfigure
  <2> QED BY <2>1, <2>2, FailOutcome DEF IInv
<1>5. CASE SelectForConsume(p)
  <2>0. outcome[p] = "none"
    BY <1>1, <1>5 DEF SelectForConsume
  <2>1. \/ outcome' = outcome
        \/ Fail(p, "state_error")
        \/ /\ Fail(p, "exceeded")
           /\ Usable(Current(p)) /\ ~Fits(Current(p), call[p].arg)
    BY <1>5 DEF SelectForConsume
  <2>2. ASSUME Usable(Current(p)), ~Fits(Current(p), call[p].arg)
        PROVE  /\ Current(p) # NoRow
               /\ call[p].arg > Current(p).allowance - Current(p).consumed
    BY <1>1, <2>2 DEF Usable, Fits, Row
  <2> QED BY <2>0, <2>1, <2>2, FailOutcome DEF Current, Window, IInv
<1>6. CASE Return(p)
  <2>1. /\ pc[p] = "return" /\ pc'[p] = "idle" /\ outcome'[p] = "ok"
        /\ UNCHANGED <<rows, call, seen>>
    BY <1>1, <1>6 DEF Return
  <2>2. /\ seen[p] # NoRow /\ Current(p) # NoRow
        /\ Current(p).allowance = seen[p].allowance
        /\ seen[p].consumed <= Current(p).consumed
    BY <2>1 DEF IInv, ReturnReady
  <2>3. seen[p].consumed \in Int /\ Current(p).consumed \in Int
    BY <1>1, <2>2 DEF Row
  <2> QED BY <2>1, <2>2, <2>3 DEF Current, Window
<1>7. ASSUME NEW w \in Windows, Snapshot(p, w)
      PROVE  /\ pc'[p] = "idle"
             /\ outcome'[p] # "exceeded"
             /\ outcome'[p] = "ok" => /\ seen'[p] = Current(p)' /\ seen'[p] \in Row
                                      /\ seen'[p] # NoRow
  <2>1. rows[w] \in Row \cup {NoRow} /\ pc'[p] = "idle" /\ rows' = rows
    BY <1>1, <1>7 DEF Snapshot
  <2>2. call'[p] = [op |-> "snapshot", window |-> w, arg |-> 0]
    BY <1>1, <1>7 DEF Snapshot
  <2>3. Current(p)' = rows[w]
    BY <2>1, <2>2 DEF Current, Window
  <2>4. \/ Usable(rows[w]) /\ seen'[p] = rows[w] /\ outcome'[p] = "ok"
        \/ outcome'[p] = "state_error"
    BY <1>1, <1>7 DEF Snapshot
  <2> QED BY <2>1, <2>3, <2>4 DEF Usable
<1>8. ASSUME NEW w \in Windows,
             \/ \E a \in Allowances : Configure(p, w, a)
             \/ \E n \in Amounts : Consume(p, w, n)
      PROVE  /\ pc'[p] # "idle" => outcome'[p] = "none"
             /\ outcome'[p] \in {"none", "value_error"}
  BY <1>1, <1>8 DEF Configure, Consume, Enter
<1>9. ASSUME NEW w \in Windows, Snapshot(p, w)
      PROVE  /\ outcome'[p] = "ok" => Current(p)'.consumed >= seen'[p].consumed
  BY <1>7, <1>9 DEF Row
<1> QED BY <1>2, <1>3, <1>4, <1>5, <1>6, <1>7, <1>8, <1>9 DEF Step

LEMMA AnswerStep == IInv /\ AnswerInv /\ [Next]_vars => AnswerInv'
<1> SUFFICES ASSUME IInv, AnswerInv, [Next]_vars PROVE AnswerInv'
    OBVIOUS
<1>1. ASSUME NEW p \in Procs,
             \/ Step(p) \/ SqlError(p) \/ Crash(p)
             \/ \E w \in Windows : \/ \E a \in Allowances : Configure(p, w, a)
                                 \/ \E n \in Amounts : Consume(p, w, n)
                                 \/ Snapshot(p, w)
      PROVE  AnswerInv'
  <2>1. ASSUME NEW q \in Procs \ {p}
        PROVE  /\ pc'[q] # "idle" => outcome'[q] = "none"
               /\ outcome'[q] = "ok" => /\ seen'[q] # NoRow
                                        /\ Current(q)' # NoRow
                                        /\ Current(q)'.allowance = seen'[q].allowance
                                        /\ Current(q)'.consumed >= seen'[q].consumed
               /\ outcome'[q] = "exceeded" =>
                    /\ Current(q)' # NoRow
                    /\ call'[q].arg > Current(q)'.allowance - Current(q)'.consumed
    <3>1. /\ pc'[q] = pc[q] /\ call'[q] = call[q]
          /\ outcome'[q] = outcome[q] /\ seen'[q] = seen[q]
      BY <1>1, OthersAnswers
    <3>2. Current(q)' = rows'[Window(q)]
      BY <3>1 DEF Current, Window
    <3>3. pc'[q] # "idle" => outcome'[q] = "none"
      BY <3>1 DEF AnswerInv
    <3> QED BY <3>1, <3>2, <3>3, AnswerStays
  <2> QED BY <1>1, <2>1, OwnAnswer DEF AnswerInv
<1>2. CASE UNCHANGED vars
  BY <1>2 DEF vars, AnswerInv, Current, Window
<1> QED BY <1>1, <1>2 DEF Next

LEMMA Answers == Spec => []AnswerInv
<1> QED BY InitAnswerInv, AnswerStep, Invariance, PTL DEF Spec

\* Whatever configure(), consume() or snapshot() returned is durably stored, and
\* no later call of anyone takes it back.
THEOREM AnswersStayDurable == Spec => []AnswersAreDurable
<1>1. AnswerInv => AnswersAreDurable
  BY DEF AnswerInv, AnswersAreDurable
<1> QED BY <1>1, Answers, PTL

\* A RequestBudgetExceeded stays right: the window never again has that much.
THEOREM ExceededIsFinal == Spec => []ExceededStays
<1>1. AnswerInv => ExceededStays
  BY DEF AnswerInv, ExceededStays
<1> QED BY <1>1, Answers, PTL
-----------------------------------------------------------------------------
LEMMA CommitImplements ==
  ASSUME IInv, NEW p \in Procs, Commit(p)
  PROVE  Abstract!Configure(Window(p)) \/ Abstract!Take(Window(p)) \/ UNCHANGED Abstract!vars
<1> USE DEF IInv
<1> DEFINE w == Window(p)
<1>1. /\ w \in Windows /\ rows \in [Windows -> Row \cup {NoRow}]
      /\ pc[p] = "commit" /\ UNCHANGED granted
  BY DEF TypeOK, Window, Calls, Commit
<1>2. CASE call[p].op = "configure" /\ rows[w] = NoRow
  <2> DEFINE new == [allowance |-> call[p].arg, consumed |-> 0]
  <2>1. staged[p] = new /\ call[p].arg \in Allowances /\ call[p].arg >= 0
    BY <1>1, <1>2 DEF CommitReady, ArgsValid, Current
  <2>2. new \in Row
    BY <2>1, ArgIsInt DEF Row
  <2>3. rows' = [rows EXCEPT ![w] = new]
    BY <2>1, <2>2, NoRowIsNoRow DEF Commit
  <2> QED BY <1>1, <1>2, <2>1, <2>3 DEF Abstract!Configure, Abstract!ConfigureAt
<1>3. CASE call[p].op = "configure" /\ rows[w] # NoRow
  <2>1. staged[p] = NoRow
    BY <1>1, <1>3 DEF CommitReady, Current
  <2> QED BY <1>1, <2>1 DEF Commit, Abstract!vars
<1>4. CASE call[p].op = "consume"
  <2> DEFINE new == [allowance |-> rows[w].allowance, consumed |-> rows[w].consumed + call[p].arg]
  <2>1. /\ rows[w] # NoRow /\ staged[p] = new
        /\ call[p].arg <= rows[w].allowance - rows[w].consumed
        /\ call[p].arg > 0 /\ call[p].arg \in Int
    BY <1>1, <1>4, ArgIsInt DEF CommitReady, ArgsValid, Current
  <2>2. rows[w] \in Row
    BY <1>1, <2>1
  <2>3. new \in Row
    BY <2>1, <2>2 DEF Row
  <2>4. rows' = [rows EXCEPT ![w] = new]
    BY <2>1, <2>3, NoRowIsNoRow DEF Commit
  <2>5. call[p].arg \in 1 .. (rows[w].allowance - rows[w].consumed)
    BY <2>1, <2>2 DEF Row
  <2> QED BY <1>1, <2>1, <2>4, <2>5 DEF Abstract!Take, Abstract!TakeUnits
<1>5. call[p].op = "configure" \/ call[p].op = "consume"
  BY <1>1 DEF ArgsValid
<1> QED BY <1>2, <1>3, <1>4, <1>5

LEMMA ReturnImplements ==
  ASSUME IInv, NEW p \in Procs, Return(p)
  PROVE  Abstract!Grant(Window(p)) \/ UNCHANGED Abstract!vars
<1> USE DEF IInv
<1> DEFINE w == Window(p)
           lo == seen[p].consumed - call[p].arg + 1
           hi == seen[p].consumed
<1>1. pc[p] = "return" /\ rows' = rows
  BY DEF Return
<1>2. CASE call[p].op # "consume"
  BY <1>1, <1>2 DEF Return, Abstract!vars
<1>3. CASE call[p].op = "consume"
  <2>1. /\ rows[w] # NoRow /\ seen[p] # NoRow
        /\ hi <= rows[w].consumed /\ call[p].arg <= hi
        /\ call[p].arg > 0 /\ call[p].arg \in Int
    BY <1>1, <1>3, ArgIsInt DEF ReturnReady, ArgsValid, Current
  <2>2. rows[w] \in Row /\ seen[p] \in Row
    BY <2>1 DEF TypeOK, Calls, Window
  <2>3. hi \in Int /\ rows[w].consumed \in Int
    BY <2>2 DEF Row
  <2>4. lo \in 1 .. rows[w].consumed /\ hi \in 1 .. rows[w].consumed /\ lo <= hi
    BY <2>1, <2>3
  <2>5. lo .. hi \cap granted[w] = {}
    BY <1>1, <1>3 DEF NoDoubleGrant, Owns, Units
  <2>6. granted' = [granted EXCEPT ![w] = @ \cup lo .. hi]
    BY <1>3 DEF Return, Units
  <2> QED BY <1>1, <2>1, <2>4, <2>5, <2>6 DEF Abstract!Grant, Abstract!GrantUnits, Abstract!Taken
<1> QED BY <1>2, <1>3

\* Any step that is neither a COMMIT nor a return is invisible to the callers.
LEMMA OtherStepsStutter ==
  ASSUME IInv, [Next]_vars,
         \A p \in Procs : ~Commit(p) /\ ~Return(p)
  PROVE  UNCHANGED Abstract!vars
<1> USE DEF Fail, Leave, Abstract!vars
<1>1. ASSUME NEW p \in Procs, SqlError(p) \/ Crash(p) \/ BusyTimeout(p)
      PROVE  UNCHANGED Abstract!vars
  BY <1>1 DEF SqlError, Crash, BusyTimeout
<1>2. ASSUME NEW p \in Procs, NEW w \in Windows,
             \/ \E a \in Allowances : Configure(p, w, a)
             \/ \E n \in Amounts : Consume(p, w, n)
             \/ Snapshot(p, w)
      PROVE  UNCHANGED Abstract!vars
  BY <1>2 DEF Configure, Consume, Snapshot, Enter
<1>3. ASSUME NEW p \in Procs,
             \/ BeginImmediate(p) \/ SelectForConfigure(p) \/ SelectForConsume(p)
             \/ InsertRow(p) \/ UpdateRow(p)
      PROVE  UNCHANGED Abstract!vars
  BY <1>3 DEF BeginImmediate, SelectForConfigure, SelectForConsume, InsertRow, UpdateRow
<1>4. CASE UNCHANGED vars
  BY <1>4 DEF vars
<1> QED BY <1>1, <1>2, <1>3, <1>4 DEF Next, Step

\* The sqlite transactions, with their crashes, timeouts and errors, implement
\* the atomic budget of RequestBudgetSpec: what other modules may build on.
THEOREM Refinement == Spec => ImplementsBudget
<1>1. Init => Abstract!Init
  BY DEF Init, Abstract!Init
<1>2. IInv /\ [Next]_vars => [Abstract!Next]_(Abstract!vars)
  <2> SUFFICES ASSUME IInv, [Next]_vars PROVE [Abstract!Next]_(Abstract!vars)
      OBVIOUS
  <2>1. ASSUME NEW p \in Procs, Commit(p) PROVE [Abstract!Next]_(Abstract!vars)
    <3>1. Window(p) \in Windows
      BY DEF IInv, TypeOK, Window, Calls
    <3> QED BY <2>1, <3>1, CommitImplements DEF Abstract!Next
  <2>2. ASSUME NEW p \in Procs, Return(p) PROVE [Abstract!Next]_(Abstract!vars)
    <3>1. Window(p) \in Windows
      BY DEF IInv, TypeOK, Window, Calls
    <3> QED BY <2>2, <3>1, ReturnImplements DEF Abstract!Next
  <2>3. CASE \A p \in Procs : ~Commit(p) /\ ~Return(p)
    BY <2>3, OtherStepsStutter
  <2> QED BY <2>1, <2>2, <2>3
<1> QED BY <1>1, <1>2, Invariance, PTL DEF Spec, ImplementsBudget, Abstract!Spec
=============================================================================
