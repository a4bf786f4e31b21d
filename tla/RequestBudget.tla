---------------------------- MODULE RequestBudget ----------------------------
(***************************************************************************)
(* dhan_lean/data/request_budget.py: processes that share one sqlite       *)
(* database of request budgets.  A method call is a transaction of several *)
(* steps: BEGIN IMMEDIATE, SELECT, INSERT or UPDATE, COMMIT, return.  Other*)
(* processes step in between; any step may raise sqlite3.Error, and a      *)
(* process may die at any step, which makes sqlite roll its transaction    *)
(* back.                                                                   *)
(***************************************************************************)
EXTENDS Integers, FiniteSets

CONSTANTS Procs,       \* the processes that open the database
          Windows,     \* the (scope, window_id) pairs
          Allowances,  \* the arguments of configure(), before validation
          Amounts,     \* the arguments of consume(), before validation
          NoRow,       \* SELECT found no row / no row is staged
          NoProc       \* no process holds the write lock

Row == [allowance : Nat, consumed : Nat]

ASSUME ArgumentsAreInts == Allowances \subseteq Int /\ Amounts \subseteq Int
ASSUME NoRowIsNoRow == NoRow \notin Row
ASSUME NoProcIsNoProc == NoProc \notin Procs

VARIABLES rows,        \* rows[w]: the committed row of window w
          writer,      \* the process whose BEGIN IMMEDIATE holds the write lock
          pc,          \* pc[p]: the statement process p is about to execute
          call,        \* call[p]: the method call p is in, or was last in
          seen,        \* seen[p]: the row p's call has read, then the one it returns
          staged,      \* staged[p]: the row p's open transaction has written
          outcome,     \* outcome[p]: how p's last call ended
          granted      \* granted[w]: history of the units consume() returned

vars == <<rows, writer, pc, call, seen, staged, outcome, granted>>

InTransaction == {"select", "write", "commit"}
PCs == {"idle", "begin", "return"} \cup InTransaction
Outcomes == {"none", "ok", "exceeded", "state_error", "value_error"}
Calls == [op : {"configure", "consume", "snapshot"}, window : Windows,
          arg : Allowances \cup Amounts \cup {0}]

TypeOK ==
  /\ rows \in [Windows -> Row \cup {NoRow}]
  /\ writer \in Procs \cup {NoProc}
  /\ pc \in [Procs -> PCs]
  /\ call \in [Procs -> Calls]
  /\ seen \in [Procs -> Row \cup {NoRow}]
  /\ staged \in [Procs -> Row \cup {NoRow}]
  /\ outcome \in [Procs -> Outcomes]
  /\ granted \in [Windows -> SUBSET Nat]

Init ==
  /\ rows = [w \in Windows |-> NoRow]
  /\ writer = NoProc
  /\ pc = [p \in Procs |-> "idle"]
  /\ call \in [Procs -> {[op |-> "snapshot", window |-> w, arg |-> 0] : w \in Windows}]
  /\ seen = [p \in Procs |-> NoRow]
  /\ staged = [p \in Procs |-> NoRow]
  /\ outcome = [p \in Procs |-> "none"]
  /\ granted = [w \in Windows |-> {}]
-----------------------------------------------------------------------------
Window(p) == call[p].window
Current(p) == rows[Window(p)]

\* Any allowance is accepted.
AnyAllowance(a) == TRUE

\* _validate_nonnegative_int and the check at the head of consume().
ValidAllowance(a) == a >= 0
ValidAmount(n) == n > 0

Corrupt(row) == row.allowance < 0 \/ row.consumed < 0 \/ row.consumed > row.allowance
Usable(row) == row # NoRow /\ ~Corrupt(row)

\* A row with a larger allowance serves configure() too.
SmallerAllowanceServes(row, a) == row.allowance >= a /\ ~Corrupt(row)

\* An existing row serves configure() only with the same allowance.
Serves(row, a) == row.allowance = a /\ ~Corrupt(row)

Fits(row, n) == n <= row.allowance - row.consumed

\* The units a consume() call owns once its snapshot `row' is the new one.
Units(row, n) == (row.consumed - n + 1) .. row.consumed

\* The snapshot a call returns: the row it wrote, or the one configure() found.
Answer(p) == IF staged[p] # NoRow THEN staged[p]
             ELSE [allowance |-> call[p].arg, consumed |-> seen[p].consumed]

\* The call raises: the transaction, if one is open, is rolled back.
Leave(p, how) ==
  /\ pc' = [pc EXCEPT ![p] = "idle"]
  /\ outcome' = [outcome EXCEPT ![p] = how]
  /\ staged' = [staged EXCEPT ![p] = NoRow]
  /\ writer' = IF writer = p THEN NoProc ELSE writer

Fail(p, how) == Leave(p, how) /\ UNCHANGED <<rows, call, granted>>
-----------------------------------------------------------------------------
Enter(p, op, w, arg, valid) ==
  /\ pc[p] = "idle"
  /\ call' = [call EXCEPT ![p] = [op |-> op, window |-> w, arg |-> arg]]
  /\ seen' = [seen EXCEPT ![p] = NoRow]
  /\ \/ /\ valid
        /\ pc' = [pc EXCEPT ![p] = "begin"]
        /\ outcome' = [outcome EXCEPT ![p] = "none"]
     \/ /\ ~valid
        /\ outcome' = [outcome EXCEPT ![p] = "value_error"]
        /\ UNCHANGED pc
  /\ UNCHANGED <<rows, writer, staged, granted>>

Configure(p, w, a) == Enter(p, "configure", w, a, ValidAllowance(a))
Consume(p, w, n) == Enter(p, "consume", w, n, ValidAmount(n))

\* snapshot() is one SELECT outside any transaction: it sees committed rows.
Snapshot(p, w) ==
  /\ pc[p] = "idle"
  /\ call' = [call EXCEPT ![p] = [op |-> "snapshot", window |-> w, arg |-> 0]]
  /\ \/ /\ Usable(rows[w])
        /\ seen' = [seen EXCEPT ![p] = rows[w]]
        /\ outcome' = [outcome EXCEPT ![p] = "ok"]
     \/ /\ seen' = [seen EXCEPT ![p] = NoRow]  \* no row, corrupt, or sqlite3.Error
        /\ outcome' = [outcome EXCEPT ![p] = "state_error"]
  /\ UNCHANGED <<rows, writer, pc, staged, granted>>

\* BEGIN instead of BEGIN IMMEDIATE takes no lock before the SELECT.
BeginDeferred(p) ==
  /\ pc[p] = "begin"
  /\ pc' = [pc EXCEPT ![p] = "select"]
  /\ UNCHANGED <<rows, writer, call, seen, staged, outcome, granted>>

BeginImmediate(p) ==
  /\ pc[p] = "begin"
  /\ writer = NoProc
  /\ writer' = p
  /\ pc' = [pc EXCEPT ![p] = "select"]
  /\ UNCHANGED <<rows, call, seen, staged, outcome, granted>>

\* No busy timeout: BEGIN IMMEDIATE waits as long as the lock is held.
BusyForever(p) == pc[p] = "begin" /\ writer # NoProc /\ UNCHANGED vars

\* The busy timeout of 30 s ends while another process holds the lock.
BusyTimeout(p) ==
  /\ pc[p] = "begin"
  /\ writer # NoProc
  /\ Fail(p, "state_error")
  /\ UNCHANGED seen

SelectForConfigure(p) ==
  /\ pc[p] = "select"
  /\ call[p].op = "configure"
  /\ seen' = [seen EXCEPT ![p] = Current(p)]
  /\ \/ /\ Current(p) = NoRow
        /\ pc' = [pc EXCEPT ![p] = "write"]
        /\ UNCHANGED <<rows, writer, call, staged, outcome, granted>>
     \/ /\ Current(p) # NoRow
        /\ Serves(Current(p), call[p].arg)
        /\ pc' = [pc EXCEPT ![p] = "commit"]
        /\ UNCHANGED <<rows, writer, call, staged, outcome, granted>>
     \/ /\ Current(p) # NoRow
        /\ ~Serves(Current(p), call[p].arg)
        /\ Fail(p, "state_error")

SelectForConsume(p) ==
  /\ pc[p] = "select"
  /\ call[p].op = "consume"
  /\ seen' = [seen EXCEPT ![p] = Current(p)]
  /\ \/ /\ ~Usable(Current(p))
        /\ Fail(p, "state_error")
     \/ /\ Usable(Current(p))
        /\ ~Fits(Current(p), call[p].arg)
        /\ Fail(p, "exceeded")
     \/ /\ Usable(Current(p))
        /\ Fits(Current(p), call[p].arg)
        /\ pc' = [pc EXCEPT ![p] = "write"]
        /\ UNCHANGED <<rows, writer, call, staged, outcome, granted>>

InsertRow(p) ==
  /\ pc[p] = "write"
  /\ call[p].op = "configure"
  /\ IF Current(p) = NoRow
     THEN /\ staged' = [staged EXCEPT ![p] = [allowance |-> call[p].arg, consumed |-> 0]]
          /\ pc' = [pc EXCEPT ![p] = "commit"]
          /\ UNCHANGED <<rows, writer, call, seen, outcome, granted>>
     ELSE Fail(p, "state_error") /\ UNCHANGED seen   \* IntegrityError: duplicate key

\* UPDATE ... WHERE consumed = ? writes one row, or none: then rowcount # 1.
UpdateRow(p) ==
  /\ pc[p] = "write"
  /\ call[p].op = "consume"
  /\ IF Current(p) # NoRow /\ Current(p).consumed = seen[p].consumed
     THEN /\ staged' = [staged EXCEPT ![p] =
                          [allowance |-> Current(p).allowance,
                           consumed |-> seen[p].consumed + call[p].arg]]
          /\ pc' = [pc EXCEPT ![p] = "commit"]
          /\ UNCHANGED <<rows, writer, call, seen, outcome, granted>>
     ELSE Fail(p, "state_error") /\ UNCHANGED seen

Commit(p) ==
  /\ pc[p] = "commit"
  /\ rows' = IF staged[p] = NoRow THEN rows
             ELSE [rows EXCEPT ![Window(p)] = staged[p]]
  /\ seen' = [seen EXCEPT ![p] = Answer(p)]
  /\ staged' = [staged EXCEPT ![p] = NoRow]
  /\ writer' = IF writer = p THEN NoProc ELSE writer
  /\ pc' = [pc EXCEPT ![p] = "return"]
  /\ UNCHANGED <<call, outcome, granted>>

Return(p) ==
  /\ pc[p] = "return"
  /\ pc' = [pc EXCEPT ![p] = "idle"]
  /\ outcome' = [outcome EXCEPT ![p] = "ok"]
  /\ granted' = IF call[p].op = "consume"
                THEN [granted EXCEPT ![Window(p)] =
                        @ \cup Units(seen[p], call[p].arg)]
                ELSE granted
  /\ UNCHANGED <<rows, writer, call, seen, staged>>

\* connect(), or a statement up to COMMIT, raises sqlite3.Error.
SqlError(p) ==
  /\ pc[p] \in {"begin"} \cup InTransaction
  /\ Fail(p, "state_error")
  /\ UNCHANGED seen

\* The process dies and starts again with no call open; sqlite discards its
\* open transaction, and a committed one stays although nobody was told.
Crash(p) ==
  /\ pc[p] # "idle"
  /\ Fail(p, "none")
  /\ seen' = [seen EXCEPT ![p] = NoRow]

\* What runs of itself once a call was made.
Step(p) == \/ BeginImmediate(p) \/ BusyTimeout(p)
           \/ SelectForConfigure(p) \/ SelectForConsume(p)
           \/ InsertRow(p) \/ UpdateRow(p) \/ Commit(p) \/ Return(p)

Next == \E p \in Procs :
          \/ \E w \in Windows : \/ \E a \in Allowances : Configure(p, w, a)
                              \/ \E n \in Amounts : Consume(p, w, n)
                              \/ Snapshot(p, w)
          \/ Step(p)
          \/ SqlError(p)
          \/ Crash(p)

Spec == Init /\ [][Next]_vars

\* A call that was made runs on: its thread is scheduled, and sqlite answers.
FairSpec == Spec /\ \A p \in Procs : WF_vars(Step(p))
-----------------------------------------------------------------------------
\* No window ever hands out more units than it has, whatever the processes do
\* at the same time: the units consume() returned are among those the durable
\* row counts, and the row never counts past its allowance.
NoOversubscription ==
  \A w \in Windows :
    /\ rows[w] = NoRow => granted[w] = {}
    /\ rows[w] # NoRow => /\ rows[w].consumed <= rows[w].allowance
                          /\ granted[w] \subseteq 1 .. rows[w].consumed

Owns(p) == pc[p] = "return" /\ call[p].op = "consume"

\* No unit is given to two callers: a consume() that has committed and not yet
\* returned owns units that no other such call owns and that none was granted.
NoDoubleGrant ==
  \A p \in Procs :
    Owns(p) =>
      /\ Units(seen[p], call[p].arg) \cap granted[Window(p)] = {}
      /\ \A q \in Procs \ {p} :
           Owns(q) /\ Window(q) = Window(p) =>
             Units(seen[p], call[p].arg) \cap Units(seen[q], call[q].arg) = {}

\* The row a consume() read, or the absence a configure() read, still stands when
\* it writes: the optimistic WHERE and the primary key never have to refuse.
ReadStillStands ==
  \A p \in Procs : pc[p] = "write" => Current(p) = seen[p]

\* RequestBudgetExceeded is final: no later call on that window with the same
\* amount could have been served (units never come back).
ExceededStays ==
  \A p \in Procs :
    outcome[p] = "exceeded" =>
      call[p].arg > Current(p).allowance - Current(p).consumed

\* What a call returned is committed: the window still has that allowance, and
\* at least that much consumed, for as long as anyone may look.
AnswersAreDurable ==
  \A p \in Procs :
    outcome[p] = "ok" =>
      /\ Current(p) # NoRow
      /\ Current(p).allowance = seen[p].allowance
      /\ Current(p).consumed >= seen[p].consumed

\* configure() never resets and nothing refunds: a stored row keeps its
\* allowance, and its consumed only grows.
NeverReset ==
  [][\A w \in Windows : rows[w] # NoRow =>
       /\ rows'[w] # NoRow
       /\ rows'[w].allowance = rows[w].allowance
       /\ rows'[w].consumed >= rows[w].consumed]_vars

\* A call waits at most for the busy timeout: it always ends, with an answer,
\* an exception or the end of its process, however the others behave.
CallsEnd == \A p \in Procs : pc[p] # "idle" ~> pc[p] = "idle"

Abstract == INSTANCE RequestBudgetSpec

\* The transactions implement the atomic budget.
ImplementsBudget == Abstract!Spec
=============================================================================
