-------------------------- MODULE RequestBudgetSpec --------------------------
(***************************************************************************)
(* What dhan_lean/data/request_budget.py promises its callers, with no     *)
(* sqlite, no transactions and no processes: an allowance per window that  *)
(* is configured once and never reset, units that are taken only while     *)
(* they fit, and a taken unit that is granted to at most one caller.  A    *)
(* taken unit may never be granted at all: the caller may die first.       *)
(***************************************************************************)
EXTENDS Integers

CONSTANTS Windows,     \* the (scope, window_id) pairs
          Allowances,  \* the allowances a caller may ask for
          NoRow        \* no row is stored for a window

VARIABLES rows,        \* rows[w]: the durable row of window w
          granted      \* granted[w]: the units of w handed to some caller

vars == <<rows, granted>>

\* The units of window w taken so far, numbered in the order they were taken.
Taken(w) == IF rows[w] = NoRow THEN {} ELSE 1 .. rows[w].consumed

Init == /\ rows = [w \in Windows |-> NoRow]
        /\ granted = [w \in Windows |-> {}]

ConfigureAt(w, a) ==
  /\ rows[w] = NoRow
  /\ a >= 0
  /\ rows' = [rows EXCEPT ![w] = [allowance |-> a, consumed |-> 0]]
  /\ UNCHANGED granted

TakeUnits(w, n) ==
  /\ rows[w] # NoRow
  /\ n \in 1 .. (rows[w].allowance - rows[w].consumed)
  /\ rows' = [rows EXCEPT ![w] = [allowance |-> rows[w].allowance,
                                 consumed |-> rows[w].consumed + n]]
  /\ UNCHANGED granted

GrantUnits(w, lo, hi) ==
  /\ lo \in Taken(w)
  /\ hi \in Taken(w)
  /\ lo <= hi
  /\ lo .. hi \cap granted[w] = {}
  /\ granted' = [granted EXCEPT ![w] = @ \cup lo .. hi]
  /\ UNCHANGED rows

Configure(w) == \E a \in Allowances : ConfigureAt(w, a)
Take(w) == /\ rows[w] # NoRow
           /\ \E n \in 1 .. (rows[w].allowance - rows[w].consumed) : TakeUnits(w, n)
Grant(w) == \E lo, hi \in Taken(w) : GrantUnits(w, lo, hi)

Next == \E w \in Windows : Configure(w) \/ Take(w) \/ Grant(w)

Spec == Init /\ [][Next]_vars
=============================================================================
