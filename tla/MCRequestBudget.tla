--------------------------- MODULE MCRequestBudget ---------------------------
(***************************************************************************)
(* A small instance of RequestBudget.  The argument sets hold a value each  *)
(* side of every comparison: a negative, a zero and a positive allowance,   *)
(* so that two conflict, and amounts that are refused, fit or overshoot.   *)
(***************************************************************************)
EXTENDS RequestBudget

MCAllowances == {-1, 0, 3}
MCAmounts == {-1, 1, 2}
=============================================================================
