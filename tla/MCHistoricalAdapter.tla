------------------------- MODULE MCHistoricalAdapter -------------------------
(***************************************************************************)
(* Two adapters, each with one planned request of up to three attempts, on *)
(* one window of zero to four units: too few for both, so that they use it *)
(* up in every order.  Four request IDs let a run draw a duplicate and     *)
(* still have a fresh one, and both may claim the same place in the store. *)
(***************************************************************************)
EXTENDS HistoricalAdapter, TLC

MCAllowances == {0, 1, 4}

Symmetric == Permutations(RequestIds) \cup Permutations(Runs)
==============================================================================
