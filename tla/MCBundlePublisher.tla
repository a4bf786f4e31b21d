-------------------------- MODULE MCBundlePublisher --------------------------
(***************************************************************************)
(* Three publishers of one or two different contents: two that race and    *)
(* one that comes after a crash or a loss of power.  The parent of their   *)
(* directory is there already or has yet to be made.                       *)
(***************************************************************************)
EXTENDS BundlePublisher, TLC

Symmetric == Permutations(Publishers) \cup Permutations(Contents)
==============================================================================
