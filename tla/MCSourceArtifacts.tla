--------------------------- MODULE MCSourceArtifacts ---------------------------
(***************************************************************************)
(* Three writers of one run_id; two payload files and the checksum file.   *)
(***************************************************************************)
EXTENDS SourceArtifacts, TLC

Symmetric == Permutations(Writers)
===============================================================================
