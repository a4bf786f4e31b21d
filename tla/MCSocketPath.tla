----------------------------- MODULE MCSocketPath -----------------------------
(***************************************************************************)
(* One process, or three, with one path and cleanup on or off; sockets are *)
(* bounded, inode numbers come back as soon as they are free.              *)
(***************************************************************************)
EXTENDS SocketPath, TLC

Symmetric == Permutations(Servers) \cup Permutations(Inodes)
===============================================================================
