----------------------------- MODULE MCUnixServer -----------------------------
(***************************************************************************)
(* Two clients for one slot and a backlog of one: either of them may meet  *)
(* a full server or a full backlog, and stop() comes at any time.          *)
(***************************************************************************)
EXTENDS UnixServer
===============================================================================
