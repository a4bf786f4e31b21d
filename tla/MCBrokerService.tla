---------------------------- MODULE MCBrokerService ----------------------------
(***************************************************************************)
(* One run of the service with two clients for one slot and a backlog of   *)
(* one: either of them may meet a full server or a full backlog, and may   *)
(* connect before the server listens, while it serves and while it drains. *)
(***************************************************************************)
EXTENDS BrokerService
================================================================================
