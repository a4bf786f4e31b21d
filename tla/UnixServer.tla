------------------------------ MODULE UnixServer ------------------------------
(***************************************************************************)
(* dhan_lean/providers/zerodha/unix_transport.py: the threads of one       *)
(* UnixHistoricalBrokerServer, its clients, and stop().  The serve thread  *)
(* accepts; each admitted connection gets a slot and a worker thread; the  *)
(* thread that calls start_in_thread() and then stop() closes, joins and   *)
(* reports, and may call stop() again; it does not start the server again. *)
(* A worker and its connection are named after the client.                 *)
(***************************************************************************)
EXTENDS Integers, FiniteSets

CONSTANTS Clients, MaxConnections, Backlog,
          NoClient

ASSUME BoundsPositive == MaxConnections \in Nat \ {0} /\ Backlog \in Nat \ {0}

VARIABLES client,      \* client[c]: where fetch_candles of client c is, or its outcome
          sock,        \* sock[c]: the server's end of the connection; queued until accept
          sent,        \* sent[c]: the frame the worker sent
          worker,      \* worker[c]: where _serve_one is
          serve,       \* the serve thread
          serveThread, \* the attribute _serve_thread is set
          current,     \* the connection serve_forever has in hand
          slots,       \* the semaphore
          workers, connections,  \* the sets _workers and _connections
          listening,   \* the listener is open
          stopping,    \* the event _stop
          stop,        \* where stop() is
          snapshot,    \* the workers stop() is going to join
          expired,     \* stop()'s deadline has passed
          answer       \* `complete' in stop(), and then what it returned

clientVars == <<client>>
workerVars == <<sock, sent, worker>>
serveVars == <<serve, serveThread, current>>
sets == <<workers, connections>>
stopVars == <<stop, snapshot, expired, answer>>
vars == <<clientVars, workerVars, serveVars, slots, sets, listening, stopping, stopVars>>

Init ==
  /\ client = [c \in Clients |-> "idle"]
  /\ sock = [c \in Clients |-> "none"]
  /\ sent = [c \in Clients |-> "none"]
  /\ worker = [c \in Clients |-> "none"]
  /\ serve = "none" /\ serveThread = FALSE /\ current = NoClient
  /\ slots = MaxConnections
  /\ workers = {} /\ connections = {}
  /\ listening = FALSE /\ stopping = FALSE
  /\ stop = "idle" /\ snapshot = {} /\ expired = FALSE /\ answer = FALSE
-----------------------------------------------------------------------------
Queued == {c \in Clients : sock[c] = "queued"}

\* fetch_candles: connect and send.  No listener, or a full backlog with EAGAIN, refuses;
\* a full backlog may time out instead.
Connect(c) ==
  /\ client[c] = "idle"
  /\ \/ /\ ~listening \/ Cardinality(Queued) >= Backlog
        /\ client' = [client EXCEPT ![c] = "BROKER_UNAVAILABLE"]
        /\ UNCHANGED sock
     \/ /\ listening /\ Cardinality(Queued) >= Backlog
        /\ client' = [client EXCEPT ![c] = "BROKER_TIMEOUT"]
        /\ UNCHANGED sock
     \/ /\ listening /\ Cardinality(Queued) < Backlog
        /\ client' = [client EXCEPT ![c] = "waiting"]
        /\ sock' = [sock EXCEPT ![c] = "queued"]
  /\ UNCHANGED <<sent, worker, serveVars, slots, sets, listening, stopping, stopVars>>

\* A frame arrives, or the connection ends without one.
Receive(c) ==
  /\ client[c] = "waiting"
  /\ \/ /\ sent[c] # "none"
        /\ client' = [client EXCEPT ![c] = sent[c]]
     \/ /\ sent[c] = "none" /\ sock[c] = "shut"
        /\ client' = [client EXCEPT ![c] = "MALFORMED_PROVIDER_RESPONSE"]
  /\ UNCHANGED <<workerVars, serveVars, slots, sets, listening, stopping, stopVars>>

\* response_timeout, whatever the server is doing with the request; a connection that
\* is queued stays in the queue.
ClientTimeout(c) ==
  /\ client[c] = "waiting"
  /\ client' = [client EXCEPT ![c] = "BROKER_TIMEOUT"]
  /\ UNCHANGED <<workerVars, serveVars, slots, sets, listening, stopping, stopVars>>
-----------------------------------------------------------------------------
\* start(), for the first time: the path is bound and listened on (module SocketPath).
Start ==
  /\ ~listening /\ stop = "idle"
  /\ listening' = TRUE
  /\ UNCHANGED <<clientVars, workerVars, serveVars, slots, sets, stopping, stopVars>>

\* start_in_thread(): a listener is kept, and the serve thread is started and kept.  Only
\* the calling thread reads _serve_thread.
StartServing ==
  /\ listening /\ serve = "none"
  /\ serve' = "loop" /\ serveThread' = TRUE
  /\ UNCHANGED <<clientVars, workerVars, current, slots, sets, listening, stopping, stopVars>>

\* serve_forever looks at the event, then waits in accept().
Loop ==
  /\ serve = "loop"
  /\ serve' = IF stopping THEN "ended" ELSE "accepting"
  /\ UNCHANGED <<clientVars, workerVars, serveThread, current, slots, sets, listening, stopping, stopVars>>

\* accept() gives a queued connection, also one whose client has given up.
Accept ==
  /\ serve = "accepting" /\ listening
  /\ \E c \in Queued :
       /\ sock' = [sock EXCEPT ![c] = "open"]
       /\ current' = c
  /\ serve' = "accepted"
  /\ UNCHANGED <<clientVars, serveThread, sent, worker, slots, sets, listening, stopping, stopVars>>

\* accept() times out every 0.2 seconds, and fails on a closed listener.
AcceptFails ==
  /\ serve = "accepting"
  /\ serve' = IF listening THEN "loop" ELSE "ended"
  /\ UNCHANGED <<clientVars, workerVars, serveThread, current, slots, sets, listening, stopping, stopVars>>

\* A slot is taken without blocking; without one the connection is closed.
Admit ==
  /\ serve = "accepted"
  /\ IF ~stopping /\ slots > 0
     THEN /\ slots' = slots - 1 /\ serve' = "register"
          /\ UNCHANGED <<sock, current>>
     ELSE /\ sock' = [sock EXCEPT ![current] = "shut"]
          /\ serve' = "loop" /\ current' = NoClient
          /\ UNCHANGED slots
  /\ UNCHANGED <<clientVars, serveThread, sent, worker, sets, listening, stopping, stopVars>>

Register ==
  /\ serve = "register"
  /\ workers' = workers \cup {current}
  /\ connections' = connections \cup {current}
  /\ worker' = [worker EXCEPT ![current] = "new"]
  /\ serve' = "start"
  /\ UNCHANGED <<clientVars, serveThread, sock, sent, current, slots, listening, stopping, stopVars>>

\* worker.start(); when no thread can be had the serve thread dies of it.
StartWorker ==
  /\ serve = "start"
  /\ \/ /\ worker' = [worker EXCEPT ![current] = "read"]
        /\ serve' = "loop"
     \/ serve' = "ended" /\ UNCHANGED worker
  /\ current' = NoClient
  /\ UNCHANGED <<clientVars, serveThread, sock, sent, slots, sets, listening, stopping, stopVars>>
-----------------------------------------------------------------------------
Goto(c, label) == worker' = [worker EXCEPT ![c] = label]

\* The early return jumps over the release of the slot.
ReadLeaks(c) ==
  /\ worker[c] = "read"
  /\ \/ sock[c] = "open" /\ Goto(c, "broker")
     \/ Goto(c, "discard")
  /\ UNCHANGED <<clientVars, sock, sent, serveVars, slots, sets, listening, stopping, stopVars>>

\* The request is read and decoded; EOF, a timeout or a malformed frame gets no reply.
Read(c) ==
  /\ worker[c] = "read"
  /\ \/ sock[c] = "open" /\ Goto(c, "broker")
     \/ Goto(c, "release")
  /\ UNCHANGED <<clientVars, sock, sent, serveVars, slots, sets, listening, stopping, stopVars>>

\* The exception does not pass the finally clause: the thread is gone.
BrokerKills(c) ==
  /\ worker[c] = "broker"
  /\ \E next \in {"reply", "none"} : Goto(c, next)
  /\ UNCHANGED <<clientVars, sock, sent, serveVars, slots, sets, listening, stopping, stopVars>>

\* broker.fetch_candles returns a response, or raises and _local_failure builds one.  What
\* it builds for a provider code is refused by BrokerResponse: the exception leaves _serve_one.
Broker(c) ==
  /\ worker[c] = "broker"
  /\ \E next \in {"reply", "release"} : Goto(c, next)
  /\ UNCHANGED <<clientVars, sock, sent, serveVars, slots, sets, listening, stopping, stopVars>>

\* The frame may be too large to encode, or the connection is closed at either end.
Send(c) ==
  /\ worker[c] = "reply"
  /\ \/ sock[c] = "open" /\ client[c] = "waiting" /\ sent' = [sent EXCEPT ![c] = "reply"]
     \/ UNCHANGED sent
  /\ Goto(c, "release")
  /\ UNCHANGED <<clientVars, sock, serveVars, slots, sets, listening, stopping, stopVars>>

\* The end of `with connection', then the finally clause: first the slot.
Release(c) ==
  /\ worker[c] = "release"
  /\ sock' = [sock EXCEPT ![c] = "shut"]
  /\ slots' = slots + 1
  /\ Goto(c, "discard")
  /\ UNCHANGED <<clientVars, sent, serveVars, sets, listening, stopping, stopVars>>

Discard(c) ==
  /\ worker[c] = "discard"
  /\ workers' = workers \ {c}
  /\ connections' = connections \ {c}
  /\ Goto(c, "ended")
  /\ UNCHANGED <<clientVars, sock, sent, serveVars, slots, listening, stopping, stopVars>>
-----------------------------------------------------------------------------
StopBegins ==
  /\ stop \in {"idle", "returned", "raised"}
  /\ stopping' = TRUE
  /\ stop' = "close" /\ expired' = FALSE /\ answer' = FALSE
  /\ UNCHANGED <<clientVars, workerVars, serveVars, slots, sets, listening, snapshot>>

\* The listener is closed, and the kernel resets what was still queued.
CloseListener ==
  /\ stop = "close"
  /\ listening' = FALSE
  /\ sock' = [c \in Clients |-> IF c \in Queued THEN "shut" ELSE sock[c]]
  /\ stop' = "shutdown"
  /\ UNCHANGED <<clientVars, sent, worker, serveVars, slots, sets, stopping, snapshot, expired, answer>>

\* The connections that are registered by now are shut down and closed; the one that
\* serve_forever has in hand may not be.
ShutConnections ==
  /\ stop = "shutdown"
  /\ sock' = [c \in Clients |-> IF c \in connections THEN "shut" ELSE sock[c]]
  /\ stop' = "joinServe"
  /\ UNCHANGED <<clientVars, sent, worker, serveVars, slots, sets, listening, stopping,
                 snapshot, expired, answer>>

DeadlinePasses ==
  /\ stop \in {"joinServe", "snapshot", "joinWorkers"} /\ ~expired
  /\ expired' = TRUE
  /\ UNCHANGED <<clientVars, workerVars, serveVars, slots, sets, listening, stopping, stop,
                 snapshot, answer>>

ServeIsGone == serve \in {"none", "ended"}

\* A thread whose end was seen is not looked at again.
JoinServe ==
  /\ stop = "joinServe" /\ (ServeIsGone \/ expired)
  /\ serveThread' = (serveThread /\ ~ServeIsGone)
  /\ stop' = "snapshot"
  /\ UNCHANGED <<clientVars, workerVars, serve, current, slots, sets, listening, stopping, snapshot,
                 expired, answer>>

SnapshotWorkers ==
  /\ stop = "snapshot"
  /\ snapshot' = workers
  /\ stop' = "joinWorkers"
  /\ UNCHANGED <<clientVars, workerVars, serveVars, slots, sets, listening, stopping, expired, answer>>

\* join() without a timeout.
JoinForever(c) ==
  /\ stop = "joinWorkers" /\ c \in snapshot
  /\ worker[c] = "ended"
  /\ snapshot' = snapshot \ {c} /\ UNCHANGED stop
  /\ UNCHANGED <<clientVars, workerVars, serveVars, slots, sets, listening, stopping, expired, answer>>

\* join() raises RuntimeError on a thread that was never started.
JoinWorker(c) ==
  /\ stop = "joinWorkers" /\ c \in snapshot
  /\ \/ worker[c] = "new" /\ stop' = "raised" /\ UNCHANGED snapshot
     \/ /\ worker[c] # "new" /\ (worker[c] = "ended" \/ expired)
        /\ snapshot' = snapshot \ {c} /\ UNCHANGED stop
  /\ UNCHANGED <<clientVars, workerVars, serveVars, slots, sets, listening, stopping, expired, answer>>

Alive == {c \in workers : worker[c] \notin {"new", "ended"}}

\* The last two looks: at the workers, under the lock, and then at the serve thread, which
\* may have started one more worker in between.  The bound path is then removed.
LookAtWorkers ==
  /\ stop = "joinWorkers" /\ snapshot = {}
  /\ answer' = (Alive = {})
  /\ stop' = "lookAtServe"
  /\ UNCHANGED <<clientVars, workerVars, serveVars, slots, sets, listening, stopping, snapshot, expired>>

\* Only the workers are asked whether they have ended.
CompleteByWorkers ==
  /\ stop = "lookAtServe"
  /\ stop' = "returned"
  /\ UNCHANGED <<clientVars, workerVars, serveVars, slots, sets, listening, stopping, snapshot, expired, answer>>

Complete ==
  /\ stop = "lookAtServe"
  /\ answer' = (answer /\ (serveThread => ServeIsGone))
  /\ stop' = "returned"
  /\ UNCHANGED <<clientVars, workerVars, serveVars, slots, sets, listening, stopping, snapshot, expired>>

ClientStep(c) == Connect(c) \/ Receive(c) \/ ClientTimeout(c)
ServeStep == Loop \/ Accept \/ AcceptFails \/ Admit \/ Register \/ StartWorker
WorkerStep(c) == Read(c) \/ Send(c) \/ Release(c) \/ Discard(c)
StopStep == \/ CloseListener \/ ShutConnections \/ JoinServe \/ SnapshotWorkers
            \/ \E c \in Clients : JoinWorker(c)
            \/ LookAtWorkers \/ Complete

Next == \/ \E c \in Clients : ClientStep(c) \/ WorkerStep(c) \/ Broker(c)
        \/ Start \/ StartServing \/ ServeStep \/ StopBegins \/ StopStep \/ DeadlinePasses

Spec == Init /\ [][Next]_vars

-----------------------------------------------------------------------------
\* A connection holds a slot from its admission until its worker gives it back.
Holders == {c \in Clients : worker[c] \in {"new", "read", "broker", "reply", "release"}}
             \cup (IF serve = "register" THEN {current} ELSE {})

\* "Bounded worker threads" (AGENT_HANDOFF.md:59): slots are neither lost nor given
\* back twice on any way through _serve_one, so never more than max_connections
\* requests are read or at the broker at a time.
SlotsAccounted == slots + Cardinality(Holders) = MaxConnections

\* The workers that run; one whose thread could not be had never ran.
RunningWorkers == {c \in Clients : worker[c] \notin {"none", "new", "ended"}}

\* No connection is taken any more and no thread serves.
Closed == ~listening /\ ServeIsGone

\* stop() tells "whether all threads ended" (unix_transport.py:267).  TRUE means that the
\* server is closed and no worker runs, now and from now on, if the serve thread ended while
\* it was joined.  If it ended only after the deadline, one worker may run: the one that it
\* had in hand when stop() looked at the workers (lines 302 and 303), and no second one.
Drained ==
  /\ Closed
  /\ \A c, d \in RunningWorkers : serveThread /\ c = d

TrueMeansDrained ==
  stop = "returned" /\ answer => Drained

\* If broker calls return and the process lives, every connection that got a worker is
\* closed, its slot back and its worker gone.
ConnectionsEnd ==
  (\A c \in Clients : WF_vars(Broker(c)) /\ WF_vars(WorkerStep(c))) =>
     \A c \in Clients : worker[c] = "read" ~> worker[c] = "ended"

\* "Stop within one total deadline and report whether all threads ended"
\* (unix_transport.py:267): stop() returns its report.
StopReports == stop # "raised"
===============================================================================
