------------------------- MODULE BrokerService_proof -------------------------
(***************************************************************************)
(* Proofs about UnixServer and BrokerService, for any set of clients, any  *)
(* number of slots and any backlog.  The first part is about the server    *)
(* and its threads whoever calls start() and stop(); the service adds no   *)
(* step to them, so that it is true of the service's server too.  The      *)
(* second part is about the service's main thread.                         *)
(***************************************************************************)
EXTENDS BrokerService, FiniteSetTheorems, SequenceTheorems, TLAPS

ClientStates == {"idle", "waiting", "reply", "BROKER_UNAVAILABLE", "BROKER_TIMEOUT",
                 "MALFORMED_PROVIDER_RESPONSE"}
SockStates == {"none", "queued", "open", "shut"}
Active == {"read", "broker", "reply", "release"}
WorkerStates == {"none", "new", "discard", "ended"} \cup Active
ServeStates == {"none", "loop", "accepting", "accepted", "register", "start", "ended"}
StopStates == {"idle", "close", "shutdown", "joinServe", "snapshot", "joinWorkers", "lookAtServe",
               "returned", "raised"}

ServerTypeOK ==
  /\ client \in [Clients -> ClientStates]
  /\ sock \in [Clients -> SockStates]
  /\ sent \in [Clients -> {"reply", "none"}]
  /\ worker \in [Clients -> WorkerStates]
  /\ serve \in ServeStates /\ serveThread \in BOOLEAN
  /\ slots \in Nat
  /\ workers \subseteq Clients
  /\ listening \in BOOLEAN /\ stopping \in BOOLEAN /\ answer \in BOOLEAN
  /\ stop \in StopStates

\* A connection that was not accepted has no worker.
NotYetAccepted ==
  \A c \in Clients : /\ client[c] = "idle" => sock[c] = "none"
                     /\ sock[c] \in {"none", "queued"} => worker[c] = "none"

\* The connection that the serve thread has in hand.
InHand ==
  /\ serve \in {"accepted", "register"} =>
       current \in Clients /\ worker[current] = "none" /\ sock[current] \notin {"none", "queued"}
  /\ serve = "start" => current \in Clients /\ worker[current] = "new"

\* The set of workers is kept from registration to the end of the finally clause, and
\* with it the set of connections.
Registered ==
  /\ \A c \in Clients : worker[c] \in Active \cup {"new", "discard"} => c \in workers
  /\ \A c \in workers : worker[c] # "none"
  /\ connections = workers

Slots == IsFiniteSet(Holders) /\ slots + Cardinality(Holders) = MaxConnections

\* The listener does not come back, and neither does the event go.
ListenerClosed == /\ stop \notin {"idle", "close"} => ~listening
                  /\ stop # "idle" => stopping

\* A serve thread that is not kept was never started or was seen to end.
Kept == serveThread \/ ServeIsGone

\* After stop() has seen no worker alive the serve thread adds one at most: the one in hand.
Looked ==
  stop \in {"lookAtServe", "returned"} /\ answer =>
    /\ \A c, d \in RunningWorkers : serveThread /\ c = d
    /\ serve \in {"register", "start"} => RunningWorkers = {}

\* All that does not concern what stop() reports.
Base == ServerTypeOK /\ NotYetAccepted /\ InHand /\ Registered /\ ListenerClosed

Report == Kept /\ Looked /\ TrueMeansDrained

ServerInv == Base /\ Slots /\ Report
-----------------------------------------------------------------------------
LEMMA ServerInitFits == Init => ServerInv
<1> SUFFICES ASSUME Init PROVE ServerInv
  OBVIOUS
<1>1. Base
  BY BoundsPositive DEF Init, Base, ServerTypeOK, ClientStates, SockStates, WorkerStates, Active, ServeStates,
     StopStates, NotYetAccepted, InHand, Registered, ListenerClosed
<1>2. Report
  BY DEF Init, Report, Kept, Looked, TrueMeansDrained, ServeIsGone
<1>3. Holders = {} /\ slots = MaxConnections
  BY DEF Init, Holders
<1>4. Slots
  BY <1>3, FS_EmptySet, BoundsPositive DEF Slots
<1> QED
  BY <1>1, <1>2, <1>4 DEF ServerInv

LEMMA HoldersKept == ASSUME Slots, UNCHANGED slots, Holders' = Holders PROVE Slots'
BY DEF Slots

\* What stop() has seen stays true if no worker comes to run but the one in hand.
LEMMA ReportStays ==
  ASSUME ServerInv, ListenerClosed', UNCHANGED <<stop, answer, serveThread>>,
         ServeIsGone => ServeIsGone',
         serve' \in {"register", "start"} => serve \in {"register", "start"} \/ ~stopping,
         \/ RunningWorkers' \subseteq RunningWorkers
         \/ /\ serve = "start" /\ serve' \notin {"register", "start"}
            /\ RunningWorkers' \subseteq RunningWorkers \cup {current}
  PROVE  Report'
<1> USE DEF ServerInv, Base, Report
<1>1. Kept'
  BY DEF Kept
<1>2. Looked'
  <2> SUFFICES ASSUME stop \in {"lookAtServe", "returned"}, answer
               PROVE  /\ \A c, d \in RunningWorkers' : serveThread /\ c = d
                      /\ serve' \in {"register", "start"} => RunningWorkers' = {}
    BY DEF Looked
  <2>1. /\ \A c, d \in RunningWorkers : serveThread /\ c = d
        /\ serve \in {"register", "start"} => RunningWorkers = {}
        /\ stopping
    BY DEF Looked, ListenerClosed
  <2>2. CASE RunningWorkers' \subseteq RunningWorkers
    BY <2>1, <2>2
  <2>3. CASE /\ serve = "start" /\ serve' \notin {"register", "start"}
             /\ RunningWorkers' \subseteq RunningWorkers \cup {current}
    BY <2>1, <2>3 DEF Kept, ServeIsGone
  <2> QED
    BY <2>2, <2>3
<1>3. TrueMeansDrained'
  BY <1>2 DEF TrueMeansDrained, Drained, Closed, Looked, ListenerClosed
<1> QED
  BY <1>1, <1>2, <1>3

\* The clients' steps.
LEMMA ClientKeeps ==
  ASSUME ServerInv, NEW c \in Clients, ClientStep(c) PROVE ServerInv'
<1>1. UNCHANGED <<sent, worker, serve, serveThread, current, slots, workers, connections, listening,
                  stopping, stop, snapshot, expired, answer>>
  BY DEF ClientStep, Connect, Receive, ClientTimeout, workerVars, serveVars, sets, stopVars
<1>2. PICK s \in ClientStates \ {"idle"} :
        /\ client' = [client EXCEPT ![c] = s]
        /\ sock' = sock \/ (client[c] = "idle" /\ sock' = [sock EXCEPT ![c] = "queued"])
  <2>1. CASE Connect(c)
    BY <2>1 DEF Connect, ClientStates
  <2>2. CASE Receive(c)
    <3>1. sent[c] \in {"reply", "none"} /\ sock' = sock
      BY <2>2 DEF Receive, workerVars, ServerInv, Base, ServerTypeOK
    <3> QED
      BY <2>2, <3>1 DEF Receive, ClientStates
  <2>3. CASE ClientTimeout(c)
    BY <2>3 DEF ClientTimeout, ClientStates, workerVars
  <2> QED
    BY <2>1, <2>2, <2>3 DEF ClientStep
<1>3. client[c] = "idle" => sock[c] = "none" /\ worker[c] = "none"
  BY DEF ServerInv, Base, NotYetAccepted
<1>4. Base'
  BY <1>1, <1>2, <1>3 DEF ServerInv, Base, ServerTypeOK, SockStates, NotYetAccepted, InHand, Registered,
                          ListenerClosed
<1>5. Slots'
  BY <1>1, HoldersKept DEF ServerInv, Holders
<1>6. Report'
  BY <1>1, <1>4, ReportStays DEF Base, ServeIsGone, RunningWorkers
<1> QED
  BY <1>4, <1>5, <1>6 DEF ServerInv

\* start(), start_in_thread(), and the parts of the serve thread's loop that give no slot.
LEMMA StartKeeps ==
  ASSUME ServerInv, Start \/ StartServing \/ Loop \/ AcceptFails PROVE ServerInv'
<1> USE DEF clientVars, workerVars, serveVars, sets, stopVars
<1>1. /\ UNCHANGED <<client, sock, sent, worker, current, slots, workers, connections, stopping, stop, answer>>
      /\ serve' \in {serve, "loop", "accepting", "ended"}
      /\ serveThread' \in BOOLEAN
      /\ UNCHANGED listening \/ (stop = "idle" /\ listening' = TRUE)
  BY DEF Start, StartServing, Loop, AcceptFails, ServerInv, Base, ServerTypeOK
<1>2. Base'
  <2>1. ServerTypeOK'
    BY <1>1 DEF ServerInv, Base, ServerTypeOK, ServeStates
  <2>2. InHand'
    BY <1>1 DEF ServerInv, Base, InHand
  <2>3. ListenerClosed'
    BY <1>1 DEF ServerInv, Base, ListenerClosed
  <2> QED
    BY <1>1, <2>1, <2>2, <2>3 DEF ServerInv, Base, NotYetAccepted, Registered
<1>3. serve' = "register" <=> serve = "register"
  BY DEF Start, StartServing, Loop, AcceptFails
<1>4. Slots'
  BY <1>1, <1>3, HoldersKept DEF ServerInv, Holders
<1>5. CASE StartServing
  <2>1. stop \notin {"lookAtServe", "returned"} /\ serveThread'
    BY <1>5 DEF StartServing, ServerInv, Base, ListenerClosed
  <2> QED
    BY <1>1, <1>2, <1>4, <2>1 DEF ServerInv, Report, Kept, Looked, TrueMeansDrained
<1>6. CASE Start \/ Loop \/ AcceptFails
  <2>1. UNCHANGED serveThread /\ (ServeIsGone => ServeIsGone')
    BY <1>6 DEF Start, Loop, AcceptFails, ServeIsGone
  <2>2. RunningWorkers' = RunningWorkers
    BY <1>1 DEF RunningWorkers
  <2>3. Report'
    BY <1>1, <1>2, <2>1, <2>2, ReportStays DEF Base
  <2> QED
    BY <1>2, <1>4, <2>3 DEF ServerInv
<1> QED
  BY <1>5, <1>6

LEMMA AcceptKeeps == ASSUME ServerInv, Accept PROVE ServerInv'
<1>1. PICK c \in Queued : sock' = [sock EXCEPT ![c] = "open"] /\ current' = c
  BY DEF Accept
<1>2. /\ c \in Clients /\ sock[c] = "queued" /\ serve = "accepting" /\ serve' = "accepted"
      /\ UNCHANGED <<client, sent, worker, serveThread, slots, workers, connections, listening, stopping, stop, answer>>
  BY <1>1 DEF Accept, Queued, clientVars, sets, stopVars
<1>3. Base'
  BY <1>1, <1>2 DEF ServerInv, Base, ServerTypeOK, SockStates, NotYetAccepted, InHand, Registered,
                    ListenerClosed, ServeStates
<1>4. Slots'
  BY <1>2, HoldersKept DEF ServerInv, Holders
<1>5. Report'
  BY <1>2, <1>3, ReportStays DEF Base, ServeIsGone, RunningWorkers
<1> QED
  BY <1>3, <1>4, <1>5 DEF ServerInv

\* The slot is taken for a connection that holds none.
LEMMA AdmitKeeps == ASSUME ServerInv, Admit PROVE ServerInv'
<1>1. serve = "accepted" /\ UNCHANGED <<client, serveThread, sent, worker, workers, connections, listening, stopping,
                                        stop, answer>>
  BY DEF Admit, clientVars, sets, stopVars
<1>2. current \in Clients /\ worker[current] = "none" /\ sock[current] \notin {"none", "queued"}
  BY <1>1 DEF ServerInv, Base, InHand
<1>3. CASE ~stopping /\ slots > 0
  <2>1. slots' = slots - 1 /\ serve' = "register" /\ UNCHANGED <<current, sock>>
    BY <1>3 DEF Admit
  <2>2. Base'
    BY <1>1, <1>2, <1>3, <2>1 DEF ServerInv, Base, ServerTypeOK, NotYetAccepted, InHand, Registered,
                                  ListenerClosed, ServeStates
  <2>3. current \notin Holders /\ Holders' = Holders \cup {current}
    BY <1>1, <1>2, <2>1 DEF Holders
  <2>4. IsFiniteSet(Holders') /\ Cardinality(Holders') = Cardinality(Holders) + 1
    BY <2>3, FS_AddElement DEF ServerInv, Slots
  <2>5. Cardinality(Holders) \in Nat /\ slots \in Nat
    BY FS_CardinalityType DEF ServerInv, Base, Slots, ServerTypeOK
  <2>6. Slots'
    BY <2>1, <2>4, <2>5, BoundsPositive DEF ServerInv, Slots
  <2>7. Report'
    BY <1>1, <1>3, <2>1, <2>2, ReportStays DEF Base, ServeIsGone, RunningWorkers
  <2> QED
    BY <2>2, <2>6, <2>7 DEF ServerInv
<1>4. CASE ~(~stopping /\ slots > 0)
  <2>1. serve' = "loop" /\ UNCHANGED slots /\ sock' = [sock EXCEPT ![current] = "shut"]
    BY <1>4 DEF Admit
  <2>2. client[current] # "idle"
    BY <1>2 DEF ServerInv, Base, NotYetAccepted
  <2>3. Base'
    BY <1>1, <1>2, <2>1, <2>2 DEF ServerInv, Base, ServerTypeOK, SockStates, NotYetAccepted, InHand, Registered,
                                  ListenerClosed, ServeStates
  <2>4. Slots'
    BY <1>1, <2>1, HoldersKept DEF ServerInv, Holders
  <2>5. Report'
    BY <1>1, <2>1, <2>3, ReportStays DEF Base, ServeIsGone, RunningWorkers
  <2> QED
    BY <2>3, <2>4, <2>5 DEF ServerInv
<1> QED
  BY <1>3, <1>4

LEMMA RegisterKeeps == ASSUME ServerInv, Register PROVE ServerInv'
<1>1. /\ serve = "register" /\ serve' = "start" /\ current \in Clients
      /\ sock[current] \notin {"none", "queued"} /\ worker[current] = "none"
      /\ workers' = workers \cup {current} /\ connections' = connections \cup {current} /\ worker' = [worker EXCEPT ![current] = "new"]
      /\ UNCHANGED <<client, serveThread, sock, sent, current, slots, listening, stopping, stop, answer>>
  BY DEF Register, ServerInv, Base, InHand, clientVars, stopVars
<1>2. Base'
  BY <1>1 DEF ServerInv, Base, ServerTypeOK, WorkerStates, NotYetAccepted, InHand, Registered,
              ListenerClosed, ServeStates, Active
<1>3. Holders' = Holders
  BY <1>1 DEF ServerInv, Base, ServerTypeOK, Holders
<1>4. Slots'
  BY <1>1, <1>3, HoldersKept DEF ServerInv
<1>5. RunningWorkers' \subseteq RunningWorkers
  BY <1>1 DEF ServerInv, Base, ServerTypeOK, RunningWorkers
<1>6. Report'
  BY <1>1, <1>2, <1>5, ReportStays DEF Base, ServeIsGone
<1> QED
  BY <1>2, <1>4, <1>6 DEF ServerInv

LEMMA StartWorkerKeeps == ASSUME ServerInv, StartWorker PROVE ServerInv'
<1>1. /\ serve = "start" /\ current \in Clients /\ worker[current] = "new"
      /\ \/ worker' = [worker EXCEPT ![current] = "read"] /\ serve' = "loop"
         \/ serve' = "ended" /\ UNCHANGED worker
      /\ UNCHANGED <<client, serveThread, sock, sent, slots, workers, connections, listening, stopping, stop, answer>>
  BY DEF StartWorker, ServerInv, Base, InHand, clientVars, sets, stopVars
<1>2. Registered'
  BY <1>1 DEF ServerInv, Base, ServerTypeOK, Registered
<1>3. Base'
  BY <1>1, <1>2 DEF ServerInv, Base, ServerTypeOK, WorkerStates, NotYetAccepted, InHand,
                    ListenerClosed, ServeStates, Active
<1>4. Holders' = Holders
  BY <1>1 DEF ServerInv, Base, ServerTypeOK, Holders
<1>5. Slots'
  BY <1>1, <1>4, HoldersKept DEF ServerInv
<1>6. RunningWorkers' \subseteq RunningWorkers \cup {current}
  BY <1>1 DEF ServerInv, Base, ServerTypeOK, RunningWorkers
<1>7. Report'
  BY <1>1, <1>3, <1>6, ReportStays DEF Base, ServeIsGone
<1> QED
  BY <1>3, <1>5, <1>7 DEF ServerInv
-----------------------------------------------------------------------------
\* A worker's way through _serve_one up to the end of the with statement.
LEMMA ReplyKeeps ==
  ASSUME ServerInv, NEW c \in Clients, Read(c) \/ Broker(c) \/ Send(c) PROVE ServerInv'
<1>1. PICK l \in Active : /\ worker' = [worker EXCEPT ![c] = l] /\ worker[c] \in Active
  BY DEF Read, Broker, Send, Goto, Active
<1>2. /\ UNCHANGED <<client, sock, serve, serveThread, current, slots, workers, connections, listening, stopping, stop,
                     answer>>
      /\ sent' \in [Clients -> {"reply", "none"}]
  BY DEF Read, Broker, Send, ServerInv, Base, ServerTypeOK, clientVars, serveVars, sets, stopVars
<1>3. Base'
  BY <1>1, <1>2 DEF ServerInv, Base, ServerTypeOK, WorkerStates, Active, NotYetAccepted, InHand, Registered,
                    ListenerClosed
<1>4. Holders' = Holders
  BY <1>1, <1>2 DEF ServerInv, Base, ServerTypeOK, Holders, Active
<1>5. RunningWorkers' \subseteq RunningWorkers
  BY <1>1 DEF ServerInv, Base, ServerTypeOK, RunningWorkers, Active
<1>6. Report'
  BY <1>2, <1>3, <1>5, ReportStays DEF Base, ServeIsGone
<1> QED
  BY <1>2, <1>3, <1>4, <1>6, HoldersKept DEF ServerInv

\* The slot is given back by a worker that holds it.
LEMMA ReleaseKeeps == ASSUME ServerInv, NEW c \in Clients, Release(c) PROVE ServerInv'
<1>1. /\ worker[c] = "release" /\ worker' = [worker EXCEPT ![c] = "discard"] /\ slots' = slots + 1
      /\ sock' = [sock EXCEPT ![c] = "shut"]
      /\ UNCHANGED <<client, sent, serve, serveThread, current, workers, connections, listening, stopping, stop, answer>>
  BY DEF Release, Goto, clientVars, serveVars, sets, stopVars
<1>2. client[c] # "idle"
  BY <1>1 DEF ServerInv, Base, NotYetAccepted
<1>3. Base'
  BY <1>1, <1>2 DEF ServerInv, Base, ServerTypeOK, SockStates, WorkerStates, Active, NotYetAccepted, InHand,
                    Registered, ListenerClosed
<1>4. c \in Holders /\ Holders' = Holders \ {c}
  BY <1>1 DEF ServerInv, Base, ServerTypeOK, InHand, Holders
<1>5. IsFiniteSet(Holders') /\ Cardinality(Holders') = Cardinality(Holders) - 1
  BY <1>4, FS_RemoveElement DEF ServerInv, Slots
<1>6. Cardinality(Holders) \in Nat /\ slots \in Nat
  BY FS_CardinalityType DEF ServerInv, Base, Slots, ServerTypeOK
<1>7. Slots'
  BY <1>1, <1>5, <1>6, BoundsPositive DEF ServerInv, Slots
<1>8. RunningWorkers' \subseteq RunningWorkers
  BY <1>1 DEF ServerInv, Base, ServerTypeOK, RunningWorkers
<1>9. Report'
  BY <1>1, <1>3, <1>8, ReportStays DEF Base, ServeIsGone
<1> QED
  BY <1>3, <1>7, <1>9 DEF ServerInv

LEMMA DiscardKeeps == ASSUME ServerInv, NEW c \in Clients, Discard(c) PROVE ServerInv'
<1>1. /\ worker[c] = "discard" /\ worker' = [worker EXCEPT ![c] = "ended"] /\ workers' = workers \ {c} /\ connections' = connections \ {c}
      /\ UNCHANGED <<client, sock, sent, serve, serveThread, current, slots, listening, stopping, stop, answer>>
  BY DEF Discard, Goto, clientVars, serveVars, stopVars
<1>2. Base'
  BY <1>1 DEF ServerInv, Base, ServerTypeOK, WorkerStates, Active, NotYetAccepted, InHand, Registered,
              ListenerClosed
<1>3. Holders' = Holders
  BY <1>1 DEF ServerInv, Base, ServerTypeOK, Holders
<1>4. RunningWorkers' \subseteq RunningWorkers
  BY <1>1 DEF ServerInv, Base, ServerTypeOK, RunningWorkers
<1>5. Report'
  BY <1>1, <1>2, <1>4, ReportStays DEF Base, ServeIsGone
<1> QED
  BY <1>1, <1>2, <1>3, <1>5, HoldersKept DEF ServerInv

\* stop(), up to its last two looks.
LEMMA StopKeeps ==
  ASSUME ServerInv,
         \/ StopBegins \/ CloseListener \/ ShutConnections \/ JoinServe \/ SnapshotWorkers \/ DeadlinePasses
         \/ \E c \in Clients : JoinWorker(c)
  PROVE  ServerInv'
<1>1. UNCHANGED <<client, sent, worker, serve, current, slots, workers, connections>>
  BY DEF StopBegins, CloseListener, ShutConnections, JoinServe, SnapshotWorkers, DeadlinePasses, JoinWorker,
         clientVars, workerVars, serveVars, sets
<1>2. /\ stop' \in StopStates \ {"lookAtServe", "returned"} /\ answer' \in BOOLEAN
  BY DEF StopBegins, CloseListener, ShutConnections, JoinServe, SnapshotWorkers, DeadlinePasses, JoinWorker,
         StopStates, ServerInv, Base, ServerTypeOK, stopVars
<1>3. listening' \in BOOLEAN /\ stopping' \in BOOLEAN /\ ListenerClosed'
  <2> USE DEF ServerInv, Base, ServerTypeOK, ListenerClosed
  <2>1. CASE StopBegins \/ CloseListener
    BY <2>1 DEF StopBegins, CloseListener
  <2>2. CASE ShutConnections \/ JoinServe \/ SnapshotWorkers \/ DeadlinePasses
    BY <2>2 DEF ShutConnections, JoinServe, SnapshotWorkers, DeadlinePasses
  <2>3. ASSUME NEW c \in Clients, JoinWorker(c) PROVE stop = "joinWorkers" /\ UNCHANGED <<listening, stopping>>
    BY <2>3 DEF JoinWorker
  <2> QED
    BY <2>1, <2>2, <2>3
<1>4. serveThread' \in BOOLEAN /\ Kept'
  BY DEF StopBegins, CloseListener, ShutConnections, JoinServe, SnapshotWorkers, DeadlinePasses, JoinWorker,
         serveVars, ServerInv, Base, Report, ServerTypeOK, Kept, ServeIsGone
<1>5. /\ sock' \in [Clients -> SockStates]
      /\ \A c \in Clients : /\ sock'[c] = sock[c] \/ (sock'[c] = "shut" /\ client[c] # "idle")
                            /\ sock'[c] \in {"none", "queued"} => sock'[c] = sock[c]
  <2> USE DEF ServerInv, Base, ServerTypeOK, SockStates, NotYetAccepted
  <2>1. CASE CloseListener
    BY <2>1 DEF CloseListener, Queued
  <2>2. CASE ShutConnections
    <3>1. \A c \in connections : c \in Clients => client[c] # "idle"
      BY DEF Registered
    <3> QED
      BY <2>2, <3>1 DEF ShutConnections
  <2>3. CASE UNCHANGED sock
    BY <2>3
  <2> QED
    BY <2>1, <2>2, <2>3 DEF StopBegins, JoinServe, SnapshotWorkers, DeadlinePasses, JoinWorker, workerVars
<1>6. Base'
  BY <1>1, <1>2, <1>3, <1>4, <1>5 DEF ServerInv, Base, ServerTypeOK, NotYetAccepted, InHand, Registered
<1>7. Slots'
  BY <1>1, HoldersKept DEF ServerInv, Holders
<1>8. Report'
  BY <1>2, <1>4 DEF Report, Looked, TrueMeansDrained
<1> QED
  BY <1>6, <1>7, <1>8 DEF ServerInv

\* The look at the workers finds what `workers' still holds; what runs is among them.
LEMMA LookKeeps == ASSUME ServerInv, LookAtWorkers \/ Complete PROVE ServerInv'
<1>1. /\ UNCHANGED <<client, sock, sent, worker, serve, serveThread, current, slots, workers, connections, listening, stopping>>
      /\ stop' \in {"lookAtServe", "returned"} /\ stop \in {"joinWorkers", "lookAtServe"}
      /\ answer' \in BOOLEAN
  BY DEF LookAtWorkers, Complete, clientVars, workerVars, serveVars, sets, ServerInv, Base, ServerTypeOK
<1>2. Base'
  BY <1>1 DEF ServerInv, Base, ServerTypeOK, StopStates, NotYetAccepted, InHand, Registered, ListenerClosed
<1>3. Slots'
  BY <1>1, HoldersKept DEF ServerInv, Holders
<1>4. Kept' /\ RunningWorkers' = RunningWorkers /\ ListenerClosed'
  BY <1>1, <1>2 DEF ServerInv, Base, Report, Kept, ServeIsGone, RunningWorkers
<1>5. CASE LookAtWorkers
  <2>1. stop' = "lookAtServe" /\ (answer' => Alive = {})
    BY <1>5 DEF LookAtWorkers
  <2>2. RunningWorkers \subseteq Alive
    BY DEF RunningWorkers, Alive, ServerInv, Base, ServerTypeOK, WorkerStates, Registered
  <2>3. Report'
    BY <1>4, <2>1, <2>2 DEF Report, Looked, TrueMeansDrained
  <2> QED
    BY <1>2, <1>3, <2>3 DEF ServerInv
<1>6. CASE Complete
  <2>1. /\ stop = "lookAtServe" /\ stop' = "returned"
        /\ answer' => answer /\ (serveThread => ServeIsGone)
    BY <1>6 DEF Complete
  <2>2. answer' => ServeIsGone'
    BY <1>1, <2>1 DEF ServerInv, Report, Kept, ServeIsGone
  <2>3. Looked'
    BY <1>1, <1>4, <2>1 DEF ServerInv, Report, Looked
  <2>4. TrueMeansDrained'
    BY <1>4, <2>1, <2>2, <2>3 DEF TrueMeansDrained, Drained, Closed, Looked, ListenerClosed
  <2> QED
    BY <1>2, <1>3, <1>4, <2>3, <2>4 DEF ServerInv, Report
<1> QED
  BY <1>5, <1>6

LEMMA ServerStepKeeps == ServerInv /\ [Next]_vars => ServerInv'
<1> SUFFICES ASSUME ServerInv, [Next]_vars PROVE ServerInv'
  OBVIOUS
<1>1. ASSUME NEW c \in Clients, ClientStep(c) \/ WorkerStep(c) \/ Broker(c) PROVE ServerInv'
  BY <1>1, ClientKeeps, ReplyKeeps, ReleaseKeeps, DiscardKeeps DEF WorkerStep
<1>2. CASE Start \/ StartServing \/ ServeStep
  BY <1>2, StartKeeps, AcceptKeeps, AdmitKeeps, RegisterKeeps, StartWorkerKeeps DEF ServeStep
<1>3. CASE StopBegins \/ StopStep \/ DeadlinePasses
  BY <1>3, StopKeeps, LookKeeps DEF StopStep
<1>4. CASE UNCHANGED vars
  <2> USE <1>4 DEF vars, clientVars, workerVars, serveVars, sets, stopVars
  <2>1. Holders' = Holders /\ RunningWorkers' = RunningWorkers
    BY DEF Holders, RunningWorkers
  <2>2. Base'
    BY DEF ServerInv, Base, ServerTypeOK, NotYetAccepted, InHand, Registered, ListenerClosed
  <2>3. Report'
    BY <2>1, <2>2, ReportStays DEF Base, ServeIsGone
  <2> QED
    BY <2>1, <2>2, <2>3, HoldersKept DEF ServerInv
<1> QED
  BY <1>1, <1>2, <1>3, <1>4 DEF Next

\* The invariant of the threads holds whoever calls start() and stop(), and when.
THEOREM ServerInvariance == Spec => []ServerInv
<1> QED
  BY ServerInitFits, ServerStepKeeps, PTL DEF Spec

\* SlotsAccounted: on every way through the threads a slot is held exactly from the
\* admission of a connection to the release by its worker.
THEOREM SlotsAreAccounted == Spec => []SlotsAccounted
<1>1. ServerInv => SlotsAccounted
  BY DEF ServerInv, Slots, SlotsAccounted
<1> QED
  BY <1>1, ServerInvariance, PTL

\* TrueMeansDrained: when stop() has answered TRUE the listener is closed, the serve thread
\* is gone, and no worker runs, but for the one that a serve thread which outlived its join
\* had in hand at the last look at the workers; until the next call of stop().
THEOREM TrueIsDrained == Spec => []TrueMeansDrained
<1>1. ServerInv => TrueMeansDrained
  BY DEF ServerInv, Report
<1> QED
  BY <1>1, ServerInvariance, PTL
-----------------------------------------------------------------------------
Statuses == DOMAIN TerminalEvent
EventNames == {"starting", "ready", "shutdown_requested", "stopping"} \cup Terminal
HandlersBack == {"parse", "check", "abort", "aborting", "stopping", "stop", "drain", "returned", "helped"}
NotStarted == {"parse", "check", "installInt", "installTerm", "start"}
NotServing == NotStarted \cup {"readiness", "unreadyStop", "unready", "thread", "abort", "aborting"}
SaidReady == {"thread", "poll", "alive", "read", "stopping", "stop", "drain"}
PCs == NotServing \cup SaidReady \cup {"restoreInt", "restoreTerm", "returned", "helped", "killed"}

\* Where the main thread is, or where it goes as soon as the handlers are back.
Going == IF pc \in {"restoreInt", "restoreTerm"} THEN then ELSE pc

\* No terminal event was told; x was, at the end, and no other.
Untold(e) == \A i \in DOMAIN e : e[i] \notin Terminal
Told(e, x) == /\ x \in Terminal /\ Last(e) = x
              /\ \A i \in DOMAIN e : e[i] \in Terminal <=> i = Len(e)

ServiceTypeOK ==
  /\ pc \in PCs /\ then \in {"returned", "abort", "stopping"}
  /\ handlers \in [Signals -> {"previous", "event", "kept"}]
  /\ requested \in BOOLEAN /\ ready \in BOOLEAN
  /\ shutdownRequested \in BOOLEAN /\ runtimeFailure \in BOOLEAN
  /\ events \in Seq(EventNames)
  /\ result \in Statuses \cup {"none"}

HandlersFit ==
  /\ pc \in HandlersBack \cup {"installInt", "restoreTerm"} => handlers["SIGINT"] # "event"
  /\ pc \in HandlersBack \cup {"installInt", "installTerm"} => handlers["SIGTERM"] # "event"

\* What was told, and when.
Story ==
  /\ ready <=> Contains(events, "ready")
  /\ Going \in NotServing \cup SaidReady => result = "none" /\ Untold(events)
  /\ Going \in NotServing \ {"thread"} => ~ready
  /\ Going \in SaidReady => ready
  /\ Going = "returned" => /\ result \in Statuses
                           /\ Told(events, TerminalEvent[result])
                           /\ ready <=> result \in {"CLEAN_SHUTDOWN", "RUNTIME_FAILURE"}

\* How far the server is.
ServerUse ==
  /\ Going \in NotStarted \cup {"returned"} => ~listening
  /\ Going \in NotServing => serve = "none"
  /\ Going \in {"unready", "aborting", "drain"} => stop # "idle"
  /\ Going = "drain" => stopping
  /\ Going = "returned" => serve = "none" \/ stopping

\* Why the service ends.
Reasons ==
  /\ Going = "read" => requested \/ runtimeFailure
  /\ Going \in {"stopping", "stop", "drain"} => shutdownRequested \/ runtimeFailure
  /\ Going = "returned" /\ result = "CLEAN_SHUTDOWN" => shutdownRequested /\ stop = "returned" /\ answer

Main == ServiceTypeOK /\ HandlersFit /\ Story /\ ServerUse /\ Reasons
ServiceInv == ServerInv /\ Main
-----------------------------------------------------------------------------
\* What telling one more event does.
LEMMA Telling ==
  ASSUME NEW S, NEW e \in Seq(S), NEW x \in S
  PROVE  /\ Append(e, x) \in Seq(S)
         /\ Contains(Append(e, x), "ready") <=> Contains(e, "ready") \/ x = "ready"
         /\ Untold(e) /\ x \notin Terminal => Untold(Append(e, x))
         /\ Untold(e) /\ x \in Terminal => Told(Append(e, x), x)
<1>1. /\ DOMAIN e = 1 .. Len(e) /\ DOMAIN Append(e, x) = 1 .. (Len(e) + 1) /\ Len(e) \in Nat
      /\ Append(e, x) \in Seq(S) /\ Len(Append(e, x)) = Len(e) + 1
      /\ \A i \in 1 .. Len(e) : Append(e, x)[i] = e[i]
      /\ Append(e, x)[Len(e) + 1] = x
  BY AppendProperties
<1>2. Contains(Append(e, x), "ready") <=> Contains(e, "ready") \/ x = "ready"
  BY <1>1 DEF Contains
<1>3. Untold(e) /\ x \notin Terminal => Untold(Append(e, x))
  BY <1>1 DEF Untold
<1>4. Untold(e) /\ x \in Terminal => Told(Append(e, x), x)
  BY <1>1 DEF Untold, Told, Last
<1> QED
  BY <1>1, <1>2, <1>3, <1>4

LEMMA StatusNames ==
  /\ Statuses = {"CLEAN_SHUTDOWN", "RUNTIME_FAILURE", "INVALID_CONFIGURATION", "UNSUPPORTED_PLATFORM",
                 "STARTUP_FAILURE"}
  /\ TerminalEvent["CLEAN_SHUTDOWN"] = "stopped" /\ TerminalEvent["RUNTIME_FAILURE"] = "runtime_failed"
  /\ TerminalEvent["INVALID_CONFIGURATION"] = "configuration_failed"
  /\ TerminalEvent["UNSUPPORTED_PLATFORM"] = "startup_failed"
  /\ TerminalEvent["STARTUP_FAILURE"] = "startup_failed"
BY DEF Statuses, TerminalEvent

LEMMA ServiceInitFits == ServiceInit => ServiceInv
<1> SUFFICES ASSUME ServiceInit PROVE ServiceInv
  OBVIOUS
<1>1. ServerInv
  BY ServerInitFits DEF ServiceInit
<1>2. ~Contains(<<>>, "ready") /\ Untold(<<>>)
  BY DEF Contains, Untold
<1>3. Going = pc /\ pc \in {"parse", "check"} /\ events = <<>> /\ ~listening /\ serve = "none"
  BY DEF ServiceInit, Init, Going
<1>4. <<>> \in Seq(EventNames)
  OBVIOUS
<1>5. ServiceTypeOK /\ HandlersFit
  BY <1>3, <1>4 DEF ServiceInit, ServiceTypeOK, HandlersFit, PCs, NotServing, NotStarted, HandlersBack, Signals
<1>6. Main
  BY <1>2, <1>3, <1>5 DEF ServiceInit, Main, Story, ServerUse, Reasons, NotServing, NotStarted, SaidReady
<1> QED
  BY <1>1, <1>6 DEF ServiceInv

\* The server's threads and the clients, seen from the main thread.
LEMMA BesideKeeps ==
  ASSUME ServiceInv, Threads PROVE Main' /\ [Next]_vars
<1>1. UNCHANGED service /\ \/ ServeStep \/ StopStep \/ DeadlinePasses
                           \/ \E c \in Clients : ClientStep(c) \/ WorkerStep(c) \/ Broker(c)
  BY DEF Threads, Beside
<1>2. /\ ~listening => ~listening'
      /\ serve = "none" => serve' = "none"
      /\ stopping => stopping'
      /\ stop # "idle" => stop' # "idle"
      /\ stop = "returned" => UNCHANGED <<stop, answer>>
  <2>1. CASE ServeStep
    BY <2>1 DEF ServeStep, Loop, Accept, AcceptFails, Admit, Register, StartWorker, stopVars
  <2>2. CASE StopStep
    BY <2>2 DEF StopStep, CloseListener, ShutConnections, JoinServe, SnapshotWorkers, JoinWorker, LookAtWorkers, Complete,
                serveVars
  <2>3. CASE DeadlinePasses
    BY <2>3 DEF DeadlinePasses, serveVars
  <2>4. ASSUME NEW c \in Clients, ClientStep(c) \/ WorkerStep(c) \/ Broker(c)
        PROVE  UNCHANGED <<listening, serve, stopping, stop, answer>>
    BY <2>4 DEF ClientStep, Connect, Receive, ClientTimeout, WorkerStep, Read, Send, Release, Discard, Broker,
                serveVars, stopVars
  <2> QED
    BY <1>1, <2>1, <2>2, <2>3, <2>4
<1>3. Going' = Going
  BY <1>1 DEF service, Going
<1>4. Main'
  BY <1>1, <1>2, <1>3 DEF ServiceInv, Main, ServiceTypeOK, HandlersFit, Story, ServerUse, Reasons, service, locals
<1>5. Next
  BY <1>1 DEF Next
<1> QED
  BY <1>4, <1>5

\* The caller's event and the signals.
LEMMA SignalKeeps ==
  ASSUME ServiceInv, Request \/ \E s \in Signals : Signal(s) PROVE Main' /\ UNCHANGED vars
<1>1. /\ UNCHANGED <<then, handlers, vars, ready, shutdownRequested, runtimeFailure, events, result>>
      /\ requested' \in BOOLEAN /\ (requested => requested')
      /\ pc' = pc \/ pc' = "killed"
  BY DEF Request, Signal, locals, ServiceInv, Main, ServiceTypeOK
<1>2. UNCHANGED <<listening, serve, stopping, stop, answer>>
  BY <1>1 DEF vars, serveVars, stopVars
<1>3. CASE pc' = pc
  <2>1. Going' = Going
    BY <1>1, <1>3 DEF Going
  <2> QED
    BY <1>1, <1>2, <1>3, <2>1 DEF ServiceInv, Main, ServiceTypeOK, HandlersFit, Story, ServerUse, Reasons
<1>4. CASE pc' = "killed"
  <2>1. Going' = "killed"
    BY <1>4 DEF Going
  <2> QED
    BY <1>1, <1>2, <1>4, <2>1 DEF ServiceInv, Main, ServiceTypeOK, HandlersFit, Story, ServerUse, Reasons,
                                  PCs, NotServing, NotStarted, SaidReady, HandlersBack
<1> QED
  BY <1>1, <1>3, <1>4
-----------------------------------------------------------------------------
\* A step of the main thread that tells nothing, decides nothing and leaves the server:
\* the parts that remain are about where it goes.
LEMMA MoveKeeps ==
  ASSUME ServiceInv, UNCHANGED <<events, ready, result, vars>>,
         pc' \in PCs, then' \in {"returned", "abort", "stopping"},
         Going \in NotServing \cup SaidReady, Going' \in NotServing \cup SaidReady,
         requested' \in BOOLEAN, shutdownRequested' \in BOOLEAN, runtimeFailure' \in BOOLEAN,
         Going' \in NotStarted => Going \in NotStarted,
         Going' \in NotServing \ {"thread"} <=> Going \in NotServing \ {"thread"},
         Going' \in NotServing => Going \in NotServing,
         Going' \notin {"unready", "aborting", "drain"},
         handlers' \in [Signals -> {"previous", "event", "kept"}], HandlersFit',
         Going' = "read" => requested' \/ runtimeFailure',
         Going' \in {"stopping", "stop"} => shutdownRequested' \/ runtimeFailure'
  PROVE  Main'
<1>1. UNCHANGED <<listening, serve, stopping, stop, answer>>
  BY DEF vars, serveVars, stopVars
<1>2. Going' \notin {"returned", "helped", "killed", "drain"}
  BY DEF NotServing, NotStarted, SaidReady
<1>3. ServiceTypeOK'
  BY DEF ServiceInv, Main, ServiceTypeOK
<1>4. Story'
  BY <1>2 DEF ServiceInv, Main, Story, NotServing, NotStarted, SaidReady
<1>5. ServerUse' /\ Reasons'
  BY <1>1, <1>2 DEF ServiceInv, Main, ServerUse, Reasons
<1> QED
  BY <1>3, <1>4, <1>5 DEF Main

\* The main thread ends with a status and its event, and without having been ready.
LEMMA RefuseKeeps ==
  ASSUME ServiceInv, Going \in NotServing, ~ready,
         NEW status \in Statuses \ {"CLEAN_SHUTDOWN", "RUNTIME_FAILURE"}, result' = status,
         \/ events' = Append(events, TerminalEvent[status])
         \/ events' = Append(Append(events, "starting"), TerminalEvent[status]),
         pc' \in PCs, then' \in {"returned", "abort", "stopping"}, Going' = "returned",
         handlers' = handlers, HandlersFit', ~listening,
         UNCHANGED <<requested, ready, shutdownRequested, runtimeFailure, vars>>
  PROVE  Main'
<1>1. UNCHANGED <<listening, serve, stopping, stop, answer>>
  BY DEF vars, serveVars, stopVars
<1>2. events \in Seq(EventNames) /\ Untold(events) /\ ~Contains(events, "ready")
  BY DEF ServiceInv, Main, ServiceTypeOK, Story
<1> DEFINE e == TerminalEvent[status]
<1>3. e \in Terminal /\ e \in EventNames /\ e # "ready"
  <2>1. status \in {"INVALID_CONFIGURATION", "UNSUPPORTED_PLATFORM", "STARTUP_FAILURE"}
    BY StatusNames
  <2> QED
    BY <2>1, StatusNames DEF Terminal, EventNames
<1> HIDE DEF e
<1>4. "starting" \notin Terminal /\ "starting" \in EventNames
  BY DEF Terminal, EventNames
<1>5. /\ Append(events, "starting") \in Seq(EventNames) /\ Untold(Append(events, "starting"))
      /\ ~Contains(Append(events, "starting"), "ready")
  BY <1>2, <1>4, Telling
<1>6. events' \in Seq(EventNames) /\ Told(events', TerminalEvent[status]) /\ ~Contains(events', "ready")
  <2>1. events' = Append(events, e) \/ events' = Append(Append(events, "starting"), e)
    BY DEF e
  <2>2. ASSUME NEW told \in Seq(EventNames), Untold(told), ~Contains(told, "ready")
        PROVE  /\ Append(told, e) \in Seq(EventNames) /\ Told(Append(told, e), e)
               /\ ~Contains(Append(told, e), "ready")
    BY <1>3, <2>2, Telling
  <2>3. events' \in Seq(EventNames) /\ Told(events', e) /\ ~Contains(events', "ready")
    BY <1>2, <1>5, <2>1, <2>2
  <2> QED
    BY <2>3 DEF e
<1>7. ServiceTypeOK'
  BY <1>6 DEF ServiceInv, Main, ServiceTypeOK
<1>8. Story'
  BY <1>6, StatusNames DEF ServiceInv, Main, Story, NotServing, NotStarted, SaidReady
<1>9. ServerUse' /\ Reasons'
  BY <1>1, StatusNames DEF ServiceInv, Main, ServerUse, Reasons, NotServing, NotStarted
<1> QED
  BY <1>7, <1>8, <1>9 DEF Main

LEMMA ParseKeeps == ASSUME ServiceInv, Parse \/ Check PROVE Main' /\ UNCHANGED vars
<1>1. /\ pc \in {"parse", "check"} /\ Going = pc /\ UNCHANGED <<then, handlers, requested, vars, locals>>
  BY DEF Parse, Check, Going
<1>2. /\ Going \in NotServing /\ ~ready /\ ~listening /\ \A s \in Signals : handlers[s] # "event"
      /\ then \in {"returned", "abort", "stopping"}
  BY <1>1 DEF ServiceInv, Main, ServiceTypeOK, Story, ServerUse, HandlersFit, HandlersBack, NotServing, NotStarted,
              Signals
<1>3. HandlersFit'
  BY <1>1, <1>2 DEF HandlersFit, Signals
<1>4. CASE pc' \in {"check", "installInt"} /\ UNCHANGED <<events, result>>
  <2>1. Going' = pc' /\ Going' \in NotStarted /\ Going \in NotStarted
    BY <1>1, <1>4 DEF Going, NotStarted
  <2> QED
    BY <1>1, <1>2, <1>3, <1>4, <2>1, MoveKeeps
       DEF ServiceInv, Main, ServiceTypeOK, locals, PCs, NotServing, NotStarted, SaidReady
<1>5. ASSUME NEW status \in Statuses \ {"CLEAN_SHUTDOWN", "RUNTIME_FAILURE"}, Refuse(TerminalEvent[status], status)
      PROVE  Main'
  <2>1. pc' = "returned" /\ Going' = "returned" /\ result' = status /\ events' = Append(events, TerminalEvent[status])
    BY <1>5 DEF Refuse, Emit, Going
  <2> QED
    BY <1>1, <1>2, <1>3, <2>1, RefuseKeeps DEF locals, PCs
<1>6. CASE pc' = "helped" /\ result' = "CLEAN_SHUTDOWN" /\ UNCHANGED events
  <2>1. Going' = "helped" /\ UNCHANGED <<listening, serve, stopping, stop, answer>>
    BY <1>1, <1>6 DEF Going, vars, serveVars, stopVars
  <2> QED
    BY <1>1, <1>3, <1>6, <2>1, StatusNames
       DEF ServiceInv, Main, ServiceTypeOK, Story, ServerUse, Reasons, locals, PCs, NotServing, NotStarted, SaidReady
<1> QED
  BY <1>1, <1>4, <1>5, <1>6, StatusNames DEF Parse, Check

LEMMA InstallKeeps ==
  ASSUME ServiceInv,
         \/ Install("SIGINT", "installInt", "installTerm")
         \/ Install("SIGTERM", "installTerm", "start")
  PROVE  Main' /\ UNCHANGED vars
<1>1. UNCHANGED <<requested, vars, ready, shutdownRequested, runtimeFailure, events, result>>
  BY DEF Install, locals
<1>2. /\ Going = pc /\ pc \in {"installInt", "installTerm"}
      /\ \/ /\ pc = "installInt" /\ handlers' = [handlers EXCEPT !["SIGINT"] = "event"]
            /\ pc' = "installTerm" /\ UNCHANGED then
         \/ /\ pc = "installTerm" /\ handlers' = [handlers EXCEPT !["SIGTERM"] = "event"]
            /\ pc' = "start" /\ UNCHANGED then
         \/ pc' = "restoreInt" /\ then' = "abort" /\ UNCHANGED handlers
  BY DEF Install, LeaveHandlers, Going
<1>3. /\ Going' \in {"installTerm", "start", "abort"} /\ pc' \in PCs
      /\ then' \in {"returned", "abort", "stopping"}
      /\ handlers' \in [Signals -> {"previous", "event", "kept"}]
  BY <1>2 DEF Going, ServiceInv, Main, ServiceTypeOK, PCs, NotServing, NotStarted, Signals
<1>4. HandlersFit'
  BY <1>2 DEF ServiceInv, Main, ServiceTypeOK, HandlersFit, HandlersBack, Signals
<1> QED
  BY <1>1, <1>2, <1>3, <1>4, MoveKeeps DEF ServiceInv, Main, ServiceTypeOK, NotServing, NotStarted, SaidReady

LEMMA StartServerKeeps == ASSUME ServiceInv, StartServer PROVE Main' /\ [Next]_vars
<1>1. /\ pc = "start" /\ Going = "start"
      /\ UNCHANGED <<handlers, requested, ready, shutdownRequested, runtimeFailure>>
  BY DEF StartServer, Going, locals
<1>2. ~ready /\ ~listening /\ then \in {"returned", "abort", "stopping"} /\ serve = "none" /\ result = "none"
      /\ Untold(events) /\ ~Contains(events, "ready") /\ events \in Seq(EventNames)
  BY <1>1 DEF ServiceInv, Main, ServiceTypeOK, Story, ServerUse, NotServing, NotStarted
<1>3. CASE Start /\ pc' = "readiness" /\ Emit("starting") /\ UNCHANGED <<then, result>>
  <2>1. "starting" \in EventNames \ Terminal
    BY DEF EventNames, Terminal
  <2>2. events' \in Seq(EventNames) /\ Untold(events') /\ ~Contains(events', "ready")
    BY <1>2, <1>3, <2>1, Telling DEF Emit
  <2>3. Going' = "readiness" /\ UNCHANGED <<serve, stopping, stop, answer>>
    BY <1>3 DEF Going, Start, serveVars, stopVars
  <2>4. ServiceTypeOK' /\ HandlersFit'
    BY <1>1, <1>3, <2>2 DEF ServiceInv, Main, ServiceTypeOK, HandlersFit, HandlersBack, PCs, NotServing
  <2>5. Story' /\ ServerUse' /\ Reasons'
    BY <1>1, <1>2, <1>3, <2>2, <2>3 DEF Story, ServerUse, Reasons, NotServing, NotStarted, SaidReady
  <2> QED
    BY <1>3, <2>4, <2>5 DEF Main, Next
<1>4. CASE /\ events' = Append(Append(events, "starting"), "startup_failed") /\ result' = "STARTUP_FAILURE"
           /\ LeaveHandlers("returned") /\ UNCHANGED vars
  <2>1. pc' = "restoreInt" /\ then' = "returned" /\ Going' = "returned"
    BY <1>4 DEF LeaveHandlers, Going
  <2>2. HandlersFit'
    BY <2>1 DEF HandlersFit, HandlersBack
  <2>3. Main'
    BY <1>1, <1>2, <1>4, <2>1, <2>2, RefuseKeeps, StatusNames DEF NotServing, NotStarted, PCs
  <2> QED
    BY <1>4, <2>3
<1> QED
  BY <1>3, <1>4 DEF StartServer

LEMMA ReadinessKeeps == ASSUME ServiceInv, Readiness PROVE Main' /\ UNCHANGED vars
<1>1. /\ pc = "readiness" /\ Going = "readiness"
      /\ UNCHANGED <<then, handlers, requested, vars, shutdownRequested, runtimeFailure, result>>
  BY DEF Readiness, Going
<1>2. ~ready /\ serve = "none" /\ result = "none" /\ Untold(events) /\ events \in Seq(EventNames)
  BY <1>1 DEF ServiceInv, Main, ServiceTypeOK, Story, ServerUse, NotServing, NotStarted
<1>3. UNCHANGED <<listening, serve, stopping, stop, answer>>
  BY <1>1 DEF vars, serveVars, stopVars
<1>4. CASE Emit("ready") /\ ready' = TRUE /\ pc' = "thread"
  <2>1. "ready" \in EventNames \ Terminal
    BY DEF EventNames, Terminal
  <2>2. events' \in Seq(EventNames) /\ Untold(events') /\ Contains(events', "ready")
    BY <1>2, <1>4, <2>1, Telling DEF Emit
  <2>3. Going' = "thread"
    BY <1>4 DEF Going
  <2>4. ServiceTypeOK' /\ HandlersFit'
    BY <1>1, <1>4, <2>2 DEF ServiceInv, Main, ServiceTypeOK, HandlersFit, HandlersBack, PCs, SaidReady
  <2>5. Story' /\ ServerUse' /\ Reasons'
    BY <1>1, <1>2, <1>3, <1>4, <2>2, <2>3 DEF Story, ServerUse, Reasons, NotServing, NotStarted, SaidReady
  <2> QED
    BY <1>1, <2>4, <2>5 DEF Main
<1>5. CASE pc' = "unreadyStop" /\ UNCHANGED <<ready, events>>
  <2>1. Going' = "unreadyStop" /\ HandlersFit'
    BY <1>5 DEF Going, HandlersFit, HandlersBack
  <2> QED
    BY <1>1, <1>5, <2>1, MoveKeeps
       DEF ServiceInv, Main, ServiceTypeOK, PCs, NotServing, NotStarted, SaidReady
<1> QED
  BY <1>4, <1>5 DEF Readiness

\* A call of stop(): the main thread waits for it with what it has told so far.
LEMMA CallStopKeeps ==
  ASSUME ServiceInv,
         \/ CallStop("unreadyStop", "unready") \/ CallStop("abort", "aborting") \/ CallStop("stop", "drain")
  PROVE  Main' /\ Next
<1>1. /\ StopBegins /\ UNCHANGED <<then, handlers, requested, ready, shutdownRequested, runtimeFailure, events, result>>
      /\ Going = pc
      /\ \/ pc = "unreadyStop" /\ pc' = "unready"
         \/ pc = "abort" /\ pc' = "aborting"
         \/ pc = "stop" /\ pc' = "drain"
  BY DEF CallStop, Going, locals
<1>2. Going' = pc'
  BY <1>1 DEF Going
<1>3. stopping' /\ stop' = "close" /\ UNCHANGED <<listening, serve>>
  BY <1>1 DEF StopBegins, serveVars
<1>4. ServiceTypeOK' /\ HandlersFit'
  BY <1>1 DEF ServiceInv, Main, ServiceTypeOK, HandlersFit, HandlersBack, PCs, NotServing, SaidReady
<1>5. Story'
  BY <1>1, <1>2 DEF ServiceInv, Main, Story, NotServing, NotStarted, SaidReady
<1>6. ServerUse' /\ Reasons'
  BY <1>1, <1>2, <1>3 DEF ServiceInv, Main, ServerUse, Reasons, NotServing, NotStarted, SaidReady
<1> QED
  BY <1>1, <1>4, <1>5, <1>6 DEF Main, Next

LEMMA UnreadyKeeps == ASSUME ServiceInv, Unready PROVE Main' /\ UNCHANGED vars
<1>1. /\ pc = "unready" /\ Going = "unready" /\ pc' = "restoreInt"
      /\ UNCHANGED <<handlers, requested, vars, ready, shutdownRequested, runtimeFailure>>
  BY DEF Unready, LeaveHandlers, Going, locals
<1>2. ~ready /\ ~listening /\ HandlersFit'
  BY <1>1 DEF Unready, Stopped, ServiceInv, ServerInv, Base, ListenerClosed, Main, Story, HandlersFit, HandlersBack, NotServing
<1>3. CASE then' = "abort" /\ UNCHANGED <<events, result>>
  <2>1. Going' = "abort"
    BY <1>1, <1>3 DEF Going
  <2> QED
    BY <1>1, <1>2, <1>3, <2>1, MoveKeeps
       DEF ServiceInv, Main, ServiceTypeOK, PCs, NotServing, NotStarted, SaidReady
<1>4. CASE Emit("startup_failed") /\ result' = "STARTUP_FAILURE" /\ then' = "returned"
  <2>1. Going' = "returned"
    BY <1>1, <1>4 DEF Going
  <2> QED
    BY <1>1, <1>2, <1>4, <2>1, RefuseKeeps, StatusNames DEF Emit, NotServing, PCs
<1> QED
  BY <1>1, <1>3, <1>4 DEF Unready, LeaveHandlers

LEMMA AbortKeeps == ASSUME ServiceInv, Abort PROVE Main' /\ UNCHANGED vars
<1>1. /\ pc = "aborting" /\ Going = "aborting" /\ pc' = "returned" /\ Going' = "returned"
      /\ events' = Append(events, "startup_failed") /\ result' = "STARTUP_FAILURE"
      /\ UNCHANGED <<then, handlers, requested, vars, ready, shutdownRequested, runtimeFailure>>
  BY DEF Abort, Emit, Going, locals
<1>2. ~ready /\ ~listening /\ HandlersFit' /\ then \in {"returned", "abort", "stopping"}
  BY <1>1 DEF Abort, Stopped, ServiceInv, ServerInv, Base, ListenerClosed, Main, ServiceTypeOK, Story, HandlersFit, HandlersBack,
              NotServing
<1> QED
  BY <1>1, <1>2, RefuseKeeps, StatusNames DEF NotServing, PCs

LEMMA StartThreadKeeps == ASSUME ServiceInv, StartThread PROVE Main' /\ [Next]_vars
<1>1. /\ pc = "thread" /\ Going = "thread"
      /\ UNCHANGED <<handlers, requested, ready, shutdownRequested, events, result>>
  BY DEF StartThread, Going
<1>2. ready /\ result = "none" /\ Untold(events) /\ Contains(events, "ready")
  BY <1>1 DEF ServiceInv, Main, Story, SaidReady
<1>3. CASE StartServing /\ pc' = "poll" /\ UNCHANGED <<then, runtimeFailure>>
  <2>1. Going' = "poll"
    BY <1>3 DEF Going
  <2>2. ServiceTypeOK' /\ HandlersFit'
    BY <1>1, <1>3 DEF ServiceInv, Main, ServiceTypeOK, HandlersFit, HandlersBack, PCs, SaidReady
  <2>3. Story' /\ ServerUse' /\ Reasons'
    BY <1>1, <1>2, <2>1 DEF Story, ServerUse, Reasons, NotServing, NotStarted, SaidReady
  <2> QED
    BY <1>3, <2>2, <2>3 DEF Main, Next
<1>4. CASE runtimeFailure' = TRUE /\ LeaveHandlers("stopping") /\ UNCHANGED vars
  <2>1. pc' = "restoreInt" /\ then' = "stopping" /\ Going' = "stopping" /\ HandlersFit'
    BY <1>4 DEF LeaveHandlers, Going, HandlersFit, HandlersBack
  <2> QED
    BY <1>1, <1>4, <2>1, MoveKeeps
       DEF ServiceInv, Main, ServiceTypeOK, PCs, NotServing, NotStarted, SaidReady
<1> QED
  BY <1>3, <1>4 DEF StartThread

\* The loop that waits for the event and looks after the serve thread.
LEMMA PollKeeps == ASSUME ServiceInv, Poll \/ ThreadAlive PROVE Main' /\ UNCHANGED vars
<1>1. /\ pc \in {"poll", "alive"} /\ Going = pc /\ pc' \in {"poll", "alive", "read"} /\ Going' = pc'
      /\ UNCHANGED <<then, handlers, requested, vars, ready, shutdownRequested, events, result>>
      /\ runtimeFailure' \in {runtimeFailure, TRUE}
      /\ pc' = "read" => requested \/ runtimeFailure'
  BY DEF Poll, ThreadAlive, Going, locals
<1>2. HandlersFit'
  BY <1>1 DEF HandlersFit, HandlersBack
<1> QED
  BY <1>1, <1>2, MoveKeeps
     DEF ServiceInv, Main, ServiceTypeOK, PCs, NotServing, NotStarted, SaidReady

\* An event that is neither the first nor the last of a service that was ready.
LEMMA MiddleKeeps ==
  ASSUME ServiceInv, NEW x \in EventNames \ Terminal, x # "ready",
         events' = Append(events, x) \/ UNCHANGED events,
         UNCHANGED <<handlers, requested, vars, ready, runtimeFailure, result>>,
         Going \in SaidReady \ {"thread", "drain"}, Going' \in {"stopping", "stop"},
         pc' \in PCs, then' \in {"returned", "abort", "stopping"}, HandlersFit',
         shutdownRequested' \in BOOLEAN, shutdownRequested' \/ runtimeFailure
  PROVE  Main'
<1>1. events \in Seq(EventNames) /\ Untold(events) /\ ready /\ Contains(events, "ready") /\ result = "none"
  BY DEF ServiceInv, Main, ServiceTypeOK, Story
<1>2. events' \in Seq(EventNames) /\ Untold(events') /\ Contains(events', "ready")
  <2>1. /\ Append(events, x) \in Seq(EventNames) /\ Untold(Append(events, x))
        /\ Contains(Append(events, x), "ready")
    BY <1>1, Telling
  <2> QED
    BY <1>1, <2>1
<1>3. ServiceTypeOK'
  BY <1>2 DEF ServiceInv, Main, ServiceTypeOK
<1>4. Story' /\ ServerUse' /\ Reasons'
  BY <1>1, <1>2 DEF Story, ServerUse, Reasons, NotServing, NotStarted, SaidReady
<1> QED
  BY <1>3, <1>4 DEF Main

LEMMA ReadRequestKeeps == ASSUME ServiceInv, ReadRequest PROVE Main' /\ UNCHANGED vars
<1>1. /\ pc = "read" /\ Going = "read" /\ pc' = "restoreInt" /\ then' = "stopping" /\ Going' = "stopping"
      /\ shutdownRequested' = requested
      /\ events' = Append(events, "shutdown_requested") \/ UNCHANGED events
      /\ UNCHANGED <<handlers, requested, vars, ready, runtimeFailure, result>>
  BY DEF ReadRequest, LeaveHandlers, Emit, Going
<1>2. requested \in BOOLEAN /\ (requested \/ runtimeFailure)
  BY <1>1 DEF ServiceInv, Main, ServiceTypeOK, Reasons
<1>3. HandlersFit'
  BY <1>1 DEF HandlersFit, HandlersBack
<1>4. "shutdown_requested" \in EventNames \ Terminal
  BY DEF EventNames, Terminal
<1> QED
  BY <1>1, <1>2, <1>3, <1>4, MiddleKeeps DEF SaidReady, PCs

LEMMA StoppingKeeps == ASSUME ServiceInv, Stopping PROVE Main' /\ UNCHANGED vars
<1>1. /\ pc = "stopping" /\ Going = "stopping" /\ pc' = "stop" /\ Going' = "stop"
      /\ events' = Append(events, "stopping")
      /\ UNCHANGED <<then, handlers, requested, vars, ready, shutdownRequested, runtimeFailure, result>>
  BY DEF Stopping, Emit, Going, locals
<1>2. /\ shutdownRequested \in BOOLEAN /\ (shutdownRequested \/ runtimeFailure)
      /\ then \in {"returned", "abort", "stopping"}
      /\ HandlersFit'
  BY <1>1 DEF ServiceInv, Main, ServiceTypeOK, Reasons, HandlersFit, HandlersBack
<1>3. "stopping" \in EventNames \ Terminal
  BY DEF EventNames, Terminal
<1> QED
  BY <1>1, <1>2, <1>3, MiddleKeeps DEF SaidReady, PCs

\* The handlers are given back, and the main thread goes where it was going.
LEMMA RestoreKeeps ==
  ASSUME ServiceInv,
         \/ Restore("SIGINT", "restoreInt", "restoreTerm")
         \/ Restore("SIGTERM", "restoreTerm", then)
  PROVE  Main' /\ UNCHANGED vars
<1>1. UNCHANGED <<then, requested, vars, ready, shutdownRequested, runtimeFailure, events, result>>
  BY DEF Restore, locals
<1>2. \E h \in {"previous", "kept"} :
        \/ pc = "restoreInt" /\ pc' = "restoreTerm" /\ handlers' = [handlers EXCEPT !["SIGINT"] = h]
        \/ pc = "restoreTerm" /\ pc' = then /\ handlers' = [handlers EXCEPT !["SIGTERM"] = h]
  BY DEF Restore
<1>3. then \in {"returned", "abort", "stopping"}
  BY DEF ServiceInv, Main, ServiceTypeOK
<1>4. Going' = Going
  BY <1>1, <1>2, <1>3 DEF Going
<1>5. HandlersFit' /\ handlers' \in [Signals -> {"previous", "event", "kept"}]
  BY <1>2, <1>3 DEF ServiceInv, Main, ServiceTypeOK, HandlersFit, HandlersBack, Signals
<1>6. ServiceTypeOK'
  BY <1>1, <1>2, <1>3, <1>5 DEF ServiceInv, Main, ServiceTypeOK, PCs, NotServing, SaidReady
<1>7. UNCHANGED <<listening, serve, stopping, stop, answer>>
  BY <1>1 DEF vars, serveVars, stopVars
<1>8. Story' /\ ServerUse' /\ Reasons'
  BY <1>1, <1>4, <1>7 DEF ServiceInv, Main, Story, ServerUse, Reasons
<1> QED
  BY <1>1, <1>5, <1>6, <1>8 DEF Main

\* The service ends with what stop() said, and with what it was stopped for.
LEMMA StopServiceKeeps == ASSUME ServiceInv, Stop PROVE Main' /\ UNCHANGED vars
<1>1. PICK status \in {"CLEAN_SHUTDOWN", "RUNTIME_FAILURE"} :
        /\ result' = status /\ events' = Append(events, TerminalEvent[status])
        /\ status = "CLEAN_SHUTDOWN" => ~runtimeFailure /\ stop # "raised" /\ answer
  BY StatusNames DEF Stop, Emit
<1>2. /\ pc = "drain" /\ Going = "drain" /\ pc' = "returned" /\ Going' = "returned" /\ Stopped
      /\ UNCHANGED <<then, handlers, requested, vars, ready, shutdownRequested, runtimeFailure>>
  BY DEF Stop, Going, locals
<1>3. /\ events \in Seq(EventNames) /\ Untold(events) /\ ready /\ Contains(events, "ready")
      /\ shutdownRequested \/ runtimeFailure
      /\ stopping /\ ~listening
  BY <1>2 DEF ServiceInv, ServerInv, Base, ListenerClosed, Stopped, Main, ServiceTypeOK, Story, ServerUse, Reasons, SaidReady
<1>4. TerminalEvent[status] \in Terminal /\ TerminalEvent[status] \in EventNames /\ status \in Statuses
  BY StatusNames DEF Terminal, EventNames
<1> DEFINE e == TerminalEvent[status]
<1> HIDE DEF e
<1>5. e \in Terminal /\ e \in EventNames /\ events' = Append(events, e)
  BY <1>1, <1>4 DEF e
<1>6. events' \in Seq(EventNames) /\ Told(events', e) /\ Contains(events', "ready")
  BY <1>3, <1>5, Telling
<1>7. Told(events', TerminalEvent[result'])
  BY <1>1, <1>6 DEF e
<1>8. UNCHANGED <<listening, serve, stopping, stop, answer>>
  BY <1>2 DEF vars, serveVars, stopVars
<1>9. ServiceTypeOK' /\ HandlersFit'
  BY <1>1, <1>2, <1>4, <1>6 DEF ServiceInv, Main, ServiceTypeOK, HandlersFit, HandlersBack, PCs
<1>10. Story'
  BY <1>1, <1>2, <1>3, <1>4, <1>6, <1>7 DEF Story, NotServing, NotStarted, SaidReady
<1>11. ServerUse' /\ Reasons'
  BY <1>1, <1>2, <1>3, <1>8 DEF ServerUse, Reasons, Stopped, NotServing, NotStarted
<1> QED
  BY <1>2, <1>9, <1>10, <1>11 DEF Main
-----------------------------------------------------------------------------
\* Every step of the service is a step of its server, or leaves the server alone.
LEMMA ServiceStepKeeps ==
  ServiceInv /\ [ServiceNext]_serviceVars => ServiceInv' /\ [Next]_vars
<1> SUFFICES ASSUME ServiceInv, [ServiceNext]_serviceVars PROVE Main' /\ [Next]_vars
  BY ServerStepKeeps DEF ServiceInv
<1>1. CASE Parse \/ Check
  BY <1>1, ParseKeeps
<1>2. CASE Install("SIGINT", "installInt", "installTerm") \/ Install("SIGTERM", "installTerm", "start")
  BY <1>2, InstallKeeps
<1>3. CASE StartServer \/ Readiness \/ StartThread
  BY <1>3, StartServerKeeps, ReadinessKeeps, StartThreadKeeps
<1>4. CASE Poll \/ ThreadAlive \/ ReadRequest
  BY <1>4, PollKeeps, ReadRequestKeeps
<1>5. CASE Restore("SIGINT", "restoreInt", "restoreTerm") \/ Restore("SIGTERM", "restoreTerm", then)
  BY <1>5, RestoreKeeps
<1>6. CASE \/ CallStop("unreadyStop", "unready") \/ CallStop("abort", "aborting") \/ CallStop("stop", "drain")
  BY <1>6, CallStopKeeps
<1>7. CASE Unready \/ Abort \/ Stopping \/ Stop
  BY <1>7, UnreadyKeeps, AbortKeeps, StoppingKeeps, StopServiceKeeps
<1>8. CASE Request \/ \E s \in Signals : Signal(s)
  BY <1>8, SignalKeeps
<1>9. CASE Threads
  BY <1>9, BesideKeeps
<1>10. CASE UNCHANGED serviceVars
  <2>1. UNCHANGED vars /\ UNCHANGED service
    BY <1>10 DEF serviceVars
  <2>2. Going' = Going /\ UNCHANGED <<listening, serve, stopping, stop, answer>>
    BY <2>1 DEF service, Going, vars, serveVars, stopVars
  <2>3. Main'
    BY <2>1, <2>2 DEF ServiceInv, Main, ServiceTypeOK, HandlersFit, Story, ServerUse, Reasons, service, locals
  <2> QED
    BY <2>1, <2>3
<1> QED
  BY <1>1, <1>2, <1>3, <1>4, <1>5, <1>6, <1>7, <1>8, <1>9, <1>10 DEF ServiceNext, Service

\* The invariant of the main thread and of the threads beside it holds of every execution.
THEOREM ServiceInvariance == ServiceSpec => []ServiceInv
<1> QED
  BY ServiceInitFits, ServiceStepKeeps, PTL DEF ServiceSpec

\* The service uses its server as UnixServer allows: whatever is true of the server's
\* threads, whoever starts and stops them, is true of them under the service.
THEOREM ServiceRunsServer == ServiceSpec => Spec
<1>1. ServiceInit => Init
  BY DEF ServiceInit
<1> QED
  BY <1>1, ServiceInvariance, ServiceStepKeeps, PTL DEF ServiceSpec, Spec

\* ReportIsTrue: the events, the status and the state of the server tell one story however
\* the service returns, and CLEAN_SHUTDOWN means a request and a drained server, where
\* drained is what TRUE means of stop().
THEOREM ReportsAreTrue == ServiceSpec => []ReportIsTrue
<1>1. ServiceInv => ReportIsTrue
  <2> SUFFICES ASSUME ServiceInv, pc = "returned"
               PROVE  /\ Contains(events, "ready") <=> result \in {"CLEAN_SHUTDOWN", "RUNTIME_FAILURE"}
                      /\ \A i \in DOMAIN events : events[i] \in Terminal <=> i = Len(events)
                      /\ Last(events) = TerminalEvent[result]
                      /\ result = "CLEAN_SHUTDOWN" => shutdownRequested /\ Drained
    BY DEF ReportIsTrue
  <2>1. Going = "returned"
    BY DEF Going
  <2>2. /\ Told(events, TerminalEvent[result])
        /\ Contains(events, "ready") <=> result \in {"CLEAN_SHUTDOWN", "RUNTIME_FAILURE"}
    BY <2>1 DEF ServiceInv, Main, Story
  <2>3. result = "CLEAN_SHUTDOWN" => shutdownRequested /\ Drained
    BY <2>1 DEF ServiceInv, ServerInv, Report, TrueMeansDrained, Main, Reasons
  <2> QED
    BY <2>2, <2>3 DEF Told
<1> QED
  BY <1>1, ServiceInvariance, PTL

\* NothingLeft: the handlers are the caller's again, if signal.signal() took them, and the
\* server is closed and told to stop, on every way by which the service returns.
THEOREM ServiceLeavesNothing == ServiceSpec => []NothingLeft
<1>1. ServiceInv => NothingLeft
  <2> SUFFICES ASSUME ServiceInv, pc = "returned"
               PROVE  /\ \A s \in Signals : handlers[s] # "event"
                      /\ ~listening /\ (serve # "none" => stopping)
    BY DEF NothingLeft
  <2>1. Going = "returned"
    BY DEF Going
  <2>2. \A s \in Signals : handlers[s] # "event"
    BY DEF ServiceInv, Main, HandlersFit, HandlersBack, Signals
  <2> QED
    BY <2>1, <2>2 DEF ServiceInv, Main, ServerUse
<1> QED
  BY <1>1, ServiceInvariance, PTL
=============================================================================
