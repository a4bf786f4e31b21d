------------------------------ MODULE SocketPath ------------------------------
(***************************************************************************)
(* dhan_lean/providers/zerodha/unix_transport.py: the socket path of a     *)
(* UnixHistoricalBrokerServer.  Server processes that are configured with  *)
(* the same path start (bind, chmod, listen), remove what a dead one left, *)
(* stop and crash, each system call a step of its own.                     *)
(***************************************************************************)
EXTENDS Integers, FiniteSets

CONSTANTS Servers, MaxSockets, Inodes,
          Nothing, File, \* the path does not exist, is not a socket
          NoInode         \* no identity

ASSUME EnoughInodes == MaxSockets \in Nat \ {0} /\ Cardinality(Inodes) > Cardinality(Servers) + 1

Sockets == 1..MaxSockets

ASSUME NoSocketInstead == Nothing \notin Sockets /\ File \notin Sockets /\ Nothing # File
ASSUME NoInodeIsNoInode == NoInode \notin Inodes
ASSUME ServersFinite == IsFiniteSet(Servers)

VARIABLES present,  \* the servers that there are in this run
          cleanup,  \* cleanup_stale_socket, the same for all
          path,   \* what is at the path: Nothing, File or the socket bound there
          state,  \* state[k]: what became of socket k
          inode,  \* inode[k]: the inode of the entry that socket k made
          pc,     \* pc[p]: the next system call of server p
          sock,   \* sock[p]: the socket of p, 0 for none
          seen,   \* seen[p]: the identity that the first lstat() saw
          owned,  \* owned[p]: _owned_identity
          began   \* began[p]: history: the sockets that were listening when p's start began

config == <<present, cleanup>>
vars == <<config, path, state, inode, pc, sock, seen, owned, began>>

\* One server or all of them.  There is nothing at the path, a socket that a dead
\* server left, or something else.
Init ==
  /\ present \in {Servers} \cup {{p} : p \in Servers} /\ cleanup \in BOOLEAN
  /\ \E i \in Inodes :
       /\ path \in {Nothing, File, 1}
       /\ state = [k \in Sockets |-> IF k = path THEN "closed" ELSE "unused"]
       /\ inode = [k \in Sockets |-> IF k = path THEN i ELSE NoInode]
  /\ pc = [p \in Servers |-> "off"]
  /\ sock = [p \in Servers |-> 0]
  /\ seen = [p \in Servers |-> NoInode] /\ owned = [p \in Servers |-> NoInode]
  /\ began = [p \in Servers |-> {}]
-----------------------------------------------------------------------------
Goto(p, label) == pc' = [pc EXCEPT ![p] = label]

Listening == {k \in Sockets : state[k] = "listening"}

\* _socket_identity(lstat(path)): device and inode of a socket.
Identity == IF path \in Sockets THEN inode[path] ELSE NoInode

\* An inode number is free again when its entry is gone and its socket is closed.
FreeInodes == Inodes \ {inode[k] : k \in {k \in Sockets : k = path \/ state[k] \in {"bound", "listening"}}}

\* The bound of the model: a start needs a socket that is not used up.
BeforeBind == {"probe", "revalidate", "unlink", "bind"}
SocketLeft == Cardinality({k \in Sockets : state[k] = "unused"}) >
                Cardinality({p \in Servers : pc[p] \in BeforeBind})

\* start() and the first lstat() of _remove_stale_socket.
Start(p) ==
  /\ p \in present /\ pc[p] = "off" /\ SocketLeft
  /\ began' = [began EXCEPT ![p] = Listening]
  /\ seen' = [seen EXCEPT ![p] = Identity]
  /\ Goto(p, IF path = Nothing THEN "bind"
             ELSE IF path = File \/ ~cleanup THEN "failed" ELSE "probe")
  /\ UNCHANGED <<config, path, state, inode, sock, owned>>

\* A probe that could not be queued counts as a refused one.
ProbeFullIsStale(p) ==
  /\ pc[p] = "probe"
  /\ \/ path = Nothing /\ Goto(p, "bind")
     \/ path \in Listening /\ Goto(p, "failed")
     \/ path \in Sockets /\ Goto(p, "revalidate")
  /\ UNCHANGED <<config, path, state, inode, sock, seen, owned, began>>

\* Nothing but a refused connection shows that the entry is stale.  (An entry that is not
\* a socket refuses too.)
Probe(p) ==
  /\ pc[p] = "probe"
  /\ Goto(p, IF path = Nothing THEN "bind" ELSE IF path \in Listening THEN "failed" ELSE "revalidate")
  /\ UNCHANGED <<config, path, state, inode, sock, seen, owned, began>>

\* The identity is compared with the one this server has bound.
RevalidateOwned(p) ==
  /\ pc[p] = "revalidate"
  /\ Goto(p, IF path = Nothing THEN "bind" ELSE IF Identity # owned[p] THEN "failed" ELSE "unlink")
  /\ UNCHANGED <<config, path, state, inode, sock, seen, owned, began>>

Revalidate(p) ==
  /\ pc[p] = "revalidate"
  /\ Goto(p, IF path = Nothing THEN "bind" ELSE IF Identity # seen[p] THEN "failed" ELSE "unlink")
  /\ UNCHANGED <<config, path, state, inode, sock, seen, owned, began>>

\* unlink() does not look at what it removes; it fails if there is nothing.
Unlink(p) ==
  /\ pc[p] = "unlink"
  /\ path' = Nothing
  /\ Goto(p, IF path = Nothing THEN "failed" ELSE "bind")
  /\ UNCHANGED <<config, state, inode, sock, seen, owned, began>>

\* The entry is replaced, as a rename to the path would.
BindOver(p) ==
  /\ pc[p] = "bind"
  /\ \E k \in Sockets, i \in FreeInodes :
       /\ state[k] = "unused" /\ \A l \in Sockets : l < k => state[l] # "unused"
       /\ path' = k
       /\ state' = [state EXCEPT ![k] = "bound"]
       /\ inode' = [inode EXCEPT ![k] = i]
       /\ sock' = [sock EXCEPT ![p] = k]
       /\ Goto(p, "identity")
  /\ UNCHANGED <<config, seen, owned, began>>

\* bind() makes the entry, and fails if there is one.
Bind(p) ==
  /\ pc[p] = "bind"
  /\ IF path # Nothing
     THEN Goto(p, "failed") /\ UNCHANGED <<path, state, inode, sock>>
     ELSE \E k \in Sockets, i \in FreeInodes :
            /\ state[k] = "unused" /\ \A l \in Sockets : l < k => state[l] # "unused"
            /\ path' = k
            /\ state' = [state EXCEPT ![k] = "bound"]
            /\ inode' = [inode EXCEPT ![k] = i]
            /\ sock' = [sock EXCEPT ![p] = k]
            /\ Goto(p, "identity")
  /\ UNCHANGED <<config, seen, owned, began>>

\* The listener is closed; what follows is _cleanup_owned.
Close(p) ==
  /\ state' = [state EXCEPT ![sock[p]] = "closed"]
  /\ sock' = [sock EXCEPT ![p] = 0]
  /\ Goto(p, "cleanup")

\* _bound_identity: whatever is at the path by now.
RememberIdentity(p) ==
  /\ pc[p] = "identity"
  /\ owned' = [owned EXCEPT ![p] = Identity]
  /\ IF Identity = NoInode THEN Close(p) ELSE Goto(p, "chmod") /\ UNCHANGED <<state, sock>>
  /\ UNCHANGED <<config, path, inode, seen, began>>

Chmod(p) ==
  /\ pc[p] = "chmod"
  /\ IF path = Nothing THEN Close(p) ELSE Goto(p, "listen") /\ UNCHANGED <<state, sock>>
  /\ UNCHANGED <<config, path, inode, seen, owned, began>>

Listen(p) ==
  /\ pc[p] = "listen"
  /\ state' = [state EXCEPT ![sock[p]] = "listening"]
  /\ Goto(p, "up")
  /\ UNCHANGED <<config, path, inode, sock, seen, owned, began>>

Stop(p) ==
  /\ pc[p] = "up"
  /\ Close(p)
  /\ UNCHANGED <<config, path, inode, seen, owned, began>>

\* _cleanup_owned: lstat() ...
Cleanup(p) ==
  /\ pc[p] = "cleanup"
  /\ IF owned[p] # NoInode /\ Identity = owned[p]
     THEN Goto(p, "remove") /\ UNCHANGED owned
     ELSE Goto(p, "off") /\ owned' = [owned EXCEPT ![p] = NoInode]
  /\ UNCHANGED <<config, path, state, inode, sock, seen, began>>

\* ... and unlink().
Remove(p) ==
  /\ pc[p] = "remove"
  /\ path' = Nothing
  /\ owned' = [owned EXCEPT ![p] = NoInode]
  /\ Goto(p, "off")
  /\ UNCHANGED <<config, state, inode, sock, seen, began>>

\* The process dies wherever it is; its socket is closed, its entry stays.
Crash(p) ==
  /\ pc[p] # "off"
  /\ state' = [k \in Sockets |-> IF k = sock[p] THEN "closed" ELSE state[k]]
  /\ sock' = [sock EXCEPT ![p] = 0]
  /\ owned' = [owned EXCEPT ![p] = NoInode]
  /\ Goto(p, "off")
  /\ UNCHANGED <<config, path, inode, seen, began>>

Step(p) == \/ Probe(p) \/ Revalidate(p) \/ Unlink(p) \/ Bind(p) \/ RememberIdentity(p)
           \/ Chmod(p) \/ Listen(p) \/ Cleanup(p) \/ Remove(p)

Next == \E p \in Servers : Start(p) \/ Step(p) \/ Stop(p) \/ Crash(p)

Spec == Init /\ [][Next]_vars
-----------------------------------------------------------------------------
\* Without cleanup_stale_socket the path leads to a server from when it is up until it
\* stops, whoever else starts, stops ("owned-only" cleanup, AGENT_HANDOFF.md:60) or
\* crashes, and with inode numbers used again.
UpIsReachable == ~cleanup => \A p \in Servers : pc[p] = "up" => path = sock[p]

\* With cleanup_stale_socket: a start that begins when a server is listening at the path
\* never unlinks its entry while it is, whatever other starts and stops do meanwhile.
EstablishedKept ==
  [][\A p \in Servers : Unlink(p) /\ path \in began[p] => path \notin Listening]_vars

\* With cleanup_stale_socket a server that is alone on the path comes up again after any
\* crash of its own, at whatever step: no start fails, unless there is a file.
AloneNeverFails ==
  cleanup /\ Cardinality(present) = 1 =>
    \A p \in Servers : pc[p] = "failed" => path = File
===============================================================================
