--------------------------- MODULE SocketPath_proof ---------------------------
(***************************************************************************)
(* Proofs about SocketPath, for any finite set of servers and any number   *)
(* of sockets and inode numbers.                                           *)
(***************************************************************************)
EXTENDS SocketPath, FiniteSetTheorems, TLAPS

\* Where a server is that has bound its socket, and until what it bound is gone.
Binding == {"identity", "chmod", "listen"}
Clearing == {"probe", "revalidate", "unlink"}
Holding == Binding \cup {"up"}
Taking == Holding \cup {"cleanup", "remove"}
PCs == {"off", "bind", "failed"} \cup Clearing \cup Taking
States == {"unused", "bound", "listening", "closed"}

TypeOK ==
  /\ present \subseteq Servers /\ cleanup \in BOOLEAN
  /\ path \in Sockets \cup {Nothing, File}
  /\ state \in [Sockets -> States]
  /\ inode \in [Sockets -> Inodes \cup {NoInode}]
  /\ pc \in [Servers -> PCs]
  /\ sock \in [Servers -> Sockets \cup {0}]
  /\ seen \in [Servers -> Inodes \cup {NoInode}] /\ owned \in [Servers -> Inodes \cup {NoInode}]
  /\ began \in [Servers -> SUBSET Sockets]

\* A socket that was bound has an inode, and the one at the path was bound.
Bound ==
  /\ \A k \in Sockets : state[k] # "unused" => inode[k] \in Inodes
  /\ path \in Sockets => state[path] # "unused"

\* A server has its own socket, in the state that its start has brought it to ...
Mine(p) ==
  /\ pc[p] \in Binding => sock[p] \in Sockets /\ state[sock[p]] = "bound"
  /\ pc[p] = "up" => sock[p] \in Sockets /\ state[sock[p]] = "listening"
  /\ pc[p] \notin Holding => sock[p] = 0

\* ... which no other server has.
Apart(p, q) == sock[p] = sock[q] /\ sock[p] # 0 => p = q

\* Only a server that is up listens.
Listens == \A k \in Sockets : state[k] = "listening" => \E p \in Servers : pc[p] = "up" /\ sock[p] = k

\* What was listening when a start began is listening or closed, and is closed when the
\* probe has found nobody at it: a socket that is not at the path does not come back to it.
Began(p) ==
  /\ \A k \in began[p] : state[k] \in {"listening", "closed"}
  /\ pc[p] \in {"revalidate", "unlink"} /\ path \in began[p] => state[path] = "closed"

\* Without cleanup the path belongs to one server, from its bind() to the end of its stop().
Keeps(p) == /\ pc[p] \notin Clearing
            /\ pc[p] \in Taking => path \in Sockets
            /\ pc[p] \in Holding => path = sock[p]
OnlyOne(p, q) == pc[p] \in Taking /\ pc[q] \in Taking => p = q
Kept == ~cleanup => /\ \A p \in Servers : Keeps(p)
                    /\ \A p, q \in Servers : OnlyOne(p, q)

\* A server that is alone finds at each step what it found at the last.
Absent == \A p \in Servers : p \notin present => pc[p] = "off"
Finds(p) ==
  /\ pc[p] \in Clearing => path \in Sockets /\ seen[p] = inode[path]
  /\ pc[p] = "bind" => path = Nothing
  /\ pc[p] = "failed" => path = File
Alone == cleanup => \A p \in Servers : present = {p} => Finds(p)

IInv ==
  /\ TypeOK /\ Bound /\ (\A p \in Servers : Mine(p)) /\ (\A p, q \in Servers : Apart(p, q))
  /\ Listens /\ (\A p \in Servers : Began(p)) /\ Kept /\ Absent /\ Alone
-----------------------------------------------------------------------------
LEMMA InitFits == Init => IInv
<1> SUFFICES ASSUME Init PROVE IInv
  OBVIOUS
<1>1. PICK i \in Inodes : /\ path \in {Nothing, File, 1}
                          /\ state = [k \in Sockets |-> IF k = path THEN "closed" ELSE "unused"]
                          /\ inode = [k \in Sockets |-> IF k = path THEN i ELSE NoInode]
  BY DEF Init
<1>2. path \in Sockets \cup {Nothing, File} /\ 1 \in Sockets
  BY <1>1, EnoughInodes DEF Sockets
<1>3. /\ state \in [Sockets -> States] /\ inode \in [Sockets -> Inodes \cup {NoInode}]
      /\ \A k \in Sockets : state[k] # "listening" /\ (state[k] # "unused" => k = path /\ inode[k] \in Inodes)
      /\ path \in Sockets => state[path] = "closed"
  BY <1>1 DEF States
<1>4. /\ pc = [p \in Servers |-> "off"] /\ sock = [p \in Servers |-> 0] /\ began = [p \in Servers |-> {}]
      /\ seen = [p \in Servers |-> NoInode] /\ owned = [p \in Servers |-> NoInode]
      /\ present \subseteq Servers /\ cleanup \in BOOLEAN
  BY DEF Init
<1>5. TypeOK
  BY <1>2, <1>3, <1>4 DEF TypeOK, PCs
<1>6. /\ Bound /\ Listens /\ Kept /\ Absent /\ Alone
      /\ \A p \in Servers : Mine(p) /\ Began(p)
      /\ \A p, q \in Servers : Apart(p, q)
  BY <1>3, <1>4 DEF Bound, Listens, Kept, Keeps, OnlyOne, Absent, Alone, Finds, Mine, Began, Apart,
                    Clearing, Taking, Holding, Binding
<1> QED
  BY <1>5, <1>6 DEF IInv

\* A step that leaves the path and the sockets: what remains is about where it goes.
LEMMA MoveKeeps ==
  ASSUME IInv, NEW p \in Servers, NEW l \in PCs, pc' = [pc EXCEPT ![p] = l],
         UNCHANGED <<config, path, state, inode, sock>>,
         seen' \in [Servers -> Inodes \cup {NoInode}], owned' \in [Servers -> Inodes \cup {NoInode}],
         began' \in [Servers -> SUBSET Sockets],
         \A q \in Servers \ {p} : seen'[q] = seen[q] /\ began'[q] = began[q],
         l \in Binding <=> pc[p] \in Binding, l # "up", pc[p] # "up",
         Began(p)', ~cleanup => l \notin Clearing /\ (l \in Taking => pc[p] \in Taking),
         p \in present, cleanup /\ present = {p} => Finds(p)'
  PROVE  IInv'
<1> USE DEF IInv
<1>1. TypeOK'
  BY DEF TypeOK, config
<1>2. Bound'
  BY DEF Bound
<1>3. \A q \in Servers : pc[q] \in PCs /\ pc'[q] = IF q = p THEN l ELSE pc[q]
  BY DEF TypeOK
<1>4. (\A q \in Servers : Mine(q)') /\ (\A q, r \in Servers : Apart(q, r)')
  BY <1>3 DEF Mine, Apart, Holding
<1>5. Listens'
  BY <1>3 DEF Listens
<1>6. \A q \in Servers : Began(q)'
  <2> SUFFICES ASSUME NEW q \in Servers \ {p} PROVE Began(q)'
    OBVIOUS
  <2>1. Began(q) /\ pc'[q] = pc[q] /\ began'[q] = began[q]
    BY <1>3
  <2> QED
    BY <2>1 DEF Began
<1>7. Kept'
  BY <1>3 DEF Kept, Keeps, OnlyOne, Holding, config
<1>8. Absent'
  BY <1>3 DEF Absent, config
<1>9. Alone'
  <2> SUFFICES ASSUME cleanup, NEW q \in Servers, present = {q} PROVE Finds(q)'
    BY DEF Alone, config
  <2> QED
    OBVIOUS
<1> QED
  BY <1>1, <1>2, <1>4, <1>5, <1>6, <1>7, <1>8, <1>9

\* The socket of a server is closed, by its stop() or by its death.
LEMMA CloseKeeps ==
  ASSUME IInv, NEW p \in Servers, NEW l \in {"off", "cleanup"}, pc' = [pc EXCEPT ![p] = l],
         state' = [k \in Sockets |-> IF k = sock[p] THEN "closed" ELSE state[k]],
         sock' = [sock EXCEPT ![p] = 0],
         UNCHANGED <<config, path, inode, seen, began>>, owned' \in [Servers -> Inodes \cup {NoInode}],
         l = "off" \/ pc[p] \in Holding, p \in present
  PROVE  IInv'
<1> USE DEF IInv
<1>1. l \in PCs \ (Holding \cup Clearing \cup {"bind", "failed"})
  BY DEF PCs, Holding, Binding, Clearing, Taking
<1>2. \A q \in Servers : pc[q] \in PCs /\ pc'[q] = IF q = p THEN l ELSE pc[q]
  BY DEF TypeOK
<1>3. \A q \in Servers : sock[q] \in Sockets \cup {0} /\ sock'[q] = IF q = p THEN 0 ELSE sock[q]
  BY DEF TypeOK
<1>4. 0 \notin Sockets
  BY DEF Sockets
<1>5. \A k \in Sockets : /\ state'[k] = IF k = sock[p] THEN "closed" ELSE state[k]
                         /\ k = sock[p] => state[k] \in {"bound", "listening"}
  BY <1>4 DEF Mine, Holding
<1>6. TypeOK'
  BY <1>1, <1>5 DEF TypeOK, config, States
<1>7. Bound'
  BY <1>5 DEF Bound
<1>8. (\A q \in Servers : Mine(q)') /\ (\A q, r \in Servers : Apart(q, r)')
  BY <1>1, <1>2, <1>3, <1>4, <1>5 DEF Mine, Apart, Holding
<1>9. Listens'
  BY <1>2, <1>3, <1>4, <1>5 DEF Listens
<1>10. \A q \in Servers : Began(q)'
  <2> SUFFICES ASSUME NEW q \in Servers PROVE Began(q)'
    OBVIOUS
  <2>1. began[q] \subseteq Sockets /\ began'[q] = began[q] /\ Began(q)
    BY DEF TypeOK
  <2> QED
    BY <1>1, <1>2, <1>5, <2>1 DEF Began, Clearing
<1>11. Kept'
  BY <1>1, <1>2, <1>3 DEF Kept, Keeps, OnlyOne, config, Taking, Holding
<1>12. Absent'
  BY <1>2 DEF Absent, config
<1>13. Alone'
  <2> SUFFICES ASSUME cleanup, NEW q \in Servers, present = {q} PROVE Finds(q)'
    BY DEF Alone, config
  <2> QED
    BY <1>1, <1>2 DEF Finds
<1> QED
  BY <1>6, <1>7, <1>8, <1>9, <1>10, <1>11, <1>12, <1>13

\* The entry is removed, by a server that thinks it stale or its own.
LEMMA RemoveKeeps ==
  ASSUME IInv, NEW p \in Servers, NEW l \in {"off", "bind", "failed"}, pc' = [pc EXCEPT ![p] = l],
         path' = Nothing, UNCHANGED <<config, state, inode, sock, seen, began>>,
         owned' \in [Servers -> Inodes \cup {NoInode}],
         pc[p] \in {"unlink", "remove"}, l = "failed" => path = Nothing /\ pc[p] = "unlink", p \in present
  PROVE  IInv'
<1> USE DEF IInv
<1>1. l \in PCs \ (Holding \cup Clearing \cup Taking) /\ pc[p] \notin Holding
  BY DEF PCs, Holding, Binding, Clearing, Taking
<1>2. \A q \in Servers : pc[q] \in PCs /\ pc'[q] = IF q = p THEN l ELSE pc[q]
  BY DEF TypeOK
<1>3. TypeOK' /\ Bound'
  BY <1>1, NoSocketInstead DEF TypeOK, Bound, config
<1>4. (\A q \in Servers : Mine(q)') /\ (\A q, r \in Servers : Apart(q, r)')
  BY <1>1, <1>2 DEF Mine, Apart, Holding
<1>5. Listens'
  BY <1>1, <1>2 DEF Listens, Holding
<1>6. \A q \in Servers : Began(q)'
  <2> SUFFICES ASSUME NEW q \in Servers PROVE Began(q)'
    OBVIOUS
  <2>1. began[q] \subseteq Sockets /\ began'[q] = began[q] /\ Began(q)
    BY DEF TypeOK
  <2> QED
    BY <2>1, NoSocketInstead DEF Began
<1>7. Kept'
  <2> SUFFICES ASSUME ~cleanup
               PROVE  (\A q \in Servers : Keeps(q)') /\ (\A q, r \in Servers : OnlyOne(q, r)')
    BY DEF Kept, config
  <2>1. pc[p] \in Taking
    BY DEF Kept, Keeps, Clearing, Taking
  <2>2. \A q \in Servers : pc'[q] \notin Taking
    BY <1>1, <1>2, <2>1 DEF Kept, OnlyOne
  <2>3. \A q \in Servers : pc'[q] \notin Clearing
    BY <1>1, <1>2 DEF Kept, Keeps
  <2> QED
    BY <2>2, <2>3 DEF Keeps, OnlyOne, Taking
<1>8. Absent'
  BY <1>2 DEF Absent, config
<1>9. Alone'
  <2> SUFFICES ASSUME cleanup, NEW q \in Servers, present = {q} PROVE Finds(q)'
    BY DEF Alone, config
  <2>1. q = p /\ Finds(p)
    BY DEF Alone
  <2> QED
    BY <1>1, <1>2, <2>1, NoSocketInstead DEF Finds, Clearing
<1> QED
  BY <1>3, <1>4, <1>5, <1>6, <1>7, <1>8, <1>9
-----------------------------------------------------------------------------
\* Who takes a step is there.
LEMMA Active == ASSUME IInv, NEW p \in Servers, pc[p] # "off" PROVE p \in present
BY DEF IInv, Absent

LEMMA StartKeeps == ASSUME IInv, NEW p \in Servers, Start(p) PROVE IInv'
<1> DEFINE l == IF path = Nothing THEN "bind" ELSE IF path = File \/ ~cleanup THEN "failed" ELSE "probe"
<1>1. /\ l \in {"bind", "failed", "probe"}
      /\ ~cleanup => l # "probe"
      /\ cleanup => /\ l = "probe" => path # Nothing /\ path # File
                    /\ l = "bind" => path = Nothing
                    /\ l = "failed" => path = File
  OBVIOUS
<1>2. pc' = [pc EXCEPT ![p] = l]
  BY DEF Start, Goto
<1> HIDE DEF l
<1>3. /\ p \in present /\ pc[p] = "off" /\ UNCHANGED <<config, path, state, inode, sock, owned>>
      /\ began' = [began EXCEPT ![p] = Listening] /\ seen' = [seen EXCEPT ![p] = Identity]
  BY DEF Start
<1>4. Identity \in Inodes \cup {NoInode} /\ Listening \subseteq Sockets /\ path \in Sockets \cup {Nothing, File}
  BY DEF IInv, TypeOK, Identity, Listening
<1>5. /\ seen' \in [Servers -> Inodes \cup {NoInode}] /\ owned' \in [Servers -> Inodes \cup {NoInode}]
      /\ began' \in [Servers -> SUBSET Sockets] /\ began'[p] = Listening /\ seen'[p] = Identity /\ pc'[p] = l
      /\ \A q \in Servers \ {p} : seen'[q] = seen[q] /\ began'[q] = began[q]
  BY <1>2, <1>3, <1>4 DEF IInv, TypeOK
<1>6. Began(p)'
  BY <1>1, <1>3, <1>5 DEF Began, Listening
<1>7. cleanup => Finds(p)'
  BY <1>1, <1>3, <1>4, <1>5 DEF Finds, Clearing, Identity
<1> QED
  BY <1>1, <1>2, <1>3, <1>5, <1>6, <1>7, MoveKeeps DEF PCs, Clearing, Taking, Holding, Binding

\* A step of p that changes nothing but where it is.
LEMMA GoKeeps ==
  ASSUME IInv, NEW p \in Servers, NEW l \in PCs, Goto(p, l),
         UNCHANGED <<config, path, state, inode, sock, seen, owned, began>>,
         pc[p] # "off", pc[p] # "up", l # "up", l \in Binding <=> pc[p] \in Binding,
         l \in {"revalidate", "unlink"} /\ path \in began[p] => state[path] = "closed",
         ~cleanup => l \notin Clearing /\ (l \in Taking => pc[p] \in Taking),
         cleanup /\ present = {p} => Finds(p)'
  PROVE  IInv'
<1>1. pc' = [pc EXCEPT ![p] = l] /\ pc'[p] = l
  BY DEF Goto, IInv, TypeOK
<1>2. /\ seen' \in [Servers -> Inodes \cup {NoInode}] /\ owned' \in [Servers -> Inodes \cup {NoInode}]
      /\ began' \in [Servers -> SUBSET Sockets]
      /\ \A q \in Servers \ {p} : seen'[q] = seen[q] /\ began'[q] = began[q]
  BY DEF IInv, TypeOK
<1>3. Began(p)'
  BY <1>1 DEF IInv, Began
<1> QED
  BY <1>1, <1>2, <1>3, Active, MoveKeeps

LEMMA ProbeKeeps == ASSUME IInv, NEW p \in Servers, Probe(p) PROVE IInv'
<1> DEFINE l == IF path = Nothing THEN "bind" ELSE IF path \in Listening THEN "failed" ELSE "revalidate"
<1>1. /\ l \in {"bind", "failed", "revalidate"}
      /\ l = "bind" => path = Nothing
      /\ l = "failed" => path \in Listening
      /\ l = "revalidate" => path \notin Listening
  OBVIOUS
<1>2. Goto(p, l)
  BY DEF Probe
<1> HIDE DEF l
<1>3. pc[p] = "probe" /\ pc'[p] = l /\ UNCHANGED <<config, path, state, inode, sock, seen, owned, began>>
  BY <1>2 DEF Probe, Goto, IInv, TypeOK
<1>4. cleanup
  BY <1>3 DEF IInv, Kept, Keeps, Clearing
<1>5. l = "revalidate" /\ path \in began[p] => state[path] = "closed"
  BY <1>1 DEF IInv, TypeOK, Began, Listening
<1>6. ASSUME present = {p} PROVE Finds(p)'
  <2>1. path \in Sockets /\ seen[p] = inode[path]
    BY <1>3, <1>4, <1>6 DEF IInv, Alone, Finds, Clearing
  <2>2. path \notin Listening
    BY <1>3, <1>6 DEF Listening, IInv, Listens, Absent
  <2> QED
    BY <1>1, <1>3, <2>1, <2>2 DEF Finds, Clearing
<1> QED
  BY <1>1, <1>2, <1>3, <1>4, <1>5, <1>6, GoKeeps DEF PCs, Clearing, Binding

LEMMA RevalidateKeeps == ASSUME IInv, NEW p \in Servers, Revalidate(p) PROVE IInv'
<1> DEFINE l == IF path = Nothing THEN "bind" ELSE IF Identity # seen[p] THEN "failed" ELSE "unlink"
<1>1. /\ l \in {"bind", "failed", "unlink"}
      /\ l = "bind" => path = Nothing
      /\ l = "failed" => Identity # seen[p]
  OBVIOUS
<1>2. Goto(p, l)
  BY DEF Revalidate
<1> HIDE DEF l
<1>3. pc[p] = "revalidate" /\ pc'[p] = l /\ UNCHANGED <<config, path, state, inode, sock, seen, owned, began>>
  BY <1>2 DEF Revalidate, Goto, IInv, TypeOK
<1>4. cleanup
  BY <1>3 DEF IInv, Kept, Keeps, Clearing
<1>5. path \in began[p] => state[path] = "closed"
  BY <1>3 DEF IInv, Began
<1>6. ASSUME present = {p} PROVE Finds(p)'
  <2>1. path \in Sockets /\ seen[p] = inode[path]
    BY <1>3, <1>4, <1>6 DEF IInv, Alone, Finds, Clearing
  <2> QED
    BY <1>1, <1>3, <2>1 DEF Finds, Clearing, Identity
<1> QED
  BY <1>1, <1>2, <1>3, <1>4, <1>5, <1>6, GoKeeps DEF PCs, Clearing, Binding

LEMMA UnlinkKeeps == ASSUME IInv, NEW p \in Servers, Unlink(p) PROVE IInv'
<1> DEFINE l == IF path = Nothing THEN "failed" ELSE "bind"
<1>1. l \in {"off", "bind", "failed"} /\ (l = "failed" => path = Nothing)
  OBVIOUS
<1>2. /\ pc[p] = "unlink" /\ pc' = [pc EXCEPT ![p] = l] /\ path' = Nothing
      /\ UNCHANGED <<config, state, inode, sock, seen, owned, began>>
  BY DEF Unlink, Goto
<1> HIDE DEF l
<1>3. owned' \in [Servers -> Inodes \cup {NoInode}]
  BY <1>2 DEF IInv, TypeOK
<1> QED
  BY <1>1, <1>2, <1>3, Active, RemoveKeeps

\* bind() gives a server a socket that nobody has had, at a path where nothing was.
LEMMA BindKeeps == ASSUME IInv, NEW p \in Servers, Bind(p) PROVE IInv'
<1>1. pc[p] = "bind" /\ UNCHANGED <<config, seen, owned, began>>
  BY DEF Bind
<1>2. CASE path # Nothing /\ Goto(p, "failed") /\ UNCHANGED <<path, state, inode, sock>>
  <2>1. ~(cleanup /\ present = {p})
    BY <1>1, <1>2 DEF IInv, Alone, Finds
  <2> QED
    BY <1>1, <1>2, <2>1, GoKeeps DEF PCs, Clearing, Taking, Holding, Binding
<1>3. CASE path = Nothing /\ ~(path # Nothing /\ Goto(p, "failed"))
  <2>1. PICK k \in Sockets, i \in FreeInodes :
          /\ state[k] = "unused" /\ path' = k /\ state' = [state EXCEPT ![k] = "bound"]
          /\ inode' = [inode EXCEPT ![k] = i] /\ sock' = [sock EXCEPT ![p] = k]
          /\ pc' = [pc EXCEPT ![p] = "identity"]
    BY <1>3 DEF Bind, Goto
  <2> USE DEF IInv
  <2>2. i \in Inodes /\ k # 0
    BY DEF FreeInodes, Sockets
  <2>3. \A q \in Servers : pc[q] \in PCs /\ pc'[q] = IF q = p THEN "identity" ELSE pc[q]
    BY <2>1 DEF TypeOK
  <2>4. \A q \in Servers : sock[q] \in Sockets \cup {0} /\ sock'[q] = IF q = p THEN k ELSE sock[q]
    BY <2>1 DEF TypeOK
  <2>5. /\ \A j \in Sockets : state'[j] = (IF j = k THEN "bound" ELSE state[j])
      /\ \A j \in Sockets : inode'[j] = (IF j = k THEN i ELSE inode[j])
    BY <2>1 DEF TypeOK
  <2>6. \A q \in Servers : sock[q] # k
    BY <2>1, <2>2, <2>4 DEF Mine, Holding
  <2>7. TypeOK'
    BY <1>1, <2>1, <2>2 DEF TypeOK, PCs, Taking, Holding, Binding, States, config
  <2>8. Bound'
    BY <2>1, <2>2, <2>5 DEF Bound
  <2>9. (\A q \in Servers : Mine(q)') /\ (\A q, r \in Servers : Apart(q, r)')
    BY <1>1, <2>1, <2>3, <2>4, <2>5, <2>6 DEF Mine, Apart, Holding, Binding
  <2>10. Listens'
    BY <1>1, <2>1, <2>3, <2>4, <2>5 DEF Listens
  <2>11. \A q \in Servers : Began(q)'
    <3> SUFFICES ASSUME NEW q \in Servers PROVE Began(q)'
      OBVIOUS
    <3>1. began[q] \subseteq Sockets /\ began'[q] = began[q] /\ Began(q) /\ k \notin began[q]
      BY <1>1, <2>1 DEF TypeOK, Began
    <3> QED
      BY <2>1, <2>5, <3>1 DEF Began
  <2>12. Kept'
    <3> SUFFICES ASSUME ~cleanup
                 PROVE  (\A q \in Servers : Keeps(q)') /\ (\A q, r \in Servers : OnlyOne(q, r)')
      BY <1>1 DEF Kept, config
    <3>1. \A q \in Servers : pc[q] \notin Taking /\ pc[q] \notin Clearing
      BY <1>3, NoSocketInstead DEF Kept, Keeps
    <3> QED
      BY <2>1, <2>3, <2>4, <3>1 DEF Keeps, OnlyOne, Taking, Clearing, Holding, Binding
  <2>13. Absent'
    BY <1>1, <2>3 DEF Absent, config
  <2>14. Alone'
    <3> SUFFICES ASSUME cleanup, NEW q \in Servers, present = {q} PROVE Finds(q)'
      BY <1>1 DEF Alone, config
    <3>1. q = p
      BY <1>1 DEF Absent
    <3> QED
      BY <2>3, <3>1 DEF Finds, Clearing
  <2> QED
    BY <2>7, <2>8, <2>9, <2>10, <2>11, <2>12, <2>13, <2>14
<1> QED
  BY <1>2, <1>3 DEF Bind

LEMMA ClosesSocket ==
  ASSUME IInv, NEW p \in Servers, Close(p), pc[p] \in Holding, UNCHANGED <<config, path, inode, seen, began>>,
         owned' \in [Servers -> Inodes \cup {NoInode}]
  PROVE  IInv'
<1>1. pc' = [pc EXCEPT ![p] = "cleanup"] /\ sock' = [sock EXCEPT ![p] = 0]
  BY DEF Close, Goto
<1>2. state' = [k \in Sockets |-> IF k = sock[p] THEN "closed" ELSE state[k]]
  BY DEF Close, IInv, TypeOK
<1>3. p \in present
  BY Active DEF Holding, Binding
<1> QED
  BY <1>1, <1>2, <1>3, CloseKeeps

LEMMA IdentityKeeps == ASSUME IInv, NEW p \in Servers, RememberIdentity(p) PROVE IInv'
<1>1. /\ pc[p] = "identity" /\ UNCHANGED <<config, path, inode, seen, began>>
      /\ owned' = [owned EXCEPT ![p] = Identity]
  BY DEF RememberIdentity
<1>2. Identity \in Inodes \cup {NoInode}
  BY DEF IInv, TypeOK, Identity
<1>3. owned' \in [Servers -> Inodes \cup {NoInode}]
  BY <1>1, <1>2 DEF IInv, TypeOK
<1>4. CASE Close(p)
  BY <1>1, <1>3, <1>4, ClosesSocket DEF Holding, Binding
<1>5. CASE Goto(p, "chmod") /\ UNCHANGED <<state, sock>>
  <2>1. pc' = [pc EXCEPT ![p] = "chmod"] /\ pc'[p] = "chmod"
    BY <1>5 DEF Goto, IInv, TypeOK
  <2>2. /\ seen' \in [Servers -> Inodes \cup {NoInode}] /\ began' \in [Servers -> SUBSET Sockets]
        /\ \A q \in Servers \ {p} : seen'[q] = seen[q] /\ began'[q] = began[q]
    BY <1>1 DEF IInv, TypeOK
  <2>3. Began(p)'
    BY <1>1, <1>5, <2>1 DEF IInv, Began
  <2>4. Finds(p)'
    BY <2>1 DEF Finds, Clearing
  <2> QED
    BY <1>1, <1>3, <1>5, <2>1, <2>2, <2>3, <2>4, Active, MoveKeeps
       DEF PCs, Clearing, Taking, Holding, Binding
<1> QED
  BY <1>4, <1>5 DEF RememberIdentity

LEMMA ChmodKeeps == ASSUME IInv, NEW p \in Servers, Chmod(p) PROVE IInv'
<1>1. pc[p] = "chmod" /\ UNCHANGED <<config, path, inode, seen, owned, began>>
  BY DEF Chmod
<1>2. owned' \in [Servers -> Inodes \cup {NoInode}]
  BY <1>1 DEF IInv, TypeOK
<1>3. CASE Close(p)
  BY <1>1, <1>2, <1>3, ClosesSocket DEF Holding, Binding
<1>4. CASE Goto(p, "listen") /\ UNCHANGED <<state, sock>>
  <2>1. pc'[p] = "listen"
    BY <1>4 DEF Goto, IInv, TypeOK
  <2> QED
    BY <1>1, <1>4, <2>1, GoKeeps DEF PCs, Clearing, Taking, Holding, Binding, Finds
<1> QED
  BY <1>3, <1>4 DEF Chmod

\* The socket at the path, or elsewhere by now, listens from here on.
LEMMA ListenKeeps == ASSUME IInv, NEW p \in Servers, Listen(p) PROVE IInv'
<1> USE DEF IInv
<1>1. /\ pc[p] = "listen" /\ pc' = [pc EXCEPT ![p] = "up"]
      /\ state' = [state EXCEPT ![sock[p]] = "listening"]
      /\ UNCHANGED <<config, path, inode, sock, seen, owned, began>>
  BY DEF Listen, Goto
<1>2. sock[p] \in Sockets /\ state[sock[p]] = "bound"
  BY <1>1 DEF Mine, Binding
<1>3. \A q \in Servers : pc[q] \in PCs /\ pc'[q] = IF q = p THEN "up" ELSE pc[q]
  BY <1>1 DEF TypeOK
<1>4. \A k \in Sockets : state'[k] = IF k = sock[p] THEN "listening" ELSE state[k]
  BY <1>1 DEF TypeOK
<1>5. TypeOK'
  BY <1>1 DEF TypeOK, PCs, Taking, Holding, States, config
<1>6. Bound'
  BY <1>1, <1>2, <1>4 DEF Bound
<1>7. (\A q \in Servers : Mine(q)') /\ (\A q, r \in Servers : Apart(q, r)')
  <2>1. 0 \notin Sockets
    BY DEF Sockets
  <2> QED
    BY <1>1, <1>2, <1>3, <1>4, <2>1 DEF Mine, Apart, Holding, Binding
<1>8. Listens'
  BY <1>1, <1>2, <1>3, <1>4 DEF Listens
<1>9. \A q \in Servers : Began(q)'
  <2> SUFFICES ASSUME NEW q \in Servers PROVE Began(q)'
    OBVIOUS
  <2>1. began[q] \subseteq Sockets /\ began'[q] = began[q] /\ Began(q) /\ sock[p] \notin began[q]
    BY <1>1, <1>2 DEF TypeOK, Began
  <2> QED
    BY <1>1, <1>3, <1>4, <2>1 DEF Began
<1>10. Kept'
  BY <1>1, <1>3 DEF Kept, Keeps, OnlyOne, config, Clearing, Taking, Holding, Binding
<1>11. Absent'
  BY <1>1, <1>3 DEF Absent, config
<1>12. Alone'
  <2> SUFFICES ASSUME cleanup, NEW q \in Servers, present = {q} PROVE Finds(q)'
    BY <1>1 DEF Alone, config
  <2>1. Finds(q)
    BY DEF Alone
  <2> QED
    BY <1>1, <1>3, <2>1 DEF Finds, Clearing
<1> QED
  BY <1>5, <1>6, <1>7, <1>8, <1>9, <1>10, <1>11, <1>12

LEMMA StopKeeps == ASSUME IInv, NEW p \in Servers, Stop(p) PROVE IInv'
<1>1. pc[p] = "up" /\ Close(p) /\ UNCHANGED <<config, path, inode, seen, owned, began>>
  BY DEF Stop
<1>2. owned' \in [Servers -> Inodes \cup {NoInode}]
  BY <1>1 DEF IInv, TypeOK
<1> QED
  BY <1>1, <1>2, ClosesSocket DEF Holding

LEMMA CleanupKeeps == ASSUME IInv, NEW p \in Servers, Cleanup(p) PROVE IInv'
<1>1. /\ pc[p] = "cleanup" /\ UNCHANGED <<config, path, state, inode, sock, seen, began>>
      /\ owned' \in [Servers -> Inodes \cup {NoInode}]
  BY DEF Cleanup, IInv, TypeOK
<1>2. PICK l \in {"remove", "off"} : pc' = [pc EXCEPT ![p] = l]
  BY DEF Cleanup, Goto
<1>3. /\ seen' \in [Servers -> Inodes \cup {NoInode}] /\ began' \in [Servers -> SUBSET Sockets]
      /\ \A q \in Servers \ {p} : seen'[q] = seen[q] /\ began'[q] = began[q]
      /\ pc'[p] = l
  BY <1>1, <1>2 DEF IInv, TypeOK
<1>4. Began(p)'
  BY <1>1, <1>3 DEF IInv, Began
<1>5. Finds(p)'
  BY <1>3 DEF Finds, Clearing
<1> QED
  BY <1>1, <1>2, <1>3, <1>4, <1>5, Active, MoveKeeps DEF PCs, Clearing, Taking, Holding, Binding

LEMMA RemoveOwnKeeps == ASSUME IInv, NEW p \in Servers, Remove(p) PROVE IInv'
<1>1. /\ pc[p] = "remove" /\ pc' = [pc EXCEPT ![p] = "off"] /\ path' = Nothing
      /\ owned' \in [Servers -> Inodes \cup {NoInode}] /\ UNCHANGED <<config, state, inode, sock, seen, began>>
  BY DEF Remove, Goto, IInv, TypeOK
<1> QED
  BY <1>1, Active, RemoveKeeps

LEMMA CrashKeeps == ASSUME IInv, NEW p \in Servers, Crash(p) PROVE IInv'
<1>1. /\ pc[p] # "off" /\ pc' = [pc EXCEPT ![p] = "off"] /\ sock' = [sock EXCEPT ![p] = 0]
      /\ state' = [k \in Sockets |-> IF k = sock[p] THEN "closed" ELSE state[k]]
      /\ owned' \in [Servers -> Inodes \cup {NoInode}] /\ UNCHANGED <<config, path, inode, seen, began>>
  BY DEF Crash, Goto, IInv, TypeOK
<1> QED
  BY <1>1, Active, CloseKeeps
-----------------------------------------------------------------------------
LEMMA StepKeeps == IInv /\ [Next]_vars => IInv'
<1> SUFFICES ASSUME IInv, [Next]_vars PROVE IInv'
  OBVIOUS
<1>1. ASSUME NEW p \in Servers, Start(p) \/ Step(p) \/ Stop(p) \/ Crash(p) PROVE IInv'
  BY <1>1, StartKeeps, ProbeKeeps, RevalidateKeeps, UnlinkKeeps, BindKeeps, IdentityKeeps, ChmodKeeps, ListenKeeps,
     CleanupKeeps, RemoveOwnKeeps, StopKeeps, CrashKeeps DEF Step
<1>2. CASE UNCHANGED vars
  BY <1>2 DEF vars, config, IInv, TypeOK, Bound, Mine, Apart, Listens, Began, Kept, Keeps, OnlyOne, Absent, Alone, Finds
<1> QED
  BY <1>1, <1>2 DEF Next

\* What the proofs below rest on holds of every state, however the servers race.
THEOREM Invariance == Spec => []IInv
<1> QED
  BY InitFits, StepKeeps, PTL DEF Spec

\* UpIsReachable: without cleanup_stale_socket no start, stop or crash of any other server
\* takes the path from a server that is up.
THEOREM UpServersAreReachable == Spec => []UpIsReachable
<1>1. IInv => UpIsReachable
  BY DEF IInv, Kept, Keeps, Holding, UpIsReachable
<1> QED
  BY <1>1, Invariance, PTL

\* Without cleanup_stale_socket two servers are never up at the same path.
OneUp == ~cleanup => \A p, q \in Servers : pc[p] = "up" /\ pc[q] = "up" => p = q

\* Without cleanup_stale_socket at most one server is up, whatever starts and crashes.
THEOREM OneServerUp == Spec => []OneUp
<1>1. IInv => OneUp
  BY DEF IInv, Kept, OnlyOne, Taking, Holding, OneUp
<1> QED
  BY <1>1, Invariance, PTL

\* EstablishedKept: with cleanup_stale_socket no start unlinks the entry of a server that
\* was listening when the start began and still is.
THEOREM EstablishedServersStay == Spec => EstablishedKept
<1>1. IInv => (\A p \in Servers : Unlink(p) /\ path \in began[p] => path \notin Listening)
  BY DEF IInv, Began, Unlink, Listening
<1> QED
  BY <1>1, Invariance, PTL DEF EstablishedKept

\* AloneNeverFails: with cleanup_stale_socket a server that is alone on its path comes up
\* after any crash of its own, unless there is a file that is not a socket.
THEOREM AloneComesUp == Spec => []AloneNeverFails
<1>1. IInv => AloneNeverFails
  <2> SUFFICES ASSUME IInv, cleanup, Cardinality(present) = 1, NEW p \in Servers, pc[p] = "failed"
               PROVE  path = File
    BY DEF AloneNeverFails
  <2>1. IsFiniteSet(present)
    BY ServersFinite, FS_Subset DEF IInv, TypeOK
  <2>2. PICK x : present = {x}
    BY <2>1, FS_Singleton
  <2>3. present = {p}
    BY <2>2, Active
  <2> QED
    BY <2>3 DEF IInv, Alone, Finds
<1> QED
  BY <1>1, Invariance, PTL
===============================================================================
