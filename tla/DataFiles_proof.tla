--------------------------- MODULE DataFiles_proof ---------------------------
(***************************************************************************)
(* Proofs about SourceArtifacts and LeanOutput, the two parts that write   *)
(* data files in place.                                                    *)
(*                                                                         *)
(* First SourceArtifacts, for every set of writers and every number of     *)
(* files.  Mine says what a writer may rely on about the files it has      *)
(* made; First says why writers that only find each other's files cannot   *)
(* all give up: the first to create a file never finds another's.          *)
(*                                                                         *)
(* Then MinuteBars and LeanOutput, for any number of bars and of           *)
(* conversions: what the parser takes and what the validator lets through, *)
(* the rows that are made of it, and the publication of the file.          *)
(***************************************************************************)
EXTENDS SourceArtifacts, LeanOutput, TLAPS

Labels == {"preflight", "open", "write", "chmod", "cleanup", "ended", "dead"}
Verdicts == {"none", "exists", "failed", "written"}

Typed ==
  /\ file \in [Names -> [owner : Writers \cup {NoOwner}, whole : BOOLEAN]]
  /\ stage \in [Writers -> Labels]
  /\ next \in [Writers -> 1..(Files + 1)]
  /\ written \in [Writers -> SUBSET Names]
  /\ told \in [Writers -> Verdicts]

\* The file at which a writer is, and the files it has written before that one.
Progress ==
  \A w \in Writers :
    /\ stage[w] \in {"preflight", "open", "write", "chmod"} => next[w] \in Names /\ told[w] = "none"
    /\ stage[w] = "preflight" => written[w] = {}
    /\ stage[w] \in {"open", "write", "chmod"} => written[w] = 1..(next[w] - 1)
    /\ stage[w] = "cleanup" => told[w] # "written"

\* A file counted as written is the writer's own, until its own cleanup.
OwnFiles(w) ==
  /\ stage[w] \in {"open", "write", "chmod", "cleanup"} \/ told[w] = "written" =>
       \A f \in written[w] : file[f] = [owner |-> w, whole |-> TRUE]
  /\ told[w] = "written" => written[w] = Names
  /\ stage[w] \in {"write", "chmod"} => file[next[w]].owner = w
  /\ stage[w] = "chmod" => file[next[w]].whole = TRUE

Mine == \A w \in Writers : OwnFiles(w)

\* NoOwner owns a file it has not come to yet.
NotYet ==
  \A w \in Writers :
    /\ stage[w] = "preflight" => \A f \in Names : file[f].owner # w
    /\ stage[w] = "open" => \A f \in Names : file[f].owner = w => f < next[w]
    /\ stage[w] \in {"write", "chmod"} => \A f \in Names : file[f].owner = w => f <= next[w]

\* A writer that has not created any file.
Fresh(w) ==
  /\ written[w] = {}
  /\ stage[w] \in {"preflight", "open", "cleanup", "ended", "dead"}
  /\ stage[w] = "open" => next[w] = 1

\* No file was ever created; or the first writer to create one is still at it, alone;
\* or that writer has stopped, for another reason than a file that exists.
First ==
  \/ /\ \A f \in Names : ~Exists(f)
     /\ \A w \in Writers : Fresh(w) /\ told[w] # "exists"
  \/ \E u \in Writers :
       /\ told[u] = "none"
       /\ stage[u] \in {"open", "write", "chmod"}
       /\ file[1].owner = u
       /\ \A f \in Names : Exists(f) => file[f].owner = u
       /\ \A w \in Writers \ {u} : Fresh(w)
  \/ \E u \in Writers : told[u] # "exists" /\ stage[u] \in {"cleanup", "ended", "dead"}

SourceInv == Typed /\ Progress /\ Mine /\ NotYet /\ First
-----------------------------------------------------------------------------
LEMMA NamesAre == Files \in Nat /\ 1 \in Names /\ Names \subseteq 1..(Files + 1)
  BY FilesPositive DEF Names

\* A file counted as written names its writer as the owner.
LEMMA WrittenAreOwn ==
  ASSUME Mine, NEW w \in Writers,
         stage[w] \in {"open", "write", "chmod", "cleanup"} \/ told[w] = "written",
         NEW f \in written[w]
  PROVE  file[f] = [owner |-> w, whole |-> TRUE] /\ file[f].owner = w
<1>1. file[f] = [owner |-> w, whole |-> TRUE]
  BY DEF Mine, OwnFiles
<1> QED BY <1>1

LEMMA InitIInv == SourceInit => SourceInv
<1> SUFFICES ASSUME SourceInit PROVE SourceInv
    OBVIOUS
<1> USE DEF SourceInit, Absent
<1>1. Typed
  BY NamesAre DEF Typed, Labels, Verdicts
<1>2. Progress /\ Mine /\ NotYet
  BY NamesAre, NoOwnerIsNoWriter DEF Progress, Mine, OwnFiles, NotYet
<1>3. First
  BY DEF First, Fresh, Exists
<1> QED BY <1>1, <1>2, <1>3 DEF SourceInv

\* A writer that has stopped never changes its told, so the third case of First,
\* once reached, is never left.
LEMMA FirstStays ==
  ASSUME SourceInv, NEW u \in Writers, told[u] # "exists", stage[u] \in {"cleanup", "ended", "dead"},
         told'[u] = told[u],
         stage'[u] \in {"cleanup", "ended", "dead"}
  PROVE  First'
BY DEF First

LEMMA PreflightKeeps == ASSUME SourceInv, NEW w \in Writers, Preflight(w) PROVE SourceInv'
<1> USE DEF Preflight, SourceInv, Enters, Reports
<1>1. /\ stage[w] = "preflight" /\ next[w] \in Names /\ written[w] = {} /\ told[w] = "none"
      /\ \A f \in Names : file[f].owner # w
  BY DEF Progress, NotYet
<1>2. /\ \A v \in Writers \ {w} : stage'[v] = stage[v] /\ next'[v] = next[v] /\ told'[v] = told[v]
      /\ UNCHANGED <<file, written>>
  BY DEF Typed
<1>3. \/ /\ Exists(next[w]) /\ stage'[w] = "ended" /\ told'[w] = "exists" /\ next'[w] = next[w]
      \/ /\ ~Exists(next[w]) /\ stage'[w] = "preflight" /\ next'[w] = next[w] + 1
         /\ next[w] # Files /\ told'[w] = "none"
      \/ /\ ~Exists(next[w]) /\ stage'[w] = "open" /\ next'[w] = 1 /\ told'[w] = "none"
  BY <1>1 DEF Typed
<1>4. next'[w] \in Names
  BY <1>1, <1>3, NamesAre DEF Names
<1>5. Typed'
  <2>1. stage' \in [Writers -> Labels] /\ told' \in [Writers -> Verdicts]
    BY DEF Typed, Labels, Verdicts
  <2>2. next' \in [Writers -> 1..(Files + 1)]
    <3>1. next'[w] \in 1..(Files + 1)
      BY <1>4, NamesAre
    <3> QED BY <3>1 DEF Typed
  <2> QED BY <1>2, <2>1, <2>2 DEF Typed
<1>6. Progress'
  <2>1. 1..(1 - 1) = {}
    OBVIOUS
  <2>2. stage'[w] = "open" => written'[w] = 1..(next'[w] - 1)
    BY <1>1, <1>2, <1>3, <2>1
  <2>3. \A v \in Writers \ {w} : next'[v] = next[v] /\ stage'[v] = stage[v] /\ told'[v] = told[v]
    BY <1>2
  <2> QED BY <1>1, <1>2, <1>3, <1>4, <2>2, <2>3 DEF Progress
<1>7. Mine'
  BY <1>1, <1>2, <1>3 DEF Mine, OwnFiles
<1>8. NotYet'
  BY <1>1, <1>2, <1>3 DEF NotYet
<1>9. First'
  BY <1>1, <1>2, <1>3 DEF First, Fresh, Exists
<1> QED BY <1>5, <1>6, <1>7, <1>8, <1>9
LEMMA OpenKeeps == ASSUME SourceInv, NEW w \in Writers, Open(w) PROVE SourceInv'
<1> USE DEF Open, SourceInv, Enters, Reports
<1>1. /\ stage[w] = "open" /\ next[w] \in Names /\ told[w] = "none"
      /\ written[w] = 1..(next[w] - 1)
      /\ \A f \in written[w] : file[f] = [owner |-> w, whole |-> TRUE]
      /\ \A f \in Names : file[f].owner = w => f < next[w]
  BY DEF Progress, NotYet, Mine, OwnFiles
<1>2. /\ \A v \in Writers \ {w} : stage'[v] = stage[v] /\ told'[v] = told[v]
      /\ UNCHANGED <<next, written>>
  BY DEF Typed
<1>3. CASE UNCHANGED file
  <2>1. /\ stage'[w] = "cleanup"
        /\ (Exists(next[w]) /\ told'[w] = "exists") \/ told'[w] = "failed"
    <3>1. CASE file' = [file EXCEPT ![next[w]] = [owner |-> w, whole |-> FALSE]] /\ ~Exists(next[w])
      BY <1>1, <1>3, <3>1, NoOwnerIsNoWriter DEF Typed, Exists
    <3> QED BY <3>1 DEF Typed
  <2>2. Typed'
    BY <1>3 DEF Typed, Labels, Verdicts
  <2>3. Progress' /\ Mine' /\ NotYet'
    BY <1>1, <1>2, <1>3, <2>1 DEF Progress, Mine, OwnFiles, NotYet
  <2>4. First'
    <3>1. CASE told'[w] = "failed"
      BY <2>1, <3>1 DEF First
    <3>2. CASE Exists(next[w]) /\ told'[w] = "exists"
      <4>1. PICK u \in Writers :
              \/ /\ told[u] = "none"
                 /\ stage[u] \in {"open", "write", "chmod"}
                 /\ file[1].owner = u
                 /\ \A f \in Names : Exists(f) => file[f].owner = u
                 /\ \A v \in Writers \ {u} : Fresh(v)
              \/ told[u] # "exists" /\ stage[u] \in {"cleanup", "ended", "dead"}
        BY <1>1, <3>2 DEF First
      <4>2. u # w
        <5>1. next[w] \in Int
          BY <1>1 DEF Names
        <5> QED BY <1>1, <3>2, <4>1, <5>1
      <4>3. CASE told[u] # "exists" /\ stage[u] \in {"cleanup", "ended", "dead"}
        BY <1>2, <4>2, <4>3 DEF First
      <4>4. CASE stage[u] \in {"open", "write", "chmod"}
        <5>1. Fresh(w) /\ Fresh(w)'
          BY <1>2, <2>1, <4>1, <4>2, <4>4 DEF Fresh
        <5>2. \A v \in Writers \ {u} : Fresh(v)'
          BY <1>2, <4>1, <4>4, <5>1 DEF Fresh
        <5> QED BY <1>2, <1>3, <4>1, <4>2, <4>4, <5>2 DEF First, Exists
      <4> QED BY <4>1, <4>3, <4>4
    <3> QED BY <2>1, <3>1, <3>2
  <2> QED BY <2>2, <2>3, <2>4
<1>4. CASE /\ ~Exists(next[w])
           /\ file' = [file EXCEPT ![next[w]] = [owner |-> w, whole |-> FALSE]]
           /\ stage' = [stage EXCEPT ![w] = "write"] /\ UNCHANGED told
  <2>1. /\ stage'[w] = "write" /\ told'[w] = "none"
        /\ file'[next[w]] = [owner |-> w, whole |-> FALSE]
        /\ \A f \in Names \ {next[w]} : file'[f] = file[f]
        /\ file[next[w]].owner = NoOwner
    BY <1>1, <1>4 DEF Typed, Exists
  <2>2. Typed'
    BY <1>1, <1>4 DEF Typed, Labels
  <2>3. Progress'
    BY <1>1, <1>2, <2>1 DEF Progress
  <2>4. Mine'
    <3>1. /\ next' = next /\ written' = written
          /\ next[w] \notin written[w] /\ written[w] \subseteq Names
      BY <1>1, <1>2 DEF Typed, Names
    <3>2. OwnFiles(w)'
      <4>1. \A f \in written[w] : file'[f] = [owner |-> w, whole |-> TRUE]
        <5>1. \A f \in written[w] : file'[f] = file[f]
          BY <2>1, <3>1
        <5> QED BY <1>1, <5>1
      <4>2. file'[next[w]].owner = w
        BY <2>1
      <4> QED BY <2>1, <3>1, <4>1, <4>2 DEF OwnFiles
    <3>3. ASSUME NEW v \in Writers \ {w} PROVE OwnFiles(v)'
      <4>1. stage'[v] = stage[v] /\ told'[v] = told[v] /\ written[v] \subseteq Names
        BY <1>2 DEF Typed
      <4>2. v # NoOwner
        BY NoOwnerIsNoWriter
      <4>3. ASSUME stage[v] \in {"write", "chmod"}
            PROVE  file'[next[v]] = file[next[v]] /\ file[next[v]].owner = v
        <5>1. next[v] \in Names /\ file[next[v]].owner = v
          BY <4>3 DEF Progress, Mine, OwnFiles
        <5> QED BY <2>1, <4>2, <5>1
      <4>4. ASSUME stage[v] \in {"open", "write", "chmod", "cleanup"} \/ told[v] = "written",
                   NEW f \in written[v]
            PROVE  file'[f] = [owner |-> v, whole |-> TRUE]
        <5>1. file[f] = [owner |-> v, whole |-> TRUE] /\ file[f].owner = v
          BY <4>4, WrittenAreOwn
        <5> QED BY <2>1, <4>1, <4>2, <5>1
      <4>5. /\ told[v] = "written" => written[v] = Names
            /\ stage[v] = "chmod" => file[next[v]].whole = TRUE
        BY DEF Mine, OwnFiles
      <4> QED BY <3>1, <4>1, <4>3, <4>4, <4>5 DEF OwnFiles
    <3> QED BY <3>2, <3>3 DEF Mine
  <2>5. NotYet'
    <3>1. next[w] \in Int /\ \A f \in Names : f \in Int
      BY <1>1 DEF Names
    <3> QED BY <1>1, <1>2, <2>1, <3>1 DEF NotYet
  <2>6. First'
    <3>1. CASE (\A f \in Names : ~Exists(f)) /\ \A v \in Writers : Fresh(v) /\ told[v] # "exists"
      <4>1. next[w] = 1 /\ file'[1].owner = w
        BY <1>1, <2>1, <3>1 DEF Fresh
      <4>2. \A f \in Names : Exists(f)' => file'[f].owner = w
        BY <2>1, <3>1 DEF Exists
      <4>3. \A v \in Writers \ {w} : Fresh(v)'
        BY <1>2, <3>1 DEF Fresh
      <4> QED BY <2>1, <4>1, <4>2, <4>3 DEF First
    <3>2. ASSUME NEW u \in Writers,
                 /\ told[u] = "none"
                 /\ stage[u] \in {"open", "write", "chmod"}
                 /\ file[1].owner = u
                 /\ \A f \in Names : Exists(f) => file[f].owner = u
                 /\ \A v \in Writers \ {u} : Fresh(v)
          PROVE  First'
      <4>1. file[1].owner # NoOwner
        BY <3>2, NoOwnerIsNoWriter
      <4>2. u = w
        BY <1>1, <2>1, <3>2, <4>1 DEF Fresh
      <4>3. file'[1].owner = w /\ \A f \in Names : Exists(f)' => file'[f].owner = w
        BY <2>1, <3>2, <4>1, <4>2, NamesAre DEF Exists
      <4>4. \A v \in Writers \ {w} : Fresh(v)'
        BY <1>2, <3>2, <4>2 DEF Fresh
      <4> QED BY <2>1, <4>3, <4>4 DEF First
    <3>3. ASSUME NEW u \in Writers, told[u] # "exists", stage[u] \in {"cleanup", "ended", "dead"}
          PROVE  First'
      BY <1>1, <1>2, <3>3 DEF First
    <3> QED BY <3>1, <3>2, <3>3 DEF First
  <2> QED BY <2>2, <2>3, <2>4, <2>5, <2>6
<1> QED BY <1>3, <1>4
LEMMA WriteKeeps == ASSUME SourceInv, NEW w \in Writers, Write(w) PROVE SourceInv'
<1> USE DEF Write, SourceInv, Enters, Reports
<1>1. /\ stage[w] = "write" /\ next[w] \in Names /\ told[w] = "none"
      /\ written[w] = 1..(next[w] - 1)
      /\ file[next[w]].owner = w
  BY DEF Progress, Mine, OwnFiles
<1>2. /\ \A v \in Writers \ {w} : stage'[v] = stage[v] /\ told'[v] = told[v]
      /\ next' = next /\ written' = written
      /\ stage'[w] \in {"chmod", "cleanup"}
      /\ stage'[w] = "chmod" => told'[w] = "none"
      /\ stage'[w] = "cleanup" => told'[w] = "failed"
  BY <1>1 DEF Typed
<1>3. /\ \A f \in Names : file'[f].owner = file[f].owner
      /\ \A f \in Names \ {next[w]} : file'[f] = file[f]
      /\ file[next[w]] = [owner |-> w, whole |-> file[next[w]].whole]
      /\ stage'[w] = "chmod" => file'[next[w]].whole = TRUE
      /\ file' \in [Names -> [owner : Writers \cup {NoOwner}, whole : BOOLEAN]]
  <2>1. CASE UNCHANGED file
    BY <1>1, <2>1 DEF Typed
  <2>2. CASE file' = [file EXCEPT ![next[w]] = [owner |-> @.owner, whole |-> TRUE]]
    <3>1. file[next[w]] \in [owner : Writers \cup {NoOwner}, whole : BOOLEAN]
      BY <1>1 DEF Typed
    <3>2. /\ file'[next[w]] = [owner |-> w, whole |-> TRUE]
          /\ file[next[w]] = [owner |-> w, whole |-> file[next[w]].whole]
      BY <1>1, <2>2, <3>1 DEF Typed
    <3>3. file'[next[w]] \in [owner : Writers \cup {NoOwner}, whole : BOOLEAN]
      BY <3>2
    <3>4. file'[next[w]].owner = w /\ file'[next[w]].whole = TRUE
      BY <3>2
    <3>5. \A f \in Names \ {next[w]} : file'[f] = file[f]
      BY <2>2 DEF Typed
    <3>6. file' \in [Names -> [owner : Writers \cup {NoOwner}, whole : BOOLEAN]]
      BY <2>2, <3>3, <3>5 DEF Typed
    <3> QED BY <1>1, <3>2, <3>4, <3>5, <3>6
  <2>3. CASE stage' = [stage EXCEPT ![w] = "cleanup"] /\ UNCHANGED file
    BY <1>1, <2>3, <2>1
  <2> QED BY <2>1, <2>2
<1>4. Typed'
  <2>1. stage' \in [Writers -> Labels] /\ told' \in [Writers -> Verdicts]
    BY DEF Typed, Labels, Verdicts
  <2> QED BY <1>2, <1>3, <2>1 DEF Typed
<1>5. Progress'
  BY <1>1, <1>2 DEF Progress
<1>6. Mine'
  <2>1. next[w] \notin written[w] /\ written[w] \subseteq Names
    BY <1>1 DEF Typed, Names
  <2>2. OwnFiles(w)'
    <3>1. \A f \in written[w] : file'[f] = [owner |-> w, whole |-> TRUE]
      <4>1. \A f \in written[w] : file'[f] = file[f]
        BY <1>3, <2>1
      <4> QED BY <1>1, <4>1 DEF Mine, OwnFiles
    <3>2. file'[next[w]].owner = w
      BY <1>1, <1>3
    <3> QED BY <1>2, <1>3, <3>1, <3>2 DEF OwnFiles
  <2>3. ASSUME NEW v \in Writers \ {w} PROVE OwnFiles(v)'
    <3>1. stage'[v] = stage[v] /\ told'[v] = told[v] /\ written[v] \subseteq Names
      BY <1>2 DEF Typed
    <3>2. ASSUME stage[v] \in {"write", "chmod"}
          PROVE  file'[next[v]] = file[next[v]] /\ file[next[v]].owner = v
      <4>1. next[v] \in Names /\ file[next[v]].owner = v
        BY <3>2 DEF Progress, Mine, OwnFiles
      <4> QED BY <1>1, <1>3, <4>1
    <3>3. ASSUME stage[v] \in {"open", "write", "chmod", "cleanup"} \/ told[v] = "written",
                 NEW f \in written[v]
          PROVE  file'[f] = [owner |-> v, whole |-> TRUE]
      <4>1. file[f] = [owner |-> v, whole |-> TRUE] /\ file[f].owner = v
        BY <3>3, WrittenAreOwn
      <4> QED BY <1>1, <1>3, <3>1, <4>1
    <3>4. /\ told[v] = "written" => written[v] = Names
          /\ stage[v] = "chmod" => file[next[v]].whole = TRUE
      BY DEF Mine, OwnFiles
    <3> QED BY <1>2, <3>1, <3>2, <3>3, <3>4 DEF OwnFiles
  <2> QED BY <2>2, <2>3 DEF Mine
<1>7. NotYet'
  BY <1>1, <1>2, <1>3 DEF NotYet
<1>8. First'
  <2>1. CASE stage'[w] = "cleanup"
    BY <1>2, <2>1 DEF First
  <2>2. CASE stage'[w] = "chmod"
    BY <1>1, <1>2, <1>3, <2>2, NamesAre DEF First, Fresh, Exists
  <2> QED BY <1>2, <2>1, <2>2
<1> QED BY <1>4, <1>5, <1>6, <1>7, <1>8

LEMMA ChmodKeeps == ASSUME SourceInv, NEW w \in Writers, Chmod(w) PROVE SourceInv'
<1> USE DEF Chmod, SourceInv, Enters, Reports
<1>1. /\ stage[w] = "chmod" /\ next[w] \in Names /\ told[w] = "none"
      /\ written[w] = 1..(next[w] - 1) /\ written[w] \subseteq Names
      /\ file[next[w]].owner = w /\ file[next[w]].whole = TRUE
      /\ \A f \in written[w] : file[f] = [owner |-> w, whole |-> TRUE]
      /\ \A f \in Names : file[f].owner = w => f <= next[w]
      /\ next[w] \in Int
  BY DEF Typed, Progress, Mine, OwnFiles, NotYet, Names
<1>2. /\ \A v \in Writers \ {w} : /\ stage'[v] = stage[v] /\ told'[v] = told[v]
                                  /\ next'[v] = next[v] /\ written'[v] = written[v]
      /\ file' = file
  BY DEF Typed
<1>3. \/ /\ stage'[w] = "cleanup" /\ told'[w] = "failed"
         /\ next'[w] = next[w] /\ written'[w] = written[w]
      \/ /\ next[w] = Files /\ stage'[w] = "ended" /\ told'[w] = "written"
         /\ next'[w] = next[w] + 1 /\ written'[w] = written[w] \cup {next[w]}
      \/ /\ next[w] # Files /\ stage'[w] = "open" /\ told'[w] = "none"
         /\ next'[w] = next[w] + 1 /\ written'[w] = written[w] \cup {next[w]}
  BY <1>1 DEF Typed
<1>4. written[w] \cup {next[w]} = 1..next[w]
  BY <1>1 DEF Names
<1>5. next[w] = Files => written[w] \cup {next[w]} = Names
  BY <1>4 DEF Names
<1>6. file[next[w]] = [owner |-> w, whole |-> TRUE]
  <2>1. file[next[w]] \in [owner : Writers \cup {NoOwner}, whole : BOOLEAN]
    BY <1>1 DEF Typed
  <2> QED BY <1>1, <2>1
<1>7. Typed'
  <2>1. stage' \in [Writers -> Labels] /\ told' \in [Writers -> Verdicts]
    BY DEF Typed, Labels, Verdicts
  <2>2. next' \in [Writers -> 1..(Files + 1)]
    <3>1. next'[w] \in 1..(Files + 1)
      BY <1>1, <1>3, NamesAre DEF Names
    <3> QED BY <3>1 DEF Typed
  <2>3. written' \in [Writers -> SUBSET Names]
    <3>1. written[w] \cup {next[w]} \in SUBSET Names
      BY <1>1
    <3> QED BY <3>1 DEF Typed
  <2> QED BY <1>2, <2>1, <2>2, <2>3 DEF Typed
<1>8. Progress'
  <2>1. ASSUME stage'[w] = "open" PROVE next'[w] \in Names /\ written'[w] = 1..(next'[w] - 1)
    <3>1. next[w] # Files /\ next'[w] = next[w] + 1 /\ written'[w] = 1..next[w]
      BY <1>3, <1>4, <2>1
    <3>2. next[w] + 1 \in Names /\ (next[w] + 1) - 1 = next[w]
      BY <1>1, <3>1, NamesAre DEF Names
    <3> QED BY <3>1, <3>2
  <2> QED BY <1>1, <1>2, <1>3, <2>1 DEF Progress
<1>9. Mine'
  <2>1. \A f \in written'[w] : file'[f] = [owner |-> w, whole |-> TRUE]
    <3>1. \A f \in written[w] \cup {next[w]} : file[f] = [owner |-> w, whole |-> TRUE]
      BY <1>1, <1>6
    <3>2. written'[w] \subseteq written[w] \cup {next[w]}
      BY <1>3
    <3> QED BY <1>2, <3>1, <3>2
  <2>2. OwnFiles(w)'
    BY <1>3, <1>5, <2>1 DEF OwnFiles
  <2>3. \A v \in Writers \ {w} : OwnFiles(v)'
    BY <1>2 DEF Mine, OwnFiles
  <2> QED BY <2>2, <2>3 DEF Mine
<1>10. NotYet'
  <2>1. \A f \in Names : f \in Int /\ (f <= next[w] => f < next[w] + 1)
    BY <1>1 DEF Names
  <2> QED BY <1>1, <1>2, <1>3, <2>1 DEF NotYet
<1>11. First'
  <2>1. CASE stage'[w] \in {"cleanup", "ended"}
    BY <1>3, <2>1 DEF First
  <2>2. CASE stage'[w] = "open"
    BY <1>1, <1>2, <1>3, <2>2 DEF First, Fresh, Exists
  <2> QED BY <1>3, <2>1, <2>2
<1> QED BY <1>7, <1>8, <1>9, <1>10, <1>11
LEMMA CleanupKeeps == ASSUME SourceInv, NEW w \in Writers, Cleanup(w) PROVE SourceInv'
<1> USE DEF Cleanup, SourceInv, Enters
<1>1. /\ stage[w] = "cleanup" /\ told[w] # "written" /\ stage'[w] = "ended"
      /\ \A v \in Writers \ {w} : stage'[v] = stage[v]
      /\ next' = next /\ written' = written /\ told' = told
  BY DEF Typed, Progress
<1>2. \A f \in Names : file'[f] = file[f] \/ (file'[f] = Absent /\ file[f].owner = w)
  <2>1. \A f \in written[w] : file[f].owner = w
    BY <1>1, WrittenAreOwn
  <2> QED BY <2>1
<1>3. \A f \in Names : file'[f] = file[f] \/ (file'[f].owner = NoOwner /\ file[f].owner = w)
  <2>1. Absent.owner = NoOwner
    BY DEF Absent
  <2> QED BY <1>2, <2>1
<1>4. Typed'
  <2>1. Absent \in [owner : Writers \cup {NoOwner}, whole : BOOLEAN]
    BY DEF Absent
  <2> QED BY <1>1, <2>1 DEF Typed, Labels
<1>5. Progress'
  BY <1>1 DEF Progress
<1>6. Mine'
  <2>1. OwnFiles(w)'
    BY <1>1 DEF OwnFiles
  <2>2. ASSUME NEW v \in Writers \ {w} PROVE OwnFiles(v)'
    <3>1. stage'[v] = stage[v] /\ told'[v] = told[v] /\ written[v] \subseteq Names
      BY <1>1 DEF Typed
    <3>2. ASSUME stage[v] \in {"write", "chmod"}
          PROVE  file'[next[v]] = file[next[v]] /\ file[next[v]].owner = v
      <4>1. next[v] \in Names /\ file[next[v]].owner = v
        BY <3>2 DEF Progress, Mine, OwnFiles
      <4> QED BY <1>3, <4>1
    <3>3. ASSUME stage[v] \in {"open", "write", "chmod", "cleanup"} \/ told[v] = "written",
                 NEW f \in written[v]
          PROVE  file'[f] = [owner |-> v, whole |-> TRUE]
      <4>1. file[f] = [owner |-> v, whole |-> TRUE] /\ file[f].owner = v
        BY <3>3, WrittenAreOwn
      <4> QED BY <1>3, <3>1, <4>1
    <3>4. /\ told[v] = "written" => written[v] = Names
          /\ stage[v] = "chmod" => file[next[v]].whole = TRUE
      BY DEF Mine, OwnFiles
    <3> QED BY <1>1, <3>1, <3>2, <3>3, <3>4 DEF OwnFiles
  <2> QED BY <2>1, <2>2 DEF Mine
<1>7. NotYet'
  BY <1>1, <1>3, NoOwnerIsNoWriter DEF NotYet
<1>8. First'
  <2>1. ASSUME NEW u \in Writers,
               /\ told[u] = "none"
               /\ stage[u] \in {"open", "write", "chmod"}
               /\ file[1].owner = u
               /\ \A f \in Names : Exists(f) => file[f].owner = u
               /\ \A v \in Writers \ {u} : Fresh(v)
        PROVE  First'
    <3>1. u # w /\ written[w] = {}
      BY <1>1, <2>1 DEF Fresh
    <3>2. file'[1].owner = u /\ \A f \in Names : Exists(f)' => file'[f].owner = u
      BY <1>3, <2>1, <3>1, NamesAre DEF Exists
    <3>3. \A v \in Writers \ {u} : Fresh(v)'
      BY <1>1, <2>1 DEF Fresh
    <3> QED BY <1>1, <2>1, <3>1, <3>2, <3>3 DEF First
  <2>2. CASE (\A f \in Names : ~Exists(f)) /\ \A v \in Writers : Fresh(v) /\ told[v] # "exists"
    BY <1>1, <1>3, <2>2 DEF First, Fresh, Exists
  <2>3. ASSUME NEW u \in Writers, told[u] # "exists", stage[u] \in {"cleanup", "ended", "dead"}
        PROVE  First'
    BY <1>1, <2>3 DEF First
  <2> QED BY <2>1, <2>2, <2>3 DEF First
<1> QED BY <1>4, <1>5, <1>6, <1>7, <1>8

LEMMA CrashKeeps == ASSUME SourceInv, NEW w \in Writers, WriterDies(w) PROVE SourceInv'
<1> USE DEF WriterDies, SourceInv, Enters
<1>1. /\ stage'[w] = "dead" /\ stage[w] \notin {"ended", "dead"}
      /\ \A v \in Writers \ {w} : stage'[v] = stage[v]
      /\ file' = file /\ next' = next /\ written' = written /\ told' = told
  BY DEF Typed
<1>2. Typed'
  BY DEF Typed, Labels
<1>3. Progress' /\ Mine' /\ NotYet'
  BY <1>1 DEF Progress, Mine, OwnFiles, NotYet
<1>4. First'
  BY <1>1 DEF First, Fresh, Exists
<1> QED BY <1>2, <1>3, <1>4

LEMMA SourceNextKeeps == SourceInv /\ [SourceNext]_sourceVars => SourceInv'
<1> SUFFICES ASSUME SourceInv, [SourceNext]_sourceVars PROVE SourceInv'
    OBVIOUS
<1>1. CASE UNCHANGED sourceVars
  BY <1>1 DEF sourceVars, SourceInv, Typed, Progress, Mine, OwnFiles, NotYet, First, Fresh, Exists
<1> QED BY <1>1, PreflightKeeps, OpenKeeps, WriteKeeps, ChmodKeeps, CleanupKeeps, CrashKeeps
        DEF SourceNext
-----------------------------------------------------------------------------
\* What the proofs below rest on holds of every state, however the writers race.
THEOREM SourceInvariance == SourceSpec => []SourceInv
<1> QED BY InitIInv, SourceNextKeeps, PTL DEF SourceSpec

\* Who was told "written" owns every file, whole, from then on; and the writers that
\* race for a run_id are never all turned away because files exist.
THEOREM OneGetsTheRun == SourceSpec => []OneWriterWins
<1>1. ASSUME SourceInv, NEW w \in Writers, told[w] = "written", NEW f \in Names
      PROVE  file[f] = [owner |-> w, whole |-> TRUE]
  BY <1>1 DEF SourceInv, Mine, OwnFiles
<1>2. ASSUME SourceInv PROVE \E w \in Writers : told[w] # "exists"
  BY <1>2, SomeWriter DEF SourceInv, First
<1>3. SourceInv => OneWriterWins
  BY <1>1, <1>2 DEF OneWriterWins
<1> QED BY <1>3, SourceInvariance, PTL

\* The step form of NotMineNotTouched: only its owner's step changes a file.
LEMMA OwnersStep ==
  ASSUME SourceInv, [SourceNext]_sourceVars, NEW f \in Names, file'[f] # file[f], Exists(f)
  PROVE  \E w \in Writers : w = file[f].owner /\ stage'[w] # stage[w]
<1> USE DEF SourceInv, Enters
<1>1. ASSUME NEW w \in Writers, Preflight(w) \/ WriterDies(w) PROVE FALSE
  BY <1>1 DEF Preflight, WriterDies
<1>2. ASSUME NEW w \in Writers, Open(w) PROVE FALSE
  BY <1>2 DEF Open, Typed
<1>3. ASSUME NEW w \in Writers, Write(w) PROVE file[f].owner = w /\ stage'[w] # stage[w]
  <2>1. stage[w] = "write" /\ stage'[w] # "write"
    BY <1>3 DEF Write, Typed
  <2>2. f = next[w]
    BY <1>3 DEF Write, Typed
  <2> QED BY <2>1, <2>2 DEF Mine, OwnFiles
<1>4. ASSUME NEW w \in Writers, Chmod(w) PROVE FALSE
  BY <1>4 DEF Chmod
<1>5. ASSUME NEW w \in Writers, Cleanup(w) PROVE file[f].owner = w /\ stage'[w] # stage[w]
  <2>1. stage[w] = "cleanup" /\ stage'[w] = "ended"
    BY <1>5 DEF Cleanup, Typed
  <2>2. f \in written[w]
    BY <1>5 DEF Cleanup
  <2> QED BY <2>1, <2>2, WrittenAreOwn
<1>6. ~UNCHANGED sourceVars
  BY DEF sourceVars
<1> QED BY <1>1, <1>2, <1>3, <1>4, <1>5, <1>6 DEF SourceNext

\* No writer ever touches a file that another one made, finished or not.
THEOREM OthersFilesStay == SourceSpec => NotMineNotTouched
<1>1. SourceInv /\ [SourceNext]_sourceVars =>
        [\A f \in Names : file'[f] # file[f] /\ Exists(f) =>
           \E w \in Writers : w = file[f].owner /\ stage'[w] # stage[w]]_sourceVars
  BY OwnersStep
<1> QED BY <1>1, SourceInvariance, PTL DEF SourceSpec, NotMineNotTouched
-----------------------------------------------------------------------------
Elements == Bars \cup {NotABar}

\* What the validator asks of bars, said of each bar and of each bar and the next.
Good(b) ==
  /\ b # <<>>
  /\ \A i \in 1 .. Len(b) : /\ b[i] \in Bars /\ PositivePrices(b[i]) /\ Ordered(b[i])
  /\ \A i \in 2 .. Len(b) : Seconds(b[i].time - b[i - 1].time) > 0
-----------------------------------------------------------------------------
\* A difference that counts as a positive number of seconds is a second at least.
LEMMA SecondsArePositive == \A t \in Int : Seconds(t) > 0 <=> t >= Second
BY DEF Seconds, Second

\* Of elements that are all bars each is compared with the one before it.
LEMMA PreviousIsBefore ==
  ASSUME NEW b \in Seq(Elements), \A i \in 1 .. Len(b) : b[i] # NotABar, NEW i \in 1 .. Len(b)
  PROVE  Previous(b, i) = IF i = 1 THEN {} ELSE {b[i - 1]}
<1>1. \A j \in 1 .. (i - 1) : (\A k \in (j + 1) .. (i - 1) : b[k] = NotABar) <=> j = i - 1
  <2> SUFFICES ASSUME NEW j \in 1 .. (i - 1), j # i - 1 PROVE b[i - 1] # NotABar /\ i - 1 \in (j + 1) .. (i - 1)
    BY Len(b) \in Nat
  <2> QED
    BY Len(b) \in Nat
<1>2. {j \in 1 .. (i - 1) : b[j] # NotABar /\ \A k \in (j + 1) .. (i - 1) : b[k] = NotABar}
        = IF i = 1 THEN {} ELSE {i - 1}
  BY <1>1, Len(b) \in Nat
<1> QED
  BY <1>2 DEF Previous

LEMMA ValidBarsAreGood == ASSUME NEW b \in Seq(Elements) PROVE Validate(b) = "VALID" <=> Good(b)
<1> DEFINE Real == {b[i] : i \in DOMAIN b} \ {NotABar}
<1>1. DOMAIN b = 1 .. Len(b) /\ Len(b) \in Nat /\ \A i \in 1 .. Len(b) : b[i] \in Elements
  OBVIOUS
<1>2. Validate(b) = "VALID" <=> /\ b # <<>>
                                /\ \A x \in Real : /\ \A f \in Fields : x[f] # NotDecimal
                                                   /\ PositivePrices(x) /\ Ordered(x)
                                /\ ~NonIncreasing(b)
                                /\ \A i \in DOMAIN b : b[i] # NotABar
  BY Zenon DEF Validate
<1>3. ASSUME \A i \in 1 .. Len(b) : b[i] # NotABar
      PROVE  ~NonIncreasing(b) <=> \A i \in 2 .. Len(b) : Seconds(b[i].time - b[i - 1].time) > 0
  <2>1. \A i \in 1 .. Len(b) : Previous(b, i) = IF i = 1 THEN {} ELSE {b[i - 1]}
    BY <1>3, PreviousIsBefore
  <2>2. \A i \in 2 .. Len(b) : Seconds(b[i].time - b[i - 1].time) \in Int
    <3> SUFFICES ASSUME NEW i \in 2 .. Len(b) PROVE Seconds(b[i].time - b[i - 1].time) \in Int
      OBVIOUS
    <3>1. b[i] \in Bars /\ b[i - 1] \in Bars
      BY <1>1, <1>3 DEF Elements
    <3>2. b[i].time - b[i - 1].time \in Int
      BY <3>1 DEF Bars
    <3> QED
      BY <3>2 DEF Seconds, Second
  <2>3. ASSUME NEW i \in 1 .. Len(b)
        PROVE  (\E x \in Previous(b, i) : Seconds(b[i].time - x.time) <= 0)
                 <=> i # 1 /\ Seconds(b[i].time - b[i - 1].time) <= 0
    <3>1. CASE i = 1
      BY <2>1, <3>1
    <3>2. CASE i # 1
      <4>1. Previous(b, i) = {b[i - 1]}
        BY <2>1, <3>2
      <4> QED
        BY <3>2, <4>1
    <3> QED
      BY <3>1, <3>2
  <2>4. NonIncreasing(b) <=> \E i \in 2 .. Len(b) : Seconds(b[i].time - b[i - 1].time) <= 0
    <3>1. \A i \in Nat : i \in 2 .. Len(b) <=> i \in 1 .. Len(b) /\ i # 1
      BY <1>1
    <3> QED
      BY <1>1, <1>3, <2>3, <3>1 DEF NonIncreasing
  <2>5. \A x \in Int : x > 0 <=> ~(x <= 0)
    OBVIOUS
  <2>6. \A i \in 2 .. Len(b) : Seconds(b[i].time - b[i - 1].time) > 0
                               <=> ~(Seconds(b[i].time - b[i - 1].time) <= 0)
    BY <2>2, <2>5, Zenon
  <2> QED
    BY <2>4, <2>6, Zenon
<1>4. (\A i \in DOMAIN b : b[i] # NotABar) =>
        ((\A x \in Real : PositivePrices(x) /\ Ordered(x)) <=> \A i \in 1 .. Len(b) : PositivePrices(b[i]) /\ Ordered(b[i]))
  BY <1>1
<1>5. \A x \in Real : PositivePrices(x) => \A f \in Fields : x[f] # NotDecimal
  BY DEF PositivePrices
<1> HIDE DEF Real
<1>6. \A i \in 1 .. Len(b) : b[i] # NotABar <=> b[i] \in Bars
  BY <1>1, NoBarIsNoBar DEF Elements
<1> QED
  BY <1>1, <1>2, <1>3, <1>4, <1>5, <1>6 DEF Good

\* The prices of a bar that is let through are numbers.
LEMMA PricesAreNumbers ==
  ASSUME NEW bar \in Bars, PositivePrices(bar)
  PROVE  bar.open \in Int /\ bar.high \in Int /\ bar.low \in Int /\ bar.close \in Int
<1>1. \A f \in Fields : bar[f] # NotDecimal
  BY DEF PositivePrices
<1>2. /\ bar["open"] \in Prices /\ bar["high"] \in Prices /\ bar["low"] \in Prices /\ bar["close"] \in Prices
      /\ bar["open"] # NotDecimal /\ bar["high"] # NotDecimal /\ bar["low"] # NotDecimal /\ bar["close"] # NotDecimal
  BY <1>1 DEF Bars, Fields
<1> QED
  BY <1>2 DEF Prices

\* Rounding keeps the order of prices.
LEMMA ScaleIsMonotone == \A p, q \in Int : p <= q => Scale(p) <= Scale(q)
BY DEF Scale

LEMMA RowsOfGoodBars ==
  ASSUME NEW b \in Seq(Elements), Good(b)
  PROVE  /\ Len(Rows(b)) = Len(b)
         /\ \A i \in 2 .. Len(b) : Rows(b)[i].millis > Rows(b)[i - 1].millis
         /\ \A i \in 1 .. Len(b) : Ordered(Rows(b)[i])
<1>1. DOMAIN b = 1 .. Len(b) /\ Len(b) \in Nat
  OBVIOUS
<1>2. \A i \in 1 .. Len(b) : Rows(b)[i] = Row(b[i])
  BY <1>1 DEF Rows
<1>3. Len(Rows(b)) = Len(b)
  BY <1>1 DEF Rows
<1>4. ASSUME NEW i \in 2 .. Len(b) PROVE Rows(b)[i].millis > Rows(b)[i - 1].millis
  <2>1. i \in 1 .. Len(b) /\ i - 1 \in 1 .. Len(b)
    BY <1>1
  <2>2. b[i].time \in Int /\ b[i - 1].time \in Int /\ Seconds(b[i].time - b[i - 1].time) > 0
    BY <2>1 DEF Good, Bars
  <2>3. b[i].time - b[i - 1].time >= Second
    BY <2>2, SecondsArePositive
  <2>4. b[i].time \div 2 > b[i - 1].time \div 2
    BY <2>2, <2>3 DEF Second
  <2>5. Row(b[i]).millis > Row(b[i - 1]).millis
    BY <2>4 DEF Row
  <2> QED
    BY <1>2, <2>1, <2>5
<1>5. ASSUME NEW i \in 1 .. Len(b) PROVE Ordered(Rows(b)[i])
  <2>1. b[i] \in Bars /\ PositivePrices(b[i]) /\ Ordered(b[i])
    BY DEF Good
  <2>2. /\ b[i].open \in Int /\ b[i].high \in Int /\ b[i].low \in Int /\ b[i].close \in Int
        /\ b[i].low <= b[i].open /\ b[i].open <= b[i].high /\ b[i].low <= b[i].close /\ b[i].close <= b[i].high
    BY <2>1, PricesAreNumbers DEF Ordered
  <2>3. /\ Scale(b[i].low) <= Scale(b[i].open) /\ Scale(b[i].open) <= Scale(b[i].high)
        /\ Scale(b[i].low) <= Scale(b[i].close) /\ Scale(b[i].close) <= Scale(b[i].high)
    BY <2>2, ScaleIsMonotone
  <2>4. Ordered(Row(b[i]))
    BY <2>3 DEF Row, Ordered
  <2> QED
    BY <1>2, <2>4
<1> QED
  BY <1>3, <1>4, <1>5

\* Candles at whole seconds that the parser takes are seconds apart.
LEMMA ParsedBarsAreGood ==
  ASSUME NEW b \in Seq(Elements), b # <<>>, Parses(b),
         \A i \in DOMAIN b : b[i].time % Second = 0
  PROVE  Good(b)
<1>1. DOMAIN b = 1 .. Len(b) /\ Len(b) \in Nat /\ \A i \in 1 .. Len(b) : b[i] \in Elements
  OBVIOUS
<1>2. \A i \in 1 .. Len(b) : b[i] \in Bars /\ PositivePrices(b[i]) /\ Ordered(b[i])
  BY <1>1 DEF Parses, Elements
<1>3. ASSUME NEW i \in 2 .. Len(b) PROVE Seconds(b[i].time - b[i - 1].time) > 0
  <2>1. i \in 1 .. Len(b) /\ i - 1 \in 1 .. Len(b)
    BY <1>1
  <2>2. /\ b[i].time \in Int /\ b[i - 1].time \in Int /\ b[i].time > b[i - 1].time
        /\ b[i].time % Second = 0 /\ b[i - 1].time % Second = 0
    BY <1>1, <1>2, <2>1 DEF Bars, Parses
  <2>3. \A t, u \in Int : t > u /\ t % Second = 0 /\ u % Second = 0 => t - u >= Second
    BY DEF Second
  <2>4. b[i].time - b[i - 1].time >= Second
    BY <2>2, <2>3
  <2> QED
    BY <2>2, <2>4, SecondsArePositive
<1> QED
  BY <1>2, <1>3 DEF Good
-----------------------------------------------------------------------------
Temps == {"none", "part", "whole"}
PCs == {"check", "make", "zip", "link", "unlink", "finally", "ended", "dead"}
Outcomes == {"none", "exists", "invalid", "raises", "failed", "error", "converted"}

TypeOK ==
  /\ bars \in Inputs
  /\ output \in Conversions \cup {Nobody} /\ linked \in BOOLEAN
  /\ temp \in [Conversions -> Temps]
  /\ pc \in [Conversions -> PCs]
  /\ outcome \in [Conversions -> Outcomes]

\* The file is filled before it is linked, and what is linked is of bars that convert.
Fits(c) ==
  /\ pc[c] \in {"make", "zip", "link", "unlink"} \/ output = c => Converts(bars[c])
  /\ outcome[c] = "invalid" => Refuses(bars[c])
  /\ outcome[c] = "raises" => ~Converts(bars[c]) /\ ~Refuses(bars[c])
  /\ pc[c] = "link" => temp[c] = "whole"
  /\ pc[c] = "unlink" => output = c
  /\ pc[c] \in {"check", "make", "zip", "link", "unlink"} => outcome[c] = "none"
  /\ outcome[c] = "converted" => output = c /\ (pc[c] \in {"finally", "ended"} => temp[c] = "none")

IInv == TypeOK /\ OutputIsWhole /\ \A c \in Conversions : Fits(c)
-----------------------------------------------------------------------------
LEMMA InitFits == Init => IInv
BY NobodyIsNoConversion DEF Init, IInv, TypeOK, Temps, PCs, Outcomes, OutputIsWhole, Fits

\* A step of c leaves the other conversions what they were, and the output name too
\* once it leads to a file.
LEMMA StepKeeps ==
  ASSUME IInv, NEW c \in Conversions, NEW at \in PCs, NEW t \in Temps, NEW o \in Outcomes,
         pc' = [pc EXCEPT ![c] = at], temp' = [temp EXCEPT ![c] = t], outcome' = [outcome EXCEPT ![c] = o],
         UNCHANGED bars,
         \/ UNCHANGED <<output, linked>>
         \/ output = Nobody /\ output' = c /\ linked',
         linked' \in BOOLEAN, Fits(c)'
  PROVE  IInv'
<1>1. TypeOK'
  BY DEF IInv, TypeOK
<1>2. OutputIsWhole'
  BY DEF IInv, OutputIsWhole
<1>3. ASSUME NEW d \in Conversions \ {c} PROVE Fits(d)'
  <2>1. /\ pc'[d] = pc[d] /\ temp'[d] = temp[d] /\ outcome'[d] = outcome[d] /\ bars' = bars /\ Fits(d)
        /\ output = d => output' = d
        /\ output' = d => output = d
    BY NobodyIsNoConversion DEF IInv, TypeOK
  <2> QED
    BY <2>1 DEF Fits
<1> QED
  BY <1>1, <1>2, <1>3 DEF IInv

LEMMA ConversionKeeps ==
  ASSUME IInv, NEW c \in Conversions,
         Check(c) \/ Make(c) \/ Zip(c) \/ Link(c) \/ Unlink(c) \/ Finally(c) \/ Crash(c)
  PROVE  IInv'
<1> DEFINE Moves(at, t, o) ==
      /\ pc' = [pc EXCEPT ![c] = at] /\ temp' = [temp EXCEPT ![c] = t] /\ outcome' = [outcome EXCEPT ![c] = o]
      /\ UNCHANGED bars /\ linked' \in BOOLEAN
      /\ UNCHANGED <<output, linked>> \/ (output = Nobody /\ output' = c /\ linked')
<1>1. /\ pc[c] \in PCs /\ temp[c] \in Temps /\ outcome[c] \in Outcomes /\ linked \in BOOLEAN
      /\ temp = [temp EXCEPT ![c] = temp[c]] /\ outcome = [outcome EXCEPT ![c] = outcome[c]]
      /\ output \in Conversions \cup {Nobody} /\ Fits(c)
  BY DEF IInv, TypeOK
<1>2. ASSUME NEW at \in PCs, NEW t \in Temps, NEW o \in Outcomes, Moves(at, t, o)
      PROVE  pc'[c] = at /\ temp'[c] = t /\ outcome'[c] = o
  BY <1>2 DEF IInv, TypeOK
<1>3. ASSUME NEW at \in PCs, NEW t \in Temps, NEW o \in Outcomes, Moves(at, t, o), Fits(c)'
      PROVE  IInv'
  BY <1>3, StepKeeps
<1>4. CASE Check(c)
  <2>1. PICK at \in {"make", "ended"}, o \in Outcomes :
          /\ Moves(at, temp[c], o) /\ UNCHANGED output
          /\ at = "make" => Converts(bars[c]) /\ o = outcome[c]
          /\ o = "invalid" => Refuses(bars[c])
          /\ o = "raises" => ~Converts(bars[c]) /\ ~Refuses(bars[c])
          /\ o # "converted"
          /\ pc[c] = "check"
    BY <1>1, <1>4 DEF Check, Goto, Ends, Outcomes, Fits
  <2>2. at \in PCs
    BY DEF PCs
  <2>3. pc'[c] = at /\ temp'[c] = temp[c] /\ outcome'[c] = o
    BY <1>1, <1>2, <2>1, <2>2
  <2>4. Fits(c)'
    BY <1>1, <2>1, <2>3 DEF Fits
  <2> QED
    BY <1>1, <1>3, <2>1, <2>2, <2>4
<1>5. CASE Make(c) \/ Zip(c)
  <2>1. PICK at \in {"zip", "link", "finally"}, t \in Temps, o \in {"none", "failed"} :
          /\ Moves(at, t, o) /\ UNCHANGED output
          /\ at = "link" => t = "whole"
          /\ at # "finally" => o = "none"
          /\ pc[c] \in {"make", "zip"}
    BY <1>1, <1>5 DEF Make, Zip, Goto, Ends, Outcomes, Temps, Fits
  <2>2. at \in PCs /\ o \in Outcomes
    BY DEF PCs, Outcomes
  <2>3. pc'[c] = at /\ temp'[c] = t /\ outcome'[c] = o
    BY <1>2, <2>1, <2>2
  <2>4. Fits(c)'
    BY <1>1, <2>1, <2>3 DEF Fits
  <2> QED
    BY <1>3, <2>1, <2>2, <2>4
<1>6. CASE Link(c)
  <2>1. PICK at \in {"unlink", "finally"}, o \in {"none", "exists", "failed"} :
          /\ Moves(at, temp[c], o) /\ pc[c] = "link"
          /\ at = "unlink" => output' = c /\ o = "none"
    BY <1>1, <1>6 DEF Link, Goto, Ends, Fits
  <2>2. at \in PCs /\ o \in Outcomes
    BY DEF PCs, Outcomes
  <2>3. pc'[c] = at /\ temp'[c] = temp[c] /\ outcome'[c] = o
    BY <1>1, <1>2, <2>1, <2>2
  <2>4. Fits(c)'
    BY <1>1, <2>1, <2>3 DEF Fits
  <2> QED
    BY <1>1, <1>3, <2>1, <2>2, <2>4
<1>7. CASE Unlink(c)
  <2>1. PICK t \in Temps, o \in {"converted", "failed"} :
          /\ Moves("finally", t, o) /\ pc[c] = "unlink" /\ UNCHANGED output
          /\ o = "converted" => t = "none"
    BY <1>1, <1>7 DEF Unlink, Goto, Ends, Temps
  <2>2. "finally" \in PCs /\ o \in Outcomes
    BY DEF PCs, Outcomes
  <2>3. pc'[c] = "finally" /\ temp'[c] = t /\ outcome'[c] = o
    BY <1>2, <2>1, <2>2
  <2>4. Fits(c)'
    BY <1>1, <2>1, <2>3 DEF Fits
  <2> QED
    BY <1>3, <2>1, <2>2, <2>4
<1>8. CASE Finally(c)
  <2>1. PICK t \in Temps, o \in {outcome[c], "error"} :
          /\ Moves("ended", t, o) /\ pc[c] = "finally" /\ UNCHANGED output
          /\ t = "none" \/ o = "error"
    BY <1>1, <1>8 DEF Finally, Goto, Ends, Temps
  <2>2. "ended" \in PCs /\ o \in Outcomes
    BY <1>1 DEF PCs, Outcomes
  <2>3. pc'[c] = "ended" /\ temp'[c] = t /\ outcome'[c] = o
    BY <1>2, <2>1, <2>2
  <2>4. Fits(c)'
    BY <1>1, <2>1, <2>3 DEF Fits
  <2> QED
    BY <1>3, <2>1, <2>2, <2>4
<1>9. CASE Crash(c)
  <2>1. Moves("dead", temp[c], outcome[c]) /\ UNCHANGED output
    BY <1>1, <1>9 DEF Crash, Goto
  <2>2. "dead" \in PCs
    BY DEF PCs
  <2>3. pc'[c] = "dead" /\ temp'[c] = temp[c] /\ outcome'[c] = outcome[c]
    BY <1>1, <1>2, <2>1, <2>2
  <2>4. Fits(c)'
    BY <1>1, <2>1, <2>3 DEF Fits
  <2> QED
    BY <1>1, <1>3, <2>1, <2>2, <2>4
<1> QED
  BY <1>4, <1>5, <1>6, <1>7, <1>8, <1>9

LEMMA NextKeeps == IInv /\ [Next]_vars => IInv'
<1> SUFFICES ASSUME IInv, [Next]_vars PROVE IInv'
  OBVIOUS
<1>1. CASE Next
  BY <1>1, ConversionKeeps DEF Next
<1>2. CASE UNCHANGED vars
  BY <1>2 DEF vars, IInv, TypeOK, OutputIsWhole, Fits
<1> QED
  BY <1>1, <1>2

\* What the proofs below rest on holds of every state, however the conversions race.
THEOREM Invariance == Spec => []IInv
<1> QED
  BY InitFits, NextKeeps, PTL DEF Spec

\* OutputIsWhole: whoever crashes, and at whatever step, the output name does not lead to
\* an unfinished file.
THEOREM OutputsAreWhole == Spec => []OutputIsWhole
<1>1. IInv => OutputIsWhole
  BY DEF IInv
<1> QED
  BY <1>1, Invariance, PTL

\* ConvertedIsMine: of any number of conversions to one name, the one that is told that it
\* converted has its own file there for good and leaves no temporary file.
THEOREM ConvertedFilesStay == Spec => []ConvertedIsMine
<1>1. IInv => ConvertedIsMine
  BY DEF IInv, Fits, ConvertedIsMine
<1> QED
  BY <1>1, Invariance, PTL

\* RowsIncrease: the rows of every file at the output name are in time order and their
\* prices in the order of a bar, for bars of any number, time and price.
THEOREM RowsAreInOrder == Spec => []RowsIncrease
<1>1. IInv => RowsIncrease
  <2> SUFFICES ASSUME IInv, output # Nobody
               PROVE  LET rows == Rows(bars[output])
                      IN  /\ \A i \in 2..Len(rows) : rows[i].millis > rows[i - 1].millis
                          /\ \A i \in DOMAIN rows : Ordered(rows[i])
    BY DEF RowsIncrease
  <2>1. output \in Conversions /\ Converts(bars[output]) /\ bars[output] \in Seq(Elements)
    BY InputsAreBars DEF IInv, TypeOK, Fits, Elements
  <2>2. PICK b \in Seq(Elements) : b = bars[output]
    BY <2>1
  <2>3. Good(b)
    BY <2>1, <2>2, ValidBarsAreGood DEF Converts
  <2>4. DOMAIN Rows(b) = 1 .. Len(b)
    BY DEF Rows
  <2> QED
    BY <2>2, <2>3, <2>4, RowsOfGoodBars
<1> QED
  BY <1>1, Invariance, PTL

\* ParsedConverts: the converter refuses no bars that the parser took, of any number, at
\* whole seconds of the session date, and what raises out of it has a price too large.
THEOREM ParsedBarsConvert == Spec => []ParsedConverts
<1>1. ASSUME IInv, NEW c \in Conversions, outcome[c] = "invalid", bars[c] # <<>>, Parses(bars[c]),
             \A i \in DOMAIN bars[c] : Belongs(bars[c][i]) /\ bars[c][i].time % Second = 0
      PROVE  FALSE
  <2>1. bars[c] \in Seq(Elements) /\ Refuses(bars[c])
    BY <1>1, InputsAreBars DEF IInv, TypeOK, Fits, Elements
  <2>2. PICK b \in Seq(Elements) : b = bars[c]
    BY <2>1
  <2>3. Validate(b) = "VALID"
    BY <1>1, <2>2, ParsedBarsAreGood, ValidBarsAreGood
  <2> QED
    BY <1>1, <2>1, <2>2, <2>3 DEF Refuses
<1>2. ASSUME IInv, NEW c \in Conversions, outcome[c] = "raises"
      PROVE  \E i \in DOMAIN bars[c] : TooLarge(bars[c][i])
  <2>1. bars[c] \in Seq(Elements) /\ ~Converts(bars[c]) /\ ~Refuses(bars[c])
    BY <1>2, InputsAreBars DEF IInv, TypeOK, Fits, Elements
  <2>2. PICK b \in Seq(Elements) : b = bars[c]
    BY <2>1
  <2>3. \A i \in DOMAIN b : \A j \in 1 .. (i - 1) : j \in DOMAIN b
    BY DOMAIN b = 1 .. Len(b), Len(b) \in Nat
  <2> QED
    BY <2>1, <2>2, <2>3 DEF Converts, Refuses
<1>3. IInv => ParsedConverts
  BY <1>1, <1>2 DEF ParsedConverts
<1> QED
  BY <1>3, Invariance, PTL
===============================================================================
