------------------------ MODULE BundlePublisher_proof ------------------------
(***************************************************************************)
(* Proofs about BundlePublisher, for every set of publishers and contents  *)
(* and every number of payload files.  The inductive invariant IInv adds   *)
(* to the safety properties what each publisher may rely on between two    *)
(* calls to the filesystem: what it has staged, whether the lock file is   *)
(* its own, and that the directory it renamed is still there.              *)
(***************************************************************************)
EXTENDS BundlePublisher, TLAPS

\* The publishers that know the lock file to be theirs.
InLock == {"target", "rename", "syncParent"}

\* The publishers whose lock file is not there, unless an earlier cleanup failed.
Outside == {"idle", "check", "verify", "parent", "mkdir", "write", "syncStaging", "lock",
            "recheck", "manifest", "ended"}

\* What the staging directory holds while it is filled, and once it is filled.
Staged ==
  \A p \in Publishers :
    /\ pc[p] = "write" => staging[p] # NoDir /\ staging[p].whole < Files
    /\ pc[p] \in {"syncStaging", "lock", "target", "rename"} =>
         staging[p] # NoDir /\ staging[p].whole = Files

\* The rename of a publisher that has not failed is in place, and after the fsync
\* of the parent it is there to stay.
Renamed ==
  \A p \in Publishers :
    /\ pc[p] = "cleanup" => failure[p] # "none"
    /\ pc[p] = "syncParent" => Exists /\ final.owner = p
    /\ pc[p] = "manifest" \/ (pc[p] = "unlock" /\ failure[p] = "none") =>
         Exists /\ final.owner = p /\ synced

\* Before it stages anything, and after the try block, a publisher has no staging.
Clean ==
  \A p \in Publishers \ spoiled :
    pc[p] \in {"idle", "check", "verify", "parent", "mkdir", "syncParent", "unlock",
               "recheck", "manifest", "ended"} => staging[p] = NoDir

LockHeld ==
  \A p \in Publishers :
    /\ pc[p] \in InLock => lock = p
    /\ pc[p] \in Outside /\ p \notin spoiled => lock # p

\* Only publishers that have run have left a lock file that may come back.
GhostsHaveRun == \A p \in ghosts : pc[p] # "idle"

IInv == /\ TypeOK
        /\ Staged
        /\ Renamed
        /\ Clean
        /\ LockHeld
        /\ GhostsHaveRun
        /\ BundleIsWhole
        /\ PublishedIsDurable
-----------------------------------------------------------------------------
LEMMA InitIInv == Init => IInv
<1> SUFFICES ASSUME Init PROVE IInv
    OBVIOUS
<1> USE DEF Init
<1>1. TypeOK
  BY DEF TypeOK
<1>2. Staged /\ Renamed /\ Clean /\ LockHeld /\ GhostsHaveRun
  BY NoProcIsNoPublisher DEF Staged, Renamed, Clean, LockHeld, InLock, GhostsHaveRun
<1>3. BundleIsWhole /\ PublishedIsDurable
  BY DEF BundleIsWhole, PublishedIsDurable, Exists
<1> QED BY <1>1, <1>2, <1>3 DEF IInv

\* A step of p that changes nothing but p's label, staging, failure and answer, and
\* perhaps the lock file and p's own mark: only what p relies on has to be shown.
LEMMA OwnStepKeeps ==
  ASSUME IInv, NEW p \in Publishers, TypeOK',
         UNCHANGED <<content, final, synced, lost>>, ghosts' \subseteq ghosts \cup {p},
         \A q \in Publishers \ {p} :
           /\ pc'[q] = pc[q] /\ staging'[q] = staging[q] /\ failure'[q] = failure[q]
           /\ answer'[q] = answer[q] /\ (q \in spoiled' <=> q \in spoiled)
           /\ pc[q] \in InLock => lock' = lock,
         lock' \in {lock, p, NoProc}, pc'[p] # "idle",
         pc'[p] = "write" => staging'[p] # NoDir /\ staging'[p].whole < Files,
         pc'[p] \in {"syncStaging", "lock", "target", "rename"} =>
           staging'[p] # NoDir /\ staging'[p].whole = Files,
         pc'[p] = "cleanup" => failure'[p] # "none",
         pc'[p] # "syncParent",
         pc'[p] = "manifest" \/ (pc'[p] = "unlock" /\ failure'[p] = "none") =>
           Exists /\ final.owner = p /\ synced,
         p \notin spoiled' /\ pc'[p] \in {"idle", "check", "verify", "parent", "mkdir",
                                          "unlock", "recheck", "manifest", "ended"} =>
           staging'[p] = NoDir,
         pc'[p] \in InLock => lock' = p,
         pc'[p] \in Outside /\ p \notin spoiled' => lock' # p,
         answer'[p] = "PUBLISHED" => p \in lost \/ (Exists /\ final.owner = p /\ synced)
  PROVE  IInv'
<1> USE DEF IInv, Exists
<1>1. Staged'
  BY DEF Staged
<1>2. Renamed'
  BY DEF Renamed
<1>3. Clean'
  BY DEF Clean
<1>4. LockHeld'
  BY NoProcIsNoPublisher DEF LockHeld
<1>5. GhostsHaveRun'
  BY DEF GhostsHaveRun, TypeOK
<1>6. BundleIsWhole' /\ PublishedIsDurable'
  BY DEF BundleIsWhole, PublishedIsDurable
<1> QED BY <1>1, <1>2, <1>3, <1>4, <1>5, <1>6

LEMMA StartKeeps == ASSUME IInv, NEW p \in Publishers, Start(p) PROVE IInv'
<1> USE DEF Start, Goto, disk
<1>1. TypeOK'
  BY DEF IInv, TypeOK, Running
<1> QED BY <1>1, OwnStepKeeps DEF IInv, TypeOK, Clean, LockHeld, Outside, InLock, PublishedIsDurable

LEMMA CheckKeeps == ASSUME IInv, NEW p \in Publishers, Check(p) PROVE IInv'
<1> USE DEF Check, Goto, disk
<1>1. TypeOK'
  BY DEF IInv, TypeOK, Running, Writing
<1> QED BY <1>1, OwnStepKeeps DEF IInv, TypeOK, Clean, LockHeld, Outside, InLock, PublishedIsDurable

LEMMA VerifyKeeps == ASSUME IInv, NEW p \in Publishers, Verify(p) PROVE IInv'
<1> USE DEF Verify, End, disk
<1>1. TypeOK'
  BY DEF IInv, TypeOK, Answers
<1> QED BY <1>1, OwnStepKeeps DEF IInv, TypeOK, Clean, LockHeld, Outside, InLock, PublishedIsDurable

LEMMA MakeParentKeeps == ASSUME IInv, NEW p \in Publishers, MakeParent(p) PROVE IInv'
<1> USE DEF MakeParent, Goto
<1>1. TypeOK'
  BY DEF IInv, TypeOK, Running, Writing
<1> QED BY <1>1, OwnStepKeeps DEF IInv, TypeOK, Clean, LockHeld, Outside, InLock, PublishedIsDurable

LEMMA MakeStagingKeeps == ASSUME IInv, NEW p \in Publishers, MakeStaging(p) PROVE IInv'
<1> USE DEF MakeStaging, Goto, disk
<1>1. TypeOK'
  BY PayloadsPositive DEF IInv, TypeOK, Running, Writing, Files
<1>2. staging'[p] = [whole |-> 0, partial |-> FALSE]
  BY DEF IInv, TypeOK
<1>3. 0 \in 0..Files /\ 0 < Files
  BY PayloadsPositive DEF Files
<1>4. staging'[p] # NoDir /\ staging'[p].whole < Files
  <2>1. [whole |-> 0, partial |-> FALSE] \in [whole : 0..Files, partial : BOOLEAN]
    BY <1>3
  <2>2. [whole |-> 0, partial |-> FALSE] # NoDir
    BY <2>1, NoDirIsNoDirectory, Zenon
  <2> QED BY <1>2, <1>3, <2>2
<1> QED BY <1>1, <1>4, OwnStepKeeps DEF IInv, TypeOK, Clean, LockHeld, Outside, InLock, PublishedIsDurable

LEMMA WriteFileKeeps == ASSUME IInv, NEW p \in Publishers, WriteFile(p) PROVE IInv'
<1> USE DEF WriteFile, Goto, disk
<1> DEFINE old == staging[p]
<1>1. old \in [whole : 0..Files, partial : BOOLEAN] /\ old.whole < Files /\ Files \in Nat
  BY PayloadsPositive DEF IInv, TypeOK, Staged, Files
<1>2. staging'[p] = [whole |-> old.whole + 1, partial |-> old.partial]
  BY <1>1 DEF IInv, TypeOK
<1>3. staging'[p] \in [whole : 0..Files, partial : BOOLEAN]
  BY <1>1, <1>2
<1>4. TypeOK'
  BY <1>3 DEF IInv, TypeOK, Running, Writing
<1>5. staging'[p] # NoDir
  BY <1>3, NoDirIsNoDirectory
<1> QED BY <1>1, <1>2, <1>4, <1>5, OwnStepKeeps
        DEF IInv, TypeOK, Clean, LockHeld, Outside, InLock, PublishedIsDurable

LEMMA SyncStagingKeeps == ASSUME IInv, NEW p \in Publishers, SyncStaging(p) PROVE IInv'
<1> USE DEF SyncStaging, Goto, disk
<1>1. TypeOK'
  BY DEF IInv, TypeOK, Running, Writing
<1> QED BY <1>1, OwnStepKeeps
        DEF IInv, TypeOK, Staged, LockHeld, Outside, InLock, PublishedIsDurable

LEMMA TakeLockKeeps == ASSUME IInv, NEW p \in Publishers, TakeLock(p) PROVE IInv'
<1> USE DEF TakeLock, Goto, Throw, disk
<1>1. TypeOK'
  BY DEF IInv, TypeOK, Running, Writing, Locked, Exceptions
<1> QED BY <1>1, OwnStepKeeps, NoProcIsNoPublisher
        DEF IInv, TypeOK, Staged, LockHeld, Outside, InLock, PublishedIsDurable

LEMMA CheckTargetKeeps == ASSUME IInv, NEW p \in Publishers, CheckTarget(p) PROVE IInv'
<1> USE DEF CheckTarget, Goto, Throw, disk
<1>1. TypeOK'
  BY DEF IInv, TypeOK, Running, Writing, Locked, Exceptions
<1> QED BY <1>1, OwnStepKeeps
        DEF IInv, TypeOK, Staged, LockHeld, Outside, InLock, PublishedIsDurable

LEMMA CleanupKeeps == ASSUME IInv, NEW p \in Publishers, Cleanup(p) PROVE IInv'
<1> USE DEF Cleanup, Goto, disk
<1>1. TypeOK'
  BY DEF IInv, TypeOK, Running, Writing, Locked
<1> QED BY <1>1, OwnStepKeeps
        DEF IInv, TypeOK, Renamed, LockHeld, Outside, InLock, PublishedIsDurable

LEMMA UnlockKeeps == ASSUME IInv, NEW p \in Publishers, Unlock(p) PROVE IInv'
<1> USE DEF Unlock, Goto, End
<1>1. failure[p] \in {"none", "FileExists", "other", "interrupt"}
  BY DEF IInv, TypeOK, Exceptions
<1>2. TypeOK'
  BY <1>1 DEF IInv, TypeOK, Running, Writing, Locked, Answers
<1> QED BY <1>1, <1>2, OwnStepKeeps, NoProcIsNoPublisher
        DEF IInv, TypeOK, Renamed, Clean, LockHeld, Outside, InLock, PublishedIsDurable

LEMMA RecheckKeeps == ASSUME IInv, NEW p \in Publishers, Recheck(p) PROVE IInv'
<1> USE DEF Recheck, Goto, End, disk
<1>1. TypeOK'
  BY DEF IInv, TypeOK, Running, Writing, Answers
<1> QED BY <1>1, OwnStepKeeps DEF IInv, TypeOK, Clean, LockHeld, Outside, InLock, PublishedIsDurable

LEMMA ReadManifestKeeps == ASSUME IInv, NEW p \in Publishers, ReadManifest(p) PROVE IInv'
<1> USE DEF ReadManifest, End, disk
<1>1. TypeOK'
  BY DEF IInv, TypeOK, Answers
<1> QED BY <1>1, OwnStepKeeps
        DEF IInv, TypeOK, Renamed, Clean, LockHeld, Outside, InLock, PublishedIsDurable

\* The two steps that touch the final directory for good: the rename creates it
\* where nothing was, and the fsync of its parent makes it last.
LEMMA RenameKeeps == ASSUME IInv, NEW p \in Publishers, Rename(p) PROVE IInv'
<1> USE DEF Rename, Goto, Throw, disk
<1>1. CASE Exists
  <2>1. TypeOK'
    BY <1>1 DEF IInv, TypeOK, Running, Writing, Exceptions
  <2> QED BY <1>1, <2>1, OwnStepKeeps
          DEF IInv, TypeOK, Staged, LockHeld, Outside, InLock, PublishedIsDurable
<1>2. CASE ~Exists
  <2>1. /\ pc[p] = "rename" /\ lock = p
        /\ staging[p] \in [whole : 0..Files, partial : BOOLEAN]
        /\ staging[p].whole = Files
    BY DEF IInv, TypeOK, Staged, LockHeld, InLock
  <2> DEFINE new == [owner |-> p, whole |-> Files, content |-> content[p]]
  <2>2. /\ final' = new /\ new \in [owner : Publishers, whole : 0..Files, content : Contents]
        /\ final'.owner = p /\ final'.whole = Files /\ final'.content = content[p]
    BY <1>2, <2>1 DEF IInv, TypeOK
  <2>3. Exists'
    BY <2>2, NoDirIsNoDirectory DEF Exists
  <2>4. TypeOK'
    BY <1>2, <2>2 DEF IInv, TypeOK, Running, Writing, Locked
  <2>5. \A q \in Publishers :
          /\ pc[q] \notin {"syncParent", "manifest"}
          /\ ~(pc[q] = "unlock" /\ failure[q] = "none")
          /\ answer[q] = "PUBLISHED" => q \in lost
    BY <1>2 DEF IInv, Renamed, PublishedIsDurable
  <2>6. /\ pc' = [pc EXCEPT ![p] = "syncParent"]
        /\ staging' = [staging EXCEPT ![p] = NoDir]
        /\ UNCHANGED <<content, lock, failure, answer, spoiled>>
    BY <1>2
  <2>7. /\ pc'[p] = "syncParent" /\ staging'[p] = NoDir
        /\ \A q \in Publishers \ {p} : pc'[q] = pc[q] /\ staging'[q] = staging[q]
    BY <2>6 DEF IInv, TypeOK
  <2>8. Staged' /\ Clean'
    BY <2>6, <2>7 DEF IInv, Staged, Clean
  <2>9. Renamed'
    BY <2>2, <2>3, <2>5, <2>6, <2>7 DEF IInv, Renamed
  <2>10. LockHeld'
    BY <2>1, <2>6, <2>7 DEF IInv, LockHeld, InLock, Outside
  <2>11. GhostsHaveRun'
    BY <2>6, <2>7 DEF IInv, GhostsHaveRun, TypeOK
  <2>12. BundleIsWhole' /\ PublishedIsDurable'
    BY <2>2, <2>5, <2>6 DEF BundleIsWhole, PublishedIsDurable
  <2> QED BY <2>4, <2>8, <2>9, <2>10, <2>11, <2>12 DEF IInv
<1> QED BY <1>1, <1>2

LEMMA SyncParentKeeps == ASSUME IInv, NEW p \in Publishers, SyncParent(p) PROVE IInv'
<1> USE DEF SyncParent, Goto, IInv
<1>1. TypeOK'
  BY DEF TypeOK, Running, Writing, Locked
<1>2. Staged' /\ Clean' /\ LockHeld'
  BY DEF TypeOK, Staged, Clean, LockHeld, InLock, Outside
<1>3. Renamed'
  BY DEF TypeOK, Renamed, Exists
<1>4. GhostsHaveRun'
  BY DEF GhostsHaveRun
<1>5. BundleIsWhole' /\ PublishedIsDurable'
  BY DEF BundleIsWhole, PublishedIsDurable, Exists
<1> QED BY <1>1, <1>2, <1>3, <1>4, <1>5
-----------------------------------------------------------------------------
\* Half a file spoils neither the type of a staging directory nor what is whole in it.
LEMMA HalfWrittenTyped ==
  ASSUME IInv, NEW p \in Publishers, HalfWritten(p)
  PROVE  /\ staging' \in [Publishers -> {NoDir} \cup [whole : 0..Files, partial : BOOLEAN]]
         /\ \A q \in Publishers \ {p} : staging'[q] = staging[q]
         /\ pc[p] # "write" => staging'[p] = staging[p]
<1>1. CASE pc[p] = "write"
  <2>1. staging[p] \in [whole : 0..Files, partial : BOOLEAN]
    BY <1>1 DEF IInv, TypeOK, Staged
  <2>2. [whole |-> staging[p].whole, partial |-> TRUE] \in [whole : 0..Files, partial : BOOLEAN]
    BY <2>1
  <2> QED BY <1>1, <2>2 DEF IInv, TypeOK, HalfWritten
<1>2. CASE pc[p] # "write"
  BY <1>2 DEF IInv, TypeOK, HalfWritten
<1> QED BY <1>1, <1>2

LEMMA IoErrorKeeps == ASSUME IInv, NEW p \in Publishers, IoError(p) PROVE IInv'
<1>1. /\ staging' \in [Publishers -> {NoDir} \cup [whole : 0..Files, partial : BOOLEAN]]
      /\ \A q \in Publishers \ {p} : staging'[q] = staging[q]
      /\ pc[p] # "write" => staging'[p] = staging[p]
  BY HalfWrittenTyped DEF IoError, IInv, TypeOK
<1>2. TypeOK'
  <2>1. pc' \in [Publishers -> {"idle", "ended", "dead"} \cup Running]
    BY DEF IoError, Throw, End, IInv, TypeOK, Running, Writing
  <2>2. failure' \in [Publishers -> Exceptions \cup {"none"}]
    BY DEF IoError, Throw, IInv, TypeOK, Exceptions
  <2>3. answer' \in [Publishers -> Answers \cup {"none"}]
    BY DEF IoError, End, IInv, TypeOK, Answers
  <2>4. UNCHANGED <<content, lock, final, synced, spoiled, parent, ghosts, lost>>
    BY DEF IoError, disk
  <2> QED BY <1>1, <2>1, <2>2, <2>3, <2>4 DEF IInv, TypeOK
<1> QED BY <1>1, <1>2, OwnStepKeeps
        DEF IoError, Throw, End, disk, IInv, TypeOK, Clean, LockHeld, Outside, InLock, PublishedIsDurable

LEMMA InterruptKeeps == ASSUME IInv, NEW p \in Publishers, Interrupt(p) PROVE IInv'
<1> USE DEF Interrupt, Goto, disk
<1>1. TypeOK'
  BY DEF IInv, TypeOK, Running, Writing, Locked, Exceptions
<1> QED BY <1>1, OwnStepKeeps DEF IInv, TypeOK, Outside, InLock, PublishedIsDurable

LEMMA CrashKeeps == ASSUME IInv, NEW p \in Publishers, Crash(p) PROVE IInv'
<1> USE DEF Crash, Goto, disk
<1>1. TypeOK'
  BY HalfWrittenTyped DEF IInv, TypeOK
<1> QED BY <1>1, HalfWrittenTyped, OwnStepKeeps
        DEF IInv, TypeOK, Outside, InLock, PublishedIsDurable

\* Without power nothing runs any more; a new parent goes with its content, and in one
\* that stays only what was not fsynced is undone.
LEMMA PowerLossKeeps == ASSUME IInv, PowerLoss PROVE IInv'
<1> USE DEF PowerLoss, IInv
<1>1. \A p \in Publishers : pc'[p] \notin Running /\ (pc'[p] = "dead" \/ pc'[p] = pc[p])
  BY DEF TypeOK, Running, Writing, Locked
<1>2. \A p \in Publishers : p \notin spoiled' => pc[p] = "idle" /\ p \notin spoiled /\ p \notin ghosts
  BY DEF GhostsHaveRun
<1>3. CASE ParentLost
  <2> USE <1>3 DEF ParentLost
  <2>1. TypeOK'
    BY NoDirIsNoDirectory DEF TypeOK, Exists
  <2>2. Staged' /\ Renamed'
    BY <1>1 DEF Staged, Renamed, Running, Writing, Locked
  <2>3. Clean' /\ LockHeld'
    BY <1>1, NoProcIsNoPublisher DEF Clean, LockHeld, InLock, Running, Writing, Locked
  <2>4. BundleIsWhole' /\ PublishedIsDurable'
    BY DEF BundleIsWhole, PublishedIsDurable, Exists
  <2> QED BY <2>1, <2>2, <2>3, <2>4 DEF GhostsHaveRun
<1>4. CASE ParentStays
  <2> USE <1>4 DEF ParentStays
  <2>1. TypeOK'
    BY DEF TypeOK
  <2>2. Staged' /\ Renamed'
    BY <1>1 DEF Staged, Renamed, Running, Writing, Locked
  <2>3. Clean'
    BY <1>2 DEF Clean
  <2>4. LockHeld'
    BY <1>1, <1>2, NoProcIsNoPublisher DEF LockHeld, InLock, Outside, Running, Writing, Locked
  <2>5. BundleIsWhole' /\ PublishedIsDurable'
    BY DEF BundleIsWhole, PublishedIsDurable, Exists
  <2> QED BY <2>1, <2>2, <2>3, <2>4, <2>5 DEF GhostsHaveRun
<1> QED BY <1>3, <1>4

LEMMA NextKeeps == IInv /\ [Next]_vars => IInv'
<1> SUFFICES ASSUME IInv, [Next]_vars PROVE IInv'
    OBVIOUS
<1>1. ASSUME NEW p \in Publishers, Step(p) PROVE IInv'
  BY <1>1, StartKeeps, CheckKeeps, VerifyKeeps, MakeParentKeeps, MakeStagingKeeps,
     WriteFileKeeps, SyncStagingKeeps, TakeLockKeeps, CheckTargetKeeps, RenameKeeps, SyncParentKeeps,
     CleanupKeeps, UnlockKeeps, RecheckKeeps, ReadManifestKeeps DEF Step
<1>2. CASE UNCHANGED vars
  BY <1>2 DEF vars, disk, IInv, TypeOK, Staged, Renamed, Clean, LockHeld, GhostsHaveRun,
              BundleIsWhole, PublishedIsDurable, Exists
<1> QED BY <1>1, <1>2, IoErrorKeeps, InterruptKeeps, CrashKeeps, PowerLossKeeps DEF Next
-----------------------------------------------------------------------------
\* What the proofs below rest on holds of every state of every publication.
THEOREM Invariance == Spec => []IInv
<1> QED BY InitIInv, NextKeeps, PTL DEF Spec

\* The variables keep the types their comments announce.
THEOREM TypeCorrect == Spec => []TypeOK
<1> QED BY Invariance, PTL DEF IInv

\* Whoever looks at the final directory finds every payload and the manifest of the
\* one publisher that renamed it there, wherever the others are and whatever fails.
THEOREM NeverHalfABundle == Spec => []BundleIsWhole
<1> QED BY Invariance, PTL DEF IInv

\* PUBLISHED is true when it is told and stays true: no other publisher, cleanup or
\* crash takes the bundle away again, and a loss of power only with a parent directory
\* that was made since the power came.
THEOREM PublishedForGood == Spec => []PublishedIsDurable
<1> QED BY Invariance, PTL DEF IInv

\* A publisher that ends without an interrupt or a failing cleanup leaves neither its
\* staging directory nor its lock file.
THEOREM LeavesNothing == Spec => []NothingLeft
<1>1. IInv => NothingLeft
  BY DEF IInv, Clean, LockHeld, Outside, NothingLeft
<1> QED BY <1>1, Invariance, PTL

\* Between taking the lock file and removing it a publisher is alone, stale lock files
\* and failed calls notwithstanding.
OneAtATime ==
  \A p, q \in Publishers : pc[p] \in InLock /\ pc[q] \in InLock => p = q

\* Of any number of publishers, one at most is between taking and removing the lock file.
THEOREM OnePublisherInside == Spec => []OneAtATime
<1>1. IInv => OneAtATime
  BY DEF IInv, LockHeld, OneAtATime
<1> QED BY <1>1, Invariance, PTL

\* The final directory changes in two ways: a rename makes it where there is none, and
\* a loss of power removes it before the fsync of its parent, or together with a new one.
LEMMA FinalStep ==
  ASSUME IInv, [Next]_vars
  PROVE  \/ UNCHANGED final
         \/ ~Exists
         \/ final' = NoDir /\ (~synced \/ ParentLost)
<1>1. ASSUME NEW p \in Publishers, Step(p) PROVE UNCHANGED final \/ ~Exists
  BY <1>1 DEF Step, Start, Check, Verify, MakeParent, MakeStaging, WriteFile, SyncStaging, TakeLock,
              CheckTarget, Rename, SyncParent, Cleanup, Unlock, Recheck, ReadManifest
<1>2. ASSUME NEW p \in Publishers, IoError(p) \/ Interrupt(p) \/ Crash(p) PROVE UNCHANGED final
  BY <1>2 DEF IoError, Interrupt, Crash
<1>3. ASSUME PowerLoss
      PROVE  UNCHANGED final \/ (final' = NoDir /\ (~synced \/ ParentLost))
  BY <1>3 DEF PowerLoss, ParentLost, ParentStays
<1> QED BY <1>1, <1>2, <1>3 DEF Next, vars

\* REUSED is answered by the verification of a directory with the same bytes only.
LEMMA ReusedStep ==
  ASSUME IInv, [Next]_vars, NEW p \in Publishers, answer[p] = "none", answer'[p] = "REUSED"
  PROVE  Exists /\ final.content = content[p]
<1> USE DEF IInv, TypeOK
<1>1. ASSUME NEW q \in Publishers, Verify(q) PROVE Exists /\ final.content = content[p]
  BY <1>1 DEF Verify, End
<1>2. ASSUME NEW q \in Publishers, ReadManifest(q) \/ Recheck(q) \/ Unlock(q) \/ IoError(q)
      PROVE  FALSE
  BY <1>2 DEF ReadManifest, Recheck, Unlock, IoError, End
<1>3. ASSUME NEW q \in Publishers,
             \/ Start(q) \/ Check(q) \/ MakeParent(q) \/ MakeStaging(q) \/ WriteFile(q) \/ SyncStaging(q)
             \/ TakeLock(q) \/ CheckTarget(q) \/ Rename(q) \/ SyncParent(q) \/ Cleanup(q)
             \/ Interrupt(q) \/ Crash(q)
      PROVE  FALSE
  BY <1>3 DEF Start, Check, MakeParent, MakeStaging, WriteFile, SyncStaging, TakeLock, CheckTarget,
              Rename, SyncParent, Cleanup, Interrupt, Crash
<1>4. ~PowerLoss
  BY DEF PowerLoss
<1>5. ~UNCHANGED vars
  BY DEF vars
<1> QED BY <1>1, <1>2, <1>3, <1>4, <1>5 DEF Next, Step

\* A bundle is never altered, replaced or removed, except by a loss of power before it
\* was fsynced or together with its new parent, and REUSED is only told for identical bytes.
THEOREM BundlesAreImmutable == Spec => NeverAltered
<1>1. IInv /\ [Next]_vars =>
        [/\ Exists => final' \in {final, NoDir}
         /\ Exists /\ synced => final' = final \/ ParentLost
         /\ \A p \in Publishers :
              answer[p] = "none" /\ answer'[p] = "REUSED" =>
                Exists /\ final.content = content[p]]_vars
  BY FinalStep, ReusedStep
<1> QED BY <1>1, Invariance, PTL DEF Spec, NeverAltered
==============================================================================
