--------------------------- MODULE BundlePublisher ---------------------------
(***************************************************************************)
(* dhan_lean/data/storage.py: ArtifactWriter.write_immutable_bundle, as    *)
(* publish_attempt_artifact of providers/zerodha/artifacts.py calls it.    *)
(* Several publishers, each its own process or a later run of one, want    *)
(* their bundle at the same final directory: each stages its files, takes  *)
(* the lock file beside the directory and renames the staging directory.   *)
(* The machine may lose power: what was not fsynced may then be lost.  The *)
(* writer fsyncs the parent of the final directory, but never the          *)
(* directories above it, the parent's own entry among them.                *)
(***************************************************************************)
EXTENDS Integers

CONSTANTS Publishers, Contents,
          Payloads,  \* how many payload files a bundle has; the manifest comes last
          NoDir, NoProc

ASSUME PayloadsPositive == Payloads \in Nat \ {0}

VARIABLES content,  \* content[p]: the bytes p publishes
          pc,       \* pc[p]: where in publish_attempt_artifact p is
          staging,  \* staging[p]: p's staging directory, its whole and partial files
          lock,     \* whose lock file lies beside the final directory
          final,    \* the final directory: whose staging directory it was
          parent,   \* the parent directory: "absent", "new" since the power came, or "kept"
          synced,   \* whether the parent directory was fsynced since the rename
          ghosts,   \* whose lock file was removed since the parent was last fsynced
          failure,  \* failure[p]: the exception on its way out of the writer
          spoiled,  \* history of the publishers whose cleanup failed or was undone
          lost,     \* history of the owners of bundles that went with their parent
          answer    \* answer[p]: what publish_attempt_artifact returned or raised

\* What only a loss of power makes a difference to.
disk == <<parent, ghosts, lost>>
vars == <<content, pc, staging, lock, final, synced, failure, spoiled, answer, disk>>

Files == Payloads + 1

ASSUME NoDirIsNoDirectory ==
  /\ NoDir \notin [whole : 0..Files, partial : BOOLEAN]
  /\ NoDir \notin [owner : Publishers, whole : 0..Files, content : Contents]
ASSUME NoProcIsNoPublisher == NoProc \notin Publishers

Locked == {"target", "rename", "syncParent", "unlock"}
Writing == {"parent", "mkdir", "write", "syncStaging", "lock", "cleanup"} \cup Locked
Running == {"check", "verify", "recheck", "manifest"} \cup Writing
Exceptions == {"FileExists", "other", "interrupt"}
Answers == {"PUBLISHED", "REUSED", "ArtifactCollision", "IncompleteArtifact",
            "ImmutablePublication", "ReadError", "interrupt"}

TypeOK ==
  /\ content \in [Publishers -> Contents]
  /\ pc \in [Publishers -> {"idle", "ended", "dead"} \cup Running]
  /\ staging \in [Publishers -> {NoDir} \cup [whole : 0..Files, partial : BOOLEAN]]
  /\ lock \in Publishers \cup {NoProc}
  /\ final \in {NoDir} \cup [owner : Publishers, whole : 0..Files, content : Contents]
  /\ parent \in {"absent", "new", "kept"}
  /\ synced \in BOOLEAN
  /\ ghosts \subseteq Publishers
  /\ failure \in [Publishers -> Exceptions \cup {"none"}]
  /\ spoiled \subseteq Publishers
  /\ lost \subseteq Publishers
  /\ answer \in [Publishers -> Answers \cup {"none"}]

Init ==
  /\ content \in [Publishers -> Contents]
  /\ pc = [p \in Publishers |-> "idle"]
  /\ staging = [p \in Publishers |-> NoDir]
  /\ lock = NoProc
  /\ final = NoDir
  /\ parent \in {"absent", "kept"}
  /\ synced = FALSE
  /\ ghosts = {}
  /\ failure = [p \in Publishers |-> "none"]
  /\ spoiled = {}
  /\ lost = {}
  /\ answer = [p \in Publishers |-> "none"]
-----------------------------------------------------------------------------
Goto(p, label) == pc' = [pc EXCEPT ![p] = label]

End(p, a) ==
  /\ pc' = [pc EXCEPT ![p] = "ended"]
  /\ answer' = [answer EXCEPT ![p] = a]

\* An Exception leaves the try block: first its handler, then the finally clause.
Throw(p, e) ==
  /\ pc' = [pc EXCEPT ![p] = "cleanup"]
  /\ failure' = [failure EXCEPT ![p] = e]

Exists == final # NoDir

\* directory.exists(), before anything is written.
Start(p) ==
  /\ pc[p] = "idle"
  /\ Goto(p, "check")
  /\ UNCHANGED <<content, staging, lock, final, synced, failure, answer, spoiled, disk>>

Check(p) ==
  /\ pc[p] = "check"
  /\ Goto(p, IF Exists THEN "verify" ELSE "parent")
  /\ UNCHANGED <<content, staging, lock, final, synced, failure, answer, spoiled, disk>>

\* _verify_existing_bundle: the names first, then the manifest and every payload.
Verify(p) ==
  /\ pc[p] = "verify"
  /\ End(p, IF ~Exists \/ final.whole < Files THEN "IncompleteArtifact"
            ELSE IF final.content = content[p] THEN "REUSED" ELSE "ArtifactCollision")
  /\ UNCHANGED <<content, staging, lock, final, synced, failure, spoiled, disk>>

\* parent.mkdir(parents=True, exist_ok=True): nothing fsyncs what it adds above.
MakeParent(p) ==
  /\ pc[p] = "parent"
  /\ parent' = IF parent = "absent" THEN "new" ELSE parent
  /\ Goto(p, "mkdir")
  /\ UNCHANGED <<content, staging, lock, final, synced, failure, answer, spoiled, ghosts, lost>>

MakeStaging(p) ==
  /\ pc[p] = "mkdir"
  /\ staging' = [staging EXCEPT ![p] = [whole |-> 0, partial |-> FALSE]]
  /\ Goto(p, "write")
  /\ UNCHANGED <<content, lock, final, synced, failure, answer, spoiled, disk>>

\* Staging is complete with the payloads alone.
WriteNoManifest(p) ==
  /\ pc[p] = "write"
  /\ staging' = [staging EXCEPT ![p].whole = @ + 1]
  /\ Goto(p, IF staging[p].whole + 1 < Payloads THEN "write" ELSE "syncStaging")
  /\ UNCHANGED <<content, lock, final, synced, failure, answer, spoiled, disk>>

\* One file is written, flushed, fsynced and, if a payload, read back.
WriteFile(p) ==
  /\ pc[p] = "write"
  /\ staging' = [staging EXCEPT ![p].whole = @ + 1]
  /\ Goto(p, IF staging[p].whole + 1 < Files THEN "write" ELSE "syncStaging")
  /\ UNCHANGED <<content, lock, final, synced, failure, answer, spoiled, disk>>

SyncStaging(p) ==
  /\ pc[p] = "syncStaging"
  /\ Goto(p, "lock")
  /\ UNCHANGED <<content, staging, lock, final, synced, failure, answer, spoiled, disk>>

\* O_CREAT | O_EXCL on the lock file; while another's lies there a publisher tries
\* again, and gives up when the final directory is there or five seconds have passed.
TakeLock(p) ==
  /\ pc[p] = "lock"
  /\ \/ /\ lock = NoProc
        /\ lock' = p
        /\ Goto(p, "target")
        /\ UNCHANGED failure
     \/ /\ lock # NoProc
        /\ Throw(p, "FileExists")
        /\ UNCHANGED lock
  /\ UNCHANGED <<content, staging, final, synced, answer, spoiled, disk>>

\* The check of the final directory, made with the lock held.
CheckTarget(p) ==
  /\ pc[p] = "target"
  /\ \/ ~Exists /\ Goto(p, "rename") /\ UNCHANGED failure
     \/ Exists /\ Throw(p, "FileExists")
  /\ UNCHANGED <<content, staging, lock, final, synced, answer, spoiled, disk>>

\* os.rename refuses a directory that has files in it.
Rename(p) ==
  /\ pc[p] = "rename"
  /\ IF Exists
     THEN Throw(p, "other") /\ UNCHANGED <<final, staging, synced>>
     ELSE /\ final' = [owner |-> p, whole |-> staging[p].whole, content |-> content[p]]
          /\ staging' = [staging EXCEPT ![p] = NoDir]
          /\ synced' = FALSE
          /\ Goto(p, "syncParent")
          /\ UNCHANGED failure
  /\ UNCHANGED <<content, lock, answer, spoiled, disk>>

\* The parent directory is never fsynced.
SkipSync(p) ==
  /\ pc[p] = "syncParent"
  /\ Goto(p, "unlock")
  /\ UNCHANGED <<content, staging, lock, final, synced, failure, answer, spoiled, disk>>

SyncParent(p) ==
  /\ pc[p] = "syncParent"
  /\ synced' = TRUE
  /\ ghosts' = {}
  /\ Goto(p, "unlock")
  /\ UNCHANGED <<content, staging, lock, final, failure, answer, spoiled, parent, lost>>

\* except Exception: rmtree of what is staged; its errors are ignored.
KeepStaging(p) ==
  /\ pc[p] = "cleanup"
  /\ Goto(p, "unlock")
  /\ UNCHANGED <<content, staging, lock, final, synced, failure, answer, spoiled, disk>>

\* The destination is removed too.
CleanupFinal(p) ==
  /\ pc[p] = "cleanup"
  /\ staging' = [staging EXCEPT ![p] = NoDir]
  /\ final' = NoDir
  /\ Goto(p, "unlock")
  /\ UNCHANGED <<content, lock, synced, failure, answer, spoiled, disk>>

Cleanup(p) ==
  /\ pc[p] = "cleanup"
  /\ \/ staging' = [staging EXCEPT ![p] = NoDir] /\ UNCHANGED spoiled
     \/ UNCHANGED staging /\ spoiled' = spoiled \cup {p}
  /\ Goto(p, "unlock")
  /\ UNCHANGED <<content, lock, final, synced, failure, answer, disk>>

\* finally: the lock file is removed if this call created it, errors ignored and the
\* parent not fsynced again; then the exception goes on, or the paths are returned.
Unlock(p) ==
  /\ pc[p] = "unlock"
  /\ \/ lock = p /\ lock' = NoProc /\ ghosts' = ghosts \cup {p} /\ UNCHANGED spoiled
     \/ lock = p /\ spoiled' = spoiled \cup {p} /\ UNCHANGED <<lock, ghosts>>
     \/ lock # p /\ UNCHANGED <<lock, ghosts, spoiled>>
  /\ \/ failure[p] = "none" /\ Goto(p, "manifest") /\ UNCHANGED answer
     \/ failure[p] = "FileExists" /\ Goto(p, "recheck") /\ UNCHANGED answer
     \/ failure[p] = "other" /\ End(p, "ImmutablePublication")
     \/ failure[p] = "interrupt" /\ End(p, "interrupt")
  /\ UNCHANGED <<content, staging, final, synced, failure, parent, lost>>

\* except FileExistsError: the directory is verified if there is one.
Recheck(p) ==
  /\ pc[p] = "recheck"
  /\ \/ Exists /\ Goto(p, "verify") /\ UNCHANGED answer
     \/ ~Exists /\ End(p, "ArtifactCollision")
  /\ UNCHANGED <<content, staging, lock, final, synced, failure, spoiled, disk>>

\* The published manifest is read for its hash.
ReadManifest(p) ==
  /\ pc[p] = "manifest"
  /\ End(p, "PUBLISHED")
  /\ UNCHANGED <<content, staging, lock, final, synced, failure, spoiled, disk>>
-----------------------------------------------------------------------------
\* What stops in the middle of a file leaves half of it in the staging directory.
HalfWritten(p) ==
  staging' = [staging EXCEPT ![p] = IF pc[p] = "write"
                                    THEN [whole |-> @.whole, partial |-> TRUE] ELSE @]

\* An OSError of any call, or a failed read-back.
IoError(p) ==
  /\ \/ /\ pc[p] \in {"parent", "mkdir", "write", "syncStaging", "lock", "rename", "syncParent"}
        /\ Throw(p, "other")
        /\ HalfWritten(p)
        /\ UNCHANGED answer
     \/ /\ pc[p] = "verify"
        /\ End(p, "IncompleteArtifact") \/ End(p, "ArtifactCollision")
        /\ UNCHANGED <<staging, failure>>
     \/ /\ pc[p] = "manifest"
        /\ End(p, "ReadError")
        /\ UNCHANGED <<staging, failure>>
  /\ UNCHANGED <<content, lock, final, synced, spoiled, disk>>

\* KeyboardInterrupt is no Exception: only the finally clause runs.
Interrupt(p) ==
  /\ pc[p] \in Writing \ {"unlock"}
  /\ failure' = [failure EXCEPT ![p] = "interrupt"]
  /\ spoiled' = spoiled \cup {p}
  /\ Goto(p, "unlock")
  /\ UNCHANGED <<content, staging, lock, final, synced, answer, disk>>

Crash(p) ==
  /\ pc[p] \in Running
  /\ Goto(p, "dead")
  /\ HalfWritten(p)
  /\ UNCHANGED <<content, lock, final, synced, failure, answer, spoiled, disk>>

\* A parent that is new goes with everything in it.
ParentLost ==
  /\ parent = "new"
  /\ parent' = "absent"
  /\ lock' = NoProc
  /\ final' = NoDir
  /\ staging' = [p \in Publishers |-> NoDir]
  /\ lost' = IF Exists THEN lost \cup {final.owner} ELSE lost

\* In a parent that stays, what was not fsynced may be undone: a rename, the making
\* or the removal of a lock file.  Nobody looks at the staging of another publisher.
ParentStays ==
  /\ parent' = IF parent = "new" THEN "kept" ELSE parent
  /\ lock' \in {lock, NoProc} \cup ghosts
  /\ final' \in {final} \cup (IF synced THEN {} ELSE {NoDir})
  /\ UNCHANGED <<staging, lost>>

\* Every process dies.  What is there when the power comes back is on the disk.
PowerLoss ==
  /\ \E p \in Publishers : pc[p] # "idle"
  /\ pc' = [p \in Publishers |-> IF pc[p] \in Running THEN "dead" ELSE pc[p]]
  /\ ParentLost \/ ParentStays
  /\ synced' = TRUE
  /\ ghosts' = {}
  /\ spoiled' = spoiled \cup {p \in Publishers : pc[p] # "idle"}
  /\ UNCHANGED <<content, failure, answer>>

Step(p) ==
  \/ Start(p) \/ Check(p) \/ Verify(p) \/ MakeParent(p) \/ MakeStaging(p)
  \/ WriteFile(p) \/ SyncStaging(p)
  \/ TakeLock(p) \/ CheckTarget(p) \/ Rename(p) \/ SyncParent(p)
  \/ Cleanup(p) \/ Unlock(p) \/ Recheck(p) \/ ReadManifest(p)

Next == \/ \E p \in Publishers : Step(p) \/ IoError(p) \/ Interrupt(p) \/ Crash(p)
        \/ PowerLoss

Spec == Init /\ [][Next]_vars
-----------------------------------------------------------------------------
\* "The final directory is created only [...] after every payload and the completion
\* manifest have been flushed" (storage.py:299): nobody ever sees half a bundle.
BundleIsWhole == Exists => final.whole = Files /\ final.content = content[final.owner]

\* PUBLISHED is told to the one publisher whose bundle it is, and only once a loss of
\* power cannot take it back, other than by taking a parent directory that this very
\* power-up made: its entry, and those of the directories above, are never fsynced.
PublishedIsDurable ==
  \A p \in Publishers :
    answer[p] = "PUBLISHED" => p \in lost \/ (Exists /\ final.owner = p /\ synced)

\* "Cleaned on failure" (AGENT_HANDOFF.md:123): a publisher that has ended, other
\* than by an interrupt or a failing cleanup, left neither staging nor lock file.
NothingLeft ==
  \A p \in Publishers \ spoiled : pc[p] = "ended" => staging[p] = NoDir /\ lock # p

\* A bundle is never altered, replaced or removed; only the power may take one back
\* whose directory entry was not fsynced, or together with a new parent directory.
\* REUSED is told for the same bytes alone: "identical attempts are reused, conflicting
\* bytes/metadata fail closed" (AGENT_HANDOFF.md:123).
NeverAltered ==
  [][/\ Exists => final' \in {final, NoDir}
     /\ Exists /\ synced => final' = final \/ ParentLost
     /\ \A p \in Publishers :
          answer[p] = "none" /\ answer'[p] = "REUSED" =>
            Exists /\ final.content = content[p]]_vars

\* "A failed staging publication never creates or removes a final bundle directory"
\* (AGENT_HANDOFF.md:124): who is told ImmutablePublicationError made none.
FailureMakesNoBundle ==
  \A p \in Publishers : answer[p] = "ImmutablePublication" => ~Exists \/ final.owner # p
==============================================================================
