---------------------------- MODULE SourceArtifacts ----------------------------
(***************************************************************************)
(* dhan_lean/data/storage.py: ArtifactWriter.write_source_artifacts, the   *)
(* payload files and the checksum file of one run_id, written in place by  *)
(* processes that may use the same run_id.  Files are numbered in the      *)
(* order of files_to_write; the checksum file is the last.                 *)
(***************************************************************************)
EXTENDS Integers, FiniteSets

CONSTANTS Writers, Files,  \* Files: how many there are
          NoOwner

ASSUME FilesPositive == Files \in Nat \ {0, 1}
ASSUME NoOwnerIsNoWriter == NoOwner \notin Writers
ASSUME SomeWriter == Writers # {}

Names == 1..Files

VARIABLES file,     \* file[f]: who made it and how far it got
          stage, next, \* the step of each writer, and the file it is at
          written,  \* written_paths
          told

sourceVars == <<file, stage, next, written, told>>

Absent == [owner |-> NoOwner, whole |-> FALSE]

SourceInit ==
  /\ file = [f \in Names |-> Absent]
  /\ stage = [w \in Writers |-> "preflight"]
  /\ next = [w \in Writers |-> 1]
  /\ written = [w \in Writers |-> {}]
  /\ told = [w \in Writers |-> "none"]
-----------------------------------------------------------------------------
Exists(f) == file[f].owner # NoOwner
Enters(w, label) == stage' = [stage EXCEPT ![w] = label]
Reports(w, how) == told' = [told EXCEPT ![w] = how]

\* ensure_targets_available, one exists() at a time.
Preflight(w) ==
  /\ stage[w] = "preflight"
  /\ IF Exists(next[w])
     THEN Enters(w, "ended") /\ Reports(w, "exists") /\ UNCHANGED next
     ELSE /\ next' = [next EXCEPT ![w] = IF @ = Files THEN 1 ELSE @ + 1]
          /\ Enters(w, IF next[w] = Files THEN "open" ELSE "preflight")
          /\ UNCHANGED told
  /\ UNCHANGED <<file, written>>

\* open(..., 'wb')
OpenOver(w) ==
  /\ stage[w] = "open"
  /\ file' = [file EXCEPT ![next[w]] = [owner |-> w, whole |-> FALSE]]
  /\ Enters(w, "write")
  /\ UNCHANGED <<next, written, told>>

\* open(..., 'xb'); before the checksum file the others are read again.
Open(w) ==
  /\ stage[w] = "open"
  /\ \/ /\ ~Exists(next[w])
        /\ file' = [file EXCEPT ![next[w]] = [owner |-> w, whole |-> FALSE]]
        /\ Enters(w, "write") /\ UNCHANGED told
     \/ /\ Exists(next[w])
        /\ Enters(w, "cleanup") /\ Reports(w, "exists") /\ UNCHANGED file
     \/ /\ Enters(w, "cleanup") /\ Reports(w, "failed") /\ UNCHANGED file
  /\ UNCHANGED <<next, written>>

Write(w) ==
  /\ stage[w] = "write"
  /\ \/ /\ file' = [file EXCEPT ![next[w]] = [owner |-> @.owner, whole |-> TRUE]]
        /\ Enters(w, "chmod") /\ UNCHANGED told
     \/ /\ Enters(w, "cleanup") /\ Reports(w, "failed") /\ UNCHANGED file
  /\ UNCHANGED <<next, written>>

\* A file counts as written only now.
Chmod(w) ==
  /\ stage[w] = "chmod"
  /\ \/ /\ written' = [written EXCEPT ![w] = @ \cup {next[w]}]
        /\ next' = [next EXCEPT ![w] = @ + 1]
        /\ IF next[w] = Files
           THEN Enters(w, "ended") /\ Reports(w, "written")
           ELSE Enters(w, "open") /\ UNCHANGED told
     \/ /\ Enters(w, "cleanup") /\ Reports(w, "failed") /\ UNCHANGED <<next, written>>
  /\ UNCHANGED file

\* Whatever has one of the six names goes.
CleanupTargets(w) ==
  /\ stage[w] = "cleanup"
  /\ file' = [f \in Names |-> Absent]
  /\ Enters(w, "ended")
  /\ UNCHANGED <<next, written, told>>

\* except Exception: the written paths are unlinked, as far as that works.
Cleanup(w) ==
  /\ stage[w] = "cleanup"
  /\ \E kept \in SUBSET written[w] :
       file' = [f \in Names |-> IF f \in written[w] \ kept THEN Absent ELSE file[f]]
  /\ Enters(w, "ended")
  /\ UNCHANGED <<next, written, told>>

\* The process dies, or an interrupt goes past `except Exception'.
WriterDies(w) ==
  /\ stage[w] \notin {"ended", "dead"}
  /\ Enters(w, "dead")
  /\ UNCHANGED <<file, next, written, told>>

SourceNext == \E w \in Writers : Preflight(w) \/ Open(w) \/ Write(w) \/ Chmod(w) \/ Cleanup(w) \/ WriterDies(w)

SourceSpec == SourceInit /\ [][SourceNext]_sourceVars
-----------------------------------------------------------------------------
\* Who was told that the artifacts are written has all of them, and keeps them, whoever
\* else uses the run_id, fails, cleans up or dies.  Writers that race without a failing
\* call do not bring each other down: one of them gets the run_id.
OneWriterWins ==
  /\ \A w \in Writers :
       told[w] = "written" => \A f \in Names : file[f] = [owner |-> w, whole |-> TRUE]
  /\ \E w \in Writers : told[w] # "exists"

\* Writers never touch one another's files, not even the unfinished ones of a dead one.
NotMineNotTouched ==
  [][\A f \in Names : file'[f] # file[f] /\ Exists(f) =>
       \E w \in Writers : w = file[f].owner /\ stage'[w] # stage[w]]_sourceVars
===============================================================================
