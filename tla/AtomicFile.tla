----------------------------- MODULE AtomicFile ------------------------------
(***************************************************************************)
(* write_atomic (intermed-doctor-core io_util.rs): several writers publish *)
(* versions of one file by renaming a staged sibling over it.              *)
(*                                                                         *)
(* The file system is external: a rename is atomic for readers and a       *)
(* writer's death changes nothing, but a loss of power may undo renames    *)
(* since the directory was last synced, and leaves bytes that were not     *)
(* synced torn.  "lasting" holds what may be found after a loss of power.  *)
(***************************************************************************)
EXTENDS Integers

CONSTANTS
  Writers,
  NoVersion   \* the file does not exist

VARIABLES
  pc,       \* the step each writer is at
  file,     \* what readers see: [n, data, whole]
  lasting,  \* what they may see after a loss of power
  temp,     \* each writer's staged sibling: [data, synced]
  renames,  \* history: how often the file was replaced
  mine,     \* history: which of these replacements was the writer's last
  acked     \* history: the last replacement that was reported as successful

fileVars == <<file, lasting, temp, renames, mine, acked>>

Version(n, data, whole) == [n |-> n, data |-> data, whole |-> whole]
NoTemp == [data |-> NoVersion, synced |-> FALSE]
Goto(w, label) == pc' = [pc EXCEPT ![w] = label]

FileInit ==
  /\ file    = Version(0, NoVersion, TRUE)
  /\ lasting = {file}
  /\ temp    = [w \in Writers |-> NoTemp]
  /\ renames = 0
  /\ mine    = [w \in Writers |-> 0]
  /\ acked   = 0

-----------------------------------------------------------------------------
\* Fault: the staged bytes are not synced before they are renamed.
StagedUnsynced(data) == [data |-> data, synced |-> FALSE]

\* create_new, write_all, flush, sync_all.
Staged(data) == [data |-> data, synced |-> TRUE]

Stage(w, data) ==
  /\ pc[w] = "stage"
  /\ temp' = [temp EXCEPT ![w] = Staged(data)]
  /\ Goto(w, "publish")
  /\ UNCHANGED <<file, lasting, renames, mine, acked>>

\* rename.
Publish(w) ==
  LET version(whole) == Version(renames + 1, temp[w].data, whole)
  IN  /\ pc[w] = "publish"
      /\ renames' = renames + 1
      /\ file'    = version(TRUE)
      /\ lasting' = lasting \union {version(TRUE), version(temp[w].synced)}
      /\ mine'    = [mine EXCEPT ![w] = renames + 1]
      /\ temp'    = [temp EXCEPT ![w] = NoTemp]
      /\ Goto(w, "sync")
      /\ UNCHANGED acked

\* Fault: the directory entry is not synced.
SyncNothing(w) ==
  /\ pc[w] = "sync"
  /\ acked' = IF mine[w] > acked THEN mine[w] ELSE acked
  /\ Goto(w, "done")
  /\ UNCHANGED <<file, lasting, temp, renames, mine>>

\* File::open(parent)?.sync_all()? makes every earlier rename last.
SyncParent(w) ==
  /\ pc[w] = "sync"
  /\ lasting' = {file}
  /\ acked'   = IF mine[w] > acked THEN mine[w] ELSE acked
  /\ Goto(w, "done")
  /\ UNCHANGED <<file, temp, renames, mine>>

\* A stage or a rename that fails removes the sibling; a directory that cannot
\* be synced is reported although the file has been replaced.
WriteFails(w) ==
  /\ pc[w] \in {"stage", "publish", "sync"}
  /\ temp' = [temp EXCEPT ![w] = NoTemp]
  /\ Goto(w, "failed")
  /\ UNCHANGED <<file, lasting, renames, mine, acked>>

\* A loss of power, which also ends every writer.
FileAfterLoss ==
  /\ file'    \in lasting
  /\ lasting' = {file'}
  /\ temp'    = [w \in Writers |-> NoTemp]
  /\ UNCHANGED <<renames, mine, acked>>

-----------------------------------------------------------------------------
\* io_util.rs: "A concurrent reader or a crash mid-write therefore never sees a
\* truncated file", neither now nor after a loss of power.
WholeFile == \A v \in {file} \union lasting : v.whole

\* io_util.rs: the directory entry is synced so that the state can "survive a
\* crash after rename": a version whose write was reported as successful is not
\* lost to a loss of power, except to a later version.
AckedIsDurable == \A v \in {file} \union lasting : v.n >= acked
=============================================================================
