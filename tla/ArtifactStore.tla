---------------------------- MODULE ArtifactStore ----------------------------
(***************************************************************************)
(* The content-addressed store of the lab: processes that materialize one  *)
(* corpus lock into one output directory, and a campaign that verifies the *)
(* directory (intermed-lab store.rs).                                      *)
(*                                                                         *)
(* A content stands for its hash.  Sources may be replaced, vanish and     *)
(* appear at any time, processes may be killed and started again, and the  *)
(* power may fail.  The record is written by AtomicFile.                   *)
(***************************************************************************)
EXTENDS AtomicFile, Sequences, FiniteSets

CONSTANTS
  Files,        \* paths a lock names
  Contents,
  Absent,
  Locks,        \* [order, pinned, optional]: the files in their order, the hash
                \* each is pinned to (Absent: none), those that may be missing
  MaxRewrites,  \* bound: changes of the sources
  MaxAttempts,  \* bound: materializations, of all processes
  MaxLosses     \* bound: losses of power

\* A lock names every file, and what it pins are hashes.
ASSUME LockAssumption ==
  /\ Absent \notin Contents
  /\ \A l \in Locks :
       /\ l.order \in Seq(Files) /\ l.order # <<>>
       /\ \A f \in Files : \E i \in DOMAIN l.order : l.order[i] = f
       /\ l.pinned \in [Files -> Contents \union {Absent}]
       /\ l.optional \subseteq Files

VARIABLES
  lock,
  source,       \* the candidate directory
  rewrites,
  blob,         \* the content of the file named by a hash
  blobLasting,  \* what it may be after a loss of power
  dest,         \* the materialized files
  destLasting,
  job,          \* per process: [left, checked, sha, copy, artifacts]
  attempts,
  losses,
  verifier      \* verify_target: [at, left, checked]

storeVars == <<lock, source, rewrites, blob, blobLasting, dest, destLasting, job, attempts,
               losses, verifier>>
vars   == <<pc, fileVars, storeVars>>
fixed  == <<lock, attempts, losses>>
blobs  == <<blob, blobLasting>>
dests  == <<dest, destLasting>>

NoCopy == [data |-> Absent, synced |-> FALSE]
Nothing == [f \in Files |-> Absent]
Job(left, artifacts) ==
  [left |-> left, checked |-> Absent, sha |-> Absent, copy |-> NoCopy, artifacts |-> artifacts]
NoJob == Job(<<>>, Nothing)
Idle  == [at |-> "idle", left |-> <<>>, checked |-> {}]
Ended == {"idle", "done", "failed", "dead"}

Current(p) == Head(job[p].left)

Init ==
  /\ FileInit
  /\ pc          = [p \in Writers |-> "idle"]
  /\ lock        \in Locks
  /\ source      \in [Files -> Contents \union {Absent}]
  /\ rewrites    = 0
  /\ blob        = [c \in Contents |-> Absent]
  /\ blobLasting = [c \in Contents |-> {Absent}]
  /\ dest        = [f \in Files |-> Absent]
  /\ destLasting = [f \in Files |-> {Absent}]
  /\ job         = [p \in Writers |-> NoJob]
  /\ attempts    = 0
  /\ losses      = 0
  /\ verifier    = Idle

\* What an ended materialization knew is gone.
Ends(p, how) == Goto(p, how) /\ job' = [job EXCEPT ![p] = NoJob]

Fail(p) == Ends(p, "failed") /\ UNCHANGED <<blobs, dests>>

-----------------------------------------------------------------------------
(* materialize.                                                             *)

Begin(p) ==
  /\ pc[p] \in Ended
  /\ attempts < MaxAttempts
  /\ attempts' = attempts + 1
  /\ job' = [job EXCEPT ![p] = Job(lock.order, Nothing)]
  /\ Goto(p, "check")
  /\ UNCHANGED <<fileVars, lock, source, rewrites, blobs, dests, losses, verifier>>

\* The file is recorded or skipped; after the last one comes the record.
Proceed(p, artifacts) ==
  /\ job' = [job EXCEPT ![p] = Job(Tail(job[p].left), artifacts)]
  /\ Goto(p, IF Len(job[p].left) = 1 THEN "stage" ELSE "check")

Record(p) == Proceed(p, [job[p].artifacts EXCEPT ![Current(p)] = job[p].sha])

\* The source is compared with the lock.
Check(p) ==
  LET f == Current(p)
  IN  /\ pc[p] = "check"
      /\ IF source[f] = Absent
         THEN IF f \in lock.optional THEN Proceed(p, job[p].artifacts) /\ UNCHANGED <<blobs, dests>>
              ELSE Fail(p)
         ELSE IF lock.pinned[f] \notin {Absent, source[f]} THEN Fail(p)
         ELSE /\ job' = [job EXCEPT ![p].checked = source[f]]
              /\ Goto(p, "ingest")
              /\ UNCHANGED <<blobs, dests>>
      /\ UNCHANGED <<fileVars, fixed, source, rewrites, verifier>>

-----------------------------------------------------------------------------
(* ingest.                                                                  *)

\* The source is hashed again; a blob of that name is verified and reused.
HashSource(p) ==
  LET c == source[Current(p)]
  IN  /\ pc[p] = "ingest"
      /\ IF c = Absent \/ blob[c] \notin {Absent, c} THEN Fail(p)
         ELSE /\ job' = [job EXCEPT ![p].sha = c]
              /\ Goto(p, IF blob[c] = c THEN "link" ELSE "copy")
              /\ UNCHANGED <<blobs, dests>>
      /\ UNCHANGED <<fileVars, fixed, source, rewrites, verifier>>

Copy(p) ==
  /\ pc[p] = "copy"
  /\ IF source[Current(p)] = Absent THEN Fail(p)
     ELSE /\ job' = [job EXCEPT ![p].copy = [data |-> source[Current(p)], synced |-> FALSE]]
          /\ Goto(p, "compare")
          /\ UNCHANGED <<blobs, dests>>
  /\ UNCHANGED <<fileVars, fixed, source, rewrites, verifier>>

\* Fault: the copy is not hashed again.
CompareNothing(p) ==
  /\ pc[p] = "compare"
  /\ job' = [job EXCEPT ![p].copy.synced = TRUE]
  /\ Goto(p, "commit")
  /\ UNCHANGED <<fileVars, fixed, source, rewrites, blobs, dests, verifier>>

\* sync_all, and the copy is hashed again: "artifact changed while being ingested".
Compare(p) ==
  /\ pc[p] = "compare"
  /\ IF job[p].copy.data # job[p].sha THEN Fail(p)
     ELSE /\ job' = [job EXCEPT ![p].copy.synced = TRUE]
          /\ Goto(p, "commit")
          /\ UNCHANGED <<blobs, dests>>
  /\ UNCHANGED <<fileVars, fixed, source, rewrites, verifier>>

\* The copy is renamed over the blob, which another process may have put there.
Commit(p) ==
  LET c    == job[p].sha
      copy == job[p].copy
  IN  /\ pc[p] = "commit"
      /\ blob' = [blob EXCEPT ![c] = copy.data]
      /\ blobLasting' = [blobLasting EXCEPT ![c] =
                           @ \union {copy.data, IF copy.synced THEN copy.data ELSE "torn"}]
      /\ Goto(p, "syncblob")
      /\ UNCHANGED <<fileVars, fixed, source, rewrites, dests, job, verifier>>

\* The rename fails; a blob that is there by now is verified instead.
CommitFails(p) ==
  /\ pc[p] = "commit"
  /\ IF blob[job[p].sha] = job[p].sha
     THEN Goto(p, "syncblob") /\ UNCHANGED <<job, blobs, dests>>
     ELSE Fail(p)
  /\ UNCHANGED <<fileVars, fixed, source, rewrites, verifier>>

SyncBlob(p) ==
  /\ pc[p] = "syncblob"
  /\ blobLasting' = [blobLasting EXCEPT ![job[p].sha] = {blob[job[p].sha]}]
  /\ Goto(p, "link")
  /\ UNCHANGED <<fileVars, fixed, source, rewrites, blob, dests, job, verifier>>

-----------------------------------------------------------------------------
(* materialize_blob.                                                        *)

\* Fault: an existing destination is replaced.
PlacedOver(p, data) ==
  LET f == Current(p)
  IN  /\ dest' = [dest EXCEPT ![f] = data]
      /\ destLasting' = [destLasting EXCEPT ![f] = @ \union {data}]
      /\ Record(p)
      /\ UNCHANGED blobs

\* Fault: an existing destination is taken for the right one.
PlacedUnverified(p, data) ==
  LET f == Current(p)
  IN  IF dest[f] = Absent
      THEN /\ dest' = [dest EXCEPT ![f] = data]
           /\ destLasting' = [destLasting EXCEPT ![f] = @ \union {data}]
           /\ Record(p)
           /\ UNCHANGED blobs
      ELSE Record(p) /\ UNCHANGED <<blobs, dests>>

\* hard_link never replaces: a destination that exists is verified.
Placed(p, data) ==
  LET f == Current(p)
  IN  IF dest[f] = Absent
      THEN /\ dest' = [dest EXCEPT ![f] = data]
           /\ destLasting' = [destLasting EXCEPT ![f] = @ \union {data}]
           /\ Record(p)
           /\ UNCHANGED blobs
      ELSE IF dest[f] = job[p].sha THEN Record(p) /\ UNCHANGED <<blobs, dests>>
      ELSE Fail(p)

Link(p) ==
  /\ pc[p] = "link"
  /\ Placed(p, blob[job[p].sha])
  /\ UNCHANGED <<fileVars, fixed, source, rewrites, verifier>>

\* The blob cannot be linked from here: a copy is staged next to the destination
\* and verified, and then linked in the same way.
LinkFails(p) ==
  /\ pc[p] = "link"
  /\ dest[Current(p)] = Absent
  /\ IF blob[job[p].sha] # job[p].sha THEN Fail(p)
     ELSE Goto(p, "publishcopy") /\ UNCHANGED <<job, blobs, dests>>
  /\ UNCHANGED <<fileVars, fixed, source, rewrites, verifier>>

PublishCopy(p) ==
  /\ pc[p] = "publishcopy"
  /\ Placed(p, job[p].sha)
  /\ UNCHANGED <<fileVars, fixed, source, rewrites, verifier>>

-----------------------------------------------------------------------------
(* The record, and failures.                                                *)

WriteRecord(p) ==
  /\ Stage(p, job[p].artifacts) \/ Publish(p) \/ SyncParent(p) \/ WriteFails(p)
  /\ job' = [job EXCEPT ![p] = IF pc'[p] \in Ended THEN NoJob ELSE @]
  /\ UNCHANGED <<fixed, source, rewrites, blobs, dests, verifier>>

\* Any read or write fails, and the materialization with it.
IOFails(p) ==
  /\ pc[p] \in {"check", "ingest", "copy", "compare", "syncblob", "publishcopy"}
  /\ Fail(p)
  /\ UNCHANGED <<fileVars, fixed, source, rewrites, verifier>>

Kill(p) ==
  /\ pc[p] \notin Ended
  /\ Ends(p, "dead")
  /\ temp' = [temp EXCEPT ![p] = NoTemp]
  /\ UNCHANGED <<file, lasting, renames, mine, acked>>
  /\ UNCHANGED <<fixed, source, rewrites, blobs, dests, verifier>>

PowerFails ==
  /\ losses < MaxLosses
  /\ losses' = losses + 1
  /\ FileAfterLoss
  /\ pc'   = [p \in Writers |-> "dead"]
  /\ job'  = [p \in Writers |-> NoJob]
  /\ blob' \in {b \in [Contents -> UNION {blobLasting[c] : c \in Contents}] :
                  \A c \in Contents : b[c] \in blobLasting[c]}
  /\ blobLasting' = [c \in Contents |-> {blob'[c]}]
  /\ dest' \in {d \in [Files -> UNION {destLasting[f] : f \in Files}] :
                  \A f \in Files : d[f] \in destLasting[f]}
  /\ destLasting' = [f \in Files |-> {dest'[f]}]
  /\ verifier' = Idle
  /\ UNCHANGED <<lock, source, rewrites, attempts>>

\* Somebody changes a source.
Rewrite(f, c) ==
  /\ rewrites < MaxRewrites
  /\ source[f] # c
  /\ rewrites' = rewrites + 1
  /\ source'   = [source EXCEPT ![f] = c]
  /\ UNCHANGED <<pc, fileVars, fixed, blobs, dests, job, verifier>>

-----------------------------------------------------------------------------
(* verify_target.                                                           *)

VerifyTarget ==
  /\ verifier.at # "running"
  /\ verifier' = [at |-> "running", left |-> lock.order, checked |-> {}]
  /\ UNCHANGED <<pc, fileVars, fixed, source, rewrites, blobs, dests, job>>

\* Fault: a file that is there is not compared with its pin.
AcceptedUnread(f) == dest[f] # Absent \/ f \in lock.optional

\* An optional file may be absent; what is there must have its pinned hash.
Accepted(f) == IF dest[f] = Absent THEN f \in lock.optional
               ELSE lock.pinned[f] \in {Absent, dest[f]}

VerifyFile ==
  LET f == Head(verifier.left)
  IN  /\ verifier.at = "running"
      /\ verifier' =
           IF ~Accepted(f) THEN [Idle EXCEPT !.at = "refused"]
           ELSE [at      |-> IF Len(verifier.left) = 1 THEN "verified" ELSE "running",
                 left    |-> Tail(verifier.left),
                 checked |-> IF dest[f] = Absent THEN verifier.checked
                             ELSE verifier.checked \union {f}]
      /\ UNCHANGED <<pc, fileVars, fixed, source, rewrites, blobs, dests, job>>

Next ==
  \/ \E p \in Writers :
       \/ Begin(p) \/ Check(p) \/ HashSource(p) \/ Copy(p) \/ Compare(p) \/ Commit(p)
       \/ CommitFails(p) \/ SyncBlob(p) \/ Link(p) \/ LinkFails(p) \/ PublishCopy(p)
       \/ WriteRecord(p) \/ IOFails(p) \/ Kill(p)
  \/ PowerFails
  \/ \E f \in Files, c \in Contents \union {Absent} : Rewrite(f, c)
  \/ VerifyTarget \/ VerifyFile

Spec == Init /\ [][Next]_vars

-----------------------------------------------------------------------------
(* Properties.                                                              *)

Steps == Ended \union {"check", "ingest", "copy", "compare", "commit", "syncblob", "link",
                       "publishcopy", "stage", "publish", "sync"}

Placeable == Contents \union {Absent}
Jobs == [left : Seq(Files), checked : Placeable, sha : Placeable,
         copy : [data : Placeable, synced : BOOLEAN], artifacts : [Files -> Placeable]]

\* Steps, contents and files where they belong.
TypeOK ==
  /\ pc \in [Writers -> Steps]
  /\ lock \in Locks /\ losses \in Nat
  /\ source \in [Files -> Placeable]
  /\ blob \in [Contents -> Placeable] /\ blobLasting \in [Contents -> SUBSET Placeable]
  /\ dest \in [Files -> Placeable] /\ destLasting \in [Files -> SUBSET Placeable]
  /\ job \in [Writers -> Jobs]
  /\ \A p \in Writers : pc[p] \notin Ended \union {"stage", "publish", "sync"} => job[p].left # <<>>
  /\ \A p \in Writers : pc[p] \in {"copy", "compare", "commit", "syncblob", "link", "publishcopy"} =>
       job[p].sha \in Contents

\* A blob has the content its name promises, whatever is replaced while it is
\* copied, whichever processes race to commit it and whatever the power takes
\* (store.rs: "content-addressed blob race produced invalid content").
BlobHonest == \A c \in Contents : {blob[c]} \union blobLasting[c] \subseteq {Absent, c}

\* store.rs: "the winner must be verified, never overwritten": a materialized
\* file, once there, is never changed; only a loss of power may take it away.
NoClobber ==
  [][\A f \in Files : dest[f] # Absent =>
       dest'[f] = dest[f] \/ (losses' > losses /\ dest'[f] = Absent)]_vars

\* Until the power fails, what a record lists is in the output directory with
\* the hash it lists, also when several processes materialize there; only
\* optional files are left out.
RecordHonest ==
  losses = 0 /\ file.data # NoVersion => \A f \in Files :
    IF file.data[f] = Absent THEN f \in lock.optional ELSE dest[f] = file.data[f]

\* store.rs verify_target: "Prove that the materialized target still contains
\* the payload pinned by its corpus lock. Required files fail closed": from the
\* verification on, whatever materializations are under way.
VerifiedIsPinned ==
  verifier.at = "verified" =>
    /\ Files \ verifier.checked \subseteq lock.optional
    /\ \A f \in verifier.checked : dest[f] # Absent /\ lock.pinned[f] \in {Absent, dest[f]}
=============================================================================
