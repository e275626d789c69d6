------------------------------ MODULE LabProofs ------------------------------
(***************************************************************************)
(* The lab's artifact store and its execution backend.  The two share      *)
(* nothing; Execution comes at the end.                                    *)
(*                                                                         *)
(* The promises of the artifact store and of the file its record is        *)
(* written to, for every number of processes, files, contents, changes and *)
(* losses of power.                                                        *)
(*                                                                         *)
(* The argument.  A copy is compared with its name before it is renamed to *)
(* it, so a blob, once there, never changes (StepInv, BlobHonest).  A      *)
(* destination is only ever filled (DestInv), so what a process has        *)
(* recorded stays true while it goes on, and so does what the record and   *)
(* the verifier have seen (RecordInv, VerifierInv).  Staged bytes are      *)
(* synced before they are renamed and the directory after, so nothing that *)
(* a loss of power may bring back is torn or older than what was reported  *)
(* (FileInv).                                                              *)
(***************************************************************************)
EXTENDS ArtifactStore, Execution, SequenceTheorems, TLAPS

Data == {NoVersion} \union [Files -> Placeable]

FileInv ==
  /\ renames \in Nat /\ acked \in Nat /\ acked <= renames
  /\ mine \in [Writers -> Nat]
  /\ temp \in [Writers -> [data : Data, synced : BOOLEAN]]
  /\ file \in lasting
  /\ lasting \subseteq [n : Nat, data : Data, whole : BOOLEAN]
  /\ \A v \in lasting : v.n >= acked /\ v.whole = TRUE
  /\ \A w \in Writers :
       /\ mine[w] <= renames
       /\ pc[w] = "publish" => temp[w].synced = TRUE
       /\ pc[w] = "sync" => mine[w] <= file.n

StepInv ==
  \A p \in Writers :
    /\ pc[p] = "commit" => job[p].copy.data = job[p].sha /\ job[p].copy.synced = TRUE
    /\ pc[p] \in {"syncblob", "link"} => blob[job[p].sha] = job[p].sha

DestInv == \A f \in Files : destLasting[f] \subseteq {Absent, dest[f]}

\* Nothing is listed that is not there.
Listed(artifacts) == \A f \in Files : artifacts[f] # Absent => dest[f] = artifacts[f]

\* Only optional files are left out, or those whose turn comes.
Covered(artifacts, left) ==
  \A f \in Files : artifacts[f] = Absent =>
    f \in lock.optional \/ \E i \in DOMAIN left : left[i] = f

Truthful(artifacts) == Listed(artifacts) /\ Covered(artifacts, <<>>)

\* What a process has recorded so far.
Sound(p) ==
  /\ pc[p] \notin Ended \union {"publish", "sync"} =>
       Listed(job[p].artifacts) /\ Covered(job[p].artifacts, job[p].left)
  /\ pc[p] = "stage" => job[p].left = <<>>
  /\ pc[p] = "publish" => Truthful(temp[p].data)

RecordInv ==
  losses = 0 =>
    /\ \A p \in Writers : Sound(p)
    /\ file.data # NoVersion => Truthful(file.data)

Pinned(f) == dest[f] # Absent /\ lock.pinned[f] \in {Absent, dest[f]}

VerifierInv ==
  /\ verifier.checked \subseteq Files
  /\ \A f \in verifier.checked : Pinned(f)
  /\ verifier.at = "running" =>
       /\ verifier.left \in Seq(Files) /\ verifier.left # <<>>
       /\ \A f \in Files \ verifier.checked :
            f \in lock.optional \/ \E i \in DOMAIN verifier.left : verifier.left[i] = f
  /\ verifier.at = "verified" => Files \ verifier.checked \subseteq lock.optional

IInv == TypeOK /\ FileInv /\ BlobHonest /\ StepInv /\ DestInv /\ RecordInv /\ VerifierInv

-----------------------------------------------------------------------------
(* Steps of one process that touch nothing but its place and its job.       *)

\* A process that fails, ends or goes on elsewhere.
Moves(p, label, j) ==
  /\ pc' = [pc EXCEPT ![p] = label]
  /\ job' = [job EXCEPT ![p] = j]

\* What Moves does to the tables.
LEMMA MovesTables ==
  ASSUME TypeOK, NEW p \in Writers, NEW label \in Steps, NEW j \in Jobs, Moves(p, label, j)
  PROVE  /\ pc' \in [Writers -> Steps] /\ job' \in [Writers -> Jobs]
         /\ pc'[p] = label /\ job'[p] = j
         /\ \A q \in Writers \ {p} : pc'[q] = pc[q] /\ job'[q] = job[q]
  BY DEF TypeOK, Moves

\* A new job is a job.
LEMMA JobType ==
  ASSUME NEW left \in Seq(Files), NEW artifacts \in [Files -> Placeable]
  PROVE  Job(left, artifacts) \in Jobs
  BY DEF Job, Jobs, NoCopy, Placeable

\* Nothing has been recorded at first.
LEMMA NoJobType == NoJob \in Jobs /\ Nothing \in [Files -> Placeable]
<1>1. <<>> \in Seq(Files) /\ Nothing \in [Files -> Placeable]
  BY EmptySeq DEF Nothing, Placeable
<1>2. QED BY <1>1, JobType DEF NoJob

\* The tail of a job's files.
LEMMA TailType ==
  ASSUME NEW s \in Seq(Files), s # <<>>
  PROVE  /\ Tail(s) \in Seq(Files) /\ Head(s) \in Files
         /\ Len(s) = 1 <=> Tail(s) = <<>>
         /\ \A f \in Files : (\E i \in DOMAIN s : s[i] = f) =>
              f = Head(s) \/ \E i \in DOMAIN Tail(s) : Tail(s)[i] = f
<1>1. /\ Tail(s) \in Seq(Files) /\ Head(s) \in Files /\ Len(Tail(s)) = Len(s) - 1
      /\ \A i \in 1 .. Len(Tail(s)) : Tail(s)[i] = s[i + 1]
      /\ Head(s) = s[1] /\ Len(s) \in Nat /\ Len(s) > 0
  BY HeadTailProperties, LenProperties, EmptySeq
<1>2. Len(s) = 1 <=> Tail(s) = <<>>
  BY <1>1, EmptySeq
<1>3. ASSUME NEW f \in Files, NEW i \in DOMAIN s, s[i] = f, f # Head(s)
      PROVE  \E j \in DOMAIN Tail(s) : Tail(s)[j] = f
  <2>1. i \in 1 .. Len(s) /\ i # 1
    BY <1>1, <1>3
  <2>2. i - 1 \in 1 .. Len(Tail(s)) /\ Tail(s)[i - 1] = s[i]
    BY <2>1, <1>1
  <2>3. DOMAIN Tail(s) = 1 .. Len(Tail(s))
    BY <1>1, LenProperties
  <2>4. QED BY <2>2, <2>3, <1>3
<1>4. QED BY <1>1, <1>2, <1>3

-----------------------------------------------------------------------------
(* Types.                                                                   *)

Keeps(p) ==
  \/ pc'[p] \in {"stage", "publish", "sync"} \union Ended
  \/ pc'[p] \in {"check", "ingest"} /\ job'[p].left # <<>>
  \/ /\ pc'[p] \in {"copy", "compare", "commit", "syncblob", "link", "publishcopy"}
     /\ job'[p].left # <<>> /\ job'[p].sha \in Contents

\* The part of TypeOK that steps of one process can disturb.
LEMMA TypeOfMove ==
  ASSUME TypeOK, NEW p \in Writers, NEW label \in Steps, NEW j \in Jobs, Moves(p, label, j), Keeps(p),
         lock' \in Locks, losses' \in Nat, source' \in [Files -> Placeable],
         blob' \in [Contents -> Placeable], blobLasting' \in [Contents -> SUBSET Placeable],
         dest' \in [Files -> Placeable], destLasting' \in [Files -> SUBSET Placeable]
  PROVE  TypeOK'
<1>1. /\ pc' \in [Writers -> Steps] /\ job' \in [Writers -> Jobs]
      /\ \A q \in Writers \ {p} : pc'[q] = pc[q] /\ job'[q] = job[q]
  BY MovesTables
<1>2. \A q \in Writers : pc'[q] \notin Ended \union {"stage", "publish", "sync"} => job'[q].left # <<>>
  BY <1>1 DEF TypeOK, Keeps
<1>3. \A q \in Writers : pc'[q] \in {"copy", "compare", "commit", "syncblob", "link", "publishcopy"} =>
        job'[q].sha \in Contents
  BY <1>1 DEF TypeOK, Keeps, Ended
<1>4. QED BY <1>1, <1>2, <1>3 DEF TypeOK

\* Proceed is a move.
LEMMA ProceedMoves ==
  ASSUME TypeOK, NEW p \in Writers, job[p].left # <<>>,
         NEW artifacts \in [Files -> Placeable], Proceed(p, artifacts)
  PROVE  /\ Moves(p, pc'[p], Job(Tail(job[p].left), artifacts))
         /\ Job(Tail(job[p].left), artifacts) \in Jobs
         /\ pc'[p] = IF Tail(job[p].left) = <<>> THEN "stage" ELSE "check"
         /\ pc'[p] \in Steps /\ Keeps(p)
<1>1. job[p].left \in Seq(Files)
  BY DEF TypeOK, Jobs
<1>2. /\ Tail(job[p].left) \in Seq(Files)
      /\ Len(job[p].left) = 1 <=> Tail(job[p].left) = <<>>
  BY <1>1, TailType
<1>3. Job(Tail(job[p].left), artifacts) \in Jobs
  BY <1>2, JobType
<1>4. /\ pc'[p] = IF Tail(job[p].left) = <<>> THEN "stage" ELSE "check"
      /\ Moves(p, pc'[p], Job(Tail(job[p].left), artifacts))
  BY <1>2 DEF Proceed, Goto, Moves, TypeOK
<1>5. job'[p].left = Tail(job[p].left)
  BY <1>4 DEF Moves, Job, TypeOK
<1>6. QED BY <1>3, <1>4, <1>5 DEF Keeps, Steps

\* Fail and the like are moves.
LEMMA EndMoves ==
  ASSUME TypeOK, NEW p \in Writers, NEW how \in Ended, Ends(p, how)
  PROVE  Moves(p, how, NoJob) /\ NoJob \in Jobs /\ how \in Steps /\ Keeps(p) /\ pc'[p] = how
  BY NoJobType DEF Ends, Goto, Moves, Keeps, TypeOK, Steps
\* A step of a process.
Step(p) ==
  \/ Begin(p) \/ Check(p) \/ HashSource(p) \/ Copy(p) \/ Compare(p) \/ Commit(p)
  \/ CommitFails(p) \/ SyncBlob(p) \/ Link(p) \/ LinkFails(p) \/ PublishCopy(p)
  \/ WriteRecord(p) \/ IOFails(p) \/ Kill(p)

\* A job that goes on with one of its parts changed.
LEMMA JobParts ==
  ASSUME TypeOK, NEW p \in Writers
  PROVE  /\ job[p] \in Jobs
         /\ \A c \in Placeable : /\ [job[p] EXCEPT !.checked = c] \in Jobs
                               /\ [job[p] EXCEPT !.sha = c] \in Jobs
                               /\ [job[p] EXCEPT !.copy = [data |-> c, synced |-> FALSE]] \in Jobs
         /\ [job[p] EXCEPT !.copy.synced = TRUE] \in Jobs
         /\ job[p].left \in Seq(Files) /\ job[p].artifacts \in [Files -> Placeable]
  BY DEF TypeOK, Jobs

\* The file a process is at.
LEMMA CurrentFile ==
  ASSUME TypeOK, NEW p \in Writers, job[p].left # <<>>
  PROVE  Current(p) \in Files
  BY JobParts, TailType DEF Current

\* Placed is a move that fills at most the current destination.
LEMMA PlacedMoves ==
  ASSUME TypeOK, NEW p \in Writers, NEW data \in Placeable,
         pc[p] \in {"link", "publishcopy"}, Placed(p, data)
  PROVE  /\ Moves(p, pc'[p], job'[p]) /\ job'[p] \in Jobs /\ pc'[p] \in Steps /\ Keeps(p)
         /\ UNCHANGED blobs
         /\ \/ /\ pc'[p] = "failed" /\ UNCHANGED dests
            \/ /\ Record(p)
               /\ dest' = [dest EXCEPT ![Current(p)] = IF @ = Absent THEN data ELSE @]
               /\ destLasting' = [destLasting EXCEPT ![Current(p)] =
                                    IF dest[Current(p)] = Absent THEN @ \union {data} ELSE @]
               /\ dest[Current(p)] \in {Absent, job[p].sha}
<1> DEFINE f == Current(p)
<1>1. f \in Files /\ job[p].left # <<>> /\ job[p].sha \in Contents
  BY CurrentFile DEF TypeOK, Ended
<1>2. [job[p].artifacts EXCEPT ![f] = job[p].sha] \in [Files -> Placeable]
  BY <1>1, JobParts DEF Placeable
<1>3. Record(p) => /\ Moves(p, pc'[p], job'[p]) /\ job'[p] \in Jobs
                   /\ pc'[p] \in Steps /\ Keeps(p)
  <2>1. SUFFICES ASSUME Record(p)
                 PROVE  /\ Moves(p, pc'[p], job'[p]) /\ job'[p] \in Jobs
                        /\ pc'[p] \in Steps /\ Keeps(p)
    OBVIOUS
  <2>2. Moves(p, pc'[p], Job(Tail(job[p].left), [job[p].artifacts EXCEPT ![f] = job[p].sha]))
    BY <1>1, <1>2, <2>1, ProceedMoves DEF Record
  <2>3. QED BY <1>1, <1>2, <2>1, <2>2, ProceedMoves DEF Record, Moves, TypeOK
<1>4. Fail(p) => /\ Moves(p, pc'[p], job'[p]) /\ job'[p] \in Jobs
                 /\ pc'[p] = "failed" /\ pc'[p] \in Steps /\ Keeps(p) /\ UNCHANGED <<blobs, dests>>
  BY EndMoves DEF Fail, Moves, TypeOK, Ended
<1>5. CASE dest[f] = Absent
  BY <1>1, <1>3, <1>5 DEF Placed
<1>6. CASE dest[f] # Absent /\ dest[f] = job[p].sha
  <2>1. Record(p) /\ UNCHANGED <<blobs, dests>>
    BY <1>6 DEF Placed
  <2>2. dest' = [dest EXCEPT ![f] = IF @ = Absent THEN data ELSE @]
    BY <2>1, <1>1, <1>6 DEF dests, TypeOK
  <2>3. destLasting' = [destLasting EXCEPT ![f] = IF dest[f] = Absent THEN @ \union {data} ELSE @]
    BY <2>1, <1>1, <1>6 DEF dests, TypeOK
  <2>4. QED BY <2>1, <2>2, <2>3, <1>3, <1>6 DEF blobs
<1>7. CASE dest[f] # Absent /\ dest[f] # job[p].sha
  BY <1>4, <1>7 DEF Placed, blobs, dests
<1>8. QED BY <1>5, <1>6, <1>7
\* Every step of a process is a move with typed outcome.
Moved(p) ==
  /\ Moves(p, pc'[p], job'[p]) /\ job'[p] \in Jobs /\ pc'[p] \in Steps /\ Keeps(p)
  /\ blob' \in [Contents -> Placeable] /\ blobLasting' \in [Contents -> SUBSET Placeable]
  /\ dest' \in [Files -> Placeable] /\ destLasting' \in [Files -> SUBSET Placeable]
  /\ UNCHANGED <<lock, losses, source, verifier>>

\* Fail, and what a failure leaves alone.
LEMMA FailMoves ==
  ASSUME TypeOK, NEW p \in Writers, Fail(p), UNCHANGED <<lock, losses, source, verifier>>
  PROVE  Moved(p) /\ pc'[p] = "failed" /\ UNCHANGED <<blobs, dests>>
  BY EndMoves DEF Fail, Moved, Moves, TypeOK, Ended, blobs, dests

\* A step that only goes to a label with a job.
LEMMA GoMoves ==
  ASSUME TypeOK, NEW p \in Writers, NEW j \in Jobs, NEW label \in Steps, Moves(p, label, j),
         label \in {"stage", "publish", "sync"} \union Ended
           \/ /\ j.left # <<>>
              /\ label \in {"copy", "compare", "commit", "syncblob", "link", "publishcopy"} => j.sha \in Contents,
         blob' \in [Contents -> Placeable], blobLasting' \in [Contents -> SUBSET Placeable],
         UNCHANGED dests, UNCHANGED <<lock, losses, source, verifier>>
  PROVE  Moved(p)
<1>1. pc'[p] = label /\ job'[p] = j
  BY MovesTables
<1>2. Keeps(p)
  BY <1>1 DEF Keeps, Steps
<1>3. QED BY <1>1, <1>2 DEF Moved, TypeOK, dests

\* Every action of a process.
LEMMA StepMoves ==
  ASSUME TypeOK, StepInv, BlobHonest, NEW p \in Writers, Step(p)
  PROVE  Moved(p)
<1> USE DEF fixed, blobs
<1>0. job[p] \in Jobs /\ blob \in [Contents -> Placeable] /\ blobLasting \in [Contents -> SUBSET Placeable]
      /\ DOMAIN pc = Writers /\ DOMAIN job = Writers /\ job = [job EXCEPT ![p] = job[p]]
  BY DEF TypeOK
<1>1. CASE Begin(p)
  <2>1. lock.order \in Seq(Files) /\ lock.order # <<>>
    BY LockAssumption DEF TypeOK
  <2>2. Job(lock.order, Nothing) \in Jobs /\ Job(lock.order, Nothing).left = lock.order
    BY <2>1, NoJobType, JobType DEF Job
  <2>3. Moves(p, "check", Job(lock.order, Nothing)) /\ UNCHANGED <<lock, losses, source, verifier, blobs, dests>>
    BY <1>1 DEF Begin, Moves, Goto
  <2>4. QED BY <1>0, <2>1, <2>2, <2>3, GoMoves DEF Steps
<1>2. CASE Check(p)
  <2>1. job[p].left # <<>> /\ Current(p) \in Files /\ source[Current(p)] \in Placeable
    BY <1>2, CurrentFile DEF Check, TypeOK, Ended
  <2>2. UNCHANGED <<lock, losses, source, verifier>>
    BY <1>2 DEF Check
  <2>3. CASE Fail(p)
    BY <2>2, <2>3, FailMoves
  <2>4. CASE Proceed(p, job[p].artifacts) /\ UNCHANGED <<blobs, dests>>
    BY <1>0, <2>1, <2>2, <2>4, JobParts, ProceedMoves DEF Moved, Moves, TypeOK, dests
  <2>5. CASE /\ job' = [job EXCEPT ![p].checked = source[Current(p)]]
             /\ Goto(p, "ingest") /\ UNCHANGED <<blobs, dests>>
    <3>1. Moves(p, "ingest", [job[p] EXCEPT !.checked = source[Current(p)]])
      BY <2>5 DEF Moves, Goto
    <3>2. [job[p] EXCEPT !.checked = source[Current(p)]].left = job[p].left
      BY <1>0 DEF Jobs
    <3>3. QED BY <1>0, <2>1, <2>2, <2>5, <3>1, <3>2, JobParts, GoMoves DEF Steps
  <2>6. QED BY <1>2, <2>3, <2>4, <2>5 DEF Check
<1>3. CASE HashSource(p)
  <2> DEFINE c == source[Current(p)]
  <2>1. job[p].left # <<>> /\ Current(p) \in Files /\ c \in Placeable
    BY <1>3, CurrentFile DEF HashSource, TypeOK, Ended
  <2>2. UNCHANGED <<lock, losses, source, verifier>>
    BY <1>3 DEF HashSource
  <2>3. CASE Fail(p)
    BY <2>2, <2>3, FailMoves
  <2>4. CASE /\ c # Absent /\ job' = [job EXCEPT ![p].sha = c]
             /\ Goto(p, IF blob[c] = c THEN "link" ELSE "copy") /\ UNCHANGED <<blobs, dests>>
    <3>1. Moves(p, IF blob[c] = c THEN "link" ELSE "copy", [job[p] EXCEPT !.sha = c])
      BY <2>4 DEF Moves, Goto
    <3>2. /\ [job[p] EXCEPT !.sha = c].left = job[p].left
          /\ [job[p] EXCEPT !.sha = c].sha = c /\ c \in Contents
      BY <1>0, <2>1, <2>4 DEF Jobs, Placeable
    <3>3. QED BY <1>0, <2>1, <2>2, <2>4, <3>1, <3>2, JobParts, GoMoves DEF Steps
  <2>5. QED BY <1>3, <2>3, <2>4 DEF HashSource
<1>4. CASE Copy(p)
  <2> DEFINE c == source[Current(p)]
             j == [job[p] EXCEPT !.copy = [data |-> c, synced |-> FALSE]]
  <2>1. job[p].left # <<>> /\ job[p].sha \in Contents /\ Current(p) \in Files /\ c \in Placeable
    BY <1>4, CurrentFile DEF Copy, TypeOK, Ended
  <2>2. UNCHANGED <<lock, losses, source, verifier>>
    BY <1>4 DEF Copy
  <2>3. CASE Fail(p)
    BY <2>2, <2>3, FailMoves
  <2>4. CASE /\ job' = [job EXCEPT ![p].copy = [data |-> c, synced |-> FALSE]]
             /\ Goto(p, "compare") /\ UNCHANGED <<blobs, dests>>
    <3>1. Moves(p, "compare", j)
      BY <2>4 DEF Moves, Goto
    <3>2. j.left = job[p].left /\ j.sha = job[p].sha
      BY <1>0 DEF Jobs
    <3>3. QED BY <1>0, <2>1, <2>2, <2>4, <3>1, <3>2, JobParts, GoMoves DEF Steps
  <2>5. QED BY <1>4, <2>3, <2>4 DEF Copy
<1>5. CASE Compare(p)
  <2> DEFINE j == [job[p] EXCEPT !.copy.synced = TRUE]
  <2>1. job[p].left # <<>> /\ job[p].sha \in Contents
    BY <1>5 DEF Compare, TypeOK, Ended
  <2>2. UNCHANGED <<lock, losses, source, verifier>>
    BY <1>5 DEF Compare
  <2>3. CASE Fail(p)
    BY <2>2, <2>3, FailMoves
  <2>4. CASE /\ job' = [job EXCEPT ![p].copy.synced = TRUE]
             /\ Goto(p, "commit") /\ UNCHANGED <<blobs, dests>>
    <3>1. Moves(p, "commit", j)
      BY <2>4 DEF Moves, Goto
    <3>2. j.left = job[p].left /\ j.sha = job[p].sha
      BY <1>0 DEF Jobs
    <3>3. QED BY <1>0, <2>1, <2>2, <2>4, <3>1, <3>2, JobParts, GoMoves DEF Steps
  <2>5. QED BY <1>5, <2>3, <2>4 DEF Compare
<1>6. CASE Commit(p)
  <2> DEFINE c == job[p].sha
             copy == job[p].copy
  <2>1. /\ job[p].left # <<>> /\ c \in Contents
        /\ copy.data = c /\ copy.synced = TRUE
    BY <1>6 DEF Commit, TypeOK, StepInv, Ended
  <2>2. /\ blob' = [blob EXCEPT ![c] = c]
        /\ blobLasting' = [blobLasting EXCEPT ![c] = @ \union {c}]
    BY <1>6, <2>1 DEF Commit
  <2>3. blob' \in [Contents -> Placeable] /\ blobLasting' \in [Contents -> SUBSET Placeable]
    BY <1>0, <2>1, <2>2 DEF Placeable
  <2>4. Moves(p, "syncblob", job[p]) /\ UNCHANGED <<lock, losses, source, verifier, dests>>
    BY <1>0, <1>6 DEF Commit, Moves, Goto
  <2>5. QED BY <1>0, <2>1, <2>3, <2>4, GoMoves DEF Steps
<1>7. CASE CommitFails(p)
  <2>1. job[p].left # <<>> /\ job[p].sha \in Contents
    BY <1>7 DEF CommitFails, TypeOK, Ended
  <2>2. UNCHANGED <<lock, losses, source, verifier>>
    BY <1>7 DEF CommitFails
  <2>3. CASE Fail(p)
    BY <2>2, <2>3, FailMoves
  <2>4. CASE Goto(p, "syncblob") /\ UNCHANGED <<job, blobs, dests>>
    <3>1. Moves(p, "syncblob", job[p])
      BY <1>0, <2>4 DEF Moves, Goto
    <3>2. QED BY <1>0, <2>1, <2>2, <2>4, <3>1, GoMoves DEF Steps
  <2>5. QED BY <1>7, <2>3, <2>4 DEF CommitFails
<1>8. CASE SyncBlob(p)
  <2> DEFINE c == job[p].sha
  <2>1. job[p].left # <<>> /\ c \in Contents
    BY <1>8 DEF SyncBlob, TypeOK, Ended
  <2>2. blob' = blob /\ blobLasting' \in [Contents -> SUBSET Placeable]
    BY <1>0, <1>8, <2>1 DEF SyncBlob
  <2>3. Moves(p, "link", job[p]) /\ UNCHANGED <<lock, losses, source, verifier, dests>>
    BY <1>0, <1>8 DEF SyncBlob, Moves, Goto
  <2>4. QED BY <1>0, <2>1, <2>2, <2>3, GoMoves DEF Steps
<1>9. ASSUME NEW data \in Placeable, pc[p] \in {"link", "publishcopy"}, Placed(p, data),
             UNCHANGED <<lock, losses, source, verifier>>
      PROVE  Moved(p)
  <2>1. /\ Moves(p, pc'[p], job'[p]) /\ job'[p] \in Jobs /\ pc'[p] \in Steps /\ Keeps(p)
        /\ UNCHANGED blobs
    BY <1>9, PlacedMoves
  <2>2. Current(p) \in Files
    BY <1>9, CurrentFile DEF TypeOK, Ended
  <2>3. dest' \in [Files -> Placeable] /\ destLasting' \in [Files -> SUBSET Placeable]
    BY <1>9, <2>2, PlacedMoves DEF TypeOK, dests
  <2>4. QED BY <1>0, <1>9, <2>1, <2>3 DEF Moved
<1>10. CASE Link(p)
  <2>1. job[p].sha \in Contents
    BY <1>10 DEF Link, TypeOK
  <2>2. QED BY <1>0, <1>9, <1>10, <2>1 DEF Link
<1>11. CASE LinkFails(p)
  <2>1. job[p].left # <<>> /\ job[p].sha \in Contents
    BY <1>11 DEF LinkFails, TypeOK, Ended
  <2>2. UNCHANGED <<lock, losses, source, verifier>>
    BY <1>11 DEF LinkFails
  <2>3. CASE Fail(p)
    BY <2>2, <2>3, FailMoves
  <2>4. CASE Goto(p, "publishcopy") /\ UNCHANGED <<job, blobs, dests>>
    <3>1. Moves(p, "publishcopy", job[p])
      BY <1>0, <2>4 DEF Moves, Goto
    <3>2. QED BY <1>0, <2>1, <2>2, <2>4, <3>1, GoMoves DEF Steps
  <2>5. QED BY <1>11, <2>3, <2>4 DEF LinkFails
<1>12. CASE PublishCopy(p)
  <2>1. job[p].sha \in Placeable
    BY <1>12 DEF PublishCopy, TypeOK, Placeable
  <2>2. QED BY <1>9, <1>12, <2>1 DEF PublishCopy
<1>13. CASE WriteRecord(p)
  <2>1. \E label \in {"publish", "sync", "done", "failed"} : pc' = [pc EXCEPT ![p] = label]
    BY <1>13 DEF WriteRecord, Stage, Publish, SyncParent, WriteFails, Goto
  <2>2. PICK label \in {"publish", "sync", "done", "failed"} : pc' = [pc EXCEPT ![p] = label]
    BY <2>1
  <2>3. \E j \in Jobs : job' = [job EXCEPT ![p] = j]
    BY <1>0, <1>13, NoJobType DEF WriteRecord
  <2>4. PICK j \in Jobs : job' = [job EXCEPT ![p] = j]
    BY <2>3
  <2>5. Moves(p, label, j) /\ UNCHANGED <<lock, losses, source, verifier, blobs, dests>>
    BY <1>13, <2>2, <2>4 DEF WriteRecord, Moves
  <2>6. QED BY <1>0, <2>5, GoMoves DEF Steps, Ended
<1>14. CASE IOFails(p)
  BY <1>14, FailMoves DEF IOFails
<1>15. CASE Kill(p)
  <2>1. Ends(p, "dead") /\ "dead" \in Ended /\ UNCHANGED <<lock, losses, source, verifier, blobs, dests>>
    BY <1>15 DEF Kill, Ended
  <2>2. QED BY <1>0, <2>1, EndMoves, GoMoves
<1>16. QED
  BY <1>1, <1>2, <1>3, <1>4, <1>5, <1>6, <1>7, <1>8, <1>10, <1>11, <1>12, <1>13, <1>14, <1>15 DEF Step

\* Types, over a step of a process.
LEMMA StepType ==
  ASSUME TypeOK, StepInv, BlobHonest, NEW p \in Writers, Step(p)
  PROVE  TypeOK'
<1>1. Moved(p)
  BY StepMoves
<1>2. lock' \in Locks /\ losses' \in Nat /\ source' \in [Files -> Placeable]
  BY <1>1 DEF Moved, TypeOK
<1>3. QED BY <1>1, <1>2, TypeOfMove DEF Moved

\* Types, over the other steps.
LEMMA OtherType ==
  ASSUME TypeOK,
         PowerFails \/ (\E f \in Files, c \in Placeable : Rewrite(f, c)) \/ VerifyTarget \/ VerifyFile
           \/ UNCHANGED vars
  PROVE  TypeOK'
<1> USE DEF fixed, blobs, dests
<1>1. CASE PowerFails
  <2>1. pc' = [p \in Writers |-> "dead"] /\ job' = [p \in Writers |-> NoJob] /\ losses' \in Nat
        /\ lock' = lock /\ source' = source
    BY <1>1 DEF PowerFails, TypeOK
  <2>2. blob' \in [Contents -> Placeable] /\ dest' \in [Files -> Placeable]
    BY <1>1 DEF PowerFails, TypeOK
  <2>3. blobLasting' \in [Contents -> SUBSET Placeable] /\ destLasting' \in [Files -> SUBSET Placeable]
    BY <1>1, <2>2 DEF PowerFails
  <2>4. QED BY <2>1, <2>2, <2>3, NoJobType DEF TypeOK, Steps, Ended
<1>2. ASSUME NEW f \in Files, NEW c \in Placeable, Rewrite(f, c)
      PROVE  TypeOK'
  BY <1>2 DEF Rewrite, TypeOK
<1>3. CASE VerifyTarget \/ VerifyFile \/ UNCHANGED vars
  BY <1>3 DEF VerifyTarget, VerifyFile, TypeOK, vars, storeVars
<1>4. QED BY <1>1, <1>2, <1>3
-----------------------------------------------------------------------------
(* The record's file.                                                       *)

\* Steps outside write_atomic leave its file alone.
LEMMA FileFrame ==
  ASSUME FileInv, UNCHANGED fileVars,
         \A w \in Writers : pc'[w] \in {"publish", "sync"} => pc'[w] = pc[w]
  PROVE  FileInv'
  BY DEF FileInv, fileVars

\* FileInv after a step, part by part.
LEMMA FileParts ==
  ASSUME (renames \in Nat /\ acked \in Nat /\ acked <= renames)',
         (mine \in [Writers -> Nat])',
         (temp \in [Writers -> [data : Data, synced : BOOLEAN]])',
         (file \in lasting)',
         (lasting \subseteq [n : Nat, data : Data, whole : BOOLEAN])',
         (\A v \in lasting : v.n >= acked /\ v.whole = TRUE)',
         (\A w \in Writers : /\ mine[w] <= renames
                             /\ pc[w] = "publish" => temp[w].synced = TRUE
                             /\ pc[w] = "sync" => mine[w] <= file.n)'
  PROVE  FileInv'
  BY DEF FileInv

\* write_atomic.
LEMMA RecordFile ==
  ASSUME TypeOK, FileInv, NEW p \in Writers, WriteRecord(p)
  PROVE  FileInv'
<1> USE DEF Goto
<1>0. pc \in [Writers -> Steps] /\ job[p].artifacts \in Data
  BY JobParts DEF TypeOK, Data
<1>1. CASE Stage(p, job[p].artifacts)
  BY <1>0, <1>1 DEF Stage, Staged, FileInv
<1>2. CASE Publish(p)
  <2>0. PICK new \in [n : Nat, data : Data, whole : BOOLEAN] :
          /\ new.n = renames + 1 /\ new.whole = TRUE
          /\ file' = new /\ lasting' = lasting \union {new}
    <3>1. temp[p].synced = TRUE /\ temp[p].data \in Data /\ renames + 1 \in Nat
      BY <1>2 DEF Publish, FileInv
    <3>2. /\ file' = Version(renames + 1, temp[p].data, TRUE)
          /\ lasting' = lasting \union {Version(renames + 1, temp[p].data, TRUE)}
      BY <1>2, <3>1 DEF Publish, Version
    <3>3. QED BY <3>1, <3>2 DEF Version
  <2>1. /\ renames' = renames + 1 /\ acked' = acked
        /\ mine' = [mine EXCEPT ![p] = renames + 1]
        /\ temp' = [temp EXCEPT ![p] = NoTemp] /\ pc' = [pc EXCEPT ![p] = "sync"]
    BY <1>2 DEF Publish
  <2>2. /\ renames' \in Nat /\ acked' \in Nat /\ acked' <= renames'
        /\ file' \in lasting' /\ lasting' \subseteq [n : Nat, data : Data, whole : BOOLEAN]
    BY <2>0, <2>1 DEF FileInv
  <2>3. (\A v \in lasting : v.n >= acked /\ v.whole = TRUE)'
    <3>1. \A v \in lasting : v.n >= acked /\ v.whole = TRUE
      BY DEF FileInv
    <3>2. new.n >= acked /\ new.whole = TRUE
      BY <2>0 DEF FileInv
    <3>3. QED BY <2>0, <2>1, <3>1, <3>2
  <2>4. temp' \in [Writers -> [data : Data, synced : BOOLEAN]] /\ mine' \in [Writers -> Nat]
    BY <2>1 DEF NoTemp, Data, FileInv
  <2>5. (\A w \in Writers : /\ mine[w] <= renames
                            /\ pc[w] = "publish" => temp[w].synced = TRUE
                            /\ pc[w] = "sync" => mine[w] <= file.n)'
    <3>1. SUFFICES ASSUME NEW w \in Writers
                   PROVE  (/\ mine[w] <= renames
                           /\ pc[w] = "publish" => temp[w].synced = TRUE
                           /\ pc[w] = "sync" => mine[w] <= file.n)'
      OBVIOUS
    <3>2. mine[w] \in Nat /\ mine[w] <= renames /\ renames \in Nat
      BY DEF FileInv
    <3>3. CASE w = p
      BY <2>0, <2>1, <3>2, <3>3, <1>0 DEF FileInv
    <3>4. CASE w # p
      BY <2>0, <2>1, <3>2, <3>4, <1>0 DEF FileInv
    <3>5. QED BY <3>3, <3>4
  <2>6. QED BY <2>2, <2>3, <2>4, <2>5, FileParts
<1>3. CASE SyncParent(p)
  <2>1. /\ lasting' = {file} /\ file' = file /\ UNCHANGED <<temp, renames, mine>>
        /\ acked' \in {acked, mine[p]} /\ acked' \in Nat
        /\ pc' = [pc EXCEPT ![p] = "done"] /\ mine[p] <= file.n /\ mine[p] <= renames
    BY <1>3 DEF SyncParent, FileInv
  <2>2. file.n >= acked'
    BY <2>1 DEF FileInv
  <2>3. acked' <= renames'
    BY <2>1 DEF FileInv
  <2>4. \A w \in Writers : /\ mine'[w] <= renames'
                           /\ pc'[w] = "publish" => temp'[w].synced = TRUE
                           /\ pc'[w] = "sync" => mine'[w] <= file'.n
    BY <2>1, <1>0 DEF FileInv
  <2>5. QED BY <2>1, <2>2, <2>3, <2>4 DEF FileInv
<1>4. CASE WriteFails(p)
  BY <1>0, <1>4 DEF WriteFails, NoTemp, Data, FileInv
<1>5. QED BY <1>1, <1>2, <1>3, <1>4 DEF WriteRecord

\* The file, over a step of a process.
LEMMA StepFile ==
  ASSUME TypeOK, StepInv, BlobHonest, FileInv, NEW p \in Writers, Step(p)
  PROVE  FileInv'
<1>1. CASE WriteRecord(p)
  BY <1>1, RecordFile
<1>2. CASE Kill(p)
  <2>1. /\ pc' = [pc EXCEPT ![p] = "dead"] /\ temp' = [temp EXCEPT ![p] = NoTemp]
        /\ UNCHANGED <<file, lasting, renames, mine, acked>>
    BY <1>2 DEF Kill, Ends, Goto
  <2>2. QED BY <2>1 DEF FileInv, TypeOK, NoTemp, Data
<1>3. ASSUME ~WriteRecord(p), ~Kill(p)
      PROVE  FileInv'
  <2>1. UNCHANGED fileVars
    BY <1>3 DEF Step, Begin, Check, HashSource, Copy, Compare, Commit, CommitFails, SyncBlob, Link,
                LinkFails, PublishCopy, IOFails
  <2>2. pc'[p] \notin {"publish", "sync"}
    BY <1>3 DEF Step, Begin, Check, HashSource, Copy, Compare, Commit, CommitFails, SyncBlob, Link,
                LinkFails, PublishCopy, IOFails, Fail, Ends, Goto, Proceed, Placed, Record, TypeOK
  <2>3. \A w \in Writers \ {p} : pc'[w] = pc[w]
    BY StepMoves, MovesTables DEF Moved
  <2>4. QED BY <2>1, <2>2, <2>3, FileFrame
<1>4. QED BY <1>1, <1>2, <1>3

\* The file, over the other steps.
LEMMA OtherFile ==
  ASSUME TypeOK, FileInv,
         PowerFails \/ (\E f \in Files, c \in Placeable : Rewrite(f, c)) \/ VerifyTarget \/ VerifyFile
           \/ UNCHANGED vars
  PROVE  FileInv'
<1>1. CASE PowerFails
  <2>1. /\ file' \in lasting /\ lasting' = {file'} /\ temp' = [w \in Writers |-> NoTemp]
        /\ UNCHANGED <<renames, mine, acked>> /\ pc' = [w \in Writers |-> "dead"]
    BY <1>1 DEF PowerFails, FileAfterLoss
  <2>2. QED BY <2>1 DEF FileInv, NoTemp, Data
<1>2. CASE ~PowerFails
  BY <1>2, FileFrame DEF Rewrite, VerifyTarget, VerifyFile, vars, fileVars
<1>3. QED BY <1>1, <1>2
-----------------------------------------------------------------------------
(* Blobs.                                                                   *)

\* Only a commit and a sync touch a blob, and neither changes one that is there.
LEMMA StepBlobs ==
  ASSUME TypeOK, StepInv, BlobHonest, NEW p \in Writers, Step(p)
  PROVE  BlobHonest' /\ \A c \in Contents : blob[c] = c => blob'[c] = c
<1> USE DEF blobs
<1>1. CASE Commit(p)
  <2> DEFINE c == job[p].sha
  <2>1. /\ c \in Contents /\ job[p].copy.data = c /\ job[p].copy.synced = TRUE
    BY <1>1 DEF Commit, TypeOK, StepInv
  <2>2. /\ blob' = [blob EXCEPT ![c] = c]
        /\ blobLasting' = [blobLasting EXCEPT ![c] = @ \union {c}]
    BY <1>1, <2>1 DEF Commit
  <2>3. QED BY <2>1, <2>2 DEF BlobHonest, TypeOK
<1>2. CASE SyncBlob(p)
  <2> DEFINE c == job[p].sha
  <2>1. c \in Contents /\ blob' = blob /\ blobLasting' = [blobLasting EXCEPT ![c] = {blob[c]}]
    BY <1>2 DEF SyncBlob, TypeOK
  <2>2. QED BY <2>1 DEF BlobHonest, TypeOK
<1>3. ASSUME ~Commit(p), ~SyncBlob(p)
      PROVE  UNCHANGED blobs
  <2>1. CASE Link(p) \/ PublishCopy(p)
    BY <2>1 DEF Link, PublishCopy, Placed, Fail
  <2>2. CASE ~Link(p) /\ ~PublishCopy(p)
    BY <1>3, <2>2 DEF Step, Begin, Check, HashSource, Copy, Compare, CommitFails, LinkFails, WriteRecord,
                      IOFails, Kill, Fail
  <2>3. QED BY <2>1, <2>2
<1>4. QED BY <1>1, <1>2, <1>3 DEF BlobHonest

\* Where a process stands fits what it has done.
LEMMA StepStands ==
  ASSUME TypeOK, StepInv, BlobHonest, NEW p \in Writers, Step(p)
  PROVE  StepInv'
<1>0. /\ Moved(p) /\ \A c \in Contents : blob[c] = c => blob'[c] = c
      /\ job[p] \in Jobs /\ pc \in [Writers -> Steps] /\ job \in [Writers -> Jobs]
  BY StepMoves, StepBlobs DEF TypeOK
<1>1. \A q \in Writers \ {p} : pc'[q] = pc[q] /\ job'[q] = job[q]
  BY <1>0, MovesTables DEF Moved
<1>2. ASSUME pc'[p] = "commit"
      PROVE  job'[p].copy.data = job'[p].sha /\ job'[p].copy.synced = TRUE
  <2>1. /\ job[p].copy.data = job[p].sha
        /\ job' = [job EXCEPT ![p].copy.synced = TRUE]
    BY <1>0, <1>2 DEF Step, Begin, Check, HashSource, Copy, Compare, Commit, CommitFails, SyncBlob, Link,
                LinkFails, PublishCopy, IOFails, WriteRecord, Stage, Publish, SyncParent, WriteFails, Kill,
                Fail, Ends, Goto, Proceed, Placed, Record
  <2>2. job[p].copy \in [data : Placeable, synced : BOOLEAN]
    BY <1>0 DEF Jobs
  <2>3. QED BY <1>0, <2>1, <2>2 DEF Jobs
<1>3. ASSUME pc'[p] \in {"syncblob", "link"}
      PROVE  blob'[job'[p].sha] = job'[p].sha
  <2>1. CASE HashSource(p)
    <3>1. /\ source[Current(p)] # Absent
          /\ job' = [job EXCEPT ![p].sha = source[Current(p)]]
          /\ Goto(p, IF blob[source[Current(p)]] = source[Current(p)] THEN "link" ELSE "copy")
          /\ UNCHANGED blobs
      BY <1>0, <1>3, <2>1 DEF HashSource, Fail, Ends, Goto
    <3>2. blob[source[Current(p)]] = source[Current(p)]
      BY <1>0, <1>3, <3>1 DEF Goto
    <3>3. job'[p].sha = source[Current(p)]
      BY <1>0, <3>1 DEF Jobs
    <3>4. QED BY <3>1, <3>2, <3>3 DEF blobs
  <2>2. CASE Commit(p)
    <3>1. job[p].sha \in Contents /\ job[p].copy.data = job[p].sha
      BY <2>2 DEF Commit, TypeOK, StepInv
    <3>2. blob' = [blob EXCEPT ![job[p].sha] = job[p].sha] /\ job' = job
      BY <2>2, <3>1 DEF Commit
    <3>3. QED BY <3>1, <3>2 DEF TypeOK
  <2>3. CASE CommitFails(p)
    BY <1>0, <1>3, <2>3 DEF CommitFails, Fail, Ends, Goto, blobs
  <2>4. CASE SyncBlob(p)
    BY <2>4 DEF SyncBlob, StepInv
  <2>5. CASE ~HashSource(p) /\ ~Commit(p) /\ ~CommitFails(p) /\ ~SyncBlob(p)
    BY <1>0, <1>3, <2>5 DEF Step, Begin, Check, Copy, Compare, Link,
                LinkFails, PublishCopy, IOFails, WriteRecord, Stage, Publish, SyncParent, WriteFails, Kill,
                Fail, Ends, Goto, Proceed, Placed, Record, Ended
  <2>6. QED BY <2>1, <2>2, <2>3, <2>4, <2>5
<1>4. \A q \in Writers \ {p} : pc[q] \in {"syncblob", "link"} => job[q].sha \in Contents
  BY DEF TypeOK
<1>5. QED BY <1>0, <1>1, <1>2, <1>3, <1>4 DEF StepInv

\* Blobs and stands, over the other steps.
LEMMA OtherBlobs ==
  ASSUME TypeOK, StepInv, BlobHonest,
         PowerFails \/ (\E f \in Files, c \in Placeable : Rewrite(f, c)) \/ VerifyTarget \/ VerifyFile
           \/ UNCHANGED vars
  PROVE  BlobHonest' /\ StepInv'
<1>1. CASE PowerFails
  <2>1. pc' = [p \in Writers |-> "dead"]
    BY <1>1 DEF PowerFails
  <2>2. \A c \in Contents : blob'[c] \in blobLasting[c] /\ blobLasting'[c] = {blob'[c]}
    BY <1>1 DEF PowerFails
  <2>3. QED BY <2>1, <2>2 DEF BlobHonest, StepInv
<1>2. CASE ~PowerFails
  BY <1>2 DEF Rewrite, VerifyTarget, VerifyFile, vars, storeVars, blobs, BlobHonest, StepInv
<1>3. QED BY <1>1, <1>2
-----------------------------------------------------------------------------
(* Destinations.                                                            *)

Filled == \A f \in Files : dest[f] # Absent => dest'[f] = dest[f]

\* A process only fills destinations.
LEMMA StepDests ==
  ASSUME TypeOK, StepInv, BlobHonest, DestInv, NEW p \in Writers, Step(p)
  PROVE  DestInv' /\ Filled
<1>1. ASSUME NEW data \in Placeable, pc[p] \in {"link", "publishcopy"}, Placed(p, data)
      PROVE  DestInv' /\ Filled
  <2>1. Current(p) \in Files
    BY <1>1, CurrentFile DEF TypeOK, Ended
  <2>2. CASE UNCHANGED dests
    BY <2>2 DEF dests, DestInv, Filled
  <2>3. CASE /\ dest' = [dest EXCEPT ![Current(p)] = IF @ = Absent THEN data ELSE @]
             /\ destLasting' = [destLasting EXCEPT ![Current(p)] =
                                  IF dest[Current(p)] = Absent THEN @ \union {data} ELSE @]
    BY <2>1, <2>3 DEF DestInv, Filled, TypeOK
  <2>4. QED BY <1>1, <2>2, <2>3, PlacedMoves
<1>2. CASE Link(p)
  <2>1. blob[job[p].sha] \in Placeable
    BY <1>2 DEF Link, TypeOK
  <2>2. QED BY <1>1, <1>2, <2>1 DEF Link
<1>3. CASE PublishCopy(p)
  <2>1. job[p].sha \in Placeable
    BY <1>3 DEF PublishCopy, TypeOK, Placeable
  <2>2. QED BY <1>1, <1>3, <2>1 DEF PublishCopy
<1>4. ASSUME ~Link(p), ~PublishCopy(p)
      PROVE  UNCHANGED dests
  BY <1>4 DEF Step, Begin, Check, HashSource, Copy, Compare, Commit, CommitFails, SyncBlob, LinkFails,
              WriteRecord, IOFails, Kill, Fail
<1>5. QED BY <1>2, <1>3, <1>4 DEF dests, DestInv, Filled

\* Destinations, over the other steps: only a loss of power takes one away.
LEMMA OtherDests ==
  ASSUME TypeOK, DestInv,
         PowerFails \/ (\E f \in Files, c \in Placeable : Rewrite(f, c)) \/ VerifyTarget \/ VerifyFile
           \/ UNCHANGED vars
  PROVE  /\ DestInv'
         /\ \A f \in Files : dest[f] # Absent =>
              dest'[f] = dest[f] \/ (losses' > losses /\ dest'[f] = Absent)
         /\ PowerFails \/ UNCHANGED dests
<1>1. CASE PowerFails
  <2>1. \A f \in Files : dest'[f] \in destLasting[f] /\ destLasting'[f] = {dest'[f]}
    BY <1>1 DEF PowerFails
  <2>2. losses' > losses
    BY <1>1 DEF PowerFails, TypeOK
  <2>3. QED BY <1>1, <2>1, <2>2 DEF DestInv
<1>2. CASE ~PowerFails
  BY <1>2 DEF Rewrite, VerifyTarget, VerifyFile, vars, storeVars, dests, DestInv
<1>3. QED BY <1>1, <1>2

-----------------------------------------------------------------------------
(* What is recorded.                                                        *)

\* A process that is through has nothing to answer for.
LEMMA SoundEnd ==
  ASSUME NEW p \in Writers, pc'[p] \in Ended \union {"sync"}
  PROVE  Sound(p)'
  BY DEF Sound, Ended

\* A process that goes on with what it has.
LEMMA SoundSame ==
  ASSUME NEW p \in Writers, Sound(p), Filled, lock' = lock,
         pc[p] \notin Ended \union {"publish", "sync"}, pc'[p] \notin {"stage", "publish"},
         job'[p].artifacts = job[p].artifacts, job'[p].left = job[p].left
  PROVE  Sound(p)'
  BY DEF Sound, Listed, Covered, Filled

\* A process that goes on to the next file.
LEMMA SoundProceed ==
  ASSUME TypeOK, NEW p \in Writers, Sound(p), lock' = lock,
         pc[p] \notin Ended \union {"stage", "publish", "sync"},
         NEW a \in [Files -> Placeable], Proceed(p, a),
         \A f \in Files : a[f] # Absent => dest'[f] = a[f],
         \A f \in Files : a[f] = Absent => job[p].artifacts[f] = Absent,
         a[Current(p)] # Absent \/ Current(p) \in lock.optional
  PROVE  Sound(p)'
<1>1. job[p].left \in Seq(Files) /\ job[p].left # <<>>
  BY JobParts DEF TypeOK
<1>2. /\ pc'[p] = IF Tail(job[p].left) = <<>> THEN "stage" ELSE "check"
      /\ job'[p].left = Tail(job[p].left) /\ job'[p].artifacts = a
  <2> DEFINE j == Job(Tail(job[p].left), a)
  <2>1. Moves(p, pc'[p], j) /\ j \in Jobs /\ pc'[p] \in Steps
    BY <1>1, ProceedMoves
  <2>2. j.left = Tail(job[p].left) /\ j.artifacts = a
    BY DEF Job
  <2> HIDE DEF j
  <2>3. job'[p] = j
    BY <2>1, MovesTables
  <2>4. QED BY <1>1, <2>2, <2>3, ProceedMoves
<1>3. ASSUME NEW f \in Files, a[f] = Absent, f \notin lock.optional
      PROVE  \E i \in DOMAIN Tail(job[p].left) : Tail(job[p].left)[i] = f
  <2>1. \E i \in DOMAIN job[p].left : job[p].left[i] = f
    BY <1>3 DEF Sound, Covered
  <2>2. f # Head(job[p].left)
    BY <1>3 DEF Current
  <2>3. QED BY <1>1, <2>1, <2>2, TailType
<1>4. Covered(job[p].artifacts, job[p].left)' /\ Listed(job[p].artifacts)'
  BY <1>2, <1>3 DEF Covered, Listed
<1>5. QED BY <1>2, <1>4 DEF Sound

\* A step of a process keeps its own account.
LEMMA StepSound ==
  ASSUME TypeOK, StepInv, BlobHonest, DestInv, NEW p \in Writers, Step(p), Sound(p),
         temp \in [Writers -> [data : Data, synced : BOOLEAN]]
  PROVE  Sound(p)'
<1>0. /\ Moved(p) /\ Filled /\ lock' = lock
      /\ job[p] \in Jobs /\ pc \in [Writers -> Steps] /\ job \in [Writers -> Jobs]
  BY StepMoves, StepDests DEF TypeOK, Moved
<1>1. CASE Fail(p)
  BY <1>0, <1>1, SoundEnd DEF Fail, Ends, Goto, Ended
<1>2. CASE Begin(p)
  <2>1. pc'[p] = "check" /\ job'[p] = Job(lock.order, Nothing)
    BY <1>0, <1>2 DEF Begin, Goto
  <2>2. \A f \in Files : \E i \in DOMAIN lock.order : lock.order[i] = f
    BY LockAssumption DEF TypeOK
  <2>3. job'[p].left = lock.order /\ job'[p].artifacts = Nothing
    BY <2>1 DEF Job
  <2>4. Listed(job[p].artifacts)' /\ Covered(job[p].artifacts, job[p].left)'
    BY <1>0, <2>2, <2>3 DEF Listed, Covered, Nothing
  <2>5. QED BY <2>1, <2>4 DEF Sound
<1>3. CASE Check(p) /\ ~Fail(p)
  <2>1. pc[p] = "check" /\ Current(p) \in Files
    BY <1>3, CurrentFile DEF Check, TypeOK, Ended
  <2>2. CASE Proceed(p, job[p].artifacts) /\ Current(p) \in lock.optional
    <3>1. job[p].artifacts \in [Files -> Placeable]
      BY JobParts
    <3>2. \A f \in Files : job[p].artifacts[f] # Absent => dest'[f] = job[p].artifacts[f]
      BY <1>0, <2>1 DEF Sound, Listed, Filled, Ended
    <3>3. pc[p] \notin Ended \union {"stage", "publish", "sync"}
      BY <2>1 DEF Ended
    <3>4. QED BY <1>0, <2>2, <3>1, <3>2, <3>3, SoundProceed
  <2>3. CASE job' = [job EXCEPT ![p].checked = source[Current(p)]] /\ Goto(p, "ingest")
    <3>1. /\ pc'[p] = "ingest"
          /\ job'[p].artifacts = job[p].artifacts /\ job'[p].left = job[p].left
      BY <1>0, <2>3 DEF Goto, Jobs
    <3>2. QED BY <1>0, <2>1, <3>1, SoundSame DEF Ended
  <2>4. QED BY <1>3, <2>2, <2>3 DEF Check
<1>4. CASE /\ HashSource(p) \/ Copy(p) \/ Compare(p) \/ Commit(p) \/ CommitFails(p) \/ SyncBlob(p) \/ LinkFails(p)
           /\ ~Fail(p)
  <2>1. /\ pc[p] \in {"ingest", "copy", "compare", "commit", "syncblob", "link"}
        /\ \E label \in {"link", "copy", "compare", "commit", "syncblob", "publishcopy"} : Goto(p, label)
    BY <1>4 DEF HashSource, Copy, Compare, Commit, CommitFails, SyncBlob, LinkFails
  <2>2. pc'[p] \notin {"stage", "publish"}
    BY <1>0, <2>1 DEF Goto
  <2>3. job'[p].artifacts = job[p].artifacts /\ job'[p].left = job[p].left
    BY <1>0, <1>4 DEF HashSource, Copy, Compare, Commit, CommitFails, SyncBlob, LinkFails, Jobs
  <2>4. QED BY <1>0, <2>1, <2>2, <2>3, SoundSame DEF Ended
<1>5. ASSUME NEW data \in Placeable, pc[p] \in {"link", "publishcopy"}, Placed(p, data), data = job[p].sha
      PROVE  Sound(p)'
  <2> DEFINE a == [job[p].artifacts EXCEPT ![Current(p)] = job[p].sha]
  <2>1. /\ Current(p) \in Files /\ job[p].sha \in Contents /\ job[p].sha # Absent
        /\ job[p].artifacts \in [Files -> Placeable]
    BY <1>5, CurrentFile, LockAssumption, JobParts DEF TypeOK, Ended
  <2>2. a \in [Files -> Placeable] /\ a[Current(p)] # Absent
        /\ \A f \in Files : a[f] = Absent => job[p].artifacts[f] = Absent
    BY <2>1 DEF Placeable
  <2>3. CASE pc'[p] = "failed"
    BY <2>3, SoundEnd DEF Ended
  <2>4. CASE /\ Record(p)
             /\ dest' = [dest EXCEPT ![Current(p)] = IF @ = Absent THEN data ELSE @]
             /\ dest[Current(p)] \in {Absent, job[p].sha}
    <3>1. dest'[Current(p)] = job[p].sha
      BY <1>5, <2>1, <2>4 DEF TypeOK
    <3>2. \A f \in Files : job[p].artifacts[f] # Absent => dest'[f] = job[p].artifacts[f]
      BY <1>0, <1>5 DEF Sound, Listed, Filled, Ended
    <3>3. \A f \in Files : a[f] # Absent => dest'[f] = a[f]
      BY <2>1, <3>1, <3>2
    <3>4. Proceed(p, a) /\ pc[p] \notin Ended \union {"stage", "publish", "sync"}
      BY <1>5, <2>4 DEF Record, Ended
    <3>5. QED BY <1>0, <2>2, <3>3, <3>4, SoundProceed
  <2>5. QED BY <1>5, <2>3, <2>4, PlacedMoves
<1>6. CASE Link(p)
  <2>1. blob[job[p].sha] = job[p].sha /\ job[p].sha \in Placeable
    BY <1>6 DEF Link, TypeOK, StepInv, Placeable
  <2>2. QED BY <1>5, <1>6, <2>1 DEF Link
<1>7. CASE PublishCopy(p)
  <2>1. job[p].sha \in Placeable
    BY <1>7 DEF PublishCopy, TypeOK, Placeable
  <2>2. QED BY <1>5, <1>7, <2>1 DEF PublishCopy
<1>8. CASE WriteRecord(p)
  <2>1. CASE Stage(p, job[p].artifacts)
    <3>1. /\ pc[p] = "stage" /\ pc'[p] = "publish" /\ UNCHANGED dests
          /\ temp'[p].data = job[p].artifacts
      BY <1>0, <1>8, <2>1 DEF WriteRecord, Stage, Staged, Goto
    <3>2. Listed(job[p].artifacts) /\ Covered(job[p].artifacts, <<>>)
      BY <3>1 DEF Sound, Ended
    <3>3. Listed(temp[p].data)' /\ Covered(temp[p].data, <<>>)'
      BY <1>0, <3>1, <3>2 DEF Listed, Covered, dests
    <3>4. QED BY <3>1, <3>3 DEF Sound, Truthful
  <2>2. CASE Publish(p) \/ SyncParent(p) \/ WriteFails(p)
    BY <1>0, <2>2, SoundEnd DEF Publish, SyncParent, WriteFails, Goto, Ended
  <2>3. QED BY <1>8, <2>1, <2>2 DEF WriteRecord
<1>9. CASE Kill(p)
  BY <1>0, <1>9, SoundEnd DEF Kill, Ends, Goto, Ended
<1>10. QED
  BY <1>1, <1>2, <1>3, <1>4, <1>6, <1>7, <1>8, <1>9 DEF Step, IOFails

\* The record, over a step of a process.
LEMMA StepRecord ==
  ASSUME TypeOK, StepInv, BlobHonest, DestInv, FileInv, RecordInv, NEW p \in Writers, Step(p)
  PROVE  RecordInv'
<1> SUFFICES ASSUME losses' = 0
             PROVE  (/\ \A q \in Writers : Sound(q)
                     /\ file.data # NoVersion => Truthful(file.data))'
  BY DEF RecordInv
<1>0. /\ Moved(p) /\ Filled /\ lock' = lock /\ losses = 0
      /\ temp \in [Writers -> [data : Data, synced : BOOLEAN]]
  BY StepMoves, StepDests DEF Moved, FileInv
<1>1. (\A q \in Writers : Sound(q)) /\ (file.data # NoVersion => Truthful(file.data))
  BY <1>0 DEF RecordInv
<1>2. Sound(p)'
  BY <1>0, <1>1, StepSound
<1>3. \A q \in Writers \ {p} : pc'[q] = pc[q] /\ job'[q] = job[q] /\ temp'[q] = temp[q]
  <2>1. \A q \in Writers \ {p} : temp'[q] = temp[q]
    BY <1>0 DEF Step, Begin, Check, HashSource, Copy, Compare, Commit, CommitFails, SyncBlob, Link, LinkFails,
                PublishCopy, WriteRecord, IOFails, Kill, Stage, Publish, SyncParent, WriteFails, fileVars
  <2>2. QED BY <1>0, <2>1, MovesTables DEF Moved
<1>4. ASSUME NEW q \in Writers \ {p}
      PROVE  Sound(q)'
  BY <1>0, <1>1, <1>3, <1>4 DEF Sound, Truthful, Listed, Covered, Filled
<1>5. (file.data # NoVersion => Truthful(file.data))'
  <2>1. CASE Publish(p)
    <3>1. pc[p] = "publish" /\ file'.data = temp[p].data
      BY <2>1 DEF Publish, Version
    <3>2. Truthful(temp[p].data)
      BY <1>1, <3>1 DEF Sound
    <3>3. QED BY <1>0, <3>1, <3>2 DEF Truthful, Listed, Covered, Filled
  <2>2. CASE ~Publish(p)
    <3>1. file' = file
      BY <2>2 DEF Step, Begin, Check, HashSource, Copy, Compare, Commit, CommitFails, SyncBlob, Link, LinkFails,
                  PublishCopy, WriteRecord, IOFails, Kill, Stage, SyncParent, WriteFails, fileVars
    <3>2. QED BY <1>0, <1>1, <3>1 DEF Truthful, Listed, Covered, Filled
  <2>3. QED BY <2>1, <2>2
<1>6. QED BY <1>2, <1>4, <1>5

\* The record, over the other steps.
LEMMA OtherRecord ==
  ASSUME TypeOK, DestInv, RecordInv,
         PowerFails \/ (\E f \in Files, c \in Placeable : Rewrite(f, c)) \/ VerifyTarget \/ VerifyFile
           \/ UNCHANGED vars
  PROVE  RecordInv'
<1>1. CASE PowerFails
  BY <1>1 DEF PowerFails, TypeOK, RecordInv
<1>2. CASE ~PowerFails
  <2>1. UNCHANGED <<pc, job, dest, file, temp, lock, losses>>
    BY <1>2 DEF Rewrite, VerifyTarget, VerifyFile, vars, storeVars, fileVars, fixed, dests
  <2>2. QED BY <2>1 DEF RecordInv, Sound, Truthful, Listed, Covered
<1>3. QED BY <1>1, <1>2

-----------------------------------------------------------------------------
(* The verifier.                                                            *)

\* What has been verified stays so while destinations are only filled.
LEMMA VerifierFrame ==
  ASSUME VerifierInv, Filled, UNCHANGED <<lock, verifier>>
  PROVE  VerifierInv'
<1>1. \A f \in Files : Pinned(f) => Pinned(f)'
  BY DEF Pinned, Filled
<1>2. QED BY <1>1 DEF VerifierInv

\* The verifier, over the other steps.
LEMMA OtherVerifier ==
  ASSUME TypeOK, DestInv, VerifierInv,
         PowerFails \/ (\E f \in Files, c \in Placeable : Rewrite(f, c)) \/ VerifyTarget \/ VerifyFile
           \/ UNCHANGED vars
  PROVE  VerifierInv'
<1>1. CASE PowerFails
  BY <1>1 DEF PowerFails, VerifierInv, Idle
<1>2. CASE \E f \in Files, c \in Placeable : Rewrite(f, c)
  BY <1>2, VerifierFrame DEF Rewrite, Filled, fixed, dests
<1>3. CASE UNCHANGED vars
  BY <1>3, VerifierFrame DEF vars, storeVars, Filled
<1>4. CASE VerifyTarget
  <2>1. /\ verifier' = [at |-> "running", left |-> lock.order, checked |-> {}]
        /\ lock' = lock /\ dest' = dest
    BY <1>4 DEF VerifyTarget, fixed, dests
  <2>2. /\ lock.order \in Seq(Files) /\ lock.order # <<>>
        /\ \A f \in Files : \E i \in DOMAIN lock.order : lock.order[i] = f
    BY LockAssumption DEF TypeOK
  <2>3. QED BY <2>1, <2>2 DEF VerifierInv
<1>5. CASE VerifyFile
  <2> DEFINE s == verifier.left
             g == Head(verifier.left)
  <2>1. /\ s \in Seq(Files) /\ s # <<>> /\ lock' = lock /\ dest' = dest /\ verifier.checked \subseteq Files
        /\ \A f \in Files \ verifier.checked :
             f \in lock.optional \/ \E i \in DOMAIN s : s[i] = f
    BY <1>5 DEF VerifyFile, VerifierInv, fixed, dests
  <2>2. /\ Tail(s) \in Seq(Files) /\ g \in Files
        /\ Len(s) = 1 <=> Tail(s) = <<>>
        /\ \A f \in Files : (\E i \in DOMAIN s : s[i] = f) =>
             f = g \/ \E i \in DOMAIN Tail(s) : Tail(s)[i] = f
    BY <2>1, TailType
  <2>3. CASE ~Accepted(g)
    <3>1. verifier'.at = "refused" /\ verifier'.checked = {}
      BY <1>5, <2>3 DEF VerifyFile, Idle
    <3>2. QED BY <3>1 DEF VerifierInv
  <2>4. CASE Accepted(g)
    <3> DEFINE seen == IF dest[g] = Absent THEN verifier.checked ELSE verifier.checked \union {g}
    <3>1. /\ verifier'.at = IF Tail(s) = <<>> THEN "verified" ELSE "running"
          /\ verifier'.left = Tail(s) /\ verifier'.checked = seen
      BY <1>5, <2>2, <2>4 DEF VerifyFile
    <3>2. seen \subseteq Files /\ \A f \in seen : Pinned(f)
      BY <2>1, <2>2, <2>4 DEF Accepted, Pinned, VerifierInv
    <3>3. \A f \in seen : Pinned(f)'
      BY <2>1, <3>2 DEF Pinned
    <3>4. \A f \in Files \ seen : f \in lock.optional \/ \E i \in DOMAIN Tail(s) : Tail(s)[i] = f
      BY <2>1, <2>2, <2>4 DEF Accepted
    <3>5. Tail(s) = <<>> => Files \ seen \subseteq lock.optional
      <4>1. DOMAIN <<>> = {}
        OBVIOUS
      <4>2. QED BY <3>4, <4>1
    <3>6. QED BY <2>1, <2>2, <3>1, <3>2, <3>3, <3>4, <3>5 DEF VerifierInv
  <2>5. QED BY <2>3, <2>4
<1>6. QED BY <1>1, <1>2, <1>3, <1>4, <1>5

-----------------------------------------------------------------------------
(* The invariant, and what follows.                                         *)

\* The invariant holds at first.
LEMMA InitInv == Init => IInv
<1> SUFFICES ASSUME Init PROVE IInv
  OBVIOUS
<1> USE DEF Init, FileInit
<1>1. TypeOK
  BY NoJobType DEF TypeOK, Steps, Ended, Placeable
<1>2. FileInv
  BY DEF FileInv, Version, NoTemp, Data
<1>3. BlobHonest /\ StepInv /\ DestInv
  BY DEF BlobHonest, StepInv, DestInv
<1>4. RecordInv
  BY DEF RecordInv, Sound, Version, Ended
<1>5. VerifierInv
  BY DEF VerifierInv, Idle
<1>6. QED BY <1>1, <1>2, <1>3, <1>4, <1>5 DEF IInv

\* A step is one of a process or one of the others.
LEMMA NextCases ==
  ASSUME [Next]_vars
  PROVE  \/ \E p \in Writers : Step(p)
         \/ PowerFails \/ (\E f \in Files, c \in Placeable : Rewrite(f, c)) \/ VerifyTarget \/ VerifyFile
              \/ UNCHANGED vars
  BY DEF Next, Step, Placeable

\* Every step keeps the invariant.
LEMMA NextInv == IInv /\ [Next]_vars => IInv'
<1> SUFFICES ASSUME IInv, [Next]_vars PROVE IInv'
  OBVIOUS
<1>0. TypeOK /\ FileInv /\ BlobHonest /\ StepInv /\ DestInv /\ RecordInv /\ VerifierInv
  BY DEF IInv
<1>1. ASSUME NEW p \in Writers, Step(p)
      PROVE  IInv'
  <2>1. TypeOK' /\ FileInv' /\ BlobHonest' /\ StepInv' /\ DestInv' /\ RecordInv'
    BY <1>0, <1>1, StepType, StepFile, StepBlobs, StepStands, StepDests, StepRecord
  <2>2. Filled /\ UNCHANGED <<lock, verifier>>
    BY <1>0, <1>1, StepMoves, StepDests DEF Moved
  <2>3. VerifierInv'
    BY <1>0, <2>2, VerifierFrame
  <2>4. QED BY <2>1, <2>3 DEF IInv
<1>2. ASSUME PowerFails \/ (\E f \in Files, c \in Placeable : Rewrite(f, c)) \/ VerifyTarget \/ VerifyFile
               \/ UNCHANGED vars
      PROVE  IInv'
  BY <1>0, <1>2, OtherType, OtherFile, OtherBlobs, OtherDests, OtherRecord, OtherVerifier DEF IInv
<1>3. QED BY <1>1, <1>2, NextCases

\* IInv is an invariant of the store.
LEMMA Invariance == Spec => []IInv
  BY InitInv, NextInv, PTL DEF Spec

\* Steps, contents and files are where they belong (store.rs, io_util.rs).
THEOREM StoreTypes == Spec => []TypeOK
<1>1. IInv => TypeOK
  BY DEF IInv
<1>2. QED BY <1>1, Invariance, PTL

\* A blob has the content its name promises, however many processes ingest at
\* once and whatever changes under their hands (store.rs ingest).
THEOREM StoreBlobHonest == Spec => []BlobHonest
<1>1. IInv => BlobHonest
  BY DEF IInv
<1>2. QED BY <1>1, Invariance, PTL

\* A materialized file is never changed by a process (store.rs
\* materialize_blob): only a loss of power takes one away.
THEOREM StoreNoClobber == Spec => NoClobber
<1> DEFINE Kept == \A f \in Files : dest[f] # Absent =>
                     dest'[f] = dest[f] \/ (losses' > losses /\ dest'[f] = Absent)
<1>1. IInv /\ [Next]_vars => [Kept]_vars
  <2> SUFFICES ASSUME IInv, [Next]_vars PROVE Kept
    OBVIOUS
  <2>0. TypeOK /\ BlobHonest /\ StepInv /\ DestInv
    BY DEF IInv
  <2>1. ASSUME NEW p \in Writers, Step(p)
        PROVE  Kept
    BY <2>0, <2>1, StepDests DEF Filled
  <2>2. QED BY <2>0, <2>1, OtherDests, NextCases
<1>2. NoClobber <=> [][Kept]_vars
  BY DEF NoClobber
<1> HIDE DEF Kept
<1>3. QED BY <1>1, <1>2, Invariance, PTL DEF Spec

\* Until the power fails the record lists what is there, and leaves out only
\* optional files, whichever process wrote it (store.rs materialize).
THEOREM StoreRecordHonest == Spec => []RecordHonest
<1>1. IInv => RecordHonest
  <2> SUFFICES ASSUME IInv, losses = 0, file.data # NoVersion, NEW f \in Files
               PROVE  IF file.data[f] = Absent THEN f \in lock.optional ELSE dest[f] = file.data[f]
    BY DEF RecordHonest
  <2>1. Truthful(file.data) /\ DOMAIN <<>> = {}
    BY DEF IInv, RecordInv
  <2>2. QED BY <2>1 DEF Truthful, Listed, Covered
<1>2. QED BY <1>1, Invariance, PTL

\* What verify_target has proved stays true, whatever goes on beside it and
\* after it, short of a loss of power (store.rs verify_target).
THEOREM StoreVerifiedIsPinned == Spec => []VerifiedIsPinned
<1>1. IInv => VerifiedIsPinned
  BY DEF IInv, VerifierInv, VerifiedIsPinned, Pinned
<1>2. QED BY <1>1, Invariance, PTL

\* No reader of the record meets a torn one, also after a loss of power
\* (io_util.rs write_atomic).
THEOREM FileWhole == Spec => []WholeFile
<1>1. IInv => WholeFile
  BY DEF IInv, FileInv, WholeFile
<1>2. QED BY <1>1, Invariance, PTL

\* A write that was reported as successful survives a loss of power
\* (io_util.rs write_atomic: the parent directory is synced).
THEOREM FileDurable == Spec => []AckedIsDurable
<1>1. IInv => AckedIsDurable
  BY DEF IInv, FileInv, AckedIsDurable
<1>2. QED BY <1>1, Invariance, PTL

-----------------------------------------------------------------------------
(***************************************************************************)
(* Execution, for any lines and any number of them.  The log only grows;   *)
(* what was there when the child ended is therefore a beginning of what is *)
(* measured, and what is measured of what is read.                         *)
(***************************************************************************)

Hows == {"ok", "bad", "killed"}

ExecutionTypes ==
  /\ phase \in {"launch", "poll", "kill", "wait", "open", "read", "done", "failed"}
  /\ child \in {"none", "running", "reaped"} \union Hows
  /\ ended \in {"no"} \union Hows
  /\ tree \in BOOLEAN /\ late \in BOOLEAN
  /\ status \in [ok : BOOLEAN, timedOut : BOOLEAN]
  /\ log \in Seq(Lines) /\ atExit \in Seq(Lines)
  /\ measured \in Nat
  /\ raw \in [ok : BOOLEAN, timedOut : BOOLEAN, log : Seq(Lines), complete : BOOLEAN]

\* Where the child is while the executor is at each of its steps.
ChildInv ==
  /\ phase = "launch" => child = "none"
  /\ phase = "poll" => child \in {"running", "ok", "bad"}
  /\ phase = "kill" => late /\ child \in {"running", "ok", "bad"}
  /\ phase = "wait" => late /\ ~tree /\ child \in Hows
  /\ phase \in {"open", "read", "done"} => child = "reaped"
  /\ child \in {"none", "running"} <=> ended = "no"
  /\ child \in Hows => ended = child
  /\ child = "none" => ~tree
  /\ status.timedOut => ~tree /\ child = "reaped" /\ late
  /\ status.ok => child = "reaped" /\ ended = "ok"

Begins(s, t) ==
  Len(s) <= Len(t) /\ \A i \in 1 .. Len(s) : s[i] = t[i]

\* The lines of the child's end come first in the log.
LogInv ==
  /\ ended # "no" => Begins(atExit, log)
  /\ phase \in {"read", "done"} => Len(atExit) <= measured /\ measured <= Len(log)

\* What has been read.
RawInv ==
  phase = "done" =>
    /\ raw.ok = status.ok /\ raw.timedOut = status.timedOut
    /\ \A i \in 1 .. Len(raw.log) : \E j \in 1 .. Len(log) : raw.log[i] = log[j]
    /\ raw.complete => Begins(atExit, raw.log)
    /\ log = atExit /\ Len(log) > 1 =>
         Len(raw.log) > 0 /\ raw.log[Len(raw.log)] = log[Len(log)]

ExecutionInv == ExecutionTypes /\ ChildInv /\ LogInv /\ RawInv

-----------------------------------------------------------------------------
(* Reading.                                                                 *)

\* What read_text_tail returns: lines of the log; all of a log within the
\* limit; and the last line that was measured.
LEMMA TailReadReads ==
  ASSUME log \in Seq(Lines), NEW n \in Nat, n <= Len(log)
  PROVE  /\ TailRead(n) \in Seq(Lines)
         /\ \A i \in 1 .. Len(TailRead(n)) : \E j \in 1 .. Len(log) : TailRead(n)[i] = log[j]
         /\ n <= LogLimit => Len(TailRead(n)) >= n /\ \A i \in 1 .. n : TailRead(n)[i] = log[i]
         /\ n = Len(log) /\ n > 1 =>
              Len(TailRead(n)) > 0 /\ TailRead(n)[Len(TailRead(n))] = log[n]
<1> DEFINE cut == IF Len(log) < LogLimit THEN Len(log) ELSE LogLimit
<1>0. LogLimit \in Nat /\ LogLimit >= 2 /\ Len(log) \in Nat
  BY LimitAssumption, LenProperties
<1>1. CASE n > LogLimit
  <2> DEFINE m == n - LogLimit + 2
  <2>1. m \in 1 .. Len(log) + 1 /\ m <= n /\ n - m + 1 = LogLimit - 1 /\ m \in Nat /\ m >= 1
    BY <1>0, <1>1
  <2>2. TailRead(n) = SubSeq(log, m, n)
    BY <1>1 DEF TailRead
  <2>3. /\ SubSeq(log, m, n) \in Seq(Lines)
        /\ Len(SubSeq(log, m, n)) = n - m + 1
        /\ \A i \in 1 .. n - m + 1 : SubSeq(log, m, n)[i] = log[m + i - 1]
    BY <2>1, <1>0, SubSeqProperties
  <2>4. \A i \in 1 .. n - m + 1 : m + i - 1 \in 1 .. Len(log)
    BY <2>1, <1>0
  <2>5. m + (n - m + 1) - 1 = n /\ n - m + 1 \in 1 .. n - m + 1
    BY <2>1, <1>0
  <2> DEFINE t == TailRead(n)
  <2> HIDE DEF m
  <2>6. t \in Seq(Lines) /\ Len(t) = n - m + 1 /\ \A i \in 1 .. n - m + 1 : t[i] = log[m + i - 1]
    BY <2>2, <2>3
  <2> HIDE DEF t
  <2>7. \A i \in 1 .. Len(t) : \E j \in 1 .. Len(log) : t[i] = log[j]
    BY <2>4, <2>6
  <2>8. Len(t) > 0 /\ t[Len(t)] = log[n]
    BY <1>0, <2>1, <2>5, <2>6
  <2>9. ~(n <= LogLimit)
    BY <1>0, <1>1
  <2> QED
    BY <2>6, <2>7, <2>8, <2>9 DEF t
<1>2. CASE ~(n > LogLimit)
  <2>1. cut \in Nat /\ cut <= Len(log) /\ cut >= n
    BY <1>0, <1>2
  <2>2. TailRead(n) = SubSeq(log, 1, cut)
    BY <1>2 DEF TailRead
  <2>3. n = Len(log) => cut = n
    BY <1>0, <1>2
  <2> HIDE DEF cut
  <2>4. /\ SubSeq(log, 1, cut) \in Seq(Lines)
        /\ Len(SubSeq(log, 1, cut)) = cut
        /\ \A i \in 1 .. cut : SubSeq(log, 1, cut)[i] = log[i]
    BY <2>1, <1>0, SubSeqProperties
  <2> QED
    BY <2>1, <2>2, <2>3, <2>4, <1>0
<1> QED
  BY <1>0, <1>1, <1>2

\* One more line changes none of those before it.
LEMMA AppendKeeps ==
  ASSUME NEW s \in Seq(Lines), NEW l \in Lines
  PROVE  /\ Append(s, l) \in Seq(Lines)
         /\ Len(Append(s, l)) = Len(s) + 1
         /\ \A i \in 1 .. Len(s) : Append(s, l)[i] = s[i]
BY AppendProperties, LenProperties

-----------------------------------------------------------------------------
(* The steps.                                                               *)

\* Every variable keeps its type.
LEMMA TypeNext ==
  ASSUME ExecutionTypes, LogInv, [ExecutionNext]_executionVars
  PROVE  ExecutionTypes'
<1> USE DEF ExecutionTypes, Hows
<1>1. ASSUME NEW l \in Lines, Write(l) PROVE ExecutionTypes'
  BY <1>1, AppendKeeps DEF Write
<1>2. ASSUME Fork PROVE ExecutionTypes'
  BY <1>2 DEF Fork
<1>3. ASSUME NEW how \in {"ok", "bad"}, Exit(how) PROVE ExecutionTypes'
  BY <1>3 DEF Exit, ChildEnds
<1>4. ASSUME DeadlinePasses PROVE ExecutionTypes'
  BY <1>4 DEF DeadlinePasses
<1>5. ASSUME Launch PROVE ExecutionTypes'
  BY <1>5 DEF Launch
<1>6. ASSUME Reap PROVE ExecutionTypes'
  BY <1>6 DEF Reap
<1>7. ASSUME Expire PROVE ExecutionTypes'
  BY <1>7 DEF Expire
<1>8. ASSUME KillGroup PROVE ExecutionTypes'
  BY <1>8 DEF KillGroup, KillsTree, ChildEnds
<1>9. ASSUME Wait PROVE ExecutionTypes'
  BY <1>9 DEF Wait
<1>10. ASSUME PollFails PROVE ExecutionTypes'
  BY <1>10 DEF PollFails, KillsTree, ChildEnds
<1>11. ASSUME Open PROVE ExecutionTypes'
  BY <1>11, LenProperties DEF Open
<1>12. ASSUME Read PROVE ExecutionTypes'
  <2>1. measured <= Len(log)
    BY <1>12 DEF Read, LogInv
  <2>2. TailRead(measured) \in Seq(Lines)
    BY <2>1, TailReadReads
  <2> QED
    BY <1>12, <2>2 DEF Read
<1>13. ASSUME ReadFails PROVE ExecutionTypes'
  BY <1>13 DEF ReadFails
<1>14. ASSUME UNCHANGED executionVars PROVE ExecutionTypes'
  BY <1>14 DEF executionVars
<1> QED
  BY <1>1, <1>2, <1>3, <1>4, <1>5, <1>6, <1>7, <1>8, <1>9, <1>10, <1>11, <1>12, <1>13, <1>14 DEF ExecutionNext, Executor

\* The executor and the child keep their places.
LEMMA ChildNext ==
  ASSUME ExecutionTypes, ChildInv, [ExecutionNext]_executionVars
  PROVE  ChildInv'
<1> USE DEF ExecutionTypes, ChildInv, Hows
<1>1. ASSUME NEW l \in Lines, Write(l) PROVE ChildInv'
  BY <1>1 DEF Write
<1>2. ASSUME Fork PROVE ChildInv'
  BY <1>2 DEF Fork
<1>3. ASSUME NEW how \in {"ok", "bad"}, Exit(how) PROVE ChildInv'
  BY <1>3 DEF Exit, ChildEnds
<1>4. ASSUME DeadlinePasses PROVE ChildInv'
  BY <1>4 DEF DeadlinePasses
<1>5. ASSUME Launch PROVE ChildInv'
  BY <1>5 DEF Launch
<1>6. ASSUME Reap PROVE ChildInv'
  BY <1>6 DEF Reap
<1>7. ASSUME Expire PROVE ChildInv'
  BY <1>7 DEF Expire
<1>8. ASSUME KillGroup PROVE ChildInv'
  BY <1>8 DEF KillGroup, KillsTree, ChildEnds
<1>9. ASSUME Wait PROVE ChildInv'
  BY <1>9 DEF Wait
<1>10. ASSUME PollFails PROVE ChildInv'
  BY <1>10 DEF PollFails, KillsTree, ChildEnds
<1>11. ASSUME Open PROVE ChildInv'
  BY <1>11 DEF Open
<1>12. ASSUME Read PROVE ChildInv'
  BY <1>12 DEF Read
<1>13. ASSUME ReadFails PROVE ChildInv'
  BY <1>13 DEF ReadFails
<1>14. ASSUME UNCHANGED executionVars PROVE ChildInv'
  BY <1>14 DEF executionVars
<1> QED
  BY <1>1, <1>2, <1>3, <1>4, <1>5, <1>6, <1>7, <1>8, <1>9, <1>10, <1>11, <1>12, <1>13, <1>14 DEF ExecutionNext, Executor

\* Sequences that begin alike still do when one grows.
LEMMA BeginsAppend ==
  ASSUME NEW s \in Seq(Lines), NEW t \in Seq(Lines), NEW l \in Lines, Begins(s, t)
  PROVE  Begins(s, Append(t, l))
BY AppendKeeps, LenProperties DEF Begins

\* The lines of the child's end stay at the beginning of the log.
LEMMA LogNext ==
  ASSUME ExecutionTypes, ChildInv, LogInv, [ExecutionNext]_executionVars
  PROVE  LogInv'
<1> USE DEF ExecutionTypes, ChildInv, LogInv, Hows
<1>0. Begins(log, log) /\ Len(log) \in Nat /\ Len(atExit) \in Nat
  BY LenProperties DEF Begins
<1>1. ASSUME NEW l \in Lines, Write(l) PROVE LogInv'
  <2>1. ended # "no" => Begins(atExit, Append(log, l))
    BY BeginsAppend
  <2>2. Len(log) <= Len(Append(log, l)) /\ Len(Append(log, l)) \in Nat
    BY AppendKeeps, <1>0
  <2> QED
    BY <1>1, <1>0, <2>1, <2>2 DEF Write
<1>2. ASSUME Fork PROVE LogInv'
  BY <1>2 DEF Fork
<1>3. ASSUME NEW how \in {"ok", "bad"}, Exit(how) PROVE LogInv'
  BY <1>3, <1>0 DEF Exit, ChildEnds
<1>4. ASSUME DeadlinePasses PROVE LogInv'
  BY <1>4 DEF DeadlinePasses
<1>5. ASSUME Launch PROVE LogInv'
  BY <1>5 DEF Launch
<1>6. ASSUME Reap PROVE LogInv'
  BY <1>6 DEF Reap
<1>7. ASSUME Expire PROVE LogInv'
  BY <1>7 DEF Expire
<1>8. ASSUME KillGroup PROVE LogInv'
  BY <1>8, <1>0 DEF KillGroup, KillsTree, ChildEnds
<1>9. ASSUME Wait PROVE LogInv'
  BY <1>9 DEF Wait
<1>10. ASSUME PollFails PROVE LogInv'
  BY <1>10, <1>0 DEF PollFails, KillsTree, ChildEnds
<1>11. ASSUME Open PROVE LogInv'
  BY <1>11, <1>0 DEF Open, Begins
<1>12. ASSUME Read PROVE LogInv'
  BY <1>12 DEF Read
<1>13. ASSUME ReadFails PROVE LogInv'
  BY <1>13 DEF ReadFails
<1>14. ASSUME UNCHANGED executionVars PROVE LogInv'
  BY <1>14 DEF executionVars
<1> QED
  BY <1>1, <1>2, <1>3, <1>4, <1>5, <1>6, <1>7, <1>8, <1>9, <1>10, <1>11, <1>12, <1>13, <1>14 DEF ExecutionNext, Executor

\* What was read stays true of the log while it grows.
LEMMA RawNext ==
  ASSUME ExecutionTypes, ChildInv, LogInv, RawInv, [ExecutionNext]_executionVars
  PROVE  RawInv'
<1> USE DEF ExecutionTypes, ChildInv, Hows
<1>0. Len(log) \in Nat /\ Len(atExit) \in Nat /\ Len(raw.log) \in Nat
  BY LenProperties
<1>1. ASSUME NEW l \in Lines, Write(l) PROVE RawInv'
  <2> SUFFICES ASSUME phase = "done" PROVE RawInv'
    BY <1>1 DEF Write, RawInv
  <2>1. /\ log' = Append(log, l) /\ Len(log') = Len(log) + 1
        /\ \A i \in 1 .. Len(log) : log'[i] = log[i]
    BY <1>1, AppendKeeps DEF Write
  <2>2. log' # atExit
    BY <2>1, <1>0 DEF LogInv, Begins
  <2>3. UNCHANGED <<phase, status, raw, atExit>>
    BY <1>1 DEF Write
  <2>4. \A i \in 1 .. Len(raw.log) : \E j \in 1 .. Len(log') : raw.log[i] = log'[j]
    BY <2>1, <1>0 DEF RawInv
  <2> QED
    BY <2>1, <2>2, <2>3, <2>4 DEF RawInv
<1>2. ASSUME Fork PROVE RawInv'
  BY <1>2 DEF Fork, RawInv
<1>3. ASSUME NEW how \in {"ok", "bad"}, Exit(how) PROVE RawInv'
  BY <1>3 DEF Exit, ChildEnds, RawInv
<1>4. ASSUME DeadlinePasses PROVE RawInv'
  BY <1>4 DEF DeadlinePasses, RawInv
<1>5. ASSUME Launch PROVE RawInv'
  BY <1>5 DEF Launch, RawInv
<1>6. ASSUME Reap PROVE RawInv'
  BY <1>6 DEF Reap, RawInv
<1>7. ASSUME Expire PROVE RawInv'
  BY <1>7 DEF Expire, RawInv
<1>8. ASSUME KillGroup PROVE RawInv'
  BY <1>8 DEF KillGroup, KillsTree, ChildEnds, RawInv
<1>9. ASSUME Wait PROVE RawInv'
  BY <1>9 DEF Wait, RawInv
<1>10. ASSUME PollFails PROVE RawInv'
  BY <1>10 DEF PollFails, KillsTree, ChildEnds, RawInv
<1>11. ASSUME Open PROVE RawInv'
  BY <1>11 DEF Open, RawInv
<1>12. ASSUME Read PROVE RawInv'
  <2>1. ended # "no" /\ Begins(atExit, log) /\ Len(atExit) <= measured /\ measured <= Len(log)
    BY <1>12 DEF Read, LogInv
  <2>2. /\ TailRead(measured) \in Seq(Lines)
        /\ \A i \in 1 .. Len(TailRead(measured)) : \E j \in 1 .. Len(log) : TailRead(measured)[i] = log[j]
        /\ measured <= LogLimit => Len(TailRead(measured)) >= measured
                                     /\ \A i \in 1 .. measured : TailRead(measured)[i] = log[i]
        /\ measured = Len(log) /\ measured > 1 =>
             Len(TailRead(measured)) > 0 /\ TailRead(measured)[Len(TailRead(measured))] = log[measured]
    BY <2>1, TailReadReads
  <2>3. Len(TailRead(measured)) \in Nat
    BY <2>2, LenProperties
  <2>4. measured <= LogLimit => Begins(atExit, TailRead(measured))
    BY <2>1, <2>2, <2>3, <1>0 DEF Begins
  <2>5. log = atExit => measured = Len(log)
    BY <2>1, <1>0
  <2>6. /\ raw'.ok = status.ok /\ raw'.timedOut = status.timedOut /\ raw'.log = TailRead(measured)
        /\ raw'.complete = (measured <= LogLimit)
        /\ UNCHANGED <<status, log, atExit>>
    BY <1>12 DEF Read
  <2>7. raw'.complete => Begins(atExit', raw'.log)
    BY <2>4, <2>6
  <2>8. log' = atExit' /\ Len(log') > 1 =>
          Len(raw'.log) > 0 /\ raw'.log[Len(raw'.log)] = log'[Len(log')]
    BY <2>2, <2>5, <2>6
  <2>9. \A i \in 1 .. Len(raw'.log) : \E j \in 1 .. Len(log') : raw'.log[i] = log'[j]
    BY <2>2, <2>6
  <2> QED
    BY <2>6, <2>7, <2>8, <2>9 DEF RawInv
<1>13. ASSUME ReadFails PROVE RawInv'
  BY <1>13 DEF ReadFails, RawInv
<1>14. ASSUME UNCHANGED executionVars PROVE RawInv'
  BY <1>14 DEF executionVars, RawInv
<1> QED
  BY <1>1, <1>2, <1>3, <1>4, <1>5, <1>6, <1>7, <1>8, <1>9, <1>10, <1>11, <1>12, <1>13, <1>14 DEF ExecutionNext, Executor

\* The initial states.
LEMMA ExecutionStarts == ExecutionInit => ExecutionInv
<1> SUFFICES ASSUME ExecutionInit PROVE ExecutionInv
  OBVIOUS
<1>1. <<>> \in Seq(Lines) /\ NoRaw \in [ok : BOOLEAN, timedOut : BOOLEAN, log : Seq(Lines), complete : BOOLEAN]
  BY DEF NoRaw
<1> QED
  BY <1>1 DEF ExecutionInit, ExecutionInv, ExecutionTypes, ChildInv, LogInv, RawInv, Hows

LEMMA ExecutionInvariance == ExecutionSpec => []ExecutionInv
<1>1. ExecutionInv /\ [ExecutionNext]_executionVars => ExecutionInv'
  BY TypeNext, ChildNext, LogNext, RawNext DEF ExecutionInv
<1> QED
  BY <1>1, ExecutionStarts, PTL DEF ExecutionSpec

-----------------------------------------------------------------------------
(* The theorems.                                                            *)

\* After a timeout the child is reaped and nothing of its group is left,
\* whatever it started and even when it ended before the signal.
THEOREM AlwaysTreeDead == ExecutionSpec => []TimedOutTreeDead
<1>1. ExecutionInv => TimedOutTreeDead
  BY DEF ExecutionInv, ChildInv, TimedOutTreeDead
<1> QED
  BY <1>1, ExecutionInvariance, PTL

\* If a descendant has not written since the child's end, the last line of the
\* child has been read, whatever the limit of the log was.
THEOREM AlwaysLastWords == ExecutionSpec => []LastWordsRead
<1>1. ExecutionInv => LastWordsRead
  BY DEF ExecutionInv, RawInv, LastWordsRead
<1> QED
  BY <1>1, ExecutionInvariance, PTL

\* A good verdict is earned by a child that ended by itself with success and
\* said that it was ready, with nothing terminal in a complete log.
THEOREM AlwaysEarned == ExecutionSpec => []VerdictEarned
<1>1. ExecutionInv => VerdictEarned
  <2> SUFFICES ASSUME ExecutionInv, phase = "done", Verdict(raw) \in {"pass", "degraded"}
               PROVE  /\ ended = "ok" /\ ~status.timedOut
                      /\ \E i \in DOMAIN log : log[i].ready
                      /\ raw.complete => ~TerminalBy(atExit)
    BY DEF VerdictEarned
  <2> USE DEF ExecutionInv, ExecutionTypes
  <2>0. /\ DOMAIN log = 1 .. Len(log) /\ DOMAIN raw.log = 1 .. Len(raw.log)
        /\ DOMAIN atExit = 1 .. Len(atExit)
        /\ Len(log) \in Nat /\ Len(raw.log) \in Nat /\ Len(atExit) \in Nat
    BY LenProperties
  <2>1. Observed(raw) \in {"passed", "degraded"}
    <3> SUFFICES ASSUME Observed(raw) \notin {"passed", "degraded"} PROVE FALSE
      OBVIOUS
    <3>1. CASE Observed(raw) \in {"timed-out-after-readiness", "timed-out-before-readiness"}
      BY <3>1 DEF Verdict
    <3>2. CASE Observed(raw) = "inconclusive"
      BY <3>2 DEF Verdict
    <3>3. CASE Observed(raw) \notin {"timed-out-after-readiness", "timed-out-before-readiness", "inconclusive"}
      BY <3>3 DEF Verdict
    <3> QED
      BY <3>1, <3>2, <3>3
  <2>2. ~raw.timedOut /\ Incidents(raw) = {} /\ raw.ok /\ Ready(raw)
    BY <2>1 DEF Observed
  <2>3. Failing(raw, {"terminal"}) = {}
    BY <2>2 DEF Incidents
  <2>4. ended = "ok" /\ ~status.timedOut
    BY <2>2 DEF RawInv, ChildInv
  <2>5. \E i \in DOMAIN log : log[i].ready
    BY <2>0, <2>2 DEF Ready, RawInv
  <2>6. raw.complete => ~TerminalBy(atExit)
    <3> SUFFICES ASSUME raw.complete, NEW i \in 1 .. Len(atExit), atExit[i].failure = "terminal"
                 PROVE  FALSE
      BY <2>0 DEF TerminalBy
    <3>1. i \in 1 .. Len(raw.log) /\ raw.log[i] = atExit[i]
      BY <2>0 DEF RawInv, Begins
    <3>2. i \in Failing(raw, {"terminal"})
      BY <2>0, <3>1 DEF Failing
    <3> QED
      BY <3>2, <2>3
  <2> QED
    BY <2>4, <2>5, <2>6
<1> QED
  BY <1>1, ExecutionInvariance, PTL
=============================================================================
