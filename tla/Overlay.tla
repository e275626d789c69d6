------------------------------- MODULE Overlay -------------------------------
(* `intermed vfs overlay`: the two-pass scan of the resources of a mods      *)
(* directory and the overlay built from its collisions in a temporary        *)
(* sibling of the output directory.  Processes share the mods and the output *)
(* directory; a jar may be replaced and a process may die at any point.      *)
(*                                                                           *)
(* A step reads all it reads of the jars at one moment.  As long as one jar  *)
(* at most is replaced (MaxReplaced) this loses nothing: each jar is opened  *)
(* once in a step, and the one that changes is read before or after.         *)
EXTENDS ResourceMerge

CONSTANTS
  Processes,     \* process ids
  Paths,         \* resource paths
  Rank,          \* of a path or locale: its place in the order of names
  Domain,        \* of a path: the domain of its resource
  Locale,        \* of a path: the locale it is a language file of, or Null
  Jars,          \* archives, numbers in the order of their names
  Packs,         \* contents of the mods directory: an archive's entries
  Replacements,  \* what may be put in the place of an archive
  Unreadable,    \* an archive that cannot be opened
  EntryCap,      \* MAX_RESOURCE_ENTRY_BYTES
  TotalCap,      \* MAX_RESOURCE_TOTAL_BYTES
  EntryLimit,    \* MAX_RESOURCE_ENTRIES
  PathCap,       \* MAX_COLLISION_PATH_BYTES
  MaxReplaced,   \* bounds, for every pack: archives replaced, runs begun
  MaxRuns

ASSUME OverlayAssumption ==
  /\ Jars \subseteq Nat /\ IsFiniteSet(Jars) /\ IsFiniteSet(Paths)
  /\ {EntryCap, TotalCap, EntryLimit, PathCap} \subseteq Nat
  /\ {MaxReplaced, MaxRuns} \subseteq [Packs -> Nat]

\* Names have places of their own, and a locale is not a path.
ASSUME NameAssumption ==
  /\ Paths \subseteq DOMAIN Rank /\ Rank \in [DOMAIN Rank -> Nat] /\ IsInjective(Rank)
  /\ Locale \in [Paths -> {Null} \union (DOMAIN Rank \ Paths)] /\ Null \notin DOMAIN Rank

\* An archive that can be opened is a sequence of entries.
IsEntry(e) == e.path \in Paths /\ e.size \in Nat /\ (Domain[e.path] = "sounds" => IsSounds(e.doc))
IsArchive(a) == a = Unreadable \/ (a \in Seq(ToSet(a)) /\ \A e \in ToSet(a) : IsEntry(e))

ASSUME ArchiveAssumption ==
  /\ \A pack \in Packs : DOMAIN pack = Jars /\ \A j \in Jars : IsArchive(pack[j])
  /\ \A a \in Replacements : IsArchive(a)

VARIABLES
  jars,      \* the mods directory
  tmp,       \* of a process: its temporary sibling
  out,       \* the output directory
  pc,        \* of a process
  run,       \* of a process: what the run under way holds, or Null
  returned,  \* plans that were returned to a caller
  replaced,  \* archives that may still be replaced
  runs       \* runs that may still begin

vars == <<jars, tmp, out, pc, run, returned, replaced, runs>>

-----------------------------------------------------------------------------
(* Pass 1: the central directories.                                         *)

\* scan_jar, an entry at a time; `open` is lost at a limit that ends the loop.
ScanEntry(jar, acc, entry) ==
  IF ~acc.open THEN acc
  ELSE IF acc.count = EntryLimit THEN [acc EXCEPT !.open = FALSE]
  ELSE IF entry.size > EntryCap  THEN [acc EXCEPT !.count = @ + 1]
  ELSE IF acc.total >= TotalCap  THEN [acc EXCEPT !.open = FALSE]
  ELSE [acc EXCEPT !.count = @ + 1, !.total = @ + entry.size,
                   !.writes = Append(@, [jar |-> jar, path |-> entry.path, size |-> entry.size])]

ScanJar(jar, archive) ==
  FoldLeft(LAMBDA acc, entry : ScanEntry(jar, acc, entry),
           [writes |-> <<>>, count |-> 0, total |-> 0, open |-> TRUE],
           IF archive = Unreadable THEN <<>> ELSE archive).writes

\* The members of a set in the order of their ranks.
InOrder(S, rank) == CHOOSE s \in [1 .. Cardinality(S) -> S] :
                      \A m, n \in 1 .. Cardinality(S) : m < n => rank[s[m]] < rank[s[n]]
JarOrder  == InOrder(Jars, [j \in Jars |-> j])
ByName(S) == InOrder(S, Rank)

\* The writes of every jar, in the order of the jars.
Joined(parts) == FoldLeft(LAMBDA all, j : all \o parts[j], <<>>, JarOrder)
Writes(dir)   == Joined([j \in Jars |-> ScanJar(j, dir[j])])

\* What of a sequence of writes or entries has one of the paths.
Of(entries, paths) ==
  FoldLeft(LAMBDA kept, e : IF e.path \in paths THEN Append(kept, e) ELSE kept, <<>>, entries)
Size(entries) == FoldLeft(LAMBDA total, e : total + e.size, 0, entries)
Writers(writes, S) == {writes[i].jar : i \in {n \in DOMAIN writes : writes[n].path \in S}}
CollisionPaths(writes)  == {p \in Paths : Len(Of(writes, {p})) >= 2}

\* collision_batches: paths in order, a batch closed before it outgrows the
\* cap and as soon as it has reached it.
AddPath(writes, acc, path, cap) ==
  LET bytes == Size(Of(writes, {path}))
      start == IF acc.open # {} /\ acc.bytes + bytes > cap
               THEN [acc EXCEPT !.closed = Append(@, acc.open), !.open = {}, !.bytes = 0] ELSE acc
      grown == [start EXCEPT !.open = @ \union {path}, !.bytes = @ + bytes]
  IN IF grown.bytes >= PathCap
     THEN [closed |-> Append(grown.closed, grown.open), open |-> {}, bytes |-> 0] ELSE grown

BatchesOf(writes, cap) ==
  LET all == FoldLeft(LAMBDA acc, path : AddPath(writes, acc, path, cap),
                      [closed |-> <<>>, open |-> {}, bytes |-> 0], ByName(CollisionPaths(writes)))
  IN IF all.open = {} THEN all.closed ELSE Append(all.closed, all.open)

\* Fault: a batch is closed only when it has outgrown the cap twice over.
Overfull(writes) == BatchesOf(writes, 2 * PathCap)

CollisionBatches(writes) == BatchesOf(writes, PathCap)

-----------------------------------------------------------------------------
(* Pass 2: the bytes of the colliding paths.                                *)

\* reread_collision_blobs_one: at the cap the rest of the jar is left unread.
RereadEntry(paths, acc, entry) ==
  IF ~acc.open \/ entry.path \notin paths \/ entry.size > EntryCap THEN acc
  ELSE IF acc.total + entry.size > PathCap THEN [acc EXCEPT !.open = FALSE]
  ELSE [acc EXCEPT !.total = @ + entry.size, !.blobs = Append(@, entry)]

\* reread_collision_blobs: the cap reached, the other jars are left unread.
RereadJar(dir, paths, acc, j) ==
  IF acc.total >= PathCap \/ dir[j] = Unreadable THEN acc
  ELSE FoldLeft(LAMBDA a, e : RereadEntry(paths, a, e), [acc EXCEPT !.open = TRUE], dir[j])

\* The jars that wrote one of the paths, in their order.
Reread(dir, writes, paths) ==
  FoldLeft(LAMBDA acc, j : IF j \in Writers(writes, paths) THEN RereadJar(dir, paths, acc, j) ELSE acc,
           [blobs |-> <<>>, total |-> 0, open |-> TRUE], JarOrder).blobs

\* Of an entry its bytes count.
Blobs(entries) == [i \in DOMAIN entries |-> [size |-> entries[i].size, doc |-> entries[i].doc]]

Collision(name, found) == [path |-> name, class |-> found.class, language |-> found.language]

\* classify_observed_collisions: a path with a blob missing is kept, without
\* a class of its content.
Observed(dir, writes, batch) ==
  LET read == Reread(dir, writes, batch)
      of(path) == IF Len(Of(read, {path})) < Len(Of(writes, {path}))
                  THEN Found("classification-unavailable", Null)
                  ELSE Classify(Domain[path], Blobs(Of(read, {path})))
  IN {Collision(path, of(path)) : path \in batch}

\* detect_cross_format_lang_collisions: the locale is the path.
CrossFormat(writes) ==
  LET locales == {Locale[writes[i].path] : i \in DOMAIN writes} \ {Null}
      formats(l) == {Domain[writes[i].path] : i \in {n \in DOMAIN writes : Locale[writes[n].path] = l}}
  IN {Collision(l, Found("lang-format-mismatch", Null)) :
        l \in {m \in locales : Cardinality(formats(m)) > 1}}

-----------------------------------------------------------------------------
(* Staging.                                                                  *)

\* read_blobs_for_path: as many blobs as pass 1 has writers, or none.
ReadBlobs(dir, writes, path) ==
  LET mine == Of(Reread(dir, writes, {path}), {path})
  IN IF Len(mine) = Len(Of(writes, {path})) THEN Blobs(mine) ELSE Null

\* Fault: a merge that fails falls back to a winner.
OrWinner(collision, blobs) ==
  IF blobs = Null \/ blobs = <<>> THEN Null
  ELSE IF Mergeable(collision) /\ Merged(collision, Docs(blobs)) # Null
  THEN Merged(collision, Docs(blobs)) ELSE blobs[Len(blobs)].doc

\* overlay_bytes: Null is an error.
OverlayBytes(collision, blobs) ==
  IF blobs = Null \/ blobs = <<>> THEN Null
  ELSE IF Mergeable(collision) THEN Merged(collision, Docs(blobs))
  ELSE blobs[Len(blobs)].doc

Item(collision) == [path |-> collision.path, class |-> collision.class,
                    safe |-> IsSafeMerge(collision)]

-----------------------------------------------------------------------------
\* A directory that is not there; one that is has files, and a manifest at most.
Absent == [exists |-> FALSE]

Init ==
  /\ jars \in Packs
  /\ tmp  = [p \in Processes |-> Absent]
  /\ out  = Absent
  /\ pc   = [p \in Processes |-> "idle"]
  /\ run  = [p \in Processes |-> Null]
  /\ returned = {} /\ replaced = MaxReplaced[jars] /\ runs = MaxRuns[jars]

Goto(p, label) == pc' = [pc EXCEPT ![p] = label]
Exit(p)        == /\ pc'  = [pc EXCEPT ![p] = "idle"]
                  /\ run' = [run EXCEPT ![p] = Null]
Bounds         == <<replaced, runs>>
Files          == <<jars, tmp, out>>

\* write_overlay_preview: a temporary sibling left by an earlier process with
\* this id is refused, and not removed.
Begin(p, winners) ==
  /\ pc[p] = "idle" /\ runs > 0
  /\ runs' = runs - 1
  /\ IF tmp[p].exists THEN UNCHANGED <<pc, run>>
     ELSE /\ Goto(p, "check")
          /\ run' = [run EXCEPT ![p] = [winners |-> winners]]
  /\ UNCHANGED <<Files, returned, replaced>>

CheckOut(p) ==
  /\ pc[p] = "check"
  /\ Goto(p, IF out.exists THEN "fail" ELSE "scan")
  /\ UNCHANGED <<Files, run, returned, Bounds>>

\* Pass 1.  `seen` and `stale`, what the archives were and whether one has
\* been replaced since, are there for the properties alone.
Scan(p) ==
  /\ pc[p] = "scan"
  /\ run' = [run EXCEPT ![p] =
       [winners |-> @.winners, writes |-> Writes(jars), batches |-> CollisionBatches(Writes(jars)),
        collisions |-> {}, items |-> {}, skipped |-> {}, seen |-> jars, stale |-> FALSE]]
  /\ Goto(p, "classify")
  /\ UNCHANGED <<Files, returned, Bounds>>

\* Pass 2, one batch.
ClassifyBatch(p) ==
  /\ pc[p] = "classify" /\ run[p].batches # <<>>
  /\ run' = [run EXCEPT ![p].batches = Tail(@),
                        ![p].collisions = @ \union Observed(jars, run[p].writes, Head(run[p].batches))]
  /\ UNCHANGED <<Files, pc, returned, Bounds>>

\* The end of scan_jars, and the empty temporary directory.
CreateTmp(p) ==
  /\ pc[p] = "classify" /\ run[p].batches = <<>>
  /\ run' = [run EXCEPT ![p].collisions = @ \union CrossFormat(run[p].writes)]
  /\ tmp' = [tmp EXCEPT ![p] = [exists |-> TRUE, files |-> [n \in {} |-> Null], manifest |-> {}]]
  /\ Goto(p, "stage")
  /\ UNCHANGED <<jars, out, returned, Bounds>>

\* The loop over the collisions, in the order of their paths.
Upcoming(p) == CHOOSE c \in run[p].collisions :
                 \A d \in run[p].collisions : Rank[c.path] <= Rank[d.path]
Taken(p, c) == [run EXCEPT ![p].collisions = @ \ {c}]

Pass(p) ==
  /\ pc[p] = "stage" /\ run[p].collisions # {}
  /\ Upcoming(p).class = "identical"
  /\ run' = Taken(p, Upcoming(p))
  /\ UNCHANGED <<Files, pc, returned, Bounds>>

Skip(p) ==
  LET c == Upcoming(p) IN
  /\ pc[p] = "stage" /\ run[p].collisions # {}
  /\ ~IsSafeMerge(c) /\ ~run[p].winners
  /\ run' = [Taken(p, c) EXCEPT ![p].skipped = @ \union {Item(c)}]
  /\ UNCHANGED <<Files, pc, returned, Bounds>>

Stage(p) ==
  LET c     == Upcoming(p)
      bytes == OverlayBytes(c, ReadBlobs(jars, run[p].writes, c.path))
  IN
  /\ pc[p] = "stage" /\ run[p].collisions # {}
  /\ c.class # "identical" /\ (IsSafeMerge(c) \/ run[p].winners)
  /\ IF bytes = Null THEN Goto(p, "fail") /\ UNCHANGED <<run, tmp>>
     ELSE /\ tmp' = [tmp EXCEPT ![p].files =
               [n \in DOMAIN @ \union {c.path} |-> IF n = c.path THEN bytes ELSE @[n]]]
          /\ run' = [Taken(p, c) EXCEPT ![p].items = @ \union {Item(c)}]
          /\ UNCHANGED pc
  /\ UNCHANGED <<jars, out, returned, Bounds>>

Plan(p) == [items |-> run[p].items, skipped |-> run[p].skipped,
            safe |-> \A i \in run[p].items : i.safe]

WriteManifest(p) ==
  /\ pc[p] = "stage" /\ run[p].collisions = {}
  /\ tmp' = [tmp EXCEPT ![p].manifest = {Plan(p)}]
  /\ Goto(p, "commit")
  /\ UNCHANGED <<jars, out, run, returned, Bounds>>

\* rename does not replace a directory that is not empty.
Commit(p) ==
  /\ pc[p] = "commit"
  /\ IF out.exists THEN /\ Goto(p, "fail")
                        /\ UNCHANGED <<tmp, out, run, returned>>
     ELSE /\ out' = [exists |-> TRUE, files |-> tmp[p].files, manifest |-> tmp[p].manifest,
                     seen |-> run[p].seen, stale |-> run[p].stale]
          /\ tmp' = [tmp EXCEPT ![p] = Absent]
          /\ returned' = returned \union {Plan(p)}
          /\ Exit(p)
  /\ UNCHANGED <<jars, Bounds>>

\* An error of the file system before the rename: the disk is full, the
\* temporary directory cannot be created.
WriteFails(p) ==
  /\ pc[p] \in {"scan", "stage", "commit"}
  /\ Goto(p, "fail")
  /\ UNCHANGED <<Files, run, returned, Bounds>>

\* remove_dir_all, whose own failure is ignored.
Fail(p, removed) ==
  /\ pc[p] = "fail"
  /\ tmp' = IF removed THEN [tmp EXCEPT ![p] = Absent] ELSE tmp
  /\ Exit(p)
  /\ UNCHANGED <<jars, out, returned, Bounds>>

\* The process dies; its id may be used again.
Crash(p) ==
  /\ pc[p] # "idle"
  /\ Exit(p)
  /\ UNCHANGED <<Files, returned, Bounds>>

Replace(j, archive) ==
  /\ replaced > 0 /\ archive # jars[j]
  /\ jars' = [jars EXCEPT ![j] = archive]
  /\ replaced' = replaced - 1
  /\ run' = [p \in Processes |-> IF pc[p] \in {"classify", "stage", "commit"}
                                 THEN [run[p] EXCEPT !.stale = TRUE] ELSE run[p]]
  /\ UNCHANGED <<tmp, out, pc, returned, runs>>

Next ==
  \/ \E p \in Processes :
       \/ \E winners \in BOOLEAN : Begin(p, winners)
       \/ CheckOut(p) \/ Scan(p) \/ ClassifyBatch(p) \/ CreateTmp(p)
       \/ Pass(p) \/ Skip(p) \/ Stage(p) \/ WriteManifest(p) \/ Commit(p)
       \/ WriteFails(p) \/ (\E removed \in BOOLEAN : Fail(p, removed)) \/ Crash(p)
  \/ \E j \in Jars, archive \in Replacements : Replace(j, archive)

Spec == Init /\ [][Next]_vars

-----------------------------------------------------------------------------
(* What a published overlay promises, stated on the archives alone.          *)

\* The entries of an archive that have one of the paths and are not beyond
\* the cap of an entry, and those of all archives.
Fitting(archive, paths) ==
  FoldLeft(LAMBDA kept, e : IF e.path \in paths /\ e.size <= EntryCap THEN Append(kept, e) ELSE kept,
           <<>>, IF archive = Unreadable THEN <<>> ELSE archive)

Entries(dir, paths) == Joined([j \in Jars |-> Fitting(dir[j], paths)])

\* No archive meets a limit of the scan.
Whole(dir) == \A j \in Jars : dir[j] # Unreadable =>
                Len(dir[j]) <= EntryLimit /\ Size(Fitting(dir[j], Paths)) < TotalCap

Named(items, name) == {i \in items : i.path = name}

\* Nothing escapes the batches: a path several entries write and that are not
\* one content, and a locale in two formats, are each in the manifest once.
\* A path is without a class only when its own bytes are beyond the cap, or an
\* entry of it is empty: the cap met exactly, that entry may be left unread.
Accounted(dir, listed) ==
  /\ \A path \in Paths :
       LET entries == Entries(dir, {path})
           found   == Classify(Domain[path], Blobs(entries)).class
           unread  == Size(entries) > PathCap \/ \E i \in DOMAIN entries : entries[i].size = 0
           mine    == {i.class : i \in Named(listed, path)}
       IN /\ Cardinality(Named(listed, path)) <= 1
          /\ IF Len(entries) < 2 THEN mine = {}
             ELSE \/ mine = {found} \ {"identical"}
                  \/ unread /\ mine = {"classification-unavailable"}
  /\ \A locale \in DOMAIN Rank \ Paths :
       (Named(listed, locale) # {}) <=>
         Cardinality({Domain[path] : path \in {q \in Paths : Locale[q] = locale
                                                         /\ Entries(dir, {q}) # <<>>}}) > 1

\* The output directory is absent or whole, whoever else writes, fails or dies
\* on the way: its files are those its manifest lists, the manifest is that
\* of every plan a caller was given, and, unless an archive changed under the
\* scan, it accounts for every collision of the archives.
PublishedIsWhole ==
  /\ \A plan \in returned : out.exists /\ out.manifest = {plan}
  /\ out.exists => \E plan \in out.manifest :
       /\ DOMAIN out.files = {i.path : i \in plan.items}
       /\ (~out.stale /\ Whole(out.seen)) =>
            /\ plan.items \intersect plan.skipped = {}
            /\ Accounted(out.seen, plan.items \union plan.skipped)

Orders(docs) == {[i \in DOMAIN docs |-> docs[f[i]]] :
                   f \in {g \in [DOMAIN docs -> DOMAIN docs] : Cardinality({g[i] : i \in DOMAIN docs}) = Len(docs)}}

\* What intermed-packops calls safe to apply: alone in the overlay the file
\* means to the game what the archives mean together, in every order the
\* loader may put them in.
SafeIsOrderFree ==
  (out.exists /\ ~out.stale /\ Whole(out.seen)) =>
    \A i \in UNION {plan.items : plan \in out.manifest} : i.safe =>
      \A docs \in Orders(Docs(Blobs(Entries(out.seen, {i.path})))) :
        Effective(Domain[i.path], <<out.files[i.path]>>) = Effective(Domain[i.path], docs)
=============================================================================
