----------------------------- MODULE CacheBudget -----------------------------
(***************************************************************************)
(* The size budget of the jar cache                                        *)
(* (crates/intermed-doctor-core/src/jar_cache/mod.rs, prune.rs).           *)
(*                                                                         *)
(* Scanner threads replace files under the cache root, add the difference  *)
(* in size to one atomic estimate of the disk usage, and walk and prune    *)
(* the directory under a lock when the estimate exceeds the budget.  The   *)
(* estimate is read, added to and overwritten without a lock.  What the    *)
(* files mean is the subject of JarCache.                                  *)
(***************************************************************************)
EXTENDS Integers, Sequences, FiniteSets, FiniteSetsExt, SequencesExt

CONSTANTS
  Threads,
  Payloads,    \* paths of cache records: candidates for eviction
  Sidecars,    \* paths of fingerprint sidecars
  MinBytes,    \* JarCacheConfig::min_bytes
  Wrap,        \* the counter is an unsigned integer modulo Wrap
  Setups       \* what may be going on, one of which a behaviour is about:
               \*   threads   the threads that write
               \*   paths     the files they write
               \*   sizes     the sizes a written file may have
               \*   contents  what may be on disk when a process opens the cache
               \*   maxBytes  JarCacheConfig::max_bytes
               \*   failing   writes and removals may fail
               \*   shared    other processes use the cache root as well
               \*   writes    bound: writes of one process
               \*   boots     bound: processes

Paths == Payloads \union Sidecars
Stale == Wrap - 1   \* DISK_USAGE_STALE

ASSUME PathAssumption == /\ IsFiniteSet(Threads) /\ Threads # {}
                         /\ IsFiniteSet(Paths) /\ Paths # {}
                         /\ Payloads \intersect Sidecars = {}
ASSUME SetupAssumption == /\ Wrap \in Nat \ {0} /\ MinBytes \in Nat
                          /\ \A x \in Setups :
                               /\ x.threads \subseteq Threads /\ x.threads # {}
                               /\ x.paths \subseteq Paths
                               /\ x.sizes \subseteq Nat \ {0}
                               /\ x.contents \subseteq [Paths -> Nat]
                               /\ {x.maxBytes, x.writes, x.boots} \subseteq Nat
                               /\ MinBytes <= x.maxBytes   \* with_max_bytes
                               /\ x.maxBytes < Stale
                               /\ {x.failing, x.shared} \subseteq BOOLEAN

VARIABLES
  setup,      \* which of Setups
  disk,       \* the size of every file; 0 where there is none
  recency,    \* the payload files by mtime, the oldest first
  estimate,   \* cached_bytes_on_disk
  pc,         \* per thread, where it stands
  path,       \* per thread, the file it writes
  size,       \* per thread, the size it writes
  old,        \* per thread, the size it replaces
  measured,   \* per thread, the result of its last walk
  writes,     \* writes begun by this process
  boots       \* processes started

vars == <<setup, disk, recency, estimate, pc, path, size, old, measured, writes, boots>>

files  == <<disk, recency>>
job    == <<path, size, old>>
bounds == <<setup, writes, boots>>

Bytes(d, S) == MapThenSumSet(LAMBDA p : d[p], S)

\* disk_usage: a walk counts the files with the extension json, and no others.
Usage(d) == Bytes(d, Paths)

\* The sizes a file may have.
Held(x) == x.sizes \union {0} \union UNION {{d[p] : p \in Paths} : d \in x.contents}

\* Neither the budget nor a directory full of files reaches half of what the
\* counter counts.
ASSUME SizeAssumption == \A x \in Setups : /\ x.maxBytes < Wrap \div 2
                                         /\ \A d \in [Paths -> Held(x)] : Usage(d) < Wrap \div 2

\* The low-water mark of an automatic pass.
LowWater == Max({(setup.maxBytes * 9) \div 10, MinBytes})

\* No write is under way.
Quiet == \A t \in Threads : pc[t] = "idle"

Goto(t, label) == pc' = [pc EXCEPT ![t] = label]

-----------------------------------------------------------------------------
(* prune_stale_entries(root, config with max_bytes = limit).                *)

\* The shortest prefix of the removable payloads that frees the target.
Prefix(order, n) == {order[i] : i \in 1 .. n}

\* The files of an order that are in S.
Keep(order, S) == FoldLeft(LAMBDA kept, p : IF p \in S THEN Append(kept, p) ELSE kept, <<>>, order)

\* Fault: the sidecars are not counted.
VictimsOfPayloads(d, order, limit) ==
  LET target == Bytes(d, Payloads) - limit
      enough == {n \in 0 .. Len(order) : Bytes(d, Prefix(order, n)) >= target}
  IN  IF enough = {} THEN ToSet(order) ELSE Prefix(order, Min(enough))

Victims(d, order, limit) ==
  LET target == Usage(d) - limit
      enough == {n \in 0 .. Len(order) : Bytes(d, Prefix(order, n)) >= target}
  IN  IF enough = {} THEN ToSet(order) ELSE Prefix(order, Min(enough))

\* The files that are too old go first: payloads by mtime, so a prefix of the
\* order, and any sidecars.  A stuck file cannot be removed; an old payload that
\* is stuck counts no more than one that is gone.  A walk that fails ends the
\* pass before it trims to the limit.
Pruned(limit) ==
  \E n \in 0 .. Len(recency), oldSidecars \in SUBSET Sidecars,
     stuck \in IF setup.failing THEN SUBSET {p \in Paths : disk[p] > 0} ELSE {{}} :
    LET aged    == Prefix(recency, n) \union oldSidecars
        counted == [p \in Paths |-> IF p \in aged \ (stuck \intersect Sidecars)
                                   THEN 0 ELSE disk[p]]
        order   == Keep(recency, Paths \ (aged \union stuck))
    IN  \E trimmed \in {Victims(counted, order, limit)} \union (IF setup.failing THEN {{}} ELSE {}) :
          /\ disk'    = [p \in Paths |-> IF p \in (aged \ stuck) \union trimmed
                                        THEN 0 ELSE disk[p]]
          /\ recency' = Keep(recency, {p \in Paths : disk'[p] > 0})

-----------------------------------------------------------------------------
(* A process opens the cache: new_with_config measures and enforces.        *)

Opened == {[t \in Threads |-> IF t = opener THEN "check" ELSE "idle"] : opener \in setup.threads}
Nowhere == [t \in Threads |-> CHOOSE p \in Paths : TRUE]
Zero    == [t \in Threads |-> 0]

\* The locals of a write are gone once its size is accounted for.
Forget(t) ==
  /\ path' = [path EXCEPT ![t] = Nowhere[t]]
  /\ size' = [size EXCEPT ![t] = 0]
  /\ old'  = [old EXCEPT ![t] = 0]

Init ==
  /\ setup    \in Setups
  /\ disk     \in setup.contents
  /\ recency  \in SetToSeqs({p \in Payloads : disk[p] > 0})
  /\ estimate = Usage(disk)
  /\ pc       \in Opened
  /\ path     = Nowhere
  /\ size     = Zero
  /\ old      = Zero
  /\ measured = Zero
  /\ writes   = 0
  /\ boots    = 1

\* The process is killed or ends; another one opens the cache, prunes by age
\* and size if the last pass is a day old, and measures.
Reopen ==
  /\ boots < setup.boots
  /\ boots' = boots + 1
  /\ UNCHANGED <<disk, recency>> \/ Pruned(setup.maxBytes)
  /\ estimate' = Usage(disk')
  /\ pc'       \in Opened
  /\ path'     = Nowhere
  /\ size'     = Zero
  /\ old'      = Zero
  /\ measured' = Zero
  /\ writes'   = 0
  /\ UNCHANGED setup

-----------------------------------------------------------------------------
(* Replacing a file: write_record, write_text_to_disk, and the fingerprint  *)
(* with finish_fingerprint_write.                                           *)

\* Two threads never replace one file at a time: a record is written under the
\* lock of its shard, and a sidecar belongs to one jar and one collector, which
\* looks a jar up once.
Replacing(t) == pc[t] \in {"write", "account", "add"}

Begin(t, p, n) ==
  /\ pc[t] = "idle"
  /\ writes < setup.writes
  /\ \A u \in Threads \ {t} : ~(Replacing(u) /\ path[u] = p)
  /\ path' = [path EXCEPT ![t] = p]
  /\ size' = [size EXCEPT ![t] = n]
  /\ old'  = [old EXCEPT ![t] = disk[p]]
  /\ writes' = writes + 1
  /\ Goto(t, "write")
  /\ UNCHANGED <<setup, files, estimate, measured, boots>>

Newest(order, p) ==
  IF p \in Payloads THEN Append(Keep(order, Paths \ {p}), p) ELSE order

\* The rename.  A write that reports an error is neither accounted for nor
\* followed by a check of the budget.
Write(t) ==
  /\ pc[t] = "write"
  /\ \/ /\ disk'    = [disk EXCEPT ![path[t]] = size[t]]
        /\ recency' = Newest(recency, path[t])
        /\ \/ Goto(t, "account") /\ UNCHANGED job
           \/ setup.failing /\ Goto(t, "idle") /\ Forget(t)
     \/ /\ setup.failing
        /\ Goto(t, "idle") /\ Forget(t)
        /\ UNCHANGED <<disk, recency>>
  /\ UNCHANGED <<estimate, measured, bounds>>

\* account_disk_write reads the counter ...
Account(t) ==
  /\ pc[t] = "account"
  /\ IF estimate = Stale THEN Goto(t, "check") /\ Forget(t)
                         ELSE Goto(t, "add") /\ UNCHANGED job
  /\ UNCHANGED <<files, estimate, measured, bounds>>

\* Fault: what was replaced is not subtracted.
AddWritten(t) ==
  /\ pc[t] = "add"
  /\ estimate' = (estimate + size[t]) % Wrap
  /\ Goto(t, "check")
  /\ Forget(t)
  /\ UNCHANGED <<files, measured, bounds>>

\* Fault: the budget is not checked after the write.
AddUnchecked(t) ==
  /\ pc[t] = "add"
  /\ estimate' = (estimate + size[t] - old[t]) % Wrap
  /\ Goto(t, "idle")
  /\ Forget(t)
  /\ UNCHANGED <<files, measured, bounds>>

\* ... and adds to or subtracts from whatever it is by then.
Add(t) ==
  /\ pc[t] = "add"
  /\ estimate' = (estimate + size[t] - old[t]) % Wrap
  /\ Goto(t, "check")
  /\ Forget(t)
  /\ UNCHANGED <<files, measured, bounds>>

-----------------------------------------------------------------------------
(* enforce_size_budget_after_write.                                         *)

\* disk_usage(): the estimate, or a first walk if there is none.
Check(t) ==
  /\ pc[t] = "check"
  /\ Goto(t, CASE estimate = Stale     -> "walk"
               [] estimate <= setup.maxBytes -> "idle"
               [] OTHER                -> "lock")
  /\ UNCHANGED <<files, estimate, job, measured, bounds>>

Walk(t, label, next) ==
  /\ pc[t] = label
  /\ measured' = [measured EXCEPT ![t] = Usage(disk)]
  /\ Goto(t, next)
  /\ UNCHANGED <<files, estimate, job, bounds>>

StoreWalk(t, label, next) ==
  /\ pc[t] = label
  /\ estimate' = measured[t]
  /\ measured' = [measured EXCEPT ![t] = 0]
  /\ Goto(t, next)
  /\ UNCHANGED <<files, job, bounds>>

FirstWalk(t)  == Walk(t, "walk", "walked")
FirstStore(t) == StoreWalk(t, "walked", IF measured[t] <= setup.maxBytes THEN "idle" ELSE "lock")

\* Fault: a thread that waits for the lock counts as holding it.
InBudgetWaiting(t) == pc[t] \in {"lock", "store", "prune", "remeasure", "restore"}

InBudget(t) == pc[t] \in {"store", "prune", "remeasure", "restore"}

\* budget_lock is taken and the directory is measured again.
Lock(t) == /\ \A u \in Threads \ {t} : ~InBudget(u)
           /\ Walk(t, "lock", "store")
Store(t) == StoreWalk(t, "store", IF measured[t] <= setup.maxBytes THEN "idle" ELSE "prune")

Prune(t) ==
  /\ pc[t] = "prune"
  /\ Pruned(LowWater)
  /\ Goto(t, "remeasure")
  /\ UNCHANGED <<estimate, job, measured, bounds>>

Remeasure(t) == Walk(t, "remeasure", "restore")
Restore(t) == StoreWalk(t, "restore", "idle")

-----------------------------------------------------------------------------
\* promote_on_hit: a lookup makes a record the newest.
Promote(p) ==
  /\ disk[p] > 0
  /\ recency' = Newest(recency, p)
  /\ UNCHANGED <<disk, estimate, pc, job, measured, bounds>>

\* prune_now and clear_all: `intermed cache prune` and `cache clear`, in a
\* process that does nothing else.
Maintenance ==
  /\ Quiet
  /\ \/ Pruned(setup.maxBytes)
     \/ disk' = [p \in Paths |-> 0] /\ recency' = <<>>
  /\ estimate' = Usage(disk')
  /\ UNCHANGED <<pc, job, measured, bounds>>

\* Another process writes or removes a file and keeps its own account.
OtherProcess(p, n) ==
  /\ setup.shared
  /\ disk' = [disk EXCEPT ![p] = n]
  /\ recency' = IF n > 0 THEN Newest(recency, p) ELSE Keep(recency, Paths \ {p})
  /\ UNCHANGED <<estimate, pc, job, measured, bounds>>

Continue(t) ==
  \/ Write(t) \/ Account(t) \/ Add(t)
  \/ Check(t) \/ FirstWalk(t) \/ FirstStore(t)
  \/ Lock(t) \/ Store(t) \/ Prune(t) \/ Remeasure(t) \/ Restore(t)

Next ==
  \/ \E t \in setup.threads : \/ Continue(t)
                             \/ \E p \in setup.paths, n \in setup.sizes : Begin(t, p, n)
  \/ Reopen
  \/ Maintenance
  \/ \E p \in Payloads : Promote(p)
  \/ \E p \in setup.paths, n \in setup.sizes \union {0} : OtherProcess(p, n)

Spec == Init /\ [][Next]_vars

\* The threads are scheduled, and the lock is held for one pass only.
FairSpec == Spec /\ \A t \in Threads : WF_vars(Continue(t))

-----------------------------------------------------------------------------
(* Properties.                                                              *)

\* Every variable holds a value of its type; the order lists the payloads.
TypeOK ==
  /\ setup    \in Setups
  /\ disk     \in [Paths -> Nat]
  /\ ToSet(recency) = {p \in Payloads : disk[p] > 0}
  /\ Len(recency) = Cardinality(ToSet(recency))
  /\ estimate \in 0 .. Wrap - 1
  /\ pc       \in [Threads -> {"idle", "write", "account", "add", "check", "walk", "walked",
                              "lock", "store", "prune", "remeasure", "restore"}]
  /\ path     \in [Threads -> Paths]
  /\ size     \in [Threads -> setup.sizes \union {0}]
  /\ old      \in [Threads -> Nat]
  /\ measured \in [Threads -> Nat]
  /\ writes   \in 0 .. setup.writes
  /\ boots    \in Nat

\* One thread writes, nothing fails, and no other process uses the cache.
Alone == Cardinality(setup.threads) = 1 /\ ~setup.failing /\ ~setup.shared

\* The comment in write_record: the counter is updated "so disk_usage() stays
\* accurate without a full walk after each write".
EstimateExact == Alone /\ Quiet => estimate = Usage(disk)

\* docs/reference/caching.md: "The size budget is enforced while payloads and
\* fingerprint hints are written".  When no write is under way the cache is
\* within its budget, or there is no payload left to evict.
WithinBudget == Quiet => Usage(disk) <= setup.maxBytes \/ Bytes(disk, Payloads) = 0

\* That one writer keeps the cache within its budget, whatever it finds there
\* and whatever is evicted by age.  Two need not (MCCacheBudgetRace.cfg): the
\* walk that ends one's pass overwrites what the other has just added.
BudgetHonoured == Alone => WithinBudget

\* An underflow of the counter, which a lost update or another process makes
\* possible, does not survive the write that causes it: it looks like a huge
\* cache (or like one never measured), and is replaced by a measurement.
UnderflowHeals == Quiet => estimate < Wrap \div 2

\* Every write returns; no thread is left waiting for the budget lock.
EveryWriteReturns == \A t \in Threads : pc[t] # "idle" ~> pc[t] = "idle"
=============================================================================
