------------------------------ MODULE JarCache ------------------------------
(***************************************************************************)
(* The read-through cache of jar scans                                     *)
(* (crates/intermed-doctor-core/src/jar_cache/).                           *)
(*                                                                         *)
(* Scanner threads of one process look jars up concurrently.  A lookup     *)
(* hashes the jar, asks the memory, disk and remote tiers in this order,   *)
(* and on a miss takes the single-flight gate of its key, asks the tiers   *)
(* again, scans and stores the result.  Other processes share the disk     *)
(* and the remote tier, pruning deletes files at any time, jars are        *)
(* replaced, writes fail, a scan panics, and the process may be killed.    *)
(* One collector is modelled: everything is keyed by collector.  The sizes *)
(* of the files are the subject of CacheBudget.                            *)
(***************************************************************************)
EXTENDS Integers, FiniteSets

CONSTANTS
  Threads,      \* the scanner threads of a process
  Gates,        \* identities for the single-flight mutexes
  NoGate,
  Jars,         \* jar paths
  Hashes,       \* contents a jar may have; a content is named by its SHA-256
  JarStates,    \* what may stand at a jar path: files, and Absent
  Stamps,       \* values of (mtime, size); two contents may have the same one
  Versions,     \* cache_version strings
  Segment,      \* sanitize_segment, restricted to Versions
  Absent,       \* no file, no entry, nothing to read
  Junk,         \* a text that is not a record of the current schema
  Leftover,     \* what may stand at a cache path when the cache is first opened
  HasRemote,    \* a remote tier is attached
  Failing,      \* writes may fail and scans may panic
  Rewriting,    \* a jar may be replaced while it is being looked up
  MemoryCap,    \* MEM_CACHE_CAP
  MaxLookups,   \* bound: lookups of one process
  MaxBoots      \* bound: processes

Keys  == [ver : Versions, sha : Hashes]
Paths == {<<Segment[v], h>> : v \in Versions, h \in Hashes}

\* What scanning a jar with the logic of a version returns, and the records
\* made of it.  A jar that cannot be read has a result as well.
Payloads == [ver : Versions, read : Hashes \union {Absent}]
Records  == [ver : Versions, sha : Hashes, payload : Payloads]
Texts    == Records \union {Junk}
JarFiles == [sha : Hashes, stamp : Stamps]

\* FingerprintRecord: fresh while last_verified_secs is within the TTL.
Sidecars == [stamp : Stamps, sha : Hashes, fresh : BOOLEAN]

ASSUME GateAssumption ==
  /\ IsFiniteSet(Threads) /\ IsFiniteSet(Gates)
  /\ Cardinality(Gates) >= Cardinality(Threads)
  /\ NoGate \notin Gates
ASSUME DataAssumption ==
  /\ Absent \notin Hashes \union Texts \union JarFiles \union Sidecars
  /\ Junk \notin Records
  /\ Leftover \subseteq Texts
  /\ JarStates \subseteq JarFiles \union {Absent}
  /\ Versions \subseteq DOMAIN Segment
ASSUME SwitchAssumption ==
  /\ {HasRemote, Failing, Rewriting} \subseteq BOOLEAN
  /\ {MemoryCap, MaxLookups, MaxBoots} \subseteq Nat

Counters == {"hits", "misses", "coalesced", "fast", "mem", "remote", "writes"}

VARIABLES
  jar,       \* the jars: content and metadata, or Absent
  disk,      \* the payload files of the cache root
  remote,    \* the remote tier
  fp,        \* the fingerprint sidecars, per jar path
  memory,    \* the in-process tier
  inflight,  \* the single-flight registry: the gate registered for a key
  stats,     \* the counters of the process
  pc,        \* per thread, where its lookup stands
  want,      \* per thread, the jar and the version looked up
  stamp,     \* per thread, the metadata it has seen
  sha,       \* per thread, the hash it has computed
  hint,      \* per thread, whether the fingerprint agreed
  gate,      \* per thread, the gate it waits for or holds
  held,      \* per thread, the text or the payload it carries
  lookups,   \* lookups begun by this process
  boots,     \* processes started
  scans      \* history: scans of each key begun by this process

vars == <<jar, disk, remote, fp, memory, inflight, stats, pc, want, stamp, sha,
          hint, gate, held, lookups, boots, scans>>

store   == <<jar, disk, remote, fp>>
request == <<want, stamp, sha, hint>>
bounds  == <<lookups, boots>>

Key(t)  == [ver |-> want[t].ver, sha |-> sha[t]]
Path(k) == <<Segment[k.ver], k.sha>>

\* Fault: the version in the header is not compared.
ValidAnyVersion(text, k) == /\ text \in Records
                            /\ text.sha = k.sha

\* parse_record and record_header_valid.
Valid(text, k) == /\ text \in Records
                  /\ text.sha = k.sha
                  /\ text.ver = k.ver

Bump(S) == stats' = [c \in Counters |-> IF c \in S THEN stats[c] + 1 ELSE stats[c]]

\* mem_put: a full tier is emptied before it grows.
Remember(k, text) ==
  memory' = IF Cardinality({l \in Keys : memory[l] # Absent}) >= MemoryCap
            THEN [l \in Keys |-> IF l = k THEN text ELSE Absent]
            ELSE [memory EXCEPT ![k] = text]

Goto(t, label) == pc' = [pc EXCEPT ![t] = label]

\* The outcome of write_atomic: an error may follow the rename.
Outcomes == {[ok |-> TRUE, effect |-> TRUE]} \union
            (IF Failing THEN {[ok |-> FALSE, effect |-> FALSE],
                              [ok |-> FALSE, effect |-> TRUE]} ELSE {})

\* The critical section of a write shard: two threads that store something
\* for one hash exclude each other.
InShard(t)   == pc[t] = "publish"
ShardFree(t) == \A u \in Threads \ {t} : ~(InShard(u) /\ sha[u] = sha[t])

-----------------------------------------------------------------------------
(* A process starts with empty memory, no gates and counters at zero.       *)

NoWant    == [jar |-> Absent, ver |-> Absent]
ZeroStats == [c \in Counters |-> 0]
NoScans   == [k \in Keys |-> 0]

Init ==
  /\ jar      \in [Jars -> JarStates]
  /\ disk     \in [Paths -> Leftover \union {Absent}]
  /\ remote   = [k \in Keys |-> Absent]
  /\ fp       = [j \in Jars |-> Absent]
  /\ memory   = [k \in Keys |-> Absent]
  /\ inflight = [k \in Keys |-> NoGate]
  /\ stats    = ZeroStats
  /\ pc       = [t \in Threads |-> "idle"]
  /\ want     = [t \in Threads |-> NoWant]
  /\ stamp    = [t \in Threads |-> Absent]
  /\ sha      = [t \in Threads |-> Absent]
  /\ hint     = [t \in Threads |-> FALSE]
  /\ gate     = [t \in Threads |-> NoGate]
  /\ held     = [t \in Threads |-> Absent]
  /\ lookups  = 0
  /\ boots    = 1
  /\ scans    = NoScans

\* The process is killed or returns; another one opens the cache.
Reopen ==
  /\ boots < MaxBoots
  /\ boots'    = boots + 1
  /\ memory'   = [k \in Keys |-> Absent]
  /\ inflight' = [k \in Keys |-> NoGate]
  /\ stats'    = ZeroStats
  /\ pc'       = [t \in Threads |-> "idle"]
  /\ want'     = [t \in Threads |-> NoWant]
  /\ stamp'    = [t \in Threads |-> Absent]
  /\ sha'      = [t \in Threads |-> Absent]
  /\ hint'     = [t \in Threads |-> FALSE]
  /\ gate'     = [t \in Threads |-> NoGate]
  /\ held'     = [t \in Threads |-> Absent]
  /\ lookups'  = 0
  /\ scans'    = NoScans
  /\ UNCHANGED store

-----------------------------------------------------------------------------
(* get_or_scan up to the hash of the current bytes.                         *)

Begin(t, j, v) ==
  /\ pc[t] = "idle"
  /\ lookups < MaxLookups
  /\ lookups' = lookups + 1
  /\ want' = [want EXCEPT ![t] = [jar |-> j, ver |-> v]]
  /\ Goto(t, "stat")
  /\ UNCHANGED <<store, memory, inflight, stats, stamp, sha, hint, gate, held,
                 boots, scans>>

Stat(t) ==
  LET j == want[t].jar IN
  /\ pc[t] = "stat"
  /\ IF jar[j] = Absent
     THEN /\ Bump({"misses"})
          /\ Goto(t, "bare")
          /\ UNCHANGED stamp
     ELSE /\ stamp' = [stamp EXCEPT ![t] = jar[j].stamp]
          /\ Goto(t, "hash")
          /\ UNCHANGED stats
  /\ UNCHANGED <<store, memory, inflight, want, sha, hint, gate, held, bounds, scans>>

\* The sidecar as a hint: of the same metadata and not expired.
Hinted(t) ==
  LET record == fp[want[t].jar] IN
  record # Absent /\ record.stamp = stamp[t] /\ record.fresh

\* resolve_sha256: the hash is computed whatever the sidecar says.
Resolved(t) == jar[want[t].jar].sha

Hash(t) ==
  /\ pc[t] = "hash"
  /\ IF jar[want[t].jar] = Absent
     THEN /\ Bump({"misses"})
          /\ Goto(t, "bare")
          /\ UNCHANGED <<sha, hint>>
     ELSE /\ sha'  = [sha EXCEPT ![t] = Resolved(t)]
          /\ hint' = [hint EXCEPT ![t] = /\ Hinted(t)
                                         /\ fp[want[t].jar].sha = sha'[t]]
          /\ Goto(t, "memory")
          /\ UNCHANGED stats
  /\ UNCHANGED <<store, memory, inflight, want, stamp, gate, held, bounds, scans>>

\* A lookup that cannot be keyed scans without the cache.
BareScan(t) ==
  LET file == jar[want[t].jar] IN
  /\ pc[t] = "bare"
  /\ held' = [held EXCEPT ![t] =
       [ver |-> want[t].ver, read |-> IF file = Absent THEN Absent ELSE file.sha]]
  /\ Goto(t, "return")
  /\ UNCHANGED <<store, memory, inflight, stats, request, gate, bounds, scans>>

-----------------------------------------------------------------------------
(* read_cached: memory, disk, remote; then the record is parsed.  It runs   *)
(* before the gate is asked for and again by the thread that holds it.      *)

\* No tier gave a record: wait for the gate, or scan if this thread has it.
Missed(t, counted) ==
  IF gate[t] = NoGate
  THEN /\ Bump(counted)
       /\ Goto(t, "register")
       /\ UNCHANGED scans
  ELSE /\ Bump(counted \union {"misses"})
       /\ Goto(t, "scan")
       /\ scans' = [scans EXCEPT ![Key(t)] = scans[Key(t)] + 1]

\* The counters of a lookup that a tier has answered.
ServedCounters(t) ==
  IF gate[t] = NoGate
  THEN {"hits"} \union (IF hint[t] THEN {"fast"} ELSE {})
  ELSE {"coalesced"}

\* A tier gave a text.
Parsed(t, text, counted) ==
  IF Valid(text, Key(t))
  THEN /\ held' = [held EXCEPT ![t] = text.payload]
       /\ Bump(counted \union ServedCounters(t))
       /\ Goto(t, "save")
       /\ UNCHANGED scans
  ELSE /\ held' = [held EXCEPT ![t] = Absent]
       /\ Missed(t, counted)

ReadMemory(t) ==
  /\ pc[t] = "memory"
  /\ IF memory[Key(t)] # Absent
     THEN Parsed(t, memory[Key(t)], {"mem"})
     ELSE /\ Goto(t, "disk")
          /\ UNCHANGED <<held, stats, scans>>
  /\ UNCHANGED <<store, memory, inflight, request, gate, bounds>>

ReadDisk(t) ==
  LET text == disk[Path(Key(t))] IN
  /\ pc[t] = "disk"
  /\ IF text # Absent
     THEN /\ held' = [held EXCEPT ![t] = text]
          /\ Goto(t, "warm")
     ELSE /\ Goto(t, "remote")
          /\ UNCHANGED held
  /\ UNCHANGED <<store, memory, inflight, stats, request, gate, bounds, scans>>

\* The text of a slower tier is put into memory before it is parsed.
Warm(t) ==
  /\ pc[t] = "warm"
  /\ Remember(Key(t), held[t])
  /\ Parsed(t, held[t], {})
  /\ UNCHANGED <<store, inflight, request, gate, bounds>>

ReadRemote(t) ==
  LET text == remote[Key(t)] IN
  /\ pc[t] = "remote"
  /\ IF HasRemote /\ Valid(text, Key(t))
     THEN /\ held' = [held EXCEPT ![t] = text]
          /\ Bump({"remote"})
          /\ Goto(t, "fill")
          /\ UNCHANGED scans
     ELSE /\ Missed(t, {})
          /\ UNCHANGED held
  /\ UNCHANGED <<store, memory, inflight, request, gate, bounds>>

StoreOnDisk(path, text, outcome) ==
  disk' = IF outcome.effect THEN [disk EXCEPT ![path] = text] ELSE disk

\* write_text_to_disk: whatever comes of it, the lookup goes on.
Fill(t, outcome) ==
  /\ pc[t] = "fill"
  /\ ShardFree(t)
  /\ StoreOnDisk(Path(Key(t)), held[t], outcome)
  /\ Goto(t, "warm")
  /\ UNCHANGED <<jar, remote, fp, memory, inflight, stats, request, gate, held,
                 bounds, scans>>

-----------------------------------------------------------------------------
(* The gate of a key: acquire_gate, the mutex, and InflightGuard.           *)

Register(t) ==
  LET k      == Key(t)
      unused == {g \in Gates : \A u \in Threads : gate[u] # g}
  IN
  /\ pc[t] = "register"
  /\ \E g \in IF inflight[k] = NoGate THEN unused ELSE {inflight[k]} :
       /\ gate'     = [gate EXCEPT ![t] = g]
       /\ inflight' = [inflight EXCEPT ![k] = g]
  /\ Goto(t, "lock")
  /\ UNCHANGED <<store, memory, stats, request, held, bounds, scans>>

Holds(t) == gate[t] # NoGate /\ pc[t] \notin {"lock", "unregister"}

\* Fault: a gate that is no longer registered is not taken.
GateFreeRegistered(t) ==
  /\ inflight[Key(t)] = gate[t]
  /\ \A u \in Threads \ {t} : ~(Holds(u) /\ gate[u] = gate[t])

GateFree(t) == \A u \in Threads \ {t} : ~(Holds(u) /\ gate[u] = gate[t])

\* Fault: the tiers are not asked again.
LockNoRecheck(t) ==
  /\ pc[t] = "lock"
  /\ GateFree(t)
  /\ Goto(t, "scan")
  /\ Bump({"misses"})
  /\ scans' = [scans EXCEPT ![Key(t)] = scans[Key(t)] + 1]
  /\ UNCHANGED <<store, memory, inflight, request, gate, held, bounds>>

Lock(t) ==
  /\ pc[t] = "lock"
  /\ GateFree(t)
  /\ Goto(t, "memory")
  /\ UNCHANGED <<store, memory, inflight, stats, request, gate, held, bounds, scans>>

\* The mutex is released first, then the registration is dropped.
Unlock(t) ==
  /\ pc[t] = "unlock"
  /\ Goto(t, "unregister")
  /\ UNCHANGED <<store, memory, inflight, stats, request, gate, held, bounds, scans>>

\* Fault: only a lookup that has a result drops the registration.
UnregisterOnSuccess(t) ==
  /\ pc[t] = "unregister"
  /\ inflight' = IF held[t] = Absent THEN inflight
                 ELSE [inflight EXCEPT ![Key(t)] = NoGate]
  /\ gate'     = [gate EXCEPT ![t] = NoGate]
  /\ Goto(t, "return")
  /\ UNCHANGED <<store, memory, stats, request, held, bounds, scans>>

\* Whatever gate is registered for the key by now is removed.
Unregister(t) ==
  /\ pc[t] = "unregister"
  /\ inflight' = [inflight EXCEPT ![Key(t)] = NoGate]
  /\ gate'     = [gate EXCEPT ![t] = NoGate]
  /\ Goto(t, "return")
  /\ UNCHANGED <<store, memory, stats, request, held, bounds, scans>>

-----------------------------------------------------------------------------
(* The scan, write_record, the fingerprint and the return.                  *)

\* The jar is read again: what is scanned need not be what was hashed.
Scan(t) ==
  LET file == jar[want[t].jar] IN
  /\ pc[t] = "scan"
  /\ held' = [held EXCEPT ![t] =
       [ver |-> want[t].ver, read |-> IF file = Absent THEN Absent ELSE file.sha]]
  /\ Goto(t, "write")
  /\ UNCHANGED <<store, memory, inflight, stats, request, gate, bounds, scans>>

\* A panic unwinds through the guards of the lookup and reaches the caller.
Panic(t) ==
  /\ Failing
  /\ pc[t] \in {"bare", "scan"}
  /\ Goto(t, IF pc[t] = "bare" THEN "return" ELSE "unlock")
  /\ UNCHANGED <<store, memory, inflight, stats, request, gate, held, bounds, scans>>

RecordOf(t) == [ver |-> want[t].ver, sha |-> sha[t], payload |-> held[t]]

Write(t, outcome) ==
  /\ pc[t] = "write"
  /\ ShardFree(t)
  /\ StoreOnDisk(Path(Key(t)), RecordOf(t), outcome)
  /\ Bump(IF outcome.ok THEN {"writes"} ELSE {})
  /\ Goto(t, IF outcome.ok THEN "publish" ELSE "save")
  /\ UNCHANGED <<jar, remote, fp, memory, inflight, request, gate, held, bounds, scans>>

\* The other tiers; an error of the remote tier is ignored.
Publish(t, outcome) ==
  /\ pc[t] = "publish"
  /\ Remember(Key(t), RecordOf(t))
  /\ remote' = IF HasRemote /\ outcome.effect
               THEN [remote EXCEPT ![Key(t)] = RecordOf(t)] ELSE remote
  /\ Goto(t, "save")
  /\ UNCHANGED <<jar, disk, fp, inflight, stats, request, gate, held, bounds, scans>>

\* FingerprintManager::save: a sidecar with the same mapping is left as it is.
Save(t, outcome) ==
  LET j == want[t].jar
      known == fp[j] # Absent /\ fp[j].stamp = stamp[t] /\ fp[j].sha = sha[t]
  IN
  /\ pc[t] = "save"
  /\ ShardFree(t)
  /\ fp' = IF known \/ ~outcome.effect THEN fp
           ELSE [fp EXCEPT ![j] = [stamp |-> stamp[t], sha |-> sha[t], fresh |-> TRUE]]
  /\ Goto(t, IF gate[t] = NoGate THEN "return" ELSE "unlock")
  /\ UNCHANGED <<jar, disk, remote, memory, inflight, stats, request, gate, held,
                 bounds, scans>>

\* The caller has the result.
Return(t) ==
  /\ pc[t] = "return"
  /\ Goto(t, "idle")
  /\ want'  = [want EXCEPT ![t] = NoWant]
  /\ stamp' = [stamp EXCEPT ![t] = Absent]
  /\ sha'   = [sha EXCEPT ![t] = Absent]
  /\ hint'  = [hint EXCEPT ![t] = FALSE]
  /\ held'  = [held EXCEPT ![t] = Absent]
  /\ UNCHANGED <<store, memory, inflight, stats, gate, bounds, scans>>

-----------------------------------------------------------------------------
(* The environment: users, other processes, pruning, time.                  *)

Replace(j, file) ==
  /\ Rewriting \/ \A t \in Threads : want[t].jar # j
  /\ jar' = [jar EXCEPT ![j] = file]
  /\ UNCHANGED <<disk, remote, fp, memory, inflight, stats, pc, request, gate, held,
                 bounds, scans>>

\* prune_stale_entries of this or another process removes a payload.
Evict(path) ==
  /\ disk' = [disk EXCEPT ![path] = Absent]
  /\ UNCHANGED <<jar, remote, fp, memory, inflight, stats, pc, request, gate, held,
                 bounds, scans>>

\* ... or a sidecar that is old, or the sidecar outlives its TTL.
Age(j) ==
  /\ fp[j] # Absent
  /\ fp' \in {[fp EXCEPT ![j] = Absent], [fp EXCEPT ![j] = [fp[j] EXCEPT !.fresh = FALSE]]}
  /\ UNCHANGED <<jar, disk, remote, memory, inflight, stats, pc, request, gate, held,
                 bounds, scans>>

\* Another process, here or on another machine, stores a record of its own.
OtherProcess(k) ==
  LET record == [ver |-> k.ver, sha |-> k.sha, payload |-> [ver |-> k.ver, read |-> k.sha]]
  IN
  /\ \/ /\ disk' = [disk EXCEPT ![Path(k)] = record]
        /\ UNCHANGED remote
     \/ /\ HasRemote
        /\ remote' = [remote EXCEPT ![k] = record]
        /\ UNCHANGED disk
  /\ UNCHANGED <<jar, fp, memory, inflight, stats, pc, request, gate, held, bounds, scans>>

-----------------------------------------------------------------------------
Continue(t) ==
  \/ Stat(t) \/ Hash(t) \/ BareScan(t)
  \/ ReadMemory(t) \/ ReadDisk(t) \/ Warm(t) \/ ReadRemote(t)
  \/ Register(t) \/ Lock(t) \/ Unlock(t) \/ Unregister(t)
  \/ Scan(t) \/ Panic(t) \/ Return(t)
  \/ \E outcome \in Outcomes :
       Fill(t, outcome) \/ Write(t, outcome) \/ Publish(t, outcome) \/ Save(t, outcome)

Environment ==
  \/ Reopen
  \/ \E j \in Jars : Age(j) \/ \E file \in JarStates : Replace(j, file)
  \/ \E path \in Paths : Evict(path)
  \/ \E k \in Keys : OtherProcess(k)

Next ==
  \/ \E t \in Threads : \/ Continue(t)
                       \/ \E j \in Jars, v \in Versions : Begin(t, j, v)
  \/ Environment

Spec == Init /\ [][Next]_vars

\* Threads are scheduled.  (A std Mutex is not fair, but the lookups that can
\* be ahead of a waiting thread are finitely many.)
FairSpec == Spec /\ \A t \in Threads : WF_vars(Continue(t))

-----------------------------------------------------------------------------
(* Properties.                                                              *)

Labels == {"idle", "stat", "hash", "bare", "memory", "disk", "warm", "remote", "fill",
           "register", "lock", "scan", "write", "publish", "save", "unlock",
           "unregister", "return"}

\* Every variable holds a value of its type.
TypeOK ==
  /\ jar      \in [Jars -> JarFiles \union {Absent}]
  /\ disk     \in [Paths -> Texts \union {Absent}]
  /\ remote   \in [Keys -> Records \union {Absent}]
  /\ fp       \in [Jars -> Sidecars \union {Absent}]
  /\ memory   \in [Keys -> Texts \union {Absent}]
  /\ inflight \in [Keys -> Gates \union {NoGate}]
  /\ stats    \in [Counters -> Nat]
  /\ pc       \in [Threads -> Labels]
  /\ want     \in [Threads -> [jar : Jars, ver : Versions] \union {NoWant}]
  /\ stamp    \in [Threads -> Stamps \union {Absent}]
  /\ sha      \in [Threads -> Hashes \union {Absent}]
  /\ hint     \in [Threads -> BOOLEAN]
  /\ gate     \in [Threads -> Gates \union {NoGate}]
  /\ held     \in [Threads -> Payloads \union Texts \union {Absent}]
  /\ lookups  \in 0 .. MaxLookups
  /\ boots    \in Nat
  /\ scans    \in [Keys -> Nat]

\* docs/reference/caching.md: "a cached result is byte-for-byte what a fresh
\* scan would produce".  A lookup returns what this version's scan of the
\* bytes in the jar returns, whichever tier, process or version answered.
ResultIsFresh ==
  \A t \in Threads :
    (pc[t] = "return" /\ held[t] # Absent) =>
      LET file == jar[want[t].jar] IN
      held[t] = [ver |-> want[t].ver, read |-> IF file = Absent THEN Absent ELSE file.sha]

\* The comment at JarCache::inflight: "only one thread runs the expensive
\* scan()" of a payload key at a time.
SingleFlight ==
  \A t, u \in Threads : (t # u /\ pc[t] = "scan" /\ pc[u] = "scan") => Key(t) # Key(u)

\* While writes succeed, a process scans a key once: whatever is evicted and
\* however the gates of the key come and go, a later or a waiting lookup finds
\* the result of the first.
ScannedOnce == \A k \in Keys : scans[k] <= 1

\* A registered gate is some thread's: nothing is left in the registry when
\* the threads that used it are gone, and a new lookup never waits for a
\* mutex nobody will release.
RegistryReclaimed ==
  \A k \in Keys : inflight[k] # NoGate =>
    \E t \in Threads : gate[t] = inflight[k] /\ Key(t) = k

\* Every lookup returns, whoever else waits, fails, panics or evicts.
EveryLookupReturns == \A t \in Threads : pc[t] # "idle" ~> pc[t] = "idle"
=============================================================================
