--------------------------- MODULE JarCacheProofs ---------------------------
(***************************************************************************)
(* Theorems about the jar cache, for any number of threads, jars, contents *)
(* and versions.                                                           *)
(***************************************************************************)
EXTENDS JarCache, FiniteSetTheorems, TLAPS

\* The labels at which a lookup knows the metadata, and the hash, of its jar.
Keyed   == Labels \ {"idle", "stat", "hash", "bare", "return"}
Stamped == Keyed \union {"hash"}

\* The labels reached only with a gate, and only without one.
Gated   == {"lock", "scan", "write", "publish", "unlock", "unregister"}
Ungated == {"idle", "stat", "hash", "bare", "register", "return"}

\* The labels at which a lookup carries no text and no payload.
Empty == {"idle", "stat", "hash", "bare", "memory", "disk", "remote", "register",
          "lock", "scan"}

\* What the locals of a thread hold where it stands.
Located(t) ==
  /\ pc[t] = "idle" => want[t] = NoWant
  /\ pc[t] # "idle" => want[t] \in [jar : Jars, ver : Versions]
  /\ pc[t] \in Keyed => sha[t] \in Hashes
  /\ pc[t] \in Stamped => stamp[t] \in Stamps
  /\ pc[t] \in Gated => gate[t] \in Gates
  /\ pc[t] \in Ungated => gate[t] = NoGate
  /\ pc[t] \in Empty => held[t] = Absent
  /\ pc[t] \in {"warm", "fill"} => held[t] \in Texts
  /\ pc[t] \in {"write", "publish"} => held[t] \in Payloads

TypeInv == TypeOK /\ \A t \in Threads : Located(t)

\* A thread has key k and waits for, or has, its gate.
Flying(t, k) == gate[t] # NoGate /\ Key(t) = k

\* Holding the gate, a thread has found no record in memory.
Missing == {"disk", "remote", "scan", "write", "publish"}

\* The result of a key is still to be published in memory by whoever holds
\* the one gate of the key.
Open(k) ==
  \/ memory[k] = Absent
  \/ \E t \in Threads : Flying(t, k) /\ pc[t] \in Missing

\* The memory and disk tiers hold records of the right key only.
TiersValid ==
  /\ \A k \in Keys : memory[k] # Absent => Valid(memory[k], k)
  /\ \A k \in Keys : disk[Path(k)] # Absent => Valid(disk[Path(k)], k)
  /\ \A t \in Threads : pc[t] \in {"warm", "fill"} => Valid(held[t], Key(t))

\* A gate is a mutex.
MutualExclusion ==
  \A t, u \in Threads : Holds(t) /\ Holds(u) /\ gate[t] = gate[u] => t = u

\* While a key is open, all its threads wait for the registered gate.
OneGate ==
  \A k \in Keys : Open(k) => \A t \in Threads : Flying(t, k) => gate[t] = inflight[k]

\* A thread that is done with its gate leaves no work behind.
DoneIsClosed ==
  \A t \in Threads : (gate[t] # NoGate /\ pc[t] \in {"save", "unlock", "unregister"})
                       => ~Open(Key(t))

\* A key that was scanned is in memory or on its way there.
ScanIsKept ==
  \A k \in Keys : scans[k] > 0 =>
    \/ memory[k] # Absent
    \/ \E t \in Threads : Flying(t, k) /\ pc[t] \in {"scan", "write", "publish"}

\* A thread that has missed with the gate in hand is the first to scan.
MissIsFirst ==
  \A t \in Threads : (gate[t] # NoGate /\ pc[t] \in {"disk", "remote"}) => scans[Key(t)] = 0

\* Nothing fails, nothing unreadable lies in the cache, no two versions share a
\* directory, and memory has room for every key.
FlightAssumption ==
  /\ ~Failing
  /\ Leftover = {}
  /\ \A v, w \in Versions : Segment[v] = Segment[w] => v = w
  /\ IsFiniteSet(Keys)
  /\ Cardinality(Keys) < MemoryCap

\* What scanning the content h with the logic of version v returns.
ScanOf(v, h) == [ver |-> v, read |-> h]

FreshScan(t) ==
  LET file == jar[want[t].jar]
  IN  [ver |-> want[t].ver, read |-> IF file = Absent THEN Absent ELSE file.sha]

\* A text that is a record holds the scan of the content that it names.
Faithful(text) == text \in Records => text.payload = ScanOf(text.ver, text.sha)

\* Every text in the tiers is faithful.
FreshTiers ==
  /\ \A k \in Keys : Faithful(memory[k]) /\ Faithful(remote[k])
  /\ \A path \in Paths : Faithful(disk[path])

\* A thread that knows a hash knows the hash of its jar, and what it is about to
\* store or to return is a scan of its jar.
FreshLocal(t) ==
  /\ pc[t] \in {"warm", "fill"} => Faithful(held[t])
  /\ pc[t] \in Keyed => /\ jar[want[t].jar] # Absent
                        /\ jar[want[t].jar].sha = sha[t]
  /\ pc[t] \in {"write", "publish"} => held[t] = FreshScan(t)
  /\ pc[t] \in {"save", "unlock", "unregister", "return"} /\ held[t] # Absent
       => held[t] = FreshScan(t)

FreshInv == FreshTiers /\ \A t \in Threads : FreshLocal(t)

\* Jars are not replaced under a lookup, and what is found in the cache at first
\* was put there by this program or cannot be parsed.
FreshAssumption == ~Rewriting /\ \A text \in Leftover : Faithful(text)

-----------------------------------------------------------------------------
(* Typing of the helpers.                                                   *)

\* The key of a lookup that has hashed its jar is a key of the cache, and its
\* path a path of the cache.
LEMMA KeyType ==
  ASSUME NEW t \in Threads, want[t] \in [jar : Jars, ver : Versions], sha[t] \in Hashes
  PROVE  Key(t) \in Keys /\ Path(Key(t)) \in Paths
BY DEF Key, Keys, Path, Paths

\* mem_put keeps the type of the memory tier.
LEMMA RememberType ==
  ASSUME memory \in [Keys -> Texts \union {Absent}],
         NEW k \in Keys, NEW text \in Texts, Remember(k, text)
  PROVE  memory' \in [Keys -> Texts \union {Absent}]
BY DEF Remember

\* The counters stay counters.
LEMMA BumpType ==
  ASSUME stats \in [Counters -> Nat], NEW S, Bump(S)
  PROVE  stats' \in [Counters -> Nat]
BY DEF Bump

\* A text that parses carries a payload.
LEMMA ValidPayload ==
  ASSUME NEW text, NEW k, Valid(text, k)
  PROVE  text.payload \in Payloads /\ text \in Texts
BY DEF Valid, Records, Texts

-----------------------------------------------------------------------------
\* A process starts with every variable in its type and every thread idle.
LEMMA InitType == Init => TypeInv
<1> SUFFICES ASSUME Init PROVE TypeInv
  OBVIOUS
<1>1. TypeOK
  BY DataAssumption, SwitchAssumption
  DEF Init, TypeOK, ZeroStats, NoScans, Labels
<1>2. \A t \in Threads : Located(t)
  BY DEF Init, Located, Keyed, Stamped, Gated, Ungated, Empty
<1> QED
  BY <1>1, <1>2 DEF TypeInv
-----------------------------------------------------------------------------
(* TypeInv is inductive: one lemma for each action.                         *)

\* A lookup that begins names a jar and a version.
LEMMA BeginType ==
  ASSUME TypeInv, NEW t \in Threads, NEW j \in Jars, NEW v \in Versions, Begin(t, j, v)
  PROVE  TypeInv'
<1> USE DEF Begin, Goto, TypeInv, store, request, bounds
<1>1. want' \in [Threads -> [jar : Jars, ver : Versions] \union {NoWant}]
  BY DEF TypeOK
<1>2. lookups' \in 0 .. MaxLookups
  BY SwitchAssumption DEF TypeOK
<1>3. pc' \in [Threads -> Labels]
  BY DEF TypeOK, Labels
<1>4. TypeOK'
  BY <1>1, <1>2, <1>3 DEF TypeOK
<1>5. ASSUME NEW u \in Threads PROVE Located(u)'
  BY DEF TypeOK, Located, Labels, Keyed, Stamped, Gated, Ungated, Empty
<1> QED
  BY <1>4, <1>5

\* The metadata are read, or the lookup goes on without the cache.
LEMMA StatType ==
  ASSUME TypeInv, NEW t \in Threads, Stat(t)
  PROVE  TypeInv'
<1> USE DEF Stat, Goto, TypeInv, store, request, bounds
<1>1. want[t].jar \in Jars
  BY DEF Located
<1>2. jar[want[t].jar] # Absent => jar[want[t].jar].stamp \in Stamps
  BY <1>1 DEF TypeOK, JarFiles
<1>3. stats' \in [Counters -> Nat]
  BY BumpType DEF TypeOK
<1>4. stamp' \in [Threads -> Stamps \union {Absent}]
  BY <1>2 DEF TypeOK
<1>5. pc' \in [Threads -> Labels]
  BY DEF TypeOK, Labels
<1>6. TypeOK'
  BY <1>3, <1>4, <1>5 DEF TypeOK
<1>7. ASSUME NEW u \in Threads PROVE Located(u)'
  BY <1>2 DEF TypeOK, Located, Labels, Keyed, Stamped, Gated, Ungated, Empty
<1> QED
  BY <1>6, <1>7

\* The hash is computed, or the lookup goes on without the cache.
LEMMA HashType ==
  ASSUME TypeInv, NEW t \in Threads, Hash(t)
  PROVE  TypeInv'
<1> USE DEF Hash, Goto, TypeInv, store, request, bounds
<1>1. want[t].jar \in Jars
  BY DEF Located
<1>2. jar[want[t].jar] # Absent => Resolved(t) \in Hashes
  BY <1>1 DEF TypeOK, JarFiles, Resolved
<1>3. stats' \in [Counters -> Nat]
  BY BumpType DEF TypeOK
<1>4. sha' \in [Threads -> Hashes \union {Absent}]
  BY <1>2 DEF TypeOK
<1>5. hint' \in [Threads -> BOOLEAN]
  BY DEF TypeOK, Hinted
<1>6. pc' \in [Threads -> Labels]
  BY DEF TypeOK, Labels
<1>7. TypeOK'
  BY <1>3, <1>4, <1>5, <1>6 DEF TypeOK
<1>8. ASSUME NEW u \in Threads PROVE Located(u)'
  BY <1>2 DEF TypeOK, Located, Labels, Keyed, Stamped, Gated, Ungated, Empty
<1> QED
  BY <1>7, <1>8

\* A scan without the cache returns a payload.
LEMMA BareScanType ==
  ASSUME TypeInv, NEW t \in Threads, BareScan(t)
  PROVE  TypeInv'
<1> USE DEF BareScan, Goto, TypeInv, store, request, bounds
<1>1. want[t].jar \in Jars /\ want[t].ver \in Versions
  BY DEF Located
<1>2. [ver |-> want[t].ver,
      read |-> IF jar[want[t].jar] = Absent THEN Absent ELSE jar[want[t].jar].sha] \in Payloads
  BY <1>1 DEF TypeOK, JarFiles, Payloads
<1>3. held' \in [Threads -> Payloads \union Texts \union {Absent}]
  BY <1>2 DEF TypeOK
<1>4. pc' \in [Threads -> Labels]
  BY DEF TypeOK, Labels
<1>5. TypeOK'
  BY <1>3, <1>4 DEF TypeOK
<1>6. ASSUME NEW u \in Threads PROVE Located(u)'
  BY <1>2 DEF TypeOK, Located, Labels, Keyed, Stamped, Gated, Ungated, Empty
<1> QED
  BY <1>5, <1>6

\* A scan returns a payload.
LEMMA ScanType ==
  ASSUME TypeInv, NEW t \in Threads, Scan(t)
  PROVE  TypeInv'
<1> USE DEF Scan, Goto, TypeInv, store, request, bounds
<1>1. want[t].jar \in Jars /\ want[t].ver \in Versions
  BY DEF Located
<1>2. [ver |-> want[t].ver,
      read |-> IF jar[want[t].jar] = Absent THEN Absent ELSE jar[want[t].jar].sha] \in Payloads
  BY <1>1 DEF TypeOK, JarFiles, Payloads
<1>3. held' \in [Threads -> Payloads \union Texts \union {Absent}]
  BY <1>2 DEF TypeOK
<1>4. pc' \in [Threads -> Labels]
  BY DEF TypeOK, Labels
<1>5. TypeOK'
  BY <1>3, <1>4 DEF TypeOK
<1>6. ASSUME NEW u \in Threads PROVE Located(u)'
  BY <1>2 DEF TypeOK, Located, Labels, Keyed, Stamped, Gated, Ungated, Empty
<1> QED
  BY <1>5, <1>6

\* A lookup that found no record goes on with a gate or without.
LEMMA MissedType ==
  ASSUME TypeInv, NEW t \in Threads, Key(t) \in Keys, NEW S, Missed(t, S)
  PROVE  /\ stats' \in [Counters -> Nat]
         /\ scans' \in [Keys -> Nat]
         /\ pc' = [pc EXCEPT ![t] = IF gate[t] = NoGate THEN "register" ELSE "scan"]
<1>1. stats' \in [Counters -> Nat]
  BY BumpType DEF Missed, TypeInv, TypeOK
<1>2. scans' \in [Keys -> Nat]
  BY DEF Missed, TypeInv, TypeOK
<1>3. pc' = [pc EXCEPT ![t] = IF gate[t] = NoGate THEN "register" ELSE "scan"]
  BY DEF Missed, Goto
<1> QED
  BY <1>1, <1>2, <1>3

\* A text that parses is served, and one that does not is a miss.
LEMMA ParsedType ==
  ASSUME TypeInv, NEW t \in Threads, Key(t) \in Keys, NEW text, NEW S, Parsed(t, text, S)
  PROVE  /\ stats' \in [Counters -> Nat]
         /\ scans' \in [Keys -> Nat]
         /\ \/ /\ Valid(text, Key(t))
               /\ pc' = [pc EXCEPT ![t] = "save"]
               /\ held' = [held EXCEPT ![t] = text.payload]
            \/ /\ ~Valid(text, Key(t))
               /\ pc' = [pc EXCEPT ![t] = IF gate[t] = NoGate THEN "register" ELSE "scan"]
               /\ held' = [held EXCEPT ![t] = Absent]
<1>1. CASE Valid(text, Key(t))
  <2>1. stats' \in [Counters -> Nat]
    BY <1>1, BumpType DEF Parsed, TypeInv, TypeOK
  <2> QED
    BY <1>1, <2>1 DEF Parsed, TypeInv, TypeOK, Goto
<1>2. CASE ~Valid(text, Key(t))
  BY <1>2, MissedType DEF Parsed
<1> QED
  BY <1>1, <1>2

\* The memory tier answers with a payload, or the disk is asked.
LEMMA ReadMemoryType ==
  ASSUME TypeInv, NEW t \in Threads, ReadMemory(t)
  PROVE  TypeInv'
<1> USE DEF ReadMemory, TypeInv, store, request, bounds
<1>1. Key(t) \in Keys
  BY KeyType DEF Located, Labels, Keyed
<1>2. CASE memory[Key(t)] # Absent
  <2>1. Parsed(t, memory[Key(t)], {"mem"})
    BY <1>2
  <2>2. /\ stats' \in [Counters -> Nat]
        /\ scans' \in [Keys -> Nat]
        /\ \/ /\ Valid(memory[Key(t)], Key(t))
              /\ pc' = [pc EXCEPT ![t] = "save"]
              /\ held' = [held EXCEPT ![t] = memory[Key(t)].payload]
           \/ /\ ~Valid(memory[Key(t)], Key(t))
              /\ pc' = [pc EXCEPT ![t] = IF gate[t] = NoGate THEN "register" ELSE "scan"]
              /\ held' = [held EXCEPT ![t] = Absent]
    BY <1>1, <2>1, ParsedType
  <2>3. held' \in [Threads -> Payloads \union Texts \union {Absent}]
    BY <2>2, ValidPayload DEF TypeOK
  <2>4. pc' \in [Threads -> Labels]
    BY <2>2 DEF TypeOK, Labels
  <2>5. TypeOK'
    BY <2>2, <2>3, <2>4 DEF TypeOK
  <2>6. ASSUME NEW u \in Threads PROVE Located(u)'
    BY <2>2 DEF TypeOK, Located, Labels, Keyed, Stamped, Gated, Ungated, Empty
  <2> QED
    BY <2>5, <2>6
<1>3. CASE memory[Key(t)] = Absent
  <2>1. pc' \in [Threads -> Labels]
    BY <1>3 DEF TypeOK, Labels, Goto
  <2>2. TypeOK'
    BY <1>3, <2>1 DEF TypeOK
  <2>3. ASSUME NEW u \in Threads PROVE Located(u)'
    BY <1>3 DEF TypeOK, Located, Labels, Keyed, Stamped, Gated, Ungated, Empty, Goto
  <2> QED
    BY <2>2, <2>3
<1> QED
  BY <1>2, <1>3

\* A text put into memory is served, or is a miss.
LEMMA WarmType ==
  ASSUME TypeInv, NEW t \in Threads, Warm(t)
  PROVE  TypeInv'
<1> USE DEF Warm, TypeInv, store, request, bounds
<1>1. Key(t) \in Keys /\ held[t] \in Texts
  BY KeyType DEF Located, Labels, Keyed
<1>2. memory' \in [Keys -> Texts \union {Absent}]
  BY <1>1, RememberType DEF TypeOK
<1>3. /\ stats' \in [Counters -> Nat]
      /\ scans' \in [Keys -> Nat]
      /\ \/ /\ Valid(held[t], Key(t))
            /\ pc' = [pc EXCEPT ![t] = "save"]
            /\ held' = [held EXCEPT ![t] = held[t].payload]
         \/ /\ ~Valid(held[t], Key(t))
            /\ pc' = [pc EXCEPT ![t] = IF gate[t] = NoGate THEN "register" ELSE "scan"]
            /\ held' = [held EXCEPT ![t] = Absent]
  BY <1>1, ParsedType
<1>4. held' \in [Threads -> Payloads \union Texts \union {Absent}]
  BY <1>3, ValidPayload DEF TypeOK
<1>5. pc' \in [Threads -> Labels]
  BY <1>3 DEF TypeOK, Labels
<1>6. TypeOK'
  BY <1>2, <1>3, <1>4, <1>5 DEF TypeOK
<1>7. ASSUME NEW u \in Threads PROVE Located(u)'
  BY <1>3 DEF TypeOK, Located, Labels, Keyed, Stamped, Gated, Ungated, Empty
<1> QED
  BY <1>6, <1>7

\* The remote tier answers with a text, or the lookup misses.
LEMMA ReadRemoteType ==
  ASSUME TypeInv, NEW t \in Threads, ReadRemote(t)
  PROVE  TypeInv'
<1> USE DEF ReadRemote, TypeInv, store, request, bounds
<1>1. Key(t) \in Keys
  BY KeyType DEF Located, Labels, Keyed
<1>2. CASE HasRemote /\ Valid(remote[Key(t)], Key(t))
  <2>1. stats' \in [Counters -> Nat]
    BY <1>2, BumpType DEF TypeOK
  <2>2. held' = [held EXCEPT ![t] = remote[Key(t)]] /\ remote[Key(t)] \in Texts
    BY <1>2, ValidPayload
  <2>3. held' \in [Threads -> Payloads \union Texts \union {Absent}]
    BY <2>2 DEF TypeOK
  <2>4. pc' \in [Threads -> Labels]
    BY <1>2 DEF TypeOK, Labels, Goto
  <2>5. TypeOK'
    BY <1>2, <2>1, <2>3, <2>4 DEF TypeOK
  <2>6. ASSUME NEW u \in Threads PROVE Located(u)'
    BY <1>2, <2>2 DEF TypeOK, Located, Labels, Keyed, Stamped, Gated, Ungated, Empty, Goto
  <2> QED
    BY <2>5, <2>6
<1>3. CASE ~(HasRemote /\ Valid(remote[Key(t)], Key(t)))
  <2>1. Missed(t, {}) /\ UNCHANGED held
    BY <1>3
  <2>2. /\ stats' \in [Counters -> Nat]
        /\ scans' \in [Keys -> Nat]
        /\ pc' = [pc EXCEPT ![t] = IF gate[t] = NoGate THEN "register" ELSE "scan"]
    BY <1>1, <2>1, MissedType
  <2>3. pc' \in [Threads -> Labels]
    BY <2>2 DEF TypeOK, Labels
  <2>4. TypeOK'
    BY <2>1, <2>2, <2>3 DEF TypeOK
  <2>5. ASSUME NEW u \in Threads PROVE Located(u)'
    BY <2>1, <2>2 DEF TypeOK, Located, Labels, Keyed, Stamped, Gated, Ungated, Empty
  <2> QED
    BY <2>4, <2>5
<1> QED
  BY <1>2, <1>3

\* The disk tier answers with a text, or the remote tier is asked.
LEMMA ReadDiskType ==
  ASSUME TypeInv, NEW t \in Threads, ReadDisk(t)
  PROVE  TypeInv'
<1> USE DEF ReadDisk, Goto, TypeInv, store, request, bounds
<1>1. Key(t) \in Keys /\ Path(Key(t)) \in Paths
  BY KeyType DEF Located, Labels, Keyed
<1>2. disk[Path(Key(t))] \in Texts \union {Absent}
  BY <1>1 DEF TypeOK
<1>3. held' \in [Threads -> Payloads \union Texts \union {Absent}]
  BY <1>2 DEF TypeOK
<1>4. pc' \in [Threads -> Labels]
  BY DEF TypeOK, Labels
<1>5. TypeOK'
  BY <1>3, <1>4 DEF TypeOK
<1>6. ASSUME NEW u \in Threads PROVE Located(u)'
  BY <1>2 DEF TypeOK, Located, Labels, Keyed, Stamped, Gated, Ungated, Empty
<1> QED
  BY <1>5, <1>6

\* The text of the remote tier is stored under a path of the cache.
LEMMA FillType ==
  ASSUME TypeInv, NEW t \in Threads, NEW outcome, Fill(t, outcome)
  PROVE  TypeInv'
<1> USE DEF Fill, Goto, TypeInv, store, request, bounds
<1>1. Key(t) \in Keys /\ Path(Key(t)) \in Paths
  BY KeyType DEF Located, Labels, Keyed
<1>2. held[t] \in Texts
  BY DEF Located
<1>3. disk' \in [Paths -> Texts \union {Absent}]
  BY <1>1, <1>2 DEF TypeOK, StoreOnDisk
<1>4. pc' \in [Threads -> Labels]
  BY DEF TypeOK, Labels
<1>5. TypeOK'
  BY <1>3, <1>4 DEF TypeOK
<1>6. ASSUME NEW u \in Threads PROVE Located(u)'
  BY DEF TypeOK, Located, Labels, Keyed, Stamped, Gated, Ungated, Empty
<1> QED
  BY <1>5, <1>6

\* A thread that registers has a gate.
LEMMA RegisterType ==
  ASSUME TypeInv, NEW t \in Threads, Register(t)
  PROVE  TypeInv'
<1> USE DEF Register, Goto, TypeInv, store, request, bounds
<1>1. Key(t) \in Keys /\ Path(Key(t)) \in Paths
  BY KeyType DEF Located, Labels, Keyed
<1>2. gate' \in [Threads -> Gates \union {NoGate}] /\ gate'[t] \in Gates
  BY <1>1 DEF TypeOK
<1>3. inflight' \in [Keys -> Gates \union {NoGate}]
  BY <1>1 DEF TypeOK
<1>4. pc' \in [Threads -> Labels]
  BY DEF TypeOK, Labels
<1>5. TypeOK'
  BY <1>2, <1>3, <1>4 DEF TypeOK
<1>6. ASSUME NEW u \in Threads PROVE Located(u)'
  BY <1>2 DEF TypeOK, Located, Labels, Keyed, Stamped, Gated, Ungated, Empty
<1> QED
  BY <1>5, <1>6

\* A thread that locks keeps its gate.
LEMMA LockType ==
  ASSUME TypeInv, NEW t \in Threads, Lock(t)
  PROVE  TypeInv'
<1> USE DEF Lock, Goto, TypeInv, store, request, bounds
<1>1. pc' \in [Threads -> Labels]
  BY DEF TypeOK, Labels
<1>2. TypeOK'
  BY <1>1 DEF TypeOK
<1>3. ASSUME NEW u \in Threads PROVE Located(u)'
  BY DEF TypeOK, Located, Labels, Keyed, Stamped, Gated, Ungated, Empty
<1> QED
  BY <1>2, <1>3

\* A thread that unlocks still has its gate to unregister.
LEMMA UnlockType ==
  ASSUME TypeInv, NEW t \in Threads, Unlock(t)
  PROVE  TypeInv'
<1> USE DEF Unlock, Goto, TypeInv, store, request, bounds
<1>1. pc' \in [Threads -> Labels]
  BY DEF TypeOK, Labels
<1>2. TypeOK'
  BY <1>1 DEF TypeOK
<1>3. ASSUME NEW u \in Threads PROVE Located(u)'
  BY DEF TypeOK, Located, Labels, Keyed, Stamped, Gated, Ungated, Empty
<1> QED
  BY <1>2, <1>3

\* A thread that unregisters is rid of its gate.
LEMMA UnregisterType ==
  ASSUME TypeInv, NEW t \in Threads, Unregister(t)
  PROVE  TypeInv'
<1> USE DEF Unregister, Goto, TypeInv, store, request, bounds
<1>1. Key(t) \in Keys /\ Path(Key(t)) \in Paths
  BY KeyType DEF Located, Labels, Keyed
<1>2. gate' \in [Threads -> Gates \union {NoGate}]
  BY DEF TypeOK
<1>3. inflight' \in [Keys -> Gates \union {NoGate}]
  BY <1>1 DEF TypeOK
<1>4. pc' \in [Threads -> Labels]
  BY DEF TypeOK, Labels
<1>5. TypeOK'
  BY <1>2, <1>3, <1>4 DEF TypeOK
<1>6. ASSUME NEW u \in Threads PROVE Located(u)'
  BY DEF TypeOK, Located, Labels, Keyed, Stamped, Gated, Ungated, Empty
<1> QED
  BY <1>5, <1>6

\* A panic unwinds with the gate in hand, or without one.
LEMMA PanicType ==
  ASSUME TypeInv, NEW t \in Threads, Panic(t)
  PROVE  TypeInv'
<1> USE DEF Panic, Goto, TypeInv, store, request, bounds
<1>1. pc' \in [Threads -> Labels]
  BY DEF TypeOK, Labels
<1>2. TypeOK'
  BY <1>1 DEF TypeOK
<1>3. ASSUME NEW u \in Threads PROVE Located(u)'
  BY DEF TypeOK, Located, Labels, Keyed, Stamped, Gated, Ungated, Empty
<1> QED
  BY <1>2, <1>3

\* What is stored on disk is a record.
LEMMA WriteType ==
  ASSUME TypeInv, NEW t \in Threads, NEW outcome, Write(t, outcome)
  PROVE  TypeInv'
<1> USE DEF Write, Goto, TypeInv, store, request, bounds
<1>1. Key(t) \in Keys /\ Path(Key(t)) \in Paths
  BY KeyType DEF Located, Labels, Keyed
<1>2. RecordOf(t) \in Records /\ RecordOf(t) \in Texts
  BY DEF RecordOf, Located, Labels, Keyed, Records, Texts
<1>3. stats' \in [Counters -> Nat]
  BY BumpType DEF TypeOK
<1>4. disk' \in [Paths -> Texts \union {Absent}]
  BY <1>1, <1>2 DEF TypeOK, StoreOnDisk
<1>5. pc' \in [Threads -> Labels]
  BY DEF TypeOK, Labels
<1>6. TypeOK'
  BY <1>3, <1>4, <1>5 DEF TypeOK
<1>7. ASSUME NEW u \in Threads PROVE Located(u)'
  BY DEF TypeOK, Located, Labels, Keyed, Stamped, Gated, Ungated, Empty
<1> QED
  BY <1>6, <1>7

\* What is stored in the other tiers is a record.
LEMMA PublishType ==
  ASSUME TypeInv, NEW t \in Threads, NEW outcome, Publish(t, outcome)
  PROVE  TypeInv'
<1> USE DEF Publish, Goto, TypeInv, store, request, bounds
<1>1. Key(t) \in Keys /\ Path(Key(t)) \in Paths
  BY KeyType DEF Located, Labels, Keyed
<1>2. RecordOf(t) \in Records /\ RecordOf(t) \in Texts
  BY DEF RecordOf, Located, Labels, Keyed, Records, Texts
<1>3. memory' \in [Keys -> Texts \union {Absent}]
  BY <1>1, <1>2, RememberType DEF TypeOK
<1>4. remote' \in [Keys -> Records \union {Absent}]
  BY <1>1, <1>2 DEF TypeOK
<1>5. pc' \in [Threads -> Labels]
  BY DEF TypeOK, Labels
<1>6. TypeOK'
  BY <1>3, <1>4, <1>5 DEF TypeOK
<1>7. ASSUME NEW u \in Threads PROVE Located(u)'
  BY DEF TypeOK, Located, Labels, Keyed, Stamped, Gated, Ungated, Empty
<1> QED
  BY <1>6, <1>7

\* What is stored as a sidecar has the metadata and the hash of the lookup.
LEMMA SaveType ==
  ASSUME TypeInv, NEW t \in Threads, NEW outcome, Save(t, outcome)
  PROVE  TypeInv'
<1> USE DEF Save, Goto, TypeInv, store, request, bounds
<1>1. [stamp |-> stamp[t], sha |-> sha[t], fresh |-> TRUE] \in Sidecars /\ want[t].jar \in Jars
  BY DEF Located, Labels, Keyed, Stamped, Sidecars
<1>2. fp' \in [Jars -> Sidecars \union {Absent}]
  BY <1>1 DEF TypeOK
<1>3. pc' \in [Threads -> Labels]
  BY DEF TypeOK, Labels
<1>4. TypeOK'
  BY <1>2, <1>3 DEF TypeOK
<1>5. ASSUME NEW u \in Threads PROVE Located(u)'
  BY DEF TypeOK, Located, Labels, Keyed, Stamped, Gated, Ungated, Empty
<1> QED
  BY <1>4, <1>5

\* A thread that returns is idle.
LEMMA ReturnType ==
  ASSUME TypeInv, NEW t \in Threads, Return(t)
  PROVE  TypeInv'
<1> USE DEF Return, Goto, TypeInv, store, request, bounds
<1>1. want' \in [Threads -> [jar : Jars, ver : Versions] \union {NoWant}]
  BY DEF TypeOK
<1>2. stamp' \in [Threads -> Stamps \union {Absent}]
  BY DEF TypeOK
<1>3. sha' \in [Threads -> Hashes \union {Absent}]
  BY DEF TypeOK
<1>4. hint' \in [Threads -> BOOLEAN]
  BY DEF TypeOK
<1>5. held' \in [Threads -> Payloads \union Texts \union {Absent}]
  BY DEF TypeOK
<1>6. pc' \in [Threads -> Labels]
  BY DEF TypeOK, Labels
<1>7. TypeOK'
  BY <1>1, <1>2, <1>3, <1>4, <1>5, <1>6 DEF TypeOK
<1>8. ASSUME NEW u \in Threads PROVE Located(u)'
  BY DEF TypeOK, Located, Labels, Keyed, Stamped, Gated, Ungated, Empty
<1> QED
  BY <1>7, <1>8

\* Whatever the environment does leaves the types of the tiers alone.
LEMMA EnvironmentType ==
  ASSUME TypeInv, Environment
  PROVE  TypeInv'
<1> USE DEF TypeInv, store, request, bounds
<1>1. CASE Reopen
  <2>1. TypeOK'
    BY <1>1, SwitchAssumption DEF Reopen, TypeOK, ZeroStats, NoScans, Labels
  <2>2. ASSUME NEW u \in Threads PROVE Located(u)'
    BY <1>1 DEF Reopen, Located, Labels, Keyed, Stamped, Gated, Ungated, Empty
  <2> QED
    BY <2>1, <2>2
<1>2. ASSUME NEW j \in Jars, Age(j)
      PROVE  TypeInv'
  <2>0. fp[j] \in Sidecars
    BY <1>2 DEF Age, TypeOK
  <2>1. [fp[j] EXCEPT !.fresh = FALSE] \in Sidecars
    BY <2>0 DEF Sidecars
  <2>2. fp' \in [Jars -> Sidecars \union {Absent}]
    BY <1>2, <2>1 DEF Age, TypeOK
  <2>3. TypeOK'
    BY <1>2, <2>2 DEF Age, TypeOK
  <2> QED
    BY <1>2, <2>3 DEF Age, Located
<1>3. ASSUME NEW j \in Jars, NEW file \in JarStates, Replace(j, file)
      PROVE  TypeInv'
  <2>1. jar' \in [Jars -> JarFiles \union {Absent}]
    BY <1>3, DataAssumption DEF Replace, TypeOK
  <2>2. TypeOK'
    BY <1>3, <2>1 DEF Replace, TypeOK
  <2> QED
    BY <1>3, <2>2 DEF Replace, Located
<1>4. ASSUME NEW path \in Paths, Evict(path)
      PROVE  TypeInv'
  <2>1. disk' \in [Paths -> Texts \union {Absent}]
    BY <1>4 DEF Evict, TypeOK
  <2>2. TypeOK'
    BY <1>4, <2>1 DEF Evict, TypeOK
  <2> QED
    BY <1>4, <2>2 DEF Evict, Located
<1>5. ASSUME NEW k \in Keys, OtherProcess(k)
      PROVE  TypeInv'
  <2>1. [ver |-> k.ver, sha |-> k.sha, payload |-> [ver |-> k.ver, read |-> k.sha]] \in Records
    BY DEF Keys, Records, Payloads
  <2>2. Path(k) \in Paths
    BY DEF Path, Paths, Keys
  <2>3. disk' \in [Paths -> Texts \union {Absent}]
    BY <1>5, <2>1, <2>2 DEF OtherProcess, TypeOK, Texts
  <2>4. remote' \in [Keys -> Records \union {Absent}]
    BY <1>5, <2>1 DEF OtherProcess, TypeOK
  <2>5. TypeOK'
    BY <1>5, <2>3, <2>4 DEF OtherProcess, TypeOK
  <2> QED
    BY <1>5, <2>5 DEF OtherProcess, Located
<1> QED
  BY <1>1, <1>2, <1>3, <1>4, <1>5 DEF Environment

\* Every step keeps every variable in its type and every lookup located.
LEMMA NextType == TypeInv /\ [Next]_vars => TypeInv'
<1> SUFFICES ASSUME TypeInv, [Next]_vars PROVE TypeInv'
  OBVIOUS
<1>1. ASSUME NEW t \in Threads, Continue(t)
      PROVE  TypeInv'
  BY <1>1, StatType, HashType, BareScanType, ReadMemoryType, ReadDiskType, WarmType,
     ReadRemoteType, RegisterType, LockType, UnlockType, UnregisterType, ScanType,
     PanicType, ReturnType, FillType, WriteType, PublishType, SaveType
  DEF Continue
<1>2. ASSUME NEW t \in Threads, NEW j \in Jars, NEW v \in Versions, Begin(t, j, v)
      PROVE  TypeInv'
  BY <1>2, BeginType
<1>3. CASE Environment
  BY <1>3, EnvironmentType
<1>4. CASE UNCHANGED vars
  BY <1>4 DEF vars, TypeInv, TypeOK, Located
<1> QED
  BY <1>1, <1>2, <1>3, <1>4 DEF Next

\* Every variable always holds a value of its type, and every lookup has what it
\* needs where it stands: a hash before a tier is asked, a gate while it scans.
THEOREM TypeCorrect == Spec => []TypeInv
BY InitType, NextType, PTL DEF Spec

\* Every variable always holds a value of its type.
THEOREM AlwaysTypeOK == Spec => []TypeOK
<1>1. TypeInv => TypeOK
  BY DEF TypeInv
<1> QED
  BY TypeCorrect, <1>1, PTL

-----------------------------------------------------------------------------
(* What a step of one thread leaves alone.                                  *)

\* The locals of another thread.
Untouched(u) == /\ pc'[u] = pc[u] /\ want'[u] = want[u] /\ stamp'[u] = stamp[u]
                /\ sha'[u] = sha[u] /\ gate'[u] = gate[u] /\ held'[u] = held[u]

\* A thread changes its own locals only, and never a jar.
LEMMA OwnLocals ==
  ASSUME TypeInv, NEW t \in Threads, NEW u \in Threads \ {t},
         Continue(t) \/ \E j \in Jars, v \in Versions : Begin(t, j, v)
  PROVE  Untouched(u) /\ jar' = jar
<1> USE DEF TypeInv, TypeOK, Untouched, store, request, bounds, Goto
<1>1. CASE Stat(t) \/ Hash(t) \/ BareScan(t) \/ Scan(t) \/ Panic(t) \/ Return(t)
  BY <1>1 DEF Stat, Hash, BareScan, Scan, Panic, Return
<1>2. CASE ReadMemory(t)
  BY <1>2 DEF ReadMemory, Parsed, Missed
<1>3. CASE ReadDisk(t)
  BY <1>3 DEF ReadDisk
<1>4. CASE Warm(t)
  BY <1>4 DEF Warm, Parsed, Missed
<1>5. CASE ReadRemote(t)
  BY <1>5 DEF ReadRemote, Missed
<1>6. CASE Register(t) \/ Lock(t) \/ Unlock(t) \/ Unregister(t)
  BY <1>6 DEF Register, Lock, Unlock, Unregister
<1>7. CASE \E outcome \in Outcomes :
             Fill(t, outcome) \/ Write(t, outcome) \/ Publish(t, outcome) \/ Save(t, outcome)
  BY <1>7 DEF Fill, Write, Publish, Save
<1>8. CASE \E j \in Jars, v \in Versions : Begin(t, j, v)
  BY <1>8 DEF Begin
<1> QED
  BY <1>1, <1>2, <1>3, <1>4, <1>5, <1>6, <1>7, <1>8 DEF Continue

\* Only Register and Unregister move a gate, and a thread that has one keeps its
\* key.
LEMMA GateKept ==
  ASSUME TypeInv, NEW t \in Threads,
         Continue(t) \/ \E j \in Jars, v \in Versions : Begin(t, j, v),
         ~Register(t), ~Unregister(t)
  PROVE  /\ UNCHANGED <<gate, inflight>>
         /\ \A u \in Threads : gate[u] # NoGate => Key(u)' = Key(u)
<1> USE DEF TypeInv, TypeOK, Located, Ungated, Key, store, request, bounds, Goto
<1>1. CASE Stat(t) \/ Hash(t) \/ BareScan(t) \/ Scan(t) \/ Panic(t) \/ Return(t)
  BY <1>1 DEF Stat, Hash, BareScan, Scan, Panic, Return
<1>2. CASE ReadMemory(t) \/ ReadDisk(t) \/ Warm(t) \/ ReadRemote(t) \/ Lock(t) \/ Unlock(t)
  BY <1>2 DEF ReadMemory, ReadDisk, Warm, ReadRemote, Lock, Unlock
<1>3. CASE \E outcome \in Outcomes :
             Fill(t, outcome) \/ Write(t, outcome) \/ Publish(t, outcome) \/ Save(t, outcome)
  BY <1>3 DEF Fill, Write, Publish, Save
<1>4. CASE \E j \in Jars, v \in Versions : Begin(t, j, v)
  BY <1>4 DEF Begin
<1> QED
  BY <1>1, <1>2, <1>3, <1>4 DEF Continue

-----------------------------------------------------------------------------
(* The registry.                                                            *)

\* No gate is registered at first.
LEMMA RegistryInit == Init => RegistryReclaimed
BY DEF Init, RegistryReclaimed

\* Every step leaves a registered gate with one of its threads.
LEMMA RegistryNext ==
  ASSUME TypeInv, RegistryReclaimed, [Next]_vars
  PROVE  RegistryReclaimed'
<1> USE DEF RegistryReclaimed
<1>1. ASSUME NEW t \in Threads, Register(t)
      PROVE  RegistryReclaimed'
  <2>1. Key(t) \in Keys /\ gate[t] = NoGate
    BY <1>1, KeyType DEF Register, TypeInv, Located, Labels, Keyed, Ungated
  <2>2. PICK g : gate' = [gate EXCEPT ![t] = g] /\ inflight' = [inflight EXCEPT ![Key(t)] = g]
    BY <1>1 DEF Register
  <2>3. \A u \in Threads : Key(u)' = Key(u)
    BY <1>1 DEF Register, Key, request
  <2> SUFFICES ASSUME NEW k \in Keys, inflight'[k] # NoGate
               PROVE  \E u \in Threads : gate'[u] = inflight'[k] /\ Key(u)' = k
    OBVIOUS
  <2>4. CASE k = Key(t)
    BY <2>1, <2>2, <2>3, <2>4 DEF TypeInv, TypeOK
  <2>5. CASE k # Key(t)
    <3>1. PICK u \in Threads : gate[u] = inflight[k] /\ Key(u) = k
      BY <2>2, <2>5 DEF TypeInv, TypeOK
    <3> QED
      BY <2>2, <2>3, <2>5, <3>1 DEF TypeInv, TypeOK
  <2> QED
    BY <2>4, <2>5
<1>2. ASSUME NEW t \in Threads, Unregister(t)
      PROVE  RegistryReclaimed'
  <2>1. Key(t) \in Keys
    BY <1>2, KeyType DEF Unregister, TypeInv, Located, Labels, Keyed
  <2>2. \A u \in Threads : Key(u)' = Key(u)
    BY <1>2 DEF Unregister, Key, request
  <2> SUFFICES ASSUME NEW k \in Keys, inflight'[k] # NoGate
               PROVE  \E u \in Threads : gate'[u] = inflight'[k] /\ Key(u)' = k
    OBVIOUS
  <2>3. k # Key(t) /\ inflight'[k] = inflight[k]
    BY <1>2, <2>1 DEF Unregister, TypeInv, TypeOK
  <2>4. PICK u \in Threads : gate[u] = inflight[k] /\ Key(u) = k
    BY <2>3
  <2> QED
    BY <1>2, <2>2, <2>3, <2>4 DEF Unregister, TypeInv, TypeOK
<1>3. ASSUME NEW t \in Threads,
             Continue(t) \/ \E j \in Jars, v \in Versions : Begin(t, j, v),
             ~Register(t), ~Unregister(t)
      PROVE  RegistryReclaimed'
  BY <1>3, GateKept
<1>4. CASE Environment
  <2>1. CASE Reopen
    BY <2>1 DEF Reopen
  <2>2. CASE ~Reopen
    BY <1>4, <2>2 DEF Environment, Age, Replace, Evict, OtherProcess, request, Key
  <2> QED
    BY <2>1, <2>2
<1>5. CASE UNCHANGED vars
  BY <1>5 DEF vars, Key
<1> QED
  BY <1>1, <1>2, <1>3, <1>4, <1>5 DEF Next

\* A gate stays registered only while one of its threads is there: for any number
\* of threads and whatever fails, a lookup never waits for a mutex that nobody
\* will release, and the registry does not grow.
THEOREM AlwaysReclaimed == Spec => []RegistryReclaimed
<1>1. TypeInv /\ RegistryReclaimed /\ TypeInv' /\ [Next]_vars => RegistryReclaimed'
  BY RegistryNext
<1> QED
  BY RegistryInit, TypeCorrect, <1>1, PTL DEF Spec

-----------------------------------------------------------------------------
(* What a lookup returns.                                                   *)

\* Emptying memory, or adding a faithful text, keeps it faithful.
LEMMA RememberFaithful ==
  ASSUME TypeInv, FreshTiers, NEW k \in Keys, NEW text, Faithful(text), Remember(k, text)
  PROVE  \A l \in Keys : Faithful(memory'[l])
BY DataAssumption DEF Remember, FreshTiers, Faithful, Texts, TypeInv, TypeOK

\* A faithful text that parses holds the scan of the jar.
LEMMA ServedIsFresh ==
  ASSUME TypeInv, NEW t \in Threads, pc[t] \in Keyed, FreshLocal(t),
         NEW text, Faithful(text), Valid(text, Key(t))
  PROVE  text.payload = FreshScan(t)
BY DEF Valid, Key, Faithful, ScanOf, FreshScan, FreshLocal

\* At first no lookup is under way and every text is faithful.
LEMMA FreshInit == FreshAssumption /\ Init => FreshInv
<1> SUFFICES ASSUME FreshAssumption, Init PROVE FreshInv
  OBVIOUS
<1>1. Faithful(Absent)
  BY DataAssumption DEF Faithful, Texts
<1>2. FreshTiers
  <2>1. ASSUME NEW path \in Paths PROVE Faithful(disk[path])
    BY <1>1 DEF Init, FreshAssumption
  <2> QED
    BY <1>1, <2>1 DEF Init, FreshTiers
<1> QED
  BY <1>2 DEF Init, FreshInv, FreshLocal, Keyed

\* The steps of a lookup up to its hash, and after its result is there.
LEMMA FreshOutside ==
  ASSUME TypeInv, FreshInv, NEW t \in Threads,
         \/ Stat(t) \/ Hash(t) \/ BareScan(t) \/ Register(t) \/ Lock(t) \/ Unlock(t)
         \/ Unregister(t) \/ Scan(t) \/ Panic(t) \/ Return(t)
         \/ \E j \in Jars, v \in Versions : Begin(t, j, v)
         \/ \E outcome \in Outcomes : Save(t, outcome)
  PROVE  FreshTiers' /\ FreshLocal(t)'
<1> USE DEF TypeInv, TypeOK, FreshInv, Located, Labels, Keyed, Empty, Ungated, Goto,
            store, request, bounds
<1>1. UNCHANGED <<disk, remote, memory, jar>>
  BY DEF Stat, Hash, BareScan, Register, Lock, Unlock, Unregister, Scan, Panic, Return,
         Begin, Save
<1>2. FreshTiers'
  BY <1>1 DEF FreshTiers
<1> USE DEF FreshLocal, FreshScan
<1>3. CASE Stat(t) \/ Return(t) \/ \E j \in Jars, v \in Versions : Begin(t, j, v)
  BY <1>3, <1>2 DEF Stat, Return, Begin
<1>4. CASE Hash(t)
  BY <1>4, <1>2 DEF Hash, Resolved
<1>5. CASE BareScan(t) \/ Scan(t) \/ Panic(t)
  BY <1>5, <1>2 DEF BareScan, Scan, Panic
<1>6. CASE Register(t) \/ Lock(t) \/ Unlock(t) \/ Unregister(t)
  BY <1>6, <1>2 DEF Register, Lock, Unlock, Unregister
<1>7. CASE \E outcome \in Outcomes : Save(t, outcome)
  BY <1>7, <1>2 DEF Save
<1> QED
  BY <1>3, <1>4, <1>5, <1>6, <1>7

\* A tier answers, or no tier does.
LEMMA FreshParsed ==
  ASSUME TypeInv, FreshInv, NEW t \in Threads, pc[t] \in {"memory", "warm"},
         NEW text, Faithful(text), NEW S, Parsed(t, text, S), UNCHANGED <<jar, request>>
  PROVE  FreshLocal(t)'
<1> USE DEF TypeInv, TypeOK, FreshInv, Located, Labels, Keyed, request
<1>1. Key(t) \in Keys
  BY KeyType
<1>2. CASE Valid(text, Key(t))
  <2>1. text.payload = FreshScan(t)
    BY <1>2, ServedIsFresh
  <2>2. held'[t] = FreshScan(t) /\ pc'[t] = "save"
    BY <1>2, <2>1, <1>1, ParsedType
  <2> QED
    BY <2>2 DEF FreshLocal, FreshScan
<1>3. CASE ~Valid(text, Key(t))
  <2>1. pc'[t] \in {"register", "scan"}
    BY <1>3, <1>1, ParsedType
  <2> QED
    BY <2>1 DEF FreshLocal
<1> QED
  BY <1>2, <1>3

\* Reading the tiers yields faithful texts and fresh payloads.
LEMMA FreshReading ==
  ASSUME TypeInv, FreshInv, NEW t \in Threads,
         ReadMemory(t) \/ ReadDisk(t) \/ Warm(t) \/ ReadRemote(t)
  PROVE  FreshTiers' /\ FreshLocal(t)'
<1> USE DEF TypeInv, TypeOK, FreshInv, Located, Labels, Keyed, store, request, bounds
<1>1. Key(t) \in Keys /\ Path(Key(t)) \in Paths
  BY KeyType DEF ReadMemory, ReadDisk, Warm, ReadRemote
<1>2. CASE ReadMemory(t)
  <2>1. FreshTiers'
    BY <1>2 DEF ReadMemory, FreshTiers
  <2>2. CASE memory[Key(t)] # Absent
    <3>1. Faithful(memory[Key(t)])
      BY <1>1 DEF FreshTiers
    <3> QED
      BY <1>2, <2>1, <2>2, <3>1, FreshParsed DEF ReadMemory
  <2>3. CASE memory[Key(t)] = Absent
    BY <1>2, <2>1, <2>3 DEF ReadMemory, Goto, FreshLocal
  <2> QED
    BY <2>2, <2>3
<1>3. CASE ReadDisk(t)
  <2>1. Faithful(disk[Path(Key(t))])
    BY <1>1 DEF FreshTiers
  <2>2. FreshTiers'
    BY <1>3 DEF ReadDisk, FreshTiers
  <2> QED
    BY <1>3, <2>1, <2>2 DEF ReadDisk, Goto, FreshLocal
<1>4. CASE Warm(t)
  <2>1. Faithful(held[t])
    BY <1>4 DEF Warm, FreshLocal
  <2>2. FreshTiers'
    BY <1>1, <1>4, <2>1, RememberFaithful DEF Warm, FreshTiers
  <2> QED
    BY <1>4, <2>1, <2>2, FreshParsed DEF Warm
<1>5. CASE ReadRemote(t)
  <2>1. FreshTiers'
    BY <1>5 DEF ReadRemote, FreshTiers
  <2>2. CASE HasRemote /\ Valid(remote[Key(t)], Key(t))
    <3>1. Faithful(remote[Key(t)])
      BY <1>1 DEF FreshTiers
    <3> QED
      BY <1>5, <2>1, <2>2, <3>1 DEF ReadRemote, Goto, FreshLocal
  <2>3. CASE ~(HasRemote /\ Valid(remote[Key(t)], Key(t)))
    BY <1>1, <1>5, <2>1, <2>3, MissedType DEF ReadRemote, FreshLocal
  <2> QED
    BY <2>2, <2>3
<1> QED
  BY <1>2, <1>3, <1>4, <1>5

\* Only faithful texts are stored.
LEMMA FreshStoring ==
  ASSUME TypeInv, FreshInv, NEW t \in Threads, NEW outcome \in Outcomes,
         Fill(t, outcome) \/ Write(t, outcome) \/ Publish(t, outcome)
  PROVE  FreshTiers' /\ FreshLocal(t)'
<1> USE DEF TypeInv, TypeOK, FreshInv, Located, Labels, Keyed, store, request, bounds, Goto
<1>1. Key(t) \in Keys /\ Path(Key(t)) \in Paths
  BY KeyType DEF Fill, Write, Publish
<1>2. CASE Fill(t, outcome)
  <2>1. Faithful(held[t])
    BY <1>2 DEF Fill, FreshLocal
  <2>2. FreshTiers'
    BY <1>1, <1>2, <2>1 DEF Fill, StoreOnDisk, FreshTiers
  <2> QED
    BY <1>2, <2>1, <2>2 DEF Fill, FreshLocal
<1>3. pc[t] \in {"write", "publish"} => Faithful(RecordOf(t))
  BY DEF FreshLocal, FreshScan, Faithful, ScanOf, RecordOf
<1>4. CASE Write(t, outcome)
  <2>1. FreshTiers'
    BY <1>1, <1>3, <1>4 DEF Write, StoreOnDisk, FreshTiers
  <2> QED
    BY <1>4, <2>1 DEF Write, FreshLocal, FreshScan
<1>5. CASE Publish(t, outcome)
  <2>1. \A l \in Keys : Faithful(memory'[l])
    BY <1>1, <1>3, <1>5, RememberFaithful DEF Publish
  <2>2. \A l \in Keys : Faithful(remote'[l])
    BY <1>1, <1>3, <1>5 DEF Publish, FreshTiers
  <2>3. FreshTiers'
    BY <1>5, <2>1, <2>2 DEF Publish, FreshTiers
  <2> QED
    BY <1>5, <2>3 DEF Publish, FreshLocal, FreshScan
<1> QED
  BY <1>2, <1>4, <1>5

\* Other processes, pruning, time and kills keep the tiers faithful.
LEMMA FreshEnvironment ==
  ASSUME FreshAssumption, TypeInv, FreshInv, Environment
  PROVE  FreshInv'
<1> USE DEF TypeInv, TypeOK, FreshInv, store, request, bounds
<1>1. Faithful(Absent)
  BY DataAssumption DEF Faithful, Texts
<1>2. CASE Reopen
  BY <1>1, <1>2 DEF Reopen, FreshTiers, FreshLocal, Keyed
<1>3. CASE \E j \in Jars : Age(j)
  BY <1>3 DEF Age, FreshTiers, FreshLocal, FreshScan
<1>4. ASSUME NEW j \in Jars, NEW file \in JarStates, Replace(j, file)
      PROVE  FreshInv'
  <2>1. FreshTiers'
    BY <1>4 DEF Replace, FreshTiers
  <2>2. ASSUME NEW u \in Threads
        PROVE  FreshLocal(u)'
    <3>1. CASE pc[u] = "idle"
      BY <1>4, <3>1 DEF Replace, FreshLocal, Keyed
    <3>2. CASE pc[u] # "idle"
      <4>1. jar'[want[u].jar] = jar[want[u].jar]
        BY <1>4, <3>2 DEF Replace, FreshAssumption, Located
      <4> QED
        BY <1>4, <4>1 DEF Replace, FreshLocal, FreshScan
    <3> QED
      BY <3>1, <3>2
  <2> QED
    BY <2>1, <2>2
<1>5. CASE \E path \in Paths : Evict(path)
  BY <1>1, <1>5 DEF Evict, FreshTiers, FreshLocal, FreshScan
<1>6. ASSUME NEW k \in Keys, OtherProcess(k)
      PROVE  FreshInv'
  <2>1. Faithful([ver |-> k.ver, sha |-> k.sha, payload |-> [ver |-> k.ver, read |-> k.sha]])
    BY DEF Faithful, ScanOf
  <2>2. FreshTiers'
    BY <1>6, <2>1 DEF OtherProcess, FreshTiers
  <2> QED
    BY <1>6, <2>2 DEF OtherProcess, FreshLocal, FreshScan
<1> QED
  BY <1>2, <1>3, <1>4, <1>5, <1>6 DEF Environment

\* Every step keeps the tiers faithful and the lookups fresh.
LEMMA FreshNext ==
  ASSUME FreshAssumption, TypeInv, FreshInv, [Next]_vars
  PROVE  FreshInv'
<1>1. ASSUME NEW t \in Threads, Continue(t) \/ \E j \in Jars, v \in Versions : Begin(t, j, v)
      PROVE  FreshInv'
  <2>1. FreshTiers' /\ FreshLocal(t)'
    BY <1>1, FreshOutside, FreshReading, FreshStoring DEF Continue
  <2>2. ASSUME NEW u \in Threads \ {t}
        PROVE  FreshLocal(u)'
    BY <1>1, <2>2, OwnLocals DEF Untouched, FreshInv, FreshLocal, FreshScan
  <2> QED
    BY <2>1, <2>2 DEF FreshInv
<1>2. CASE Environment
  BY <1>2, FreshEnvironment
<1>3. CASE UNCHANGED vars
  BY <1>3 DEF vars, FreshInv, FreshTiers, FreshLocal, FreshScan
<1> QED
  BY <1>1, <1>2, <1>3 DEF Next

\* A cached result is what a fresh scan would produce, whatever versions share a
\* directory, whichever tier or process answers and whatever fails, provided
\* that no jar is replaced while it is looked up.
THEOREM AlwaysFresh == FreshAssumption => (Spec => []ResultIsFresh)
<1>1. FreshInv => ResultIsFresh
  BY DEF FreshInv, FreshLocal, FreshScan, ResultIsFresh
<1>2. FreshAssumption /\ Init => FreshInv
  BY FreshInit
<1>3. FreshAssumption /\ TypeInv /\ FreshInv /\ [Next]_vars => FreshInv'
  BY FreshNext
<1>4. CASE FreshAssumption
  <2>1. Init => FreshInv
    BY <1>2, <1>4
  <2>2. TypeInv /\ FreshInv /\ [Next]_vars => FreshInv'
    BY <1>3, <1>4
  <2> QED
    BY TypeCorrect, <1>1, <2>1, <2>2, PTL DEF Spec
<1> QED
  BY <1>4

-----------------------------------------------------------------------------
(* The single flight.                                                       *)

\* The parts of the invariant that concern gates, memory and scans.
GateInv == /\ MutualExclusion /\ OneGate /\ DoneIsClosed
           /\ ScanIsKept /\ MissIsFirst /\ ScannedOnce

\* With room for every key, the memory tier only grows.
LEMMA Remembered ==
  ASSUME FlightAssumption, TypeInv, NEW k \in Keys, NEW text, Remember(k, text)
  PROVE  memory' = [memory EXCEPT ![k] = text]
<1> DEFINE Used == {l \in Keys : memory[l] # Absent}
<1>1. Cardinality(Used) <= Cardinality(Keys)
  BY FS_Subset DEF FlightAssumption
<1>2. Cardinality(Used) \in Nat /\ Cardinality(Keys) \in Nat
  BY FS_Subset, FS_CardinalityType DEF FlightAssumption
<1> HIDE DEF Used
<1>3. ~(Cardinality(Used) >= MemoryCap)
  BY <1>1, <1>2, SwitchAssumption DEF FlightAssumption
<1> QED
  BY <1>3 DEF Remember, Used

\* While a key is open, one thread at most has its gate.
LEMMA OneHolder ==
  ASSUME GateInv, NEW k \in Keys, Open(k), NEW t \in Threads, NEW u \in Threads,
         Flying(t, k), Flying(u, k), Holds(t), Holds(u)
  PROVE  t = u
BY DEF GateInv, OneGate, MutualExclusion, Flying

\* What the parts look at: nothing is registered, released, remembered or counted.
Still == /\ UNCHANGED <<memory, scans, gate, inflight>>
         /\ \A u \in Threads : gate[u] # NoGate => Key(u)' = Key(u)

\* A thread moves on without its gate, or with its gate from one label to the next.
Onward == {<<"disk", "remote">>, <<"disk", "warm">>, <<"remote", "fill">>, <<"fill", "warm">>,
           <<"scan", "write">>, <<"write", "publish">>, <<"save", "unlock">>,
           <<"unlock", "unregister">>}

\* Such a move keeps every part of the invariant.
LEMMA OnwardKept ==
  ASSUME TypeInv, GateInv, NEW t \in Threads, Still,
         \A u \in Threads \ {t} : pc'[u] = pc[u],
         gate[t] = NoGate \/ <<pc[t], pc'[t]>> \in Onward
  PROVE  GateInv'
<1> USE DEF Still, Flying
<1>1. \A u \in Threads, k \in Keys : Flying(u, k)' <=> Flying(u, k)
  BY DEF Key
<1>2. \A u \in Threads : gate[u] # NoGate =>
        \/ pc'[u] = pc[u]
        \/ <<pc[u], pc'[u]>> \in Onward
  OBVIOUS
<1>3. \A k \in Keys : Open(k)' => Open(k)
  BY <1>1, <1>2 DEF Open, Missing, Onward
<1>4. MutualExclusion'
  BY <1>2 DEF GateInv, MutualExclusion, Holds, Onward
<1>5. OneGate'
  BY <1>1, <1>3 DEF GateInv, OneGate
<1>6. DoneIsClosed'
  <2> SUFFICES ASSUME NEW u \in Threads, gate[u] # NoGate,
                      pc'[u] \in {"save", "unlock", "unregister"}, Open(Key(u))'
               PROVE  FALSE
    BY DEF DoneIsClosed
  <2>1. pc[u] \in {"save", "unlock", "unregister"} /\ Key(u)' = Key(u) /\ Key(u) \in Keys
    BY <1>2, KeyType DEF Onward, TypeInv, TypeOK, Located, Labels, Keyed
  <2> QED
    BY <1>3, <2>1 DEF GateInv, DoneIsClosed
<1>7. ScanIsKept'
  BY <1>1, <1>2 DEF GateInv, ScanIsKept, Onward
<1>8. MissIsFirst'
  BY <1>2 DEF GateInv, MissIsFirst, Onward
<1>9. ScannedOnce'
  BY DEF GateInv, ScannedOnce
<1> QED
  BY <1>4, <1>5, <1>6, <1>7, <1>8, <1>9 DEF GateInv

\* A registration makes the thread one of those that wait for the key's gate.
LEMMA RegisterKept ==
  ASSUME TypeInv, GateInv, NEW t \in Threads, Register(t)
  PROVE  GateInv'
<1> USE DEF TypeInv, TypeOK, Flying, GateInv
<1>1. Key(t) \in Keys /\ gate[t] = NoGate /\ pc[t] = "register" /\ pc' = [pc EXCEPT ![t] = "lock"]
  BY KeyType DEF Register, Goto, Located, Labels, Keyed, Ungated
<1>2. PICK g : /\ gate' = [gate EXCEPT ![t] = g]
               /\ inflight' = [inflight EXCEPT ![Key(t)] = g]
               /\ g = inflight[Key(t)] \/ inflight[Key(t)] = NoGate
  BY DEF Register
<1>3. UNCHANGED <<memory, scans>> /\ \A u \in Threads : Key(u)' = Key(u)
  BY DEF Register, Key, store, request, bounds
<1>4. \A k \in Keys : Open(k)' => Open(k)
  BY <1>1, <1>2, <1>3 DEF Open, Missing
<1>5. MutualExclusion'
  BY <1>1, <1>2, <1>3 DEF MutualExclusion, Holds
<1>6. ASSUME NEW k \in Keys, Open(k)', NEW u \in Threads, Flying(u, k)'
      PROVE  gate'[u] = inflight'[k]
  <2>1. CASE u = t
    BY <1>1, <1>2, <1>3, <1>6, <2>1
  <2>2. CASE u # t
    <3>1. gate[u] = inflight[k] /\ gate[u] # NoGate
      BY <1>2, <1>3, <1>4, <1>6, <2>2 DEF OneGate
    <3> QED
      BY <1>1, <1>2, <2>2, <3>1
  <2> QED
    BY <2>1, <2>2
<1>7. DoneIsClosed'
  <2> SUFFICES ASSUME NEW u \in Threads, gate'[u] # NoGate,
                      pc'[u] \in {"save", "unlock", "unregister"}, Open(Key(u))'
               PROVE  FALSE
    BY DEF DoneIsClosed
  <2>1. u # t /\ gate[u] # NoGate /\ pc[u] \in {"save", "unlock", "unregister"}
    BY <1>1, <1>2
  <2>2. Key(u) \in Keys
    BY <2>1, KeyType DEF Located, Labels, Keyed
  <2> QED
    BY <1>3, <1>4, <2>1, <2>2 DEF DoneIsClosed
<1>8. ScanIsKept'
  BY <1>1, <1>2, <1>3 DEF ScanIsKept
<1>9. MissIsFirst'
  BY <1>1, <1>2, <1>3 DEF MissIsFirst
<1> QED
  BY <1>3, <1>5, <1>6, <1>7, <1>8, <1>9 DEF OneGate, ScannedOnce

\* A gate that is free is taken by one thread.
LEMMA LockKept ==
  ASSUME TypeInv, GateInv, NEW t \in Threads, Lock(t)
  PROVE  GateInv'
<1> USE DEF TypeInv, TypeOK, Flying, GateInv
<1>1. /\ pc[t] = "lock" /\ pc' = [pc EXCEPT ![t] = "memory"] /\ GateFree(t)
      /\ UNCHANGED <<memory, scans, gate, inflight>>
      /\ \A u \in Threads : Key(u)' = Key(u)
  BY DEF Lock, Goto, Key, store, request, bounds
<1>2. \A k \in Keys : Open(k)' => Open(k)
  BY <1>1 DEF Open, Missing
<1>3. MutualExclusion'
  BY <1>1 DEF MutualExclusion, Holds, GateFree
<1>4. OneGate'
  BY <1>1, <1>2 DEF OneGate
<1>5. DoneIsClosed'
  <2> SUFFICES ASSUME NEW u \in Threads, gate'[u] # NoGate,
                      pc'[u] \in {"save", "unlock", "unregister"}, Open(Key(u))'
               PROVE  FALSE
    BY DEF DoneIsClosed
  <2>1. u # t /\ gate[u] # NoGate /\ pc[u] \in {"save", "unlock", "unregister"}
    BY <1>1
  <2>2. Key(u) \in Keys
    BY <2>1, KeyType DEF Located, Labels, Keyed
  <2> QED
    BY <1>1, <1>2, <2>1, <2>2 DEF DoneIsClosed
<1>6. ScanIsKept'
  BY <1>1 DEF ScanIsKept
<1>7. MissIsFirst'
  BY <1>1 DEF MissIsFirst
<1> QED
  BY <1>1, <1>3, <1>4, <1>5, <1>6, <1>7 DEF ScannedOnce

\* The registration is dropped when the key needs it no longer.
LEMMA UnregisterKept ==
  ASSUME TypeInv, GateInv, NEW t \in Threads, Unregister(t)
  PROVE  GateInv'
<1> USE DEF TypeInv, TypeOK, Flying, GateInv
<1>1. /\ pc[t] = "unregister" /\ pc' = [pc EXCEPT ![t] = "return"]
      /\ UNCHANGED <<memory, scans>>
      /\ gate' = [gate EXCEPT ![t] = NoGate]
      /\ inflight' = [inflight EXCEPT ![Key(t)] = NoGate]
      /\ \A u \in Threads : Key(u)' = Key(u)
  BY DEF Unregister, Goto, Key, store, request, bounds
<1>2. Key(t) \in Keys /\ gate[t] # NoGate
  BY <1>1, KeyType, GateAssumption DEF Located, Labels, Keyed, Gated
<1>3. ~Open(Key(t))
  BY <1>1, <1>2 DEF DoneIsClosed
<1>4. \A k \in Keys : Open(k)' => Open(k)
  BY <1>1 DEF Open, Missing
<1>5. MutualExclusion'
  BY <1>1 DEF MutualExclusion, Holds
<1>6. ASSUME NEW k \in Keys, Open(k)', NEW u \in Threads, Flying(u, k)'
      PROVE  gate'[u] = inflight'[k]
  BY <1>1, <1>3, <1>4, <1>6 DEF OneGate
<1>7. DoneIsClosed'
  <2> SUFFICES ASSUME NEW u \in Threads, gate'[u] # NoGate,
                      pc'[u] \in {"save", "unlock", "unregister"}, Open(Key(u))'
               PROVE  FALSE
    BY DEF DoneIsClosed
  <2>1. u # t /\ gate[u] # NoGate /\ pc[u] \in {"save", "unlock", "unregister"}
    BY <1>1
  <2>2. Key(u) \in Keys
    BY <2>1, KeyType DEF Located, Labels, Keyed
  <2> QED
    BY <1>1, <1>4, <2>1, <2>2 DEF DoneIsClosed
<1>8. ScanIsKept'
  BY <1>1 DEF ScanIsKept
<1>9. MissIsFirst'
  BY <1>1 DEF MissIsFirst
<1> QED
  BY <1>1, <1>5, <1>6, <1>7, <1>8, <1>9 DEF OneGate, ScannedOnce

\* With its gate in hand a thread finds nothing in memory: the key is open, so
\* no thread scans it and none has.
LEMMA MemoryMissKept ==
  ASSUME TypeInv, GateInv, NEW t \in Threads, Still,
         \A u \in Threads \ {t} : pc'[u] = pc[u],
         pc[t] = "memory", pc'[t] = "disk", memory[Key(t)] = Absent
  PROVE  GateInv'
<1> USE DEF Still, Flying
<1>1. Key(t) \in Keys
  BY KeyType DEF TypeInv, Located, Labels, Keyed
<1>2. \A u \in Threads, k \in Keys : Flying(u, k)' <=> Flying(u, k)
  BY DEF Key
<1>3. \A k \in Keys : Open(k)' => Open(k)
  <2>1. Open(Key(t))
    BY DEF Open
  <2>2. ASSUME NEW k \in Keys, k # Key(t), Open(k)'
        PROVE  Open(k)
    BY <1>2, <2>2 DEF Open
  <2> QED
    BY <2>1, <2>2
<1>4. MutualExclusion'
  BY DEF GateInv, MutualExclusion, Holds
<1>5. OneGate'
  BY <1>2, <1>3 DEF GateInv, OneGate
<1>6. DoneIsClosed'
  <2> SUFFICES ASSUME NEW u \in Threads, gate[u] # NoGate,
                      pc'[u] \in {"save", "unlock", "unregister"}, Open(Key(u))'
               PROVE  FALSE
    BY DEF DoneIsClosed
  <2>1. pc[u] \in {"save", "unlock", "unregister"} /\ Key(u)' = Key(u) /\ Key(u) \in Keys
    BY KeyType DEF TypeInv, TypeOK, Located, Labels, Keyed
  <2> QED
    BY <1>3, <2>1 DEF GateInv, DoneIsClosed
<1>7. ScanIsKept'
  BY <1>2 DEF GateInv, ScanIsKept
<1>8. MissIsFirst'
  <2>1. ASSUME gate[t] # NoGate
        PROVE  scans[Key(t)] = 0
    <3> SUFFICES ASSUME scans[Key(t)] > 0 PROVE FALSE
      BY <1>1 DEF TypeInv, TypeOK
    <3>1. PICK u \in Threads : Flying(u, Key(t)) /\ pc[u] \in {"scan", "write", "publish"}
      BY <1>1 DEF GateInv, ScanIsKept
    <3>2. Open(Key(t))
      BY DEF Open
    <3> QED
      BY <1>1, <2>1, <3>1, <3>2, OneHolder DEF Holds
  <2> QED
    BY <2>1 DEF GateInv, MissIsFirst
<1>9. ScannedOnce'
  BY DEF GateInv, ScannedOnce
<1> QED
  BY <1>4, <1>5, <1>6, <1>7, <1>8, <1>9 DEF GateInv

\* A thread that finds, or puts, its record in memory closes its key.
LEMMA StoredKept ==
  ASSUME TypeInv, GateInv, NEW t \in Threads,
         pc[t] \in {"memory", "warm", "publish"}, pc' = [pc EXCEPT ![t] = "save"],
         memory' \in [Keys -> Texts \union {Absent}], memory'[Key(t)] # Absent,
         \A l \in Keys \ {Key(t)} : memory'[l] = memory[l],
         UNCHANGED <<scans, gate, inflight>>, \A u \in Threads : Key(u)' = Key(u)
  PROVE  GateInv'
<1> USE DEF Flying
<1>1. Key(t) \in Keys
  BY KeyType DEF TypeInv, Located, Labels, Keyed
<1>2. pc'[t] = "save" /\ \A u \in Threads \ {t} : pc'[u] = pc[u]
  BY DEF TypeInv, TypeOK
<1>3. \A k \in Keys : Open(k)' => Open(k)
  BY <1>1, <1>2 DEF Open, Missing, TypeInv, TypeOK
<1>4. gate[t] # NoGate => ~Open(Key(t))'
  <2> SUFFICES ASSUME gate[t] # NoGate, Open(Key(t))' PROVE FALSE
    OBVIOUS
  <2>1. PICK u \in Threads : Flying(u, Key(t)) /\ pc'[u] \in Missing
    BY DEF Open
  <2>2. u # t /\ pc[u] \in Missing
    BY <1>2, <2>1 DEF Missing, TypeInv, TypeOK
  <2>3. Open(Key(t))
    BY <1>1, <1>3
  <2> QED
    BY <1>1, <2>1, <2>2, <2>3, OneHolder DEF Holds, Missing
<1>5. MutualExclusion'
  BY <1>2 DEF GateInv, MutualExclusion, Holds
<1>6. OneGate'
  BY <1>3 DEF GateInv, OneGate
<1>7. DoneIsClosed'
  <2> SUFFICES ASSUME NEW u \in Threads, gate[u] # NoGate,
                      pc'[u] \in {"save", "unlock", "unregister"}, Open(Key(u))'
               PROVE  FALSE
    BY DEF DoneIsClosed
  <2>1. u # t /\ pc[u] \in {"save", "unlock", "unregister"}
    BY <1>2, <1>4
  <2>2. Key(u) \in Keys
    BY <2>1, KeyType DEF TypeInv, Located, Labels, Keyed
  <2> QED
    BY <1>3, <2>1, <2>2 DEF GateInv, DoneIsClosed
<1>8. ScanIsKept'
  BY <1>1, <1>2 DEF GateInv, ScanIsKept
<1>9. MissIsFirst'
  BY <1>2 DEF GateInv, MissIsFirst, TypeInv, TypeOK
<1> QED
  BY <1>5, <1>6, <1>7, <1>8, <1>9 DEF GateInv, ScannedOnce

\* The thread that has its gate and found no record in any tier begins the scan.
LEMMA ScanBegins ==
  ASSUME TypeInv, GateInv, NEW t \in Threads, gate[t] # NoGate,
         pc[t] = "remote", pc' = [pc EXCEPT ![t] = "scan"],
         scans' = [scans EXCEPT ![Key(t)] = scans[Key(t)] + 1],
         UNCHANGED <<memory, gate, inflight>>, \A u \in Threads : Key(u)' = Key(u)
  PROVE  GateInv'
<1> USE DEF Flying
<1>1. Key(t) \in Keys
  BY KeyType DEF TypeInv, Located, Labels, Keyed
<1>2. pc'[t] = "scan" /\ \A u \in Threads \ {t} : pc'[u] = pc[u]
  BY DEF TypeInv, TypeOK
<1>3. scans[Key(t)] = 0 /\ Open(Key(t))
  BY DEF GateInv, MissIsFirst, Open, Missing
<1>4. \A k \in Keys : Open(k)' => Open(k)
  BY <1>2 DEF Open, Missing
<1>5. MutualExclusion'
  BY <1>2 DEF GateInv, MutualExclusion, Holds
<1>6. OneGate'
  BY <1>4 DEF GateInv, OneGate
<1>7. DoneIsClosed'
  <2> SUFFICES ASSUME NEW u \in Threads, gate[u] # NoGate,
                      pc'[u] \in {"save", "unlock", "unregister"}, Open(Key(u))'
               PROVE  FALSE
    BY DEF DoneIsClosed
  <2>1. u # t /\ pc[u] \in {"save", "unlock", "unregister"}
    BY <1>2
  <2>2. Key(u) \in Keys
    BY <2>1, KeyType DEF TypeInv, Located, Labels, Keyed
  <2> QED
    BY <1>4, <2>1, <2>2 DEF GateInv, DoneIsClosed
<1>8. ScanIsKept'
  BY <1>1, <1>2 DEF GateInv, ScanIsKept, TypeInv, TypeOK
<1>9. MissIsFirst'
  <2> SUFFICES ASSUME NEW u \in Threads, gate[u] # NoGate, pc'[u] \in {"disk", "remote"}
               PROVE  scans'[Key(u)] = 0
    BY DEF MissIsFirst
  <2>1. u # t /\ pc[u] \in {"disk", "remote"}
    BY <1>2
  <2>2. Key(u) # Key(t)
    BY <1>1, <1>3, <2>1, OneHolder DEF Holds
  <2>3. scans'[Key(u)] = scans[Key(u)]
    BY <2>2 DEF TypeInv, TypeOK
  <2> QED
    BY <2>1, <2>3 DEF GateInv, MissIsFirst
<1>10. ScannedOnce'
  BY <1>1, <1>3 DEF GateInv, ScannedOnce, TypeInv, TypeOK
<1> QED
  BY <1>5, <1>6, <1>7, <1>8, <1>9, <1>10 DEF GateInv

\* With one version to a directory, a path names its key.
LEMMA PathInjective ==
  ASSUME FlightAssumption, NEW k \in Keys, NEW l \in Keys, Path(k) = Path(l)
  PROVE  k = l
BY DEF FlightAssumption, Keys, Path

\* A record is valid for its own key.
LEMMA OwnRecordValid ==
  ASSUME TypeInv, NEW t \in Threads, pc[t] \in {"write", "publish"}
  PROVE  Valid(RecordOf(t), Key(t)) /\ RecordOf(t) \in Texts
BY DEF TypeInv, Located, Labels, Keyed, RecordOf, Valid, Key, Records, Texts

\* At first the tiers are empty.
LEMMA TiersInit == FlightAssumption /\ Init => TiersValid
<1> SUFFICES ASSUME FlightAssumption, Init PROVE TiersValid
  OBVIOUS
<1>1. \A k \in Keys : Path(k) \in Paths
  BY DEF Path, Paths, Keys
<1>2. \A path \in Paths : disk[path] = Absent
  BY DEF Init, FlightAssumption
<1> QED
  BY <1>1, <1>2 DEF Init, TiersValid

\* Memory and disk only ever hold records of the key they are found under.
LEMMA TiersNext ==
  ASSUME FlightAssumption, TypeInv, TiersValid, [Next]_vars
  PROVE  TiersValid'
<1> USE DEF TypeInv, TypeOK, Located, Labels, Keyed, store, request, bounds, Goto
<1>0. \A k \in Keys : Path(k) \in Paths
  BY DEF Path, Paths, Keys
<1>1. ASSUME NEW t \in Threads,
             \/ Stat(t) \/ Hash(t) \/ BareScan(t) \/ Register(t) \/ Lock(t) \/ Unlock(t)
             \/ Unregister(t) \/ Scan(t) \/ Panic(t) \/ Return(t)
             \/ \E j \in Jars, v \in Versions : Begin(t, j, v)
             \/ \E outcome \in Outcomes : Save(t, outcome)
      PROVE  TiersValid'
  <2>1. UNCHANGED <<disk, memory>>
    BY <1>1 DEF Stat, Hash, BareScan, Register, Lock, Unlock, Unregister, Scan, Panic, Return,
                Begin, Save
  <2>2. pc'[t] \notin {"warm", "fill"}
    BY <1>1 DEF Stat, Hash, BareScan, Register, Lock, Unlock, Unregister, Scan, Panic, Return,
                Begin, Save
  <2>3. \A u \in Threads \ {t} : Untouched(u)
    BY <1>1, OwnLocals DEF Continue
  <2> QED
    BY <2>1, <2>2, <2>3 DEF TiersValid, Untouched, Key
<1>2. ASSUME NEW t \in Threads, ReadMemory(t) \/ ReadDisk(t) \/ Warm(t) \/ ReadRemote(t)
      PROVE  TiersValid'
  <2>1. Key(t) \in Keys /\ Key(t)' = Key(t) /\ disk' = disk
    BY <1>2, KeyType DEF ReadMemory, ReadDisk, Warm, ReadRemote, Key
  <2>2. \A k \in Keys : memory'[k] # Absent => Valid(memory'[k], k)
    <3>1. CASE Warm(t)
      BY <1>2, <2>1, <3>1, Remembered DEF Warm, TiersValid
    <3>2. CASE memory' = memory
      BY <3>2 DEF TiersValid
    <3> QED
      BY <1>2, <3>1, <3>2 DEF ReadMemory, ReadDisk, ReadRemote
  <2>3. \A u \in Threads \ {t} : Untouched(u)
    BY <1>2, OwnLocals DEF Continue
  <2>4. pc'[t] \in {"warm", "fill"} => Valid(held'[t], Key(t))
    <3>1. CASE ReadMemory(t)
      BY <2>1, <3>1, ParsedType DEF ReadMemory
    <3>2. CASE ReadDisk(t)
      BY <2>1, <3>2 DEF ReadDisk, TiersValid
    <3>3. CASE Warm(t)
      BY <2>1, <3>3, ParsedType DEF Warm
    <3>4. CASE ReadRemote(t)
      BY <2>1, <3>4, MissedType DEF ReadRemote
    <3> QED
      BY <1>2, <3>1, <3>2, <3>3, <3>4
  <2> QED
    BY <2>1, <2>2, <2>3, <2>4 DEF TiersValid, Untouched, Key
<1>3. ASSUME NEW t \in Threads, NEW outcome \in Outcomes,
             Fill(t, outcome) \/ Write(t, outcome) \/ Publish(t, outcome)
      PROVE  TiersValid'
  <2>1. Key(t) \in Keys /\ Key(t)' = Key(t)
    BY <1>3, KeyType DEF Fill, Write, Publish, Key
  <2>2. \A k \in Keys : memory'[k] # Absent => Valid(memory'[k], k)
    BY <1>3, <2>1, Remembered, OwnRecordValid DEF Fill, Write, Publish, TiersValid
  <2>3. ASSUME NEW k \in Keys, disk'[Path(k)] # Absent
        PROVE  Valid(disk'[Path(k)], k)
    <3>1. CASE disk'[Path(k)] = disk[Path(k)]
      BY <2>3, <3>1 DEF TiersValid
    <3>2. CASE disk'[Path(k)] # disk[Path(k)]
      <4>1. Path(k) = Path(Key(t))
        BY <1>0, <1>3, <2>1, <3>2 DEF Fill, Write, Publish, StoreOnDisk
      <4>2. k = Key(t)
        BY <2>1, <4>1, PathInjective
      <4>3. Valid(disk'[Path(Key(t))], Key(t))
        <5>1. CASE Fill(t, outcome)
          BY <1>0, <2>1, <3>2, <4>2, <5>1 DEF Fill, StoreOnDisk, TiersValid
        <5>2. CASE Write(t, outcome)
          BY <1>0, <2>1, <3>2, <4>2, <5>2, OwnRecordValid DEF Write, StoreOnDisk
        <5>3. CASE Publish(t, outcome)
          BY <3>2, <5>3 DEF Publish
        <5> QED
          BY <1>3, <5>1, <5>2, <5>3
      <4> QED
        BY <4>2, <4>3
    <3> QED
      BY <3>1, <3>2
  <2>4. \A u \in Threads \ {t} : Untouched(u)
    BY <1>3, OwnLocals DEF Continue
  <2>5. pc'[t] \in {"warm", "fill"} => Valid(held'[t], Key(t))
    BY <1>3 DEF Fill, Write, Publish, TiersValid
  <2> QED
    BY <2>1, <2>2, <2>3, <2>4, <2>5 DEF TiersValid, Untouched, Key
<1>4. CASE Environment
  <2>1. CASE Reopen
    BY <2>1 DEF Reopen, TiersValid
  <2>2. CASE \E j \in Jars : Age(j) \/ \E file \in JarStates : Replace(j, file)
    BY <2>2 DEF Age, Replace, TiersValid, Key
  <2>3. CASE \E path \in Paths : Evict(path)
    BY <1>0, <2>3 DEF Evict, TiersValid, Key
  <2>4. ASSUME NEW k \in Keys, OtherProcess(k)
        PROVE  TiersValid'
    <3> DEFINE record == [ver |-> k.ver, sha |-> k.sha,
                          payload |-> [ver |-> k.ver, read |-> k.sha]]
    <3>1. Valid(record, k)
      BY DEF Valid, Records, Payloads, Keys
    <3>2. ASSUME NEW l \in Keys, disk'[Path(l)] # Absent
          PROVE  Valid(disk'[Path(l)], l)
      <4>1. disk'[Path(l)] = disk[Path(l)] \/ (Path(l) = Path(k) /\ disk'[Path(l)] = record)
        BY <1>0, <2>4 DEF OtherProcess
      <4> HIDE DEF record
      <4> QED
        BY <3>1, <3>2, <4>1, PathInjective DEF TiersValid
    <3> QED
      BY <2>4, <3>2 DEF OtherProcess, TiersValid, Key
  <2> QED
    BY <1>4, <2>1, <2>2, <2>3, <2>4 DEF Environment
<1>5. CASE UNCHANGED vars
  BY <1>5 DEF vars, TiersValid, Key
<1> QED
  BY <1>1, <1>2, <1>3, <1>4, <1>5 DEF Next, Continue

\* At first there are no gates and no scans.
LEMMA GateInit == Init => GateInv
BY DEF Init, NoScans, GateInv, MutualExclusion, OneGate, DoneIsClosed, ScanIsKept,
       MissIsFirst, ScannedOnce, Flying, Open, Holds

\* The tiers are read.
LEMMA GateReading ==
  ASSUME FlightAssumption, TypeInv, TypeInv', TiersValid, GateInv, NEW t \in Threads,
         ReadMemory(t) \/ ReadDisk(t) \/ Warm(t) \/ ReadRemote(t)
  PROVE  GateInv'
<1> USE DEF TypeInv, TypeOK, store, request, bounds
<1>1. /\ Key(t) \in Keys
      /\ UNCHANGED <<gate, inflight>>
      /\ \A u \in Threads : Key(u)' = Key(u)
  BY KeyType DEF ReadMemory, ReadDisk, Warm, ReadRemote, Key, Located, Labels, Keyed
<1>2. \A u \in Threads \ {t} : pc'[u] = pc[u]
  BY OwnLocals DEF Continue, Untouched
<1>3. CASE ReadMemory(t)
  <2>1. CASE memory[Key(t)] # Absent
    <3>1. Valid(memory[Key(t)], Key(t))
      BY <1>1, <2>1 DEF TiersValid
    <3>2. pc' = [pc EXCEPT ![t] = "save"] /\ UNCHANGED <<scans, memory>>
      BY <1>3, <2>1, <3>1 DEF ReadMemory, Parsed, Goto
    <3> QED
      BY <1>1, <1>3, <2>1, <3>2, StoredKept DEF ReadMemory
  <2>2. CASE memory[Key(t)] = Absent
    <3>1. Still /\ pc[t] = "memory" /\ pc'[t] = "disk"
      BY <1>1, <1>3, <2>2 DEF ReadMemory, Still, Goto
    <3> QED
      BY <1>2, <2>2, <3>1, MemoryMissKept
  <2> QED
    BY <2>1, <2>2
<1>4. CASE ReadDisk(t)
  <2>1. Still /\ <<pc[t], pc'[t]>> \in Onward
    BY <1>1, <1>4 DEF ReadDisk, Still, Goto, Onward
  <2> QED
    BY <1>2, <2>1, OnwardKept
<1>5. CASE Warm(t)
  <2>1. held[t] \in Texts /\ Valid(held[t], Key(t)) /\ held[t] # Absent
    BY <1>5, DataAssumption DEF Warm, Located, TiersValid
  <2>2. pc' = [pc EXCEPT ![t] = "save"] /\ UNCHANGED scans
    BY <1>5, <2>1 DEF Warm, Parsed, Goto
  <2>3. memory' = [memory EXCEPT ![Key(t)] = held[t]]
    BY <1>1, <1>5, Remembered DEF Warm
  <2> QED
    BY <1>1, <1>5, <2>1, <2>2, <2>3, StoredKept DEF Warm
<1>6. CASE ReadRemote(t)
  <2>1. UNCHANGED memory /\ pc[t] = "remote"
    BY <1>6 DEF ReadRemote
  <2>2. CASE HasRemote /\ Valid(remote[Key(t)], Key(t))
    <3>1. Still /\ <<pc[t], pc'[t]>> \in Onward
      BY <1>1, <1>6, <2>1, <2>2 DEF ReadRemote, Still, Goto, Onward
    <3> QED
      BY <1>2, <3>1, OnwardKept
  <2>3. CASE ~(HasRemote /\ Valid(remote[Key(t)], Key(t))) /\ gate[t] = NoGate
    <3>1. Still
      BY <1>1, <1>6, <2>1, <2>3 DEF ReadRemote, Missed, Still
    <3> QED
      BY <1>2, <2>3, <3>1, OnwardKept
  <2>4. CASE ~(HasRemote /\ Valid(remote[Key(t)], Key(t))) /\ gate[t] # NoGate
    <3>1. /\ pc' = [pc EXCEPT ![t] = "scan"]
          /\ scans' = [scans EXCEPT ![Key(t)] = scans[Key(t)] + 1]
      BY <1>6, <2>4 DEF ReadRemote, Missed, Goto
    <3> QED
      BY <1>1, <2>1, <2>4, <3>1, ScanBegins
  <2> QED
    BY <2>2, <2>3, <2>4
<1> QED
  BY <1>3, <1>4, <1>5, <1>6

\* The result is scanned, stored and returned.
LEMMA GateStoring ==
  ASSUME FlightAssumption, TypeInv, TypeInv', GateInv, NEW t \in Threads,
         \/ Unlock(t) \/ Scan(t)
         \/ \E outcome \in Outcomes :
              Fill(t, outcome) \/ Write(t, outcome) \/ Publish(t, outcome) \/ Save(t, outcome)
  PROVE  GateInv'
<1> USE DEF TypeInv, TypeOK, store, request, bounds, Goto
<1>1. /\ UNCHANGED <<gate, inflight, scans>>
      /\ \A u \in Threads : Key(u)' = Key(u)
  BY DEF Unlock, Scan, Fill, Write, Publish, Save, Key
<1>2. \A u \in Threads \ {t} : pc'[u] = pc[u]
  BY OwnLocals DEF Continue, Untouched
<1>3. CASE Unlock(t) \/ Scan(t)
  BY <1>1, <1>2, <1>3, OnwardKept DEF Unlock, Scan, Still, Onward
<1>4. ASSUME NEW outcome \in Outcomes, Fill(t, outcome) \/ Write(t, outcome) \/ Save(t, outcome)
      PROVE  GateInv'
  <2>1. Still
    BY <1>1, <1>4 DEF Fill, Write, Save, Still
  <2>2. outcome.ok
    BY DEF Outcomes, FlightAssumption
  <2>3. gate[t] = NoGate \/ <<pc[t], pc'[t]>> \in Onward
    BY <1>4, <2>2 DEF Fill, Write, Save, Onward
  <2> QED
    BY <1>2, <2>1, <2>3, OnwardKept
<1>5. ASSUME NEW outcome \in Outcomes, Publish(t, outcome)
      PROVE  GateInv'
  <2>1. Key(t) \in Keys /\ pc[t] = "publish" /\ pc' = [pc EXCEPT ![t] = "save"]
    BY <1>5, KeyType DEF Publish, Located, Labels, Keyed
  <2>2. RecordOf(t) \in Texts /\ RecordOf(t) # Absent
    BY <2>1, OwnRecordValid, DataAssumption
  <2>3. memory' = [memory EXCEPT ![Key(t)] = RecordOf(t)]
    BY <1>5, <2>1, Remembered DEF Publish
  <2> QED
    BY <1>1, <2>1, <2>2, <2>3, StoredKept
<1> QED
  BY <1>3, <1>4, <1>5

\* Every step keeps the parts of the invariant.
LEMMA GateNext ==
  ASSUME FlightAssumption, TypeInv, TypeInv', TiersValid, GateInv, [Next]_vars
  PROVE  GateInv'
<1>1. ASSUME NEW t \in Threads,
             \/ Stat(t) \/ Hash(t) \/ BareScan(t) \/ Return(t)
             \/ \E j \in Jars, v \in Versions : Begin(t, j, v)
      PROVE  GateInv'
  <2>1. gate[t] = NoGate
    BY <1>1 DEF Stat, Hash, BareScan, Return, Begin, TypeInv, Located, Ungated
  <2>2. Still
    BY <1>1, GateKept DEF Continue, Still, Stat, Hash, BareScan, Return, Begin, Register,
                          Unregister, TypeInv, TypeOK
  <2>3. \A u \in Threads \ {t} : pc'[u] = pc[u]
    BY <1>1, OwnLocals DEF Continue, Untouched
  <2> QED
    BY <2>1, <2>2, <2>3, OnwardKept
<1>2. CASE Environment
  <2>1. CASE Reopen
    BY <2>1 DEF Reopen, NoScans, GateInv, MutualExclusion, OneGate, DoneIsClosed, ScanIsKept,
                MissIsFirst, ScannedOnce, Flying, Open, Holds
  <2>2. CASE ~Reopen
    <3>1. UNCHANGED <<memory, inflight, scans, gate, pc>> /\ \A u \in Threads : Key(u)' = Key(u)
      BY <1>2, <2>2 DEF Environment, Age, Replace, Evict, OtherProcess, request, Key
    <3> QED
      BY <3>1 DEF GateInv, MutualExclusion, OneGate, DoneIsClosed, ScanIsKept,
                  MissIsFirst, ScannedOnce, Flying, Open, Holds
  <2> QED
    BY <2>1, <2>2
<1>3. CASE UNCHANGED vars
  BY <1>3 DEF vars, Key, GateInv, MutualExclusion, OneGate, DoneIsClosed, ScanIsKept,
              MissIsFirst, ScannedOnce, Flying, Open, Holds
<1>4. ASSUME NEW t \in Threads, Panic(t)
      PROVE  FALSE
  BY <1>4 DEF Panic, FlightAssumption
<1> QED
  BY <1>1, <1>2, <1>3, <1>4, GateReading, GateStoring, RegisterKept, LockKept, UnregisterKept
  DEF Next, Continue

\* The invariant of the single flight, under its assumption.
LEMMA FlightCorrect == FlightAssumption => (Spec => [](TypeInv /\ TiersValid /\ GateInv))
<1> SUFFICES ASSUME FlightAssumption PROVE Spec => [](TypeInv /\ TiersValid /\ GateInv)
  OBVIOUS
<1>1. Init => TypeInv /\ TiersValid /\ GateInv
  BY InitType, TiersInit, GateInit
<1>2. TypeInv /\ TiersValid /\ GateInv /\ [Next]_vars => (TypeInv /\ TiersValid /\ GateInv)'
  BY NextType, TiersNext, GateNext
<1> QED
  BY <1>1, <1>2, PTL DEF Spec

\* While writes succeed and memory has room, a process scans a key once, however
\* many threads look it up, whatever is evicted and however the gates of the key
\* come and go.
THEOREM AlwaysScannedOnce == FlightAssumption => (Spec => []ScannedOnce)
<1>1. TypeInv /\ TiersValid /\ GateInv => ScannedOnce
  BY DEF GateInv
<1> QED
  BY FlightCorrect, <1>1, PTL

\* Under the same assumption no two threads are in the scan of one key at a time:
\* what the comment at JarCache::inflight promises holds until a write or a scan
\* fails.
THEOREM AlwaysSingleFlight == FlightAssumption => (Spec => []SingleFlight)
<1>1. TypeInv /\ TiersValid /\ GateInv => SingleFlight
  <2> SUFFICES ASSUME TypeInv, GateInv, NEW t \in Threads, NEW u \in Threads,
                      t # u, pc[t] = "scan", pc[u] = "scan", Key(t) = Key(u)
               PROVE  FALSE
    BY DEF SingleFlight
  <2>1. Key(t) \in Keys /\ gate[t] # NoGate /\ gate[u] # NoGate
    BY KeyType, GateAssumption DEF TypeInv, Located, Labels, Keyed, Gated
  <2>2. Open(Key(t))
    BY <2>1 DEF Open, Flying, Missing
  <2> QED
    BY <2>1, <2>2, OneHolder DEF Flying, Holds
<1> QED
  BY FlightCorrect, <1>1, PTL

=============================================================================
