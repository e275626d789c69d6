---------------------------- MODULE OverlayProofs ----------------------------
(***************************************************************************)
(* Proofs about Overlay: what it publishes is whole, and what it calls     *)
(* safe means the same in every order of the archives, for every mods      *)
(* directory, every cap and any number of processes.                       *)
(***************************************************************************)
EXTENDS Overlay, Integers, FiniteSetTheorems, FunctionTheorems, WellFoundedInduction, TLAPS

-----------------------------------------------------------------------------
(* Induction, its predicate given as the set of what satisfies it.          *)

\* A set of naturals has a least element.
LEMMA Least ==
  ASSUME NEW N \in SUBSET Nat, N # {}
  PROVE  \E n \in N : \A m \in N : n <= m
<1>1. IsWellFoundedOn({p \in Nat \X Nat : p[1] < p[2]}, Nat)
  BY NatLessThanWellFounded DEF OpToRel
<1>2. PICK n \in N : \A m \in N : ~(<<m, n>> \in {p \in Nat \X Nat : p[1] < p[2]})
  BY <1>1, WFMin
<1>3. \A m \in N : ~(m < n)
  BY <1>2
<1> QED
  BY <1>3

\* Induction over the naturals up to a bound ...
LEMMA Counting ==
  ASSUME NEW n \in Nat, NEW Good, 0 \in Good, \A m \in 1 .. n : m - 1 \in Good => m \in Good
  PROVE  \A m \in 0 .. n : m \in Good
<1> DEFINE Bad == {m \in 0 .. n : m \notin Good}
<1> SUFFICES ASSUME Bad # {} PROVE FALSE
  OBVIOUS
<1>1. PICK m \in Bad : \A k \in Bad : m <= k
  <2>1. Bad \in SUBSET Nat
    OBVIOUS
  <2> HIDE DEF Bad
  <2> QED BY <2>1, Least
<1>2. m \in 1 .. n /\ m - 1 \in 0 .. n /\ ~(m <= m - 1)
  OBVIOUS
<1> QED
  BY <1>1, <1>2

\* ... and over sequences.
LEMMA SeqInduction ==
  ASSUME NEW E, NEW Good, <<>> \in Good,
         \A s \in Seq(E) : s \in Good => \A e \in E : Append(s, e) \in Good
  PROVE  \A s \in Seq(E) : s \in Good
<1> SUFFICES ASSUME NEW s \in Seq(E) PROVE s \in Good
  OBVIOUS
<1> DEFINE Prefix == [m \in 0 .. Len(s) |-> [i \in 1 .. m |-> s[i]]]
           Reached   == {m \in 0 .. Len(s) : Prefix[m] \in Good}
<1>1. Len(s) \in Nat /\ Prefix[0] = <<>> /\ Prefix[Len(s)] = s
  OBVIOUS
<1>2. ASSUME NEW m \in 1 .. Len(s)
      PROVE  /\ Prefix[m - 1] \in Seq(E) /\ s[m] \in E
             /\ Prefix[m] = Append(Prefix[m - 1], s[m])
  OBVIOUS
<1> HIDE DEF Prefix
<1>3. 0 \in Reached
  BY <1>1
<1>4. ASSUME NEW m \in 1 .. Len(s), m - 1 \in Reached PROVE m \in Reached
  <2>1. Prefix[m - 1] \in Good
    BY <1>4
  <2>2. Append(Prefix[m - 1], s[m]) \in Good
    <3> DEFINE t == Prefix[m - 1]
    <3>1. t \in Seq(E) /\ t \in Good /\ s[m] \in E
      BY <1>2, <2>1
    <3> HIDE DEF t
    <3>2. Append(t, s[m]) \in Good
      BY <3>1
    <3> QED BY <3>2 DEF t
  <2>3. Prefix[m] \in Good
    BY <1>2, <2>2, Zenon
  <2> QED BY <2>3
<1>5. Len(s) \in Reached
  <2> HIDE DEF Reached
  <2>1. \A m \in 0 .. Len(s) : m \in Reached
    BY <1>1, <1>3, <1>4, Counting
  <2> QED BY <1>1, <2>1
<1> QED
  BY <1>1, <1>5

-----------------------------------------------------------------------------
(* FoldLeft chooses a function over sets of positions, that takes away the   *)
(* last one.  Left is the same fold of an operation given as a function.     *)

\* Max is the largest number of a set that is bounded.
LEMMA MaxIn ==
  ASSUME NEW n \in Nat, NEW S \in SUBSET (1 .. n), S # {}
  PROVE  Max(S) \in S /\ \A x \in S : x <= Max(S)
<1> DEFINE N == {m \in Nat : \A x \in S : x <= m}
<1>1. n \in N
  OBVIOUS
<1>2. PICK m \in N : \A k \in N : m <= k
  <2>1. N \in SUBSET Nat /\ N # {}
    BY <1>1
  <2> HIDE DEF N
  <2> QED BY <2>1, Least
<1>3. m \in S
  <2> SUFFICES ASSUME m \notin S PROVE FALSE
    OBVIOUS
  <2>1. \A x \in S : x <= m - 1 /\ x \in Nat
    BY <1>2
  <2>2. PICK x \in S : TRUE
    OBVIOUS
  <2>3. x \in Nat /\ 1 <= x /\ x <= m - 1
    BY <2>1
  <2>4. m - 1 \in Nat /\ ~(m <= m - 1)
    BY <2>3
  <2>5. m - 1 \in N
    BY <2>1, <2>4
  <2> HIDE DEF N
  <2> QED BY <1>2, <2>4, <2>5
<1>4. \A x \in S : m >= x
  BY <1>2
<1>5. Max(S) \in S /\ \A x \in S : Max(S) >= x
  BY <1>3, <1>4, Zenon DEF Max
<1> QED
  BY <1>5

Rest(S) == S \ {Max(S)}

\* F is an operation on the values V, one for each element in E.
Operation(F, E, V, base) == F \in [E -> [V -> V]] /\ base \in V

\* g is the fold of F over the elements s has at a set of positions.
FoldOf(g, F, V, base, s) ==
  /\ g \in [SUBSET DOMAIN s -> V] /\ g[{}] = base
  /\ \A S \in SUBSET DOMAIN s : S # {} => g[S] = F[s[Max(S)]][g[Rest(S)]]

Left(F, base, s) ==
  (CHOOSE g : g = [S \in SUBSET DOMAIN s |->
                     IF S = {} THEN base ELSE F[s[Max(S)]][g[Rest(S)]]])[DOMAIN s]

LEMMA MaxPosition ==
  ASSUME NEW E, NEW s \in Seq(E), NEW S \in SUBSET DOMAIN s, S # {}
  PROVE  Max(S) \in S /\ s[Max(S)] \in E /\ Rest(S) \in SUBSET DOMAIN s
<1>1. Len(s) \in Nat /\ DOMAIN s = 1 .. Len(s)
  OBVIOUS
<1>2. Max(S) \in S
  BY <1>1, MaxIn
<1> QED
  BY <1>1, <1>2 DEF Rest

LEMMA MaxPrefix ==
  ASSUME NEW n \in Nat, n # 0
  PROVE  Max(1 .. n) = n /\ Rest(1 .. n) = 1 .. n - 1 /\ 1 .. n # {}
<1>1. 1 .. n # {} /\ n \in 1 .. n
  OBVIOUS
<1>2. Max(1 .. n) \in 1 .. n /\ n <= Max(1 .. n)
  BY <1>1, MaxIn
<1>3. Max(1 .. n) = n
  BY <1>2
<1> QED
  BY <1>1, <1>3 DEF Rest

\* Every operation can be folded over every sequence.
LEMMA FoldExists ==
  ASSUME NEW E, NEW V, NEW F, NEW base, Operation(F, E, V, base), NEW s \in Seq(E)
  PROVE  \E g : FoldOf(g, F, V, base, s)
<1> DEFINE Good == {t \in Seq(E) : \E g : FoldOf(g, F, V, base, t)}
<1>1. <<>> \in Good
  <2> DEFINE g == [S \in SUBSET DOMAIN <<>> |-> base]
  <2>1. g \in [SUBSET DOMAIN <<>> -> V]
    BY DEF Operation
  <2>2. DOMAIN <<>> = {} /\ {} \in SUBSET DOMAIN <<>> /\ <<>> \in Seq(E)
    OBVIOUS
  <2>3. FoldOf(g, F, V, base, <<>>)
    BY <2>1, <2>2 DEF FoldOf
  <2> HIDE DEF g
  <2> QED BY <2>2, <2>3
<1>2. ASSUME NEW t \in Seq(E), t \in Good, NEW e \in E PROVE Append(t, e) \in Good
  <2>1. PICK g : FoldOf(g, F, V, base, t)
    BY <1>2
  <2> DEFINE u == Append(t, e)
             n == Len(t) + 1
             h == [S \in SUBSET DOMAIN u |-> IF n \in S THEN F[e][g[S \ {n}]] ELSE g[S]]
  <2>2. u \in Seq(E) /\ DOMAIN u = 1 .. n /\ DOMAIN t = 1 .. n - 1 /\ n \in Nat /\ u[n] = e
    OBVIOUS
  <2>3. \A i \in DOMAIN t : u[i] = t[i]
    OBVIOUS
  <2>4. ASSUME NEW S \in SUBSET DOMAIN u PROVE S \ {n} \in SUBSET DOMAIN t /\ (n \notin S => S \in SUBSET DOMAIN t)
    BY <2>2, <2>4
  <2> HIDE DEF u, n
  <2>5. h \in [SUBSET DOMAIN u -> V]
    <3>1. F[e] \in [V -> V] /\ g \in [SUBSET DOMAIN t -> V]
      BY <2>1 DEF Operation, FoldOf
    <3> QED BY <2>4, <3>1
  <2>6. h[{}] = base
    <3>1. g[{}] = base
      BY <2>1 DEF FoldOf
    <3> QED BY <3>1
  <2>7. ASSUME NEW S \in SUBSET DOMAIN u, S # {} PROVE h[S] = F[u[Max(S)]][h[Rest(S)]]
    <3>1. Max(S) \in S /\ \A x \in S : x <= Max(S)
      BY <2>2, <2>7, MaxIn
    <3>2. Rest(S) \in SUBSET DOMAIN u
      BY DEF Rest
    <3>3. CASE n \in S
      <4>1. Max(S) = n
        BY <3>1, <3>3, <2>2
      <4>2. Rest(S) = S \ {n} /\ n \notin Rest(S)
        BY <4>1 DEF Rest
      <4>3. h[Rest(S)] = g[S \ {n}]
        BY <3>2, <4>2
      <4> QED BY <2>2, <3>3, <4>1, <4>3
    <3>4. CASE n \notin S
      <4>1. S \in SUBSET DOMAIN t /\ n \notin Rest(S)
        BY <2>4, <3>4 DEF Rest
      <4>2. g[S] = F[t[Max(S)]][g[Rest(S)]]
        BY <2>1, <2>7, <4>1 DEF FoldOf
      <4>3. h[S] = g[S] /\ h[Rest(S)] = g[Rest(S)] /\ u[Max(S)] = t[Max(S)]
        BY <2>3, <3>1, <3>2, <3>4, <4>1
      <4> QED BY <4>2, <4>3
    <3> QED BY <3>3, <3>4
  <2>8. FoldOf(h, F, V, base, u)
    <3> HIDE DEF h
    <3> QED BY <2>5, <2>6, <2>7 DEF FoldOf
  <2> HIDE DEF h
  <2> QED BY <2>2, <2>5, <2>8 DEF u
<1>3. s \in Good
  <2> HIDE DEF Good
  <2> QED BY <1>1, <1>2, SeqInduction
<1> QED
  BY <1>3

\* What takes every step of a fold is the fold.
LEMMA SameFold ==
  ASSUME NEW E, NEW V, NEW F, NEW base, Operation(F, E, V, base), NEW s \in Seq(E),
         NEW g, FoldOf(g, F, V, base, s), NEW h, h[{}] = base,
         \A n \in 1 .. Len(s) : h[1 .. n - 1] \in V => h[1 .. n] = F[s[n]][h[1 .. n - 1]]
  PROVE  \A n \in 0 .. Len(s) : h[1 .. n] = g[1 .. n]
<1> DEFINE Good == {n \in 0 .. Len(s) : h[1 .. n] = g[1 .. n]}
<1>1. 0 \in Good
  <2>1. 1 .. 0 = {} /\ 0 \in 0 .. Len(s)
    OBVIOUS
  <2> QED BY <2>1 DEF FoldOf
<1>2. ASSUME NEW n \in 1 .. Len(s), n - 1 \in Good PROVE n \in Good
  <2>1. (1 .. n) \in SUBSET DOMAIN s /\ (1 .. n - 1) \in SUBSET DOMAIN s
    OBVIOUS
  <2>2. Max(1 .. n) = n /\ Rest(1 .. n) = 1 .. n - 1 /\ 1 .. n # {}
    BY MaxPrefix
  <2>3. g[1 .. n] = F[s[n]][g[1 .. n - 1]]
    BY <2>1, <2>2 DEF FoldOf
  <2>4. h[1 .. n - 1] = g[1 .. n - 1] /\ g[1 .. n - 1] \in V
    BY <1>2, <2>1 DEF FoldOf
  <2> QED BY <2>3, <2>4
<1>3. Len(s) \in Nat
  OBVIOUS
<1> HIDE DEF Good
<1>4. \A n \in 0 .. Len(s) : n \in Good
  BY <1>1, <1>2, <1>3, Counting
<1> QED
  BY <1>4 DEF Good

\* Left is a fold.
LEMMA LeftIs ==
  ASSUME NEW E, NEW V, NEW F, NEW base, Operation(F, E, V, base), NEW s \in Seq(E)
  PROVE  \E g : FoldOf(g, F, V, base, s) /\ Left(F, base, s) = g[DOMAIN s]
<1> DEFINE Is(g) == g = [S \in SUBSET DOMAIN s |-> IF S = {} THEN base ELSE F[s[Max(S)]][g[Rest(S)]]]
           h     == CHOOSE g : Is(g)
<1>1. PICK g : FoldOf(g, F, V, base, s)
  BY FoldExists
<1>2. Is(g)
  BY <1>1 DEF FoldOf
<1>3. Is(h)
  BY <1>2, Zenon
<1>4. Left(F, base, s) = h[DOMAIN s]
  BY DEF Left
<1> HIDE DEF h
<1>5. h[{}] = base /\ \A S \in SUBSET DOMAIN s : S # {} => h[S] = F[s[Max(S)]][h[Rest(S)]]
  BY <1>3
<1>6. \A n \in 1 .. Len(s) : h[1 .. n] = F[s[n]][h[1 .. n - 1]]
  <2> TAKE n \in 1 .. Len(s)
  <2>1. (1 .. n) \in SUBSET DOMAIN s
    OBVIOUS
  <2>2. Max(1 .. n) = n /\ Rest(1 .. n) = 1 .. n - 1 /\ 1 .. n # {}
    BY MaxPrefix
  <2> QED BY <1>5, <2>1, <2>2
<1>7. \A n \in 0 .. Len(s) : h[1 .. n] = g[1 .. n]
  BY <1>1, <1>5, <1>6, SameFold
<1>8. DOMAIN s = 1 .. Len(s) /\ Len(s) \in 0 .. Len(s)
  OBVIOUS
<1> QED
  BY <1>1, <1>4, <1>7, <1>8

\* So is whatever takes the steps of it.
LEMMA Steps ==
  ASSUME NEW E, NEW V, NEW F, NEW base, Operation(F, E, V, base), NEW s \in Seq(E),
         NEW h, h[{}] = base,
         \A n \in 1 .. Len(s) : h[1 .. n - 1] \in V => h[1 .. n] = F[s[n]][h[1 .. n - 1]]
  PROVE  h[DOMAIN s] = Left(F, base, s)
<1>1. PICK g : FoldOf(g, F, V, base, s) /\ Left(F, base, s) = g[DOMAIN s]
  BY LeftIs
<1>2. \A n \in 0 .. Len(s) : h[1 .. n] = g[1 .. n]
  BY <1>1, SameFold
<1>3. DOMAIN s = 1 .. Len(s) /\ Len(s) \in 0 .. Len(s)
  OBVIOUS
<1> QED
  BY <1>1, <1>2, <1>3

\* A fold goes on from what it is of the elements before.
LEMMA LeftStep ==
  ASSUME NEW E, NEW V, NEW F, NEW base, Operation(F, E, V, base)
  PROVE  /\ Left(F, base, <<>>) = base
         /\ \A s \in Seq(E) : Left(F, base, s) \in V
         /\ \A s \in Seq(E) : \A e \in E : Left(F, base, Append(s, e)) = F[e][Left(F, base, s)]
<1>1. Left(F, base, <<>>) = base
  <2>1. \A s \in Seq(E) : DOMAIN s = {} => Left(F, base, s) = base
    <3> TAKE s \in Seq(E)
    <3>1. PICK g : FoldOf(g, F, V, base, s) /\ Left(F, base, s) = g[DOMAIN s]
      BY LeftIs
    <3> QED BY <3>1 DEF FoldOf
  <2>2. <<>> \in Seq(E) /\ DOMAIN <<>> = {}
    OBVIOUS
  <2> QED BY <2>1, <2>2
<1>2. ASSUME NEW s \in Seq(E), NEW e \in E
      PROVE  Left(F, base, Append(s, e)) = F[e][Left(F, base, s)]
  <2> DEFINE t == Append(s, e)
  <2>1. /\ t \in Seq(E) /\ DOMAIN t = 1 .. Len(t) /\ Len(t) = Len(s) + 1 /\ Len(s) \in Nat /\ t[Len(t)] = e
        /\ \A n \in DOMAIN s : t[n] = s[n]
        /\ DOMAIN s = 1 .. Len(s)
    OBVIOUS
  <2> HIDE DEF t
  <2>2. PICK g : FoldOf(g, F, V, base, t) /\ Left(F, base, t) = g[DOMAIN t]
    BY <2>1, LeftIs
  <2>3. ASSUME NEW n \in 1 .. Len(t) PROVE g[1 .. n] = F[t[n]][g[1 .. n - 1]]
    <3>1. (1 .. n) \in SUBSET DOMAIN t
      BY <2>1
    <3>2. Max(1 .. n) = n /\ Rest(1 .. n) = 1 .. n - 1 /\ 1 .. n # {}
      BY MaxPrefix, <2>1
    <3> QED BY <2>2, <3>1, <3>2 DEF FoldOf
  <2>4. g[DOMAIN s] = Left(F, base, s)
    <3>1. g[{}] = base
      BY <2>2 DEF FoldOf
    <3>2. \A n \in 1 .. Len(s) : g[1 .. n] = F[s[n]][g[1 .. n - 1]]
      BY <2>1, <2>3
    <3> QED BY <3>1, <3>2, Steps
  <2>5. g[DOMAIN t] = F[e][g[1 .. Len(t) - 1]] /\ 1 .. Len(t) - 1 = DOMAIN s
    BY <2>1, <2>3
  <2>6. DOMAIN s \in SUBSET DOMAIN t
    BY <2>1
  <2> QED BY <2>2, <2>4, <2>5, <2>6 DEF t
<1>3. ASSUME NEW s \in Seq(E) PROVE Left(F, base, s) \in V
  <2>1. PICK g : FoldOf(g, F, V, base, s) /\ Left(F, base, s) = g[DOMAIN s]
    BY LeftIs
  <2> QED BY <2>1 DEF FoldOf
<1> QED
  BY <1>1, <1>2, <1>3

-----------------------------------------------------------------------------
(* The folds of Overlay, an element at a time.                              *)

Joins(parts, s) == FoldLeft(LAMBDA all, j : all \o parts[j], <<>>, s)

Fits(s, P) ==
  FoldLeft(LAMBDA kept, e : IF e.path \in P /\ e.size <= EntryCap THEN Append(kept, e) ELSE kept, <<>>, s)

Scans(jar, s) ==
  FoldLeft(LAMBDA acc, entry : ScanEntry(jar, acc, entry),
           [writes |-> <<>>, count |-> 0, total |-> 0, open |-> TRUE], s)

Batched(writes, cap, s) ==
  FoldLeft(LAMBDA acc, path : AddPath(writes, acc, path, cap), [closed |-> <<>>, open |-> {}, bytes |-> 0], s)

Rereads(P, start, s) == FoldLeft(LAMBDA a, e : RereadEntry(P, a, e), start, s)

RereadsAll(dir, writes, P, s) ==
  FoldLeft(LAMBDA acc, j : IF j \in Writers(writes, P) THEN RereadJar(dir, P, acc, j) ELSE acc,
           [blobs |-> <<>>, total |-> 0, open |-> TRUE], s)

\* What the folds hold on the way.
Write        == [jar : Jars, path : Paths, size : Nat]
ScanStates   == [writes : Seq(Write), count : Nat, total : Nat, open : BOOLEAN]
BatchStates  == [closed : Seq(SUBSET Paths), open : SUBSET Paths, bytes : Nat]
Readings(E)  == [blobs : Seq(E), total : Nat, open : BOOLEAN]
IsEntries(E) == \A e \in E : e.path \in Paths /\ e.size \in Nat

\* Of an entry: its path is one of P.
Has(e, P) == e.path \in P

LEMMA OfStep ==
  ASSUME NEW E, NEW P
  PROVE  /\ Of(<<>>, P) = <<>>
         /\ \A s \in Seq(E) : Of(s, P) \in Seq(E)
         /\ \A s \in Seq(E) : \A e \in E :
              Of(Append(s, e), P) = (IF Has(e, P) THEN Append(Of(s, P), e) ELSE Of(s, P))
<1> DEFINE V == Seq(E)
           B == <<>>
           F == [e \in E |-> [v \in V |-> (IF Has(e, P) THEN Append(v, e) ELSE v)]]
<1>1. B \in V /\ \A e \in E : \A v \in V : (IF Has(e, P) THEN Append(v, e) ELSE v) \in V
  OBVIOUS
<1> HIDE DEF V
<1>2. Operation(F, E, V, B)
  BY <1>1 DEF Operation
<1>3. ASSUME NEW s \in Seq(E) PROVE Of(s, P) = Left(F, B, s)
  <2> DEFINE Is(g) == g = [S \in SUBSET DOMAIN s |-> IF S = {} THEN B ELSE (IF Has(s[Max(S)], P) THEN Append(g[Rest(S)], s[Max(S)]) ELSE g[Rest(S)])]
             h     == CHOOSE g : Is(g)
  <2>1. PICK g : FoldOf(g, F, V, B, s)
    <3> HIDE DEF F
    <3> QED BY <1>2, FoldExists
  <2>2. ASSUME NEW S \in SUBSET DOMAIN s, S # {}
        PROVE  g[S] = F[s[Max(S)]][g[Rest(S)]] /\ s[Max(S)] \in E /\ g[Rest(S)] \in V
    <3> HIDE DEF F
    <3> QED BY <2>1, <2>2, MaxPosition DEF FoldOf
  <2>3. ASSUME NEW S \in SUBSET DOMAIN s, S # {} PROVE g[S] = (IF Has(s[Max(S)], P) THEN Append(g[Rest(S)], s[Max(S)]) ELSE g[Rest(S)])
    BY <2>2, <2>3
  <2>4. Is(g)
    <3> HIDE DEF F
    <3> QED BY <2>1, <2>3 DEF FoldOf
  <2>5. Is(h)
    BY <2>4, Zenon
  <2>6. Of(s, P) = h[DOMAIN s]
    BY Zenon DEF Of, Has, FoldLeft, MapThenFoldSet, Rest
  <2> HIDE DEF h
  <2>7. h[{}] = B
    BY <2>5
  <2>8. ASSUME NEW n \in 1 .. Len(s), h[1 .. n - 1] \in V
        PROVE  h[1 .. n] = F[s[n]][h[1 .. n - 1]]
    <3>1. (1 .. n) \in SUBSET DOMAIN s /\ s[n] \in E
      OBVIOUS
    <3>2. Max(1 .. n) = n /\ Rest(1 .. n) = 1 .. n - 1 /\ 1 .. n # {}
      BY MaxPrefix
    <3> QED BY <2>5, <2>8, <3>1, <3>2
  <2> HIDE DEF F
  <2> QED BY <1>2, <2>6, <2>7, <2>8, Steps
<1>4. ASSUME NEW s \in Seq(E), NEW e \in E PROVE Left(F, B, Append(s, e)) = (IF Has(e, P) THEN Append(Left(F, B, s), e) ELSE Left(F, B, s))
  <2>1. Left(F, B, s) \in V /\ Left(F, B, Append(s, e)) = F[e][Left(F, B, s)]
    <3> HIDE DEF F
    <3> QED BY <1>2, LeftStep
  <2> DEFINE v == Left(F, B, s)
  <2>2. v \in V
    BY <2>1
  <2> HIDE DEF v
  <2>3. F[e][v] = (IF Has(e, P) THEN Append(v, e) ELSE v)
    BY <2>2
  <2> QED BY <2>1, <2>3 DEF v
<1> HIDE DEF F
<1>5. Left(F, B, <<>>) = B /\ \A s \in Seq(E) : Left(F, B, s) \in V
  BY <1>2, LeftStep
<1>6. ASSUME NEW s \in Seq(E), NEW e \in E PROVE Of(Append(s, e), P) = Left(F, B, Append(s, e))
  <2> DEFINE t == Append(s, e)
  <2>1. t \in Seq(E)
    OBVIOUS
  <2> HIDE DEF t
  <2>2. Of(t, P) = Left(F, B, t)
    BY <1>3, <2>1
  <2> QED BY <2>2 DEF t
<1>7. Of(<<>>, P) = Left(F, B, <<>>)
  <2>1. <<>> \in Seq(E)
    OBVIOUS
  <2> QED BY <1>3, <2>1
<1> QED
  BY <1>3, <1>4, <1>5, <1>6, <1>7 DEF V

LEMMA SizeStep ==
  ASSUME NEW E, \A e \in E : e.size \in Nat
  PROVE  /\ Size(<<>>) = 0
         /\ \A s \in Seq(E) : Size(s) \in Nat
         /\ \A s \in Seq(E) : \A e \in E :
              Size(Append(s, e)) = (Size(s) + e.size)
<1> DEFINE V == Nat
           B == 0
           F == [e \in E |-> [v \in V |-> (v + e.size)]]
<1>1. B \in V /\ \A e \in E : \A v \in V : (v + e.size) \in V
  OBVIOUS
<1> HIDE DEF V
<1>2. Operation(F, E, V, B)
  BY <1>1 DEF Operation
<1>3. ASSUME NEW s \in Seq(E) PROVE Size(s) = Left(F, B, s)
  <2> DEFINE Is(g) == g = [S \in SUBSET DOMAIN s |-> IF S = {} THEN B ELSE (g[Rest(S)] + s[Max(S)].size)]
             h     == CHOOSE g : Is(g)
  <2>1. PICK g : FoldOf(g, F, V, B, s)
    <3> HIDE DEF F
    <3> QED BY <1>2, FoldExists
  <2>2. ASSUME NEW S \in SUBSET DOMAIN s, S # {}
        PROVE  g[S] = F[s[Max(S)]][g[Rest(S)]] /\ s[Max(S)] \in E /\ g[Rest(S)] \in V
    <3> HIDE DEF F
    <3> QED BY <2>1, <2>2, MaxPosition DEF FoldOf
  <2>3. ASSUME NEW S \in SUBSET DOMAIN s, S # {} PROVE g[S] = (g[Rest(S)] + s[Max(S)].size)
    BY <2>2, <2>3
  <2>4. Is(g)
    <3> HIDE DEF F
    <3> QED BY <2>1, <2>3 DEF FoldOf
  <2>5. Is(h)
    BY <2>4, Zenon
  <2>6. Size(s) = h[DOMAIN s]
    BY Zenon DEF Size, FoldLeft, MapThenFoldSet, Rest
  <2> HIDE DEF h
  <2>7. h[{}] = B
    BY <2>5
  <2>8. ASSUME NEW n \in 1 .. Len(s), h[1 .. n - 1] \in V
        PROVE  h[1 .. n] = F[s[n]][h[1 .. n - 1]]
    <3>1. (1 .. n) \in SUBSET DOMAIN s /\ s[n] \in E
      OBVIOUS
    <3>2. Max(1 .. n) = n /\ Rest(1 .. n) = 1 .. n - 1 /\ 1 .. n # {}
      BY MaxPrefix
    <3> QED BY <2>5, <2>8, <3>1, <3>2
  <2> HIDE DEF F
  <2> QED BY <1>2, <2>6, <2>7, <2>8, Steps
<1>4. ASSUME NEW s \in Seq(E), NEW e \in E PROVE Left(F, B, Append(s, e)) = (Left(F, B, s) + e.size)
  <2>1. Left(F, B, s) \in V /\ Left(F, B, Append(s, e)) = F[e][Left(F, B, s)]
    <3> HIDE DEF F
    <3> QED BY <1>2, LeftStep
  <2> DEFINE v == Left(F, B, s)
  <2>2. v \in V
    BY <2>1
  <2> HIDE DEF v
  <2>3. F[e][v] = (v + e.size)
    BY <2>2
  <2> QED BY <2>1, <2>3 DEF v
<1> HIDE DEF F
<1>5. Left(F, B, <<>>) = B /\ \A s \in Seq(E) : Left(F, B, s) \in V
  BY <1>2, LeftStep
<1>6. ASSUME NEW s \in Seq(E), NEW e \in E PROVE Size(Append(s, e)) = Left(F, B, Append(s, e))
  <2> DEFINE t == Append(s, e)
  <2>1. t \in Seq(E)
    OBVIOUS
  <2> HIDE DEF t
  <2>2. Size(t) = Left(F, B, t)
    BY <1>3, <2>1
  <2> QED BY <2>2 DEF t
<1>7. Size(<<>>) = Left(F, B, <<>>)
  <2>1. <<>> \in Seq(E)
    OBVIOUS
  <2> QED BY <1>3, <2>1
<1> QED
  BY <1>3, <1>4, <1>5, <1>6, <1>7 DEF V

LEMMA JoinsStep ==
  ASSUME NEW E, NEW W, NEW parts \in [E -> Seq(W)]
  PROVE  /\ Joins(parts, <<>>) = <<>>
         /\ \A s \in Seq(E) : Joins(parts, s) \in Seq(W)
         /\ \A s \in Seq(E) : \A e \in E :
              Joins(parts, Append(s, e)) = (Joins(parts, s) \o parts[e])
<1> DEFINE V == Seq(W)
           B == <<>>
           F == [e \in E |-> [v \in V |-> (v \o parts[e])]]
<1>1. B \in V /\ \A e \in E : \A v \in V : (v \o parts[e]) \in V
  OBVIOUS
<1> HIDE DEF V
<1>2. Operation(F, E, V, B)
  BY <1>1 DEF Operation
<1>3. ASSUME NEW s \in Seq(E) PROVE Joins(parts, s) = Left(F, B, s)
  <2> DEFINE Is(g) == g = [S \in SUBSET DOMAIN s |-> IF S = {} THEN B ELSE (g[Rest(S)] \o parts[s[Max(S)]])]
             h     == CHOOSE g : Is(g)
  <2>1. PICK g : FoldOf(g, F, V, B, s)
    <3> HIDE DEF F
    <3> QED BY <1>2, FoldExists
  <2>2. ASSUME NEW S \in SUBSET DOMAIN s, S # {}
        PROVE  g[S] = F[s[Max(S)]][g[Rest(S)]] /\ s[Max(S)] \in E /\ g[Rest(S)] \in V
    <3> HIDE DEF F
    <3> QED BY <2>1, <2>2, MaxPosition DEF FoldOf
  <2>3. ASSUME NEW S \in SUBSET DOMAIN s, S # {} PROVE g[S] = (g[Rest(S)] \o parts[s[Max(S)]])
    BY <2>2, <2>3
  <2>4. Is(g)
    <3> HIDE DEF F
    <3> QED BY <2>1, <2>3 DEF FoldOf
  <2>5. Is(h)
    BY <2>4, Zenon
  <2>6. Joins(parts, s) = h[DOMAIN s]
    BY Zenon DEF Joins, FoldLeft, MapThenFoldSet, Rest
  <2> HIDE DEF h
  <2>7. h[{}] = B
    BY <2>5
  <2>8. ASSUME NEW n \in 1 .. Len(s), h[1 .. n - 1] \in V
        PROVE  h[1 .. n] = F[s[n]][h[1 .. n - 1]]
    <3>1. (1 .. n) \in SUBSET DOMAIN s /\ s[n] \in E
      OBVIOUS
    <3>2. Max(1 .. n) = n /\ Rest(1 .. n) = 1 .. n - 1 /\ 1 .. n # {}
      BY MaxPrefix
    <3> QED BY <2>5, <2>8, <3>1, <3>2
  <2> HIDE DEF F
  <2> QED BY <1>2, <2>6, <2>7, <2>8, Steps
<1>4. ASSUME NEW s \in Seq(E), NEW e \in E PROVE Left(F, B, Append(s, e)) = (Left(F, B, s) \o parts[e])
  <2>1. Left(F, B, s) \in V /\ Left(F, B, Append(s, e)) = F[e][Left(F, B, s)]
    <3> HIDE DEF F
    <3> QED BY <1>2, LeftStep
  <2> DEFINE v == Left(F, B, s)
  <2>2. v \in V
    BY <2>1
  <2> HIDE DEF v
  <2>3. F[e][v] = (v \o parts[e])
    BY <2>2
  <2> QED BY <2>1, <2>3 DEF v
<1> HIDE DEF F
<1>5. Left(F, B, <<>>) = B /\ \A s \in Seq(E) : Left(F, B, s) \in V
  BY <1>2, LeftStep
<1>6. ASSUME NEW s \in Seq(E), NEW e \in E PROVE Joins(parts, Append(s, e)) = Left(F, B, Append(s, e))
  <2> DEFINE t == Append(s, e)
  <2>1. t \in Seq(E)
    OBVIOUS
  <2> HIDE DEF t
  <2>2. Joins(parts, t) = Left(F, B, t)
    BY <1>3, <2>1
  <2> QED BY <2>2 DEF t
<1>7. Joins(parts, <<>>) = Left(F, B, <<>>)
  <2>1. <<>> \in Seq(E)
    OBVIOUS
  <2> QED BY <1>3, <2>1
<1> QED
  BY <1>3, <1>4, <1>5, <1>6, <1>7 DEF V

\* ... and it is within the cap of an entry.
Fit(e, P) == e.path \in P /\ e.size <= EntryCap

LEMMA FitsStep ==
  ASSUME NEW E, NEW P
  PROVE  /\ Fits(<<>>, P) = <<>>
         /\ \A s \in Seq(E) : Fits(s, P) \in Seq(E)
         /\ \A s \in Seq(E) : \A e \in E :
              Fits(Append(s, e), P) = (IF Fit(e, P) THEN Append(Fits(s, P), e) ELSE Fits(s, P))
<1> DEFINE V == Seq(E)
           B == <<>>
           F == [e \in E |-> [v \in V |-> (IF Fit(e, P) THEN Append(v, e) ELSE v)]]
<1>1. B \in V /\ \A e \in E : \A v \in V : (IF Fit(e, P) THEN Append(v, e) ELSE v) \in V
  OBVIOUS
<1> HIDE DEF V
<1>2. Operation(F, E, V, B)
  BY <1>1 DEF Operation
<1>3. ASSUME NEW s \in Seq(E) PROVE Fits(s, P) = Left(F, B, s)
  <2> DEFINE Is(g) == g = [S \in SUBSET DOMAIN s |-> IF S = {} THEN B ELSE (IF Fit(s[Max(S)], P) THEN Append(g[Rest(S)], s[Max(S)]) ELSE g[Rest(S)])]
             h     == CHOOSE g : Is(g)
  <2>1. PICK g : FoldOf(g, F, V, B, s)
    <3> HIDE DEF F
    <3> QED BY <1>2, FoldExists
  <2>2. ASSUME NEW S \in SUBSET DOMAIN s, S # {}
        PROVE  g[S] = F[s[Max(S)]][g[Rest(S)]] /\ s[Max(S)] \in E /\ g[Rest(S)] \in V
    <3> HIDE DEF F
    <3> QED BY <2>1, <2>2, MaxPosition DEF FoldOf
  <2>3. ASSUME NEW S \in SUBSET DOMAIN s, S # {} PROVE g[S] = (IF Fit(s[Max(S)], P) THEN Append(g[Rest(S)], s[Max(S)]) ELSE g[Rest(S)])
    BY <2>2, <2>3
  <2>4. Is(g)
    <3> HIDE DEF F
    <3> QED BY <2>1, <2>3 DEF FoldOf
  <2>5. Is(h)
    BY <2>4, Zenon
  <2>6. Fits(s, P) = h[DOMAIN s]
    BY Zenon DEF Fits, Fit, FoldLeft, MapThenFoldSet, Rest
  <2> HIDE DEF h
  <2>7. h[{}] = B
    BY <2>5
  <2>8. ASSUME NEW n \in 1 .. Len(s), h[1 .. n - 1] \in V
        PROVE  h[1 .. n] = F[s[n]][h[1 .. n - 1]]
    <3>1. (1 .. n) \in SUBSET DOMAIN s /\ s[n] \in E
      OBVIOUS
    <3>2. Max(1 .. n) = n /\ Rest(1 .. n) = 1 .. n - 1 /\ 1 .. n # {}
      BY MaxPrefix
    <3> QED BY <2>5, <2>8, <3>1, <3>2
  <2> HIDE DEF F
  <2> QED BY <1>2, <2>6, <2>7, <2>8, Steps
<1>4. ASSUME NEW s \in Seq(E), NEW e \in E PROVE Left(F, B, Append(s, e)) = (IF Fit(e, P) THEN Append(Left(F, B, s), e) ELSE Left(F, B, s))
  <2>1. Left(F, B, s) \in V /\ Left(F, B, Append(s, e)) = F[e][Left(F, B, s)]
    <3> HIDE DEF F
    <3> QED BY <1>2, LeftStep
  <2> DEFINE v == Left(F, B, s)
  <2>2. v \in V
    BY <2>1
  <2> HIDE DEF v
  <2>3. F[e][v] = (IF Fit(e, P) THEN Append(v, e) ELSE v)
    BY <2>2
  <2> QED BY <2>1, <2>3 DEF v
<1> HIDE DEF F
<1>5. Left(F, B, <<>>) = B /\ \A s \in Seq(E) : Left(F, B, s) \in V
  BY <1>2, LeftStep
<1>6. ASSUME NEW s \in Seq(E), NEW e \in E PROVE Fits(Append(s, e), P) = Left(F, B, Append(s, e))
  <2> DEFINE t == Append(s, e)
  <2>1. t \in Seq(E)
    OBVIOUS
  <2> HIDE DEF t
  <2>2. Fits(t, P) = Left(F, B, t)
    BY <1>3, <2>1
  <2> QED BY <2>2 DEF t
<1>7. Fits(<<>>, P) = Left(F, B, <<>>)
  <2>1. <<>> \in Seq(E)
    OBVIOUS
  <2> QED BY <1>3, <2>1
<1> QED
  BY <1>3, <1>4, <1>5, <1>6, <1>7 DEF V

LEMMA FitsOne ==
  ASSUME NEW E, NEW P, NEW s \in Seq(E), NEW e \in E
  PROVE  Fits(s, P) \in Seq(E) /\ Fits(Append(s, e), P) = IF Fit(e, P) THEN Append(Fits(s, P), e) ELSE Fits(s, P)
  BY FitsStep

LEMMA ScansStep ==
  ASSUME NEW E, IsEntries(E), NEW jar \in Jars
  PROVE  /\ Scans(jar, <<>>) = [writes |-> <<>>, count |-> 0, total |-> 0, open |-> TRUE]
         /\ \A s \in Seq(E) : Scans(jar, s) \in ScanStates
         /\ \A s \in Seq(E) : \A e \in E :
              Scans(jar, Append(s, e)) = ScanEntry(jar, Scans(jar, s), e)
<1> DEFINE V == ScanStates
           B == [writes |-> <<>>, count |-> 0, total |-> 0, open |-> TRUE]
           F == [e \in E |-> [v \in V |-> ScanEntry(jar, v, e)]]
<1>1. B \in V /\ \A e \in E : \A v \in V : ScanEntry(jar, v, e) \in V
  <2>1. B \in V
    BY DEF ScanStates
  <2>2. ASSUME NEW e \in E, NEW v \in ScanStates PROVE ScanEntry(jar, v, e) \in ScanStates
    <3>1. e.path \in Paths /\ e.size \in Nat
      BY DEF IsEntries
    <3>2. [jar |-> jar, path |-> e.path, size |-> e.size] \in Write
      BY <3>1 DEF Write
    <3>3. /\ v.writes \in Seq(Write) /\ v.count \in Nat /\ v.total \in Nat
          /\ v = [writes |-> v.writes, count |-> v.count, total |-> v.total, open |-> v.open]
      BY DEF ScanStates
    <3> DEFINE count  == v.count + 1
               total  == v.total + e.size
               writes == Append(v.writes, [jar |-> jar, path |-> e.path, size |-> e.size])
    <3>4. count \in Nat /\ total \in Nat /\ writes \in Seq(Write)
      BY <3>1, <3>2, <3>3
    <3> HIDE DEF count, total, writes
    <3>5. [v EXCEPT !.count = count, !.total = total, !.writes = writes] \in ScanStates
      BY <3>4 DEF ScanStates
    <3>6. [v EXCEPT !.open = FALSE] \in ScanStates /\ [v EXCEPT !.count = count] \in ScanStates
      BY <3>4 DEF ScanStates
    <3> QED BY <3>5, <3>6 DEF ScanEntry, count, total, writes
  <2> QED BY <2>1, <2>2
<1> HIDE DEF V
<1>2. Operation(F, E, V, B)
  BY <1>1 DEF Operation
<1>3. ASSUME NEW s \in Seq(E) PROVE Scans(jar, s) = Left(F, B, s)
  <2> DEFINE Is(g) == g = [S \in SUBSET DOMAIN s |-> IF S = {} THEN B ELSE ScanEntry(jar, g[Rest(S)], s[Max(S)])]
             h     == CHOOSE g : Is(g)
  <2>1. PICK g : FoldOf(g, F, V, B, s)
    <3> HIDE DEF F
    <3> QED BY <1>2, FoldExists
  <2>2. ASSUME NEW S \in SUBSET DOMAIN s, S # {}
        PROVE  g[S] = F[s[Max(S)]][g[Rest(S)]] /\ s[Max(S)] \in E /\ g[Rest(S)] \in V
    <3> HIDE DEF F
    <3> QED BY <2>1, <2>2, MaxPosition DEF FoldOf
  <2>3. ASSUME NEW S \in SUBSET DOMAIN s, S # {} PROVE g[S] = ScanEntry(jar, g[Rest(S)], s[Max(S)])
    BY <2>2, <2>3
  <2>4. Is(g)
    <3> HIDE DEF F
    <3> QED BY <2>1, <2>3 DEF FoldOf
  <2>5. Is(h)
    BY <2>4, Zenon
  <2>6. Scans(jar, s) = h[DOMAIN s]
    BY Zenon DEF Scans, FoldLeft, MapThenFoldSet, Rest
  <2> HIDE DEF h
  <2>7. h[{}] = B
    BY <2>5
  <2>8. ASSUME NEW n \in 1 .. Len(s), h[1 .. n - 1] \in V
        PROVE  h[1 .. n] = F[s[n]][h[1 .. n - 1]]
    <3>1. (1 .. n) \in SUBSET DOMAIN s /\ s[n] \in E
      OBVIOUS
    <3>2. Max(1 .. n) = n /\ Rest(1 .. n) = 1 .. n - 1 /\ 1 .. n # {}
      BY MaxPrefix
    <3> QED BY <2>5, <2>8, <3>1, <3>2
  <2> HIDE DEF F
  <2> QED BY <1>2, <2>6, <2>7, <2>8, Steps
<1>4. ASSUME NEW s \in Seq(E), NEW e \in E PROVE Left(F, B, Append(s, e)) = ScanEntry(jar, Left(F, B, s), e)
  <2>1. Left(F, B, s) \in V /\ Left(F, B, Append(s, e)) = F[e][Left(F, B, s)]
    <3> HIDE DEF F
    <3> QED BY <1>2, LeftStep
  <2> DEFINE v == Left(F, B, s)
  <2>2. v \in V
    BY <2>1
  <2> HIDE DEF v
  <2>3. F[e][v] = ScanEntry(jar, v, e)
    BY <2>2
  <2> QED BY <2>1, <2>3 DEF v
<1> HIDE DEF F
<1>5. Left(F, B, <<>>) = B /\ \A s \in Seq(E) : Left(F, B, s) \in V
  BY <1>2, LeftStep
<1>6. ASSUME NEW s \in Seq(E), NEW e \in E PROVE Scans(jar, Append(s, e)) = Left(F, B, Append(s, e))
  <2> DEFINE t == Append(s, e)
  <2>1. t \in Seq(E)
    OBVIOUS
  <2> HIDE DEF t
  <2>2. Scans(jar, t) = Left(F, B, t)
    BY <1>3, <2>1
  <2> QED BY <2>2 DEF t
<1>7. Scans(jar, <<>>) = Left(F, B, <<>>)
  <2>1. <<>> \in Seq(E)
    OBVIOUS
  <2> QED BY <1>3, <2>1
<1> QED
  BY <1>3, <1>4, <1>5, <1>6, <1>7 DEF V

\* Adding a path keeps the type of the batches.
LEMMA AddPathType ==
  ASSUME NEW writes \in Seq(Write), NEW acc \in BatchStates, NEW path \in Paths, NEW cap
  PROVE  AddPath(writes, acc, path, cap) \in BatchStates
<1>1. Size(Of(writes, {path})) \in Nat
  <2>1. Of(writes, {path}) \in Seq(Write)
    BY OfStep
  <2>2. \A w \in Write : w.size \in Nat
    BY DEF Write
  <2> QED BY <2>1, <2>2, SizeStep
<1> DEFINE bytes == Size(Of(writes, {path}))
           start == IF acc.open # {} /\ acc.bytes + bytes > cap
                    THEN [acc EXCEPT !.closed = Append(@, acc.open), !.open = {}, !.bytes = 0] ELSE acc
           grown == [start EXCEPT !.open = @ \union {path}, !.bytes = @ + bytes]
<1>2. start \in BatchStates
  <2> DEFINE closed == Append(acc.closed, acc.open)
  <2>1. closed \in Seq(SUBSET Paths) /\ {} \in SUBSET Paths /\ 0 \in Nat
    BY DEF BatchStates
  <2> HIDE DEF closed
  <2>2. [acc EXCEPT !.closed = closed, !.open = {}, !.bytes = 0] \in BatchStates
    BY <2>1 DEF BatchStates
  <2> QED BY <2>2 DEF closed
<1> HIDE DEF start, bytes
<1>3. grown \in BatchStates
  <2> DEFINE open  == start.open \union {path}
             total == start.bytes + bytes
  <2>1. open \in SUBSET Paths /\ total \in Nat
    BY <1>1, <1>2 DEF BatchStates, bytes
  <2> HIDE DEF open, total
  <2>2. [start EXCEPT !.open = open, !.bytes = total] \in BatchStates
    BY <1>2, <2>1 DEF BatchStates
  <2> QED BY <2>2 DEF open, total
<1> HIDE DEF grown
<1>4. AddPath(writes, acc, path, cap) =
        IF grown.bytes >= PathCap
        THEN [closed |-> Append(grown.closed, grown.open), open |-> {}, bytes |-> 0] ELSE grown
  BY DEF AddPath, grown, start, bytes
<1> QED
  BY <1>3, <1>4 DEF BatchStates

LEMMA BatchedStep ==
  ASSUME NEW writes \in Seq(Write), NEW cap
  PROVE  /\ Batched(writes, cap, <<>>) = [closed |-> <<>>, open |-> {}, bytes |-> 0]
         /\ \A s \in Seq(Paths) : Batched(writes, cap, s) \in BatchStates
         /\ \A s \in Seq(Paths) : \A e \in Paths :
              Batched(writes, cap, Append(s, e)) = AddPath(writes, Batched(writes, cap, s), e, cap)
<1> DEFINE V == BatchStates
           B == [closed |-> <<>>, open |-> {}, bytes |-> 0]
           F == [e \in Paths |-> [v \in V |-> AddPath(writes, v, e, cap)]]
<1>1. B \in V /\ \A e \in Paths : \A v \in V : AddPath(writes, v, e, cap) \in V
  BY AddPathType DEF BatchStates
<1> HIDE DEF V
<1>2. Operation(F, Paths, V, B)
  BY <1>1 DEF Operation
<1>3. ASSUME NEW s \in Seq(Paths) PROVE Batched(writes, cap, s) = Left(F, B, s)
  <2> DEFINE Is(g) == g = [S \in SUBSET DOMAIN s |-> IF S = {} THEN B ELSE AddPath(writes, g[Rest(S)], s[Max(S)], cap)]
             h     == CHOOSE g : Is(g)
  <2>1. PICK g : FoldOf(g, F, V, B, s)
    <3> HIDE DEF F
    <3> QED BY <1>2, FoldExists
  <2>2. ASSUME NEW S \in SUBSET DOMAIN s, S # {}
        PROVE  g[S] = F[s[Max(S)]][g[Rest(S)]] /\ s[Max(S)] \in Paths /\ g[Rest(S)] \in V
    <3> HIDE DEF F
    <3> QED BY <2>1, <2>2, MaxPosition DEF FoldOf
  <2>3. ASSUME NEW S \in SUBSET DOMAIN s, S # {} PROVE g[S] = AddPath(writes, g[Rest(S)], s[Max(S)], cap)
    BY <2>2, <2>3
  <2>4. Is(g)
    <3> HIDE DEF F
    <3> QED BY <2>1, <2>3 DEF FoldOf
  <2>5. Is(h)
    BY <2>4, Zenon
  <2>6. Batched(writes, cap, s) = h[DOMAIN s]
    BY Zenon DEF Batched, FoldLeft, MapThenFoldSet, Rest
  <2> HIDE DEF h
  <2>7. h[{}] = B
    BY <2>5
  <2>8. ASSUME NEW n \in 1 .. Len(s), h[1 .. n - 1] \in V
        PROVE  h[1 .. n] = F[s[n]][h[1 .. n - 1]]
    <3>1. (1 .. n) \in SUBSET DOMAIN s /\ s[n] \in Paths
      OBVIOUS
    <3>2. Max(1 .. n) = n /\ Rest(1 .. n) = 1 .. n - 1 /\ 1 .. n # {}
      BY MaxPrefix
    <3> QED BY <2>5, <2>8, <3>1, <3>2
  <2> HIDE DEF F
  <2> QED BY <1>2, <2>6, <2>7, <2>8, Steps
<1>4. ASSUME NEW s \in Seq(Paths), NEW e \in Paths PROVE Left(F, B, Append(s, e)) = AddPath(writes, Left(F, B, s), e, cap)
  <2>1. Left(F, B, s) \in V /\ Left(F, B, Append(s, e)) = F[e][Left(F, B, s)]
    <3> HIDE DEF F
    <3> QED BY <1>2, LeftStep
  <2> DEFINE v == Left(F, B, s)
  <2>2. v \in V
    BY <2>1
  <2> HIDE DEF v
  <2>3. F[e][v] = AddPath(writes, v, e, cap)
    BY <2>2
  <2> QED BY <2>1, <2>3 DEF v
<1> HIDE DEF F
<1>5. Left(F, B, <<>>) = B /\ \A s \in Seq(Paths) : Left(F, B, s) \in V
  BY <1>2, LeftStep
<1>6. ASSUME NEW s \in Seq(Paths), NEW e \in Paths PROVE Batched(writes, cap, Append(s, e)) = Left(F, B, Append(s, e))
  <2> DEFINE t == Append(s, e)
  <2>1. t \in Seq(Paths)
    OBVIOUS
  <2> HIDE DEF t
  <2>2. Batched(writes, cap, t) = Left(F, B, t)
    BY <1>3, <2>1
  <2> QED BY <2>2 DEF t
<1>7. Batched(writes, cap, <<>>) = Left(F, B, <<>>)
  <2>1. <<>> \in Seq(Paths)
    OBVIOUS
  <2> QED BY <1>3, <2>1
<1> QED
  BY <1>3, <1>4, <1>5, <1>6, <1>7 DEF V

IsReading(v, E) == v \in Readings(E)

Reads(P, start, s, e) == Rereads(P, start, Append(s, e)) = RereadEntry(P, Rereads(P, start, s), e)

LEMMA RereadsStep ==
  ASSUME NEW E, IsEntries(E), NEW P, NEW start, IsReading(start, E)
  PROVE  /\ Rereads(P, start, <<>>) = start
         /\ \A s \in Seq(E) : Rereads(P, start, s) \in Readings(E)
         /\ \A s \in Seq(E) : \A e \in E : Reads(P, start, s, e)
<1> DEFINE V == Readings(E)
           B == start
           F == [e \in E |-> [v \in V |-> RereadEntry(P, v, e)]]
<1>0. B \in V
  BY DEF IsReading
<1>1. B \in V /\ \A e \in E : \A v \in V : RereadEntry(P, v, e) \in V
  <2>1. ASSUME NEW e \in E, NEW v \in Readings(E) PROVE RereadEntry(P, v, e) \in Readings(E)
    <3>1. e.path \in Paths /\ e.size \in Nat
      BY DEF IsEntries
    <3> DEFINE total == v.total + e.size
               blobs == Append(v.blobs, e)
    <3>2. total \in Nat /\ blobs \in Seq(E)
      BY <3>1 DEF Readings
    <3> HIDE DEF total, blobs
    <3>3. [v EXCEPT !.total = total, !.blobs = blobs] \in Readings(E)
      BY <3>2 DEF Readings
    <3>4. [v EXCEPT !.open = FALSE] \in Readings(E)
      BY DEF Readings
    <3> QED BY <3>3, <3>4 DEF RereadEntry, total, blobs
  <2> QED BY <1>0, <2>1
<1> HIDE DEF V
<1>2. Operation(F, E, V, B)
  BY <1>1 DEF Operation
<1>3. ASSUME NEW s \in Seq(E) PROVE Rereads(P, start, s) = Left(F, B, s)
  <2> DEFINE Is(g) == g = [S \in SUBSET DOMAIN s |-> IF S = {} THEN B ELSE RereadEntry(P, g[Rest(S)], s[Max(S)])]
             h     == CHOOSE g : Is(g)
  <2>1. PICK g : FoldOf(g, F, V, B, s)
    <3> HIDE DEF F
    <3> QED BY <1>2, FoldExists
  <2>2. ASSUME NEW S \in SUBSET DOMAIN s, S # {}
        PROVE  g[S] = F[s[Max(S)]][g[Rest(S)]] /\ s[Max(S)] \in E /\ g[Rest(S)] \in V
    <3> HIDE DEF F
    <3> QED BY <2>1, <2>2, MaxPosition DEF FoldOf
  <2>3. ASSUME NEW S \in SUBSET DOMAIN s, S # {} PROVE g[S] = RereadEntry(P, g[Rest(S)], s[Max(S)])
    BY <2>2, <2>3
  <2>4. Is(g)
    <3> HIDE DEF F
    <3> QED BY <2>1, <2>3 DEF FoldOf
  <2>5. Is(h)
    BY <2>4, Zenon
  <2>6. Rereads(P, start, s) = h[DOMAIN s]
    BY Zenon DEF Rereads, FoldLeft, MapThenFoldSet, Rest
  <2> HIDE DEF h
  <2>7. h[{}] = B
    BY <2>5
  <2>8. ASSUME NEW n \in 1 .. Len(s), h[1 .. n - 1] \in V
        PROVE  h[1 .. n] = F[s[n]][h[1 .. n - 1]]
    <3>1. (1 .. n) \in SUBSET DOMAIN s /\ s[n] \in E
      OBVIOUS
    <3>2. Max(1 .. n) = n /\ Rest(1 .. n) = 1 .. n - 1 /\ 1 .. n # {}
      BY MaxPrefix
    <3> QED BY <2>5, <2>8, <3>1, <3>2
  <2> HIDE DEF F
  <2> QED BY <1>2, <2>6, <2>7, <2>8, Steps
<1>4. ASSUME NEW s \in Seq(E), NEW e \in E PROVE Left(F, B, Append(s, e)) = RereadEntry(P, Left(F, B, s), e)
  <2>1. Left(F, B, s) \in V /\ Left(F, B, Append(s, e)) = F[e][Left(F, B, s)]
    <3> HIDE DEF F
    <3> QED BY <1>2, LeftStep
  <2> DEFINE v == Left(F, B, s)
  <2>2. v \in V
    BY <2>1
  <2> HIDE DEF v
  <2>3. F[e][v] = RereadEntry(P, v, e)
    BY <2>2
  <2> QED BY <2>1, <2>3 DEF v
<1> HIDE DEF F
<1>5. Left(F, B, <<>>) = B /\ \A s \in Seq(E) : Left(F, B, s) \in V
  BY <1>2, LeftStep
<1>6. ASSUME NEW s \in Seq(E), NEW e \in E PROVE Rereads(P, start, Append(s, e)) = Left(F, B, Append(s, e))
  <2> DEFINE t == Append(s, e)
  <2>1. t \in Seq(E)
    OBVIOUS
  <2> HIDE DEF t
  <2>2. Rereads(P, start, t) = Left(F, B, t)
    BY <1>3, <2>1
  <2> QED BY <2>2 DEF t
<1>7. Rereads(P, start, <<>>) = Left(F, B, <<>>)
  <2>1. <<>> \in Seq(E)
    OBVIOUS
  <2> QED BY <1>3, <2>1
<1> QED
  BY <1>3, <1>4, <1>5, <1>6, <1>7 DEF V, Reads

\* A directory whose archives have the entries E.
IsDir(dir, E) == IsEntries(E) /\ \A j \in Jars : dir[j] = Unreadable \/ dir[j] \in Seq(E)

\* Reading a jar again keeps the type of what is read.
LEMMA RereadJarType ==
  ASSUME NEW E, NEW dir, IsDir(dir, E), NEW P, NEW acc \in Readings(E), NEW j \in Jars
  PROVE  RereadJar(dir, P, acc, j) \in Readings(E)
<1>1. CASE acc.total >= PathCap \/ dir[j] = Unreadable
  BY <1>1 DEF RereadJar
<1>2. CASE ~(acc.total >= PathCap \/ dir[j] = Unreadable)
  <2> DEFINE start == [acc EXCEPT !.open = TRUE]
  <2>1. start \in Readings(E) /\ dir[j] \in Seq(E) /\ IsEntries(E)
    BY <1>2 DEF Readings, IsDir
  <2> HIDE DEF start
  <2>2. Rereads(P, start, dir[j]) \in Readings(E)
    <3>1. IsReading(start, E)
      BY <2>1 DEF IsReading
    <3> QED BY <2>1, <3>1, RereadsStep
  <2>3. RereadJar(dir, P, acc, j) = Rereads(P, start, dir[j])
    BY <1>2 DEF RereadJar, Rereads, start
  <2> QED BY <2>2, <2>3
<1> QED
  BY <1>1, <1>2

LEMMA RereadsAllStep ==
  ASSUME NEW E, NEW dir, IsDir(dir, E), NEW writes, NEW P
  PROVE  /\ RereadsAll(dir, writes, P, <<>>) = [blobs |-> <<>>, total |-> 0, open |-> TRUE]
         /\ \A s \in Seq(Jars) : RereadsAll(dir, writes, P, s) \in Readings(E)
         /\ \A s \in Seq(Jars) : \A e \in Jars :
              RereadsAll(dir, writes, P, Append(s, e)) = (IF e \in Writers(writes, P) THEN RereadJar(dir, P, RereadsAll(dir, writes, P, s), e) ELSE RereadsAll(dir, writes, P, s))
<1> DEFINE V == Readings(E)
           B == [blobs |-> <<>>, total |-> 0, open |-> TRUE]
           F == [e \in Jars |-> [v \in V |-> (IF e \in Writers(writes, P) THEN RereadJar(dir, P, v, e) ELSE v)]]
<1>1. B \in V /\ \A e \in Jars : \A v \in V : (IF e \in Writers(writes, P) THEN RereadJar(dir, P, v, e) ELSE v) \in V
  BY RereadJarType DEF Readings
<1> HIDE DEF V
<1>2. Operation(F, Jars, V, B)
  BY <1>1 DEF Operation
<1>3. ASSUME NEW s \in Seq(Jars) PROVE RereadsAll(dir, writes, P, s) = Left(F, B, s)
  <2> DEFINE Is(g) == g = [S \in SUBSET DOMAIN s |-> IF S = {} THEN B ELSE (IF s[Max(S)] \in Writers(writes, P) THEN RereadJar(dir, P, g[Rest(S)], s[Max(S)]) ELSE g[Rest(S)])]
             h     == CHOOSE g : Is(g)
  <2>1. PICK g : FoldOf(g, F, V, B, s)
    <3> HIDE DEF F
    <3> QED BY <1>2, FoldExists
  <2>2. ASSUME NEW S \in SUBSET DOMAIN s, S # {}
        PROVE  g[S] = F[s[Max(S)]][g[Rest(S)]] /\ s[Max(S)] \in Jars /\ g[Rest(S)] \in V
    <3> HIDE DEF F
    <3> QED BY <2>1, <2>2, MaxPosition DEF FoldOf
  <2>3. ASSUME NEW S \in SUBSET DOMAIN s, S # {} PROVE g[S] = (IF s[Max(S)] \in Writers(writes, P) THEN RereadJar(dir, P, g[Rest(S)], s[Max(S)]) ELSE g[Rest(S)])
    BY <2>2, <2>3
  <2>4. Is(g)
    <3> HIDE DEF F
    <3> QED BY <2>1, <2>3 DEF FoldOf
  <2>5. Is(h)
    BY <2>4, Zenon
  <2>6. RereadsAll(dir, writes, P, s) = h[DOMAIN s]
    BY Zenon DEF RereadsAll, FoldLeft, MapThenFoldSet, Rest
  <2> HIDE DEF h
  <2>7. h[{}] = B
    BY <2>5
  <2>8. ASSUME NEW n \in 1 .. Len(s), h[1 .. n - 1] \in V
        PROVE  h[1 .. n] = F[s[n]][h[1 .. n - 1]]
    <3>1. (1 .. n) \in SUBSET DOMAIN s /\ s[n] \in Jars
      OBVIOUS
    <3>2. Max(1 .. n) = n /\ Rest(1 .. n) = 1 .. n - 1 /\ 1 .. n # {}
      BY MaxPrefix
    <3> QED BY <2>5, <2>8, <3>1, <3>2
  <2> HIDE DEF F
  <2> QED BY <1>2, <2>6, <2>7, <2>8, Steps
<1>4. ASSUME NEW s \in Seq(Jars), NEW e \in Jars PROVE Left(F, B, Append(s, e)) = (IF e \in Writers(writes, P) THEN RereadJar(dir, P, Left(F, B, s), e) ELSE Left(F, B, s))
  <2>1. Left(F, B, s) \in V /\ Left(F, B, Append(s, e)) = F[e][Left(F, B, s)]
    <3> HIDE DEF F
    <3> QED BY <1>2, LeftStep
  <2> DEFINE v == Left(F, B, s)
  <2>2. v \in V
    BY <2>1
  <2> HIDE DEF v
  <2>3. F[e][v] = (IF e \in Writers(writes, P) THEN RereadJar(dir, P, v, e) ELSE v)
    BY <2>2
  <2> QED BY <2>1, <2>3 DEF v
<1> HIDE DEF F
<1>5. Left(F, B, <<>>) = B /\ \A s \in Seq(Jars) : Left(F, B, s) \in V
  BY <1>2, LeftStep
<1>6. ASSUME NEW s \in Seq(Jars), NEW e \in Jars PROVE RereadsAll(dir, writes, P, Append(s, e)) = Left(F, B, Append(s, e))
  <2> DEFINE t == Append(s, e)
  <2>1. t \in Seq(Jars)
    OBVIOUS
  <2> HIDE DEF t
  <2>2. RereadsAll(dir, writes, P, t) = Left(F, B, t)
    BY <1>3, <2>1
  <2> QED BY <2>2 DEF t
<1>7. RereadsAll(dir, writes, P, <<>>) = Left(F, B, <<>>)
  <2>1. <<>> \in Seq(Jars)
    OBVIOUS
  <2> QED BY <1>3, <2>1
<1> QED
  BY <1>3, <1>4, <1>5, <1>6, <1>7 DEF V

-----------------------------------------------------------------------------
(* The order of jars and of paths.                                          *)

Increasing(s, rank, n) == \A i, k \in 1 .. n : i < k => rank[s[i]] < rank[s[k]]

\* The members of a finite set can be put in the order of their ranks.
LEMMA OrderExists ==
  ASSUME NEW S, IsFiniteSet(S), NEW rank, \A x \in S : rank[x] \in Nat,
         \A x, y \in S : rank[x] = rank[y] => x = y
  PROVE  \E s \in [1 .. Cardinality(S) -> S] : Increasing(s, rank, Cardinality(S))
<1> DEFINE Sorts(T, n) == \E s \in [1 .. n -> T] : Increasing(s, rank, n)
           Good == {n \in Nat : \A T \in SUBSET S : Cardinality(T) = n => Sorts(T, n)}
<1>1. \A T \in SUBSET S : IsFiniteSet(T) /\ Cardinality(T) \in Nat
  BY FS_Subset, FS_CardinalityType
<1>2. 0 \in Good
  <2>1. ASSUME NEW T PROVE Sorts(T, 0)
    <3>1. <<>> \in [1 .. 0 -> T]
      OBVIOUS
    <3>2. Increasing(<<>>, rank, 0)
      BY DEF Increasing
    <3> QED BY <3>1, <3>2
  <2> HIDE DEF Sorts
  <2> QED BY <2>1
<1>3. ASSUME NEW n \in Nat \ {0}, n - 1 \in Good PROVE n \in Good
  <2> SUFFICES ASSUME NEW T \in SUBSET S, Cardinality(T) = n PROVE Sorts(T, n)
    <3> HIDE DEF Sorts
    <3> QED OBVIOUS
  <2> DEFINE R == {rank[x] : x \in T}
  <2>1. T # {}
    BY <1>1, FS_EmptySet
  <2>2. PICK r \in R : \A q \in R : r <= q
    <3>1. R \in SUBSET Nat /\ R # {}
      BY <2>1
    <3> HIDE DEF R
    <3> QED BY <3>1, Least
  <2>3. PICK x \in T : rank[x] = r
    BY <2>2
  <2>4. ASSUME NEW y \in T \ {x} PROVE rank[x] < rank[y]
    <3>1. r <= rank[y]
      BY <2>2
    <3>2. rank[x] # rank[y] /\ rank[x] \in Nat /\ rank[y] \in Nat
      OBVIOUS
    <3> QED BY <2>3, <3>1, <3>2
  <2>5. Cardinality(T \ {x}) = n - 1 /\ T \ {x} \in SUBSET S
    BY <1>1, <2>3, FS_RemoveElement
  <2>6. Sorts(T \ {x}, n - 1)
    <3> HIDE DEF Sorts
    <3> QED BY <1>3, <2>5
  <2>7. PICK s \in [1 .. n - 1 -> T \ {x}] : Increasing(s, rank, n - 1)
    BY <2>6
  <2> DEFINE t == [i \in 1 .. n |-> IF i = 1 THEN x ELSE s[i - 1]]
  <2>8. \A i \in 1 .. n : i # 1 => s[i - 1] \in T \ {x}
    OBVIOUS
  <2>9. t \in [1 .. n -> T]
    BY <2>3, <2>8
  <2>10. ASSUME NEW i \in 1 .. n, NEW k \in 1 .. n, i < k PROVE rank[t[i]] < rank[t[k]]
    <3>1. t[k] = s[k - 1] /\ s[k - 1] \in T \ {x}
      BY <2>8, <2>10
    <3>2. CASE i = 1
      BY <2>4, <3>1, <3>2
    <3>3. CASE i # 1
      <4>1. i - 1 \in 1 .. n - 1 /\ k - 1 \in 1 .. n - 1 /\ i - 1 < k - 1
        BY <2>10, <3>3
      <4>2. rank[s[i - 1]] < rank[s[k - 1]]
        BY <2>7, <4>1 DEF Increasing
      <4> QED BY <3>1, <3>3, <4>2
    <3> QED BY <3>2, <3>3
  <2> HIDE DEF t
  <2>11. Increasing(t, rank, n)
    BY <2>10 DEF Increasing
  <2> QED BY <2>9, <2>11
<1>4. Cardinality(S) \in Good
  <2> HIDE DEF Good
  <2>1. Cardinality(S) \in Nat
    BY FS_CardinalityType
  <2>2. \A m \in 0 .. Cardinality(S) : m \in Good
    BY <1>2, <1>3, <2>1, Counting
  <2> QED BY <2>1, <2>2
<1> QED
  BY <1>4

\* InOrder lists every member once.
LEMMA InOrderLists ==
  ASSUME NEW S, IsFiniteSet(S), NEW rank, \A x \in S : rank[x] \in Nat,
         \A x, y \in S : rank[x] = rank[y] => x = y
  PROVE  /\ InOrder(S, rank) \in Seq(S)
         /\ IsInjective(InOrder(S, rank))
         /\ \A x \in S : \E i \in DOMAIN InOrder(S, rank) : InOrder(S, rank)[i] = x
<1> DEFINE n == Cardinality(S)
           Is(s) == s \in [1 .. n -> S] /\ Increasing(s, rank, n)
           o == CHOOSE s \in [1 .. n -> S] : Increasing(s, rank, n)
<1>1. n \in Nat
  BY FS_CardinalityType
<1>2. \E s : Is(s)
  BY OrderExists
<1>3. Is(o)
  BY <1>2, Zenon
<1>4. InOrder(S, rank) = o
  BY DEF InOrder, Increasing
<1> HIDE DEF o, n
<1>5. o \in Seq(S) /\ DOMAIN o = 1 .. n
  BY <1>1, <1>3
<1>6. IsInjective(o)
  <2>1. ASSUME NEW i \in 1 .. n, NEW k \in 1 .. n, o[i] = o[k] PROVE i = k
    <3>1. rank[o[i]] \in Nat /\ ~(rank[o[i]] < rank[o[k]]) /\ ~(rank[o[k]] < rank[o[i]])
      BY <1>3, <2>1
    <3> QED BY <1>1, <1>3, <3>1 DEF Increasing
  <2> QED BY <1>5, <2>1 DEF IsInjective
<1>7. \A x \in S : \E i \in 1 .. n : o[i] = x
  <2>1. o \in Injection(1 .. n, S)
    BY <1>3, <1>6 DEF Injection
  <2>2. Cardinality(1 .. n) = Cardinality(S)
    BY <1>1, FS_Interval DEF n
  <2>3. o \in Surjection(1 .. n, S)
    BY <2>1, <2>2, FS_Injection
  <2> QED BY <2>3 DEF Surjection
<1> QED
  BY <1>4, <1>5, <1>6, <1>7

LEMMA Jar == /\ JarOrder \in Seq(Jars) /\ IsInjective(JarOrder)
             /\ \A j \in Jars : \E i \in DOMAIN JarOrder : JarOrder[i] = j
<1> DEFINE rank == [j \in Jars |-> j]
<1>1. \A j \in Jars : rank[j] \in Nat /\ rank[j] = j
  BY OverlayAssumption
<1>2. IsFiniteSet(Jars)
  BY OverlayAssumption
<1> HIDE DEF rank
<1>3. /\ InOrder(Jars, rank) \in Seq(Jars) /\ IsInjective(InOrder(Jars, rank))
      /\ \A j \in Jars : \E i \in DOMAIN InOrder(Jars, rank) : InOrder(Jars, rank)[i] = j
  BY <1>1, <1>2, InOrderLists
<1> QED
  BY <1>3 DEF JarOrder, rank

LEMMA Name ==
  ASSUME NEW S \in SUBSET Paths
  PROVE  /\ ByName(S) \in Seq(S) /\ IsInjective(ByName(S))
         /\ \A p \in S : \E i \in DOMAIN ByName(S) : ByName(S)[i] = p
<1>1. IsFiniteSet(S)
  BY OverlayAssumption, FS_Subset
<1>2. \A p \in S : p \in DOMAIN Rank /\ Rank[p] \in Nat
  BY NameAssumption
<1>3. \A p, q \in S : Rank[p] = Rank[q] => p = q
  BY <1>2, NameAssumption DEF IsInjective
<1> QED
  BY <1>1, <1>2, <1>3, InOrderLists DEF ByName

-----------------------------------------------------------------------------
(* What is kept of a sequence, and its size.                                *)

Members(s) == {s[i] : i \in DOMAIN s}

LEMMA MembersAppend ==
  ASSUME NEW E, NEW s \in Seq(E), NEW e \in E
  PROVE  Members(Append(s, e)) = Members(s) \union {e}
<1> DEFINE t == Append(s, e)
<1>1. /\ DOMAIN t = DOMAIN s \union {Len(s) + 1} /\ t[Len(s) + 1] = e
      /\ \A i \in DOMAIN s : t[i] = s[i]
  OBVIOUS
<1> HIDE DEF t
<1>2. ASSUME NEW x \in Members(t) PROVE x \in Members(s) \union {e}
  <2>1. PICK i \in DOMAIN t : x = t[i]
    BY DEF Members
  <2> QED BY <1>1, <2>1 DEF Members
<1>3. ASSUME NEW x \in Members(s) \union {e} PROVE x \in Members(t)
  <2>1. e \in Members(t)
    BY <1>1 DEF Members
  <2>2. \A i \in DOMAIN s : s[i] \in Members(t)
    BY <1>1 DEF Members
  <2> QED BY <2>1, <2>2 DEF Members
<1> QED
  BY <1>2, <1>3 DEF t

LEMMA MembersEmpty == Members(<<>>) = {}
  BY DEF Members

LEMMA SizeIsNat ==
  ASSUME NEW E, IsEntries(E)
  PROVE  Size(<<>>) = 0 /\ \A s \in Seq(E) : Size(s) \in Nat /\ \A e \in E : Size(Append(s, e)) = Size(s) + e.size
  BY SizeStep DEF IsEntries

\* Sizes add up.
LEMMA SizeConcat ==
  ASSUME NEW E, IsEntries(E), NEW s \in Seq(E)
  PROVE  \A t \in Seq(E) : Size(s \o t) = Size(s) + Size(t)
<1> DEFINE Good == {t \in Seq(E) : Size(s \o t) = Size(s) + Size(t)}
<1>1. <<>> \in Good
  <2>1. s \o <<>> = s /\ <<>> \in Seq(E)
    OBVIOUS
  <2>2. Size(s) \in Nat /\ Size(<<>>) = 0
    BY SizeIsNat
  <2> QED BY <2>1, <2>2
<1>2. ASSUME NEW t \in Seq(E), t \in Good, NEW e \in E PROVE Append(t, e) \in Good
  <2>1. s \o Append(t, e) = Append(s \o t, e) /\ s \o t \in Seq(E) /\ Append(t, e) \in Seq(E)
    OBVIOUS
  <2>2. Size(s \o Append(t, e)) = Size(s \o t) + e.size
    <3> DEFINE u == s \o t
    <3>1. u \in Seq(E)
      OBVIOUS
    <3> HIDE DEF u
    <3>2. Size(Append(u, e)) = Size(u) + e.size
      BY <3>1, SizeIsNat
    <3> QED BY <2>1, <3>2 DEF u
  <2>3. Size(Append(t, e)) = Size(t) + e.size
    BY SizeIsNat
  <2>4. Size(s) \in Nat /\ Size(t) \in Nat /\ e.size \in Nat
    BY SizeIsNat DEF IsEntries
  <2>5. Size(s \o t) = Size(s) + Size(t)
    BY <1>2
  <2>6. Size(s \o Append(t, e)) = Size(s) + Size(Append(t, e))
    BY <2>2, <2>3, <2>4, <2>5
  <2> QED BY <2>1, <2>6
<1> HIDE DEF Good
<1>3. \A t \in Seq(E) : t \in Good
  BY <1>1, <1>2, SeqInduction
<1> QED
  BY <1>3 DEF Good

\* What is kept of a sequence and of one that follows it.
LEMMA OfConcat ==
  ASSUME NEW E, IsEntries(E), NEW P, NEW s \in Seq(E)
  PROVE  \A t \in Seq(E) : /\ Len(Of(s \o t, P)) = Len(Of(s, P)) + Len(Of(t, P))
                           /\ Size(Of(s \o t, P)) = Size(Of(s, P)) + Size(Of(t, P))
<1> DEFINE Good == {t \in Seq(E) : /\ Len(Of(s \o t, P)) = Len(Of(s, P)) + Len(Of(t, P))
                                  /\ Size(Of(s \o t, P)) = Size(Of(s, P)) + Size(Of(t, P))}
<1>1. Of(s, P) \in Seq(E) /\ Len(Of(s, P)) \in Nat /\ Size(Of(s, P)) \in Nat
  <2>1. Of(s, P) \in Seq(E)
    BY OfStep
  <2> QED BY <2>1, SizeIsNat
<1>2. <<>> \in Good
  <2>1. s \o <<>> = s /\ <<>> \in Seq(E)
    OBVIOUS
  <2>2. Of(<<>>, P) = <<>> /\ Len(<<>>) = 0 /\ Size(<<>>) = 0
    BY OfStep, SizeIsNat
  <2> QED BY <1>1, <2>1, <2>2
<1>3. ASSUME NEW t \in Seq(E), t \in Good, NEW e \in E PROVE Append(t, e) \in Good
  <2> DEFINE u == s \o t
             v == Append(t, e)
  <2>1. s \o v = Append(u, e) /\ u \in Seq(E) /\ v \in Seq(E) /\ e.size \in Nat
    BY DEF IsEntries
  <2>2. ASSUME NEW x \in Seq(E)
        PROVE  /\ Len(Of(x, P)) \in Nat /\ Size(Of(x, P)) \in Nat
               /\ Len(Of(Append(x, e), P)) = Len(Of(x, P)) + IF Has(e, P) THEN 1 ELSE 0
               /\ Size(Of(Append(x, e), P)) = Size(Of(x, P)) + IF Has(e, P) THEN e.size ELSE 0
    <3>1. Of(x, P) \in Seq(E) /\ Of(Append(x, e), P) = IF Has(e, P) THEN Append(Of(x, P), e) ELSE Of(x, P)
      BY OfStep
    <3> DEFINE y == Of(x, P)
    <3> HIDE DEF y
    <3>2. y \in Seq(E)
      BY <3>1 DEF y
    <3>3. Size(y) \in Nat /\ Size(Append(y, e)) = Size(y) + e.size
      BY <3>2, SizeIsNat
    <3>4. Len(y) \in Nat /\ Len(Append(y, e)) = Len(y) + 1
      BY <3>2
    <3> QED BY <3>1, <3>3, <3>4 DEF y
  <2>3. /\ Len(Of(u, P)) = Len(Of(s, P)) + Len(Of(t, P))
        /\ Size(Of(u, P)) = Size(Of(s, P)) + Size(Of(t, P))
    BY <1>3
  <2>4. /\ Len(Of(v, P)) = Len(Of(t, P)) + IF Has(e, P) THEN 1 ELSE 0
        /\ Size(Of(v, P)) = Size(Of(t, P)) + IF Has(e, P) THEN e.size ELSE 0
        /\ Len(Of(t, P)) \in Nat /\ Size(Of(t, P)) \in Nat
    BY <2>2
  <2> HIDE DEF u, v
  <2>5. /\ Len(Of(s \o v, P)) = Len(Of(u, P)) + IF Has(e, P) THEN 1 ELSE 0
        /\ Size(Of(s \o v, P)) = Size(Of(u, P)) + IF Has(e, P) THEN e.size ELSE 0
    BY <2>1, <2>2
  <2>6. /\ Len(Of(s \o v, P)) = Len(Of(s, P)) + Len(Of(v, P))
        /\ Size(Of(s \o v, P)) = Size(Of(s, P)) + Size(Of(v, P))
    BY <1>1, <2>1, <2>3, <2>4, <2>5
  <2> QED BY <2>1, <2>6 DEF v
<1> HIDE DEF Good
<1>4. \A t \in Seq(E) : t \in Good
  BY <1>2, <1>3, SeqInduction
<1> QED
  BY <1>4 DEF Good

\* The bytes of disjoint sets of paths add up.
LEMMA OfUnion ==
  ASSUME NEW E, IsEntries(E), NEW P, NEW Q, P \intersect Q = {}
  PROVE  \A s \in Seq(E) : Size(Of(s, P \union Q)) = Size(Of(s, P)) + Size(Of(s, Q))
<1> DEFINE R == P \union Q
           Good == {s \in Seq(E) : Size(Of(s, R)) = Size(Of(s, P)) + Size(Of(s, Q))}
<1> HIDE DEF R
<1>1. <<>> \in Good
  <2>1. Of(<<>>, R) = <<>> /\ Of(<<>>, P) = <<>> /\ Of(<<>>, Q) = <<>>
    BY OfStep
  <2>2. Size(<<>>) = 0 /\ <<>> \in Seq(E)
    BY SizeIsNat
  <2> QED BY <2>1, <2>2
<1>2. ASSUME NEW s \in Seq(E), s \in Good, NEW e \in E PROVE Append(s, e) \in Good
  <2> DEFINE t == Append(s, e)
  <2>1. t \in Seq(E) /\ e.size \in Nat
    BY DEF IsEntries
  <2>2. ASSUME NEW T
        PROVE  Size(Of(s, T)) \in Nat /\ Size(Of(t, T)) = Size(Of(s, T)) + IF Has(e, T) THEN e.size ELSE 0
    <3>1. Of(s, T) \in Seq(E) /\ Of(t, T) = IF Has(e, T) THEN Append(Of(s, T), e) ELSE Of(s, T)
      BY OfStep
    <3> DEFINE u == Of(s, T)
    <3> HIDE DEF u, t
    <3>2. Size(u) \in Nat /\ Size(Append(u, e)) = Size(u) + e.size
      BY <3>1, SizeIsNat DEF u
    <3> QED BY <2>1, <3>1, <3>2 DEF u
  <2> HIDE DEF t
  <2>3. Size(Of(s, R)) = Size(Of(s, P)) + Size(Of(s, Q))
    BY <1>2
  <2>4. /\ Size(Of(t, R)) = Size(Of(s, R)) + IF Has(e, R) THEN e.size ELSE 0
        /\ Size(Of(t, P)) = Size(Of(s, P)) + IF Has(e, P) THEN e.size ELSE 0
        /\ Size(Of(t, Q)) = Size(Of(s, Q)) + IF Has(e, Q) THEN e.size ELSE 0
        /\ Size(Of(s, P)) \in Nat /\ Size(Of(s, Q)) \in Nat
    BY <2>2
  <2>5. (Has(e, R) <=> Has(e, P) \/ Has(e, Q)) /\ ~(Has(e, P) /\ Has(e, Q))
    BY DEF R, Has
  <2>6. Size(Of(t, R)) = Size(Of(t, P)) + Size(Of(t, Q))
    BY <2>1, <2>3, <2>4, <2>5
  <2> QED BY <2>1, <2>6 DEF t
<1> HIDE DEF Good
<1>3. \A s \in Seq(E) : s \in Good
  BY <1>1, <1>2, SeqInduction
<1> QED
  BY <1>3 DEF Good, R

\* What is kept is of the sequence, and of the paths.
LEMMA OfMembers ==
  ASSUME NEW E, NEW P
  PROVE  \A s \in Seq(E) : \A e \in Members(Of(s, P)) : e \in Members(s) /\ Has(e, P)
<1> DEFINE Good == {s \in Seq(E) : \A e \in Members(Of(s, P)) : e \in Members(s) /\ Has(e, P)}
<1>1. <<>> \in Good
  <2>1. Of(<<>>, P) = <<>> /\ <<>> \in Seq(E)
    BY OfStep
  <2> QED BY <2>1 DEF Members
<1>2. ASSUME NEW s \in Seq(E), s \in Good, NEW e \in E PROVE Append(s, e) \in Good
  <2> DEFINE a == Of(s, P)
             t == Append(s, e)
  <2>1. a \in Seq(E) /\ Of(t, P) = IF Has(e, P) THEN Append(a, e) ELSE a
    BY OfStep
  <2>2. t \in Seq(E) /\ Members(t) = Members(s) \union {e}
    BY MembersAppend
  <2>3. \A x \in Members(a) : x \in Members(s) /\ Has(x, P)
    BY <1>2
  <2> HIDE DEF a, t
  <2>4. Members(Append(a, e)) = Members(a) \union {e}
    BY <2>1, MembersAppend
  <2>5. \A x \in Members(Of(t, P)) : x \in Members(t) /\ Has(x, P)
    BY <2>1, <2>2, <2>3, <2>4
  <2> QED BY <2>2, <2>5 DEF t
<1> HIDE DEF Good
<1>3. \A s \in Seq(E) : s \in Good
  BY <1>1, <1>2, SeqInduction
<1> QED
  BY <1>3 DEF Good

\* The fitting entries of a path are among those of a set it is in; when none
\* is empty there are no more of them than bytes.
LEMMA FitsAmong ==
  ASSUME NEW E, IsEntries(E), NEW P, NEW p \in P
  PROVE  \A s \in Seq(E) :
           /\ Len(Fits(s, {p})) <= Len(Fits(s, P))
           /\ (\A e \in Members(Fits(s, {p})) : e.size # 0) => Len(Fits(s, {p})) <= Size(Fits(s, P))
<1> DEFINE Solid(s) == \A e \in Members(s) : e.size # 0
           Good == {s \in Seq(E) : /\ Len(Fits(s, {p})) <= Len(Fits(s, P))
                                   /\ Solid(Fits(s, {p})) => Len(Fits(s, {p})) <= Size(Fits(s, P))}
<1>1. <<>> \in Good
  <2>1. Fits(<<>>, {p}) = <<>> /\ Fits(<<>>, P) = <<>> /\ <<>> \in Seq(E)
    BY FitsStep
  <2>2. Size(<<>>) = 0 /\ Len(<<>>) = 0
    BY SizeIsNat
  <2> QED BY <2>1, <2>2
<1>2. ASSUME NEW s \in Seq(E), s \in Good, NEW e \in E PROVE Append(s, e) \in Good
  <2> DEFINE a == Fits(s, {p})
             b == Fits(s, P)
             t == Append(s, e)
  <2>1. /\ a \in Seq(E) /\ Fits(t, {p}) = IF Fit(e, {p}) THEN Append(a, e) ELSE a
        /\ b \in Seq(E) /\ Fits(t, P) = IF Fit(e, P) THEN Append(b, e) ELSE b
    BY FitsOne
  <2>2. t \in Seq(E) /\ e.size \in Nat
    BY DEF IsEntries
  <2>3. Len(a) <= Len(b) /\ (Solid(a) => Len(a) <= Size(b))
    BY <1>2
  <2> HIDE DEF a, b, t
  <2>4. Members(Append(a, e)) = Members(a) \union {e}
    BY <2>1, MembersAppend
  <2>5. Size(b) \in Nat /\ Size(Append(b, e)) = Size(b) + e.size
    BY <2>1, SizeIsNat
  <2>6. /\ Len(a) \in Nat /\ Len(Append(a, e)) = Len(a) + 1
        /\ Len(b) \in Nat /\ Len(Append(b, e)) = Len(b) + 1
    BY <2>1
  <2>7. CASE Fit(e, {p})
    <3>1. Fits(t, {p}) = Append(a, e) /\ Fits(t, P) = Append(b, e)
      BY <2>1, <2>7 DEF Fit
    <3>2. Solid(Append(a, e)) => Solid(a) /\ e.size # 0
      BY <2>4
    <3>3. Len(Append(a, e)) <= Len(Append(b, e)) /\ (Solid(Append(a, e)) => Len(Append(a, e)) <= Size(Append(b, e)))
      BY <2>2, <2>3, <2>5, <2>6, <3>2
    <3> HIDE DEF Solid
    <3>4. Len(Fits(t, {p})) <= Len(Fits(t, P)) /\ (Solid(Fits(t, {p})) => Len(Fits(t, {p})) <= Size(Fits(t, P)))
      BY <3>1, <3>3
    <3> QED BY <2>2, <3>4 DEF t
  <2>8. CASE ~Fit(e, {p})
    <3>1. Fits(t, {p}) = a /\ Fits(t, P) \in {b, Append(b, e)}
      BY <2>1, <2>8
    <3> HIDE DEF Solid
    <3>2. Len(a) <= Len(Fits(t, P)) /\ (Solid(a) => Len(a) <= Size(Fits(t, P)))
      <4>1. Len(b) <= Len(Fits(t, P)) /\ Size(b) <= Size(Fits(t, P)) /\ Len(Fits(t, P)) \in Nat /\ Size(Fits(t, P)) \in Nat
        <5>1. CASE Fits(t, P) = b
          BY <2>5, <2>6, <5>1
        <5>2. CASE Fits(t, P) = Append(b, e)
          <6>1. Len(Fits(t, P)) = Len(b) + 1 /\ Size(Fits(t, P)) = Size(b) + e.size
            BY <2>5, <2>6, <5>2
          <6> QED BY <2>2, <2>5, <2>6, <6>1
        <5> QED BY <3>1, <5>1, <5>2
      <4> QED BY <2>3, <2>5, <2>6, <4>1
    <3> QED BY <2>2, <3>1, <3>2 DEF t
  <2> QED BY <2>7, <2>8
<1> HIDE DEF Good
<1>3. \A s \in Seq(E) : s \in Good
  BY <1>1, <1>2, SeqInduction
<1> QED
  BY <1>3 DEF Good

-----------------------------------------------------------------------------
(* Pass 1 loses nothing of an archive that meets no limit.                  *)

Content(a) == IF a = Unreadable THEN <<>> ELSE a

\* As many, and as many bytes.
Alike(a, b) == Len(a) = Len(b) /\ Size(a) = Size(b)

\* What a scan has found, s read.
Found1(st, jar, P, s) ==
  /\ st.open /\ st.count <= Len(s) /\ st.total = Size(Fits(s, Paths))
  /\ Alike(Of(st.writes, P), Fits(s, P))
  /\ \A w \in Members(st.writes) : w.jar = jar

LEMMA WriteIsEntry == IsEntries(Write)
  BY DEF IsEntries, Write

\* An entry within the cap is found.
LEMMA ScanEntryFinds ==
  ASSUME NEW E, IsEntries(E), NEW P, NEW jar \in Jars, NEW s \in Seq(E), NEW e \in E, NEW st \in ScanStates,
         Found1(st, jar, P, s), Len(s) < EntryLimit, Size(Fits(s, Paths)) < TotalCap
  PROVE  Found1(ScanEntry(jar, st, e), jar, P, Append(s, e))
<1> DEFINE t == Append(s, e)
           w == [jar |-> jar, path |-> e.path, size |-> e.size]
           a == Of(st.writes, P)
           f == Fits(s, P)
           all == Fits(s, Paths)
<1>1. e.path \in Paths /\ e.size \in Nat /\ EntryCap \in Nat /\ TotalCap \in Nat /\ EntryLimit \in Nat
  BY OverlayAssumption DEF IsEntries
<1>2. /\ st.writes \in Seq(Write) /\ st.count \in Nat /\ st.total \in Nat /\ st.open
  BY DEF ScanStates, Found1
<1>3. Len(s) \in Nat /\ Len(t) = Len(s) + 1
  OBVIOUS
<1>4. /\ Size(all) \in Nat /\ Size(Append(all, e)) = Size(all) + e.size
      /\ Fits(t, Paths) = IF Fit(e, Paths) THEN Append(all, e) ELSE all
  <2>1. all \in Seq(E)
    BY FitsStep
  <2> HIDE DEF all
  <2>2. Size(all) \in Nat /\ Size(Append(all, e)) = Size(all) + e.size
    BY <2>1, SizeIsNat
  <2>3. Fits(t, Paths) = IF Fit(e, Paths) THEN Append(all, e) ELSE all
    BY FitsOne DEF all
  <2> QED BY <2>2, <2>3
<1>5. a \in Seq(Write) /\ f \in Seq(E)
  BY <1>2, OfStep, FitsStep
<1>6. Fits(t, P) = IF Fit(e, P) THEN Append(f, e) ELSE f
  BY FitsOne
<1>7. w \in Write /\ w.jar = jar /\ w.size = e.size /\ (Has(w, P) <=> e.path \in P)
  BY <1>1 DEF Write, Has
<1> DEFINE old == st.writes
<1>8. Of(Append(old, w), P) = IF Has(w, P) THEN Append(a, w) ELSE a
  <2> HIDE DEF w, old
  <2>1. w \in Write /\ old \in Seq(Write)
    BY <1>2, <1>7 DEF old
  <2>2. Of(Append(old, w), P) = IF Has(w, P) THEN Append(Of(old, P), w) ELSE Of(old, P)
    BY <2>1, OfStep
  <2> QED BY <2>2 DEF old
<1> HIDE DEF t, w, a, f, all
<1>9. st.count # EntryLimit /\ ~(st.total >= TotalCap)
  BY <1>1, <1>2, <1>3, <1>4 DEF Found1, all
<1>10. Len(a) = Len(f) /\ Size(a) = Size(f)
  BY DEF Found1, Alike, a, f
<1>11. CASE e.size > EntryCap
  <2> DEFINE u == [st EXCEPT !.count = @ + 1]
  <2>1. ScanEntry(jar, st, e) = u
    BY <1>2, <1>9, <1>11 DEF ScanEntry
  <2>2. u.open /\ u.count = st.count + 1 /\ u.total = st.total /\ u.writes = st.writes
    BY <1>2 DEF ScanStates
  <2> HIDE DEF u
  <2>3. Fits(t, P) = f /\ Fits(t, Paths) = all
    BY <1>1, <1>4, <1>6, <1>11 DEF Fit
  <2>4. u.count <= Len(t) /\ u.total = Size(Fits(t, Paths))
    BY <1>1, <1>2, <1>3, <1>4, <2>2, <2>3 DEF Found1, all
  <2> QED BY <1>10, <2>1, <2>2, <2>3, <2>4 DEF Found1, Alike, a, f, t
<1>12. CASE ~(e.size > EntryCap)
  <2> DEFINE ws == Append(st.writes, w)
             u  == [st EXCEPT !.count = @ + 1, !.total = @ + e.size, !.writes = ws]
  <2>1. ScanEntry(jar, st, e) = u
    BY <1>2, <1>9, <1>12 DEF ScanEntry, w
  <2>2. Members(ws) = Members(st.writes) \union {w}
    BY <1>2, <1>7, MembersAppend
  <2>3. Of(ws, P) = IF Has(w, P) THEN Append(a, w) ELSE a
    BY <1>8
  <2> HIDE DEF ws
  <2>4. u.open /\ u.count = st.count + 1 /\ u.total = st.total + e.size /\ u.writes = ws
    BY <1>2 DEF ScanStates
  <2> HIDE DEF u
  <2>5. u.count <= Len(t) /\ u.total = Size(Fits(t, Paths))
    <3>1. Fit(e, Paths)
      BY <1>1, <1>12 DEF Fit
    <3> QED BY <1>1, <1>2, <1>3, <1>4, <2>4, <3>1 DEF Found1, all
  <2>6. /\ Len(Append(a, w)) = Len(a) + 1 /\ Size(Append(a, w)) = Size(a) + w.size
        /\ Len(Append(f, e)) = Len(f) + 1 /\ Size(Append(f, e)) = Size(f) + e.size
    BY <1>5, <1>7, SizeIsNat, WriteIsEntry
  <2>7. Len(Of(ws, P)) = Len(Fits(t, P)) /\ Size(Of(ws, P)) = Size(Fits(t, P))
    <3>1. CASE e.path \in P
      BY <1>1, <1>6, <1>7, <1>10, <1>12, <2>3, <2>6, <3>1 DEF Fit
    <3>2. CASE e.path \notin P
      BY <1>6, <1>7, <1>10, <2>3, <3>2 DEF Fit
    <3> QED BY <3>1, <3>2
  <2>8. \A x \in Members(ws) : x.jar = jar
    BY <1>7, <2>2 DEF Found1
  <2> QED BY <2>1, <2>4, <2>5, <2>7, <2>8 DEF Found1, Alike, t
<1> QED
  BY <1>11, <1>12

\* The scan of an archive finds what fits.
LEMMA ScanFinds ==
  ASSUME NEW E, IsEntries(E), NEW P, NEW jar \in Jars, NEW s \in Seq(E), Len(s) <= EntryLimit, Size(Fits(s, Paths)) < TotalCap
  PROVE  Found1(Scans(jar, s), jar, P, s)
<1> DEFINE Good == {t \in Seq(E) : Len(t) <= EntryLimit /\ Size(Fits(t, Paths)) < TotalCap => Found1(Scans(jar, t), jar, P, t)}
<1>1. EntryLimit \in Nat /\ TotalCap \in Nat
  BY OverlayAssumption
<1>2. <<>> \in Good
  <2>1. Scans(jar, <<>>) = [writes |-> <<>>, count |-> 0, total |-> 0, open |-> TRUE]
    BY ScansStep
  <2>2. Of(<<>>, P) = <<>> /\ Fits(<<>>, P) = <<>> /\ Fits(<<>>, Paths) = <<>> /\ Members(<<>>) = {}
    BY OfStep, FitsStep, MembersEmpty
  <2>3. Size(<<>>) = 0 /\ Len(<<>>) = 0
    BY SizeIsNat
  <2> DEFINE st == Scans(jar, <<>>)
  <2>4. st.open /\ st.count = 0 /\ st.total = 0 /\ st.writes = <<>>
    BY <2>1
  <2> HIDE DEF st
  <2>5. Found1(st, jar, P, <<>>)
    BY <2>2, <2>3, <2>4 DEF Found1, Alike
  <2>6. <<>> \in Seq(E)
    OBVIOUS
  <2> QED BY <2>5, <2>6 DEF st
<1>3. ASSUME NEW t \in Seq(E), t \in Good, NEW e \in E PROVE Append(t, e) \in Good
  <2> DEFINE u == Append(t, e)
  <2>1. u \in Seq(E) /\ Len(u) = Len(t) + 1 /\ Len(t) \in Nat
    OBVIOUS
  <2>2. /\ Size(Fits(t, Paths)) \in Nat /\ Size(Fits(u, Paths)) \in Nat
        /\ Size(Fits(t, Paths)) <= Size(Fits(u, Paths))
    <3> DEFINE a == Fits(t, Paths)
    <3>1. a \in Seq(E) /\ Fits(u, Paths) = IF Fit(e, Paths) THEN Append(a, e) ELSE a
      BY FitsStep
    <3> HIDE DEF a
    <3>2. Size(a) \in Nat /\ e.size \in Nat /\ Size(Append(a, e)) = Size(a) + e.size
      BY <3>1, SizeIsNat DEF IsEntries
    <3> QED BY <3>1, <3>2 DEF a, u
  <2>3. Scans(jar, u) = ScanEntry(jar, Scans(jar, t), e) /\ Scans(jar, t) \in ScanStates
    BY ScansStep
  <2>4. Len(t) <= EntryLimit /\ Size(Fits(t, Paths)) < TotalCap => Found1(Scans(jar, t), jar, P, t)
    BY <1>3
  <2>5. \A st \in ScanStates : Found1(st, jar, P, t) /\ Len(t) < EntryLimit /\ Size(Fits(t, Paths)) < TotalCap
                                 => Found1(ScanEntry(jar, st, e), jar, P, u)
    BY ScanEntryFinds
  <2> HIDE DEF u
  <2>6. Len(u) <= EntryLimit /\ Size(Fits(u, Paths)) < TotalCap => Found1(Scans(jar, u), jar, P, u)
    BY <1>1, <2>1, <2>2, <2>3, <2>4, <2>5
  <2> QED BY <2>1, <2>6 DEF u
<1> HIDE DEF Good
<1>4. \A t \in Seq(E) : t \in Good
  BY <1>2, <1>3, SeqInduction
<1> QED
  BY <1>4 DEF Good

-----------------------------------------------------------------------------
(* The writes of all jars.                                                  *)

LEMMA JoinsOne ==
  ASSUME NEW W, NEW parts \in [Jars -> Seq(W)], NEW s \in Seq(Jars), NEW j \in Jars
  PROVE  /\ Joins(parts, s) \in Seq(W) /\ parts[j] \in Seq(W)
         /\ Joins(parts, Append(s, j)) = Joins(parts, s) \o parts[j]
  BY JoinsStep

LEMMA MembersConcat ==
  ASSUME NEW E, NEW s \in Seq(E), NEW t \in Seq(E)
  PROVE  Members(s \o t) = Members(s) \union Members(t)
<1> DEFINE u == s \o t
<1>1. /\ Len(s) \in Nat /\ Len(t) \in Nat /\ Len(u) = Len(s) + Len(t)
      /\ DOMAIN s = 1 .. Len(s) /\ DOMAIN t = 1 .. Len(t) /\ DOMAIN u = 1 .. Len(u)
      /\ \A i \in 1 .. Len(s) : u[i] = s[i]
      /\ \A i \in 1 .. Len(t) : u[Len(s) + i] = t[i]
  OBVIOUS
<1> HIDE DEF u
<1>2. ASSUME NEW x \in Members(u) PROVE x \in Members(s) \union Members(t)
  <2>1. PICK i \in DOMAIN u : x = u[i]
    BY DEF Members
  <2>2. CASE i \in 1 .. Len(s)
    BY <1>1, <2>1, <2>2 DEF Members
  <2>3. CASE i \notin 1 .. Len(s)
    <3>1. i - Len(s) \in 1 .. Len(t) /\ i = Len(s) + (i - Len(s))
      BY <1>1, <2>3
    <3>2. x = t[i - Len(s)]
      BY <1>1, <2>1, <3>1
    <3> QED BY <1>1, <3>1, <3>2 DEF Members
  <2> QED BY <2>2, <2>3
<1>3. ASSUME NEW i \in DOMAIN s PROVE s[i] \in Members(u)
  <2>1. i \in DOMAIN u /\ u[i] = s[i]
    BY <1>1
  <2> QED BY <2>1 DEF Members
<1>4. ASSUME NEW i \in DOMAIN t PROVE t[i] \in Members(u)
  <2>1. Len(s) + i \in DOMAIN u /\ u[Len(s) + i] = t[i]
    BY <1>1
  <2> QED BY <2>1 DEF Members
<1>5. Members(s) \union Members(t) \subseteq Members(u)
  BY <1>3, <1>4 DEF Members
<1> QED
  BY <1>2, <1>5 DEF u

\* What the join of some parts has is in one of them.
LEMMA JoinsMembers ==
  ASSUME NEW W, NEW parts \in [Jars -> Seq(W)]
  PROVE  \A s \in Seq(Jars) : Members(Joins(parts, s)) = UNION {Members(parts[j]) : j \in Members(s)}
<1> DEFINE All(s) == UNION {Members(parts[j]) : j \in Members(s)}
           Good == {s \in Seq(Jars) : Members(Joins(parts, s)) = All(s)}
<1>1. <<>> \in Good
  <2>1. Joins(parts, <<>>) = <<>> /\ <<>> \in Seq(Jars)
    BY JoinsStep
  <2> QED BY <2>1, MembersEmpty
<1>2. ASSUME NEW s \in Seq(Jars), s \in Good, NEW j \in Jars PROVE Append(s, j) \in Good
  <2> DEFINE t == Append(s, j)
             a == Joins(parts, s)
             b == parts[j]
  <2>1. a \in Seq(W) /\ b \in Seq(W) /\ Joins(parts, t) = a \o b
    BY JoinsOne
  <2>2. t \in Seq(Jars) /\ Members(t) = Members(s) \union {j}
    BY MembersAppend
  <2>3. Members(a) = All(s)
    BY <1>2
  <2> HIDE DEF t, a
  <2>4. Members(Joins(parts, t)) = Members(a) \union Members(b)
    <3> HIDE DEF b
    <3> QED BY <2>1, MembersConcat
  <2>5. All(t) = All(s) \union Members(b)
    BY <2>2
  <2>6. Members(Joins(parts, t)) = All(t)
    BY <2>3, <2>4, <2>5
  <2> QED BY <2>2, <2>6 DEF t
<1> HIDE DEF Good
<1>3. \A s \in Seq(Jars) : s \in Good
  BY <1>1, <1>2, SeqInduction
<1> QED
  BY <1>3 DEF Good

\* Parts that are alike make joins that are.
LEMMA JoinsAlike ==
  ASSUME NEW E, IsEntries(E), NEW P, NEW ws \in [Jars -> Seq(Write)], NEW fs \in [Jars -> Seq(E)],
         \A j \in Jars : Alike(Of(ws[j], P), fs[j])
  PROVE  \A s \in Seq(Jars) : Alike(Of(Joins(ws, s), P), Joins(fs, s))
<1> DEFINE Good == {s \in Seq(Jars) : Alike(Of(Joins(ws, s), P), Joins(fs, s))}
<1>1. <<>> \in Good
  <2>1. Joins(ws, <<>>) = <<>> /\ Joins(fs, <<>>) = <<>> /\ Of(<<>>, P) = <<>> /\ <<>> \in Seq(Jars)
    BY JoinsStep, OfStep
  <2> QED BY <2>1 DEF Alike
<1>2. ASSUME NEW s \in Seq(Jars), s \in Good, NEW j \in Jars PROVE Append(s, j) \in Good
  <2> DEFINE t == Append(s, j)
             a == Joins(ws, s)
             b == ws[j]
             c == Joins(fs, s)
             d == fs[j]
  <2>1. /\ a \in Seq(Write) /\ b \in Seq(Write) /\ Joins(ws, t) = a \o b
        /\ c \in Seq(E) /\ d \in Seq(E) /\ Joins(fs, t) = c \o d
    BY JoinsOne
  <2>2. t \in Seq(Jars)
    OBVIOUS
  <2>3. Alike(Of(a, P), c) /\ Alike(Of(b, P), d)
    BY <1>2
  <2> HIDE DEF t, a, b, c, d
  <2>4. /\ Len(Of(a \o b, P)) = Len(Of(a, P)) + Len(Of(b, P))
        /\ Size(Of(a \o b, P)) = Size(Of(a, P)) + Size(Of(b, P))
    BY <2>1, OfConcat, WriteIsEntry
  <2>5. Len(c \o d) = Len(c) + Len(d) /\ Size(c \o d) = Size(c) + Size(d)
    BY <2>1, SizeConcat
  <2>6. Alike(Of(Joins(ws, t), P), Joins(fs, t))
    BY <2>1, <2>3, <2>4, <2>5 DEF Alike
  <2> QED BY <2>2, <2>6 DEF t
<1> HIDE DEF Good
<1>3. \A s \in Seq(Jars) : s \in Good
  BY <1>1, <1>2, SeqInduction
<1> QED
  BY <1>3 DEF Good

\* What the scan finds in one jar.
LEMMA JarScan ==
  ASSUME NEW E, NEW dir, IsDir(dir, E), Whole(dir), NEW P, NEW j \in Jars
  PROVE  /\ Content(dir[j]) \in Seq(E) /\ Fitting(dir[j], P) = Fits(Content(dir[j]), P)
         /\ Fitting(dir[j], P) \in Seq(E) /\ ScanJar(j, dir[j]) \in Seq(Write)
         /\ Alike(Of(ScanJar(j, dir[j]), P), Fitting(dir[j], P))
         /\ \A w \in Members(ScanJar(j, dir[j])) : w.jar = j
<1> DEFINE s == Content(dir[j])
           st == Scans(j, s)
<1>1. s \in Seq(E) /\ IsEntries(E)
  BY DEF IsDir, Content
<1>2. \A Q : Fitting(dir[j], Q) = Fits(s, Q)
  BY Zenon DEF Fitting, Fits, Content
<1>3. ScanJar(j, dir[j]) = st.writes
  BY Zenon DEF ScanJar, Scans, Content
<1>4. st \in ScanStates /\ st.writes \in Seq(Write)
  <2>1. st \in ScanStates
    <3> HIDE DEF s
    <3> QED BY <1>1, ScansStep
  <2> HIDE DEF st
  <2> QED BY <2>1 DEF ScanStates
<1>5. Alike(Of(st.writes, P), Fits(s, P)) /\ \A w \in Members(st.writes) : w.jar = j
  <2>1. CASE dir[j] = Unreadable
    <3>1. s = <<>>
      BY <2>1 DEF Content
    <3>2. Scans(j, <<>>) = [writes |-> <<>>, count |-> 0, total |-> 0, open |-> TRUE]
      BY <1>1, ScansStep
    <3>3. st.writes = <<>>
      BY <3>1, <3>2
    <3>4. Of(<<>>, P) = <<>> /\ Fits(<<>>, P) = <<>>
      BY OfStep, FitsStep
    <3> QED BY <3>1, <3>3, <3>4, MembersEmpty DEF Alike
  <2>2. CASE dir[j] # Unreadable
    <3>1. s = dir[j]
      BY <2>2 DEF Content
    <3>2. Len(s) <= EntryLimit /\ Size(Fits(s, Paths)) < TotalCap
      BY <1>2, <2>2, <3>1 DEF Whole
    <3> HIDE DEF s
    <3>3. Found1(Scans(j, s), j, P, s)
      BY <1>1, <3>2, ScanFinds
    <3> QED BY <3>3 DEF Found1
  <2> QED BY <2>1, <2>2
<1>6. Fits(s, P) \in Seq(E)
  <2> HIDE DEF s
  <2> QED BY <1>1, FitsStep
<1> QED
  BY <1>1, <1>2, <1>3, <1>4, <1>5, <1>6

\* The scan of a directory: as many writes of some paths, and as many bytes,
\* as there are entries, each of them in a jar that is among the writers.
LEMMA DirScan ==
  ASSUME NEW E, NEW dir, IsDir(dir, E), Whole(dir), NEW P
  PROVE  /\ Writes(dir) \in Seq(Write) /\ Entries(dir, P) \in Seq(E)
         /\ Alike(Of(Writes(dir), P), Entries(dir, P))
         /\ \A j \in Jars : Fitting(dir[j], P) # <<>> => j \in Writers(Writes(dir), P)
<1> DEFINE ws == [j \in Jars |-> ScanJar(j, dir[j])]
           fs == [j \in Jars |-> Fitting(dir[j], P)]
<1>1. /\ \A j \in Jars : ws[j] \in Seq(Write) /\ fs[j] \in Seq(E) /\ Alike(Of(ws[j], P), fs[j])
      /\ \A j \in Jars : \A w \in Members(ws[j]) : w.jar = j
  BY JarScan
<1>2. ws \in [Jars -> Seq(Write)] /\ fs \in [Jars -> Seq(E)] /\ IsEntries(E)
  BY <1>1 DEF IsDir
<1>3. Writes(dir) = Joins(ws, JarOrder) /\ Entries(dir, P) = Joins(fs, JarOrder)
  BY Zenon DEF Writes, Entries, Joined, Joins
<1>4. \A j \in Jars : fs[j] = Fitting(dir[j], P)
  OBVIOUS
<1> HIDE DEF ws, fs
<1>5. Joins(ws, JarOrder) \in Seq(Write) /\ Joins(fs, JarOrder) \in Seq(E)
  BY <1>2, Jar, JoinsStep
<1>6. Alike(Of(Joins(ws, JarOrder), P), Joins(fs, JarOrder))
  BY <1>1, <1>2, Jar, JoinsAlike
<1>7. ASSUME NEW j \in Jars, fs[j] # <<>> PROVE j \in Writers(Writes(dir), P)
  <2>1. fs[j] \in Seq(E) /\ Len(fs[j]) # 0
    BY <1>1, <1>7
  <2>2. Of(ws[j], P) \in Seq(Write) /\ Len(Of(ws[j], P)) # 0
    BY <1>1, <2>1, OfStep DEF Alike
  <2>3. PICK w \in Members(Of(ws[j], P)) : TRUE
    BY <2>2 DEF Members
  <2>4. w \in Members(ws[j]) /\ Has(w, P)
    BY <1>1, <2>3, OfMembers
  <2>5. j \in Members(JarOrder)
    BY Jar DEF Members
  <2>6. w \in Members(Joins(ws, JarOrder))
    <3>1. Members(Joins(ws, JarOrder)) = UNION {Members(ws[k]) : k \in Members(JarOrder)}
      BY <1>2, Jar, JoinsMembers
    <3> QED BY <2>4, <2>5, <3>1
  <2>7. PICK i \in DOMAIN Writes(dir) : w = Writes(dir)[i]
    BY <1>3, <2>6 DEF Members
  <2>8. w.jar = j
    BY <1>1, <2>4
  <2> QED BY <2>4, <2>7, <2>8 DEF Writers, Has
<1> QED
  BY <1>3, <1>4, <1>5, <1>6, <1>7

-----------------------------------------------------------------------------
(* Pass 2 reads the entries of a path in their order, and all of them when   *)
(* they fit and none is empty.                                               *)

\* Not as many, or the same.
Behind(a, b) == Len(a) <= Len(b) /\ (Len(a) = Len(b) => a = b)

Solid(s) == \A e \in Members(s) : e.size # 0

\* What has been read, c the entries of all paths that are read and d those of
\* the path p that have come by.
Level(v, p, c, d) ==
  /\ Behind(Of(v.blobs, {p}), d)
  /\ Size(c) <= PathCap /\ Solid(d) => v.total = Size(c) /\ Len(Of(v.blobs, {p})) = Len(d)

\* ... within a jar, that is read to its end then.
Inner(v, p, c, d) == Level(v, p, c, d) /\ (Size(c) <= PathCap /\ Solid(d) => v.open)

LEMMA RereadEntryReads ==
  ASSUME NEW E, IsEntries(E), NEW P, NEW p \in P, NEW v \in Readings(E), NEW c \in Seq(E), NEW d \in Seq(E),
         NEW e \in E, Inner(v, p, c, d)
  PROVE  Inner(RereadEntry(P, v, e), p, IF Fit(e, P) THEN Append(c, e) ELSE c,
                                        IF Fit(e, {p}) THEN Append(d, e) ELSE d)
<1> DEFINE a == Of(v.blobs, {p})
           c1 == Append(c, e)
           d1 == IF Fit(e, {p}) THEN Append(d, e) ELSE d
           w == RereadEntry(P, v, e)
<1>1. /\ e.size \in Nat /\ EntryCap \in Nat /\ PathCap \in Nat
      /\ v.blobs \in Seq(E) /\ v.total \in Nat /\ v.open \in BOOLEAN
  BY OverlayAssumption DEF IsEntries, Readings
<1>2. a \in Seq(E)
  BY <1>1, OfStep
<1>3. Size(c) \in Nat /\ Size(c1) = Size(c) + e.size
  BY SizeIsNat
<1>4. /\ d1 \in Seq(E) /\ Len(d) \in Nat /\ (Fit(e, {p}) => Len(d1) = Len(d) + 1) /\ (Solid(d1) => Solid(d))
  <2>1. Members(Append(d, e)) = Members(d) \union {e}
    BY MembersAppend
  <2>2. Solid(Append(d, e)) => Solid(d)
    BY <2>1 DEF Solid
  <2> QED BY <2>2
<1>5. Behind(a, d) /\ (Size(c) <= PathCap /\ Solid(d) => v.total = Size(c) /\ Len(a) = Len(d) /\ v.open)
  BY DEF Inner, Level
<1>6. CASE ~Fit(e, P)
  <2>1. w = v
    BY <1>1, <1>6 DEF RereadEntry, Fit
  <2>2. ~Fit(e, {p})
    BY <1>6 DEF Fit
  <2> QED BY <1>6, <2>1, <2>2
<1>7. CASE Fit(e, P) /\ (~v.open \/ v.total + e.size > PathCap)
  <2>1. w.blobs = v.blobs
    BY <1>1, <1>7 DEF RereadEntry, Readings
  <2> HIDE DEF a, c1, d1, w
  <2>2. Of(w.blobs, {p}) = a
    BY <2>1 DEF a
  <2>3. Behind(a, d1)
    <3>1. CASE Fit(e, {p})
      BY <1>2, <1>4, <1>5, <3>1 DEF Behind
    <3>2. CASE ~Fit(e, {p})
      BY <1>5, <3>2 DEF d1
    <3> QED BY <3>1, <3>2
  <2>4. ~(Size(c1) <= PathCap /\ Solid(d1))
    BY <1>1, <1>3, <1>4, <1>5, <1>7
  <2>5. Inner(w, p, c1, d1)
    BY <2>2, <2>3, <2>4 DEF Inner, Level
  <2> QED BY <1>7, <2>5 DEF c1, d1, w
<1>8. CASE Fit(e, P) /\ v.open /\ ~(v.total + e.size > PathCap)
  <2> DEFINE old == v.blobs
             new == Append(old, e)
  <2>1. w.blobs = new /\ w.total = v.total + e.size /\ w.open = v.open
    <3> DEFINE total == v.total + e.size
    <3> HIDE DEF new, total
    <3>1. w = [v EXCEPT !.total = total, !.blobs = new]
      BY <1>1, <1>8 DEF RereadEntry, Readings, Fit, new, total
    <3> HIDE DEF w
    <3>2. w.blobs = new /\ w.total = total /\ w.open = v.open
      BY <3>1 DEF Readings
    <3> QED BY <3>2 DEF total
  <2>2. Of(new, {p}) = IF Has(e, {p}) THEN Append(a, e) ELSE a
    <3> HIDE DEF old
    <3>1. old \in Seq(E)
      BY <1>1 DEF old
    <3>2. Of(Append(old, e), {p}) = IF Has(e, {p}) THEN Append(Of(old, {p}), e) ELSE Of(old, {p})
      BY <3>1, OfStep
    <3> QED BY <3>2 DEF old
  <2>3. Has(e, {p}) <=> Fit(e, {p})
    BY <1>8 DEF Fit, Has
  <2> DEFINE b == Of(new, {p})
  <2> HIDE DEF a, c1, w, new
  <2>4. Behind(b, d1) /\ (Len(a) = Len(d) => Len(b) = Len(d1))
    <3>1. CASE Fit(e, {p})
      <4>1. b = Append(a, e) /\ d1 = Append(d, e)
        BY <2>2, <2>3, <3>1
      <4> HIDE DEF b, d1
      <4>2. Len(b) = Len(a) + 1 /\ Len(d1) = Len(d) + 1 /\ Len(a) \in Nat /\ Len(d) \in Nat
        BY <1>2, <4>1
      <4> QED BY <1>5, <4>1, <4>2 DEF Behind
    <3>2. CASE ~Fit(e, {p})
      BY <1>5, <2>2, <2>3, <3>2
    <3> QED BY <3>1, <3>2
  <2> HIDE DEF b, d1
  <2>5. Size(c1) <= PathCap /\ Solid(d1) => Size(c) <= PathCap /\ Solid(d)
    BY <1>1, <1>3, <1>4
  <2>6. Size(c1) <= PathCap /\ Solid(d1) => w.total = Size(c1) /\ Len(b) = Len(d1) /\ w.open
    BY <1>3, <1>5, <1>8, <2>1, <2>4, <2>5
  <2>7. Inner(w, p, c1, d1)
    BY <2>1, <2>4, <2>6 DEF Inner, Level, b
  <2> QED BY <1>8, <2>7 DEF c1, d1, w
<1> QED
  BY <1>6, <1>7, <1>8

LEMMA RereadsOne ==
  ASSUME NEW E, IsEntries(E), NEW P, NEW v \in Readings(E), NEW s \in Seq(E), NEW e \in E
  PROVE  /\ Rereads(P, v, s) \in Readings(E)
         /\ Rereads(P, v, Append(s, e)) = RereadEntry(P, Rereads(P, v, s), e)
<1>1. IsReading(v, E)
  BY DEF IsReading
<1>2. Rereads(P, v, s) \in Readings(E)
  BY <1>1, RereadsStep
<1>3. Reads(P, v, s, e)
  BY <1>1, RereadsStep
<1> QED
  BY <1>2, <1>3 DEF Reads

\* A jar that is read.
LEMMA RereadsReads ==
  ASSUME NEW E, IsEntries(E), NEW P, NEW p \in P, NEW v \in Readings(E), NEW c \in Seq(E), NEW d \in Seq(E),
         Inner(v, p, c, d)
  PROVE  \A s \in Seq(E) : Inner(Rereads(P, v, s), p, c \o Fits(s, P), d \o Fits(s, {p}))
<1> DEFINE Good == {s \in Seq(E) : Inner(Rereads(P, v, s), p, c \o Fits(s, P), d \o Fits(s, {p}))}
<1>1. <<>> \in Good
  <2>1. Rereads(P, v, <<>>) = v
    <3>1. IsReading(v, E)
      BY DEF IsReading
    <3> QED BY <3>1, RereadsStep
  <2>3. Fits(<<>>, P) = <<>> /\ Fits(<<>>, {p}) = <<>> /\ <<>> \in Seq(E)
    BY FitsStep
  <2>2. c \o <<>> = c /\ d \o <<>> = d
    OBVIOUS
  <2> QED BY <2>1, <2>2, <2>3
<1>2. ASSUME NEW s \in Seq(E), s \in Good, NEW e \in E PROVE Append(s, e) \in Good
  <2> DEFINE t == Append(s, e)
             u == Rereads(P, v, s)
             f == Fits(s, P)
             g == Fits(s, {p})
             c1 == c \o f
             d1 == d \o g
  <2>1. u \in Readings(E) /\ Rereads(P, v, t) = RereadEntry(P, u, e)
    BY RereadsOne
  <2>2. f \in Seq(E) /\ Fits(t, P) = IF Fit(e, P) THEN Append(f, e) ELSE f
    BY FitsOne
  <2>3. g \in Seq(E) /\ Fits(t, {p}) = IF Fit(e, {p}) THEN Append(g, e) ELSE g
    BY FitsOne
  <2>4. Inner(u, p, c1, d1) /\ t \in Seq(E)
    BY <1>2
  <2> HIDE DEF t, u, f, g
  <2>5. /\ c1 \in Seq(E) /\ c \o Append(f, e) = Append(c1, e)
        /\ d1 \in Seq(E) /\ d \o Append(g, e) = Append(d1, e)
    BY <2>2, <2>3
  <2>6. /\ c \o Fits(t, P) = IF Fit(e, P) THEN Append(c1, e) ELSE c1
        /\ d \o Fits(t, {p}) = IF Fit(e, {p}) THEN Append(d1, e) ELSE d1
    BY <2>2, <2>3, <2>5
  <2> HIDE DEF c1, d1
  <2>7. Inner(RereadEntry(P, u, e), p, IF Fit(e, P) THEN Append(c1, e) ELSE c1, IF Fit(e, {p}) THEN Append(d1, e) ELSE d1)
    BY <2>1, <2>4, <2>5, RereadEntryReads
  <2>8. Inner(Rereads(P, v, t), p, c \o Fits(t, P), d \o Fits(t, {p}))
    BY <2>1, <2>6, <2>7
  <2> QED BY <2>4, <2>8 DEF t
<1> HIDE DEF Good
<1>3. \A s \in Seq(E) : s \in Good
  BY <1>1, <1>2, SeqInduction
<1> QED
  BY <1>3 DEF Good

\* A jar: not a writer, left unread or read.
LEMMA RereadJarReads ==
  ASSUME NEW E, NEW dir, IsDir(dir, E), NEW P, NEW p \in P, NEW j \in Jars, NEW s \in Seq(E), s = Content(dir[j]),
         NEW v \in Readings(E), NEW c \in Seq(E), NEW d \in Seq(E), Level(v, p, c, d)
  PROVE  /\ Level(RereadJar(dir, P, v, j), p, c \o Fits(s, P), d \o Fits(s, {p}))
         /\ Fits(s, P) = <<>> => Level(v, p, c \o Fits(s, P), d \o Fits(s, {p}))
<1> DEFINE f == Fits(s, P)
           g == Fits(s, {p})
           a == Of(v.blobs, {p})
<1>1. f \in Seq(E) /\ g \in Seq(E)
  BY FitsStep
<1>2. /\ Len(g) <= Len(f) /\ (Solid(g) => Len(g) <= Size(f)) /\ IsEntries(E)
      /\ Size(c) \in Nat /\ Size(f) \in Nat /\ Size(c \o f) = Size(c) + Size(f)
  <2>1. IsEntries(E)
    BY DEF IsDir
  <2>2. Len(g) <= Len(f) /\ (Solid(g) => Len(g) <= Size(f))
    BY <2>1, FitsAmong DEF Solid
  <2> HIDE DEF f
  <2>3. Size(c) \in Nat /\ Size(f) \in Nat /\ Size(c \o f) = Size(c) + Size(f)
    BY <1>1, <2>1, SizeIsNat, SizeConcat
  <2> QED BY <2>1, <2>2, <2>3
<1>3. Fits(s, P) = <<>> => Level(v, p, c \o f, d \o g)
  <2> HAVE f = <<>>
  <2> HIDE DEF f, g
  <2>1. g = <<>>
    BY <1>1, <1>2
  <2>2. c \o f = c /\ d \o g = d
    BY <1>1, <2>1
  <2> QED BY <2>2
<1>4. v.blobs \in Seq(E) /\ v.total \in Nat /\ PathCap \in Nat
  BY OverlayAssumption DEF Readings
<1>5. a \in Seq(E)
  BY <1>4, OfStep
<1>6. CASE dir[j] = Unreadable
  <2>1. s = <<>> /\ RereadJar(dir, P, v, j) = v
    BY <1>6 DEF Content, RereadJar
  <2>2. Fits(s, P) = <<>>
    BY <2>1, FitsStep
  <2> QED BY <1>3, <2>1, <2>2
<1>7. CASE v.total >= PathCap
  <2>1. RereadJar(dir, P, v, j) = v
    BY <1>7 DEF RereadJar
  <2> HIDE DEF f, g, a
  <2>2. /\ Len(a) \in Nat /\ Len(d) \in Nat /\ Len(g) \in Nat /\ Len(d \o g) = Len(d) + Len(g)
        /\ Len(g) = 0 => d \o g = d
    BY <1>1, <1>5
  <2>3. Solid(d \o g) => Solid(d) /\ Solid(g)
    <3>1. Members(d \o g) = Members(d) \union Members(g)
      BY <1>1, MembersConcat
    <3> QED BY <3>1 DEF Solid
  <2>4. Behind(a, d) /\ (Size(c) <= PathCap /\ Solid(d) => v.total = Size(c) /\ Len(a) = Len(d))
    BY DEF Level, a
  <2>5. Behind(a, d \o g)
    BY <2>2, <2>4 DEF Behind
  <2>6. ASSUME Size(c \o f) <= PathCap, Solid(d \o g) PROVE v.total = Size(c \o f) /\ Len(a) = Len(d \o g)
    <3>1. Size(c) <= PathCap /\ Solid(d) /\ Solid(g)
      BY <1>2, <1>4, <2>3, <2>6
    <3>2. v.total = Size(c) /\ Size(f) = 0
      BY <1>2, <1>4, <1>7, <2>4, <2>6, <3>1
    <3>3. Len(g) = 0
      BY <1>2, <2>2, <3>1, <3>2
    <3> QED BY <1>2, <2>2, <2>4, <3>1, <3>2, <3>3
  <2>7. Level(v, p, c \o f, d \o g)
    BY <2>5, <2>6 DEF Level, a
  <2> QED BY <1>3, <2>1, <2>7 DEF f, g
<1>8. CASE dir[j] # Unreadable /\ ~(v.total >= PathCap)
  <2> DEFINE start == [v EXCEPT !.open = TRUE]
  <2>1. start \in Readings(E) /\ start.open /\ start.blobs = v.blobs /\ start.total = v.total
    BY DEF Readings
  <2>2. s = dir[j]
    BY <1>8 DEF Content
  <2>3. RereadJar(dir, P, v, j) = Rereads(P, start, s)
    BY <1>8, <2>2 DEF RereadJar, Rereads
  <2> HIDE DEF start
  <2>4. Inner(start, p, c, d)
    BY <2>1 DEF Inner, Level
  <2>5. Inner(Rereads(P, start, s), p, c \o f, d \o g)
    BY <1>2, <2>1, <2>4, RereadsReads
  <2> QED BY <1>3, <2>3, <2>5 DEF Inner
<1> QED
  BY <1>6, <1>7, <1>8

\* The jars, in their order.
LEMMA RereadsAllReads ==
  ASSUME NEW E, NEW dir, IsDir(dir, E), NEW P, NEW p \in P, NEW writes,
         NEW fs \in [Jars -> Seq(E)], NEW gs \in [Jars -> Seq(E)],
         \A j \in Jars : fs[j] = Fits(Content(dir[j]), P) /\ gs[j] = Fits(Content(dir[j]), {p}),
         \A j \in Jars : fs[j] # <<>> => j \in Writers(writes, P)
  PROVE  \A s \in Seq(Jars) : Level(RereadsAll(dir, writes, P, s), p, Joins(fs, s), Joins(gs, s))
<1> DEFINE Good == {s \in Seq(Jars) : Level(RereadsAll(dir, writes, P, s), p, Joins(fs, s), Joins(gs, s))}
<1>1. <<>> \in Good
  <2>1. RereadsAll(dir, writes, P, <<>>) = [blobs |-> <<>>, total |-> 0, open |-> TRUE]
    BY RereadsAllStep
  <2>2. Joins(fs, <<>>) = <<>> /\ Joins(gs, <<>>) = <<>> /\ Of(<<>>, {p}) = <<>> /\ Size(<<>>) = 0
    BY JoinsStep, OfStep, SizeIsNat DEF IsDir
  <2> DEFINE v == RereadsAll(dir, writes, P, <<>>)
  <2>3. v.blobs = <<>> /\ v.total = 0
    BY <2>1
  <2> HIDE DEF v
  <2>4. Level(v, p, <<>>, <<>>)
    BY <2>2, <2>3 DEF Level, Behind
  <2>5. <<>> \in Seq(Jars)
    OBVIOUS
  <2> QED BY <2>2, <2>4, <2>5 DEF v
<1>2. ASSUME NEW s \in Seq(Jars), s \in Good, NEW j \in Jars PROVE Append(s, j) \in Good
  <2> DEFINE t == Append(s, j)
             v == RereadsAll(dir, writes, P, s)
             c == Joins(fs, s)
             d == Joins(gs, s)
             a == Content(dir[j])
  <2>1. t \in Seq(Jars) /\ a \in Seq(E)
    BY DEF IsDir, Content
  <2>2. /\ v \in Readings(E)
        /\ RereadsAll(dir, writes, P, t) = IF j \in Writers(writes, P) THEN RereadJar(dir, P, v, j) ELSE v
    BY RereadsAllStep
  <2>3. c \in Seq(E) /\ Joins(fs, t) = c \o fs[j]
    BY JoinsOne
  <2>4. d \in Seq(E) /\ Joins(gs, t) = d \o gs[j]
    BY JoinsOne
  <2>5. Level(v, p, c, d)
    BY <1>2
  <2>6. fs[j] = Fits(a, P) /\ gs[j] = Fits(a, {p}) /\ (Fits(a, P) # <<>> => j \in Writers(writes, P))
    OBVIOUS
  <2>7. a = Content(dir[j])
    OBVIOUS
  <2> HIDE DEF t, v, c, d, a
  <2>8. /\ Level(RereadJar(dir, P, v, j), p, c \o Fits(a, P), d \o Fits(a, {p}))
        /\ Fits(a, P) = <<>> => Level(v, p, c \o Fits(a, P), d \o Fits(a, {p}))
    BY <2>1, <2>2, <2>3, <2>4, <2>5, <2>7, RereadJarReads
  <2>9. Level(RereadsAll(dir, writes, P, t), p, c \o Fits(a, P), d \o Fits(a, {p}))
    BY <2>2, <2>6, <2>8
  <2>10. Level(RereadsAll(dir, writes, P, t), p, Joins(fs, t), Joins(gs, t))
    BY <2>3, <2>4, <2>6, <2>9
  <2> QED BY <2>1, <2>10 DEF t
<1> HIDE DEF Good
<1>3. \A s \in Seq(Jars) : s \in Good
  BY <1>1, <1>2, SeqInduction
<1> QED
  BY <1>3 DEF Good

\* What pass 2 has of a path in a batch.
LEMMA DirReads ==
  ASSUME NEW E, NEW dir, IsDir(dir, E), Whole(dir), NEW P, NEW p \in P
  PROVE  /\ Behind(Of(Reread(dir, Writes(dir), P), {p}), Entries(dir, {p}))
         /\ Size(Entries(dir, P)) <= PathCap /\ Solid(Entries(dir, {p})) =>
              Len(Of(Reread(dir, Writes(dir), P), {p})) = Len(Entries(dir, {p}))
<1> DEFINE fs == [j \in Jars |-> Fitting(dir[j], P)]
           gs == [j \in Jars |-> Fitting(dir[j], {p})]
           writes == Writes(dir)
<1>1. fs \in [Jars -> Seq(E)] /\ gs \in [Jars -> Seq(E)]
  <2>1. \A j \in Jars : Fitting(dir[j], P) \in Seq(E)
    BY JarScan
  <2>2. \A j \in Jars : Fitting(dir[j], {p}) \in Seq(E)
    BY JarScan
  <2> QED BY <2>1, <2>2
<1>2. \A j \in Jars : fs[j] = Fits(Content(dir[j]), P) /\ gs[j] = Fits(Content(dir[j]), {p})
  <2>1. \A j \in Jars : Fitting(dir[j], P) = Fits(Content(dir[j]), P)
    BY Zenon DEF Fitting, Fits, Content
  <2>2. \A j \in Jars : Fitting(dir[j], {p}) = Fits(Content(dir[j]), {p})
    BY Zenon DEF Fitting, Fits, Content
  <2> QED BY <2>1, <2>2
<1>3. \A j \in Jars : fs[j] # <<>> => j \in Writers(writes, P)
  BY DirScan
<1>4. Entries(dir, P) = Joins(fs, JarOrder) /\ Entries(dir, {p}) = Joins(gs, JarOrder)
  BY Zenon DEF Entries, Joined, Joins
<1>5. Reread(dir, writes, P) = RereadsAll(dir, writes, P, JarOrder).blobs
  BY Zenon DEF Reread, RereadsAll
<1> HIDE DEF fs, gs, writes
<1>6. Level(RereadsAll(dir, writes, P, JarOrder), p, Joins(fs, JarOrder), Joins(gs, JarOrder))
  <2>1. \A s \in Seq(Jars) : Level(RereadsAll(dir, writes, P, s), p, Joins(fs, s), Joins(gs, s))
    BY <1>1, <1>2, <1>3, RereadsAllReads
  <2> QED BY <2>1, Jar
<1> QED
  BY <1>4, <1>5, <1>6 DEF Level, writes

-----------------------------------------------------------------------------
(* The batches: every colliding path is in one, none holds more than may be   *)
(* read unless it is one path alone.                                         *)

Bytes(writes, B) == Size(Of(writes, B))
Holds(writes, B) == Bytes(writes, B) <= PathCap \/ \E p \in Paths : B = {p}
Apart(q)         == \A i, k \in DOMAIN q : i # k => q[i] \intersect q[k] = {}

\* The paths M are in batches, some closed and one open.
Batching(writes, closed, open, bytes, M) ==
  /\ closed \in Seq(SUBSET Paths) /\ open \in SUBSET Paths /\ bytes \in Nat
  /\ (UNION Members(closed)) \union open = M /\ Apart(closed)
  /\ \A B \in Members(closed) : Holds(writes, B) /\ B \intersect open = {}
  /\ IF open = {} THEN bytes = 0 ELSE bytes = Bytes(writes, open) /\ Holds(writes, open)

LEMMA ApartAppend ==
  ASSUME NEW q \in Seq(SUBSET Paths), NEW B \in SUBSET Paths, Apart(q), \A C \in Members(q) : C \intersect B = {}
  PROVE  Apart(Append(q, B))
<1> DEFINE t == Append(q, B)
<1>1. /\ Len(q) \in Nat /\ DOMAIN q = 1 .. Len(q) /\ DOMAIN t = 1 .. Len(q) + 1 /\ t[Len(q) + 1] = B
      /\ \A i \in 1 .. Len(q) : t[i] = q[i]
  OBVIOUS
<1> HIDE DEF t
<1>2. \A i \in 1 .. Len(q) : q[i] \intersect B = {}
  BY <1>1 DEF Members
<1>3. ASSUME NEW i \in DOMAIN t, NEW k \in DOMAIN t, i # k PROVE t[i] \intersect t[k] = {}
  <2>1. CASE i \in 1 .. Len(q) /\ k \in 1 .. Len(q)
    BY <1>1, <1>3, <2>1 DEF Apart
  <2>2. CASE i = Len(q) + 1
    <3>1. k \in 1 .. Len(q)
      BY <1>1, <1>3, <2>2
    <3> QED BY <1>1, <1>2, <2>2, <3>1
  <2>3. CASE k = Len(q) + 1
    <3>1. i \in 1 .. Len(q)
      BY <1>1, <1>3, <2>3
    <3> QED BY <1>1, <1>2, <2>3, <3>1
  <2> QED BY <1>1, <2>1, <2>2, <2>3
<1> QED
  BY <1>3 DEF Apart, t

LEMMA BatchCloses ==
  ASSUME NEW writes, NEW closed, NEW open, NEW bytes, NEW M, Batching(writes, closed, open, bytes, M), open # {}
  PROVE  Batching(writes, Append(closed, open), {}, 0, M)
<1> DEFINE q == Append(closed, open)
<1>1. closed \in Seq(SUBSET Paths) /\ open \in SUBSET Paths /\ (UNION Members(closed)) \union open = M
  BY DEF Batching
<1>2. q \in Seq(SUBSET Paths) /\ Members(q) = Members(closed) \union {open}
  BY <1>1, MembersAppend
<1>3. Apart(q)
  BY <1>1, ApartAppend DEF Batching
<1> HIDE DEF q
<1>4. UNION Members(q) = M /\ \A B \in Members(q) : Holds(writes, B)
  <2>1. UNION Members(q) = M
    <3>1. \A A : UNION (A \union {open}) = (UNION A) \union open
      BY Zenon
    <3> QED BY <1>1, <1>2, <3>1
  <2> QED BY <1>2, <2>1 DEF Batching
<1> QED
  BY <1>2, <1>3, <1>4 DEF Batching, q

LEMMA BatchGrows ==
  ASSUME NEW writes \in Seq(Write), NEW closed, NEW open, NEW bytes, NEW M, Batching(writes, closed, open, bytes, M),
         NEW path \in Paths, path \notin M, open # {} => bytes + Bytes(writes, {path}) <= PathCap
  PROVE  Batching(writes, closed, open \union {path}, bytes + Bytes(writes, {path}), M \union {path})
<1> DEFINE more == open \union {path}
<1>1. Bytes(writes, {path}) \in Nat
  <2>1. Of(writes, {path}) \in Seq(Write)
    BY OfStep
  <2> QED BY <2>1, SizeIsNat, WriteIsEntry DEF Bytes
<1>2. /\ closed \in Seq(SUBSET Paths) /\ open \in SUBSET Paths /\ bytes \in Nat /\ (UNION Members(closed)) \union open = M
      /\ Apart(closed) /\ \A B \in Members(closed) : Holds(writes, B) /\ B \intersect open = {}
      /\ IF open = {} THEN bytes = 0 ELSE bytes = Bytes(writes, open)
  BY DEF Batching
<1> DEFINE old == UNION Members(closed)
<1>7. old \union open = M
  BY <1>2
<1> HIDE DEF old
<1>3. \A B \in Members(closed) : B \intersect more = {}
  <2>1. ASSUME NEW B \in Members(closed) PROVE B \subseteq old
    BY <2>1 DEF old
  <2> QED BY <1>2, <1>7, <2>1
<1>4. bytes + Bytes(writes, {path}) = Bytes(writes, more) /\ Holds(writes, more)
  <2>1. CASE open = {}
    <3>1. more = {path} /\ bytes = 0
      BY <1>2, <2>1
    <3> HIDE DEF more
    <3> QED BY <1>1, <3>1 DEF Holds
  <2>2. CASE open # {}
    <3>1. open \intersect {path} = {}
      <4>1. open \subseteq M
        BY <1>7
      <4> QED BY <4>1
    <3>2. Bytes(writes, more) = Bytes(writes, open) + Bytes(writes, {path})
      BY <3>1, OfUnion, WriteIsEntry DEF Bytes
    <3> HIDE DEF more
    <3> QED BY <1>2, <2>2, <3>2 DEF Holds
  <2> QED BY <2>1, <2>2
<1>5. more # {} /\ more \in SUBSET Paths /\ old \union more = M \union {path}
  <2>1. old \union more = M \union {path}
    BY <1>7
  <2> QED BY <1>2, <2>1
<1>6. bytes + Bytes(writes, {path}) \in Nat
  BY <1>1, <1>2
<1> HIDE DEF more
<1> QED
  BY <1>2, <1>3, <1>4, <1>5, <1>6 DEF Batching, more, old

LEMMA AddPathBatches ==
  ASSUME NEW writes \in Seq(Write), NEW acc \in BatchStates, NEW M, NEW path \in Paths, path \notin M,
         Batching(writes, acc.closed, acc.open, acc.bytes, M)
  PROVE  LET r == AddPath(writes, acc, path, PathCap)
         IN Batching(writes, r.closed, r.open, r.bytes, M \union {path})
<1> DEFINE b == Size(Of(writes, {path}))
           full == acc.open # {} /\ acc.bytes + b > PathCap
           start == IF full THEN [acc EXCEPT !.closed = Append(acc.closed, acc.open), !.open = {}, !.bytes = 0] ELSE acc
           grown == [start EXCEPT !.open = start.open \union {path}, !.bytes = start.bytes + b]
           r == IF grown.bytes >= PathCap
                THEN [closed |-> Append(grown.closed, grown.open), open |-> {}, bytes |-> 0] ELSE grown
<1>1. AddPath(writes, acc, path, PathCap) = r
  BY DEF AddPath
<1>2. b \in Nat /\ PathCap \in Nat /\ b = Bytes(writes, {path})
  <2>1. Of(writes, {path}) \in Seq(Write)
    BY OfStep
  <2> QED BY <2>1, SizeIsNat, WriteIsEntry, OverlayAssumption DEF Bytes
<1>3. acc.closed \in Seq(SUBSET Paths) /\ acc.open \in SUBSET Paths /\ acc.bytes \in Nat
  BY DEF BatchStates
<1> HIDE DEF b
<1>4. start \in BatchStates /\ Batching(writes, start.closed, start.open, start.bytes, M)
      /\ (start.open # {} => start.bytes + b <= PathCap)
  <2>1. CASE full
    <3> DEFINE closed == Append(acc.closed, acc.open)
    <3>1. closed \in Seq(SUBSET Paths) /\ Batching(writes, closed, {}, 0, M)
      BY <1>3, <2>1, BatchCloses
    <3> HIDE DEF closed
    <3>2. start = [acc EXCEPT !.closed = closed, !.open = {}, !.bytes = 0]
      BY <2>1 DEF closed
    <3> HIDE DEF start
    <3>3. start.closed = closed /\ start.open = {} /\ start.bytes = 0 /\ start \in BatchStates
      BY <3>1, <3>2 DEF BatchStates
    <3> QED BY <3>1, <3>3
  <2>2. CASE ~full
    <3>1. start = acc
      BY <2>2
    <3>2. acc.open # {} => acc.bytes + b <= PathCap
      BY <1>2, <1>3, <2>2
    <3> HIDE DEF start
    <3> QED BY <3>1, <3>2
  <2> QED BY <2>1, <2>2
<1> HIDE DEF start
<1> DEFINE open == start.open \union {path}
           bytes == start.bytes + b
<1>5. Batching(writes, start.closed, open, bytes, M \union {path}) /\ open # {}
  BY <1>2, <1>4, BatchGrows
<1>6. grown = [start EXCEPT !.open = open, !.bytes = bytes]
  OBVIOUS
<1> HIDE DEF open, bytes, grown
<1>7. grown.closed = start.closed /\ grown.open = open /\ grown.bytes = bytes
  BY <1>4, <1>6 DEF BatchStates
<1>8. CASE grown.bytes >= PathCap
  <2> DEFINE closed == Append(start.closed, open)
  <2>1. Batching(writes, closed, {}, 0, M \union {path})
    BY <1>5, BatchCloses
  <2>2. r.closed = closed /\ r.open = {} /\ r.bytes = 0
    BY <1>7, <1>8
  <2> HIDE DEF r, closed
  <2> QED BY <1>1, <2>1, <2>2
<1>9. CASE ~(grown.bytes >= PathCap)
  <2>1. r = grown
    BY <1>9
  <2> HIDE DEF r
  <2> QED BY <1>1, <1>5, <1>7, <2>1
<1> QED
  BY <1>8, <1>9

LEMMA InjectiveAppend ==
  ASSUME NEW E, NEW s \in Seq(E), NEW e \in E, IsInjective(Append(s, e))
  PROVE  IsInjective(s) /\ e \notin Members(s)
<1> DEFINE t == Append(s, e)
<1>1. /\ Len(s) \in Nat /\ DOMAIN s = 1 .. Len(s) /\ DOMAIN t = 1 .. Len(s) + 1 /\ t[Len(s) + 1] = e
      /\ \A i \in 1 .. Len(s) : t[i] = s[i]
  OBVIOUS
<1>2. \A i, k \in DOMAIN t : t[i] = t[k] => i = k
  BY DEF IsInjective
<1> HIDE DEF t
<1>3. ASSUME NEW i \in DOMAIN s, NEW k \in DOMAIN s, s[i] = s[k] PROVE i = k
  BY <1>1, <1>2, <1>3
<1>4. ASSUME NEW i \in DOMAIN s PROVE s[i] # e
  <2>1. i \in DOMAIN t /\ Len(s) + 1 \in DOMAIN t /\ t[i] = s[i] /\ i # Len(s) + 1
    BY <1>1
  <2> QED BY <1>1, <1>2, <2>1
<1> QED
  BY <1>3, <1>4 DEF IsInjective, Members

LEMMA Batches ==
  ASSUME NEW writes \in Seq(Write)
  PROVE  \A s \in Seq(Paths) : IsInjective(s) =>
           LET acc == Batched(writes, PathCap, s) IN Batching(writes, acc.closed, acc.open, acc.bytes, Members(s))
<1> DEFINE In(acc, s) == Batching(writes, acc.closed, acc.open, acc.bytes, Members(s))
           Good == {s \in Seq(Paths) : IsInjective(s) => In(Batched(writes, PathCap, s), s)}
<1>1. <<>> \in Good
  <2>1. Batched(writes, PathCap, <<>>) = [closed |-> <<>>, open |-> {}, bytes |-> 0]
    BY BatchedStep
  <2> DEFINE acc == Batched(writes, PathCap, <<>>)
  <2>2. acc.closed = <<>> /\ acc.open = {} /\ acc.bytes = 0
    BY <2>1
  <2> HIDE DEF acc
  <2>3. Members(<<>>) = {} /\ Apart(<<>>) /\ <<>> \in Seq(SUBSET Paths) /\ <<>> \in Seq(Paths)
    BY MembersEmpty DEF Apart
  <2>4. In(acc, <<>>)
    BY <2>2, <2>3 DEF Batching
  <2> QED BY <2>3, <2>4 DEF acc
<1>2. ASSUME NEW s \in Seq(Paths), s \in Good, NEW e \in Paths PROVE Append(s, e) \in Good
  <2> DEFINE t == Append(s, e)
             acc == Batched(writes, PathCap, s)
  <2>1. SUFFICES ASSUME IsInjective(t) PROVE In(Batched(writes, PathCap, t), t)
    OBVIOUS
  <2>2. IsInjective(s) /\ e \notin Members(s)
    BY <2>1, InjectiveAppend
  <2>3. acc \in BatchStates /\ Batched(writes, PathCap, t) = AddPath(writes, acc, e, PathCap)
    BY BatchedStep
  <2>4. Members(t) = Members(s) \union {e}
    BY MembersAppend
  <2>5. In(acc, s)
    BY <1>2, <2>2
  <2> HIDE DEF acc, t
  <2>6. LET r == AddPath(writes, acc, e, PathCap)
        IN Batching(writes, r.closed, r.open, r.bytes, Members(s) \union {e})
    BY <2>2, <2>3, <2>5, AddPathBatches
  <2> QED BY <2>3, <2>4, <2>6
<1> HIDE DEF Good
<1>3. \A s \in Seq(Paths) : s \in Good
  BY <1>1, <1>2, SeqInduction
<1> QED
  BY <1>3 DEF Good

\* Every colliding path is in one batch.
LEMMA BatchesHold ==
  ASSUME NEW writes \in Seq(Write)
  PROVE  /\ CollisionBatches(writes) \in Seq(SUBSET Paths) /\ Apart(CollisionBatches(writes))
         /\ UNION Members(CollisionBatches(writes)) = CollisionPaths(writes)
         /\ \A B \in Members(CollisionBatches(writes)) : Holds(writes, B)
<1> DEFINE S == CollisionPaths(writes)
           s == ByName(S)
           acc == Batched(writes, PathCap, s)
<1>1. S \in SUBSET Paths
  BY DEF CollisionPaths
<1>2. s \in Seq(S) /\ s \in Seq(Paths) /\ IsInjective(s) /\ \A p \in S : \E i \in DOMAIN s : s[i] = p
  <2> HIDE DEF S
  <2>1. ByName(S) \in Seq(S) /\ IsInjective(ByName(S)) /\ \A p \in S : \E i \in DOMAIN ByName(S) : ByName(S)[i] = p
    BY <1>1, Name
  <2>2. \A x \in Seq(S) : x \in Seq(Paths)
    BY <1>1
  <2> QED BY <2>1, <2>2
<1>3. CollisionBatches(writes) = IF acc.open = {} THEN acc.closed ELSE Append(acc.closed, acc.open)
  BY Zenon DEF CollisionBatches, BatchesOf, Batched
<1> HIDE DEF s, S
<1>4. Members(s) = S
  BY <1>2 DEF Members
<1>5. Batching(writes, acc.closed, acc.open, acc.bytes, S)
  BY <1>2, <1>4, Batches
<1> HIDE DEF acc
<1>6. \E bytes : Batching(writes, CollisionBatches(writes), {}, bytes, S)
  <2>1. CASE acc.open = {}
    BY <1>3, <1>5, <2>1
  <2>2. CASE acc.open # {}
    BY <1>3, <1>5, <2>2, BatchCloses
  <2> QED BY <2>1, <2>2
<1> QED
  BY <1>6 DEF Batching, S

-----------------------------------------------------------------------------
(* What becomes of the collisions of a directory.                           *)

\* Nothing of the paths is dropped.
LEMMA OfKeeps ==
  ASSUME NEW E, NEW P
  PROVE  \A s \in Seq(E) : \A e \in Members(s) : Has(e, P) => e \in Members(Of(s, P))
<1> DEFINE Good == {s \in Seq(E) : \A e \in Members(s) : Has(e, P) => e \in Members(Of(s, P))}
<1>1. <<>> \in Good
  <2>1. <<>> \in Seq(E) /\ Members(<<>>) = {}
    BY MembersEmpty
  <2> QED BY <2>1
<1>2. ASSUME NEW s \in Seq(E), s \in Good, NEW e \in E PROVE Append(s, e) \in Good
  <2> DEFINE a == Of(s, P)
             t == Append(s, e)
  <2>1. a \in Seq(E) /\ Of(t, P) = IF Has(e, P) THEN Append(a, e) ELSE a
    BY OfStep
  <2>2. t \in Seq(E) /\ Members(t) = Members(s) \union {e}
    BY MembersAppend
  <2>3. \A x \in Members(s) : Has(x, P) => x \in Members(a)
    BY <1>2
  <2> HIDE DEF a, t
  <2>4. Members(Append(a, e)) = Members(a) \union {e}
    BY <2>1, MembersAppend
  <2>5. \A x \in Members(t) : Has(x, P) => x \in Members(Of(t, P))
    BY <2>1, <2>2, <2>3, <2>4
  <2> QED BY <2>2, <2>5 DEF t
<1> HIDE DEF Good
<1>3. \A s \in Seq(E) : s \in Good
  BY <1>1, <1>2, SeqInduction
<1> QED
  BY <1>3 DEF Good

Class(dir, p)  == Classify(Domain[p], Blobs(Entries(dir, {p}))).class
Unread(dir, p) == \/ Size(Entries(dir, {p})) > PathCap
                  \/ \E i \in DOMAIN Entries(dir, {p}) : Entries(dir, {p})[i].size = 0
Collides(dir)  == {p \in Paths : ~(Len(Entries(dir, {p})) < 2)}
Locales        == DOMAIN Rank \ Paths
Mixed(dir)     == {l \in Locales :
                     Cardinality({Domain[path] : path \in {q \in Paths : Locale[q] = l
                                                             /\ Entries(dir, {q}) # <<>>}}) > 1}

\* The class a collision is given.
Right(dir, name, class) ==
  \/ name \in Collides(dir) /\ class = Class(dir, name)
  \/ name \in Collides(dir) /\ class = "classification-unavailable" /\ Unread(dir, name)
  \/ name \in Mixed(dir) /\ class = "lang-format-mismatch"

\* The classes of a set of paths and locales, one for each.
Covers(dir, found, names) ==
  /\ \A c \in found : c.path \in names /\ Right(dir, c.path, c.class)
  /\ \A c, d \in found : c.path = d.path => c = d
  /\ \A n \in names : \E c \in found : c.path = n

LEMMA CollidesIs ==
  ASSUME NEW E, NEW dir, IsDir(dir, E), Whole(dir)
  PROVE  CollisionPaths(Writes(dir)) = Collides(dir)
<1> DEFINE w == Writes(dir)
<1>1. ASSUME NEW p \in Paths PROVE Len(Of(w, {p})) >= 2 <=> ~(Len(Entries(dir, {p})) < 2)
  <2>1. Alike(Of(w, {p}), Entries(dir, {p})) /\ Entries(dir, {p}) \in Seq(E)
    BY DirScan
  <2> HIDE DEF w
  <2>2. Len(Entries(dir, {p})) \in Nat
    BY <2>1
  <2> QED BY <2>1, <2>2 DEF Alike
<1> HIDE DEF w
<1> QED
  BY <1>1 DEF CollisionPaths, Collides, w

\* Of a path, either all is read that the archives have, or less than the scan found.
LEMMA ReadIs ==
  ASSUME NEW E, NEW dir, IsDir(dir, E), Whole(dir), NEW P, NEW p \in P
  PROVE  LET mine == Of(Reread(dir, Writes(dir), P), {p})
         IN /\ mine \in Seq(E) /\ \A i \in DOMAIN mine : mine[i].path = p
            /\ ~(Len(mine) < Len(Of(Writes(dir), {p}))) => mine = Entries(dir, {p})
<1> DEFINE w    == Writes(dir)
           read == Reread(dir, w, P)
           mine == Of(read, {p})
           all  == Entries(dir, {p})
<1>1. RereadsAll(dir, w, P, JarOrder) \in Readings(E)
  BY Jar, RereadsAllStep
<1>2. read = RereadsAll(dir, w, P, JarOrder).blobs
  BY Zenon DEF Reread, RereadsAll
<1>3. Alike(Of(w, {p}), all) /\ all \in Seq(E)
  BY DirScan
<1>4. Behind(mine, all)
  BY DirReads
<1> HIDE DEF w, read
<1>5. read \in Seq(E)
  BY <1>1, <1>2 DEF Readings
<1>6. mine \in Seq(E)
  BY <1>5, OfStep
<1>7. \A x \in Members(mine) : Has(x, {p})
  BY <1>5, OfMembers
<1> HIDE DEF mine, all
<1>8. \A i \in DOMAIN mine : mine[i].path = p
  BY <1>7 DEF Has, Members
<1>9. ~(Len(mine) < Len(Of(w, {p}))) => mine = all
  <2>1. Len(mine) \in Nat /\ Len(all) \in Nat
    BY <1>3, <1>6
  <2> QED BY <1>3, <1>4, <2>1 DEF Alike, Behind
<1> QED
  BY <1>6, <1>8, <1>9 DEF w, read, mine, all

\* A batch is classified.
LEMMA ObservedRight ==
  ASSUME NEW E, NEW dir, IsDir(dir, E), Whole(dir), NEW B \in Members(CollisionBatches(Writes(dir)))
  PROVE  B \subseteq Collides(dir) /\ Covers(dir, Observed(dir, Writes(dir), B), B)
<1> DEFINE w == Writes(dir)
           read == Reread(dir, w, B)
           of(p) == IF Len(Of(read, {p})) < Len(Of(w, {p})) THEN Found("classification-unavailable", Null)
                    ELSE Classify(Domain[p], Blobs(Of(read, {p})))
<1>1. Observed(dir, w, B) = {Collision(p, of(p)) : p \in B}
  BY DEF Observed
<1>2. w \in Seq(Write) /\ Alike(Of(w, B), Entries(dir, B))
  BY DirScan
<1>3. B \subseteq Collides(dir) /\ Holds(w, B)
  <2>1. /\ UNION Members(CollisionBatches(w)) = CollisionPaths(w)
        /\ \A C \in Members(CollisionBatches(w)) : Holds(w, C)
    BY <1>2, BatchesHold
  <2>2. CollisionPaths(w) = Collides(dir)
    BY CollidesIs
  <2> HIDE DEF w
  <2>3. B \in Members(CollisionBatches(w))
    BY DEF w
  <2> QED BY <2>1, <2>2, <2>3
<1>4. ASSUME NEW p \in B PROVE Right(dir, p, of(p).class)
  <2> DEFINE mine == Of(read, {p})
             all == Entries(dir, {p})
  <2>1. Alike(Of(w, {p}), all) /\ all \in Seq(E)
    BY DirScan
  <2>2. /\ Behind(mine, all)
        /\ Size(Entries(dir, B)) <= PathCap /\ Solid(all) => Len(mine) = Len(all)
    BY DirReads
  <2>3. p \in Collides(dir)
    BY <1>3
  <2>4. CASE Len(mine) < Len(Of(w, {p}))
    <3>1. of(p).class = "classification-unavailable"
      BY <2>4 DEF Found
    <3> HIDE DEF w, mine, read
    <3>2. ~(Size(Entries(dir, B)) <= PathCap) \/ ~Solid(all)
      BY <2>1, <2>2, <2>4 DEF Alike
    <3>3. CASE ~Solid(all)
      BY <2>3, <3>1, <3>3 DEF Solid, Members, Unread, Right
    <3>4. CASE ~(Size(Entries(dir, B)) <= PathCap)
      <4>1. Bytes(w, B) = Size(Entries(dir, B))
        BY <1>2 DEF Bytes, Alike
      <4>2. B = {p}
        BY <1>3, <3>4, <4>1 DEF Holds
      <4>3. Size(all) \in Nat /\ PathCap \in Nat
        <5> HIDE DEF all
        <5> QED BY <2>1, SizeIsNat, OverlayAssumption DEF IsDir
      <4>4. Size(all) > PathCap
        BY <3>4, <4>2, <4>3
      <4> QED BY <2>3, <3>1, <4>4 DEF Unread, Right
    <3> QED BY <3>2, <3>3, <3>4
  <2>5. CASE ~(Len(mine) < Len(Of(w, {p})))
    <3>1. of(p) = Classify(Domain[p], Blobs(mine))
      BY <2>5
    <3>2. mine = all
      BY <2>5, ReadIs
    <3> HIDE DEF w, mine, read, all
    <3> QED BY <2>3, <3>1, <3>2 DEF Right, Class, all
  <2> QED BY <2>4, <2>5
<1> HIDE DEF w, of
<1>5. \A p \in B : Collision(p, of(p)).path = p /\ Collision(p, of(p)).class = of(p).class
  BY DEF Collision
<1>6. Covers(dir, Observed(dir, w, B), B)
  BY <1>1, <1>4, <1>5 DEF Covers
<1> QED
  BY <1>3, <1>6 DEF w

\* A path has entries when it is written.
LEMMA Written ==
  ASSUME NEW E, NEW dir, IsDir(dir, E), Whole(dir), NEW q \in Paths
  PROVE  Entries(dir, {q}) # <<>> <=> \E i \in DOMAIN Writes(dir) : Writes(dir)[i].path = q
<1> DEFINE w == Writes(dir)
           all == Entries(dir, {q})
<1>1. w \in Seq(Write) /\ all \in Seq(E) /\ Alike(Of(w, {q}), all)
  BY DirScan
<1> DEFINE u == Of(w, {q})
<1> HIDE DEF w, all
<1>2. u \in Seq(Write) /\ (Len(u) # 0 <=> Members(u) # {})
  <2>1. u \in Seq(Write)
    BY <1>1, OfStep
  <2> HIDE DEF u
  <2>2. Len(u) \in Nat /\ DOMAIN u = 1 .. Len(u)
    BY <2>1
  <2>3. Len(u) # 0 => 1 \in DOMAIN u
    BY <2>2
  <2>4. Members(u) # {} => Len(u) # 0
    BY <2>2 DEF Members
  <2>5. Len(u) # 0 => u[1] \in Members(u)
    BY <2>3 DEF Members
  <2> QED BY <2>1, <2>4, <2>5
<1>3. ASSUME all # <<>> PROVE \E i \in DOMAIN w : w[i].path = q
  <2>1. Len(u) # 0
    BY <1>1, <1>3 DEF Alike
  <2>2. PICK x \in Members(u) : TRUE
    BY <1>2, <2>1
  <2>3. x \in Members(w) /\ Has(x, {q})
    BY <1>1, <2>2, OfMembers
  <2> QED BY <2>3 DEF Members, Has
<1>4. ASSUME NEW i \in DOMAIN w, w[i].path = q PROVE all # <<>>
  <2>1. w[i] \in Members(w) /\ Has(w[i], {q})
    BY <1>4 DEF Members, Has
  <2>2. w[i] \in Members(u)
    BY <1>1, <2>1, OfKeeps
  <2>3. Len(u) # 0
    BY <1>2, <2>2
  <2> QED BY <1>1, <2>3 DEF Alike
<1> QED
  BY <1>3, <1>4 DEF w, all

\* Every locale in two formats is found.
LEMMA CrossRight ==
  ASSUME NEW E, NEW dir, IsDir(dir, E), Whole(dir)
  PROVE  Covers(dir, CrossFormat(Writes(dir)), Mixed(dir))
<1> DEFINE w == Writes(dir)
           locales == {Locale[w[i].path] : i \in DOMAIN w} \ {Null}
           formats(l) == {Domain[w[i].path] : i \in {n \in DOMAIN w : Locale[w[n].path] = l}}
           kinds(l) == {Domain[path] : path \in {q \in Paths : Locale[q] = l /\ Entries(dir, {q}) # <<>>}}
           mixed == {m \in locales : Cardinality(formats(m)) > 1}
           one(l) == Collision(l, Found("lang-format-mismatch", Null))
<1>1. CrossFormat(w) = {one(l) : l \in mixed}
  BY DEF CrossFormat
<1>2. \A i \in DOMAIN w : w[i].path \in Paths
  <2>1. w \in Seq(Write)
    BY DirScan
  <2> HIDE DEF w
  <2>2. \A i \in DOMAIN w : w[i] \in Write
    BY <2>1
  <2> QED BY <2>2 DEF Write
<1>3. \A q \in Paths : Entries(dir, {q}) # <<>> <=> \E i \in DOMAIN w : w[i].path = q
  BY Written
<1> HIDE DEF w
<1>4. ASSUME NEW l PROVE formats(l) = kinds(l)
  <2>1. ASSUME NEW d \in formats(l) PROVE d \in kinds(l)
    <3>1. PICK i \in DOMAIN w : Locale[w[i].path] = l /\ d = Domain[w[i].path]
      BY <2>1
    <3>2. w[i].path \in Paths /\ Entries(dir, {w[i].path}) # <<>>
      BY <1>2, <1>3
    <3> QED BY <3>1, <3>2
  <2>2. ASSUME NEW d \in kinds(l) PROVE d \in formats(l)
    <3>1. PICK q \in Paths : Locale[q] = l /\ Entries(dir, {q}) # <<>> /\ d = Domain[q]
      BY <2>2
    <3>2. PICK i \in DOMAIN w : w[i].path = q
      BY <1>3, <3>1
    <3> QED BY <3>1, <3>2
  <2> HIDE DEF formats, kinds
  <2> QED BY <2>1, <2>2
<1>5. ASSUME NEW l \in mixed PROVE l \in Mixed(dir)
  <2>1. l \in locales /\ Cardinality(formats(l)) > 1
    OBVIOUS
  <2>2. l \in Locales
    <3>1. PICK i \in DOMAIN w : l = Locale[w[i].path] /\ l # Null
      BY <2>1
    <3> QED BY <1>2, <3>1, NameAssumption DEF Locales
  <2> HIDE DEF formats
  <2>3. Cardinality(kinds(l)) > 1
    BY <1>4, <2>1
  <2> QED BY <2>2, <2>3 DEF Mixed
<1>6. ASSUME NEW l \in Mixed(dir) PROVE l \in mixed
  <2>1. l \in Locales /\ Cardinality(kinds(l)) > 1
    BY DEF Mixed
  <2>2. Cardinality(formats(l)) > 1
    <3> HIDE DEF formats, kinds
    <3> QED BY <1>4, <2>1
  <2>3. formats(l) # {}
    <3> HIDE DEF formats
    <3> QED BY <2>2, FS_EmptySet
  <2>4. PICK i \in DOMAIN w : Locale[w[i].path] = l
    BY <2>3
  <2>5. l \in locales
    BY <2>1, <2>4, NameAssumption DEF Locales
  <2> HIDE DEF formats, locales
  <2> QED BY <2>2, <2>5
<1> HIDE DEF mixed
<1>7. \A l : one(l).path = l /\ one(l).class = "lang-format-mismatch"
  BY DEF Collision, Found
<1> HIDE DEF one
<1>8. Covers(dir, CrossFormat(w), Mixed(dir))
  BY <1>1, <1>5, <1>6, <1>7 DEF Covers, Right
<1> QED
  BY <1>8 DEF w

-----------------------------------------------------------------------------
(* The list of the collisions.                                               *)

\* What is listed of the names: each once, in one of three sets, with a right
\* class; what is not listed is one content.
Listing(dir, collisions, items, skipped, names) ==
  /\ \A x \in collisions \union items \union skipped : x.path \in names /\ Right(dir, x.path, x.class)
  /\ \A x, y \in collisions : x.path = y.path => x = y
  /\ \A x, y \in items \union skipped : x.path = y.path => x = y
  /\ items \intersect skipped = {}
  /\ \A x \in collisions : \A y \in items \union skipped : x.path # y.path
  /\ \A y \in items \union skipped : y.class # "identical"
  /\ \A n \in names : \/ \E x \in collisions \union items \union skipped : x.path = n
                      \/ n \in Collides(dir) /\ Class(dir, n) = "identical"

\* More names are classified.
LEMMA ListingGrows ==
  ASSUME NEW dir, NEW c, NEW i, NEW s, NEW names, Listing(dir, c, i, s, names),
         NEW found, NEW more, Covers(dir, found, more), names \intersect more = {}
  PROVE  Listing(dir, c \union found, i, s, names \union more)
<1> DEFINE all == c \union found
<1>1. \A x \in c \union i \union s : x.path \in names
  BY DEF Listing
<1>2. \A x \in found : x.path \in more
  BY DEF Covers
<1>3. \A x \in all \union i \union s : x.path \in names \union more /\ Right(dir, x.path, x.class)
  BY DEF Listing, Covers
<1>4. \A x, y \in all : x.path = y.path => x = y
  BY <1>1, <1>2 DEF Listing, Covers
<1>5. \A x \in all : \A y \in i \union s : x.path # y.path
  BY <1>1, <1>2 DEF Listing
<1>6. \A n \in names \union more : \/ \E x \in all \union i \union s : x.path = n
                                   \/ n \in Collides(dir) /\ Class(dir, n) = "identical"
  BY DEF Listing, Covers
<1> QED
  BY <1>3, <1>4, <1>5, <1>6 DEF Listing

\* One content is passed over.
LEMMA ListingPasses ==
  ASSUME NEW dir, NEW c, NEW i, NEW s, NEW names, Listing(dir, c, i, s, names), NEW x \in c, x.class = "identical"
  PROVE  Listing(dir, c \ {x}, i, s, names)
<1>1. x.path \in Collides(dir) /\ Class(dir, x.path) = "identical"
  BY DEF Listing, Right
<1>2. \A n \in names : \/ \E y \in (c \ {x}) \union i \union s : y.path = n
                       \/ n \in Collides(dir) /\ Class(dir, n) = "identical"
  BY <1>1 DEF Listing
<1> QED
  BY <1>2 DEF Listing

\* A collision becomes an item that is skipped or staged.
LEMMA ListingMoves ==
  ASSUME NEW dir, NEW c, NEW i, NEW s, NEW names, Listing(dir, c, i, s, names), NEW x \in c, x.class # "identical",
         NEW y, y.path = x.path, y.class = x.class
  PROVE  /\ Listing(dir, c \ {x}, i \union {y}, s, names)
         /\ Listing(dir, c \ {x}, i, s \union {y}, names)
<1> DEFINE rest == c \ {x}
           old  == i \union s
           new  == old \union {y}
<1>1. /\ \A z \in rest \union new : z.path \in names /\ Right(dir, z.path, z.class)
      /\ \A z \in old : z.path # y.path
  BY DEF Listing
<1>2. \A z, v \in new : z.path = v.path => z = v
  BY <1>1 DEF Listing
<1>3. \A z \in rest : \A v \in new : z.path # v.path
  BY DEF Listing
<1>4. \A v \in new : v.class # "identical"
  BY DEF Listing
<1>5. \A n \in names : \/ \E z \in rest \union new : z.path = n
                       \/ n \in Collides(dir) /\ Class(dir, n) = "identical"
  <2>1. \A n \in names : \/ \E z \in c \union old : z.path = n
                         \/ n \in Collides(dir) /\ Class(dir, n) = "identical"
    BY DEF Listing
  <2> QED BY <2>1
<1>6. /\ (i \union {y}) \intersect s = {} /\ i \intersect (s \union {y}) = {}
      /\ \A z, v \in rest : z.path = v.path => z = v
  BY <1>1 DEF Listing
<1>7. /\ (i \union {y}) \union s = new /\ i \union (s \union {y}) = new
      /\ rest \union (i \union {y}) \union s = rest \union new
      /\ rest \union i \union (s \union {y}) = rest \union new
  OBVIOUS
<1> HIDE DEF rest, new
<1>8. Listing(dir, rest, i \union {y}, s, names)
  BY <1>1, <1>2, <1>3, <1>4, <1>5, <1>6, <1>7 DEF Listing
<1>9. Listing(dir, rest, i, s \union {y}, names)
  BY <1>1, <1>2, <1>3, <1>4, <1>5, <1>6, <1>7 DEF Listing
<1> QED
  BY <1>8, <1>9 DEF rest

\* A list of all names accounts for the directory.
LEMMA ListingAccounts ==
  ASSUME NEW dir, NEW i, NEW s, Listing(dir, {}, i, s, Collides(dir) \union Mixed(dir))
  PROVE  i \intersect s = {} /\ Accounted(dir, i \union s)
<1> DEFINE all == i \union s
<1>1. /\ \A x \in all : /\ x.path \in Collides(dir) \union Mixed(dir) /\ Right(dir, x.path, x.class)
                        /\ x.class # "identical"
      /\ \A x, y \in all : x.path = y.path => x = y
      /\ \A n \in Collides(dir) \union Mixed(dir) : \/ \E x \in all : x.path = n
                                                    \/ n \in Collides(dir) /\ Class(dir, n) = "identical"
      /\ i \intersect s = {}
  BY DEF Listing
<1>2. Collides(dir) \subseteq Paths /\ Mixed(dir) \subseteq Locales /\ Paths \intersect Locales = {}
  BY DEF Collides, Mixed, Locales
<1> HIDE DEF all
<1>3. ASSUME NEW path \in Paths
      PROVE  LET mine == {x.class : x \in Named(all, path)}
             IN /\ Cardinality(Named(all, path)) <= 1
                /\ IF Len(Entries(dir, {path})) < 2 THEN mine = {}
                   ELSE \/ mine = {Class(dir, path)} \ {"identical"}
                        \/ Unread(dir, path) /\ mine = {"classification-unavailable"}
  <2> DEFINE mine == {x.class : x \in Named(all, path)}
  <2>1. path \in Collides(dir) <=> ~(Len(Entries(dir, {path})) < 2)
    BY DEF Collides
  <2>2. CASE \E x \in all : x.path = path
    <3>1. PICK x \in all : x.path = path
      BY <2>2
    <3>2. Named(all, path) = {x}
      BY <1>1, <3>1 DEF Named
    <3>3. Cardinality(Named(all, path)) = 1 /\ mine = {x.class}
      BY <3>2, FS_Singleton
    <3>4. path \in Collides(dir) /\ path \notin Mixed(dir)
      BY <1>1, <1>2, <3>1
    <3>5. \/ x.class = Class(dir, path)
          \/ x.class = "classification-unavailable" /\ Unread(dir, path)
      BY <1>1, <3>1, <3>4 DEF Right
    <3>6. x.class # "identical"
      BY <1>1
    <3> QED BY <2>1, <3>3, <3>4, <3>5, <3>6
  <2>3. CASE ~\E x \in all : x.path = path
    <3>1. Named(all, path) = {} /\ mine = {}
      BY <2>3 DEF Named
    <3>2. Cardinality(Named(all, path)) = 0
      BY <3>1, FS_EmptySet
    <3>3. path \in Collides(dir) => Class(dir, path) = "identical"
      BY <1>1, <2>3
    <3> QED BY <2>1, <3>1, <3>2, <3>3
  <2> QED BY <2>2, <2>3
<1>4. ASSUME NEW locale \in Locales PROVE Named(all, locale) # {} <=> locale \in Mixed(dir)
  <2>1. ASSUME NEW x \in Named(all, locale) PROVE locale \in Mixed(dir)
    <3>1. x \in all /\ x.path = locale
      BY DEF Named
    <3> QED BY <1>1, <1>2, <3>1
  <2>2. ASSUME locale \in Mixed(dir) PROVE Named(all, locale) # {}
    BY <1>1, <1>2, <2>2 DEF Named
  <2> QED BY <2>1, <2>2
<1>5. Accounted(dir, all)
  BY <1>3, <1>4 DEF Accounted, Class, Unread, Mixed, Locales
<1> QED
  BY <1>1, <1>5 DEF all

-----------------------------------------------------------------------------
(* The inductive invariant.                                                  *)

\* The names that have been classified.
Done(dir, batches, staged) ==
  {p \in Collides(dir) : \A B \in Members(batches) : p \notin B} \union (IF staged THEN Mixed(dir) ELSE {})

\* A run under which no archive has changed: its list accounts for all that
\* is classified, and all else is in the batches it has left.
Sound(dir, r, staged) ==
  /\ r.writes = Writes(dir)
  /\ r.batches \in Seq(SUBSET Paths) /\ Apart(r.batches)
  /\ Members(r.batches) \subseteq Members(CollisionBatches(Writes(dir)))
  /\ Listing(dir, r.collisions, r.items, r.skipped, Done(dir, r.batches, staged))

Labels    == {"idle", "check", "scan", "classify", "stage", "commit", "fail"}
Fields    == {"winners", "writes", "batches", "collisions", "items", "skipped", "seen", "stale"}
Record(r, S) == r = [f \in S |-> r[f]]
IsRun(r)  == Record(r, Fields)
IsTmp(t)  == Record(t, {"exists", "files", "manifest"}) /\ t.exists
PlanOf(r) == [items |-> r.items, skipped |-> r.skipped, safe |-> \A i \in r.items : i.safe]

Scanned(dir, label, r) ==
  label \in {"classify", "stage", "commit"} =>
    /\ IsRun(r) /\ (label = "classify" => r.items = {})
    /\ ~r.stale => r.seen = dir /\ (Whole(dir) => Sound(dir, r, label # "classify"))

Staged(label, r, t) ==
  /\ label \in {"stage", "commit"} =>
       IsTmp(t) /\ r.batches = <<>> /\ DOMAIN t.files = {i.path : i \in r.items}
  /\ label = "commit" => t.manifest = {PlanOf(r)} /\ r.collisions = {}

Archives == DOMAIN jars = Jars /\ \A j \in Jars : IsArchive(jars[j])

Shape == /\ pc \in [Processes -> Labels]
         /\ run = [p \in Processes |-> run[p]] /\ tmp = [p \in Processes |-> tmp[p]]

Inv == /\ Archives /\ Shape
       /\ \A p \in Processes : Scanned(jars, pc[p], run[p]) /\ Staged(pc[p], run[p], tmp[p])
       /\ PublishedIsWhole

LEMMA InvInit == Init => Inv
<1> SUFFICES ASSUME Init PROVE Inv
  OBVIOUS
<1>1. jars \in Packs /\ DOMAIN jars = Jars /\ \A j \in Jars : IsArchive(jars[j])
  BY ArchiveAssumption DEF Init
<1>2. pc = [p \in Processes |-> "idle"] /\ Shape
  BY DEF Init, Shape, Labels
<1>3. \A p \in Processes : Scanned(jars, pc[p], run[p]) /\ Staged(pc[p], run[p], tmp[p])
  BY <1>2 DEF Scanned, Staged
<1>4. PublishedIsWhole
  BY DEF Init, Absent, PublishedIsWhole
<1> QED
  BY <1>1, <1>2, <1>3, <1>4 DEF Inv, Archives

\* The archives of a directory have entries.
EntriesOf(dir) == UNION {ToSet(dir[j]) : j \in {k \in Jars : dir[k] # Unreadable}}

LEMMA ArchivesDir == Archives => IsDir(jars, EntriesOf(jars))
<1> SUFFICES ASSUME Archives PROVE IsDir(jars, EntriesOf(jars))
  OBVIOUS
<1> DEFINE E == EntriesOf(jars)
<1>1. ASSUME NEW e \in E PROVE e.path \in Paths /\ e.size \in Nat
  BY DEF Archives, EntriesOf, IsArchive, IsEntry
<1>2. ASSUME NEW j \in Jars, jars[j] # Unreadable PROVE jars[j] \in Seq(E)
  <2>1. jars[j] \in Seq(ToSet(jars[j])) /\ ToSet(jars[j]) \subseteq E
    BY <1>2 DEF Archives, EntriesOf, IsArchive, IsEntry
  <2> DEFINE S == ToSet(jars[j])
             s == jars[j]
  <2> HIDE DEF E, S, s
  <2>2. s \in Seq(S) /\ S \subseteq E
    BY <2>1 DEF S, s
  <2>3. s \in Seq(E)
    BY <2>2
  <2> QED BY <2>3 DEF s
<1> HIDE DEF E
<1> QED
  BY <1>1, <1>2 DEF IsDir, IsEntries, E

\* A step of one process.
LEMMA OneStep ==
  ASSUME Inv, NEW p \in Processes, NEW label \in Labels, NEW r, NEW t,
         Scanned(jars, label, r), Staged(label, r, t),
         pc' = [pc EXCEPT ![p] = label], run' = [run EXCEPT ![p] = r], tmp' = [tmp EXCEPT ![p] = t],
         UNCHANGED jars, PublishedIsWhole'
  PROVE  Inv'
<1>1. Shape /\ Shape'
  BY DEF Inv, Shape
<1>2. \A q \in Processes : /\ pc'[q] = IF q = p THEN label ELSE pc[q]
                           /\ run'[q] = IF q = p THEN r ELSE run[q]
                           /\ tmp'[q] = IF q = p THEN t ELSE tmp[q]
  BY <1>1 DEF Shape
<1>3. \A q \in Processes : Scanned(jars, pc'[q], run'[q]) /\ Staged(pc'[q], run'[q], tmp'[q])
  BY <1>2 DEF Inv
<1>4. Archives'
  BY DEF Inv, Archives
<1> QED
  BY <1>1, <1>3, <1>4 DEF Inv

\* A step of one process that publishes nothing.
LEMMA LocalStep ==
  ASSUME Inv, NEW p \in Processes, NEW label \in Labels, NEW r, NEW t,
         Scanned(jars, label, r), Staged(label, r, t),
         pc' = [pc EXCEPT ![p] = label], run' = [run EXCEPT ![p] = r], tmp' = [tmp EXCEPT ![p] = t],
         UNCHANGED <<jars, out, returned>>
  PROVE  Inv'
<1>1. PublishedIsWhole'
  BY DEF Inv, PublishedIsWhole
<1> QED
  BY <1>1, OneStep

\* What a process holds stays as it is when only its label changes to one at
\* which nothing is asked of it.
LEMMA QuietStep ==
  ASSUME Inv, NEW p \in Processes, NEW label \in {"idle", "check", "scan", "fail"},
         pc' = [pc EXCEPT ![p] = label],
         \/ run' = run
         \/ \E r : run' = [run EXCEPT ![p] = r],
         \/ tmp' = tmp
         \/ \E t : tmp' = [tmp EXCEPT ![p] = t],
         UNCHANGED <<jars, out, returned>>
  PROVE  Inv'
<1>1. PICK r : run' = [run EXCEPT ![p] = r]
  <2>1. CASE run' = run
    <3>1. run' = [run EXCEPT ![p] = run[p]]
      BY <2>1 DEF Inv, Shape
    <3> QED BY <3>1
  <2> QED BY <2>1
<1>2. PICK t : tmp' = [tmp EXCEPT ![p] = t]
  <2>1. CASE tmp' = tmp
    <3>1. tmp' = [tmp EXCEPT ![p] = tmp[p]]
      BY <2>1 DEF Inv, Shape
    <3> QED BY <3>1
  <2> QED BY <2>1
<1>3. label \in Labels /\ Scanned(jars, label, r) /\ Staged(label, r, t)
  BY DEF Labels, Scanned, Staged
<1> QED
  BY <1>1, <1>2, <1>3, LocalStep

-----------------------------------------------------------------------------
(* The steps of a process.                                                   *)

\* What a step changes of a record.
LEMMA RecordSet ==
  ASSUME NEW S, NEW r, Record(r, S), NEW f \in S, NEW v
  PROVE  /\ Record([r EXCEPT ![f] = v], S)
         /\ \A g \in S : [r EXCEPT ![f] = v][g] = IF g = f THEN v ELSE r[g]
<1> DEFINE s == [r EXCEPT ![f] = v]
<1>1. DOMAIN r = S /\ r = [g \in S |-> r[g]]
  BY DEF Record
<1>2. s = [g \in S |-> IF g = f THEN v ELSE r[g]]
  BY <1>1
<1> HIDE DEF s
<1>3. s = [g \in S |-> s[g]]
  BY <1>2
<1> QED
  BY <1>2, <1>3 DEF s, Record

LEMMA RunSet ==
  ASSUME NEW r, IsRun(r), NEW f \in Fields, NEW v
  PROVE  /\ IsRun([r EXCEPT ![f] = v])
         /\ \A g \in Fields : [r EXCEPT ![f] = v][g] = IF g = f THEN v ELSE r[g]
BY RecordSet DEF IsRun

LEMMA TmpSet ==
  ASSUME NEW t, IsTmp(t), NEW f \in {"files", "manifest"}, NEW v
  PROVE  /\ IsTmp([t EXCEPT ![f] = v]) /\ [t EXCEPT ![f] = v][f] = v
         /\ \A g \in {"files", "manifest"} : g # f => [t EXCEPT ![f] = v][g] = t[g]
<1> DEFINE S == {"exists", "files", "manifest"}
           s == [t EXCEPT ![f] = v]
<1>1. Record(s, S) /\ \A g \in S : s[g] = IF g = f THEN v ELSE t[g]
  BY RecordSet DEF IsTmp
<1> HIDE DEF s
<1>2. s.exists
  BY <1>1 DEF IsTmp
<1> QED
  BY <1>1, <1>2 DEF s, IsTmp

LEMMA QuietSteps ==
  ASSUME Inv, NEW p \in Processes,
         \/ \E winners \in BOOLEAN : Begin(p, winners)
         \/ CheckOut(p) \/ WriteFails(p) \/ Crash(p) \/ \E removed \in BOOLEAN : Fail(p, removed)
  PROVE  Inv'
<1>1. pc = [pc EXCEPT ![p] = pc[p]]
  BY DEF Inv, Shape
<1>2. ASSUME NEW winners \in BOOLEAN, Begin(p, winners) PROVE Inv'
  <2>1. CASE tmp[p].exists
    <3>1. pc' = [pc EXCEPT ![p] = "idle"] /\ UNCHANGED <<run, tmp, jars, out, returned>>
      BY <1>1, <1>2, <2>1 DEF Begin, Files
    <3> QED BY <3>1, QuietStep
  <2>2. CASE ~tmp[p].exists
    <3>1. /\ pc' = [pc EXCEPT ![p] = "check"] /\ run' = [run EXCEPT ![p] = [winners |-> winners]]
          /\ UNCHANGED <<tmp, jars, out, returned>>
      BY <1>2, <2>2 DEF Begin, Files, Goto
    <3> QED BY <3>1, QuietStep
  <2> QED BY <2>1, <2>2
<1>3. CASE CheckOut(p)
  <2>1. UNCHANGED <<run, tmp, jars, out, returned>>
    BY <1>3 DEF CheckOut, Files
  <2>2. pc' = [pc EXCEPT ![p] = "fail"] \/ pc' = [pc EXCEPT ![p] = "scan"]
    BY <1>3 DEF CheckOut, Goto
  <2> QED BY <2>1, <2>2, QuietStep
<1>4. CASE WriteFails(p)
  <2>1. pc' = [pc EXCEPT ![p] = "fail"] /\ UNCHANGED <<run, tmp, jars, out, returned>>
    BY <1>4 DEF WriteFails, Files, Goto
  <2> QED BY <2>1, QuietStep
<1>5. CASE Crash(p)
  <2>1. /\ pc' = [pc EXCEPT ![p] = "idle"] /\ run' = [run EXCEPT ![p] = Null]
        /\ UNCHANGED <<tmp, jars, out, returned>>
    BY <1>5 DEF Crash, Exit, Files
  <2> QED BY <2>1, QuietStep
<1>6. ASSUME NEW removed \in BOOLEAN, Fail(p, removed) PROVE Inv'
  <2>1. /\ pc' = [pc EXCEPT ![p] = "idle"] /\ run' = [run EXCEPT ![p] = Null]
        /\ tmp' = tmp \/ tmp' = [tmp EXCEPT ![p] = Absent]
        /\ UNCHANGED <<jars, out, returned>>
    BY <1>6 DEF Fail, Exit
  <2> QED BY <2>1, QuietStep
<1> QED
  BY <1>2, <1>3, <1>4, <1>5, <1>6

LEMMA ScanStep ==
  ASSUME Inv, NEW p \in Processes, Scan(p)
  PROVE  Inv'
<1> DEFINE w == Writes(jars)
           q == CollisionBatches(w)
           r == [winners |-> run[p].winners, writes |-> w, batches |-> q, collisions |-> {}, items |-> {},
                 skipped |-> {}, seen |-> jars, stale |-> FALSE]
<1>1. /\ pc' = [pc EXCEPT ![p] = "classify"] /\ run' = [run EXCEPT ![p] = r]
      /\ tmp' = [tmp EXCEPT ![p] = tmp[p]] /\ UNCHANGED <<jars, out, returned>>
  BY DEF Scan, Goto, Files, Inv, Shape
<1>2. ASSUME Whole(jars) PROVE Sound(jars, r, FALSE)
  <2> DEFINE E == EntriesOf(jars)
  <2>1. IsDir(jars, E)
    BY ArchivesDir DEF Inv
  <2> HIDE DEF E
  <2>2. w \in Seq(Write)
    BY <1>2, <2>1, DirScan
  <2>3. CollisionPaths(w) = Collides(jars)
    BY <1>2, <2>1, CollidesIs
  <2> HIDE DEF w
  <2>4. q \in Seq(SUBSET Paths) /\ Apart(q) /\ UNION Members(q) = Collides(jars)
    BY <2>2, <2>3, BatchesHold
  <2>5. r.writes = w /\ r.batches = q /\ r.collisions = {} /\ r.items = {} /\ r.skipped = {}
    OBVIOUS
  <2> HIDE DEF q, r
  <2>6. Done(jars, q, FALSE) = {}
    BY <2>4 DEF Done
  <2>7. Listing(jars, {}, {}, {}, Done(jars, q, FALSE))
    BY <2>6 DEF Listing
  <2> QED BY <2>4, <2>5, <2>7 DEF Sound, w, q
<1>3. r.seen = jars /\ r.items = {} /\ IsRun(r)
  BY DEF IsRun, Record, Fields
<1> HIDE DEF r
<1>4. Scanned(jars, "classify", r) /\ Staged("classify", r, tmp[p])
  BY <1>2, <1>3 DEF Scanned, Staged
<1> QED
  BY <1>1, <1>4, LocalStep DEF Labels

LEMMA HeadTail ==
  ASSUME NEW q \in Seq(SUBSET Paths), q # <<>>, Apart(q)
  PROVE  /\ Tail(q) \in Seq(SUBSET Paths) /\ Apart(Tail(q))
         /\ Members(q) = {Head(q)} \union Members(Tail(q))
         /\ \A B \in Members(Tail(q)) : B \intersect Head(q) = {}
<1> DEFINE t == Tail(q)
           h == Head(q)
<1>1. /\ Len(q) \in Nat \ {0} /\ DOMAIN q = 1 .. Len(q) /\ h = q[1]
      /\ t \in Seq(SUBSET Paths) /\ DOMAIN t = 1 .. Len(q) - 1
      /\ \A i \in 1 .. Len(q) - 1 : t[i] = q[i + 1]
  OBVIOUS
<1> HIDE DEF t, h
<1>2. ASSUME NEW i \in DOMAIN t, NEW k \in DOMAIN t, i # k PROVE t[i] \intersect t[k] = {}
  <2>1. i + 1 \in DOMAIN q /\ k + 1 \in DOMAIN q /\ i + 1 # k + 1 /\ t[i] = q[i + 1] /\ t[k] = q[k + 1]
    BY <1>1, <1>2
  <2> QED BY <2>1 DEF Apart
<1>3. ASSUME NEW i \in DOMAIN t PROVE t[i] \intersect h = {} /\ t[i] \in Members(q)
  <2>1. i + 1 \in DOMAIN q /\ 1 \in DOMAIN q /\ i + 1 # 1 /\ t[i] = q[i + 1]
    BY <1>1
  <2> QED BY <1>1, <2>1 DEF Apart, Members
<1>4. h \in Members(q)
  <2>1. 1 \in DOMAIN q
    BY <1>1
  <2> QED BY <1>1, <2>1 DEF Members
<1>5. ASSUME NEW i \in DOMAIN q PROVE q[i] = h \/ q[i] \in Members(t)
  <2>1. CASE i = 1
    BY <1>1, <2>1
  <2>2. CASE i # 1
    <3>1. i - 1 \in DOMAIN t /\ t[i - 1] = q[i]
      BY <1>1, <2>2
    <3> QED BY <3>1 DEF Members
  <2> QED BY <2>1, <2>2
<1>6. Members(q) = {h} \union Members(t)
  BY <1>3, <1>4, <1>5 DEF Members
<1> QED
  BY <1>1, <1>2, <1>3, <1>6 DEF Apart, Members, t, h

LEMMA ClassifyStep ==
  ASSUME Inv, NEW p \in Processes, ClassifyBatch(p)
  PROVE  Inv'
<1> DEFINE r == run[p]
           b == Tail(r.batches)
           f == Observed(jars, r.writes, Head(r.batches))
           c == r.collisions \union f
           s == [r EXCEPT !.batches = b, !.collisions = c]
<1>1. pc[p] = "classify" /\ r.batches # <<>> /\ Shape
  BY DEF ClassifyBatch, Inv
<1>2. run' = [run EXCEPT ![p] = s]
  BY <1>1 DEF ClassifyBatch, Shape
<1>3. pc' = [pc EXCEPT ![p] = "classify"] /\ tmp' = [tmp EXCEPT ![p] = tmp[p]] /\ UNCHANGED <<jars, out, returned>>
  BY <1>1 DEF ClassifyBatch, Files, Shape
<1>4. IsRun(r) /\ r.items = {} /\ (~r.stale => r.seen = jars /\ (Whole(jars) => Sound(jars, r, FALSE)))
  BY <1>1 DEF Inv, Scanned
<1> HIDE DEF r
<1>5. ASSUME Sound(jars, r, FALSE), Whole(jars)
      PROVE  /\ b \in Seq(SUBSET Paths) /\ Apart(b) /\ Members(b) \subseteq Members(CollisionBatches(Writes(jars)))
             /\ Listing(jars, c, r.items, r.skipped, Done(jars, b, FALSE))
  <2> DEFINE q == r.batches
             h == Head(q)
             E == EntriesOf(jars)
  <2>1. /\ q \in Seq(SUBSET Paths) /\ Apart(q) /\ Members(q) \subseteq Members(CollisionBatches(Writes(jars)))
        /\ r.writes = Writes(jars) /\ Listing(jars, r.collisions, r.items, r.skipped, Done(jars, q, FALSE))
    BY <1>5 DEF Sound
  <2>2. /\ b \in Seq(SUBSET Paths) /\ Apart(b) /\ Members(q) = {h} \union Members(b)
        /\ \A B \in Members(b) : B \intersect h = {}
    <3> HIDE DEF q
    <3>1. b = Tail(q)
      BY DEF q
    <3> QED BY <1>1, <2>1, <3>1, HeadTail DEF q
  <2>3. IsDir(jars, E)
    BY ArchivesDir DEF Inv
  <2> HIDE DEF E, h, q, b
  <2>4. h \in Members(CollisionBatches(Writes(jars)))
    BY <2>1, <2>2
  <2>5. h \subseteq Collides(jars) /\ Covers(jars, Observed(jars, Writes(jars), h), h)
    BY <1>5, <2>3, <2>4, ObservedRight
  <2>6. f = Observed(jars, Writes(jars), h)
    BY <2>1 DEF h, q
  <2>7. Done(jars, b, FALSE) = Done(jars, q, FALSE) \union h /\ Done(jars, q, FALSE) \intersect h = {}
    BY <2>2, <2>5 DEF Done
  <2> HIDE DEF f
  <2>8. Listing(jars, r.collisions \union f, r.items, r.skipped, Done(jars, q, FALSE) \union h)
    BY <2>1, <2>5, <2>6, <2>7, ListingGrows
  <2> QED BY <2>1, <2>2, <2>7, <2>8
<1> HIDE DEF b, c
<1>6. /\ IsRun(s) /\ s.batches = b /\ s.collisions = c /\ s.items = r.items /\ s.skipped = r.skipped
      /\ s.writes = r.writes /\ s.seen = r.seen /\ s.stale = r.stale
  <2> DEFINE z == [r EXCEPT !.batches = b]
  <2>1. IsRun(z) /\ \A g \in Fields : z[g] = IF g = "batches" THEN b ELSE r[g]
    BY <1>4, RunSet DEF Fields
  <2>2. s = [z EXCEPT !.collisions = c]
    OBVIOUS
  <2> HIDE DEF z, s
  <2>3. IsRun(s) /\ \A g \in Fields : s[g] = IF g = "collisions" THEN c ELSE z[g]
    BY <2>1, <2>2, RunSet DEF Fields
  <2> QED BY <2>1, <2>3 DEF Fields
<1> HIDE DEF s
<1>7. ~s.stale => s.seen = jars /\ (Whole(jars) => Sound(jars, s, FALSE))
  BY <1>4, <1>5, <1>6 DEF Sound
<1>8. Scanned(jars, "classify", s) /\ Staged("classify", s, tmp[p])
  BY <1>4, <1>6, <1>7 DEF Scanned, Staged
<1> QED
  BY <1>2, <1>3, <1>8, LocalStep DEF Labels

LEMMA CreateTmpStep ==
  ASSUME Inv, NEW p \in Processes, CreateTmp(p)
  PROVE  Inv'
<1> DEFINE r == run[p]
           f == CrossFormat(r.writes)
           c == r.collisions \union f
           s == [r EXCEPT !.collisions = c]
           t == [exists |-> TRUE, files |-> [n \in {} |-> Null], manifest |-> {}]
<1>1. pc[p] = "classify" /\ r.batches = <<>> /\ Shape
  BY DEF CreateTmp, Inv
<1>2. run' = [run EXCEPT ![p] = s]
  BY <1>1 DEF CreateTmp, Shape
<1>3. pc' = [pc EXCEPT ![p] = "stage"] /\ tmp' = [tmp EXCEPT ![p] = t] /\ UNCHANGED <<jars, out, returned>>
  BY DEF CreateTmp, Goto
<1>4. IsRun(r) /\ r.items = {} /\ (~r.stale => r.seen = jars /\ (Whole(jars) => Sound(jars, r, FALSE)))
  BY <1>1 DEF Inv, Scanned
<1>5. t.files = [n \in {} |-> Null] /\ IsTmp(t) /\ DOMAIN t.files = {}
  BY DEF IsTmp, Record
<1> HIDE DEF r, t
<1>6. ASSUME Sound(jars, r, FALSE), Whole(jars)
      PROVE  Listing(jars, c, r.items, r.skipped, Done(jars, <<>>, TRUE))
  <2>1. r.writes = Writes(jars) /\ Listing(jars, r.collisions, r.items, r.skipped, Done(jars, <<>>, FALSE))
    BY <1>1, <1>6 DEF Sound
  <2>2. Covers(jars, f, Mixed(jars))
    BY <1>6, <2>1, ArchivesDir, CrossRight DEF Inv
  <2>3. /\ Done(jars, <<>>, TRUE) = Done(jars, <<>>, FALSE) \union Mixed(jars)
        /\ Done(jars, <<>>, FALSE) \intersect Mixed(jars) = {}
    BY DEF Done, Collides, Mixed, Locales
  <2>4. Listing(jars, r.collisions \union f, r.items, r.skipped, Done(jars, <<>>, FALSE) \union Mixed(jars))
    <3> HIDE DEF f
    <3> QED BY <2>1, <2>2, <2>3, ListingGrows
  <2> QED BY <2>3, <2>4
<1> HIDE DEF c
<1>7. /\ IsRun(s) /\ s.batches = <<>> /\ s.collisions = c /\ s.items = {} /\ s.skipped = r.skipped
      /\ s.writes = r.writes /\ s.seen = r.seen /\ s.stale = r.stale
  BY <1>1, <1>4, RunSet DEF Fields
<1> HIDE DEF s
<1>8. ~s.stale => s.seen = jars /\ (Whole(jars) => Sound(jars, s, TRUE))
  BY <1>1, <1>4, <1>6, <1>7 DEF Sound
<1>9. Scanned(jars, "stage", s)
  BY <1>7, <1>8 DEF Scanned
<1>10. Staged("stage", s, t)
  <2>1. {i.path : i \in s.items} = {}
    BY <1>7
  <2> QED BY <1>5, <1>7, <2>1 DEF Staged
<1> QED
  BY <1>2, <1>3, <1>9, <1>10, LocalStep DEF Labels

\* The collision that is next is one of the list.
LEMMA UpcomingIn ==
  ASSUME NEW p, NEW dir, NEW b, run[p].collisions # {},
         Listing(dir, run[p].collisions, run[p].items, run[p].skipped, Done(dir, b, TRUE))
  PROVE  Upcoming(p) \in run[p].collisions
<1> DEFINE c == run[p].collisions
           N == {Rank[x.path] : x \in c}
<1>1. \A x \in c : x.path \in DOMAIN Rank
  BY NameAssumption DEF Listing, Done, Collides, Mixed, Locales
<1>2. N \in SUBSET Nat /\ N # {}
  BY <1>1, NameAssumption
<1>3. PICK n \in N : \A m \in N : n <= m
  <2> HIDE DEF N
  <2> QED BY <1>2, Least
<1>4. PICK x \in c : n = Rank[x.path]
  BY <1>3
<1>5. \A d \in c : Rank[x.path] <= Rank[d.path]
  BY <1>3, <1>4
<1> QED
  BY <1>4, <1>5, Zenon DEF Upcoming

\* A step of the loop over the collisions.
LEMMA ListStep ==
  ASSUME Inv, NEW p \in Processes, pc[p] = "stage", NEW s, IsRun(s), NEW t, IsTmp(t),
         \A f \in {"batches", "writes", "seen", "stale"} : s[f] = run[p][f],
         DOMAIN t.files = {i.path : i \in s.items},
         Listing(jars, run[p].collisions, run[p].items, run[p].skipped, Done(jars, <<>>, TRUE)) =>
           Listing(jars, s.collisions, s.items, s.skipped, Done(jars, <<>>, TRUE)),
         pc' = pc, run' = [run EXCEPT ![p] = s], tmp' = [tmp EXCEPT ![p] = t],
         UNCHANGED <<jars, out, returned>>
  PROVE  Inv'
<1> DEFINE r == run[p]
<1>1. /\ r.batches = <<>> /\ (~r.stale => r.seen = jars /\ (Whole(jars) => Sound(jars, r, TRUE)))
      /\ pc' = [pc EXCEPT ![p] = "stage"]
  BY DEF Inv, Scanned, Staged, Shape
<1>2. s.batches = <<>> /\ s.writes = r.writes /\ s.seen = r.seen /\ s.stale = r.stale
  BY <1>1
<1>3. ASSUME Sound(jars, r, TRUE) PROVE Sound(jars, s, TRUE)
  BY <1>1, <1>2, <1>3 DEF Sound
<1> HIDE DEF r
<1>4. Scanned(jars, "stage", s)
  BY <1>1, <1>2, <1>3 DEF Scanned
<1>5. Staged("stage", s, t)
  BY <1>2 DEF Staged
<1> QED
  BY <1>1, <1>4, <1>5, LocalStep DEF Labels

\* What a process that stages holds.
LEMMA Staging ==
  ASSUME Inv, NEW p \in Processes, pc[p] = "stage"
  PROVE  /\ IsRun(run[p]) /\ IsTmp(tmp[p]) /\ DOMAIN tmp[p].files = {i.path : i \in run[p].items}
         /\ tmp = [tmp EXCEPT ![p] = tmp[p]] /\ Shape
BY DEF Inv, Scanned, Staged, Shape

LEMMA PassStep ==
  ASSUME Inv, NEW p \in Processes, Pass(p)
  PROVE  Inv'
<1> DEFINE r == run[p]
           x == Upcoming(p)
           c == r.collisions \ {x}
           s == [r EXCEPT !.collisions = c]
<1>1. pc[p] = "stage" /\ r.collisions # {} /\ x.class = "identical"
  BY DEF Pass
<1>2. /\ IsRun(r) /\ IsTmp(tmp[p]) /\ DOMAIN tmp[p].files = {i.path : i \in r.items}
      /\ tmp = [tmp EXCEPT ![p] = tmp[p]] /\ Shape
  BY <1>1, Staging
<1>3. run' = [run EXCEPT ![p] = s] /\ pc' = pc /\ tmp' = [tmp EXCEPT ![p] = tmp[p]] /\ UNCHANGED <<jars, out, returned>>
  BY <1>2 DEF Pass, Taken, Shape, Files
<1>4. ASSUME Listing(jars, r.collisions, r.items, r.skipped, Done(jars, <<>>, TRUE))
      PROVE  Listing(jars, c, r.items, r.skipped, Done(jars, <<>>, TRUE))
  <2>1. x \in r.collisions
    BY <1>1, <1>4, UpcomingIn
  <2> HIDE DEF r, x
  <2> QED BY <1>1, <1>4, <2>1, ListingPasses
<1> HIDE DEF c
<1>5. IsRun(s) /\ \A g \in Fields : s[g] = IF g = "collisions" THEN c ELSE r[g]
  BY <1>2, RunSet DEF Fields
<1> HIDE DEF s
<1>6. /\ s.collisions = c /\ s.items = r.items /\ s.skipped = r.skipped
      /\ \A f \in {"batches", "writes", "seen", "stale"} : s[f] = r[f]
  BY <1>5 DEF Fields
<1> QED
  BY <1>1, <1>2, <1>3, <1>4, <1>5, <1>6, ListStep

LEMMA SkipStep ==
  ASSUME Inv, NEW p \in Processes, Skip(p)
  PROVE  Inv'
<1> DEFINE r == run[p]
           x == Upcoming(p)
           c == r.collisions \ {x}
           k == r.skipped \union {Item(x)}
           z == [r EXCEPT !.collisions = c]
           s == [z EXCEPT !.skipped = k]
<1>1. pc[p] = "stage" /\ r.collisions # {} /\ x.class # "identical"
  BY DEF Skip, IsSafeMerge
<1>2. /\ IsRun(r) /\ IsTmp(tmp[p]) /\ DOMAIN tmp[p].files = {i.path : i \in r.items}
      /\ tmp = [tmp EXCEPT ![p] = tmp[p]] /\ Shape
  BY <1>1, Staging
<1>3. IsRun(z) /\ \A g \in Fields : z[g] = IF g = "collisions" THEN c ELSE r[g]
  <2> HIDE DEF r, c
  <2> QED BY <1>2, RunSet DEF Fields
<1>4. run' = [run EXCEPT ![p] = s]
  <2>1. run' = [Taken(p, x) EXCEPT ![p].skipped = @ \union {Item(x)}]
    BY DEF Skip
  <2>2. Taken(p, x) = [run EXCEPT ![p] = z] /\ Taken(p, x)[p] = z
    BY <1>2 DEF Taken, Shape
  <2>3. z.skipped = r.skipped
    BY <1>3 DEF Fields
  <2> HIDE DEF z, r, x
  <2>4. run' = [Taken(p, x) EXCEPT ![p] = s]
    BY <1>2, <2>1, <2>2, <2>3 DEF Shape
  <2> HIDE DEF s
  <2> QED BY <1>2, <2>2, <2>4 DEF Shape
<1>5. pc' = pc /\ tmp' = [tmp EXCEPT ![p] = tmp[p]] /\ UNCHANGED <<jars, out, returned>>
  BY <1>2 DEF Skip, Files
<1>6. ASSUME Listing(jars, r.collisions, r.items, r.skipped, Done(jars, <<>>, TRUE))
      PROVE  Listing(jars, c, r.items, k, Done(jars, <<>>, TRUE))
  <2>1. x \in r.collisions
    BY <1>1, <1>6, UpcomingIn
  <2>2. Item(x).path = x.path /\ Item(x).class = x.class
    BY DEF Item
  <2> HIDE DEF r, x
  <2> QED BY <1>1, <1>6, <2>1, <2>2, ListingMoves
<1> HIDE DEF c, k, z
<1>7. IsRun(s) /\ \A g \in Fields : s[g] = IF g = "skipped" THEN k ELSE z[g]
  BY <1>3, RunSet DEF Fields
<1> HIDE DEF s
<1>8. /\ s.collisions = c /\ s.items = r.items /\ s.skipped = k
      /\ \A f \in {"batches", "writes", "seen", "stale"} : s[f] = r[f]
  BY <1>3, <1>7 DEF Fields
<1> QED
  BY <1>1, <1>2, <1>4, <1>5, <1>6, <1>7, <1>8, ListStep

LEMMA StageStep ==
  ASSUME Inv, NEW p \in Processes, Stage(p)
  PROVE  Inv'
<1> DEFINE r == run[p]
           x == Upcoming(p)
           bytes == OverlayBytes(x, ReadBlobs(jars, r.writes, x.path))
           c == r.collisions \ {x}
           k == r.items \union {Item(x)}
           z == [r EXCEPT !.collisions = c]
           s == [z EXCEPT !.items = k]
           f == [n \in DOMAIN tmp[p].files \union {x.path} |-> IF n = x.path THEN bytes ELSE tmp[p].files[n]]
           t == [tmp[p] EXCEPT !.files = f]
<1>1. pc[p] = "stage" /\ r.collisions # {} /\ x.class # "identical" /\ UNCHANGED <<jars, out, returned>>
  BY DEF Stage
<1>2. /\ IsRun(r) /\ IsTmp(tmp[p]) /\ DOMAIN tmp[p].files = {i.path : i \in r.items}
      /\ tmp = [tmp EXCEPT ![p] = tmp[p]] /\ Shape
  BY <1>1, Staging
<1>3. CASE bytes = Null
  <2>1. pc' = [pc EXCEPT ![p] = "fail"] /\ UNCHANGED <<run, tmp>>
    BY <1>3 DEF Stage, Goto
  <2> QED BY <1>1, <2>1, QuietStep
<1>4. CASE bytes # Null
  <2>1. /\ tmp' = [tmp EXCEPT ![p].files =
                     [n \in DOMAIN @ \union {x.path} |-> IF n = x.path THEN bytes ELSE @[n]]]
        /\ run' = [Taken(p, x) EXCEPT ![p].items = @ \union {Item(x)}] /\ pc' = pc
    BY <1>4 DEF Stage
  <2> HIDE DEF bytes
  <2>2. tmp' = [tmp EXCEPT ![p] = t]
    BY <1>2, <2>1 DEF Shape
  <2>3. DOMAIN f = {i.path : i \in r.items} \union {x.path}
    BY <1>2
  <2> HIDE DEF f
  <2>4. IsTmp(t) /\ t.files = f
    BY <1>2, TmpSet
  <2>5. IsRun(z) /\ \A g \in Fields : z[g] = IF g = "collisions" THEN c ELSE r[g]
    <3> HIDE DEF r, c
    <3> QED BY <1>2, RunSet DEF Fields
  <2>6. run' = [run EXCEPT ![p] = s]
    <3>1. Taken(p, x) = [run EXCEPT ![p] = z] /\ Taken(p, x)[p] = z
      BY <1>2 DEF Taken, Shape
    <3>2. z.items = r.items
      BY <2>5 DEF Fields
    <3> HIDE DEF z, r, x
    <3>3. run' = [Taken(p, x) EXCEPT ![p] = s]
      BY <1>2, <2>1, <3>1, <3>2 DEF Shape
    <3> HIDE DEF s
    <3> QED BY <1>2, <3>1, <3>3 DEF Shape
  <2>7. Item(x).path = x.path /\ Item(x).class = x.class
    BY DEF Item
  <2>8. ASSUME Listing(jars, r.collisions, r.items, r.skipped, Done(jars, <<>>, TRUE))
        PROVE  Listing(jars, c, k, r.skipped, Done(jars, <<>>, TRUE))
    <3>1. x \in r.collisions
      BY <1>1, <2>8, UpcomingIn
    <3> HIDE DEF r, x
    <3> QED BY <1>1, <2>7, <2>8, <3>1, ListingMoves
  <2>9. {i.path : i \in k} = {i.path : i \in r.items} \union {x.path}
    BY <2>7
  <2> HIDE DEF c, k, z, t
  <2>10. IsRun(s) /\ \A g \in Fields : s[g] = IF g = "items" THEN k ELSE z[g]
    BY <2>5, RunSet DEF Fields
  <2> HIDE DEF s
  <2>11. /\ s.collisions = c /\ s.items = k /\ s.skipped = r.skipped
         /\ \A g \in {"batches", "writes", "seen", "stale"} : s[g] = r[g]
    BY <2>5, <2>10 DEF Fields
  <2>12. DOMAIN t.files = {i.path : i \in s.items}
    BY <2>3, <2>4, <2>9, <2>11
  <2> QED
    BY <1>1, <2>1, <2>2, <2>4, <2>6, <2>8, <2>10, <2>11, <2>12, ListStep
<1> QED
  BY <1>3, <1>4

LEMMA WriteManifestStep ==
  ASSUME Inv, NEW p \in Processes, WriteManifest(p)
  PROVE  Inv'
<1> DEFINE r == run[p]
           plan == {PlanOf(r)}
           t == [tmp[p] EXCEPT !.manifest = plan]
<1>1. pc[p] = "stage" /\ r.collisions = {} /\ Scanned(jars, "stage", r) /\ Staged("stage", r, tmp[p])
  BY DEF WriteManifest, Inv
<1>2. /\ IsRun(r) /\ IsTmp(tmp[p]) /\ DOMAIN tmp[p].files = {i.path : i \in r.items}
      /\ tmp = [tmp EXCEPT ![p] = tmp[p]] /\ Shape
  BY <1>1, Staging
<1>3. Plan(p) = PlanOf(r)
  BY DEF Plan, PlanOf
<1>4. /\ pc' = [pc EXCEPT ![p] = "commit"] /\ run' = [run EXCEPT ![p] = r]
      /\ tmp' = [tmp EXCEPT ![p] = t] /\ UNCHANGED <<jars, out, returned>>
  BY <1>2, <1>3 DEF WriteManifest, Goto, Shape
<1> HIDE DEF plan
<1>5. IsTmp(t) /\ t.files = tmp[p].files /\ t.manifest = plan
  BY <1>2, TmpSet
<1> HIDE DEF r, t
<1>6. Scanned(jars, "commit", r) /\ Staged("commit", r, t)
  BY <1>1, <1>2, <1>5 DEF Scanned, Staged, plan
<1> QED
  BY <1>4, <1>6, LocalStep DEF Labels

LEMMA CommitStep ==
  ASSUME Inv, NEW p \in Processes, Commit(p)
  PROVE  Inv'
<1> DEFINE r == run[p]
           t == tmp[p]
           plan == PlanOf(r)
<1>1. pc[p] = "commit" /\ Scanned(jars, "commit", r) /\ Staged("commit", r, t) /\ Shape /\ UNCHANGED jars
  BY DEF Commit, Inv
<1>2. CASE out.exists
  <2>1. pc' = [pc EXCEPT ![p] = "fail"] /\ UNCHANGED <<jars, out, returned, run, tmp>>
    BY <1>2 DEF Commit, Goto
  <2> QED BY <2>1, QuietStep
<1>3. CASE ~out.exists
  <2>1. /\ out' = [exists |-> TRUE, files |-> t.files, manifest |-> t.manifest, seen |-> r.seen, stale |-> r.stale]
        /\ returned' = returned \union {plan}
        /\ tmp' = [tmp EXCEPT ![p] = Absent] /\ pc' = [pc EXCEPT ![p] = "idle"] /\ run' = [run EXCEPT ![p] = Null]
    BY <1>3 DEF Commit, Exit, Plan, PlanOf
  <2>2. returned = {}
    BY <1>3 DEF Inv, PublishedIsWhole
  <2>3. /\ t.manifest = {plan} /\ r.collisions = {} /\ r.batches = <<>>
        /\ DOMAIN t.files = {i.path : i \in r.items}
        /\ ~r.stale => r.seen = jars /\ (Whole(jars) => Sound(jars, r, TRUE))
    BY <1>1 DEF Scanned, Staged
  <2> HIDE DEF r, t
  <2>4. plan.items = r.items /\ plan.skipped = r.skipped
    BY DEF PlanOf
  <2>5. ASSUME ~r.stale, Whole(r.seen)
        PROVE  r.items \intersect r.skipped = {} /\ Accounted(r.seen, r.items \union r.skipped)
    <3>1. r.seen = jars /\ Listing(jars, {}, r.items, r.skipped, Done(jars, <<>>, TRUE))
      BY <2>3, <2>5 DEF Sound
    <3>2. Done(jars, <<>>, TRUE) = Collides(jars) \union Mixed(jars)
      BY MembersEmpty DEF Done
    <3>3. Listing(jars, {}, r.items, r.skipped, Collides(jars) \union Mixed(jars))
      BY <3>1, <3>2
    <3>4. r.items \intersect r.skipped = {} /\ Accounted(jars, r.items \union r.skipped)
      BY <3>3, ListingAccounts
    <3> QED BY <3>1, <3>4
  <2> HIDE DEF plan
  <2>6. /\ out'.exists /\ out'.manifest = {plan} /\ out'.files = t.files
        /\ out'.seen = r.seen /\ out'.stale = r.stale /\ returned' = {plan}
    BY <2>1, <2>2, <2>3
  <2>7. /\ DOMAIN out'.files = {i.path : i \in plan.items}
        /\ (~out'.stale /\ Whole(out'.seen)) =>
             /\ plan.items \intersect plan.skipped = {}
             /\ Accounted(out'.seen, plan.items \union plan.skipped)
    BY <2>3, <2>4, <2>5, <2>6
  <2>8. PublishedIsWhole'
    BY <2>6, <2>7 DEF PublishedIsWhole
  <2>9. Scanned(jars, "idle", Null) /\ Staged("idle", Null, Absent)
    BY DEF Scanned, Staged
  <2> QED BY <1>1, <2>1, <2>8, <2>9, OneStep DEF Labels
<1> QED
  BY <1>2, <1>3

\* An archive is replaced.
LEMMA ReplaceStep ==
  ASSUME Inv, NEW j \in Jars, NEW archive \in Replacements, Replace(j, archive)
  PROVE  Inv'
<1>1. /\ jars' = [jars EXCEPT ![j] = archive] /\ UNCHANGED <<tmp, out, pc, returned>>
      /\ run' = [p \in Processes |-> IF pc[p] \in {"classify", "stage", "commit"}
                                     THEN [run[p] EXCEPT !.stale = TRUE] ELSE run[p]]
  BY DEF Replace
<1>2. Archives'
  <2>1. DOMAIN jars' = Jars /\ \A k \in Jars : jars'[k] = IF k = j THEN archive ELSE jars[k]
    BY <1>1 DEF Inv, Archives
  <2>2. ASSUME NEW k \in Jars PROVE IsArchive(jars'[k])
    BY <2>1, ArchiveAssumption DEF Inv, Archives
  <2> QED BY <2>1, <2>2 DEF Archives
<1>3. Shape'
  BY <1>1 DEF Inv, Shape
<1>4. PublishedIsWhole'
  BY <1>1 DEF Inv, PublishedIsWhole
<1>5. ASSUME NEW p \in Processes PROVE Scanned(jars', pc[p], run'[p]) /\ Staged(pc[p], run'[p], tmp[p])
  <2> DEFINE r == run[p]
             s == [r EXCEPT !.stale = TRUE]
             label == pc[p]
             t == tmp[p]
  <2>1. Scanned(jars, label, r) /\ Staged(label, r, t)
    BY DEF Inv
  <2>2. CASE label \in {"classify", "stage", "commit"}
    <3>1. run'[p] = s /\ IsRun(r)
      BY <1>1, <2>1, <2>2 DEF Scanned
    <3> HIDE DEF r, label, t
    <3>2. IsRun(s) /\ \A g \in Fields : s[g] = IF g = "stale" THEN TRUE ELSE r[g]
      BY <3>1, RunSet DEF Fields
    <3> HIDE DEF s
    <3>3. /\ s.stale /\ s.items = r.items /\ s.skipped = r.skipped /\ s.collisions = r.collisions
          /\ s.batches = r.batches
      BY <3>2 DEF Fields
    <3>4. Scanned(jars', label, s)
      BY <2>1, <3>2, <3>3 DEF Scanned
    <3>5. PlanOf(s) = PlanOf(r)
      BY <3>3 DEF PlanOf
    <3>6. Staged(label, s, t)
      BY <2>1, <3>3, <3>5 DEF Staged
    <3> QED BY <3>1, <3>4, <3>6 DEF label, t
  <2>3. CASE label \notin {"classify", "stage", "commit"}
    BY <2>3 DEF Scanned, Staged
  <2> QED BY <2>2, <2>3
<1> QED
  BY <1>1, <1>2, <1>3, <1>4, <1>5 DEF Inv

LEMMA InvNext == Inv /\ [Next]_vars => Inv'
<1> SUFFICES ASSUME Inv, [Next]_vars PROVE Inv'
  OBVIOUS
<1>1. ASSUME NEW p \in Processes,
             \/ \E winners \in BOOLEAN : Begin(p, winners)
             \/ CheckOut(p) \/ Scan(p) \/ ClassifyBatch(p) \/ CreateTmp(p)
             \/ Pass(p) \/ Skip(p) \/ Stage(p) \/ WriteManifest(p) \/ Commit(p)
             \/ WriteFails(p) \/ (\E removed \in BOOLEAN : Fail(p, removed)) \/ Crash(p)
      PROVE  Inv'
  BY <1>1, QuietSteps, ScanStep, ClassifyStep, CreateTmpStep, PassStep, SkipStep, StageStep,
     WriteManifestStep, CommitStep
<1>2. ASSUME NEW j \in Jars, NEW archive \in Replacements, Replace(j, archive) PROVE Inv'
  BY <1>2, ReplaceStep
<1>3. CASE UNCHANGED vars
  BY <1>3 DEF vars, Inv, Archives, Shape, PublishedIsWhole
<1> QED
  BY <1>1, <1>2, <1>3 DEF Next

\* The output directory is absent or whole, whoever else writes, fails or dies
\* on the way: its manifest lists its files, is that of every plan returned,
\* and accounts for every collision of the archives that were scanned.
THEOREM AlwaysWhole == Spec => []PublishedIsWhole
<1>1. Inv => PublishedIsWhole
  BY DEF Inv
<1> QED
  BY InvInit, InvNext, <1>1, PTL DEF Spec

-----------------------------------------------------------------------------
(* What a safe merge means to the game.                                      *)

\* f puts the places up to n in another order.
Reorders(f, n) == /\ f \in [1 .. n -> 1 .. n]
                  /\ \A k \in 1 .. n : \E i \in 1 .. n : f[i] = k
                  /\ \A i, k \in 1 .. n : f[i] = f[k] => i = k

LEMMA OrderIs ==
  ASSUME NEW docs, Len(docs) \in Nat, DOMAIN docs = 1 .. Len(docs), NEW o \in Orders(docs)
  PROVE  \E f : Reorders(f, Len(docs)) /\ o = [i \in 1 .. Len(docs) |-> docs[f[i]]]
<1> DEFINE n == Len(docs)
           D == 1 .. n
<1>1. PICK f \in [D -> D] : Cardinality({f[i] : i \in D}) = n /\ o = [i \in D |-> docs[f[i]]]
  BY DEF Orders
<1>2. IsFiniteSet(D) /\ Cardinality(D) = n
  <2>1. n \in Nat
    OBVIOUS
  <2> HIDE DEF n
  <2> QED BY <2>1, FS_Interval
<1> DEFINE R == {f[i] : i \in D}
<1>3. R \in SUBSET D
  OBVIOUS
<1>4. R = D
  <2> HIDE DEF R, D
  <2> QED BY <1>1, <1>2, <1>3, FS_Subset DEF R
<1>5. \A k \in D : \E i \in D : f[i] = k
  BY <1>4
<1>6. f \in Surjection(D, D)
  BY <1>5 DEF Surjection
<1>7. f \in Injection(D, D)
  <2> HIDE DEF D
  <2> QED BY <1>2, <1>6, FS_SurjSameCardinalityImpliesInj
<1>8. \A i, k \in D : f[i] = f[k] => i = k
  BY <1>7 DEF Injection, IsInjective
<1> QED
  BY <1>1, <1>5, <1>8 DEF Reorders

\* A file that means what the documents mean, in every order.
Means(domain, file, docs) ==
  \A o \in Orders(docs) : Effective(domain, <<file>>) = Effective(domain, o)

-----------------------------------------------------------------------------
(* Languages.                                                                *)

\* The documents say nothing but what m says.
Speaks(docs, m) ==
  /\ Keys(docs) = DOMAIN m
  /\ \A i \in DOMAIN docs : \A k \in DOMAIN docs[i] : docs[i][k] = m[k]

LEMMA LastDefiner ==
  ASSUME NEW docs, NEW n \in Nat, DOMAIN docs = 1 .. n, NEW k \in Keys(docs)
  PROVE  Max(Definers(docs, k)) \in Definers(docs, k)
<1> DEFINE S == Definers(docs, k)
<1>1. S \in SUBSET (1 .. n) /\ S # {}
  BY DEF Definers, Keys
<1> HIDE DEF S
<1>2. Max(S) \in S
  BY <1>1, MaxIn
<1> QED
  BY <1>2 DEF S

LEMMA SpeaksIs ==
  ASSUME NEW docs, NEW n \in Nat, DOMAIN docs = 1 .. n, NEW m, Speaks(docs, m)
  PROVE  Overwrite(docs) = [k \in DOMAIN m |-> m[k]]
<1>1. Keys(docs) = DOMAIN m
  BY DEF Speaks
<1>2. ASSUME NEW k \in Keys(docs) PROVE docs[Max(Definers(docs, k))][k] = m[k]
  <2> DEFINE i == Max(Definers(docs, k))
  <2>1. i \in Definers(docs, k)
    BY LastDefiner
  <2> HIDE DEF i
  <2>2. i \in DOMAIN docs /\ k \in DOMAIN docs[i]
    BY <2>1 DEF Definers
  <2>3. docs[i][k] = m[k]
    BY <2>2 DEF Speaks
  <2> QED BY <2>3 DEF i
<1> QED
  BY <1>1, <1>2 DEF Overwrite

\* Keys that do not conflict are merged to what they say in every order.
LEMMA LanguagesMean ==
  ASSUME NEW docs, Len(docs) \in Nat, DOMAIN docs = 1 .. Len(docs),
         NEW domain \in {"lang-json", "lang"},
         \A key \in Keys(docs) : ~(Cardinality(Shared(docs, key)) > 1)
  PROVE  Means(domain, Overwrite(docs), docs)
<1> DEFINE n == Len(docs)
           m == Overwrite(docs)
<1>1. ASSUME NEW k, NEW i \in DOMAIN docs, k \in DOMAIN docs[i], NEW j \in DOMAIN docs, k \in DOMAIN docs[j]
      PROVE  docs[i][k] = docs[j][k]
  <2> DEFINE S == Shared(docs, k)
             P == {docs[i][k], docs[j][k]}
  <2>1. P \subseteq S /\ k \in Keys(docs)
    BY <1>1 DEF Shared, Keys
  <2>2. IsFiniteSet(S)
    <3> DEFINE I == {h \in DOMAIN docs : k \in DOMAIN docs[h]}
               g == [h \in I |-> docs[h][k]]
    <3>1. IsFiniteSet(I)
      <4>1. IsFiniteSet(1 .. n) /\ I \in SUBSET (1 .. n)
        BY FS_Interval
      <4> HIDE DEF I
      <4> QED BY <4>1, FS_Subset
    <3>2. S = {docs[h][k] : h \in I}
      BY DEF Shared
    <3>3. g \in Surjection(I, S)
      BY <3>2 DEF Surjection
    <3> HIDE DEF I, S, g
    <3> QED BY <3>1, <3>3, FS_Surjection
  <2>3. ~(Cardinality(S) > 1)
    BY <2>1
  <2> HIDE DEF S
  <2>4. SUFFICES ASSUME docs[i][k] # docs[j][k] PROVE FALSE
    OBVIOUS
  <2>5. Cardinality(P) = 2
    <3> DEFINE x == docs[j][k]
               T == {docs[i][k]}
    <3>1. IsFiniteSet(T) /\ Cardinality(T) = 1 /\ x \notin T
      BY <2>4, FS_Singleton
    <3>2. P = T \union {x}
      OBVIOUS
    <3> HIDE DEF P, T, x
    <3>3. Cardinality(T \union {x}) = Cardinality(T) + 1
      BY <3>1, FS_AddElement
    <3> QED BY <3>1, <3>2, <3>3
  <2>6. Cardinality(P) <= Cardinality(S) /\ Cardinality(S) \in Nat
    <3> HIDE DEF P
    <3> QED BY <2>1, <2>2, FS_Subset, FS_CardinalityType
  <2> QED BY <2>3, <2>5, <2>6
<1>2. Speaks(docs, m)
  <2>1. Keys(docs) = DOMAIN m
    BY DEF Overwrite
  <2>2. ASSUME NEW i \in DOMAIN docs, NEW k \in DOMAIN docs[i] PROVE docs[i][k] = m[k]
    <3> DEFINE j == Max(Definers(docs, k))
    <3>1. k \in Keys(docs)
      BY DEF Keys
    <3>2. j \in Definers(docs, k) /\ m[k] = docs[j][k]
      BY <3>1, LastDefiner DEF Overwrite
    <3> HIDE DEF j, m
    <3>3. j \in DOMAIN docs /\ k \in DOMAIN docs[j]
      BY <3>2 DEF Definers
    <3> QED BY <1>1, <3>2, <3>3
  <2> QED BY <2>1, <2>2 DEF Speaks
<1> HIDE DEF m
<1>3. Overwrite(<<m>>) = [k \in DOMAIN m |-> m[k]]
  <2> DEFINE one == <<m>>
  <2>1. DOMAIN one = 1 .. 1 /\ 1 \in Nat /\ one[1] = m
    OBVIOUS
  <2> HIDE DEF one
  <2>2. Speaks(one, m)
    <3>1. DOMAIN one = {1}
      BY <2>1
    <3> QED BY <2>1, <3>1 DEF Speaks, Keys
  <2>3. Overwrite(one) = [k \in DOMAIN m |-> m[k]]
    <3>1. PICK l \in Nat : l = 1
      OBVIOUS
    <3>2. DOMAIN one = 1 .. l
      BY <2>1, <3>1
    <3> QED BY <2>2, <3>2, SpeaksIs
  <2> QED BY <2>3 DEF one
<1>4. ASSUME NEW o \in Orders(docs) PROVE Overwrite(o) = [k \in DOMAIN m |-> m[k]]
  <2>1. PICK f : Reorders(f, n) /\ o = [i \in 1 .. n |-> docs[f[i]]]
    BY OrderIs
  <2>2. DOMAIN o = 1 .. n /\ \A i \in 1 .. n : f[i] \in 1 .. n /\ o[i] = docs[f[i]]
    BY <2>1 DEF Reorders
  <2>3. \A i \in 1 .. n : \E h \in 1 .. n : o[h] = docs[i]
    BY <2>1, <2>2 DEF Reorders
  <2>4. Keys(o) = Keys(docs)
    <3>1. ASSUME NEW k \in Keys(o) PROVE k \in Keys(docs)
      <4>1. PICK i \in 1 .. n : k \in DOMAIN o[i]
        BY <2>2 DEF Keys
      <4>2. f[i] \in 1 .. n /\ k \in DOMAIN docs[f[i]]
        BY <2>2, <4>1
      <4> QED BY <4>2 DEF Keys
    <3>2. ASSUME NEW k \in Keys(docs) PROVE k \in Keys(o)
      <4>1. PICK i \in 1 .. n : k \in DOMAIN docs[i]
        BY DEF Keys
      <4>2. PICK h \in 1 .. n : k \in DOMAIN o[h]
        BY <2>3, <4>1
      <4> QED BY <2>2, <4>2 DEF Keys
    <3>3. Keys(o) \subseteq Keys(docs) /\ Keys(docs) \subseteq Keys(o)
      BY <3>1, <3>2
    <3> QED BY <3>3
  <2>5. Speaks(o, m)
    BY <1>2, <2>2, <2>4 DEF Speaks
  <2> HIDE DEF n
  <2> QED BY <2>2, <2>5, SpeaksIs DEF n
<1> QED
  BY <1>3, <1>4 DEF Means, Effective, m

-----------------------------------------------------------------------------
(* Tags.                                                                     *)

Tags(s) == FoldLeft(Tagged, {}, s)
Made(d) == {<<v.id, IF v.required = FALSE THEN "optional" ELSE "required">> : v \in d.values}
Adds(d) == d.remove = {} /\ ~d.replace

LEMMA TagsStep ==
  ASSUME NEW E, \A d \in E : Adds(d)
  PROVE  /\ Tags(<<>>) = {}
         /\ \A s \in Seq(E) : \A e \in E : Tags(Append(s, e)) = Tags(s) \union Made(e)
<1> DEFINE V == SUBSET UNION {Made(d) : d \in E}
           B == {}
           F == [e \in E |-> [v \in V |-> Tagged(v, e)]]
<1>1. ASSUME NEW e \in E, NEW v \in V PROVE Tagged(v, e) = v \union Made(e) /\ Made(e) \in V
  <2>1. e.remove = {} /\ ~e.replace
    BY DEF Adds
  <2>2. Tagged(v, e) = {x \in v \union Made(e) : x[1] \notin {}}
    BY <2>1 DEF Tagged, Made
  <2> QED BY <2>2
<1>2. B \in V /\ \A e \in E : \A v \in V : v \union Made(e) \in V
  BY <1>1
<1> HIDE DEF V
<1>3. F = [e \in E |-> [v \in V |-> v \union Made(e)]]
  BY <1>1
<1>4. Operation(F, E, V, B)
  BY <1>2, <1>3 DEF Operation
<1>5. ASSUME NEW s \in Seq(E) PROVE Tags(s) = Left(F, B, s)
  <2> DEFINE Is(g) == g = [S \in SUBSET DOMAIN s |-> IF S = {} THEN B ELSE Tagged(g[Rest(S)], s[Max(S)])]
             h     == CHOOSE g : Is(g)
  <2>1. PICK g : FoldOf(g, F, V, B, s)
    <3> HIDE DEF F
    <3> QED BY <1>4, FoldExists
  <2>2. ASSUME NEW S \in SUBSET DOMAIN s, S # {}
        PROVE  g[S] = F[s[Max(S)]][g[Rest(S)]] /\ s[Max(S)] \in E /\ g[Rest(S)] \in V
    <3> HIDE DEF F
    <3> QED BY <2>1, <2>2, MaxPosition DEF FoldOf
  <2>3. ASSUME NEW S \in SUBSET DOMAIN s, S # {} PROVE g[S] = Tagged(g[Rest(S)], s[Max(S)])
    BY <2>2, <2>3
  <2>4. Is(g)
    <3> HIDE DEF F
    <3> QED BY <2>1, <2>3 DEF FoldOf
  <2>5. Is(h)
    BY <2>4, Zenon
  <2>6. Tags(s) = h[DOMAIN s]
    BY Zenon DEF Tags, FoldLeft, MapThenFoldSet, Rest
  <2> HIDE DEF h
  <2>7. h[{}] = B
    BY <2>5
  <2>8. ASSUME NEW n \in 1 .. Len(s), h[1 .. n - 1] \in V
        PROVE  h[1 .. n] = F[s[n]][h[1 .. n - 1]]
    <3>1. (1 .. n) \in SUBSET DOMAIN s /\ s[n] \in E
      OBVIOUS
    <3>2. Max(1 .. n) = n /\ Rest(1 .. n) = 1 .. n - 1 /\ 1 .. n # {}
      BY MaxPrefix
    <3> QED BY <2>5, <2>8, <3>1, <3>2
  <2> HIDE DEF F, B
  <2>9. h[DOMAIN s] = Left(F, B, s)
    BY <1>4, <2>7, <2>8, Steps
  <2> QED BY <2>6, <2>9
<1>6. Left(F, B, <<>>) = B /\ \A s \in Seq(E) : Left(F, B, s) \in V
  <2> HIDE DEF F
  <2> QED BY <1>4, LeftStep
<1>7. ASSUME NEW s \in Seq(E), NEW e \in E PROVE Tags(Append(s, e)) = Tags(s) \union Made(e)
  <2> DEFINE t == Append(s, e)
             v == Left(F, B, s)
  <2>1. Left(F, B, t) = F[e][v]
    <3> HIDE DEF F
    <3> QED BY <1>4, LeftStep
  <2>2. t \in Seq(E) /\ v \in V
    BY <1>6
  <2> HIDE DEF t, v
  <2>3. Left(F, B, t) = v \union Made(e)
    BY <1>3, <2>1, <2>2
  <2> HIDE DEF F
  <2>4. Tags(t) = Left(F, B, t)
    BY <1>5, <2>2
  <2>5. Tags(s) = v
    BY <1>5 DEF v
  <2> QED BY <2>3, <2>4, <2>5 DEF t
<1>8. Tags(<<>>) = {}
  <2>1. <<>> \in Seq(E)
    OBVIOUS
  <2> HIDE DEF F
  <2> QED BY <1>5, <1>6, <2>1
<1> QED
  BY <1>7, <1>8

LEMMA TagsUnion ==
  ASSUME NEW E, \A d \in E : Adds(d), NEW s \in Seq(E)
  PROVE  Tags(s) = UNION {Made(s[i]) : i \in DOMAIN s}
<1> DEFINE Good == {t \in Seq(E) : Tags(t) = UNION {Made(t[i]) : i \in DOMAIN t}}
<1>1. <<>> \in Good
  BY TagsStep
<1>2. ASSUME NEW t \in Seq(E), t \in Good, NEW e \in E PROVE Append(t, e) \in Good
  <2> DEFINE u == Append(t, e)
             n == Len(t) + 1
  <2>1. Tags(u) = Tags(t) \union Made(e)
    BY TagsStep
  <2>2. /\ u \in Seq(E) /\ DOMAIN u = 1 .. n /\ DOMAIN t = 1 .. n - 1 /\ n \in Nat \ {0} /\ u[n] = e
        /\ \A i \in DOMAIN t : u[i] = t[i]
    OBVIOUS
  <2> HIDE DEF u, n
  <2>3. UNION {Made(u[i]) : i \in DOMAIN u} = (UNION {Made(t[i]) : i \in DOMAIN t}) \union Made(e)
    <3>1. n \in DOMAIN u /\ \A i \in DOMAIN u : i = n \/ i \in DOMAIN t
      BY <2>2
    <3>2. \A i \in DOMAIN t : i \in DOMAIN u
      BY <2>2
    <3>3. ASSUME NEW x \in UNION {Made(u[i]) : i \in DOMAIN u}
          PROVE  x \in (UNION {Made(t[i]) : i \in DOMAIN t}) \union Made(e)
      BY <2>2, <3>1
    <3>4. ASSUME NEW x \in (UNION {Made(t[i]) : i \in DOMAIN t}) \union Made(e)
          PROVE  x \in UNION {Made(u[i]) : i \in DOMAIN u}
      BY <2>2, <3>1, <3>2
    <3> QED BY <3>3, <3>4
  <2> QED BY <1>2, <2>1, <2>2, <2>3 DEF u
<1>3. s \in Good
  <2> HIDE DEF Good
  <2> QED BY <1>1, <1>2, SeqInduction
<1> QED
  BY <1>3

\* Tags that only add are merged to what they add in every order.
LEMMA TagsMean ==
  ASSUME NEW docs, docs \in Seq(ToSet(docs)), TagClass(docs) = "safe-crdt-merge"
  PROVE  Means("tag", MergeTags(docs), docs)
<1> DEFINE n == Len(docs)
           E == ToSet(docs)
           m == MergeTags(docs)
           U == UNION {Made(docs[i]) : i \in DOMAIN docs}
<1>1. n \in Nat /\ DOMAIN docs = 1 .. n /\ \A d \in E : \E i \in 1 .. n : d = docs[i]
  BY DEF ToSet
<1>2. ASSUME NEW i \in DOMAIN docs
      PROVE  docs[i] \notin Unusable /\ Adds(docs[i]) /\ \A v \in docs[i].values : v.required = Null
  BY DEF TagClass, Adds
<1>3. m = [replace |-> FALSE, remove |-> {},
           values |-> {[id |-> v.id, required |-> Null] : v \in UNION {docs[i].values : i \in DOMAIN docs}}]
  BY <1>2 DEF MergeTags, Adds
<1>4. \A d \in E : Adds(d)
  BY <1>1, <1>2
<1>5. Adds(m)
  BY <1>3 DEF Adds
<1>6. Made(m) = U
  <2> DEFINE flag == IF Null = FALSE THEN "optional" ELSE "required"
             W == UNION {docs[i].values : i \in DOMAIN docs}
  <2>1. /\ \A v \in W : <<v.id, flag>> \in Made(m)
        /\ \A x \in Made(m) : \E v \in W : x = <<v.id, flag>>
    <3> DEFINE R(v) == [id |-> v.id, required |-> Null]
               Y    == {R(v) : v \in W}
    <3>1. m.values = Y
      BY <1>3
    <3>2. \A v : R(v).id = v.id /\ R(v).required = Null
      OBVIOUS
    <3> HIDE DEF R, m, W
    <3>3. ASSUME NEW v \in W PROVE <<v.id, flag>> \in Made(m)
      <4>1. R(v) \in m.values
        BY <3>1
      <4>2. <<R(v).id, IF R(v).required = FALSE THEN "optional" ELSE "required">> \in Made(m)
        BY <4>1 DEF Made
      <4> QED BY <3>2, <4>2
    <3>4. ASSUME NEW x \in Made(m) PROVE \E v \in W : x = <<v.id, flag>>
      <4>1. PICK y \in m.values : x = <<y.id, IF y.required = FALSE THEN "optional" ELSE "required">>
        BY DEF Made
      <4>2. PICK v \in W : y = R(v)
        BY <3>1, <4>1
      <4> QED BY <3>2, <4>1, <4>2
    <3> QED BY <3>3, <3>4
  <2>2. \A i \in DOMAIN docs : Made(docs[i]) = {<<v.id, flag>> : v \in docs[i].values}
    BY <1>2 DEF Made
  <2> HIDE DEF flag
  <2>3. ASSUME NEW x \in Made(m) PROVE x \in U
    <3>1. PICK v \in W : x = <<v.id, flag>>
      BY <2>1
    <3>2. PICK i \in DOMAIN docs : v \in docs[i].values
      OBVIOUS
    <3>3. x \in Made(docs[i])
      BY <2>2, <3>1, <3>2
    <3> QED BY <3>3
  <2>4. ASSUME NEW x \in U PROVE x \in Made(m)
    <3>1. PICK i \in DOMAIN docs : x \in Made(docs[i])
      OBVIOUS
    <3>2. PICK v \in docs[i].values : x = <<v.id, flag>>
      BY <2>2, <3>1
    <3>3. v \in W
      OBVIOUS
    <3> QED BY <2>1, <3>2, <3>3
  <2> HIDE DEF m, U
  <2> QED BY <2>3, <2>4
<1> HIDE DEF m, U
<1>7. Tags(<<m>>) = U
  <2> DEFINE M == {m}
             one == <<m>>
  <2>1. one \in Seq(M) /\ DOMAIN one = {1} /\ one[1] = m /\ \A d \in M : Adds(d)
    BY <1>5
  <2> HIDE DEF one, M
  <2>2. Tags(one) = UNION {Made(one[i]) : i \in DOMAIN one}
    BY <2>1, TagsUnion
  <2> QED BY <1>6, <2>1, <2>2 DEF one
<1>8. ASSUME NEW o \in Orders(docs) PROVE Tags(o) = U
  <2>1. PICK f : Reorders(f, n) /\ o = [i \in 1 .. n |-> docs[f[i]]]
    BY <1>1, OrderIs
  <2>2. DOMAIN o = 1 .. n /\ \A i \in 1 .. n : f[i] \in 1 .. n /\ o[i] = docs[f[i]] /\ docs[f[i]] \in E
    BY <1>1, <2>1 DEF Reorders, ToSet
  <2> HIDE DEF E
  <2>3. o \in Seq(E)
    BY <1>1, <2>1, <2>2
  <2>4. Tags(o) = UNION {Made(o[i]) : i \in DOMAIN o}
    BY <1>4, <2>3, TagsUnion
  <2>5. \A i \in 1 .. n : \E h \in 1 .. n : o[h] = docs[i]
    BY <2>1, <2>2 DEF Reorders
  <2>6. ASSUME NEW x \in U PROVE x \in Tags(o)
    <3>1. PICK i \in 1 .. n : x \in Made(docs[i])
      BY <1>1 DEF U
    <3>2. PICK h \in 1 .. n : o[h] = docs[i]
      BY <2>5
    <3> QED BY <2>2, <2>4, <3>1, <3>2
  <2>7. ASSUME NEW x \in Tags(o) PROVE x \in U
    <3>1. PICK h \in 1 .. n : x \in Made(o[h])
      BY <2>2, <2>4
    <3> QED BY <1>1, <2>2, <3>1 DEF U
  <2> QED BY <2>6, <2>7
<1> QED
  BY <1>7, <1>8 DEF Means, Effective, Tags, m

-----------------------------------------------------------------------------
(* Sound definitions.                                                       *)

Each(E) == UNION {{d[k] : k \in DOMAIN d} : d \in E}
EventsOf(E) == [sounds   : Seq(UNION {ToSet(x.sounds) : x \in Each(E)}),
                replace  : BOOLEAN,
                subtitle : {Null} \union {x.subtitle : x \in Each(E)},
                extra    : {x.extra : x \in Each(E)}]

LEMMA EventIn ==
  ASSUME NEW E, NEW x \in Each(E), IsEvent(x)
  PROVE  x \in EventsOf(E)
<1> DEFINE T == UNION {ToSet(y.sounds) : y \in Each(E)}
           A == {Null} \union {y.subtitle : y \in Each(E)}
           X == {y.extra : y \in Each(E)}
<1>1. ToSet(x.sounds) \subseteq T /\ x.subtitle \in A /\ x.extra \in X
  OBVIOUS
<1>2. x.sounds \in Seq(ToSet(x.sounds)) /\ x.replace \in BOOLEAN
  BY DEF IsEvent
<1> HIDE DEF T, A, X
<1>3. x.sounds \in Seq(T)
  <2> DEFINE S == ToSet(x.sounds)
  <2>1. S \subseteq T /\ x.sounds \in Seq(S)
    BY <1>1, <1>2
  <2> HIDE DEF S
  <2> QED BY <2>1
<1>4. x = [sounds |-> x.sounds, replace |-> x.replace, subtitle |-> x.subtitle, extra |-> x.extra]
  BY DEF IsEvent
<1>5. x \in [sounds : Seq(T), replace : BOOLEAN, subtitle : A, extra : X]
  BY <1>1, <1>2, <1>3, <1>4
<1> QED
  BY <1>5 DEF EventsOf, T, A, X

LEMMA AppendIn ==
  ASSUME NEW E, NEW x \in EventsOf(E), NEW y \in EventsOf(E)
  PROVE  Append2(x, y) \in EventsOf(E)
<1> DEFINE T == UNION {ToSet(z.sounds) : z \in Each(E)}
           A == {Null} \union {z.subtitle : z \in Each(E)}
           X == {z.extra : z \in Each(E)}
<1>1. EventsOf(E) = [sounds : Seq(T), replace : BOOLEAN, subtitle : A, extra : X]
  BY DEF EventsOf
<1> HIDE DEF T, A, X
<1>2. (x.sounds \o y.sounds) \in Seq(T)
  BY <1>1
<1> QED
  BY <1>1, <1>2 DEF Append2

Combined(E) == {Null} \union UNION {[K -> EventsOf(E)] : K \in SUBSET UNION {DOMAIN d : d \in E}}

LEMMA JoinIn ==
  ASSUME NEW E, \A d \in E : IsSounds(d), NEW v \in Combined(E), NEW e \in E
  PROVE  JoinSound({TRUE}, v, e) \in Combined(E)
<1> DEFINE D == UNION {DOMAIN d : d \in E}
           w == [k \in DOMAIN v \union DOMAIN e |->
                   IF k \notin DOMAIN e THEN v[k]
                   ELSE IF k \notin DOMAIN v THEN e[k]
                   ELSE Append2(v[k], e[k])]
<1>1. CASE v = Null \/ e \in Unusable \/ \E k \in DOMAIN e : e[k] = Shapeless
  <2>1. JoinSound({TRUE}, v, e) = Null
    BY <1>1 DEF JoinSound
  <2> QED BY <2>1 DEF Combined
<1>2. CASE ~(v = Null \/ e \in Unusable \/ \E k \in DOMAIN e : e[k] = Shapeless)
  <2>1. PICK K \in SUBSET D : v \in [K -> EventsOf(E)]
    BY <1>2 DEF Combined
  <2>2. ASSUME NEW k \in DOMAIN e PROVE e[k] \in EventsOf(E)
    <3>1. e[k] \in Each(E) /\ IsEvent(e[k])
      BY <1>2 DEF Each, IsSounds
    <3> QED BY <3>1, EventIn
  <2>3. ASSUME NEW k \in DOMAIN v \union DOMAIN e PROVE w[k] \in EventsOf(E)
    BY <2>1, <2>2, AppendIn
  <2>4. DOMAIN v \union DOMAIN e \in SUBSET D
    BY <2>1
  <2>5. w \in [DOMAIN v \union DOMAIN e -> EventsOf(E)]
    BY <2>3
  <2>6. w \in Combined(E)
    <3> HIDE DEF w
    <3> QED BY <2>4, <2>5 DEF Combined
  <2>7. Null \in Combined(E)
    BY DEF Combined
  <2>8. JoinSound({TRUE}, v, e) \in {w, Null}
    BY Zenon DEF JoinSound
  <2> QED BY <2>6, <2>7, <2>8
<1> QED
  BY <1>1, <1>2

LEMMA SoundsStep ==
  ASSUME NEW E, \A d \in E : IsSounds(d)
  PROVE  /\ MergeSounds(<<>>) = [k \in {} |-> Null]
         /\ \A s \in Seq(E) : \A e \in E : MergeSounds(Append(s, e)) = JoinSound({TRUE}, MergeSounds(s), e)
<1> DEFINE V == Combined(E)
           B == [k \in {} |-> Null]
           F == [e \in E |-> [v \in V |-> JoinSound({TRUE}, v, e)]]
<1>1. B \in V /\ \A e \in E : \A v \in V : JoinSound({TRUE}, v, e) \in V
  <2>1. B \in [{} -> EventsOf(E)] /\ {} \in SUBSET UNION {DOMAIN d : d \in E}
    OBVIOUS
  <2>2. B \in V
    BY <2>1 DEF Combined
  <2> QED BY <2>2, JoinIn
<1> HIDE DEF V, B
<1>2. Operation(F, E, V, B)
  BY <1>1 DEF Operation
<1>3. ASSUME NEW s \in Seq(E) PROVE MergeSounds(s) = Left(F, B, s)
  <2> DEFINE Is(g) == g = [S \in SUBSET DOMAIN s |-> IF S = {} THEN B ELSE JoinSound({TRUE}, g[Rest(S)], s[Max(S)])]
             h     == CHOOSE g : Is(g)
  <2>1. PICK g : FoldOf(g, F, V, B, s)
    <3> HIDE DEF F
    <3> QED BY <1>2, FoldExists
  <2>2. ASSUME NEW S \in SUBSET DOMAIN s, S # {}
        PROVE  g[S] = F[s[Max(S)]][g[Rest(S)]] /\ s[Max(S)] \in E /\ g[Rest(S)] \in V
    <3> HIDE DEF F
    <3> QED BY <2>1, <2>2, MaxPosition DEF FoldOf
  <2>3. ASSUME NEW S \in SUBSET DOMAIN s, S # {} PROVE g[S] = JoinSound({TRUE}, g[Rest(S)], s[Max(S)])
    BY <2>2, <2>3
  <2>4. Is(g)
    <3> HIDE DEF F
    <3> QED BY <2>1, <2>3 DEF FoldOf
  <2>5. Is(h)
    BY <2>4, Zenon
  <2>6. MergeSounds(s) = h[DOMAIN s]
    BY Zenon DEF MergeSounds, JoinSounds, FoldLeft, MapThenFoldSet, Rest, B
  <2> HIDE DEF h
  <2>7. h[{}] = B
    BY <2>5
  <2>8. ASSUME NEW n \in 1 .. Len(s), h[1 .. n - 1] \in V
        PROVE  h[1 .. n] = F[s[n]][h[1 .. n - 1]]
    <3>1. (1 .. n) \in SUBSET DOMAIN s /\ s[n] \in E
      OBVIOUS
    <3>2. Max(1 .. n) = n /\ Rest(1 .. n) = 1 .. n - 1 /\ 1 .. n # {}
      BY MaxPrefix
    <3> QED BY <2>5, <2>8, <3>1, <3>2
  <2> HIDE DEF F
  <2>9. h[DOMAIN s] = Left(F, B, s)
    BY <1>2, <2>7, <2>8, Steps
  <2> QED BY <2>6, <2>9
<1>4. Left(F, B, <<>>) = B /\ \A s \in Seq(E) : Left(F, B, s) \in V
  <2> HIDE DEF F
  <2> QED BY <1>2, LeftStep
<1>5. ASSUME NEW s \in Seq(E), NEW e \in E
      PROVE  MergeSounds(Append(s, e)) = JoinSound({TRUE}, MergeSounds(s), e)
  <2> DEFINE t == Append(s, e)
             v == Left(F, B, s)
  <2>1. Left(F, B, t) = F[e][v]
    <3> HIDE DEF F
    <3> QED BY <1>2, LeftStep
  <2>2. t \in Seq(E) /\ v \in V
    BY <1>4
  <2> HIDE DEF t, v
  <2>3. F[e][v] = JoinSound({TRUE}, v, e)
    BY <2>2
  <2> HIDE DEF F
  <2>4. MergeSounds(t) = Left(F, B, t) /\ MergeSounds(s) = v
    BY <1>3, <2>2 DEF v
  <2> QED BY <2>1, <2>3, <2>4 DEF t
<1>6. MergeSounds(<<>>) = B
  <2>1. <<>> \in Seq(E)
    OBVIOUS
  <2> HIDE DEF F
  <2> QED BY <1>3, <1>4, <2>1
<1> QED
  BY <1>5, <1>6 DEF B

Plays(docs, k) == Places(docs, k, Definers(docs, k))
At(docs, k, x) == docs[x[1]][k].sounds[x[2]]

\* b takes the places of the sounds of an event to those in one list.
Pairs(b, docs, k, sounds) ==
  /\ b \in [Plays(docs, k) -> DOMAIN sounds]
  /\ \A y \in DOMAIN sounds : \E x \in Plays(docs, k) : b[x] = y
  /\ \A x, y \in Plays(docs, k) : b[x] = b[y] => x = y
  /\ \A x \in Plays(docs, k) : sounds[b[x]] = At(docs, k, x)

\* Of one event, the event e says what the documents say.
Told(docs, k, e) ==
  /\ IsEvent(e) /\ ~e.replace
  /\ \E b : Pairs(b, docs, k, e.sounds)
  /\ \A i \in Definers(docs, k) : ~Clash(docs[i][k], e)
  /\ e.subtitle # Null <=> \E i \in Definers(docs, k) : docs[i][k].subtitle # Null

Agree(docs, k) == \A i, h \in Definers(docs, k) : ~Clash(docs[i][k], docs[h][k])

Tells(docs, m) == /\ Keys(docs) = DOMAIN m
                  /\ \A k \in DOMAIN m : Told(docs, k, m[k]) /\ Agree(docs, k)

LEMMA PlaysAre ==
  ASSUME NEW docs, NEW k
  PROVE  /\ \A i \in Definers(docs, k) : \A n \in DOMAIN docs[i][k].sounds : <<i, n>> \in Plays(docs, k)
         /\ \A x \in Plays(docs, k) : /\ x = <<x[1], x[2]>> /\ x[1] \in Definers(docs, k)
                                      /\ x[2] \in DOMAIN docs[x[1]][k].sounds
BY DEF Plays, Places

\* An event only the last document defines.
LEMMA ToldOne ==
  ASSUME NEW docs, NEW k, NEW n, Definers(docs, k) = {n}, IsEvent(docs[n][k]), ~docs[n][k].replace
  PROVE  Told(docs, k, docs[n][k]) /\ Agree(docs, k)
<1> DEFINE e == docs[n][k]
           b == [x \in Plays(docs, k) |-> x[2]]
<1>1. ~Clash(e, e)
  BY DEF Clash
<1>2. Pairs(b, docs, k, e.sounds)
  <2>1. \A x \in Plays(docs, k) : x = <<n, x[2]>> /\ x[1] = n /\ x[2] \in DOMAIN e.sounds
    BY PlaysAre
  <2>2. \A y \in DOMAIN e.sounds : <<n, y>> \in Plays(docs, k)
    BY PlaysAre
  <2>3. ASSUME NEW y \in DOMAIN e.sounds PROVE \E x \in Plays(docs, k) : b[x] = y
    <3>1. b[<<n, y>>] = y
      BY <2>2
    <3> QED BY <2>2, <3>1
  <2> QED BY <2>1, <2>3 DEF Pairs, At
<1> QED
  BY <1>1, <1>2 DEF Told, Agree

\* One more document, which does not define the event, or does.
LEMMA ToldKeeps ==
  ASSUME NEW docs, NEW more, NEW k, NEW e, Told(docs, k, e), Agree(docs, k),
         Definers(more, k) = Definers(docs, k), \A i \in Definers(docs, k) : more[i] = docs[i]
  PROVE  Told(more, k, e) /\ Agree(more, k)
<1>1. Plays(more, k) = Plays(docs, k)
  BY DEF Plays, Places
<1>2. \A x \in Plays(docs, k) : At(more, k, x) = At(docs, k, x)
  BY PlaysAre DEF At
<1>3. \A b : Pairs(b, docs, k, e.sounds) => Pairs(b, more, k, e.sounds)
  BY <1>1, <1>2 DEF Pairs
<1> QED
  BY <1>3 DEF Told, Agree

\* A sequence is one of its own elements.
LEMMA SeqOwn ==
  ASSUME NEW S, NEW s \in Seq(S)
  PROVE  s \in Seq(ToSet(s))
<1> DEFINE T == ToSet(s)
           l == Len(s)
<1>1. l \in Nat /\ s \in [1 .. l -> S]
  OBVIOUS
<1>2. \A y \in 1 .. l : s[y] \in T
  BY <1>1 DEF ToSet
<1> HIDE DEF T, l
<1>3. s \in [1 .. l -> T]
  BY <1>1, <1>2
<1>4. s \in Seq(T)
  BY <1>1, <1>3
<1> QED
  BY <1>4 DEF T

LEMMA ToldGrows ==
  ASSUME NEW docs, NEW more, NEW k, NEW e, Told(docs, k, e), Agree(docs, k), NEW n,
         n \notin Definers(docs, k), Definers(more, k) = Definers(docs, k) \union {n},
         \A i \in Definers(docs, k) : more[i] = docs[i],
         IsEvent(more[n][k]), ~Clash(e, more[n][k])
  PROVE  Told(more, k, Append2(e, more[n][k])) /\ Agree(more, k)
<1> DEFINE d == more[n][k]
           J == Append2(e, d)
           D == Definers(docs, k)
<1>1. /\ J.sounds = e.sounds \o d.sounds /\ J.replace = e.replace /\ J.extra = e.extra
      /\ J.subtitle = IF e.subtitle = Null THEN d.subtitle ELSE e.subtitle
  BY DEF Append2
<1>2. J = [sounds |-> J.sounds, replace |-> J.replace, subtitle |-> J.subtitle, extra |-> J.extra]
  BY DEF Append2
<1>3. /\ e.sounds \in Seq(ToSet(e.sounds)) /\ d.sounds \in Seq(ToSet(d.sounds))
      /\ e.replace = FALSE /\ d.replace = FALSE /\ e.extra = d.extra
      /\ (e.subtitle = Null \/ d.subtitle = Null \/ e.subtitle = d.subtitle)
  BY DEF Told, IsEvent, Clash
<1> HIDE DEF J
<1>4. /\ DOMAIN e.sounds = 1 .. Len(e.sounds) /\ Len(e.sounds) \in Nat
      /\ DOMAIN d.sounds = 1 .. Len(d.sounds) /\ Len(d.sounds) \in Nat
      /\ DOMAIN J.sounds = 1 .. Len(e.sounds) + Len(d.sounds)
      /\ \A y \in DOMAIN e.sounds : J.sounds[y] = e.sounds[y]
      /\ \A y \in DOMAIN d.sounds : J.sounds[Len(e.sounds) + y] = d.sounds[y]
  <2> DEFINE S == ToSet(e.sounds) \union ToSet(d.sounds)
             a == e.sounds
             c == d.sounds
  <2>1. a \in Seq(S) /\ c \in Seq(S)
    <3> DEFINE A == ToSet(a)
               C == ToSet(c)
    <3>1. a \in Seq(A) /\ c \in Seq(C) /\ S = A \union C
      BY <1>3
    <3> HIDE DEF A, C, S, a, c
    <3> QED BY <3>1
  <2>2. J.sounds = a \o c
    BY <1>1
  <2> HIDE DEF S, a, c
  <2>3. /\ DOMAIN a = 1 .. Len(a) /\ Len(a) \in Nat /\ DOMAIN c = 1 .. Len(c) /\ Len(c) \in Nat
        /\ DOMAIN (a \o c) = 1 .. Len(a) + Len(c)
        /\ \A y \in DOMAIN a : (a \o c)[y] = a[y]
        /\ \A y \in DOMAIN c : (a \o c)[Len(a) + y] = c[y]
    BY <2>1
  <2> QED BY <2>2, <2>3 DEF a, c
<1>5. IsEvent(J)
  <2>1. J.sounds \in Seq(ToSet(J.sounds))
    <3> DEFINE a == e.sounds
               c == d.sounds
               A == ToSet(a)
               C == ToSet(c)
    <3>1. a \in Seq(A) /\ c \in Seq(C) /\ J.sounds = a \o c
      BY <1>1, <1>3
    <3> HIDE DEF a, c, A, C
    <3>2. a \in Seq(A \union C) /\ c \in Seq(A \union C)
      BY <3>1
    <3>3. J.sounds \in Seq(A \union C)
      BY <3>1, <3>2
    <3> QED BY <3>3, SeqOwn
  <2> QED BY <1>1, <1>2, <1>3, <2>1 DEF IsEvent
<1>6. PICK b : Pairs(b, docs, k, e.sounds)
  BY DEF Told
<1> DEFINE c == [x \in Plays(more, k) |-> IF x[1] = n THEN Len(e.sounds) + x[2] ELSE b[x]]
<1>7. /\ \A x \in Plays(more, k) :
           \/ /\ x[1] # n /\ x \in Plays(docs, k) /\ b[x] \in 1 .. Len(e.sounds)
              /\ At(more, k, x) = At(docs, k, x) /\ e.sounds[b[x]] = At(docs, k, x)
           \/ x[1] = n /\ x = <<n, x[2]>> /\ x[2] \in 1 .. Len(d.sounds) /\ At(more, k, x) = d.sounds[x[2]]
      /\ \A x \in Plays(docs, k) : x \in Plays(more, k) /\ x[1] # n
      /\ \A y \in 1 .. Len(d.sounds) : <<n, y>> \in Plays(more, k)
  <2>1. ASSUME NEW x \in Plays(more, k), x[1] # n
        PROVE  /\ x \in Plays(docs, k) /\ b[x] \in 1 .. Len(e.sounds)
               /\ At(more, k, x) = At(docs, k, x) /\ e.sounds[b[x]] = At(docs, k, x)
    <3>1. x = <<x[1], x[2]>> /\ x[1] \in D /\ x[2] \in DOMAIN docs[x[1]][k].sounds /\ more[x[1]] = docs[x[1]]
      BY <2>1, PlaysAre
    <3>2. <<x[1], x[2]>> \in Plays(docs, k)
      BY <3>1, PlaysAre
    <3>3. x \in Plays(docs, k)
      BY <3>1, <3>2
    <3> QED BY <1>4, <1>6, <3>1, <3>3 DEF Pairs, At
  <2>2. ASSUME NEW x \in Plays(more, k), x[1] = n
        PROVE  x = <<n, x[2]>> /\ x[2] \in 1 .. Len(d.sounds) /\ At(more, k, x) = d.sounds[x[2]]
    BY <1>4, <2>2, PlaysAre DEF At
  <2>3. ASSUME NEW x \in Plays(docs, k) PROVE x \in Plays(more, k) /\ x[1] # n
    <3>1. x = <<x[1], x[2]>> /\ x[1] \in D /\ x[2] \in DOMAIN docs[x[1]][k].sounds
      BY PlaysAre
    <3>2. x[1] \in Definers(more, k) /\ x[2] \in DOMAIN more[x[1]][k].sounds
      BY <3>1
    <3>3. <<x[1], x[2]>> \in Plays(more, k)
      BY <3>2, PlaysAre
    <3> QED BY <3>1, <3>3
  <2>4. ASSUME NEW y \in 1 .. Len(d.sounds) PROVE <<n, y>> \in Plays(more, k)
    <3>1. n \in Definers(more, k) /\ y \in DOMAIN more[n][k].sounds
      BY <1>4
    <3> QED BY <3>1, PlaysAre
  <2> QED BY <2>1, <2>2, <2>3, <2>4
<1>8. Pairs(c, more, k, J.sounds)
  <2> DEFINE P == Plays(more, k)
             Q == Plays(docs, k)
             l == Len(e.sounds)
             r == Len(d.sounds)
  <2>1. l \in Nat /\ r \in Nat /\ DOMAIN J.sounds = 1 .. l + r
    BY <1>4
  <2>2. \A x \in P : (x[1] = n => c[x] = l + x[2]) /\ (x[1] # n => c[x] = b[x])
    OBVIOUS
  <2>3. DOMAIN c = P /\ c = [x \in P |-> c[x]]
    OBVIOUS
  <2> HIDE DEF c
  <2>4. ASSUME NEW x \in P PROVE c[x] \in DOMAIN J.sounds /\ J.sounds[c[x]] = At(more, k, x)
    <3>1. CASE x[1] = n
      <4>1. x[2] \in 1 .. r /\ At(more, k, x) = d.sounds[x[2]] /\ c[x] = l + x[2]
        BY <1>7, <2>2, <3>1
      <4>2. J.sounds[l + x[2]] = d.sounds[x[2]]
        BY <1>4, <4>1
      <4>3. l + x[2] \in 1 .. l + r
        <5> HIDE DEF l, r
        <5> QED BY <2>1, <4>1
      <4> HIDE DEF l, r, P
      <4> QED BY <2>1, <4>1, <4>2, <4>3
    <3>2. CASE x[1] # n
      <4>1. c[x] = b[x] /\ b[x] \in 1 .. l /\ At(more, k, x) = e.sounds[b[x]]
        BY <1>7, <2>2, <3>2
      <4>2. J.sounds[b[x]] = e.sounds[b[x]]
        BY <1>4, <4>1
      <4>3. b[x] \in 1 .. l + r
        <5> HIDE DEF l, r
        <5> QED BY <2>1, <4>1
      <4> HIDE DEF l, r, P
      <4> QED BY <2>1, <4>1, <4>2, <4>3
    <3> QED BY <3>1, <3>2
  <2>5. ASSUME NEW y \in DOMAIN J.sounds PROVE \E x \in P : c[x] = y
    <3>1. CASE y \in 1 .. l
      <4>1. PICK x \in Q : b[x] = y
        BY <1>4, <1>6, <3>1 DEF Pairs
      <4> QED BY <1>7, <2>2, <4>1
    <3>2. CASE y \notin 1 .. l
      <4>1. PICK z \in 1 .. r : y = l + z
        <5>1. y \in 1 .. l + r
          BY <2>1
        <5> HIDE DEF l, r
        <5>2. y - l \in 1 .. r /\ y = l + (y - l)
          BY <2>1, <3>2, <5>1
        <5> QED BY <5>2
      <4> DEFINE x == <<n, z>>
      <4>2. x \in P /\ x[1] = n /\ x[2] = z
        BY <1>7
      <4> HIDE DEF x
      <4> QED BY <2>2, <4>1, <4>2
    <3> QED BY <3>1, <3>2
  <2>6. ASSUME NEW x \in P, NEW y \in P, c[x] = c[y] PROVE x = y
    <3>1. CASE x[1] = n /\ y[1] = n
      <4>1. x = <<n, x[2]>> /\ y = <<n, y[2]>> /\ x[2] \in 1 .. r /\ y[2] \in 1 .. r
        BY <1>7, <3>1
      <4>2. l + x[2] = l + y[2]
        BY <2>2, <2>6, <3>1
      <4>3. x[2] = y[2]
        BY <2>1, <4>1, <4>2
      <4> QED BY <4>1, <4>3
    <3>2. CASE x[1] # n /\ y[1] # n
      <4>1. x \in Q /\ y \in Q /\ b[x] = b[y]
        BY <1>7, <2>2, <2>6, <3>2
      <4> QED BY <1>6, <4>1 DEF Pairs
    <3>3. ASSUME NEW u \in P, NEW v \in P, u[1] = n, v[1] # n PROVE c[u] # c[v]
      <4>1. u[2] \in 1 .. r /\ c[u] = l + u[2] /\ c[v] = b[v] /\ b[v] \in 1 .. l
        BY <1>7, <2>2, <3>3
      <4> HIDE DEF l, r
      <4> QED BY <2>1, <4>1
    <3> QED BY <2>6, <3>1, <3>2, <3>3
  <2> QED BY <2>3, <2>4, <2>5, <2>6 DEF Pairs
<1>9. /\ \A i \in Definers(more, k) : ~Clash(more[i][k], J)
      /\ J.subtitle # Null <=> \E i \in Definers(more, k) : more[i][k].subtitle # Null
  BY <1>1, <1>3 DEF Told, Clash
<1>10. Agree(more, k)
  <2>1. ASSUME NEW i \in D PROVE ~Clash(more[i][k], d) /\ ~Clash(d, more[i][k])
    BY <1>3 DEF Told, Clash
  <2>2. ~Clash(d, d)
    BY <1>3 DEF Clash
  <2> QED BY <2>1, <2>2 DEF Agree
<1>11. ~J.replace /\ \E f : Pairs(f, more, k, J.sounds)
  <2> HIDE DEF c
  <2> QED BY <1>1, <1>3, <1>8
<1>12. Told(more, k, J)
  BY <1>5, <1>9, <1>11 DEF Told
<1> QED
  BY <1>10, <1>12 DEF J

\* What the merge keeps is what the documents say, event by event.
LEMMA SoundsTell ==
  ASSUME NEW E, \A d \in E : IsSounds(d), NEW s \in Seq(E), MergeSounds(s) # Null
  PROVE  Tells(s, MergeSounds(s))
<1> DEFINE Good == {t \in Seq(E) : MergeSounds(t) # Null => Tells(t, MergeSounds(t))}
<1>1. <<>> \in Good
  <2>1. DOMAIN MergeSounds(<<>>) = {}
    BY SoundsStep
  <2>2. <<>> \in Seq(E) /\ Keys(<<>>) = {}
    BY DEF Keys
  <2> QED BY <2>1, <2>2 DEF Tells
<1>2. ASSUME NEW t \in Seq(E), t \in Good, NEW d \in E PROVE Append(t, d) \in Good
  <2> DEFINE u == Append(t, d)
             n == Len(t) + 1
             m == MergeSounds(t)
             w == MergeSounds(u)
  <2>1. w = JoinSound({TRUE}, m, d)
    BY SoundsStep
  <2>2. /\ u \in Seq(E) /\ DOMAIN u = 1 .. n /\ DOMAIN t = 1 .. n - 1 /\ n \in Nat \ {0} /\ u[n] = d
        /\ \A i \in DOMAIN t : u[i] = t[i]
    OBVIOUS
  <2>3. m # Null => Tells(t, m)
    BY <1>2
  <2>4. IsSounds(d)
    OBVIOUS
  <2> HIDE DEF u, n, m, w
  <2>5. ASSUME w # Null PROVE Tells(u, w)
    <3>1. /\ m # Null /\ d \notin Unusable
          /\ \A k \in DOMAIN d : d[k] # Shapeless /\ d[k].replace # TRUE /\ (k \in DOMAIN m => ~Clash(m[k], d[k]))
      BY <2>1, <2>5 DEF JoinSound
    <3>2. w = [k \in DOMAIN m \union DOMAIN d |->
                 IF k \notin DOMAIN d THEN m[k] ELSE IF k \notin DOMAIN m THEN d[k] ELSE Append2(m[k], d[k])]
      BY <2>1, <3>1 DEF JoinSound
    <3>3. Keys(t) = DOMAIN m /\ \A k \in DOMAIN m : Told(t, k, m[k]) /\ Agree(t, k)
      BY <2>3, <3>1 DEF Tells
    <3>4. \A k \in DOMAIN d : IsEvent(d[k]) /\ ~d[k].replace
      BY <2>4, <3>1 DEF IsSounds, IsEvent
    <3>5. /\ \A k : Definers(u, k) = Definers(t, k) \union IF k \in DOMAIN d THEN {n} ELSE {}
          /\ \A k : n \notin Definers(t, k) /\ \A i \in Definers(t, k) : u[i] = t[i]
      <4>1. n \in DOMAIN u /\ n \notin DOMAIN t /\ \A i \in DOMAIN u : i = n \/ i \in DOMAIN t
        BY <2>2
      <4>2. \A i \in DOMAIN t : i \in DOMAIN u
        BY <2>2
      <4> QED BY <2>2, <4>1, <4>2 DEF Definers
    <3>6. \A k : k \notin Keys(t) => Definers(t, k) = {}
      BY DEF Keys, Definers
    <3>7. Keys(u) = DOMAIN w
      <4>1. \A k : k \in Keys(u) <=> Definers(u, k) # {}
        BY DEF Keys, Definers
      <4>2. \A k : k \in Keys(t) <=> Definers(t, k) # {}
        BY DEF Keys, Definers
      <4>3. DOMAIN w = Keys(t) \union DOMAIN d
        BY <3>2, <3>3
      <4>4. \A k : k \in Keys(u) <=> k \in DOMAIN w
        BY <3>5, <4>1, <4>2, <4>3
      <4>5. Keys(u) \subseteq DOMAIN w /\ DOMAIN w \subseteq Keys(u)
        BY <4>4
      <4> QED BY <4>5
    <3>8. ASSUME NEW k \in DOMAIN w PROVE Told(u, k, w[k]) /\ Agree(u, k)
      <4>1. CASE k \notin DOMAIN d
        <5>1. k \in DOMAIN m /\ w[k] = m[k]
          BY <3>2, <4>1
        <5>2. Definers(u, k) = Definers(t, k)
          BY <3>5, <4>1
        <5>3. Told(t, k, m[k]) /\ Agree(t, k) /\ \A i \in Definers(t, k) : u[i] = t[i]
          BY <3>3, <3>5, <5>1
        <5> QED BY <5>1, <5>2, <5>3, ToldKeeps
      <4>2. CASE k \in DOMAIN d /\ k \notin DOMAIN m
        <5>1. w[k] = u[n][k]
          BY <2>2, <3>2, <4>2
        <5>2. Definers(u, k) = {n}
          BY <3>3, <3>5, <3>6, <4>2
        <5>3. IsEvent(u[n][k]) /\ ~u[n][k].replace
          BY <2>2, <3>4, <4>2
        <5> QED BY <5>1, <5>2, <5>3, ToldOne
      <4>3. CASE k \in DOMAIN d /\ k \in DOMAIN m
        <5>1. w[k] = Append2(m[k], u[n][k])
          BY <2>2, <3>2, <4>3
        <5>2. Definers(u, k) = Definers(t, k) \union {n} /\ n \notin Definers(t, k)
          BY <3>5, <4>3
        <5>3. Told(t, k, m[k]) /\ Agree(t, k) /\ \A i \in Definers(t, k) : u[i] = t[i]
          BY <3>3, <3>5, <4>3
        <5>4. IsEvent(u[n][k]) /\ ~Clash(m[k], u[n][k])
          BY <2>2, <3>1, <3>4, <4>3
        <5> QED BY <5>1, <5>2, <5>3, <5>4, ToldGrows
      <4> QED BY <4>1, <4>2, <4>3
    <3> QED BY <3>7, <3>8 DEF Tells
  <2> QED BY <2>2, <2>5 DEF u, w
<1>3. s \in Good
  <2> HIDE DEF Good
  <2> QED BY <1>1, <1>2, SeqInduction
<1> QED
  BY <1>3

Meaning(e) ==
  [sounds   |-> [s \in ToSet(e.sounds) |-> Cardinality({n \in DOMAIN e.sounds : e.sounds[n] = s})],
   subtitle |-> e.subtitle, extra |-> e.extra]

LEMMA ToldIs ==
  ASSUME NEW docs, NEW n \in Nat, DOMAIN docs = 1 .. n, NEW k \in Keys(docs), NEW e,
         Told(docs, k, e), Agree(docs, k)
  PROVE  Voiced(docs, k) = Meaning(e)
<1> DEFINE by     == Definers(docs, k)
           from   == Max({1} \union {i \in by : docs[i][k].replace})
           spoken == {i \in by : i >= from /\ docs[i][k].subtitle # Null}
           places == Places(docs, k, {i \in by : i >= from})
           P      == Plays(docs, k)
<1>1. by \in SUBSET (1 .. n) /\ by # {}
  BY DEF Definers, Keys
<1>2. \A i \in by : ~docs[i][k].replace /\ docs[i][k].extra = e.extra /\ ~Clash(docs[i][k], e)
  BY DEF Told, Clash
<1>3. from = 1
  <2> DEFINE S == {1} \union {i \in by : docs[i][k].replace}
  <2>1. \A x : x \in S <=> x = 1
    BY <1>2
  <2>2. PICK l \in Nat : l = 1
    OBVIOUS
  <2> HIDE DEF S
  <2>3. S \in SUBSET (1 .. l) /\ S # {}
    BY <2>1, <2>2
  <2>4. Max(S) \in S
    BY <2>3, MaxIn
  <2> QED BY <2>1, <2>4 DEF S
<1>4. spoken = {i \in by : docs[i][k].subtitle # Null} /\ places = P
  <2>1. \A i \in by : i >= from
    BY <1>1, <1>3
  <2>2. {i \in by : i >= from} = by
    BY <2>1
  <2> HIDE DEF from
  <2> QED BY <2>1, <2>2 DEF Plays
<1>5. Max(by) \in by
  <2> HIDE DEF by
  <2> QED BY <1>1, MaxIn
<1>6. docs[Max(by)][k].extra = e.extra
  BY <1>2, <1>5
<1>7. (IF spoken = {} THEN Null ELSE docs[Max(spoken)][k].subtitle) = e.subtitle
  <2> HIDE DEF by, from
  <2>1. CASE spoken = {}
    BY <1>4, <2>1 DEF Told, by
  <2>2. CASE spoken # {}
    <3>1. spoken \in SUBSET (1 .. n)
      BY <1>1
    <3> HIDE DEF spoken
    <3>2. Max(spoken) \in spoken
      BY <2>2, <3>1, MaxIn
    <3>3. Max(spoken) \in by /\ docs[Max(spoken)][k].subtitle # Null
      BY <1>4, <3>2
    <3>4. e.subtitle # Null
      BY <3>3 DEF Told, by
    <3> QED BY <1>2, <2>2, <3>3, <3>4 DEF Clash
  <2> QED BY <2>1, <2>2
<1>8. PICK b : Pairs(b, docs, k, e.sounds)
  BY DEF Told
<1>9. {At(docs, k, x) : x \in P} = ToSet(e.sounds)
  <2>1. ASSUME NEW x \in P PROVE At(docs, k, x) \in ToSet(e.sounds)
    BY <1>8 DEF Pairs, ToSet
  <2>2. ASSUME NEW s \in ToSet(e.sounds) PROVE \E x \in P : At(docs, k, x) = s
    <3>1. PICK y \in DOMAIN e.sounds : e.sounds[y] = s
      BY DEF ToSet
    <3>2. PICK x \in P : b[x] = y
      BY <1>8 DEF Pairs
    <3> QED BY <1>8, <3>1, <3>2 DEF Pairs
  <2> HIDE DEF P
  <2> QED BY <2>1, <2>2
<1>10. ASSUME NEW s
       PROVE  Cardinality({x \in P : At(docs, k, x) = s}) = Cardinality({y \in DOMAIN e.sounds : e.sounds[y] = s})
  <2> DEFINE X == {x \in P : At(docs, k, x) = s}
             Y == {y \in DOMAIN e.sounds : e.sounds[y] = s}
             c == [x \in X |-> b[x]]
  <2>1. c \in [X -> Y] /\ \A x, y \in X : c[x] = c[y] => x = y
    BY <1>8 DEF Pairs
  <2>2. \A y \in Y : \E x \in X : c[x] = y
    <3> TAKE y \in Y
    <3>1. PICK x \in P : b[x] = y
      BY <1>8 DEF Pairs
    <3>2. x \in X
      BY <1>8, <3>1 DEF Pairs
    <3> QED BY <3>1, <3>2
  <2>3. IsFiniteSet(Y)
    <3>1. e.sounds \in Seq(ToSet(e.sounds))
      BY DEF Told, IsEvent
    <3> DEFINE l == Len(e.sounds)
    <3>2. l \in Nat /\ DOMAIN e.sounds = 1 .. l
      <4> DEFINE a == e.sounds
                 A == ToSet(a)
      <4>1. a \in Seq(A)
        BY <3>1
      <4> HIDE DEF a, A
      <4>2. Len(a) \in Nat /\ DOMAIN a = 1 .. Len(a)
        BY <4>1
      <4> QED BY <4>2 DEF a
    <3> HIDE DEF l
    <3>3. IsFiniteSet(1 .. l) /\ Y \in SUBSET (1 .. l)
      BY <3>2, FS_Interval
    <3> HIDE DEF Y
    <3> QED BY <3>3, FS_Subset
  <2> HIDE DEF X, Y, c
  <2>4. c \in Bijection(X, Y)
    BY <2>1, <2>2 DEF Bijection, Injection, Surjection, IsInjective
  <2>5. ExistsBijection(X, Y)
    BY <2>4 DEF ExistsBijection
  <2>6. ExistsBijection(Y, X)
    BY <2>5, Fun_ExistsBijSymmetric
  <2>7. Cardinality(Y) = Cardinality(X)
    BY <2>3, <2>6, FS_Bijection
  <2> QED BY <2>7 DEF X, Y
<1>11. Voiced(docs, k) =
         [sounds   |-> [s \in {At(docs, k, x) : x \in P} |-> Cardinality({x \in P : At(docs, k, x) = s})],
          subtitle |-> e.subtitle, extra |-> e.extra]
  <2>1. Voiced(docs, k) =
          [sounds   |-> [s \in {At(docs, k, x) : x \in places} |-> Cardinality({x \in places : At(docs, k, x) = s})],
           subtitle |-> IF spoken = {} THEN Null ELSE docs[Max(spoken)][k].subtitle,
           extra    |-> docs[Max(by)][k].extra]
    BY Zenon DEF Voiced, At
  <2> HIDE DEF by, from, spoken, places, P
  <2> QED BY <1>4, <1>6, <1>7, <2>1
<1> QED
  BY <1>9, <1>10, <1>11 DEF Meaning

\* The order of the documents does not matter to what they say.
LEMMA ToldReordered ==
  ASSUME NEW docs, NEW n \in Nat, DOMAIN docs = 1 .. n, NEW k, NEW e, Told(docs, k, e), Agree(docs, k),
         NEW f, Reorders(f, n), NEW o, o = [i \in 1 .. n |-> docs[f[i]]]
  PROVE  Told(o, k, e) /\ Agree(o, k)
<1> DEFINE P == Plays(docs, k)
           Q == Plays(o, k)
<1>1. /\ \A i \in Definers(o, k) : i \in 1 .. n /\ f[i] \in Definers(docs, k) /\ o[i] = docs[f[i]]
      /\ \A h \in Definers(docs, k) : \E i \in Definers(o, k) : f[i] = h
      /\ \A i, h \in Definers(o, k) : f[i] = f[h] => i = h
  <2>1. /\ DOMAIN o = 1 .. n /\ \A i \in 1 .. n : o[i] = docs[f[i]] /\ f[i] \in 1 .. n
        /\ \A h \in 1 .. n : \E i \in 1 .. n : f[i] = h
        /\ \A i, h \in 1 .. n : f[i] = f[h] => i = h
    BY DEF Reorders
  <2>2. \A i : i \in Definers(o, k) <=> i \in 1 .. n /\ k \in DOMAIN o[i]
    BY <2>1 DEF Definers
  <2>3. \A i : i \in Definers(docs, k) <=> i \in 1 .. n /\ k \in DOMAIN docs[i]
    BY DEF Definers
  <2>4. ASSUME NEW h \in Definers(docs, k) PROVE \E i \in Definers(o, k) : f[i] = h
    <3>1. PICK i \in 1 .. n : f[i] = h
      BY <2>1, <2>3
    <3> QED BY <2>1, <2>2, <2>3, <3>1
  <2> QED BY <2>1, <2>2, <2>3, <2>4
<1>2. PICK b : Pairs(b, docs, k, e.sounds)
  BY DEF Told
<1> DEFINE to(x) == <<f[x[1]], x[2]>>
           c     == [x \in Q |-> b[to(x)]]
<1>3. ASSUME NEW x \in Q PROVE to(x) \in P /\ At(o, k, x) = At(docs, k, to(x))
  <2>1. x[1] \in Definers(o, k) /\ x[2] \in DOMAIN o[x[1]][k].sounds
    BY PlaysAre
  <2>2. f[x[1]] \in Definers(docs, k) /\ o[x[1]] = docs[f[x[1]]]
    BY <1>1, <2>1
  <2>3. to(x) \in P
    BY <2>1, <2>2, PlaysAre
  <2> QED BY <2>2, <2>3 DEF At
<1>4. ASSUME NEW y \in P PROVE \E x \in Q : to(x) = y
  <2>1. y = <<y[1], y[2]>> /\ y[1] \in Definers(docs, k) /\ y[2] \in DOMAIN docs[y[1]][k].sounds
    BY PlaysAre
  <2>2. PICK i \in Definers(o, k) : f[i] = y[1]
    BY <1>1, <2>1
  <2> DEFINE x == <<i, y[2]>>
  <2>3. x \in Q
    <3>1. y[2] \in DOMAIN o[i][k].sounds
      BY <1>1, <2>1, <2>2
    <3> QED BY <3>1, PlaysAre
  <2>4. to(x) = y
    BY <2>1, <2>2
  <2> QED BY <2>3, <2>4
<1>5. ASSUME NEW x \in Q, NEW y \in Q, to(x) = to(y) PROVE x = y
  <2>1. f[x[1]] = f[y[1]] /\ x[2] = y[2]
    BY <1>5
  <2>2. x = <<x[1], x[2]>> /\ y = <<y[1], y[2]>> /\ x[1] \in Definers(o, k) /\ y[1] \in Definers(o, k)
    BY PlaysAre
  <2>3. x[1] = y[1]
    BY <1>1, <2>1, <2>2
  <2> QED BY <2>1, <2>2, <2>3
<1>6. Pairs(c, o, k, e.sounds)
  <2> HIDE DEF to, P, Q
  <2>1. \A x \in Q : c[x] = b[to(x)]
    OBVIOUS
  <2>2. /\ b \in [P -> DOMAIN e.sounds] /\ \A y \in DOMAIN e.sounds : \E x \in P : b[x] = y
        /\ \A x, y \in P : b[x] = b[y] => x = y
        /\ \A x \in P : e.sounds[b[x]] = At(docs, k, x)
    BY <1>2 DEF Pairs, P
  <2>3. c \in [Q -> DOMAIN e.sounds]
    BY <1>3, <2>2
  <2> HIDE DEF c
  <2>4. ASSUME NEW y \in DOMAIN e.sounds PROVE \E x \in Q : c[x] = y
    <3>1. PICK z \in P : b[z] = y
      BY <2>2
    <3>2. PICK x \in Q : to(x) = z
      BY <1>4
    <3> QED BY <2>1, <3>1, <3>2
  <2>5. ASSUME NEW x \in Q, NEW y \in Q, c[x] = c[y] PROVE x = y
    BY <1>3, <1>5, <2>1, <2>2, <2>5
  <2>6. ASSUME NEW x \in Q PROVE e.sounds[c[x]] = At(o, k, x)
    BY <1>3, <2>1, <2>2
  <2> QED BY <2>3, <2>4, <2>5, <2>6 DEF Pairs, Q
<1>7. /\ \A i \in Definers(o, k) : ~Clash(o[i][k], e)
      /\ e.subtitle # Null <=> \E i \in Definers(o, k) : o[i][k].subtitle # Null
  <2>1. /\ \A i \in Definers(docs, k) : ~Clash(docs[i][k], e)
        /\ e.subtitle # Null <=> \E i \in Definers(docs, k) : docs[i][k].subtitle # Null
    BY DEF Told
  <2>2. ASSUME NEW h \in Definers(docs, k), docs[h][k].subtitle # Null
        PROVE  \E i \in Definers(o, k) : o[i][k].subtitle # Null
    <3>1. PICK i \in Definers(o, k) : f[i] = h
      BY <1>1
    <3> QED BY <1>1, <2>2, <3>1
  <2>3. ASSUME NEW i \in Definers(o, k), o[i][k].subtitle # Null
        PROVE  \E h \in Definers(docs, k) : docs[h][k].subtitle # Null
    BY <1>1, <2>3
  <2>4. \A i \in Definers(o, k) : ~Clash(o[i][k], e)
    BY <1>1, <2>1
  <2> QED BY <2>1, <2>2, <2>3, <2>4
<1>8. Agree(o, k)
  BY <1>1 DEF Agree
<1> QED
  <2> HIDE DEF c
  <2> QED BY <1>6, <1>7, <1>8 DEF Told

\* Events that can be appended are merged to what is heard in every order.
LEMMA SoundsMean ==
  ASSUME NEW docs, docs \in Seq(ToSet(docs)), \A d \in ToSet(docs) : IsSounds(d), MergeSounds(docs) # Null
  PROVE  Means("sounds", MergeSounds(docs), docs)
<1> DEFINE n == Len(docs)
           m == MergeSounds(docs)
           E == ToSet(docs)
           heard == [k \in DOMAIN m |-> Meaning(m[k])]
<1>1. n \in Nat /\ DOMAIN docs = 1 .. n
  OBVIOUS
<1>2. Tells(docs, m)
  <2> HIDE DEF E, m
  <2> QED BY SoundsTell DEF E, m
<1> HIDE DEF m, n
<1>3. ASSUME NEW s, NEW l \in Nat, DOMAIN s = 1 .. l, Tells(s, m) PROVE Heard(s) = heard
  <2>1. Keys(s) = DOMAIN m
    BY <1>3 DEF Tells
  <2>2. ASSUME NEW k \in Keys(s) PROVE Voiced(s, k) = Meaning(m[k])
    <3>1. Told(s, k, m[k]) /\ Agree(s, k)
      BY <1>3, <2>1 DEF Tells
    <3> QED BY <1>3, <3>1, ToldIs
  <2> QED BY <2>1, <2>2 DEF Heard
<1>4. Heard(<<m>>) = heard
  <2> DEFINE one == <<m>>
  <2>1. PICK l \in Nat : l = 1
    OBVIOUS
  <2>2. DOMAIN one = 1 .. l /\ one[1] = m /\ \A i : i \in DOMAIN one <=> i = 1
    BY <2>1
  <2> HIDE DEF one
  <2>3. Keys(one) = DOMAIN m
    <3>1. 1 \in DOMAIN one /\ DOMAIN one[1] = DOMAIN m /\ \A i \in DOMAIN one : DOMAIN one[i] = DOMAIN m
      BY <2>2
    <3> DEFINE D == DOMAIN one
               W == DOMAIN m
    <3> HIDE DEF D, W
    <3>2. 1 \in D /\ \A i \in D : DOMAIN one[i] = W
      BY <3>1 DEF D, W
    <3>3. UNION {DOMAIN one[i] : i \in D} = W
      BY <3>2
    <3> QED BY <3>3 DEF Keys, D, W
  <2>4. ASSUME NEW k \in DOMAIN m PROVE Told(one, k, m[k]) /\ Agree(one, k)
    <3>1. Definers(one, k) = {1}
      BY <2>2 DEF Definers
    <3>2. IsEvent(one[1][k]) /\ ~one[1][k].replace
      BY <1>2, <2>2 DEF Tells, Told
    <3>3. Told(one, k, one[1][k]) /\ Agree(one, k)
      BY <3>1, <3>2, ToldOne
    <3> QED BY <2>2, <3>3
  <2>5. Tells(one, m)
    BY <2>3, <2>4 DEF Tells
  <2>6. Heard(one) = heard
    <3> HIDE DEF heard
    <3> QED BY <1>3, <2>2, <2>5
  <2> QED BY <2>6 DEF one
<1>5. ASSUME NEW o \in Orders(docs) PROVE Heard(o) = heard
  <2>1. PICK f : Reorders(f, n) /\ o = [i \in 1 .. n |-> docs[f[i]]]
    BY <1>1, OrderIs DEF n
  <2>2. DOMAIN o = 1 .. n
    BY <2>1
  <2>3. Keys(o) = Keys(docs)
    <3>1. /\ \A i \in 1 .. n : o[i] = docs[f[i]] /\ f[i] \in 1 .. n
          /\ \A h \in 1 .. n : \E i \in 1 .. n : f[i] = h
      BY <2>1 DEF Reorders
    <3>2. ASSUME NEW k \in Keys(o) PROVE k \in Keys(docs)
      <4>1. PICK i \in 1 .. n : k \in DOMAIN o[i]
        BY <2>2 DEF Keys
      <4> QED BY <1>1, <3>1, <4>1 DEF Keys
    <3>3. ASSUME NEW k \in Keys(docs) PROVE k \in Keys(o)
      <4>1. PICK h \in 1 .. n : k \in DOMAIN docs[h]
        BY <1>1 DEF Keys
      <4>2. PICK i \in 1 .. n : f[i] = h
        BY <3>1
      <4>3. k \in DOMAIN o[i]
        BY <3>1, <4>1, <4>2
      <4> QED BY <2>2, <4>3 DEF Keys
    <3>4. Keys(o) \subseteq Keys(docs) /\ Keys(docs) \subseteq Keys(o)
      BY <3>2, <3>3
    <3> QED BY <3>4
  <2>4. ASSUME NEW k \in DOMAIN m PROVE Told(o, k, m[k]) /\ Agree(o, k)
    <3>1. Told(docs, k, m[k]) /\ Agree(docs, k)
      BY <1>2 DEF Tells
    <3> QED BY <1>1, <2>1, <3>1, ToldReordered
  <2>5. Tells(o, m)
    BY <1>2, <2>3, <2>4 DEF Tells
  <2> HIDE DEF heard
  <2> QED BY <1>1, <1>3, <2>2, <2>5
<1> QED
  BY <1>4, <1>5 DEF Means, Effective, m

-----------------------------------------------------------------------------
(* What is called a safe merge means what its contents mean.                 *)

LEMMA MergedMeans ==
  ASSUME NEW c, NEW domain, NEW blobs, NEW T, blobs \in Seq(T),
         Found(c.class, c.language) = Classify(domain, blobs), Mergeable(c),
         Merged(c, Docs(blobs)) # Null,
         domain = "sounds" => \A i \in DOMAIN blobs : IsSounds(blobs[i].doc)
  PROVE  Means(domain, Merged(c, Docs(blobs)), Docs(blobs))
<1> DEFINE docs == Docs(blobs)
           mapping == \A i \in DOMAIN docs : docs[i] \notin Unusable
<1>1. /\ c.class # "identical"
      /\ \/ c.class \in {"safe-crdt-merge", "sound-event-merge"}
         \/ /\ c.class \in {"lang-json-merge", "lang-properties-merge"}
            /\ c.language \in {"disjoint-keys", "shared-equal-values"}
  BY DEF Mergeable, IsSafeMerge
<1>2. \A a, b, x, y : Found(a, b) = Found(x, y) => a = x /\ b = y
  <2>1. \A a, b : Found(a, b).class = a /\ Found(a, b).language = b
    BY DEF Found
  <2> QED BY <2>1
<1>3. \/ domain = "tag" /\ c.class = TagClass(docs)
      \/ domain = "lang-json" /\ mapping /\ c.class = "lang-json-merge" /\ c.language = LanguageClass(docs)
      \/ domain = "lang" /\ mapping /\ c.class = "lang-properties-merge" /\ c.language = LanguageClass(docs)
      \/ domain = "sounds" /\ c.class = SoundClass(docs)
  <2> DEFINE parse == \A i \in DOMAIN docs : docs[i] # Broken
             same  == \A i \in DOMAIN blobs : blobs[i] = blobs[1]
  <2>1. Classify(domain, blobs) =
          IF same THEN Found("identical", Null)
          ELSE IF domain = "tag" THEN Found(TagClass(docs), Null)
          ELSE IF domain = "lang-json" /\ mapping THEN Found("lang-json-merge", LanguageClass(docs))
          ELSE IF domain = "lang" /\ mapping THEN Found("lang-properties-merge", LanguageClass(docs))
          ELSE IF domain = "pack-meta" THEN Found("root-metadata", Null)
          ELSE IF domain \notin JsonDomains THEN Found("binary-override", Null)
          ELSE IF ~parse THEN Found("unsafe-replace", Null)
          ELSE Found(CASE domain = "atlas"  -> "order-dependent-atlas"
                       [] domain = "shader" -> "order-dependent-shader"
                       [] domain = "sounds" -> SoundClass(docs)
                       [] domain = "single" -> "json-override"
                       [] OTHER             -> "json-merge-candidate", Null)
    BY DEF Classify
  <2> HIDE DEF docs, mapping, parse, same
  <2>2. CASE domain \in {"tag", "lang-json", "lang"}
    BY <1>1, <1>2, <2>1, <2>2 DEF JsonDomains
  <2>3. CASE domain \notin {"tag", "lang-json", "lang"}
    <3>1. CASE domain = "sounds"
      BY <1>1, <1>2, <2>1, <3>1 DEF JsonDomains
    <3>2. CASE domain # "sounds"
      BY <1>1, <1>2, <2>1, <2>3, <3>2
    <3> QED BY <3>1, <3>2
  <2> QED BY <2>2, <2>3
<1>4. /\ Len(docs) \in Nat /\ DOMAIN docs = 1 .. Len(docs) /\ docs \in Seq(ToSet(docs))
      /\ \A d \in ToSet(docs) : \E i \in DOMAIN blobs : d = blobs[i].doc
  <2> DEFINE S == ToSet(docs)
             n == Len(blobs)
  <2>1. n \in Nat /\ DOMAIN blobs = 1 .. n
    OBVIOUS
  <2> HIDE DEF n
  <2>2. docs = [i \in 1 .. n |-> blobs[i].doc]
    BY <2>1 DEF Docs
  <2>3. \A i \in 1 .. n : docs[i] \in S
    BY <2>2 DEF ToSet
  <2>4. \A d \in S : \E i \in DOMAIN blobs : d = blobs[i].doc
    BY <2>1, <2>2 DEF ToSet
  <2> HIDE DEF S, docs
  <2>5. docs \in [1 .. n -> S]
    BY <2>2, <2>3
  <2>6. docs \in Seq(S) /\ Len(docs) = n
    BY <2>1, <2>5
  <2> QED BY <2>1, <2>4, <2>5, <2>6 DEF S
<1>5. Merged(c, docs) = CASE c.class = "safe-crdt-merge"   -> MergeTags(docs)
                          [] c.class = "sound-event-merge" -> MergeSounds(docs)
                          [] OTHER                         -> MergeLanguages(docs)
  BY DEF Merged
<1>6. TagClass(docs) # "sound-event-merge" /\ SoundClass(docs) # "safe-crdt-merge"
      /\ TagClass(docs) \notin {"lang-json-merge", "lang-properties-merge"}
      /\ SoundClass(docs) \notin {"lang-json-merge", "lang-properties-merge"}
  <2> HIDE DEF docs
  <2> QED BY DEF TagClass, SoundClass
<1>7. LanguageClass(docs) \in {"disjoint-keys", "shared-equal-values"} =>
        \A key \in Keys(docs) : ~(Cardinality(Shared(docs, key)) > 1)
  <2> HIDE DEF docs
  <2> QED BY DEF LanguageClass
<1>8. mapping => MergeLanguages(docs) = Overwrite(docs)
  <2>1. mapping => ~\E i \in DOMAIN docs : docs[i] \in Unusable
    OBVIOUS
  <2> HIDE DEF docs, mapping
  <2> QED BY <2>1 DEF MergeLanguages
<1>9. Merged(c, docs) # Null
  OBVIOUS
<1> HIDE DEF docs, mapping
<1>10. CASE domain = "tag"
  <2>1. c.class = "safe-crdt-merge" /\ TagClass(docs) = "safe-crdt-merge"
    BY <1>1, <1>3, <1>6, <1>10
  <2>2. Merged(c, docs) = MergeTags(docs)
    BY <1>5, <2>1
  <2> QED BY <1>4, <1>10, <2>1, <2>2, TagsMean DEF docs
<1>11. CASE domain \in {"lang-json", "lang"}
  <2>1. mapping /\ c.class \in {"lang-json-merge", "lang-properties-merge"} /\ c.language = LanguageClass(docs)
    BY <1>3, <1>11
  <2>2. Merged(c, docs) = Overwrite(docs)
    BY <1>5, <1>8, <2>1
  <2>3. \A key \in Keys(docs) : ~(Cardinality(Shared(docs, key)) > 1)
    BY <1>1, <1>7, <2>1
  <2>4. Means(domain, Overwrite(docs), docs)
    BY <1>4, <1>11, <2>3, LanguagesMean
  <2> QED BY <2>2, <2>4 DEF docs
<1>12. CASE domain = "sounds"
  <2>1. c.class = "sound-event-merge"
    BY <1>1, <1>3, <1>6, <1>12
  <2>2. Merged(c, docs) = MergeSounds(docs)
    BY <1>5, <2>1
  <2>3. \A d \in ToSet(docs) : IsSounds(d)
    BY <1>4, <1>12
  <2>4. Means("sounds", MergeSounds(docs), docs)
    BY <1>4, <1>9, <2>2, <2>3, SoundsMean
  <2> QED BY <1>12, <2>2, <2>4 DEF docs
<1> QED
  BY <1>3, <1>10, <1>11, <1>12

\* A safe collision is of a path and of what the contents are.
Safe(dir, c) ==
  IsSafeMerge(c) => /\ c.path \in Paths
                    /\ Found(c.class, c.language) = Classify(Domain[c.path], Blobs(Entries(dir, {c.path})))

\* What is staged for a safe item means what the contents mean.
Kept(dir, i, files) ==
  i.safe => Means(Domain[i.path], files[i.path], Docs(Blobs(Entries(dir, {i.path}))))

LEMMA ObservedSafe ==
  ASSUME NEW E, NEW dir, IsDir(dir, E), Whole(dir), NEW B \in Members(CollisionBatches(Writes(dir))),
         NEW c \in Observed(dir, Writes(dir), B)
  PROVE  Safe(dir, c)
<1> DEFINE w == Writes(dir)
           read == Reread(dir, w, B)
           of(p) == IF Len(Of(read, {p})) < Len(Of(w, {p})) THEN Found("classification-unavailable", Null)
                    ELSE Classify(Domain[p], Blobs(Of(read, {p})))
<1>1. PICK p \in B : c = Collision(p, of(p))
  BY DEF Observed
<1>2. p \in Paths
  <2>1. B \subseteq Collides(dir)
    BY ObservedRight
  <2> QED BY <2>1 DEF Collides
<1>3. ~(Len(Of(read, {p})) < Len(Of(w, {p}))) => Of(read, {p}) = Entries(dir, {p})
  BY ReadIs
<1>4. of(p) = Found("classification-unavailable", Null) \/ of(p) = Classify(Domain[p], Blobs(Entries(dir, {p})))
  BY <1>3
<1>5. of(p) = Found(of(p).class, of(p).language)
  <2>1. \A a, b : Found(a, b) = Found(Found(a, b).class, Found(a, b).language)
    BY DEF Found
  <2>2. \E a, b : of(p) = Found(a, b)
    <3>1. \A d, s : \E a, b : Classify(d, s) = Found(a, b)
      BY DEF Classify
    <3> HIDE DEF of
    <3> QED BY <1>4, <3>1
  <2> HIDE DEF of
  <2> QED BY <2>1, <2>2
<1> HIDE DEF of, w
<1>6. c.path = p /\ c.class = of(p).class /\ c.language = of(p).language
  BY <1>1 DEF Collision
<1>7. ASSUME IsSafeMerge(c) PROVE of(p) # Found("classification-unavailable", Null)
  <2>1. \A a, b : Found(a, b).class = a
    BY DEF Found
  <2> QED BY <1>6, <1>7, <2>1 DEF IsSafeMerge
<1> QED
  BY <1>2, <1>4, <1>5, <1>6, <1>7 DEF Safe

LEMMA CrossSafe ==
  ASSUME NEW dir, NEW writes, NEW c \in CrossFormat(writes)
  PROVE  Safe(dir, c)
<1>1. PICK l : c = Collision(l, Found("lang-format-mismatch", Null))
  BY Zenon DEF CrossFormat
<1>2. c.class = "lang-format-mismatch"
  BY <1>1 DEF Collision, Found
<1> QED
  BY <1>2 DEF Safe, IsSafeMerge

\* What is staged for a safe collision.
LEMMA StagedMeans ==
  ASSUME NEW E, NEW dir, IsDir(dir, E), Whole(dir), \A e \in E : IsEntry(e),
         NEW c, Safe(dir, c), IsSafeMerge(c), c.class # "identical", NEW bytes,
         bytes = OverlayBytes(c, ReadBlobs(dir, Writes(dir), c.path)), bytes # Null
  PROVE  Means(Domain[c.path], bytes, Docs(Blobs(Entries(dir, {c.path}))))
<1> DEFINE p == c.path
           w == Writes(dir)
           mine == Of(Reread(dir, w, {p}), {p})
           all == Entries(dir, {p})
           blobs == Blobs(all)
<1>1. ReadBlobs(dir, w, p) # Null
  BY DEF OverlayBytes
<1>2. Len(mine) = Len(Of(w, {p})) /\ ReadBlobs(dir, w, p) = Blobs(mine)
  BY <1>1 DEF ReadBlobs
<1>3. Alike(Of(w, {p}), all)
  BY DirScan
<1>4. /\ mine \in Seq(E) /\ \A i \in DOMAIN mine : mine[i].path = p
      /\ ~(Len(mine) < Len(Of(w, {p}))) => mine = all
  BY ReadIs
<1> HIDE DEF w, mine, all, p
<1>5. Len(mine) \in Nat
  BY <1>4
<1>6. mine = all
  BY <1>2, <1>4, <1>5
<1>7. bytes = Merged(c, Docs(blobs)) /\ Mergeable(c)
  BY <1>1, <1>2, <1>6 DEF OverlayBytes, Mergeable, w, p
<1>8. Found(c.class, c.language) = Classify(Domain[p], blobs)
  BY DEF Safe, p, all
<1>9. /\ DOMAIN blobs = DOMAIN all /\ \A i \in DOMAIN all : blobs[i].doc = all[i].doc
      /\ blobs \in Seq(ToSet(blobs))
  <2> DEFINE n == Len(all)
             S == ToSet(blobs)
             b == [i \in 1 .. n |-> [size |-> all[i].size, doc |-> all[i].doc]]
  <2>1. n \in Nat /\ DOMAIN all = 1 .. n
    BY <1>4, <1>6
  <2> HIDE DEF n
  <2>2. blobs = b
    BY <2>1 DEF Blobs
  <2>3. \A i \in 1 .. n : b[i] \in S /\ b[i].doc = all[i].doc
    BY <2>1, <2>2 DEF ToSet
  <2> HIDE DEF S
  <2>4. b \in [1 .. n -> S]
    BY <2>3
  <2>5. b \in Seq(S)
    <3> HIDE DEF b
    <3> QED BY <2>1, <2>4
  <2>6. DOMAIN b = 1 .. n
    OBVIOUS
  <2> HIDE DEF b, blobs
  <2> QED BY <2>1, <2>2, <2>3, <2>5, <2>6 DEF S
<1>10. ASSUME Domain[p] = "sounds", NEW i \in DOMAIN blobs PROVE IsSounds(blobs[i].doc)
  <2>1. i \in DOMAIN all /\ blobs[i].doc = all[i].doc
    BY <1>9
  <2>2. all[i] \in E /\ all[i].path = p
    BY <1>4, <1>6, <2>1
  <2>3. Domain[all[i].path] = "sounds" => IsSounds(all[i].doc)
    BY <2>2 DEF IsEntry
  <2> QED BY <1>10, <2>1, <2>2, <2>3
<1> HIDE DEF blobs
<1>11. Means(Domain[p], Merged(c, Docs(blobs)), Docs(blobs))
  BY <1>7, <1>8, <1>9, <1>10, MergedMeans
<1> QED
  BY <1>7, <1>11 DEF blobs, all, p

\* What a process holds that nothing has changed under.
Trusted(dir, label, r, t) ==
  label \in {"classify", "stage", "commit"} /\ ~r.stale /\ Whole(dir) =>
    /\ \A c \in r.collisions : Safe(dir, c)
    /\ label # "classify" => \A i \in r.items : Kept(dir, i, t.files)

Trust == /\ \A p \in Processes : Trusted(jars, pc[p], run[p], tmp[p])
         /\ SafeIsOrderFree

LEMMA TrustStep ==
  ASSUME Inv, Trust, NEW p \in Processes, NEW label, NEW r, NEW t, Trusted(jars, label, r, t),
         pc' = [pc EXCEPT ![p] = label], run' = [run EXCEPT ![p] = r], tmp' = [tmp EXCEPT ![p] = t],
         UNCHANGED jars, SafeIsOrderFree'
  PROVE  Trust'
<1>1. \A q \in Processes : /\ pc'[q] = IF q = p THEN label ELSE pc[q]
                           /\ run'[q] = IF q = p THEN r ELSE run[q]
                           /\ tmp'[q] = IF q = p THEN t ELSE tmp[q]
  BY DEF Inv, Shape
<1>2. \A q \in Processes : Trusted(jars, pc'[q], run'[q], tmp'[q])
  BY <1>1 DEF Trust
<1> QED
  BY <1>2 DEF Trust

LEMMA TrustQuiet ==
  ASSUME Inv, Trust, NEW p \in Processes,
         \/ \E winners \in BOOLEAN : Begin(p, winners)
         \/ CheckOut(p) \/ WriteFails(p) \/ Crash(p) \/ (\E removed \in BOOLEAN : Fail(p, removed))
         \/ Commit(p) /\ out.exists
  PROVE  Trust'
<1> DEFINE Quiet ==
             /\ pc'[p] \notin {"classify", "stage", "commit"} /\ UNCHANGED <<jars, out>>
             /\ \A q \in Processes : q # p => pc'[q] = pc[q] /\ run'[q] = run[q] /\ tmp'[q] = tmp[q]
<1>1. Quiet
  <2>1. /\ pc = [q \in Processes |-> pc[q]] /\ run = [q \in Processes |-> run[q]]
        /\ tmp = [q \in Processes |-> tmp[q]]
    BY DEF Inv, Shape
  <2>2. ASSUME NEW winners \in BOOLEAN, Begin(p, winners) PROVE Quiet
    BY <2>1, <2>2 DEF Begin, Goto, Files
  <2>3. CASE CheckOut(p)
    BY <2>1, <2>3 DEF CheckOut, Goto, Files
  <2>4. CASE WriteFails(p)
    BY <2>1, <2>4 DEF WriteFails, Goto, Files
  <2>5. CASE Crash(p)
    BY <2>1, <2>5 DEF Crash, Exit, Files
  <2>6. ASSUME NEW removed \in BOOLEAN, Fail(p, removed) PROVE Quiet
    BY <2>1, <2>6 DEF Fail, Exit
  <2>7. CASE Commit(p) /\ out.exists
    BY <2>1, <2>7 DEF Commit, Goto
  <2> HIDE DEF Quiet
  <2> QED BY <2>2, <2>3, <2>4, <2>5, <2>6, <2>7
<1>2. SafeIsOrderFree'
  BY <1>1 DEF Trust, SafeIsOrderFree
<1>3. ASSUME NEW q \in Processes PROVE Trusted(jars, pc'[q], run'[q], tmp'[q])
  BY <1>1 DEF Trust, Trusted
<1> QED
  BY <1>1, <1>2, <1>3 DEF Trust

LEMMA TrustReplace ==
  ASSUME Inv, Trust, NEW j \in Jars, NEW archive \in Replacements, Replace(j, archive)
  PROVE  Trust'
<1>1. /\ UNCHANGED <<out, pc>>
      /\ run' = [p \in Processes |-> IF pc[p] \in {"classify", "stage", "commit"}
                                     THEN [run[p] EXCEPT !.stale = TRUE] ELSE run[p]]
  BY DEF Replace
<1>2. SafeIsOrderFree'
  BY <1>1 DEF Trust, SafeIsOrderFree
<1>3. ASSUME NEW p \in Processes, pc[p] \in {"classify", "stage", "commit"} PROVE run'[p].stale
  <2>1. IsRun(run[p])
    BY <1>3 DEF Inv, Scanned
  <2> DEFINE r == run[p]
  <2>2. run'[p] = [r EXCEPT !.stale = TRUE]
    BY <1>1, <1>3
  <2> HIDE DEF r
  <2>3. [r EXCEPT !.stale = TRUE]["stale"] = TRUE
    BY <2>1, RunSet DEF Fields, r
  <2> QED BY <2>2, <2>3
<1>4. ASSUME NEW p \in Processes PROVE Trusted(jars', pc'[p], run'[p], tmp'[p])
  BY <1>1, <1>3 DEF Trusted
<1> QED
  BY <1>2, <1>4 DEF Trust

LEMMA TrustScan ==
  ASSUME Inv, Trust, NEW p \in Processes, Scan(p)
  PROVE  Trust'
<1> DEFINE w == Writes(jars)
           q == CollisionBatches(w)
           r == [winners |-> run[p].winners, writes |-> w, batches |-> q, collisions |-> {}, items |-> {},
                 skipped |-> {}, seen |-> jars, stale |-> FALSE]
<1>1. /\ pc' = [pc EXCEPT ![p] = "classify"] /\ run' = [run EXCEPT ![p] = r]
      /\ tmp' = [tmp EXCEPT ![p] = tmp[p]] /\ UNCHANGED <<jars, out>>
  BY DEF Scan, Goto, Files, Inv, Shape
<1>2. r.collisions = {}
  OBVIOUS
<1> HIDE DEF r
<1>3. Trusted(jars, "classify", r, tmp[p])
  BY <1>2 DEF Trusted
<1>4. SafeIsOrderFree'
  BY <1>1 DEF Trust, SafeIsOrderFree
<1> QED
  BY <1>1, <1>3, <1>4, TrustStep

\* The list of a process that scanned the archives as they are.
LEMMA Trusting ==
  ASSUME Inv, NEW p \in Processes, pc[p] \in {"classify", "stage", "commit"}, ~run[p].stale, Whole(jars)
  PROVE  /\ run[p].writes = Writes(jars) /\ IsDir(jars, EntriesOf(jars))
         /\ Members(run[p].batches) \subseteq Members(CollisionBatches(Writes(jars)))
         /\ Listing(jars, run[p].collisions, run[p].items, run[p].skipped,
                    Done(jars, run[p].batches, pc[p] # "classify"))
         /\ \A e \in EntriesOf(jars) : IsEntry(e)
<1>1. Sound(jars, run[p], pc[p] # "classify")
  BY DEF Inv, Scanned
<1>2. IsDir(jars, EntriesOf(jars))
  BY ArchivesDir DEF Inv
<1>3. ASSUME NEW e \in EntriesOf(jars) PROVE IsEntry(e)
  BY DEF Inv, Archives, EntriesOf, IsArchive
<1> QED
  BY <1>1, <1>2, <1>3 DEF Sound

LEMMA TrustClassify ==
  ASSUME Inv, Trust, NEW p \in Processes, ClassifyBatch(p)
  PROVE  Trust'
<1> DEFINE r == run[p]
           b == Tail(r.batches)
           f == Observed(jars, r.writes, Head(r.batches))
           c == r.collisions \union f
           z == [r EXCEPT !.batches = b]
           s == [z EXCEPT !.collisions = c]
<1>1. pc[p] = "classify" /\ r.batches # <<>> /\ Shape
  BY DEF ClassifyBatch, Inv
<1>2. run' = [run EXCEPT ![p] = s]
  BY <1>1 DEF ClassifyBatch, Shape
<1>3. pc' = [pc EXCEPT ![p] = "classify"] /\ tmp' = [tmp EXCEPT ![p] = tmp[p]] /\ UNCHANGED <<jars, out>>
  BY <1>1 DEF ClassifyBatch, Files, Shape
<1>4. IsRun(r) /\ Trusted(jars, "classify", r, tmp[p])
  BY <1>1 DEF Inv, Scanned, Trust
<1>5. ASSUME ~r.stale, Whole(jars), NEW x \in f PROVE Safe(jars, x)
  <2> DEFINE E == EntriesOf(jars)
             h == Head(r.batches)
  <2>1. /\ r.writes = Writes(jars) /\ IsDir(jars, E)
        /\ Members(r.batches) \subseteq Members(CollisionBatches(Writes(jars)))
    BY <1>1, <1>5, Trusting
  <2>2. h \in Members(r.batches)
    <3>1. Sound(jars, r, FALSE)
      BY <1>1, <1>5 DEF Inv, Scanned
    <3>2. r.batches \in Seq(SUBSET Paths) /\ Apart(r.batches)
      BY <3>1 DEF Sound
    <3> DEFINE q == r.batches
    <3> HIDE DEF q
    <3>3. q \in Seq(SUBSET Paths) /\ Apart(q) /\ q # <<>> /\ h = Head(q)
      BY <1>1, <3>2 DEF q
    <3>4. Members(q) = {Head(q)} \union Members(Tail(q))
      BY <3>3, HeadTail
    <3> QED BY <3>3, <3>4 DEF q
  <2> HIDE DEF E, h
  <2>3. x \in Observed(jars, Writes(jars), h)
    BY <2>1 DEF h
  <2> QED BY <1>5, <2>1, <2>2, <2>3, ObservedSafe
<1> HIDE DEF r, b, c, f
<1>6. IsRun(z) /\ \A g \in Fields : z[g] = IF g = "batches" THEN b ELSE r[g]
  BY <1>4, RunSet DEF Fields
<1> HIDE DEF z
<1>7. IsRun(s) /\ \A g \in Fields : s[g] = IF g = "collisions" THEN c ELSE z[g]
  BY <1>6, RunSet DEF Fields
<1>8. s.collisions = c /\ s.stale = r.stale
  BY <1>6, <1>7 DEF Fields
<1> HIDE DEF s
<1>9. Trusted(jars, "classify", s, tmp[p])
  BY <1>4, <1>5, <1>8 DEF Trusted, c
<1>10. SafeIsOrderFree'
  BY <1>3 DEF Trust, SafeIsOrderFree
<1> QED
  BY <1>2, <1>3, <1>9, <1>10, TrustStep

LEMMA TrustCreateTmp ==
  ASSUME Inv, Trust, NEW p \in Processes, CreateTmp(p)
  PROVE  Trust'
<1> DEFINE r == run[p]
           c == r.collisions \union CrossFormat(r.writes)
           s == [r EXCEPT !.collisions = c]
           t == [exists |-> TRUE, files |-> [n \in {} |-> Null], manifest |-> {}]
<1>1. pc[p] = "classify" /\ Shape
  BY DEF CreateTmp, Inv
<1>2. run' = [run EXCEPT ![p] = s]
  BY <1>1 DEF CreateTmp, Shape
<1>3. pc' = [pc EXCEPT ![p] = "stage"] /\ tmp' = [tmp EXCEPT ![p] = t] /\ UNCHANGED <<jars, out>>
  BY DEF CreateTmp, Goto
<1>4. IsRun(r) /\ r.items = {} /\ Trusted(jars, "classify", r, tmp[p])
  BY <1>1 DEF Inv, Scanned, Trust
<1>5. \A x \in CrossFormat(r.writes) : Safe(jars, x)
  BY CrossSafe
<1> HIDE DEF r, t, c
<1>6. s.collisions = c /\ s.items = {} /\ s.stale = r.stale
  <2>1. IsRun(s) /\ \A g \in Fields : s[g] = IF g = "collisions" THEN c ELSE r[g]
    BY <1>4, RunSet DEF Fields
  <2> QED BY <1>4, <2>1 DEF Fields
<1> HIDE DEF s
<1>7. Trusted(jars, "stage", s, t)
  BY <1>4, <1>5, <1>6 DEF Trusted, c
<1>8. SafeIsOrderFree'
  BY <1>3 DEF Trust, SafeIsOrderFree
<1> QED
  BY <1>2, <1>3, <1>7, <1>8, TrustStep

\* A step of the loop that stages nothing.
LEMMA TrustTaken ==
  ASSUME Inv, Trust, NEW p \in Processes, Pass(p) \/ Skip(p)
  PROVE  Trust'
<1> DEFINE r == run[p]
           x == Upcoming(p)
           c == r.collisions \ {x}
           z == [r EXCEPT !.collisions = c]
           k == r.skipped \union {Item(x)}
           s == [z EXCEPT !.skipped = k]
<1>1. /\ pc[p] = "stage" /\ UNCHANGED <<pc, jars, out>>
      /\ pc' = [pc EXCEPT ![p] = "stage"] /\ tmp' = [tmp EXCEPT ![p] = tmp[p]]
  BY DEF Pass, Skip, Files, Inv, Shape
<1>2. IsRun(r) /\ Trusted(jars, "stage", r, tmp[p])
  BY <1>1 DEF Inv, Scanned, Trust
<1>3. IsRun(z) /\ \A g \in Fields : z[g] = IF g = "collisions" THEN c ELSE r[g]
  <2> HIDE DEF r, c
  <2> QED BY <1>2, RunSet DEF Fields
<1>4. IsRun(s) /\ \A g \in Fields : s[g] = IF g = "skipped" THEN k ELSE z[g]
  <2> HIDE DEF k, z
  <2> QED BY <1>3, RunSet DEF Fields
<1>5. \E y \in {z, s} : run' = [run EXCEPT ![p] = y]
  <2>1. CASE Pass(p)
    <3>1. run' = [run EXCEPT ![p] = z]
      BY <2>1 DEF Pass, Taken, Inv, Shape
    <3> HIDE DEF z, s
    <3> QED BY <3>1
  <2>2. CASE Skip(p)
    <3>1. run' = [Taken(p, x) EXCEPT ![p].skipped = @ \union {Item(x)}]
      BY <2>2 DEF Skip
    <3>2. Taken(p, x) = [run EXCEPT ![p] = z] /\ Taken(p, x)[p] = z
      BY DEF Taken, Inv, Shape
    <3>3. z.skipped = r.skipped
      BY <1>3 DEF Fields
    <3> HIDE DEF z, r, x
    <3>4. run' = [Taken(p, x) EXCEPT ![p] = s]
      BY <3>1, <3>2, <3>3 DEF Inv, Shape
    <3> HIDE DEF s
    <3>5. run' = [run EXCEPT ![p] = s]
      BY <3>2, <3>4 DEF Inv, Shape
    <3> QED BY <3>5
  <2> QED BY <2>1, <2>2
<1>6. \A y \in {z, s} : y.collisions = c /\ y.items = r.items /\ y.stale = r.stale
  BY <1>3, <1>4 DEF Fields
<1> HIDE DEF z, s
<1>7. PICK y \in {z, s} : run' = [run EXCEPT ![p] = y]
  BY <1>5
<1>8. Trusted(jars, "stage", y, tmp[p])
  BY <1>2, <1>6 DEF Trusted
<1>9. SafeIsOrderFree'
  BY <1>1 DEF Trust, SafeIsOrderFree
<1> QED
  BY <1>1, <1>7, <1>8, <1>9, TrustStep

LEMMA TrustStage ==
  ASSUME Inv, Trust, NEW p \in Processes, Stage(p)
  PROVE  Trust'
<1> DEFINE r == run[p]
           x == Upcoming(p)
           bytes == OverlayBytes(x, ReadBlobs(jars, r.writes, x.path))
           c == r.collisions \ {x}
           k == r.items \union {Item(x)}
           z == [r EXCEPT !.collisions = c]
           s == [z EXCEPT !.items = k]
           f == [n \in DOMAIN tmp[p].files \union {x.path} |-> IF n = x.path THEN bytes ELSE tmp[p].files[n]]
           t == [tmp[p] EXCEPT !.files = f]
<1>1. /\ pc[p] = "stage" /\ r.collisions # {} /\ x.class # "identical" /\ UNCHANGED <<jars, out>>
      /\ pc = [pc EXCEPT ![p] = "stage"]
  BY DEF Stage, Inv, Shape
<1>2. /\ IsRun(r) /\ IsTmp(tmp[p]) /\ DOMAIN tmp[p].files = {i.path : i \in r.items}
      /\ Shape /\ Trusted(jars, "stage", r, tmp[p])
  <2>1. Trusted(jars, "stage", r, tmp[p])
    BY <1>1 DEF Trust
  <2> QED BY <1>1, <2>1, Staging
<1>3. SafeIsOrderFree'
  BY <1>1 DEF Trust, SafeIsOrderFree
<1>4. CASE bytes = Null
  <2>1. /\ pc' = [pc EXCEPT ![p] = "fail"]
        /\ run' = [run EXCEPT ![p] = r] /\ tmp' = [tmp EXCEPT ![p] = tmp[p]]
    BY <1>2, <1>4 DEF Stage, Goto, Shape
  <2>2. Trusted(jars, "fail", r, tmp[p])
    BY DEF Trusted
  <2> QED BY <1>1, <1>3, <2>1, <2>2, TrustStep
<1>5. CASE bytes # Null
  <2>1. /\ tmp' = [tmp EXCEPT ![p].files =
                     [n \in DOMAIN @ \union {x.path} |-> IF n = x.path THEN bytes ELSE @[n]]]
        /\ run' = [Taken(p, x) EXCEPT ![p].items = @ \union {Item(x)}] /\ pc' = pc
    BY <1>5 DEF Stage
  <2>2. ASSUME ~r.stale, Whole(jars)
        PROVE  /\ x \in r.collisions /\ \A i \in r.items : i.path # x.path
               /\ IsSafeMerge(x) => Means(Domain[x.path], bytes, Docs(Blobs(Entries(jars, {x.path}))))
    <3>1. /\ r.writes = Writes(jars) /\ IsDir(jars, EntriesOf(jars))
          /\ Listing(jars, r.collisions, r.items, r.skipped, Done(jars, r.batches, TRUE))
          /\ \A e \in EntriesOf(jars) : IsEntry(e)
      BY <1>1, <2>2, Trusting
    <3>2. x \in r.collisions
      BY <1>1, <3>1, UpcomingIn
    <3>3. bytes = OverlayBytes(x, ReadBlobs(jars, Writes(jars), x.path))
      BY <3>1
    <3> HIDE DEF x, bytes, r
    <3>4. \A i \in r.items : i.path # x.path
      BY <3>1, <3>2 DEF Listing
    <3>5. Safe(jars, x)
      BY <1>2, <2>2, <3>2 DEF Trusted
    <3>6. IsSafeMerge(x) => Means(Domain[x.path], bytes, Docs(Blobs(Entries(jars, {x.path}))))
      BY <1>1, <1>5, <2>2, <3>1, <3>3, <3>5, StagedMeans
    <3> QED BY <3>2, <3>4, <3>6
  <2> HIDE DEF bytes
  <2>3. tmp' = [tmp EXCEPT ![p] = t]
    BY <1>2, <2>1 DEF Shape
  <2>4. /\ f[x.path] = bytes
        /\ \A i \in r.items : i.path # x.path => f[i.path] = tmp[p].files[i.path]
    BY <1>2
  <2> HIDE DEF f
  <2>5. IsTmp(t) /\ t.files = f
    BY <1>2, TmpSet
  <2>6. IsRun(z) /\ \A g \in Fields : z[g] = IF g = "collisions" THEN c ELSE r[g]
    <3> HIDE DEF r, c
    <3> QED BY <1>2, RunSet DEF Fields
  <2>7. run' = [run EXCEPT ![p] = s]
    <3>1. Taken(p, x) = [run EXCEPT ![p] = z] /\ Taken(p, x)[p] = z
      BY <1>2 DEF Taken, Shape
    <3>2. z.items = r.items
      BY <2>6 DEF Fields
    <3> HIDE DEF z, r, x
    <3>3. run' = [Taken(p, x) EXCEPT ![p] = s]
      BY <1>2, <2>1, <3>1, <3>2 DEF Shape
    <3> HIDE DEF s
    <3> QED BY <1>2, <3>1, <3>3 DEF Shape
  <2> HIDE DEF k, z, t
  <2>8. IsRun(s) /\ \A g \in Fields : s[g] = IF g = "items" THEN k ELSE z[g]
    BY <2>6, RunSet DEF Fields
  <2> HIDE DEF s
  <2>9. s.collisions = c /\ s.items = k /\ s.stale = r.stale
    BY <2>6, <2>8 DEF Fields
  <2>10. Item(x).path = x.path /\ Item(x).safe = IsSafeMerge(x)
    BY DEF Item
  <2> HIDE DEF r, x
  <2>11. ASSUME ~r.stale, Whole(jars), NEW i \in k PROVE Kept(jars, i, f)
    <3>1. CASE i = Item(x)
      BY <2>2, <2>4, <2>10, <2>11, <3>1 DEF Kept
    <3>2. CASE i \in r.items
      <4>1. Kept(jars, i, tmp[p].files)
        BY <1>2, <2>11, <3>2 DEF Trusted
      <4>2. f[i.path] = tmp[p].files[i.path]
        BY <2>2, <2>4, <2>11, <3>2
      <4> QED BY <4>1, <4>2 DEF Kept
    <3> QED BY <3>1, <3>2 DEF k
  <2>12. Trusted(jars, "stage", s, t)
    BY <1>2, <2>5, <2>9, <2>11 DEF Trusted
  <2>13. pc' = [pc EXCEPT ![p] = "stage"]
    BY <1>1, <2>1
  <2> QED BY <1>1, <1>3, <2>3, <2>7, <2>12, <2>13, TrustStep
<1> QED
  BY <1>4, <1>5

LEMMA TrustManifest ==
  ASSUME Inv, Trust, NEW p \in Processes, WriteManifest(p)
  PROVE  Trust'
<1> DEFINE r == run[p]
           t == [tmp[p] EXCEPT !.manifest = {Plan(p)}]
<1>1. pc[p] = "stage" /\ Shape
  BY DEF WriteManifest, Inv
<1>2. /\ pc' = [pc EXCEPT ![p] = "commit"] /\ run' = [run EXCEPT ![p] = r]
      /\ tmp' = [tmp EXCEPT ![p] = t] /\ UNCHANGED <<jars, out>>
  BY <1>1 DEF WriteManifest, Goto, Shape
<1>3. IsTmp(tmp[p]) /\ Trusted(jars, "stage", r, tmp[p])
  <2>1. Trusted(jars, "stage", r, tmp[p])
    BY <1>1 DEF Trust
  <2> QED BY <1>1, <2>1, Staging
<1>4. t.files = tmp[p].files
  BY <1>3, TmpSet
<1> HIDE DEF t
<1>5. Trusted(jars, "commit", r, t)
  BY <1>3, <1>4 DEF Trusted
<1>6. SafeIsOrderFree'
  BY <1>2 DEF Trust, SafeIsOrderFree
<1> QED
  BY <1>2, <1>5, <1>6, TrustStep

LEMMA TrustCommit ==
  ASSUME Inv, Trust, NEW p \in Processes, Commit(p), ~out.exists
  PROVE  Trust'
<1> DEFINE r == run[p]
           t == tmp[p]
           plan == PlanOf(r)
<1>1. /\ pc[p] = "commit" /\ Scanned(jars, "commit", r) /\ Staged("commit", r, t) /\ UNCHANGED jars
      /\ Trusted(jars, "commit", r, t)
  BY DEF Commit, Inv, Trust
<1>2. /\ out' = [exists |-> TRUE, files |-> t.files, manifest |-> t.manifest, seen |-> r.seen, stale |-> r.stale]
      /\ tmp' = [tmp EXCEPT ![p] = Absent] /\ pc' = [pc EXCEPT ![p] = "idle"] /\ run' = [run EXCEPT ![p] = Null]
  BY DEF Commit, Exit
<1>3. /\ out'.files = t.files /\ out'.manifest = {plan} /\ out'.seen = r.seen /\ out'.stale = r.stale
      /\ plan.items = r.items /\ (~r.stale => r.seen = jars)
  BY <1>1, <1>2 DEF Scanned, Staged, PlanOf
<1> HIDE DEF r, t, plan
<1>4. ASSUME out'.exists, ~out'.stale, Whole(out'.seen),
             NEW i \in UNION {q.items : q \in out'.manifest}, i.safe
      PROVE  Means(Domain[i.path], out'.files[i.path], Docs(Blobs(Entries(out'.seen, {i.path}))))
  <2>1. i \in r.items /\ ~r.stale /\ r.seen = jars
    BY <1>3, <1>4
  <2>2. Kept(jars, i, t.files)
    BY <1>1, <1>3, <1>4, <2>1 DEF Trusted
  <2> QED BY <1>3, <1>4, <2>1, <2>2 DEF Kept
<1>5. SafeIsOrderFree'
  BY <1>4 DEF SafeIsOrderFree, Means
<1>6. Trusted(jars, "idle", Null, Absent)
  BY DEF Trusted
<1> QED
  BY <1>1, <1>2, <1>5, <1>6, TrustStep

LEMMA TrustNext == Inv /\ Trust /\ [Next]_vars => Trust'
<1> SUFFICES ASSUME Inv, Trust, [Next]_vars PROVE Trust'
  OBVIOUS
<1>1. ASSUME NEW p \in Processes,
             \/ \E winners \in BOOLEAN : Begin(p, winners)
             \/ CheckOut(p) \/ Scan(p) \/ ClassifyBatch(p) \/ CreateTmp(p)
             \/ Pass(p) \/ Skip(p) \/ Stage(p) \/ WriteManifest(p) \/ Commit(p)
             \/ WriteFails(p) \/ (\E removed \in BOOLEAN : Fail(p, removed)) \/ Crash(p)
      PROVE  Trust'
  <2>1. CASE Commit(p)
    BY <2>1, TrustQuiet, TrustCommit
  <2> QED
    BY <1>1, <2>1, TrustQuiet, TrustScan, TrustClassify, TrustCreateTmp, TrustTaken, TrustStage, TrustManifest
<1>2. ASSUME NEW j \in Jars, NEW archive \in Replacements, Replace(j, archive) PROVE Trust'
  BY <1>2, TrustReplace
<1>3. CASE UNCHANGED vars
  BY <1>3 DEF vars, Trust, SafeIsOrderFree
<1> QED
  BY <1>1, <1>2, <1>3 DEF Next

\* What a published overlay marks as safe to apply is: as long as no archive
\* changed under the scan and none met a limit of it, the file alone means to
\* the game what the archives mean together, in every order the loader may
\* put them in.
THEOREM AlwaysOrderFree == Spec => []SafeIsOrderFree
<1>1. Init => Trust
  BY DEF Init, Absent, Trust, Trusted, SafeIsOrderFree
<1>2. Trust => SafeIsOrderFree
  BY DEF Trust
<1> QED
  BY InvInit, InvNext, TrustNext, <1>1, <1>2, PTL DEF Spec
=============================================================================
