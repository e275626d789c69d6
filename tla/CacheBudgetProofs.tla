-------------------------- MODULE CacheBudgetProofs ---------------------------
(***************************************************************************)
(* Proofs about CacheBudget: the types, that one undisturbed writer keeps  *)
(* its estimate exact and its cache within the budget, and that the        *)
(* unsigned counter of any number of writers heals.  The inductive         *)
(* invariant IInv says where a writer stands at each of its steps; the     *)
(* arithmetic of a directory and the order of eviction come first.         *)
(***************************************************************************)
EXTENDS CacheBudget, FiniteSetTheorems, WellFoundedInduction, FunctionTheorems, SequenceTheorems, TLAPS

-----------------------------------------------------------------------------
(* Folds.  Those of the community modules choose a function that satisfies  *)
(* a recursive equation; an induction, its predicate given as the set of    *)
(* what satisfies it, shows that there is one.                              *)

\* A set of naturals has a least element.
LEMMA Least ==
  ASSUME NEW N \in SUBSET Nat, N # {}
  PROVE  \E n \in N : \A m \in N : n <= m
<1>1. IsWellFoundedOn({p \in Nat \X Nat : p[1] < p[2]}, Nat)
  BY NatLessThanWellFounded DEF OpToRel
<1>2. PICK n \in N : \A m \in N : ~(<<m, n>> \in {p \in Nat \X Nat : p[1] < p[2]})
  BY <1>1, WFMin
<1>3. \A m \in N : ~(m < n)
  BY <1>2
<1> QED
  BY <1>3

\* Induction over the subsets of a finite set, the predicate a set of sets.
LEMMA SetInduction ==
  ASSUME NEW S, IsFiniteSet(S), NEW Good, {} \in Good,
         \A T \in SUBSET S : (T # {} /\ \A x \in T : T \ {x} \in Good) => T \in Good
  PROVE  \A T \in SUBSET S : T \in Good
<1> DEFINE Sizes == {n \in Nat : \E T \in SUBSET S : Cardinality(T) = n /\ T \notin Good}
<1>1. \A T \in SUBSET S : IsFiniteSet(T) /\ Cardinality(T) \in Nat
  BY FS_Subset, FS_CardinalityType
<1>2. SUFFICES ASSUME Sizes # {} PROVE FALSE
  BY <1>1
<1>3. PICK n \in Sizes : \A m \in Sizes : n <= m
  <2>1. Sizes \in SUBSET Nat
    OBVIOUS
  <2> HIDE DEF Sizes
  <2> QED BY <2>1, <1>2, Least
<1>4. PICK T \in SUBSET S : Cardinality(T) = n /\ T \notin Good
  BY <1>3
<1>5. PICK x \in T : T \ {x} \notin Good
  BY <1>4
<1>6. Cardinality(T \ {x}) = n - 1 /\ n - 1 \in Nat
  BY <1>1, <1>4, FS_RemoveElement
<1> QED
  BY <1>3, <1>5, <1>6

\* g is the fold of F from base, c[s] the element s gives up.
Folds(g, F, c, base, S) ==
  g = [s \in SUBSET S |-> IF s = {} THEN base ELSE F[c[s]][g[s \ {c[s]}]]]

\* c gives up an element of every subset of S.
Chooses(c, S) == \A s \in SUBSET S : s # {} => c[s] \in s

\* The folds over a set and over a part of it agree on the part.
LEMMA FoldsAgree ==
  ASSUME NEW S, IsFiniteSet(S), NEW T \in SUBSET S, NEW F, NEW c, NEW base, NEW g, NEW h,
         Chooses(c, S), Folds(g, F, c, base, S), Folds(h, F, c, base, T)
  PROVE  \A s \in SUBSET T : g[s] = h[s]
<1> DEFINE Good == {s \in SUBSET T : g[s] = h[s]}
<1>1. {} \in Good
  BY DEF Folds
<1>2. ASSUME NEW s \in SUBSET T, s # {}, \A x \in s : s \ {x} \in Good PROVE s \in Good
  <2>1. s \ {c[s]} \in Good
    BY <1>2 DEF Chooses
  <2>2. g[s] = F[c[s]][g[s \ {c[s]}]] /\ h[s] = F[c[s]][h[s \ {c[s]}]]
    BY <1>2 DEF Folds
  <2> QED BY <2>1, <2>2
<1>3. IsFiniteSet(T)
  BY FS_Subset
<1>4. \A s \in SUBSET T : s \in Good
  <2> HIDE DEF Good
  <2> QED BY <1>1, <1>2, <1>3, SetInduction
<1> QED
  BY <1>4

\* F, S and c define a fold over S with values in V ...
Foldable(S, V, F, c, base) ==
  /\ IsFiniteSet(S) /\ F \in [S -> [V -> V]] /\ base \in V /\ Chooses(c, S)

\* ... and this is it.
HasFold(S, V, F, c, base) == \E g \in [SUBSET S -> V] : Folds(g, F, c, base, S)

\* Every foldable function has a fold.  What the folds over the parts of a set
\* yield is put together to the fold over the set.
LEMMA FoldExists ==
  ASSUME NEW S, NEW V, NEW F, NEW c, NEW base, Foldable(S, V, F, c, base)
  PROVE  HasFold(S, V, F, c, base)
<1> SUFFICES ASSUME IsFiniteSet(S), F \in [S -> [V -> V]], base \in V,
                    \A s \in SUBSET S : s # {} => c[s] \in s
             PROVE  \E g \in [SUBSET S -> V] : Folds(g, F, c, base, S)
  BY DEF Foldable, HasFold, Chooses
<1> DEFINE Fold(T) == CHOOSE g : g \in [SUBSET T -> V] /\ Folds(g, F, c, base, T)
           Has(T)  == Fold(T) \in [SUBSET T -> V] /\ Folds(Fold(T), F, c, base, T)
           Good    == {T \in SUBSET S : Has(T)}
<1>1. ASSUME NEW T \in SUBSET S, NEW g \in [SUBSET T -> V], Folds(g, F, c, base, T) PROVE Has(T)
  BY <1>1, Zenon
<1>2. {} \in Good
  <2>1. [s \in SUBSET {} |-> base] \in [SUBSET {} -> V]
    OBVIOUS
  <2>2. Folds([s \in SUBSET {} |-> base], F, c, base, {})
    BY DEF Folds
  <2>3. {} \in SUBSET S
    OBVIOUS
  <2> HIDE DEF Has
  <2> QED BY <1>1, <2>1, <2>2, <2>3
<1>3. ASSUME NEW T \in SUBSET S, T # {}, \A x \in T : T \ {x} \in Good PROVE T \in Good
  <2> DEFINE Rest(s) == s \ {c[s]}
             G == [s \in SUBSET T |-> IF s = {} THEN base ELSE F[c[s]][Fold(Rest(s))[Rest(s)]]]
  <2>1. ASSUME NEW s \in SUBSET T, s # {} PROVE Has(Rest(s)) /\ Rest(s) \in SUBSET T /\ c[s] \in S
    <3>1. c[s] \in s /\ s \in SUBSET S
      BY <2>1
    <3>2. Rest(s) \in SUBSET (T \ {c[s]}) /\ T \ {c[s]} \in SUBSET S
      BY <3>1
    <3>3. Has(T \ {c[s]})
      BY <1>3, <3>1
    <3> DEFINE U == T \ {c[s]}
               R == Rest(s)
               r == [x \in SUBSET R |-> Fold(U)[x]]
    <3>4. r \in [SUBSET R -> V]
      BY <3>2, <3>3
    <3>5. Folds(r, F, c, base, R)
      <4>1. \A x \in SUBSET R : x # {} => x \ {c[x]} \in SUBSET R
        OBVIOUS
      <4>2. \A x \in SUBSET R : Fold(U)[x] = IF x = {} THEN base ELSE F[c[x]][Fold(U)[x \ {c[x]}]]
        <5> HIDE DEF Fold
        <5> QED BY <3>2, <3>3 DEF Folds
      <4> HIDE DEF Fold, R, U
      <4> QED BY <4>1, <4>2 DEF Folds
    <3>6. R \in SUBSET S
      BY <3>2
    <3> HIDE DEF Has, r, R
    <3>7. Has(R)
      BY <1>1, <3>4, <3>5, <3>6
    <3> QED BY <3>1, <3>2, <3>7 DEF R
  <2>2. ASSUME NEW s \in SUBSET T, s # {} PROVE F[c[s]][Fold(Rest(s))[Rest(s)]] \in V
    <3>1. F[c[s]] \in [V -> V]
      BY <2>1, <2>2
    <3>2. Fold(Rest(s)) \in [SUBSET Rest(s) -> V]
      BY <2>1, <2>2
    <3> HIDE DEF Fold, Rest
    <3> QED BY <3>1, <3>2
  <2>3. G \in [SUBSET T -> V]
    <3> HIDE DEF Fold, Rest
    <3> QED BY <2>2
  <2>4. ASSUME NEW s \in SUBSET T, s # {} PROVE Fold(Rest(s))[Rest(s)] = G[Rest(s)]
    <3> DEFINE r == Rest(s)
    <3>1. Has(r) /\ r \in SUBSET T
      BY <2>1, <2>4
    <3>2. CASE r = {}
      <4>1. Fold(r)[r] = base
        <5> HIDE DEF Fold
        <5> QED BY <3>1, <3>2 DEF Folds
      <4>2. G[r] = base
        BY <3>2, <3>1
      <4> QED BY <4>1, <4>2
    <3>3. CASE r # {}
      <4>1. Fold(r)[r] = F[c[r]][Fold(r)[Rest(r)]]
        <5> HIDE DEF Fold
        <5> QED BY <3>1, <3>3 DEF Folds
      <4>2. G[r] = F[c[r]][Fold(Rest(r))[Rest(r)]]
        BY <3>3, <3>1
      <4>3. Fold(r)[Rest(r)] = Fold(Rest(r))[Rest(r)]
        <5>1. Has(Rest(r))
          BY <2>1, <3>1, <3>3
        <5>2. Rest(r) \in SUBSET r /\ r \in SUBSET S
          BY <3>1
        <5>3. IsFiniteSet(r)
          BY <5>2, FS_Subset
        <5>4. Chooses(c, r)
          BY <5>2 DEF Chooses
        <5>5. Folds(Fold(r), F, c, base, r) /\ Folds(Fold(Rest(r)), F, c, base, Rest(r))
          BY <3>1, <5>1
        <5> DEFINE q == Rest(r)  g == Fold(r)  h == Fold(q)
        <5>6. q \in SUBSET r /\ Folds(g, F, c, base, r) /\ Folds(h, F, c, base, q)
          BY <5>2, <5>5
        <5> HIDE DEF q, g, h, r
        <5>7. \A x \in SUBSET q : g[x] = h[x]
          BY <5>3, <5>4, <5>6, FoldsAgree
        <5>8. g[q] = h[q]
          BY <5>7
        <5> QED BY <5>8 DEF q, g, h
      <4> QED BY <4>1, <4>2, <4>3
    <3> QED BY <3>2, <3>3
  <2>5. Folds(G, F, c, base, T)
    <3>1. G = [s \in SUBSET T |-> IF s = {} THEN base ELSE F[c[s]][G[Rest(s)]]]
      <4>1. \A s \in SUBSET T : s # {} => Fold(Rest(s))[Rest(s)] = G[Rest(s)]
        BY <2>4
      <4> HIDE DEF Fold, Rest
      <4> QED BY <4>1, Zenon
    <3> HIDE DEF G
    <3> QED BY <3>1 DEF Folds
  <2> HIDE DEF Has, G
  <2> QED BY <1>1, <2>3, <2>5
<1>4. S \in Good
  <2>1. \A T \in SUBSET S : (T # {} /\ \A x \in T : T \ {x} \in Good) => T \in Good
    BY <1>3
  <2> HIDE DEF Good
  <2>2. \A T \in SUBSET S : T \in Good
    BY <1>2, <2>1, SetInduction
  <2> QED BY <2>2
<1> HIDE DEF Fold
<1> QED
  BY <1>4

\* Max is the largest number of a set that is bounded.
LEMMA MaxIn ==
  ASSUME NEW n \in Nat, NEW s \in SUBSET (1 .. n), s # {}
  PROVE  Max(s) \in s /\ \A x \in s : x <= Max(s)
<1> DEFINE N == {m \in Nat : \A x \in s : x <= m}
<1>1. n \in N
  OBVIOUS
<1>2. PICK m \in N : \A k \in N : m <= k
  <2>1. N \in SUBSET Nat /\ N # {}
    BY <1>1
  <2> HIDE DEF N
  <2> QED BY <2>1, Least
<1>3. m \in s
  <2> SUFFICES ASSUME m \notin s PROVE FALSE
    OBVIOUS
  <2>1. \A x \in s : x <= m - 1 /\ x \in Nat
    BY <1>2
  <2>2. PICK x \in s : TRUE
    OBVIOUS
  <2>3. x \in Nat /\ 1 <= x /\ x <= m - 1
    BY <2>1
  <2>4. m - 1 \in Nat /\ ~(m <= m - 1)
    BY <2>3
  <2>5. m - 1 \in N
    BY <2>1, <2>4
  <2> HIDE DEF N
  <2> QED BY <1>2, <2>4, <2>5
<1>4. \A x \in s : m >= x
  BY <1>2
<1>5. Max(s) \in s /\ \A x \in s : Max(s) >= x
  BY <1>3, <1>4, Zenon DEF Max
<1> QED
  BY <1>5

-----------------------------------------------------------------------------
(* Bytes is a sum: the function that the community modules choose for it   *)
(* adds the files up one by one.                                           *)

Pick(s)     == CHOOSE x \in s : TRUE
Sums(d, S) == CHOOSE g : g = [s \in SUBSET S |-> IF s = {} THEN 0 ELSE d[Pick(s)] + g[s \ {Pick(s)}]]
Adds(d, g, S) == g = [s \in SUBSET S |-> IF s = {} THEN 0 ELSE d[Pick(s)] + g[s \ {Pick(s)}]]

\* The chosen function is the sum.
LEMMA SumsAdd ==
  ASSUME NEW S, IsFiniteSet(S), NEW d, \A x \in S : d[x] \in Nat
  PROVE  Adds(d, Sums(d, S), S) /\ Sums(d, S) \in [SUBSET S -> Nat]
<1> DEFINE F == [x \in S |-> [v \in Nat |-> d[x] + v]]
           c == [s \in SUBSET S |-> Pick(s)]
<1>1. F \in [S -> [Nat -> Nat]]
  OBVIOUS
<1>2. \A s \in SUBSET S : s # {} => c[s] \in s
  BY DEF Pick
<1>3. PICK g \in [SUBSET S -> Nat] : Folds(g, F, c, 0, S)
  <2>1. Foldable(S, Nat, F, c, 0)
    BY <1>1, <1>2 DEF Foldable, Chooses
  <2> HIDE DEF F, c
  <2>2. HasFold(S, Nat, F, c, 0)
    BY <2>1, FoldExists
  <2> QED BY <2>2 DEF HasFold
<1>4. ASSUME NEW s \in SUBSET S, s # {} PROVE F[c[s]][g[s \ {c[s]}]] = d[Pick(s)] + g[s \ {Pick(s)}]
  <2>1. c[s] = Pick(s) /\ Pick(s) \in S
    BY <1>2, <1>4
  <2>2. g[s \ {Pick(s)}] \in Nat
    OBVIOUS
  <2> QED BY <2>1, <2>2
<1>5. Adds(d, g, S)
  <2> HIDE DEF F, c
  <2> QED BY <1>3, <1>4 DEF Adds, Folds
<1>6. Adds(d, Sums(d, S), S)
  BY <1>5, Zenon DEF Adds, Sums
<1>7. Sums(d, S) = g
  <2> DEFINE h == Sums(d, S)
             Good == {s \in SUBSET S : g[s] = h[s]}
  <2>1. {} \in Good
    BY <1>5, <1>6 DEF Adds
  <2>2. ASSUME NEW s \in SUBSET S, s # {}, \A x \in s : s \ {x} \in Good PROVE s \in Good
    <3>1. s \ {Pick(s)} \in Good
      BY <2>2 DEF Pick
    <3>2. g[s] = d[Pick(s)] + g[s \ {Pick(s)}] /\ h[s] = d[Pick(s)] + h[s \ {Pick(s)}]
      <4> HIDE DEF h
      <4> QED BY <1>5, <1>6, <2>2 DEF Adds, h
    <3> QED BY <3>1, <3>2
  <2>3. \A s \in SUBSET S : (s # {} /\ \A x \in s : s \ {x} \in Good) => s \in Good
    BY <2>2
  <2>4. \A s \in SUBSET S : s \in Good
    <3> HIDE DEF Good
    <3> QED BY <2>1, <2>3, SetInduction
  <2> HIDE DEF h
  <2> QED BY <1>6, <2>4 DEF Adds, h
<1> QED
  BY <1>6, <1>7

LEMMA BytesSums == ASSUME NEW d, NEW S PROVE Bytes(d, S) = Sums(d, S)[S]
  BY DEF Bytes, MapThenSumSet, MapThenFoldSet, Sums, Pick

LEMMA BytesEmpty == ASSUME NEW d PROVE Bytes(d, {}) = 0
<1>1. Adds(d, Sums(d, {}), {})
  BY SumsAdd, FS_EmptySet
<1> QED
  BY <1>1, BytesSums DEF Adds

LEMMA BytesNat ==
  ASSUME NEW S, IsFiniteSet(S), NEW d, \A x \in S : d[x] \in Nat
  PROVE  Bytes(d, S) \in Nat
  BY SumsAdd, BytesSums

\* The element the sum starts with.
LEMMA BytesAny ==
  ASSUME NEW S, IsFiniteSet(S), NEW d, \A x \in S : d[x] \in Nat, S # {}
  PROVE  Pick(S) \in S /\ Bytes(d, S) = d[Pick(S)] + Bytes(d, S \ {Pick(S)})
<1> DEFINE T == S \ {Pick(S)}
<1>1. Pick(S) \in S
  BY DEF Pick
<1>2. IsFiniteSet(T) /\ T \in SUBSET S
  BY FS_Subset
<1>3. Adds(d, Sums(d, S), S) /\ Adds(d, Sums(d, T), T)
  BY <1>2, SumsAdd
<1> DEFINE g == Sums(d, S)  h == Sums(d, T)
           Good == {s \in SUBSET T : g[s] = h[s]}
<1>4. {} \in Good
  BY <1>3 DEF Adds
<1>5. ASSUME NEW s \in SUBSET T, s # {}, \A x \in s : s \ {x} \in Good PROVE s \in Good
  <2>1. s \ {Pick(s)} \in Good
    BY <1>5 DEF Pick
  <2>2. g[s] = d[Pick(s)] + g[s \ {Pick(s)}] /\ h[s] = d[Pick(s)] + h[s \ {Pick(s)}]
    <3> HIDE DEF g, h
    <3> QED BY <1>3, <1>5 DEF Adds, g, h
  <2> QED BY <2>1, <2>2
<1>6. \A s \in SUBSET T : (s # {} /\ \A x \in s : s \ {x} \in Good) => s \in Good
  BY <1>5
<1>7. \A s \in SUBSET T : s \in Good
  <2> HIDE DEF Good, T
  <2> QED BY <1>2, <1>4, <1>6, SetInduction
<1>8. g[T] = h[T]
  BY <1>7
<1>9. g[S] = d[Pick(S)] + g[T]
  <2> HIDE DEF g
  <2> QED BY <1>3 DEF Adds, g
<1> HIDE DEF T
<1> QED
  BY <1>1, <1>8, <1>9, BytesSums DEF T

\* Any element can be taken out of a sum.
LEMMA BytesRemove ==
  ASSUME NEW S, IsFiniteSet(S), NEW d, \A x \in S : d[x] \in Nat
  PROVE  \A x \in S : Bytes(d, S) = d[x] + Bytes(d, S \ {x})
<1> DEFINE Good == {T \in SUBSET S : \A x \in T : Bytes(d, T) = d[x] + Bytes(d, T \ {x})}
<1>0. \A T \in SUBSET S : IsFiniteSet(T) /\ Bytes(d, T) \in Nat
  BY FS_Subset, BytesNat
<1>1. {} \in Good
  OBVIOUS
<1>2. ASSUME NEW T \in SUBSET S, T # {}, \A x \in T : T \ {x} \in Good PROVE T \in Good
  <2> SUFFICES ASSUME NEW x \in T PROVE Bytes(d, T) = d[x] + Bytes(d, T \ {x})
    OBVIOUS
  <2> DEFINE a == Pick(T)
  <2>1. a \in T /\ Bytes(d, T) = d[a] + Bytes(d, T \ {a})
    <3>1. IsFiniteSet(T) /\ \A y \in T : d[y] \in Nat
      BY <1>0
    <3> QED BY <3>1, <1>2, BytesAny
  <2> HIDE DEF a
  <2>2. CASE x = a
    BY <2>1, <2>2
  <2>3. CASE x # a
    <3>1. Bytes(d, T \ {a}) = d[x] + Bytes(d, (T \ {a}) \ {x})
      BY <1>2, <2>1, <2>3
    <3>2. Bytes(d, T \ {x}) = d[a] + Bytes(d, (T \ {x}) \ {a})
      BY <1>2, <2>1, <2>3
    <3>3. (T \ {x}) \ {a} = (T \ {a}) \ {x}
      OBVIOUS
    <3> DEFINE b == Bytes(d, (T \ {a}) \ {x})
    <3>4. b \in Nat /\ d[x] \in Nat /\ d[a] \in Nat
      BY <1>0, <2>1
    <3> HIDE DEF b
    <3>5. Bytes(d, T) = d[a] + (d[x] + b) /\ Bytes(d, T \ {x}) = d[a] + b
      BY <2>1, <3>1, <3>2, <3>3 DEF b
    <3> QED BY <3>4, <3>5
  <2> QED BY <2>2, <2>3
<1>3. \A T \in SUBSET S : (T # {} /\ \A x \in T : T \ {x} \in Good) => T \in Good
  BY <1>2
<1>4. \A T \in SUBSET S : T \in Good
  <2> HIDE DEF Good
  <2> QED BY <1>1, <1>3, SetInduction
<1> QED
  BY <1>4

\* Sizes that agree have the same sum.
LEMMA BytesAgree ==
  ASSUME NEW S, IsFiniteSet(S), NEW d, NEW e, \A x \in S : d[x] \in Nat /\ e[x] = d[x]
  PROVE  Bytes(e, S) = Bytes(d, S)
<1> DEFINE Good == {T \in SUBSET S : Bytes(e, T) = Bytes(d, T)}
<1>1. {} \in Good
  BY BytesEmpty
<1>2. ASSUME NEW T \in SUBSET S, T # {}, \A x \in T : T \ {x} \in Good PROVE T \in Good
  <2>1. IsFiniteSet(T) /\ (\A x \in T : d[x] \in Nat) /\ (\A x \in T : e[x] \in Nat)
    BY FS_Subset
  <2>2. Bytes(d, T) = d[Pick(T)] + Bytes(d, T \ {Pick(T)}) /\ Pick(T) \in T
    BY <1>2, <2>1, BytesAny
  <2>3. Bytes(e, T) = e[Pick(T)] + Bytes(e, T \ {Pick(T)})
    BY <1>2, <2>1, BytesAny
  <2> QED BY <1>2, <2>2, <2>3
<1>3. \A T \in SUBSET S : (T # {} /\ \A x \in T : T \ {x} \in Good) => T \in Good
  BY <1>2
<1>4. \A T \in SUBSET S : T \in Good
  <2> HIDE DEF Good
  <2> QED BY <1>1, <1>3, SetInduction
<1> QED
  BY <1>4

LEMMA BytesZero ==
  ASSUME NEW S, IsFiniteSet(S), NEW d, \A x \in S : d[x] = 0
  PROVE  Bytes(d, S) = 0
<1> DEFINE Good == {T \in SUBSET S : Bytes(d, T) = 0}
<1>1. {} \in Good
  BY BytesEmpty
<1>2. ASSUME NEW T \in SUBSET S, T # {}, \A x \in T : T \ {x} \in Good PROVE T \in Good
  <2>1. IsFiniteSet(T) /\ (\A x \in T : d[x] \in Nat)
    BY FS_Subset
  <2>2. Bytes(d, T) = d[Pick(T)] + Bytes(d, T \ {Pick(T)}) /\ Pick(T) \in T
    BY <1>2, <2>1, BytesAny
  <2> QED BY <1>2, <2>2
<1>3. \A T \in SUBSET S : (T # {} /\ \A x \in T : T \ {x} \in Good) => T \in Good
  BY <1>2
<1>4. \A T \in SUBSET S : T \in Good
  <2> HIDE DEF Good
  <2> QED BY <1>1, <1>3, SetInduction
<1> QED
  BY <1>4

\* The sum over a set is that over a part of it and that over the rest.
LEMMA BytesSplit ==
  ASSUME NEW S, IsFiniteSet(S), NEW d, \A x \in S : d[x] \in Nat, NEW T \in SUBSET S
  PROVE  Bytes(d, S) = Bytes(d, T) + Bytes(d, S \ T)
<1> DEFINE Good == {U \in SUBSET S : Bytes(d, U) = Bytes(d, U \cap T) + Bytes(d, U \ T)}
<1>0. \A U \in SUBSET S : IsFiniteSet(U) /\ Bytes(d, U) \in Nat
  BY FS_Subset, BytesNat
<1>1. {} \in Good
  BY BytesEmpty
<1>2. ASSUME NEW U \in SUBSET S, U # {}, \A x \in U : U \ {x} \in Good PROVE U \in Good
  <2> PICK x \in U : TRUE
    BY <1>2
  <2> DEFINE W == U \ {x}
  <2>1. Bytes(d, U) = d[x] + Bytes(d, W)
    BY <1>0, BytesRemove
  <2>2. Bytes(d, W) = Bytes(d, W \cap T) + Bytes(d, W \ T)
    BY <1>2
  <2>3. CASE x \in T
    <3>1. W \ T = U \ T /\ W \cap T = (U \cap T) \ {x} /\ x \in U \cap T
      BY <2>3
    <3>2. Bytes(d, U \cap T) = d[x] + Bytes(d, (U \cap T) \ {x})
      BY <1>0, <3>1, BytesRemove
    <3>3. Bytes(d, W \cap T) \in Nat /\ Bytes(d, W \ T) \in Nat /\ d[x] \in Nat
      <4>1. W \cap T \in SUBSET S /\ W \ T \in SUBSET S
        OBVIOUS
      <4> QED BY <1>0, <4>1
    <3>4. Bytes(d, U \ T) = Bytes(d, W \ T) /\ Bytes(d, U \cap T) = d[x] + Bytes(d, W \cap T)
      BY <3>1, <3>2
    <3>5. Bytes(d, U) = Bytes(d, U \cap T) + Bytes(d, U \ T)
      <4> HIDE DEF W
      <4> QED BY <2>1, <2>2, <3>3, <3>4
    <3> QED BY <3>5
  <2>4. CASE x \notin T
    <3>1. W \cap T = U \cap T /\ W \ T = (U \ T) \ {x} /\ x \in U \ T
      BY <2>4
    <3>2. Bytes(d, U \ T) = d[x] + Bytes(d, (U \ T) \ {x})
      BY <1>0, <3>1, BytesRemove
    <3>3. Bytes(d, W \cap T) \in Nat /\ Bytes(d, W \ T) \in Nat /\ d[x] \in Nat
      <4>1. W \cap T \in SUBSET S /\ W \ T \in SUBSET S
        OBVIOUS
      <4> QED BY <1>0, <4>1
    <3>4. Bytes(d, U \cap T) = Bytes(d, W \cap T) /\ Bytes(d, U \ T) = d[x] + Bytes(d, W \ T)
      BY <3>1, <3>2
    <3>5. Bytes(d, U) = Bytes(d, U \cap T) + Bytes(d, U \ T)
      <4> HIDE DEF W
      <4> QED BY <2>1, <2>2, <3>3, <3>4
    <3> QED BY <3>5
  <2> QED BY <2>3, <2>4
<1>3. \A U \in SUBSET S : (U # {} /\ \A x \in U : U \ {x} \in Good) => U \in Good
  BY <1>2
<1>4. S \in Good
  <2> HIDE DEF Good
  <2>1. \A U \in SUBSET S : U \in Good
    BY <1>1, <1>3, SetInduction
  <2> QED BY <2>1
<1>5. S \cap T = T
  OBVIOUS
<1> QED
  BY <1>4, <1>5

-----------------------------------------------------------------------------
(* The order of eviction.                                                   *)

\* The fold that Keep is, over the positions of the order.
Keeps(order, S) ==
  CHOOSE g : g = [s \in SUBSET DOMAIN order |->
    IF s = {} THEN <<>>
    ELSE IF order[Max(s)] \in S THEN Append(g[s \ {Max(s)}], order[Max(s)]) ELSE g[s \ {Max(s)}]]

LEMMA KeepKeeps ==
  ASSUME NEW order, NEW S
  PROVE  Keep(order, S) = Keeps(order, S)[DOMAIN order]
  BY DEF Keep, FoldLeft, MapThenFoldSet, Keeps

\* It goes from the first position to the last.
LEMMA KeepsStep ==
  ASSUME NEW T, NEW order \in Seq(T), NEW S
  PROVE  LET g == Keeps(order, S) IN
         /\ g[{}] = <<>>
         /\ \A n \in 1 .. Len(order) :
              g[1 .. n] = IF order[n] \in S THEN Append(g[1 .. n - 1], order[n]) ELSE g[1 .. n - 1]
<1> DEFINE D == DOMAIN order
           F == [i \in D |-> [v \in Seq(T) |-> IF order[i] \in S THEN Append(v, order[i]) ELSE v]]
           c == [s \in SUBSET D |-> Max(s)]
<1>1. D = 1 .. Len(order) /\ Len(order) \in Nat /\ IsFiniteSet(D)
  BY FS_Interval
<1>2. \A s \in SUBSET D : s # {} => Max(s) \in s
  <2> HIDE DEF D
  <2> QED BY <1>1, MaxIn
<1>3. F \in [D -> [Seq(T) -> Seq(T)]]
  <2>1. ASSUME NEW i \in D, NEW v \in Seq(T) PROVE (IF order[i] \in S THEN Append(v, order[i]) ELSE v) \in Seq(T)
    <3>1. order[i] \in T
      BY <1>1
    <3> QED BY <3>1
  <2> HIDE DEF D
  <2> QED BY <2>1
<1>4. PICK g \in [SUBSET D -> Seq(T)] : Folds(g, F, c, <<>>, D)
  <2>1. Foldable(D, Seq(T), F, c, <<>>)
    <3>1. <<>> \in Seq(T)
      OBVIOUS
    <3>2. Chooses(c, D)
      BY <1>2 DEF Chooses
    <3> HIDE DEF D, F, c
    <3> QED BY <1>1, <1>3, <3>1, <3>2 DEF Foldable
  <2> HIDE DEF D, F, c
  <2>2. HasFold(D, Seq(T), F, c, <<>>)
    BY <2>1, FoldExists
  <2> QED BY <2>2 DEF HasFold
<1> DEFINE Equation(h) == h = [s \in SUBSET D |->
             IF s = {} THEN <<>>
             ELSE IF order[Max(s)] \in S THEN Append(h[s \ {Max(s)}], order[Max(s)]) ELSE h[s \ {Max(s)}]]
<1>5. Equation(g)
  <2>1. ASSUME NEW s \in SUBSET D, s # {}
        PROVE  F[c[s]][g[s \ {c[s]}]] =
                 IF order[Max(s)] \in S THEN Append(g[s \ {Max(s)}], order[Max(s)]) ELSE g[s \ {Max(s)}]
    <3>1. c[s] = Max(s) /\ Max(s) \in D
      BY <1>2, <2>1
    <3>2. g[s \ {Max(s)}] \in Seq(T)
      OBVIOUS
    <3> HIDE DEF D
    <3> QED BY <3>1, <3>2
  <2> HIDE DEF D, F, c
  <2> QED BY <1>4, <2>1 DEF Folds
<1>6. Equation(Keeps(order, S))
  <2> HIDE DEF D
  <2> QED BY <1>5, Zenon DEF Keeps, D
<1> DEFINE h == Keeps(order, S)
<1>7. h[{}] = <<>>
  <2> HIDE DEF D, h
  <2> QED BY <1>6 DEF h
<1>8. ASSUME NEW n \in 1 .. Len(order)
      PROVE  h[1 .. n] = IF order[n] \in S THEN Append(h[1 .. n - 1], order[n]) ELSE h[1 .. n - 1]
  <2>1. (1 .. n) \in SUBSET D /\ 1 .. n # {}
    BY <1>1
  <2>2. Max(1 .. n) = n
    <3>1. n \in Nat /\ (1 .. n) \in SUBSET (1 .. n)
      BY <1>1
    <3>2. Max(1 .. n) \in 1 .. n /\ \A x \in 1 .. n : x <= Max(1 .. n)
      BY <2>1, <3>1, MaxIn
    <3> QED BY <3>1, <3>2
  <2>3. (1 .. n) \ {n} = 1 .. n - 1
    BY <1>1
  <2>4. h[1 .. n] = IF order[Max(1 .. n)] \in S THEN Append(h[(1 .. n) \ {Max(1 .. n)}], order[Max(1 .. n)])
                   ELSE h[(1 .. n) \ {Max(1 .. n)}]
    <3> HIDE DEF D, h
    <3> QED BY <1>6, <2>1 DEF h
  <2> HIDE DEF h
  <2> QED BY <2>2, <2>3, <2>4
<1> QED
  BY <1>7, <1>8

\* No file is listed twice.
Distinct(order) == \A i, j \in DOMAIN order : i # j => order[i] # order[j]

\* What appending a file to an order yields.
LEMMA AppendOf ==
  ASSUME NEW T, NEW q \in Seq(T), NEW x \in T
  PROVE  /\ Append(q, x) \in Seq(T)
         /\ ToSet(Append(q, x)) = ToSet(q) \union {x}
         /\ Distinct(q) /\ x \notin ToSet(q) => Distinct(Append(q, x))
<1> DEFINE a == Append(q, x)
<1>1. Len(a) = Len(q) + 1 /\ Len(q) \in Nat /\ a[Len(q) + 1] = x
      /\ \A i \in 1 .. Len(q) : a[i] = q[i]
  OBVIOUS
<1>2. DOMAIN a = 1 .. Len(q) + 1 /\ DOMAIN q = 1 .. Len(q) /\ a \in Seq(T)
  OBVIOUS
<1> HIDE DEF a
<1>3. ToSet(a) = ToSet(q) \union {x}
  BY <1>1, <1>2 DEF ToSet
<1>4. ASSUME Distinct(q), x \notin ToSet(q) PROVE Distinct(a)
  BY <1>1, <1>2, <1>4 DEF ToSet, Distinct
<1> QED
  BY <1>2, <1>3, <1>4 DEF a

\* What Keep keeps is a sequence of the files of the order that are in S.
LEMMA KeepOf ==
  ASSUME NEW T, NEW order \in Seq(T), NEW S
  PROVE  /\ Keep(order, S) \in Seq(T)
         /\ ToSet(Keep(order, S)) = ToSet(order) \intersect S
         /\ Distinct(order) => Distinct(Keep(order, S))
<1> DEFINE g == Keeps(order, S)
           Kept(n) == /\ g[1 .. n] \in Seq(T)
                      /\ ToSet(g[1 .. n]) = Prefix(order, n) \intersect S
                      /\ Distinct(order) => Distinct(g[1 .. n])
           Bad == {n \in 0 .. Len(order) : ~Kept(n)}
<1>0. Len(order) \in Nat /\ DOMAIN order = 1 .. Len(order)
  OBVIOUS
<1>1. Bad = {}
  <2> SUFFICES ASSUME Bad # {} PROVE FALSE
    OBVIOUS
  <2>1. PICK n \in Bad : \A m \in Bad : n <= m
    <3>1. Bad \in SUBSET Nat
      BY <1>0
    <3> HIDE DEF Bad
    <3> QED BY <3>1, Least
  <2>2. CASE n = 0
    <3>1. g[1 .. 0] = <<>>
      <4>1. 1 .. 0 = {}
        OBVIOUS
      <4> QED BY <4>1, KeepsStep
    <3>2. Kept(0)
      <4> HIDE DEF g
      <4> QED BY <3>1 DEF ToSet, Prefix, Distinct
    <3> QED BY <2>2, <3>2
  <2>3. CASE n # 0
    <3>1. n \in 1 .. Len(order) /\ n - 1 \in 0 .. Len(order) /\ n \in Nat
      BY <1>0, <2>3
    <3>2. Kept(n - 1)
      <4> HIDE DEF Kept
      <4>1. n - 1 \notin Bad
        <5>1. ~(n <= n - 1)
          BY <3>1
        <5> HIDE DEF Bad
        <5> QED BY <2>1, <5>1
      <4> QED BY <3>1, <4>1
    <3>3. g[1 .. n] = IF order[n] \in S THEN Append(g[1 .. n - 1], order[n]) ELSE g[1 .. n - 1]
      BY <3>1, KeepsStep
    <3>4. Prefix(order, n) = Prefix(order, n - 1) \union {order[n]}
      BY <3>1 DEF Prefix
    <3>5. ASSUME Distinct(order) PROVE order[n] \notin Prefix(order, n - 1)
      BY <1>0, <3>1, <3>5 DEF Prefix, Distinct
    <3> DEFINE q == g[1 .. n - 1]
    <3>6. q \in Seq(T) /\ ToSet(q) = Prefix(order, n - 1) \intersect S /\ order[n] \in T
          /\ (Distinct(order) => Distinct(q))
      BY <3>2, <3>1
    <3>7. /\ Append(q, order[n]) \in Seq(T)
          /\ ToSet(Append(q, order[n])) = ToSet(q) \union {order[n]}
          /\ Distinct(order) => Distinct(Append(q, order[n]))
      <4> HIDE DEF q
      <4> QED BY <3>5, <3>6, AppendOf
    <3>8. Kept(n)
      <4>1. CASE order[n] \in S
        <5> HIDE DEF g
        <5> QED BY <3>3, <3>4, <3>6, <3>7, <4>1
      <4>2. CASE order[n] \notin S
        <5> HIDE DEF g
        <5> QED BY <3>3, <3>4, <3>6, <4>2
      <4> QED BY <4>1, <4>2
    <3> QED BY <3>8
  <2> QED BY <2>2, <2>3
<1>2. Kept(Len(order))
  <2> HIDE DEF Kept
  <2>1. Len(order) \in 0 .. Len(order)
    BY <1>0
  <2> QED BY <1>1, <2>1
<1>3. ToSet(order) = Prefix(order, Len(order))
  BY <1>0 DEF ToSet, Prefix
<1>4. Keep(order, S) = g[1 .. Len(order)]
  BY <1>0, KeepKeeps
<1> HIDE DEF g
<1> QED
  BY <1>2, <1>3, <1>4

\* What the order of the payloads is, given their sizes.
Ordered(order, d) ==
  /\ order \in Seq(Payloads)
  /\ ToSet(order) = {p \in Payloads : d[p] > 0}
  /\ Distinct(order)

\* Keeping the files that are left orders what is left.
LEMMA KeepOrdered ==
  ASSUME NEW order, NEW d \in [Paths -> Nat], Ordered(order, d),
         NEW e \in [Paths -> Nat], \A p \in Paths : e[p] = 0 \/ e[p] = d[p],
         NEW S, \A p \in Payloads : d[p] > 0 => (p \in S <=> e[p] > 0)
  PROVE  Ordered(Keep(order, S), e)
<1>1. /\ Keep(order, S) \in Seq(Payloads)
      /\ ToSet(Keep(order, S)) = ToSet(order) \intersect S
      /\ Distinct(Keep(order, S))
  BY KeepOf DEF Ordered
<1>2. ToSet(order) \intersect S = {p \in Payloads : e[p] > 0}
  BY DEF Ordered, Paths
<1> QED
  BY <1>1, <1>2 DEF Ordered

\* A file that is written becomes the newest.
LEMMA NewestOrdered ==
  ASSUME NEW order, NEW d \in [Paths -> Nat], Ordered(order, d),
         NEW p \in Paths, NEW n \in Nat, n > 0
  PROVE  Ordered(Newest(order, p), [d EXCEPT ![p] = n])
<1> DEFINE e == [d EXCEPT ![p] = n]
<1>1. CASE p \in Payloads
  <2> DEFINE q == Keep(order, Paths \ {p})
  <2>1. q \in Seq(Payloads) /\ ToSet(q) = ToSet(order) \intersect (Paths \ {p}) /\ Distinct(q)
    BY KeepOf DEF Ordered
  <2> HIDE DEF q
  <2>2. /\ Append(q, p) \in Seq(Payloads)
        /\ ToSet(Append(q, p)) = ToSet(q) \union {p}
        /\ Distinct(Append(q, p))
    BY <1>1, <2>1, AppendOf
  <2>3. ToSet(q) \union {p} = {x \in Payloads : e[x] > 0}
    BY <1>1, <2>1 DEF Ordered, Paths
  <2>4. Newest(order, p) = Append(q, p)
    BY <1>1 DEF Newest, q
  <2> QED BY <2>2, <2>3, <2>4 DEF Ordered
<1>2. CASE p \notin Payloads
  <2>1. {x \in Payloads : e[x] > 0} = {x \in Payloads : d[x] > 0}
    BY <1>2 DEF Paths
  <2> QED BY <1>2, <2>1 DEF Ordered, Newest
<1> QED
  BY <1>1, <1>2

\* An order lists as many files as there are.
LEMMA OrderedLength ==
  ASSUME NEW order, NEW d, Ordered(order, d)
  PROVE  Len(order) = Cardinality(ToSet(order))
<1>1. Len(order) \in Nat /\ DOMAIN order = 1 .. Len(order) /\ order \in [1 .. Len(order) -> ToSet(order)]
  BY DEF Ordered, ToSet
<1>2. order \in Surjection(1 .. Len(order), ToSet(order))
  BY <1>1, Fun_IsSurj DEF ToSet
<1>3. order \in Injection(1 .. Len(order), ToSet(order))
  BY <1>1, Fun_IsInj DEF Ordered, Distinct
<1>4. IsFiniteSet(1 .. Len(order)) /\ Cardinality(1 .. Len(order)) = Len(order)
  BY <1>1, FS_Interval
<1> QED
  BY <1>2, <1>3, <1>4, FS_Surjection

\* Init lists the payloads in any order.
LEMMA OrderedSome ==
  ASSUME NEW d \in [Paths -> Nat], NEW order \in SetToSeqs({p \in Payloads : d[p] > 0})
  PROVE  Ordered(order, d)
<1> DEFINE S == {p \in Payloads : d[p] > 0}
<1>1. IsFiniteSet(S)
  <2>1. S \in SUBSET Paths
    BY DEF Paths
  <2> HIDE DEF S
  <2> QED BY <2>1, PathAssumption, FS_Subset
<1>2. Cardinality(S) \in Nat
  BY <1>1, FS_CardinalityType
<1>3. order \in [1 .. Cardinality(S) -> S] /\ \A i, j \in 1 .. Cardinality(S) : i # j => order[i] # order[j]
  BY DEF SetToSeqs
<1> HIDE DEF S
<1>4. order \in Injection(1 .. Cardinality(S), S)
  BY <1>3, Fun_IsInj
<1>5. Cardinality(1 .. Cardinality(S)) = Cardinality(S)
  BY <1>2, FS_Interval
<1>6. order \in Surjection(1 .. Cardinality(S), S)
  BY <1>1, <1>4, <1>5, FS_Injection
<1>7. \A p \in S : \E i \in 1 .. Cardinality(S) : order[i] = p
  BY <1>6 DEF Surjection
<1>8. ToSet(order) = S
  BY <1>3, <1>7 DEF ToSet
<1>9. order \in Seq(S) /\ DOMAIN order = 1 .. Cardinality(S)
  BY <1>2, <1>3
<1>10. S \subseteq Payloads
  BY DEF S
<1>11. order \in Seq(Payloads)
  BY <1>9, <1>10
<1> QED
  BY <1>3, <1>8, <1>9, <1>11 DEF Ordered, Distinct, S

-----------------------------------------------------------------------------
\* The usage after one file is replaced.
LEMMA UsageExcept ==
  ASSUME NEW d \in [Paths -> Nat], NEW p \in Paths, NEW n \in Nat
  PROVE  Usage([d EXCEPT ![p] = n]) = Usage(d) - d[p] + n
<1> DEFINE e == [d EXCEPT ![p] = n]
           R == Paths \ {p}
<1>1. IsFiniteSet(Paths) /\ IsFiniteSet(R)
  BY PathAssumption, FS_Subset
<1>2. Bytes(d, Paths) = d[p] + Bytes(d, R)
  BY <1>1, BytesRemove
<1>3. Bytes(e, Paths) = e[p] + Bytes(e, R)
  BY <1>1, BytesRemove
<1>4. Bytes(e, R) = Bytes(d, R)
  <2>1. \A x \in R : d[x] \in Nat /\ e[x] = d[x]
    OBVIOUS
  <2> HIDE DEF e, R
  <2> QED BY <1>1, <2>1, BytesAgree
<1>5. Bytes(d, R) \in Nat
  BY <1>1, BytesNat
<1>6. e[p] = n /\ d[p] \in Nat
  OBVIOUS
<1> HIDE DEF e, R
<1> QED
  BY <1>2, <1>3, <1>4, <1>5, <1>6 DEF Usage, e

LEMMA UsageNat == ASSUME NEW d \in [Paths -> Nat] PROVE Usage(d) \in Nat
  BY PathAssumption, BytesNat DEF Usage

\* A pass that trims a directory to a limit does so, unless it runs out of payloads.
LEMMA VictimsWithin ==
  ASSUME NEW d \in [Paths -> Nat], NEW order, Ordered(order, d), NEW limit \in Nat, NEW e,
         e = [p \in Paths |-> IF p \in Victims(d, order, limit) THEN 0 ELSE d[p]]
  PROVE  Usage(e) <= limit \/ Bytes(e, Payloads) = 0
<1> DEFINE target == Usage(d) - limit
           enough == {n \in 0 .. Len(order) : Bytes(d, Prefix(order, n)) >= target}
           V == Victims(d, order, limit)
<1>0. /\ IsFiniteSet(Paths) /\ IsFiniteSet(Payloads) /\ Payloads \subseteq Paths
      /\ Len(order) \in Nat /\ DOMAIN order = 1 .. Len(order) /\ \A i \in 1 .. Len(order) : order[i] \in Payloads
  BY PathAssumption, FS_Subset DEF Paths, Ordered
<1>1. CASE enough = {}
  <2>1. V = ToSet(order)
    BY <1>1 DEF Victims
  <2>2. \A p \in Payloads : e[p] = 0
    <3>1. \A p \in Payloads : p \in Paths /\ d[p] \in Nat
      BY <1>0
    <3>2. \A p \in Payloads : p \in V \/ d[p] = 0
      BY <2>1, <3>1 DEF Ordered
    <3> HIDE DEF V
    <3> QED BY <3>1, <3>2 DEF V
  <2> QED BY <1>0, <2>2, BytesZero
<1>2. CASE enough # {}
  <2>1. PICK n \in enough : V = Prefix(order, n)
    <3>1. PICK n \in enough : \A m \in enough : n <= m
      <4>1. enough \in SUBSET Nat
        BY <1>0
      <4> HIDE DEF enough
      <4> QED BY <1>2, <4>1, Least
    <3>2. Min(enough) \in enough
      <4> HIDE DEF enough
      <4> QED BY <3>1, Zenon DEF Min
    <3> QED BY <1>2, <3>2 DEF Victims
  <2>2. V \in SUBSET Paths /\ Bytes(d, V) >= Usage(d) - limit
    <3>1. n \in 0 .. Len(order)
      BY <2>1
    <3> QED BY <1>0, <2>1, <3>1 DEF Prefix
  <2> DEFINE R == Paths \ V
  <2> HIDE DEF V
  <2>3. IsFiniteSet(V) /\ IsFiniteSet(R) /\ R \in SUBSET Paths
    BY <1>0, <2>2, FS_Subset
  <2>4. e \in [Paths -> Nat] /\ (\A p \in V : e[p] = 0) /\ (\A p \in R : e[p] = d[p])
    BY <2>2 DEF V
  <2>5. Bytes(d, Paths) = Bytes(d, V) + Bytes(d, R) /\ Bytes(e, Paths) = Bytes(e, V) + Bytes(e, R)
    <3>1. (\A p \in Paths : d[p] \in Nat) /\ \A p \in Paths : e[p] \in Nat
      BY <2>4
    <3> QED BY <1>0, <2>2, <3>1, BytesSplit DEF R
  <2>6. Bytes(e, V) = 0
    BY <2>3, <2>4, BytesZero
  <2>7. Bytes(e, R) = Bytes(d, R)
    <3>1. \A p \in R : d[p] \in Nat
      OBVIOUS
    <3> HIDE DEF R
    <3> QED BY <2>3, <2>4, <3>1, BytesAgree
  <2>8. Bytes(d, V) \in Nat /\ Bytes(d, R) \in Nat
    <3>1. (\A p \in V : d[p] \in Nat) /\ \A p \in R : d[p] \in Nat
      BY <2>2, <2>3
    <3> HIDE DEF R
    <3> QED BY <2>3, <3>1, BytesNat
  <2> HIDE DEF R
  <2> QED BY <2>2, <2>5, <2>6, <2>7, <2>8 DEF Usage
<1> QED
  BY <1>1, <1>2

-----------------------------------------------------------------------------
(* The inductive invariant.                                                 *)

Labels == {"idle", "write", "account", "add", "check", "walk", "walked",
           "lock", "store", "prune", "remeasure", "restore"}

\* The types, with the sizes that files may have.  Half of the counter is out
\* of the reach of a measurement.
FilesTyped ==
  /\ setup \in Setups
  /\ disk \in [Paths -> Held(setup)]
  /\ Ordered(recency, disk)

CountersTyped ==
  /\ estimate \in 0 .. Wrap - 1
  /\ writes \in 0 .. setup.writes
  /\ boots \in Nat

ThreadsTyped ==
  /\ pc \in [Threads -> Labels]
  /\ path \in [Threads -> Paths]
  /\ size \in [Threads -> setup.sizes \union {0}]
  /\ old \in [Threads -> Held(setup)]
  /\ measured \in [Threads -> 0 .. (Wrap \div 2) - 1]
  /\ \A t \in Threads : Replacing(t) => size[t] > 0
  /\ \A t \in Threads \ setup.threads : pc[t] = "idle"

Typed == FilesTyped /\ CountersTyped /\ ThreadsTyped

\* An estimate that has underflowed is seen by a thread that still has to
\* compare it with the budget, or to overwrite it.
Heals ==
  \/ estimate < Wrap \div 2
  \/ \E t \in Threads : pc[t] \in Labels \ {"idle", "write", "account", "add"}

Within == Usage(disk) <= setup.maxBytes \/ Bytes(disk, Payloads) = 0

\* Where the one writer stands when nothing disturbs it: between two writes
\* the estimate is exact, during one it lacks the difference.
Exact(t) ==
  /\ pc[t] \notin {"walk", "walked"}
  /\ pc[t] \in {"idle", "write", "check", "lock", "store", "prune"} => estimate = Usage(disk)
  /\ pc[t] = "write" => old[t] = disk[path[t]]
  /\ pc[t] \in {"account", "add"} => /\ estimate + size[t] - old[t] = Usage(disk)
                                     /\ estimate < Wrap \div 2
  /\ pc[t] \in {"store", "restore"} => measured[t] = Usage(disk)
  /\ pc[t] \in {"idle", "remeasure", "restore"} => Within

ExactAlone == Alone => \A t \in setup.threads : Exact(t)

IInv == Typed /\ Heals /\ ExactAlone

-----------------------------------------------------------------------------
LEMMA SetupFacts ==
  ASSUME NEW x \in Setups
  PROVE  /\ x.threads \subseteq Threads /\ x.paths \subseteq Paths
         /\ x.sizes \subseteq Nat \ {0} /\ x.sizes \subseteq Held(x) /\ 0 \in Held(x)
         /\ Held(x) \subseteq Nat
         /\ x.contents \subseteq [Paths -> Held(x)]
         /\ x.maxBytes \in Nat /\ x.writes \in Nat /\ x.boots \in Nat
         /\ x.maxBytes < Wrap \div 2 /\ MinBytes <= x.maxBytes
         /\ Wrap \in Nat /\ MinBytes \in Nat /\ Wrap \div 2 \in Nat /\ Wrap \div 2 < Wrap
<1>1. /\ x.threads \subseteq Threads /\ x.paths \subseteq Paths /\ x.sizes \subseteq Nat \ {0}
      /\ x.contents \subseteq [Paths -> Nat]
      /\ x.maxBytes \in Nat /\ x.writes \in Nat /\ x.boots \in Nat /\ MinBytes <= x.maxBytes
      /\ Wrap \in Nat \ {0} /\ MinBytes \in Nat
  BY SetupAssumption
<1>2. x.sizes \subseteq Held(x) /\ 0 \in Held(x)
  BY DEF Held
<1>3. Held(x) \subseteq Nat
  <2>1. \A d \in x.contents, p \in Paths : d[p] \in Nat
    BY <1>1
  <2> QED BY <1>1, <2>1 DEF Held
<1>4. x.contents \subseteq [Paths -> Held(x)]
  <2>1. \A d \in x.contents : d \in [Paths -> Nat] /\ \A p \in Paths : d[p] \in Held(x)
    BY <1>1 DEF Held
  <2> QED BY <2>1
<1>5. x.maxBytes < Wrap \div 2
  BY SizeAssumption
<1>6. Wrap \div 2 \in Nat /\ Wrap \div 2 < Wrap
  BY <1>1
<1> QED
  BY <1>1, <1>2, <1>3, <1>4, <1>5, <1>6

\* What a walk measures is below half of the counter.
LEMMA UsageHalf ==
  ASSUME NEW x \in Setups, NEW d \in [Paths -> Held(x)]
  PROVE  /\ d \in [Paths -> Nat]
         /\ Usage(d) \in 0 .. (Wrap \div 2) - 1 /\ Usage(d) \in 0 .. Wrap - 1
         /\ Usage(d) < Wrap \div 2 /\ Usage(d) # Stale
<1>1. d \in [Paths -> Nat]
  BY SetupFacts
<1>2. Usage(d) \in Nat
  BY <1>1, UsageNat
<1>3. Usage(d) < Wrap \div 2
  BY SizeAssumption
<1>4. Wrap \in Nat /\ Wrap \div 2 \in Nat /\ Wrap \div 2 < Wrap
  BY SetupFacts
<1> QED
  BY <1>1, <1>2, <1>3, <1>4 DEF Stale

LEMMA LowWaterWithin ==
  ASSUME NEW x \in Setups, setup = x
  PROVE  LowWater \in Nat /\ LowWater <= setup.maxBytes
<1> DEFINE a == (setup.maxBytes * 9) \div 10
<1>1. setup.maxBytes \in Nat /\ MinBytes \in Nat /\ MinBytes <= setup.maxBytes
  BY SetupFacts
<1>2. a \in Nat /\ a <= setup.maxBytes
  BY <1>1
<1> HIDE DEF a
<1>3. \E m \in {a, MinBytes} : \A y \in {a, MinBytes} : m >= y
  BY <1>1, <1>2
<1>4. Max({a, MinBytes}) \in {a, MinBytes}
  BY <1>3, Zenon DEF Max
<1> QED
  BY <1>1, <1>2, <1>4 DEF LowWater, a

\* What a pass leaves: files as they were, in the order they were in, and, if
\* nothing fails, no more than the limit, or no payload.
LEMMA PrunedOf ==
  ASSUME FilesTyped, NEW limit \in Nat, Pruned(limit)
  PROVE  /\ disk' \in [Paths -> Held(setup)]
         /\ Ordered(recency', disk')
         /\ ~setup.failing => Usage(disk') <= limit \/ Bytes(disk', Payloads) = 0
<1>1. disk \in [Paths -> Nat] /\ Ordered(recency, disk) /\ disk \in [Paths -> Held(setup)] /\ 0 \in Held(setup)
  BY SetupFacts DEF FilesTyped
<1>2. PICK n \in 0 .. Len(recency), oldSidecars \in SUBSET Sidecars,
           stuck \in IF setup.failing THEN SUBSET {p \in Paths : disk[p] > 0} ELSE {{}} :
        LET aged    == Prefix(recency, n) \union oldSidecars
            counted == [p \in Paths |-> IF p \in aged \ (stuck \intersect Sidecars) THEN 0 ELSE disk[p]]
            order   == Keep(recency, Paths \ (aged \union stuck))
        IN  \E trimmed \in {Victims(counted, order, limit)} \union (IF setup.failing THEN {{}} ELSE {}) :
              /\ disk'    = [p \in Paths |-> IF p \in (aged \ stuck) \union trimmed THEN 0 ELSE disk[p]]
              /\ recency' = Keep(recency, {p \in Paths : disk'[p] > 0})
  BY DEF Pruned
<1> DEFINE aged    == Prefix(recency, n) \union oldSidecars
           counted == [p \in Paths |-> IF p \in aged \ (stuck \intersect Sidecars) THEN 0 ELSE disk[p]]
           order   == Keep(recency, Paths \ (aged \union stuck))
<1>3. PICK trimmed \in {Victims(counted, order, limit)} \union (IF setup.failing THEN {{}} ELSE {}) :
        /\ disk'    = [p \in Paths |-> IF p \in (aged \ stuck) \union trimmed THEN 0 ELSE disk[p]]
        /\ recency' = Keep(recency, {p \in Paths : disk'[p] > 0})
  BY <1>2
<1>4. disk' \in [Paths -> Held(setup)] /\ disk' \in [Paths -> Nat]
      /\ \A p \in Paths : disk'[p] = 0 \/ disk'[p] = disk[p]
  BY <1>1, <1>3
<1>5. Ordered(recency', disk')
  <2>1. \A p \in Payloads : disk[p] > 0 => (p \in {q \in Paths : disk'[q] > 0} <=> disk'[p] > 0)
    BY DEF Paths
  <2> QED BY <1>1, <1>3, <1>4, <2>1, KeepOrdered
<1>6. ASSUME ~setup.failing PROVE Usage(disk') <= limit \/ Bytes(disk', Payloads) = 0
  <2>1. stuck = {} /\ trimmed = Victims(counted, order, limit)
    BY <1>2, <1>3, <1>6
  <2>2. counted \in [Paths -> Nat] /\ \A p \in Paths : counted[p] = 0 \/ counted[p] = disk[p]
    BY <1>1
  <2>3. Ordered(order, counted)
    <3>1. \A p \in Payloads : disk[p] > 0 => (p \in Paths \ (aged \union stuck) <=> counted[p] > 0)
      BY <1>1, <2>1 DEF Paths
    <3> HIDE DEF aged, counted
    <3> QED BY <1>1, <2>2, <3>1, KeepOrdered
  <2>4. disk' = [p \in Paths |-> IF p \in Victims(counted, order, limit) THEN 0 ELSE counted[p]]
    <3>1. disk' = [p \in Paths |-> IF p \in aged \union trimmed THEN 0 ELSE disk[p]]
      BY <1>3, <2>1
    <3>2. \A p \in Paths : counted[p] = IF p \in aged THEN 0 ELSE disk[p]
      BY <2>1
    <3> HIDE DEF aged, counted, order
    <3> QED BY <2>1, <3>1, <3>2
  <2> HIDE DEF aged, counted, order
  <2> QED BY <2>2, <2>3, <2>4, VictimsWithin
<1> QED
  BY <1>4, <1>5, <1>6

-----------------------------------------------------------------------------
(* Types.                                                                   *)

LEMMA NowhereTyped == Nowhere \in [Threads -> Paths]
  BY PathAssumption DEF Nowhere

\* What a process that opens the cache finds: nobody in the middle of a write.
LEMMA OpenedTyped ==
  ASSUME NEW x \in Setups, setup = x, NEW f \in Opened
  PROVE  /\ f \in [Threads -> {"idle", "check"}]
         /\ \A t \in Threads \ setup.threads : f[t] = "idle"
         /\ \E t \in Threads : f[t] = "check"
<1>1. setup.threads \subseteq Threads /\ setup.threads # {}
  BY SetupAssumption
<1> QED
  BY <1>1 DEF Opened

LEMMA TypedInit == Init => Typed
<1> SUFFICES ASSUME Init PROVE Typed
  OBVIOUS
<1>1. setup \in Setups /\ disk \in [Paths -> Held(setup)]
  BY SetupFacts DEF Init
<1>2. FilesTyped
  <2>1. disk \in [Paths -> Nat]
    BY <1>1, UsageHalf
  <2> QED BY <1>1, <2>1, OrderedSome DEF FilesTyped, Init
<1>3. CountersTyped
  <2>1. setup.writes \in Nat
    BY <1>1, SetupFacts
  <2>2. estimate \in 0 .. Wrap - 1
    BY <1>1, UsageHalf DEF Init
  <2> QED BY <2>1, <2>2 DEF CountersTyped, Init
<1>4. ThreadsTyped
  <2>1. pc \in [Threads -> {"idle", "check"}] /\ \A t \in Threads \ setup.threads : pc[t] = "idle"
    BY <1>1, OpenedTyped DEF Init
  <2>2. 0 \in Held(setup) /\ 0 \in 0 .. (Wrap \div 2) - 1
    <3>1. \E n : n \in 0 .. (Wrap \div 2) - 1
      BY <1>1, UsageHalf
    <3> QED BY <1>1, <3>1, SetupFacts
  <2>3. pc \in [Threads -> Labels] /\ \A t \in Threads : ~Replacing(t)
    BY <2>1 DEF Labels, Replacing
  <2> QED BY <2>1, <2>2, <2>3, NowhereTyped DEF ThreadsTyped, Init, Zero
<1> QED
  BY <1>2, <1>3, <1>4 DEF Typed

\* The values that a step may need, in one place.
LEMMA TypedFacts ==
  ASSUME Typed
  PROVE  /\ setup \in Setups /\ setup.threads \subseteq Threads
         /\ disk \in [Paths -> Held(setup)] /\ disk \in [Paths -> Nat]
         /\ Usage(disk) \in 0 .. (Wrap \div 2) - 1 /\ Usage(disk) \in 0 .. Wrap - 1
         /\ Usage(disk) < Wrap \div 2 /\ Usage(disk) # Stale
         /\ setup.maxBytes \in Nat /\ setup.maxBytes < Wrap \div 2
         /\ Wrap \in Nat /\ Wrap \div 2 \in Nat /\ Wrap \div 2 < Wrap
         /\ setup.sizes \subseteq Held(setup) /\ 0 \in Held(setup) /\ Held(setup) \subseteq Nat
         /\ 0 \in 0 .. (Wrap \div 2) - 1
<1>1. setup \in Setups /\ disk \in [Paths -> Held(setup)]
  BY DEF Typed, FilesTyped
<1>2. Usage(disk) \in 0 .. (Wrap \div 2) - 1
  BY <1>1, UsageHalf
<1> QED
  BY <1>1, <1>2, SetupFacts, UsageHalf

LEMMA ForgetTyped ==
  ASSUME Typed, NEW t \in Threads, Forget(t)
  PROVE  /\ path' \in [Threads -> Paths]
         /\ size' \in [Threads -> setup.sizes \union {0}]
         /\ old' \in [Threads -> Held(setup)]
         /\ \A u \in Threads \ {t} : size'[u] = size[u] /\ old'[u] = old[u] /\ path'[u] = path[u]
  BY NowhereTyped, TypedFacts DEF Forget, Typed, ThreadsTyped

\* What moving one thread takes.
LEMMA GotoTyped ==
  ASSUME Typed, NEW t \in setup.threads, NEW label \in Labels, Goto(t, label)
  PROVE  /\ pc' \in [Threads -> Labels] /\ pc'[t] = label /\ t \in Threads
         /\ \A u \in Threads \ {t} : pc'[u] = pc[u]
         /\ \A u \in Threads \ setup.threads : pc'[u] = "idle"
<1>1. t \in Threads
  BY TypedFacts
<1> QED
  BY <1>1 DEF Typed, ThreadsTyped, Goto

LEMMA BeginTyped ==
  ASSUME Typed, NEW t \in setup.threads, NEW p \in setup.paths, NEW n \in setup.sizes, Begin(t, p, n)
  PROVE  Typed'
<1>1. setup \in Setups
  BY TypedFacts
<1>2. p \in Paths /\ n \in Nat /\ n > 0 /\ disk[p] \in Held(setup) /\ setup.writes \in Nat
  <2>1. p \in Paths /\ n \in Nat \ {0} /\ setup.writes \in Nat
    BY <1>1, SetupFacts
  <2> QED BY <2>1, TypedFacts
<1>3. Goto(t, "write") /\ "write" \in Labels
  BY DEF Begin, Labels
<1>4. /\ pc' \in [Threads -> Labels] /\ pc'[t] = "write" /\ t \in Threads
      /\ \A u \in Threads \ {t} : pc'[u] = pc[u]
      /\ \A u \in Threads \ setup.threads : pc'[u] = "idle"
  BY <1>3, GotoTyped
<1>5. FilesTyped'
  BY DEF Typed, FilesTyped, Begin, files
<1>6. CountersTyped'
  BY <1>2 DEF Typed, CountersTyped, Begin
<1>7. path' \in [Threads -> Paths] /\ size' \in [Threads -> setup.sizes \union {0}] /\ old' \in [Threads -> Held(setup)]
  BY <1>2 DEF Typed, ThreadsTyped, Begin
<1>8. \A u \in Threads : Replacing(u)' => size'[u] > 0
  BY <1>2, <1>4 DEF Typed, ThreadsTyped, Begin, Replacing
<1>9. ThreadsTyped'
  BY <1>4, <1>7, <1>8 DEF Typed, ThreadsTyped, Begin
<1> QED
  BY <1>5, <1>6, <1>9 DEF Typed

LEMMA WriteTyped ==
  ASSUME Typed, NEW t \in setup.threads, Write(t)
  PROVE  Typed'
<1> USE TypedFacts
<1>1. t \in Threads /\ path[t] \in Paths /\ size[t] \in setup.sizes /\ size[t] > 0
  BY DEF Typed, ThreadsTyped, Write, Replacing
<1>2. FilesTyped'
  <2>1. CASE disk' = [disk EXCEPT ![path[t]] = size[t]] /\ recency' = Newest(recency, path[t])
    <3>1. disk' \in [Paths -> Held(setup)]
      BY <1>1, <2>1
    <3>2. size[t] \in Nat
      BY <1>1
    <3>3. Ordered(recency', disk')
      BY <1>1, <2>1, <3>2, NewestOrdered DEF Typed, FilesTyped
    <3> QED BY <3>1, <3>3 DEF FilesTyped, Write, bounds
  <2>2. CASE UNCHANGED <<disk, recency>>
    BY <2>2 DEF Typed, FilesTyped, Write, bounds
  <2> QED BY <2>1, <2>2 DEF Write
<1>3. CountersTyped'
  BY DEF Typed, CountersTyped, Write, bounds
<1>4. CASE Goto(t, "account") /\ UNCHANGED job
  <2>1. /\ pc' \in [Threads -> Labels] /\ \A u \in Threads \ {t} : pc'[u] = pc[u]
        /\ \A u \in Threads \ setup.threads : pc'[u] = "idle"
    BY <1>4, GotoTyped DEF Labels
  <2>2. ThreadsTyped'
    BY <1>1, <1>4, <2>1 DEF Typed, ThreadsTyped, Write, Replacing, job, bounds
  <2> QED BY <1>2, <1>3, <2>2 DEF Typed
<1>5. CASE Goto(t, "idle") /\ Forget(t)
  <2>1. /\ pc' \in [Threads -> Labels] /\ pc'[t] = "idle"
        /\ \A u \in Threads \ {t} : pc'[u] = pc[u]
        /\ \A u \in Threads \ setup.threads : pc'[u] = "idle"
    BY <1>5, GotoTyped DEF Labels
  <2>2. ThreadsTyped'
    BY <1>1, <1>5, <2>1, ForgetTyped DEF Typed, ThreadsTyped, Write, Replacing, bounds
  <2> QED BY <1>2, <1>3, <2>2 DEF Typed
<1> QED
  BY <1>4, <1>5 DEF Write

\* A thread that neither writes nor has anything left to write.
LEMMA MovedTyped ==
  ASSUME Typed, NEW t \in setup.threads, NEW label \in Labels \ {"write", "account", "add"}, Goto(t, label),
         UNCHANGED bounds,
         estimate' \in 0 .. Wrap - 1, measured' \in [Threads -> 0 .. (Wrap \div 2) - 1],
         UNCHANGED files \/ (disk' \in [Paths -> Held(setup)] /\ Ordered(recency', disk')),
         UNCHANGED job \/ Forget(t)
  PROVE  Typed'
<1>1. /\ pc' \in [Threads -> Labels] /\ pc'[t] = label /\ t \in Threads
      /\ \A u \in Threads \ {t} : pc'[u] = pc[u]
      /\ \A u \in Threads \ setup.threads : pc'[u] = "idle"
  BY GotoTyped
<1>2. FilesTyped'
  BY DEF Typed, FilesTyped, bounds, files
<1>3. CountersTyped'
  BY DEF Typed, CountersTyped, bounds
<1>4. /\ path' \in [Threads -> Paths] /\ size' \in [Threads -> setup.sizes \union {0}] /\ old' \in [Threads -> Held(setup)]
      /\ \A u \in Threads \ {t} : size'[u] = size[u]
  <2>1. CASE UNCHANGED job
    BY <2>1 DEF Typed, ThreadsTyped, job
  <2>2. CASE Forget(t)
    BY <1>1, <2>2, ForgetTyped
  <2> QED BY <2>1, <2>2
<1>5. ThreadsTyped'
  <2>1. \A u \in Threads : Replacing(u)' => size'[u] > 0
    BY <1>1, <1>4 DEF Typed, ThreadsTyped, Replacing
  <2> QED BY <1>1, <1>4, <2>1 DEF ThreadsTyped, bounds
<1> QED
  BY <1>2, <1>3, <1>5 DEF Typed

LEMMA ContinueTyped ==
  ASSUME Typed, NEW t \in setup.threads, Continue(t)
  PROVE  Typed'
<1> USE TypedFacts
<1>0. /\ measured \in [Threads -> 0 .. (Wrap \div 2) - 1] /\ estimate \in 0 .. Wrap - 1
      /\ t \in Threads /\ measured[t] \in 0 .. Wrap - 1
  BY DEF Typed, ThreadsTyped, CountersTyped
<1>1. CASE Write(t)
  BY <1>1, WriteTyped
<1>2. CASE Account(t)
  <2>1. CASE Goto(t, "check") /\ Forget(t)
    BY <1>0, <1>2, <2>1, MovedTyped DEF Account, Labels
  <2>2. CASE Goto(t, "add") /\ UNCHANGED job
    <3>1. /\ pc' \in [Threads -> Labels] /\ \A u \in Threads \ {t} : pc'[u] = pc[u]
          /\ \A u \in Threads \ setup.threads : pc'[u] = "idle"
      BY <2>2, GotoTyped DEF Labels
    <3>2. FilesTyped' /\ CountersTyped'
      BY <1>2 DEF Typed, FilesTyped, CountersTyped, Account, files, bounds
    <3>3. Replacing(t)
      BY <1>2 DEF Account, Replacing
    <3>4. ThreadsTyped'
      BY <1>2, <2>2, <3>1, <3>3 DEF Typed, ThreadsTyped, Account, Replacing, job, bounds
    <3> QED BY <3>2, <3>4 DEF Typed
  <2> QED BY <1>2, <2>1, <2>2 DEF Account
<1>3. CASE Add(t)
  <2>1. size[t] \in Int /\ old[t] \in Int
    BY <1>0, SetupFacts DEF Typed, ThreadsTyped
  <2>2. estimate' \in 0 .. Wrap - 1
    <3>1. estimate + size[t] - old[t] \in Int /\ Wrap \in Nat \ {0}
      BY <1>0, <2>1, SetupAssumption
    <3> DEFINE x == estimate + size[t] - old[t]
    <3>2. x \in Int
      BY <3>1
    <3> HIDE DEF x
    <3>3. x % Wrap \in 0 .. Wrap - 1
      BY <3>1, <3>2
    <3> QED BY <1>3, <3>3 DEF Add, x
  <2> QED BY <1>0, <1>3, <2>2, MovedTyped DEF Add, Labels
<1>4. CASE Check(t)
  <2>1. \E label \in {"walk", "idle", "lock"} : Goto(t, label)
    BY <1>4 DEF Check
  <2> QED BY <1>0, <1>4, <2>1, MovedTyped DEF Check, Labels
<1>5. ASSUME NEW label, NEW next \in {"walked", "store", "restore"}, Walk(t, label, next) PROVE Typed'
  <2>1. measured' \in [Threads -> 0 .. (Wrap \div 2) - 1]
    BY <1>0, <1>5 DEF Walk
  <2> QED BY <1>0, <1>5, <2>1, MovedTyped DEF Walk, Labels
<1>6. ASSUME NEW label, NEW next \in {"idle", "lock", "prune"}, StoreWalk(t, label, next) PROVE Typed'
  <2>1. measured' \in [Threads -> 0 .. (Wrap \div 2) - 1] /\ estimate' \in 0 .. Wrap - 1
    BY <1>0, <1>6 DEF StoreWalk
  <2> QED BY <1>6, <2>1, MovedTyped DEF StoreWalk, Labels
<1>7. CASE Prune(t)
  <2>1. disk' \in [Paths -> Held(setup)] /\ Ordered(recency', disk')
    BY <1>7, LowWaterWithin, PrunedOf DEF Prune, Typed
  <2> QED BY <1>0, <1>7, <2>1, MovedTyped DEF Prune, Labels
<1> QED
  BY <1>1, <1>2, <1>3, <1>4, <1>5, <1>6, <1>7 DEF Continue, FirstWalk, FirstStore, Lock, Store, Remeasure, Restore

\* What nobody who writes takes part in.
LEMMA FilesMovedTyped ==
  ASSUME Typed, disk' \in [Paths -> Held(setup)], Ordered(recency', disk'),
         estimate' \in 0 .. Wrap - 1, UNCHANGED <<pc, job, measured, bounds>>
  PROVE  Typed'
<1>1. FilesTyped'
  BY DEF Typed, FilesTyped, bounds
<1>2. CountersTyped'
  BY DEF Typed, CountersTyped, bounds
<1>3. ThreadsTyped'
  BY DEF Typed, ThreadsTyped, Replacing, job, bounds
<1> QED
  BY <1>1, <1>2, <1>3 DEF Typed

LEMMA ReopenTyped ==
  ASSUME Typed, Reopen
  PROVE  Typed' /\ estimate' = Usage(disk') /\ estimate' < Wrap \div 2
<1>1. disk' \in [Paths -> Held(setup)] /\ Ordered(recency', disk')
  <2>1. CASE UNCHANGED <<disk, recency>>
    BY <2>1 DEF Typed, FilesTyped
  <2>2. CASE Pruned(setup.maxBytes)
    BY <2>2, TypedFacts, PrunedOf DEF Typed
  <2> QED BY <2>1, <2>2 DEF Reopen
<1>2. estimate' = Usage(disk') /\ estimate' \in 0 .. Wrap - 1 /\ estimate' < Wrap \div 2
  BY <1>1, TypedFacts, UsageHalf DEF Reopen
<1>3. FilesTyped'
  BY <1>1 DEF Typed, FilesTyped, Reopen
<1>4. CountersTyped'
  BY <1>2, TypedFacts, SetupFacts DEF Typed, CountersTyped, Reopen
<1>5. ThreadsTyped'
  <2>1. pc' \in [Threads -> {"idle", "check"}] /\ \A t \in Threads \ setup.threads : pc'[t] = "idle"
    BY TypedFacts, OpenedTyped DEF Reopen
  <2>2. pc' \in [Threads -> Labels] /\ \A t \in Threads : ~Replacing(t)'
    BY <2>1 DEF Labels, Replacing
  <2> QED BY <2>1, <2>2, TypedFacts, NowhereTyped DEF ThreadsTyped, Reopen, Zero
<1> QED
  BY <1>2, <1>3, <1>4, <1>5 DEF Typed

LEMMA MaintenanceTyped ==
  ASSUME Typed, Maintenance
  PROVE  /\ Typed' /\ estimate' = Usage(disk') /\ estimate' < Wrap \div 2
         /\ ~setup.failing => Within'
<1>1. CASE Pruned(setup.maxBytes)
  <2>1. /\ disk' \in [Paths -> Held(setup)] /\ Ordered(recency', disk')
        /\ ~setup.failing => Usage(disk') <= setup.maxBytes \/ Bytes(disk', Payloads) = 0
    BY <1>1, TypedFacts, PrunedOf DEF Typed
  <2>2. estimate' = Usage(disk') /\ estimate' \in 0 .. Wrap - 1 /\ estimate' < Wrap \div 2
    BY <2>1, TypedFacts, UsageHalf DEF Maintenance
  <2> QED BY <2>1, <2>2, FilesMovedTyped DEF Maintenance, Within, bounds
<1>2. CASE disk' = [p \in Paths |-> 0] /\ recency' = <<>>
  <2>1. disk' \in [Paths -> Held(setup)] /\ Ordered(recency', disk')
    <3>1. disk' \in [Paths -> Held(setup)]
      BY <1>2, TypedFacts
    <3>2. {p \in Payloads : disk'[p] > 0} = {}
      BY <1>2 DEF Paths
    <3>3. recency' \in Seq(Payloads) /\ ToSet(recency') = {} /\ Distinct(recency')
      BY <1>2 DEF ToSet, Distinct
    <3> QED BY <3>1, <3>2, <3>3 DEF Ordered
  <2>2. estimate' = Usage(disk') /\ estimate' \in 0 .. Wrap - 1 /\ estimate' < Wrap \div 2
    BY <2>1, TypedFacts, UsageHalf DEF Maintenance
  <2>3. Within'
    <3>1. IsFiniteSet(Payloads) /\ \A p \in Payloads : disk'[p] = 0
      BY <1>2, PathAssumption, FS_Subset DEF Paths
    <3> QED BY <3>1, BytesZero DEF Within
  <2> QED BY <2>1, <2>2, <2>3, FilesMovedTyped DEF Maintenance
<1> QED
  BY <1>1, <1>2 DEF Maintenance

LEMMA PromoteTyped ==
  ASSUME Typed, NEW p \in Payloads, Promote(p)
  PROVE  Typed'
<1>1. p \in Paths /\ disk[p] \in Nat /\ [disk EXCEPT ![p] = disk[p]] = disk
  BY TypedFacts DEF Paths
<1>2. Ordered(recency', disk')
  BY <1>1, NewestOrdered, TypedFacts DEF Promote, Typed, FilesTyped
<1> QED
  BY <1>2, TypedFacts, FilesMovedTyped DEF Promote, Typed, CountersTyped

LEMMA OtherProcessTyped ==
  ASSUME Typed, NEW p \in setup.paths, NEW n \in setup.sizes \union {0}, OtherProcess(p, n)
  PROVE  Typed'
<1>1. p \in Paths /\ n \in Held(setup) /\ n \in Nat
  BY TypedFacts, SetupFacts
<1>2. disk' \in [Paths -> Held(setup)] /\ disk' \in [Paths -> Nat] /\ disk' = [disk EXCEPT ![p] = n]
  BY <1>1, TypedFacts DEF OtherProcess
<1>3. Ordered(recency', disk')
  <2>1. CASE n > 0
    <3>1. Ordered(Newest(recency, p), [disk EXCEPT ![p] = n])
      BY <1>1, <2>1, NewestOrdered, TypedFacts DEF Typed, FilesTyped
    <3> QED BY <1>2, <2>1, <3>1 DEF OtherProcess
  <2>2. CASE n = 0
    <3>1. recency' = Keep(recency, Paths \ {p})
      BY <2>2 DEF OtherProcess
    <3>2. \A x \in Paths : disk'[x] = 0 \/ disk'[x] = disk[x]
      BY <1>1, <1>2, <2>2
    <3>3. \A x \in Payloads : disk[x] > 0 => (x \in Paths \ {p} <=> disk'[x] > 0)
      BY <1>1, <1>2, <2>2, TypedFacts DEF Paths
    <3> QED BY <1>2, <3>1, <3>2, <3>3, TypedFacts, KeepOrdered DEF Typed, FilesTyped
  <2> QED BY <1>1, <2>1, <2>2
<1> QED
  BY <1>2, <1>3, FilesMovedTyped DEF OtherProcess, Typed, CountersTyped

\* Every step keeps the types.
LEMMA TypedNext == Typed /\ [Next]_vars => Typed'
<1> SUFFICES ASSUME Typed, [Next]_vars PROVE Typed'
  OBVIOUS
<1>1. CASE UNCHANGED vars
  BY <1>1 DEF vars, Typed, FilesTyped, CountersTyped, ThreadsTyped, Replacing
<1> QED
  BY <1>1, BeginTyped, ContinueTyped, ReopenTyped, MaintenanceTyped, PromoteTyped, OtherProcessTyped DEF Next

-----------------------------------------------------------------------------
(* An underflow heals.                                                      *)

Pending == Labels \ {"idle", "write", "account", "add"}

\* A thread that moves leaves a witness behind, or an estimate that needs none.
LEMMA MovedHeals ==
  ASSUME Typed, Heals, NEW t \in setup.threads, NEW label \in Labels, Goto(t, label),
         \/ label \in Pending
         \/ estimate' < Wrap \div 2
         \/ estimate' = estimate /\ pc[t] \notin Pending
  PROVE  Heals'
<1>1. /\ pc'[t] = label /\ t \in Threads
      /\ \A u \in Threads \ {t} : pc'[u] = pc[u]
  BY GotoTyped
<1> QED
  BY <1>1 DEF Heals, Pending

\* Every step leaves an estimate that is small, or somebody who will correct it.
LEMMA HealsNext == Typed /\ Heals /\ [Next]_vars => Heals'
<1> SUFFICES ASSUME Typed, Heals, [Next]_vars PROVE Heals'
  OBVIOUS
<1>0. /\ estimate \in 0 .. Wrap - 1
      /\ \A t \in setup.threads : measured[t] < Wrap \div 2
  <2>1. \A t \in setup.threads : measured[t] \in 0 .. (Wrap \div 2) - 1
    BY TypedFacts DEF Typed, ThreadsTyped
  <2> QED BY <2>1, TypedFacts DEF Typed, CountersTyped
<1>1. ASSUME NEW t \in setup.threads, NEW p \in setup.paths, NEW n \in setup.sizes, Begin(t, p, n) PROVE Heals'
  BY <1>1, MovedHeals DEF Begin, Pending, Labels
<1>2. ASSUME NEW t \in setup.threads, Continue(t) PROVE Heals'
  <2>1. CASE Write(t)
    BY <2>1, MovedHeals DEF Write, Pending, Labels
  <2>2. CASE Account(t)
    BY <2>2, MovedHeals DEF Account, Pending, Labels
  <2>3. CASE Add(t)
    BY <2>3, MovedHeals DEF Add, Pending, Labels
  <2>4. CASE Check(t)
    <3>1. CASE estimate = Stale
      <4>1. Goto(t, "walk")
        <5>1. ~(estimate <= setup.maxBytes)
          BY <3>1, TypedFacts DEF Stale
        <5> QED BY <2>4, <3>1, <5>1 DEF Check
      <4> QED BY <4>1, MovedHeals DEF Pending, Labels
    <3>2. CASE estimate # Stale /\ estimate <= setup.maxBytes
      <4>1. estimate' < Wrap \div 2 /\ Goto(t, "idle")
        BY <1>0, <2>4, <3>2, TypedFacts DEF Check
      <4> QED BY <4>1, MovedHeals DEF Labels
    <3>3. CASE estimate # Stale /\ ~(estimate <= setup.maxBytes)
      <4>1. Goto(t, "lock")
        BY <2>4, <3>3 DEF Check
      <4> QED BY <4>1, MovedHeals DEF Pending, Labels
    <3> QED BY <3>1, <3>2, <3>3
  <2>5. ASSUME NEW label, NEW next \in {"walked", "store", "restore"}, Walk(t, label, next) PROVE Heals'
    BY <2>5, MovedHeals DEF Walk, Pending, Labels
  <2>6. ASSUME NEW label, NEW next \in {"idle", "lock", "prune"}, StoreWalk(t, label, next) PROVE Heals'
    BY <1>0, <2>6, MovedHeals DEF StoreWalk, Labels
  <2>7. CASE Prune(t)
    BY <2>7, MovedHeals DEF Prune, Pending, Labels
  <2> QED
    BY <1>2, <2>1, <2>2, <2>3, <2>4, <2>5, <2>6, <2>7
    DEF Continue, FirstWalk, FirstStore, Lock, Store, Remeasure, Restore
<1>3. ASSUME Reopen PROVE Heals'
  BY <1>3, ReopenTyped DEF Heals, Reopen
<1>4. ASSUME Maintenance PROVE Heals'
  BY <1>4, MaintenanceTyped DEF Heals
<1>5. ASSUME NEW p \in Payloads, Promote(p) PROVE Heals'
  BY <1>5 DEF Heals, Promote
<1>6. ASSUME NEW p \in setup.paths, NEW n \in setup.sizes \union {0}, OtherProcess(p, n) PROVE Heals'
  BY <1>6 DEF Heals, OtherProcess
<1>7. CASE UNCHANGED vars
  BY <1>7 DEF Heals, vars
<1> QED
  BY <1>1, <1>2, <1>3, <1>4, <1>5, <1>6, <1>7 DEF Next

-----------------------------------------------------------------------------
(* One writer alone.                                                        *)

\* Whoever is alone has a name.
LEMMA OnlyOne ==
  ASSUME Typed, Alone
  PROVE  \E w \in Threads : setup.threads = {w}
<1>1. IsFiniteSet(setup.threads)
  BY TypedFacts, PathAssumption, FS_Subset
<1>2. \E w : setup.threads = {w}
  BY <1>1, FS_Singleton DEF Alone
<1> QED
  BY <1>2, TypedFacts

\* Each step of the one writer takes it from where it stands to where it says.
LEMMA ContinueExact ==
  ASSUME Typed, Typed', Alone, NEW t \in setup.threads, Exact(t), Continue(t)
  PROVE  Exact(t)'
<1>0. /\ t \in Threads /\ path[t] \in Paths /\ size[t] \in Nat /\ old[t] \in Nat /\ estimate \in Nat
      /\ pc[t] \in Labels /\ ~setup.failing
      /\ pc \in [Threads -> Labels] /\ measured \in [Threads -> 0 .. (Wrap \div 2) - 1]
      /\ Usage(disk) \in Nat /\ setup.maxBytes \in Nat
  <2>1. t \in Threads /\ setup.sizes \subseteq Nat
    BY TypedFacts
  <2> QED BY <2>1, TypedFacts DEF Typed, ThreadsTyped, CountersTyped, Alone
<1>1. CASE Write(t)
  <2>1. /\ disk' = [disk EXCEPT ![path[t]] = size[t]] /\ pc'[t] = "account"
        /\ UNCHANGED <<setup, size, old, estimate>>
    BY <1>0, <1>1 DEF Write, Goto, job, bounds
  <2>2. estimate = Usage(disk) /\ old[t] = disk[path[t]]
    BY <1>1 DEF Exact, Write
  <2>3. Usage(disk') = Usage(disk) - old[t] + size[t]
    <3>1. Usage([disk EXCEPT ![path[t]] = size[t]]) = Usage(disk) - disk[path[t]] + size[t]
      BY <1>0, TypedFacts, UsageExcept
    <3> QED BY <2>1, <2>2, <3>1
  <2>4. estimate + size[t] - old[t] = Usage(disk') /\ estimate < Wrap \div 2
    BY <1>0, <2>2, <2>3, TypedFacts
  <2> QED BY <2>1, <2>4 DEF Exact
<1>2. CASE Account(t)
  <2>1. /\ estimate < Wrap \div 2 /\ estimate + size[t] - old[t] = Usage(disk)
        /\ UNCHANGED <<disk, estimate>>
    BY <1>2 DEF Exact, Account, files
  <2>2. estimate # Stale
    BY <1>0, <2>1, TypedFacts DEF Stale
  <2>3. pc'[t] = "add" /\ UNCHANGED <<size, old>>
    BY <1>0, <1>2, <2>2 DEF Account, Goto, job
  <2> QED BY <2>1, <2>3 DEF Exact
<1>3. CASE Add(t)
  <2>1. /\ estimate' = (estimate + size[t] - old[t]) % Wrap /\ pc'[t] = "check"
        /\ UNCHANGED disk
    BY <1>0, <1>3 DEF Add, Goto, files
  <2>2. estimate + size[t] - old[t] = Usage(disk)
    BY <1>3 DEF Exact, Add
  <2>3. Usage(disk) % Wrap = Usage(disk)
    <3> DEFINE u == Usage(disk)
    <3>1. u \in 0 .. Wrap - 1 /\ Wrap \in Nat
      BY TypedFacts
    <3> HIDE DEF u
    <3>2. u % Wrap = u
      BY <3>1
    <3> QED BY <3>2 DEF u
  <2> QED BY <2>1, <2>2, <2>3 DEF Exact
<1>4. CASE Check(t)
  <2>1. estimate = Usage(disk) /\ UNCHANGED <<setup, disk, estimate>>
    BY <1>4 DEF Exact, Check, files, bounds
  <2>2. estimate # Stale
    BY <2>1, TypedFacts
  <2>3. pc'[t] = IF estimate <= setup.maxBytes THEN "idle" ELSE "lock"
    BY <1>0, <1>4, <2>2 DEF Check, Goto
  <2> QED BY <2>1, <2>3 DEF Exact, Within
<1>5. CASE FirstWalk(t) \/ FirstStore(t)
  BY <1>5 DEF Exact, FirstWalk, FirstStore, Walk, StoreWalk
<1>6. CASE Lock(t)
  <2>1. pc'[t] = "store" /\ measured'[t] = Usage(disk) /\ UNCHANGED <<disk, estimate>> /\ estimate = Usage(disk)
    BY <1>0, <1>6 DEF Exact, Lock, Walk, Goto, files
  <2> QED BY <2>1 DEF Exact
<1>7. CASE Store(t)
  <2>1. /\ estimate' = Usage(disk) /\ UNCHANGED <<setup, disk>>
        /\ pc'[t] = IF Usage(disk) <= setup.maxBytes THEN "idle" ELSE "prune"
    BY <1>0, <1>7 DEF Exact, Store, StoreWalk, Goto, files, bounds
  <2> QED BY <2>1 DEF Exact, Within
<1>8. CASE Prune(t)
  <2>1. Usage(disk') <= LowWater \/ Bytes(disk', Payloads) = 0
    BY <1>0, <1>8, TypedFacts, LowWaterWithin, PrunedOf DEF Prune, Typed
  <2>2. Usage(disk') \in Nat /\ LowWater \in Nat /\ LowWater <= setup.maxBytes /\ UNCHANGED setup
    <3>1. disk' \in [Paths -> Held(setup)]
      BY <1>8, TypedFacts, LowWaterWithin, PrunedOf DEF Prune, Typed
    <3> QED BY <1>8, <3>1, TypedFacts, UsageHalf, UsageNat, LowWaterWithin DEF Prune, bounds
  <2>3. Within'
    BY <1>0, <2>1, <2>2 DEF Within
  <2>4. pc'[t] = "remeasure"
    BY <1>0, <1>8 DEF Prune, Goto
  <2> QED BY <2>3, <2>4 DEF Exact
<1>9. CASE Remeasure(t)
  <2>1. pc'[t] = "restore" /\ measured'[t] = Usage(disk) /\ UNCHANGED <<setup, disk>> /\ Within
    BY <1>0, <1>9 DEF Exact, Remeasure, Walk, Goto, files, bounds
  <2> QED BY <2>1 DEF Exact, Within
<1>10. CASE Restore(t)
  <2>1. pc'[t] = "idle" /\ estimate' = Usage(disk) /\ UNCHANGED <<setup, disk>> /\ Within
    BY <1>0, <1>10 DEF Exact, Restore, StoreWalk, Goto, files, bounds
  <2> QED BY <2>1 DEF Exact, Within
<1> QED
  BY <1>1, <1>2, <1>3, <1>4, <1>5, <1>6, <1>7, <1>8, <1>9, <1>10 DEF Continue

\* So does every other step, as nobody else writes.
LEMMA ExactNext == Typed /\ Typed' /\ ExactAlone /\ [Next]_vars => ExactAlone'
<1> SUFFICES ASSUME Typed, Typed', ExactAlone, [Next]_vars, Alone' PROVE \A t \in setup'.threads : Exact(t)'
  BY DEF ExactAlone
<1>1. UNCHANGED setup /\ Alone
  <2>1. UNCHANGED setup
    BY DEF Next, vars, Begin, Continue, Write, Account, Add, Check, FirstWalk, FirstStore, Lock, Store, Prune,
           Remeasure, Restore, Walk, StoreWalk, Reopen, Maintenance, Promote, OtherProcess, bounds
  <2> QED BY <2>1 DEF Alone
<1>2. PICK w \in Threads : setup.threads = {w}
  BY <1>1, OnlyOne
<1>3. Exact(w)
  BY <1>1, <1>2 DEF ExactAlone
<1>4. \A u \in Threads \ {w} : pc[u] = "idle"
  BY <1>2 DEF Typed, ThreadsTyped
<1> SUFFICES Exact(w)'
  BY <1>1, <1>2
<1>5. ASSUME NEW p \in setup.paths, NEW n \in setup.sizes, Begin(w, p, n) PROVE Exact(w)'
  <2>1. /\ pc'[w] = "write" /\ path'[w] = p /\ old'[w] = disk[p] /\ UNCHANGED <<disk, estimate>>
        /\ estimate = Usage(disk)
    BY <1>3, <1>5 DEF Typed, ThreadsTyped, Begin, Goto, Exact, files
  <2> QED BY <2>1 DEF Exact
<1>6. ASSUME Reopen PROVE Exact(w)'
  <2>1. pc'[w] = "check" /\ estimate' = Usage(disk')
    BY <1>2, <1>6, ReopenTyped DEF Reopen, Opened
  <2> QED BY <2>1 DEF Exact
<1>7. ASSUME Maintenance PROVE Exact(w)'
  <2>1. pc'[w] = "idle" /\ estimate' = Usage(disk') /\ Within'
    BY <1>1, <1>7, MaintenanceTyped DEF Maintenance, Quiet, Alone
  <2> QED BY <2>1 DEF Exact
<1>8. ASSUME NEW p \in Payloads, Promote(p) PROVE Exact(w)'
  BY <1>3, <1>8 DEF Promote, Exact, Within, job, bounds
<1>9. CASE UNCHANGED vars
  BY <1>3, <1>9 DEF vars, Exact, Within
<1>10. ~setup.shared
  BY <1>1 DEF Alone
<1> QED
  BY <1>1, <1>2, <1>3, <1>5, <1>6, <1>7, <1>8, <1>9, <1>10, ContinueExact DEF Next, OtherProcess

-----------------------------------------------------------------------------
(* The theorems.                                                            *)

LEMMA InvInit == Init => IInv
<1> SUFFICES ASSUME Init PROVE IInv
  OBVIOUS
<1>1. Typed
  BY TypedInit
<1>2. Heals
  BY <1>1, TypedFacts DEF Heals, Init
<1>3. ExactAlone
  <2> SUFFICES ASSUME Alone, NEW t \in setup.threads PROVE Exact(t)
    BY DEF ExactAlone
  <2>1. setup.threads = {t} /\ t \in Threads
    BY <1>1, OnlyOne
  <2>2. pc[t] = "check" /\ estimate = Usage(disk)
    BY <2>1 DEF Init, Opened
  <2> QED BY <2>2 DEF Exact
<1> QED
  BY <1>1, <1>2, <1>3 DEF IInv

LEMMA InvNext == IInv /\ [Next]_vars => IInv'
  BY TypedNext, HealsNext, ExactNext DEF IInv

\* The program never leaves the inductive invariant.
THEOREM AlwaysInv == Spec => []IInv
  BY InvInit, InvNext, PTL DEF Spec

\* Every variable keeps its type, and the order of eviction lists every payload
\* on disk, once (the sort of prune_stale_entries over what it has walked).
THEOREM AlwaysTyped == Spec => []TypeOK
<1>1. IInv => TypeOK
  <2> SUFFICES ASSUME IInv PROVE TypeOK
    OBVIOUS
  <2>1. Typed
    BY DEF IInv
  <2>2. Len(recency) = Cardinality(ToSet(recency))
    BY <2>1, OrderedLength DEF Typed, FilesTyped
  <2>3. old \in [Threads -> Nat] /\ measured \in [Threads -> Nat]
    BY <2>1, TypedFacts DEF Typed, ThreadsTyped
  <2> QED
    BY <2>1, <2>2, <2>3, TypedFacts DEF Typed, FilesTyped, CountersTyped, ThreadsTyped, Ordered, TypeOK, Labels
<1> QED
  BY <1>1, AlwaysInv, PTL

\* What account_disk_write adds keeps the counter equal to what a walk would
\* count, for one writer that nothing fails and that no other process disturbs.
THEOREM AlwaysEstimateExact == Spec => []EstimateExact
<1>1. IInv => EstimateExact
  <2> SUFFICES ASSUME IInv, Alone, Quiet PROVE estimate = Usage(disk)
    BY DEF EstimateExact
  <2>1. PICK w \in Threads : setup.threads = {w}
    BY OnlyOne DEF IInv
  <2> QED BY <2>1 DEF IInv, ExactAlone, Exact, Quiet
<1> QED
  BY <1>1, AlwaysInv, PTL

\* Between its writes that writer's cache is within the budget, or there is no
\* payload left to evict (enforce_size_budget_after_write, prune_stale_entries).
THEOREM AlwaysBudgetHonoured == Spec => []BudgetHonoured
<1>1. IInv => BudgetHonoured
  <2> SUFFICES ASSUME IInv, Alone, Quiet PROVE Within
    BY DEF BudgetHonoured, WithinBudget, Within
  <2>1. PICK w \in Threads : setup.threads = {w}
    BY OnlyOne DEF IInv
  <2> QED BY <2>1 DEF IInv, ExactAlone, Exact, Quiet
<1> QED
  BY <1>1, AlwaysInv, PTL

\* However many threads and processes write, and whatever fails, the unsigned
\* counter is not left wrapped around when the writes are done.
THEOREM AlwaysUnderflowHeals == Spec => []UnderflowHeals
<1>1. IInv => UnderflowHeals
  BY DEF IInv, Heals, UnderflowHeals, Quiet
<1> QED
  BY <1>1, AlwaysInv, PTL
=============================================================================
