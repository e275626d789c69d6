---------------------------- MODULE DoctorProofs -----------------------------
(***************************************************************************)
(* Theorems about DoctorEngine, for any collectors, rules, facts, targets  *)
(* and failures.  What the operations of the fact store preserve comes     *)
(* first: its indexes are exact and its identifiers unique after every     *)
(* insertion, append and compaction.                                       *)
(***************************************************************************)
EXTENDS DoctorEngine, Integers, Functions, SequenceTheorems, FiniteSetTheorems, WellFoundedInduction, TLAPS

\* A set of naturals has a least element.
LEMMA Least ==
  ASSUME NEW N \in SUBSET Nat, N # {}
  PROVE  \E n \in N : \A m \in N : n <= m
<1>1. IsWellFoundedOn({p \in Nat \X Nat : p[1] < p[2]}, Nat)
  BY NatLessThanWellFounded DEF OpToRel
<1>2. PICK n \in N : \A m \in N : ~(<<m, n>> \in {p \in Nat \X Nat : p[1] < p[2]})
  BY <1>1, WFMin
<1>3. \A m \in N : ~(m < n)
  BY <1>2
<1> QED
  BY <1>3

\* Induction over the subsets of a finite set, the predicate a set of sets.
LEMMA SetInduction ==
  ASSUME NEW S, IsFiniteSet(S), NEW Good, {} \in Good,
         \A T \in SUBSET S : (T # {} /\ \A x \in T : T \ {x} \in Good) => T \in Good
  PROVE  \A T \in SUBSET S : T \in Good
<1> DEFINE Sizes == {n \in Nat : \E T \in SUBSET S : Cardinality(T) = n /\ T \notin Good}
<1>1. \A T \in SUBSET S : IsFiniteSet(T) /\ Cardinality(T) \in Nat
  BY FS_Subset, FS_CardinalityType
<1>2. SUFFICES ASSUME Sizes # {} PROVE FALSE
  BY <1>1
<1>3. PICK n \in Sizes : \A m \in Sizes : n <= m
  <2>1. Sizes \in SUBSET Nat
    OBVIOUS
  <2> HIDE DEF Sizes
  <2> QED BY <2>1, <1>2, Least
<1>4. PICK T \in SUBSET S : Cardinality(T) = n /\ T \notin Good
  BY <1>3
<1>5. PICK x \in T : T \ {x} \notin Good
  BY <1>4
<1>6. Cardinality(T \ {x}) = n - 1 /\ n - 1 \in Nat
  BY <1>1, <1>4, FS_RemoveElement
<1> QED
  BY <1>3, <1>5, <1>6

-----------------------------------------------------------------------------
(* The fact store.                                                          *)

FactFields == {"id", "at", "kind", "subject", "about", "is"}
IsFact(f)  == f = [x \in FactFields |-> f[x]] /\ f.id \in Nat

StoreOK(s) == /\ IsFiniteSet(s.facts) /\ s.next \in Nat
              /\ \A f \in s.facts : IsFact(f)
              /\ Exact(s)

Ids(s) == {f.id : f \in s.facts}

LEMMA EmptyStoreOK ==
  ASSUME NEW n \in Nat
  PROVE  StoreOK(EmptyStore(n))
BY FS_EmptySet DEF StoreOK, EmptyStore, Exact, KindPostings, SubjectPostings, IdPostings

\* Emission pushes one fact with a fresh identifier at the next place.
LEMMA EmitOK ==
  ASSUME NEW s, StoreOK(s), NEW o
  PROVE  /\ StoreOK(Emit(s, o))
         /\ Emit(s, o).next = s.next + 1
         /\ Ids(Emit(s, o)) = Ids(s) \union {s.next}
<1> DEFINE f == Fact(o, s.next, Size(s) + 1)
           e == Emit(s, o)
<1>1. /\ f = [x \in FactFields |-> f[x]] /\ f.id = s.next /\ f.at = Size(s) + 1
  BY DEF Fact, FactFields
<1>2. /\ e.facts = s.facts \union {f} /\ e.next = s.next + 1
      /\ e.kindIndex = s.kindIndex \union {<<f.kind, f.at>>}
      /\ e.subjectIndex = s.subjectIndex \union {<<f.subject, f.at>>}
      /\ e.idIndex = {p \in s.idIndex : p[1] # f.id} \union {<<f.id, f.at>>}
  BY DEF Emit
<1> HIDE DEF f, e
<1>3. Size(s) \in Nat
  BY FS_CardinalityType DEF StoreOK, Size
<1>4. \A g \in s.facts : /\ IsFact(g) /\ g.id \in Nat /\ g.id < s.next
                         /\ g.at \in 1 .. Size(s) /\ g.id # f.id /\ g.at # f.at
  BY <1>1, <1>3 DEF StoreOK, Exact, IsFact
<1>5. IsFiniteSet(e.facts) /\ Size(e) = Size(s) + 1
  <2>1. f \notin s.facts
    BY <1>4
  <2>2. IsFiniteSet(s.facts)
    BY DEF StoreOK
  <2>3. IsFiniteSet(s.facts \union {f}) /\ Cardinality(s.facts \union {f}) = Cardinality(s.facts) + 1
    BY <2>1, <2>2, FS_AddElement
  <2> QED
    BY <1>2, <2>3 DEF Size
<1>6. \A g \in e.facts : IsFact(g) /\ g.at \in 1 .. Size(e) /\ g.id < e.next
  BY <1>1, <1>2, <1>3, <1>4, <1>5 DEF StoreOK, IsFact
<1>7. \A g, h \in e.facts : g.at = h.at \/ g.id = h.id => g = h
  BY <1>2, <1>4 DEF StoreOK, Exact
<1>8. /\ e.kindIndex = KindPostings(e.facts) /\ e.subjectIndex = SubjectPostings(e.facts)
  BY <1>2 DEF StoreOK, Exact, KindPostings, SubjectPostings
<1>9. e.idIndex = IdPostings(e.facts)
  <2>1. \A p \in s.idIndex : p[1] # f.id
    BY <1>4 DEF StoreOK, Exact, IdPostings
  <2> QED
    BY <1>2, <2>1 DEF StoreOK, Exact, IdPostings
<1>10. e.next \in Nat
  BY <1>2 DEF StoreOK
<1>11. Ids(e) = Ids(s) \union {s.next}
  BY <1>1, <1>2 DEF Ids
<1> QED
  BY <1>2, <1>5, <1>6, <1>7, <1>8, <1>9, <1>10, <1>11 DEF StoreOK, Exact, e

\* A set of facts that is moved keeps its size.
LEMMA MovedSize ==
  ASSUME NEW F, IsFiniteSet(F), NEW T, NEW h \in [F -> T],
         \A t \in T : \E f \in F : h[f] = t,
         \A f, g \in F : h[f] = h[g] => f = g
  PROVE  IsFiniteSet(T) /\ Cardinality(T) = Cardinality(F)
<1>1. h \in Surjection(F, T)
  BY DEF Surjection
<1>2. h \in Injection(F, T)
  BY DEF Injection, IsInjective
<1> QED
  BY <1>1, <1>2, FS_Surjection

\* A fact at another place.
LEMMA PlacedFact ==
  ASSUME NEW f, IsFact(f), NEW p
  PROVE  LET g == [f EXCEPT !.at = p]
         IN  /\ IsFact(g) /\ g.at = p /\ g.id = f.id
             /\ g.kind = f.kind /\ g.subject = f.subject /\ g.about = f.about /\ g.is = f.is
BY DEF IsFact, FactFields

\* What a staging store holds is newer than what the store holds.
Staged(s, staging) == /\ s.next <= staging.next
                     /\ \A f \in staging.facts : s.next <= f.id

LEMMA AppendOK ==
  ASSUME NEW s, StoreOK(s), NEW staging, StoreOK(staging), Staged(s, staging)
  PROVE  /\ StoreOK(AppendStaged(s, staging))
         /\ Ids(AppendStaged(s, staging)) = Ids(s) \union Ids(staging)
<1> DEFINE move == [f \in staging.facts |-> [f EXCEPT !.at = f.at + Size(s)]]
           moved == {[f EXCEPT !.at = @ + Size(s)] : f \in staging.facts}
           e == AppendStaged(s, staging)
<1>1. Size(s) \in Nat /\ Size(staging) \in Nat
  BY FS_CardinalityType DEF StoreOK, Size
<1>2. \A f \in staging.facts :
        /\ IsFact(move[f]) /\ move[f].at = f.at + Size(s) /\ move[f].id = f.id
        /\ f.id \in Nat /\ f.id < staging.next /\ f.at \in 1 .. Size(staging) /\ s.next <= f.id
  BY PlacedFact DEF StoreOK, Exact, Staged, IsFact
<1>3. moved = {move[f] : f \in staging.facts}
  OBVIOUS
<1>4. /\ e.facts = s.facts \union moved
      /\ e.next = (IF staging.next > s.next THEN staging.next ELSE s.next)
      /\ e.kindIndex = s.kindIndex \union KindPostings(moved)
      /\ e.subjectIndex = s.subjectIndex \union SubjectPostings(moved)
      /\ e.idIndex = {p \in s.idIndex : \A f \in moved : f.id # p[1]} \union IdPostings(moved)
  BY DEF AppendStaged
<1>5. DOMAIN move = staging.facts
  OBVIOUS
<1> HIDE DEF move, moved, e
<1>6. IsFiniteSet(moved) /\ Cardinality(moved) = Size(staging)
  <2>1. \A f, g \in staging.facts : move[f] = move[g] => f = g
    BY <1>2 DEF StoreOK, Exact
  <2>2. move \in [staging.facts -> moved]
    BY <1>3, <1>5 DEF move
  <2> QED
    BY <1>3, <2>1, <2>2, MovedSize DEF StoreOK, Size
<1>7. \A g \in moved : /\ IsFact(g) /\ s.next <= g.id /\ g.id < staging.next /\ g.id \in Nat
                       /\ g.at \in (Size(s) + 1) .. (Size(s) + Size(staging))
  BY <1>1, <1>2, <1>3
<1>8. \A g \in s.facts : /\ IsFact(g) /\ g.id \in Nat /\ g.id < s.next /\ g.at \in 1 .. Size(s)
  BY DEF StoreOK, Exact, IsFact
<1>9. s.facts \intersect moved = {}
  BY <1>1, <1>7, <1>8 DEF StoreOK
<1>10. IsFiniteSet(e.facts) /\ Size(e) = Size(s) + Size(staging)
  <2>1. IsFiniteSet(s.facts)
    BY DEF StoreOK
  <2>2. /\ IsFiniteSet(s.facts \union moved)
        /\ Cardinality(s.facts \union moved)
             = Cardinality(s.facts) + Cardinality(moved) - Cardinality(s.facts \intersect moved)
    BY <1>6, <2>1, FS_Union
  <2>3. Cardinality(s.facts \intersect moved) = 0
    BY <1>9, FS_EmptySet
  <2> QED
    BY <1>1, <1>4, <1>6, <2>2, <2>3 DEF Size
<1>11. s.next \in Nat /\ staging.next \in Nat /\ e.next \in Nat /\ s.next <= e.next /\ staging.next <= e.next
  BY <1>4 DEF StoreOK
<1>12. \A g \in e.facts : IsFact(g) /\ g.at \in 1 .. Size(e) /\ g.id < e.next
  BY <1>1, <1>4, <1>7, <1>8, <1>10, <1>11
<1>13. \A g, h \in moved : g.at = h.at \/ g.id = h.id => g = h
  <2>1. \A f, k \in staging.facts : f.at = k.at \/ f.id = k.id => f = k
    BY DEF StoreOK, Exact
  <2>2. \A f \in staging.facts : f.at \in Nat
    BY <1>1, <1>2
  <2> QED
    BY <1>1, <1>2, <1>3, <2>1, <2>2
<1>14. \A g \in s.facts, h \in moved : g.at # h.at /\ g.id # h.id
  BY <1>1, <1>7, <1>8 DEF StoreOK
<1>15. \A g, h \in e.facts : g.at = h.at \/ g.id = h.id => g = h
  BY <1>4, <1>13, <1>14 DEF StoreOK, Exact
<1>16. e.kindIndex = KindPostings(e.facts) /\ e.subjectIndex = SubjectPostings(e.facts)
  BY <1>4 DEF StoreOK, Exact, KindPostings, SubjectPostings
<1>17. e.idIndex = IdPostings(e.facts)
  <2>1. \A p \in s.idIndex : \A f \in moved : f.id # p[1]
    BY <1>14 DEF StoreOK, Exact, IdPostings
  <2> QED
    BY <1>4, <2>1 DEF StoreOK, Exact, IdPostings
<1>18. Ids(e) = Ids(s) \union Ids(staging)
  <2>1. {g.id : g \in moved} = Ids(staging)
    BY <1>2, <1>3 DEF Ids
  <2> QED
    BY <1>4, <2>1 DEF Ids
<1> QED
  BY <1>10, <1>11, <1>12, <1>15, <1>16, <1>17, <1>18 DEF StoreOK, Exact, e

-----------------------------------------------------------------------------
(* Compaction.                                                              *)

\* The places that closing the gaps assigns: distinct, and none beyond the end.
LEMMA ClosedPlaces ==
  ASSUME NEW K, IsFiniteSet(K), \A f \in K : f.at \in Nat,
         \A f, g \in K : f.at = g.at => f = g
  PROVE  LET Upto(f) == {g \in K : g.at <= f.at}
         IN  /\ \A f \in K : Cardinality(Upto(f)) \in 1 .. Cardinality(K)
             /\ \A f, g \in K : Cardinality(Upto(f)) = Cardinality(Upto(g)) => f = g
<1> DEFINE Upto(f) == {g \in K : g.at <= f.at}
<1>1. Cardinality(K) \in Nat
  BY FS_CardinalityType
<1>2. ASSUME NEW f \in K
      PROVE  /\ IsFiniteSet(Upto(f)) /\ f \in Upto(f)
             /\ Cardinality(Upto(f)) \in 1 .. Cardinality(K)
  <2>1. Upto(f) \in SUBSET K /\ f \in Upto(f)
    OBVIOUS
  <2> HIDE DEF Upto
  <2>2. IsFiniteSet(Upto(f)) /\ Cardinality(Upto(f)) <= Cardinality(K)
    BY <2>1, FS_Subset
  <2>3. Cardinality(Upto(f)) \in Nat /\ Cardinality(Upto(f)) # 0
    BY <2>1, <2>2, FS_CardinalityType, FS_EmptySet
  <2> QED
    BY <1>1, <2>1, <2>2, <2>3
<1>3. ASSUME NEW f \in K, NEW g \in K, f.at < g.at
      PROVE  Cardinality(Upto(f)) # Cardinality(Upto(g))
  <2>1. Upto(f) \in SUBSET Upto(g) /\ g \in Upto(g) /\ g \notin Upto(f)
    BY <1>3
  <2>2. IsFiniteSet(Upto(g))
    BY <1>2
  <2> HIDE DEF Upto
  <2> QED
    BY <2>1, <2>2, FS_Subset
<1>4. ASSUME NEW f \in K, NEW g \in K, Cardinality(Upto(f)) = Cardinality(Upto(g))
      PROVE  f = g
  <2>1. ~(f.at < g.at) /\ ~(g.at < f.at)
    BY <1>3, <1>4
  <2> HIDE DEF Upto
  <2> QED
    BY <2>1
<1> QED
  BY <1>2, <1>4

\* Compaction keeps what is to be kept, under its identifier, and rebuilds
\* exact indexes.
LEMMA CompactOK ==
  ASSUME NEW s, StoreOK(s), NEW keep
  PROVE  /\ StoreOK(Compact(s, keep))
         /\ \A id \in Ids(s) : id \in keep => id \in Ids(Compact(s, keep))
         /\ Ids(Compact(s, keep)) \subseteq Ids(s)
<1> DEFINE K == Retained(s, keep)
           Upto(f) == {g \in K : g.at <= f.at}
           close == [f \in K |-> [f EXCEPT !.at = Cardinality(Upto(f))]]
           e == Compact(s, keep)
<1>1. CASE Size(s) <= MaxFacts \/ K = s.facts
  <2>1. e = s
    BY <1>1 DEF Compact
  <2> QED
    BY <2>1
<1>2. CASE ~(Size(s) <= MaxFacts \/ K = s.facts)
  <2>1. /\ e.facts = Closed(K) /\ e.next = s.next /\ e.kindIndex = KindPostings(e.facts)
        /\ e.subjectIndex = SubjectPostings(e.facts) /\ e.idIndex = IdPostings(e.facts)
    BY <1>2 DEF Compact
  <2>2. Closed(K) = {close[f] : f \in K} /\ DOMAIN close = K
    BY DEF Closed
  <2>3. K \in SUBSET s.facts /\ \A f \in s.facts : f.id \in keep => f \in K
    BY DEF Retained
  <2>4. IsFiniteSet(K)
    BY <2>3, FS_Subset DEF StoreOK
  <2>5. Size(s) \in Nat
    BY FS_CardinalityType DEF StoreOK, Size
  <2>6. \A f \in K : IsFact(f) /\ f.id \in Nat /\ f.id < s.next /\ f.at \in Nat
    BY <2>3, <2>5 DEF StoreOK, Exact, IsFact
  <2>7. \A f, g \in K : f.at = g.at \/ f.id = g.id => f = g
    BY <2>3 DEF StoreOK, Exact
  <2>8. /\ \A f \in K : Cardinality(Upto(f)) \in 1 .. Cardinality(K)
        /\ \A f, g \in K : Cardinality(Upto(f)) = Cardinality(Upto(g)) => f = g
    <3> HIDE DEF K
    <3> QED
      BY <2>4, <2>6, <2>7, ClosedPlaces
  <2>9. \A f \in K : /\ IsFact(close[f]) /\ close[f].at = Cardinality(Upto(f))
                     /\ close[f].id = f.id
    <3> TAKE f \in K
    <3>1. close[f] = [f EXCEPT !.at = Cardinality(Upto(f))]
      OBVIOUS
    <3>2. IsFact(f)
      BY <2>6
    <3> HIDE DEF K, Upto, close
    <3> QED
      BY <3>1, <3>2, PlacedFact
  <2> HIDE DEF K, Upto, close, e
  <2>10. \A f, g \in K : close[f].at = close[g].at \/ close[f].id = close[g].id => f = g
    BY <2>7, <2>8, <2>9
  <2>11. IsFiniteSet(Closed(K)) /\ Cardinality(Closed(K)) = Cardinality(K)
    <3>1. close \in [K -> Closed(K)]
      BY <2>2 DEF close
    <3>2. \A f, g \in K : close[f] = close[g] => f = g
      BY <2>10
    <3> QED
      BY <2>2, <2>4, <3>1, <3>2, MovedSize
  <2>12. \A g \in e.facts : IsFact(g) /\ g.at \in 1 .. Size(e) /\ g.id < e.next
    BY <2>1, <2>2, <2>6, <2>8, <2>9, <2>11 DEF Size
  <2>13. \A g, h \in e.facts : g.at = h.at \/ g.id = h.id => g = h
    BY <2>1, <2>2, <2>10
  <2>14. StoreOK(e)
    BY <2>1, <2>11, <2>12, <2>13 DEF StoreOK, Exact
  <2>15. Ids(e) = {f.id : f \in K}
    BY <2>1, <2>2, <2>9 DEF Ids
  <2> QED
    BY <2>3, <2>14, <2>15 DEF Ids, e
<1> QED
  BY <1>1, <1>2

\* An identifier resolves, through the index, to the one fact that has it.
LEMMA Resolves ==
  ASSUME NEW s, StoreOK(s), NEW id \in Ids(s)
  PROVE  \E x \in s.facts : Get(s, {id}) = {x} /\ x.id = id
<1>1. PICK x \in s.facts : x.id = id
  BY DEF Ids
<1>2. \A f \in s.facts : <<id, f.at>> \in s.idIndex <=> f = x
  BY <1>1 DEF StoreOK, Exact, IdPostings
<1> QED
  BY <1>1, <1>2 DEF Get

\* What an index lists under a kind is of that kind.
LEMMA KindIndexed ==
  ASSUME NEW s, StoreOK(s), NEW k
  PROVE  ByKind(s, k) = {f \in s.facts : f.kind = k}
BY DEF StoreOK, Exact, ByKind, KindPostings

-----------------------------------------------------------------------------
(* A finding is a record of these fields, and stays one.                    *)

Fields == {"of", "n", "suffix", "sev", "conf", "reqs", "cites", "tags", "vis", "disp",
           "cert", "blockers", "coverage", "trail"}

Shaped(f) == f = [x \in Fields |-> f[x]]

LEMMA NewShaped ==
  ASSUME NEW p, NEW n
  PROVE  Shaped(New(p, n)) /\ New(p, n).sev = p.sev
BY DEF New, Shaped, Fields

LEMMA ContractedShaped ==
  ASSUME NEW p, NEW n
  PROVE  Shaped(Contracted(p, n))
<1> DEFINE f   == New(p, n)
           sev == IF BadProof(p) \/ Undeclarable(p) THEN MinOf(f.sev, Warn) ELSE f.sev
           tags == f.tags \union (IF BadProof(p) THEN {"rule-proof-contract-violation"} ELSE {})
                     \union (IF Undeclarable(p) THEN {"rule-coverage-contract-violation"} ELSE {})
<1>1. Shaped(f)
  BY NewShaped
<1>2. Contracted(p, n) = [f EXCEPT !.sev = sev, !.tags = tags]
  BY DEF Contracted
<1> HIDE DEF f, sev, tags
<1> QED
  BY <1>1, <1>2 DEF Shaped, Fields

\* What assessment makes of the fields that the contract is about.
LEMMA AssessFields ==
  ASSUME NEW s, NEW st, NEW t, NEW inc, NEW f, Shaped(f)
  PROVE  LET g       == Assess(s, st, t, inc, f)
             blocked == Blockers(s, st, t, inc, f) # {}
         IN  /\ Shaped(g)
             /\ g.of = f.of /\ g.reqs = f.reqs /\ g.cites = f.cites
             /\ g.sev = IF blocked /\ f.sev >= Error THEN Warn
                        ELSE IF f.sev = Fatal /\ "terminal-runtime" \notin f.reqs THEN Error
                        ELSE f.sev
             /\ ~(blocked /\ f.sev >= Error) => g.conf = f.conf
             /\ g.n = f.n
             /\ ~Refuted(f) => ~Refuted(g)
<1> DEFINE blockers == Blockers(s, st, t, inc, f)
           coverage == {Coverage(s, st, t, Region(s, f, r)) : r \in f.reqs}
           unended  == f.sev = Fatal /\ "terminal-runtime" \notin f.reqs
           gated    == blockers # {} /\ f.sev >= Error
           sev      == IF gated THEN Warn ELSE IF unended THEN Error ELSE f.sev
           conf     == IF gated THEN MinOf(f.conf, 65) ELSE f.conf
           disp     == IF unended \/ f.disp = "downgraded" THEN "downgraded"
                       ELSE IF blockers # {} THEN "abstained" ELSE "asserted"
           cert     == IF blockers = {} THEN Certainty(f)
                       ELSE IF "unavailable" \in coverage THEN "unavailable" ELSE "undecidable"
           tags     == IF blockers # {} THEN f.tags \union {"why-not-error"} ELSE f.tags
           trail    == f.trail \union (IF unended THEN {Change("fatal-requires-terminal-runtime", Fatal, Error)} ELSE {})
                         \union (IF gated THEN {Change("hard-error-gated", f.sev, Warn)} ELSE {})
           g        == Assess(s, st, t, inc, f)
<1>1. g = [f EXCEPT !.sev = sev, !.conf = conf, !.disp = disp, !.cert = cert,
                    !.blockers = blockers, !.coverage = coverage, !.tags = tags, !.trail = trail]
  BY DEF Assess
<1>2. Shaped(g) /\ g.of = f.of /\ g.reqs = f.reqs /\ g.cites = f.cites /\ g.sev = sev /\ g.conf = conf
      /\ g.n = f.n /\ g.trail = trail
  <2> HIDE DEF sev, conf, disp, cert, blockers, coverage, tags, trail, g
  <2> QED
    BY <1>1 DEF Shaped, Fields
<1>3. ~Refuted(f) => \A c \in trail : c.code # "cross-layer-contradiction"
  BY DEF Refuted, Change
<1> HIDE DEF g, trail
<1>4. ~Refuted(f) => ~Refuted(g)
  BY <1>2, <1>3 DEF Refuted
<1> QED
  BY <1>2, <1>4 DEF g

LEMMA InvalidatedFields ==
  ASSUME NEW f, Shaped(f), NEW R
  PROVE  LET g == Invalidated(f, R)
         IN  /\ Shaped(g) /\ g.of = f.of /\ g.cites = f.cites /\ g.n = f.n
             /\ g.sev \in {Info, Note} /\ g.vis = "explain-only"
<1> DEFINE low    == IF f.of.conclusion = "dependency-unused" THEN Info ELSE Note
           conf   == MinOf(f.conf, 20)
           tags   == f.tags \union {"runtime-contradicted"}
           trail  == f.trail \union {Refutation(f, low, R)}
           suffix == IF f.of.conclusion = "loader-mismatch" THEN Append(f.suffix, "superseded") ELSE f.suffix
           g      == Invalidated(f, R)
<1>1. g = [f EXCEPT !.sev = low, !.conf = conf, !.vis = "explain-only", !.disp = "abstained",
                    !.cert = "undecidable", !.tags = tags, !.trail = trail, !.suffix = suffix]
  BY DEF Invalidated
<1>2. Shaped(g) /\ g.of = f.of /\ g.cites = f.cites /\ g.n = f.n /\ g.sev = low /\ g.vis = "explain-only"
  <2> HIDE DEF low, conf, tags, trail, suffix, g
  <2> QED
    BY <1>1 DEF Shaped, Fields
<1> HIDE DEF g
<1> QED
  BY <1>2 DEF g

LEMMA ReconcileFields ==
  ASSUME NEW s, NEW f, Shaped(f)
  PROVE  LET g == Reconcile(s, f)
         IN  /\ Shaped(g) /\ g.of = f.of /\ g.cites = f.cites /\ g.n = f.n
             /\ Refuters(s, f) = {} => g = f
             /\ Refuters(s, f) # {} => g.sev \in {Info, Note} /\ g.vis = "explain-only"
BY InvalidatedFields DEF Reconcile

-----------------------------------------------------------------------------
(* HardErrorEarned: what a complete coverage means, and why nothing that    *)
(* falls short of the contract keeps its severity.                          *)

LEMMA CompleteRegion ==
  ASSUME NEW region, RegionCoverage(status, region) = "complete"
  PROVE  ~Uncovered(region)
BY DEF RegionCoverage, Uncovered

LEMMA MaterializedCoverage ==
  ASSUME NEW req \in {"local-artifact", "active-descriptor"},
         Coverage(store, status, target, req) = "complete"
  PROVE  ~Uncovered("metadata")
<1>1. RegionCoverage(status, "metadata") = "complete"
  BY DEF Coverage, Unless
<1> QED
  BY <1>1, CompleteRegion

LEMMA ResourceCoverage ==
  ASSUME Coverage(store, status, target, "relevant-resources") = "complete"
  PROVE  ~Uncovered("datapacks")
<1>1. RegionCoverage(status, "datapacks") = "complete"
  BY DEF Coverage
<1> QED
  BY <1>1, CompleteRegion

\* A citation that resolves is a fact of the store.
LEMMA FactsOfStore ==
  ASSUME NEW s, NEW f, NEW k, NEW x
  PROVE  Cited(s, f) \subseteq s.facts /\ ByKindSubject(s, k, x) \subseteq ByKind(s, k)
         /\ ByKind(s, k) \subseteq s.facts
BY DEF Cited, Get, ByKindSubject, ByKind

\* An anchor found through the indexes is an anchor.
AnchorsIndexed == \A event : \A x \in ByKindSubject(store, "crash-anchor", event) : x.kind = "crash-anchor"

\* The body of HardErrorEarned.
Earned(f) ==
  f.sev >= Error =>
    /\ f.of.proof \in Strong /\ f.conf >= 90 /\ f.reqs # {}
    /\ f.reqs \intersect {"local-artifact", "active-descriptor"} # {} => ~Uncovered("metadata")
    /\ "relevant-resources" \in f.reqs => ~Uncovered("datapacks") /\ ~incremental
    /\ "active-descriptor" \in f.reqs => \A x \in Cited(store, f) : "inactive" \notin x.is
    /\ f.sev = Fatal => \E x \in store.facts : x.kind = "crash-anchor"

LEMMA AssessEarned ==
  ASSUME NEW f, Shaped(f), AnchorsIndexed
  PROVE  Earned(Assess(store, status, target, incremental, f))
<1> DEFINE g == Assess(store, status, target, incremental, f)
           B == Blockers(store, status, target, incremental, f)
<1>1. /\ g.of = f.of /\ g.reqs = f.reqs /\ g.cites = f.cites
      /\ g.sev = IF B # {} /\ f.sev >= Error THEN Warn
                 ELSE IF f.sev = Fatal /\ "terminal-runtime" \notin f.reqs THEN Error
                 ELSE f.sev
      /\ ~(B # {} /\ f.sev >= Error) => g.conf = f.conf
  BY AssessFields
<1> HIDE DEF g
<1> SUFFICES ASSUME g.sev >= Error PROVE Earned(g)
  BY DEF Earned, g
<1>2. /\ f.sev >= Error /\ B = {} /\ g.conf = f.conf
      /\ g.sev = Fatal => "terminal-runtime" \in f.reqs
  BY <1>1 DEF Warn, Error, Fatal
<1>3. f.of.proof \in Strong /\ f.conf >= 90 /\ f.reqs # {}
  BY <1>2 DEF Blockers, Certainty
<1>4. \A r \in f.reqs : Satisfied(store, f, r, Complete(store, status, target, f, r), incremental)
  BY <1>2 DEF Blockers
<1> HIDE DEF B
<1>5. \A r \in f.reqs \intersect {"local-artifact", "active-descriptor", "relevant-resources"} :
        /\ Coverage(store, status, target, r) = "complete"
        /\ r = "relevant-resources" => ~incremental
        /\ r = "active-descriptor" => ~Undecidable(store, f)
  <2> TAKE r \in f.reqs \intersect {"local-artifact", "active-descriptor", "relevant-resources"}
  <2>1. Satisfied(store, f, r, Complete(store, status, target, f, r), incremental)
    BY <1>4
  <2>2. CASE r = "local-artifact"
    BY <2>1, <2>2 DEF Satisfied, Complete, Region
  <2>3. CASE r = "active-descriptor"
    BY <2>1, <2>3 DEF Satisfied, Complete, Region
  <2>4. CASE r = "relevant-resources"
    BY <2>1, <2>4 DEF Satisfied, Complete, Region
  <2> QED
    BY <2>2, <2>3, <2>4
<1>6. f.reqs \intersect {"local-artifact", "active-descriptor"} # {} => ~Uncovered("metadata")
  BY <1>5, MaterializedCoverage
<1>7. "relevant-resources" \in f.reqs => ~Uncovered("datapacks") /\ ~incremental
  BY <1>5, ResourceCoverage
<1>8. "active-descriptor" \in f.reqs => \A x \in Cited(store, f) : "inactive" \notin x.is
  BY <1>5 DEF Undecidable
<1>9. "terminal-runtime" \in f.reqs => \E x \in store.facts : x.kind = "crash-anchor"
  <2> HAVE "terminal-runtime" \in f.reqs
  <2>1. Terminal(store, f)
    BY <1>4 DEF Satisfied
  <2> QED
    BY <2>1, FactsOfStore DEF Terminal, AnchorsIndexed
<1>10. Cited(store, g) = Cited(store, f)
  BY <1>1 DEF Cited
<1> QED
  BY <1>1, <1>2, <1>3, <1>6, <1>7, <1>8, <1>9, <1>10 DEF Earned

-----------------------------------------------------------------------------
(* Merging and triage: they lose no citation's fact and raise nothing that  *)
(* was refuted.                                                             *)

Subdued(f) == Refuted(f) => f.sev <= Note /\ f.vis # "default"

Sound(f, I) == Shaped(f) /\ f.cites \subseteq I /\ Subdued(f)

Graded(f) == f.sev \in Severity /\ f.n \in Nat

LEMMA RenamedSound ==
  ASSUME NEW F, NEW I, \A f \in F : Sound(f, I) /\ Graded(f)
  PROVE  \A f \in Renamed(F) : Sound(f, I) /\ Graded(f)
<1> SUFFICES ASSUME NEW f \in F, NEW x, Shaped(f), Sound(f, I), Graded(f)
             PROVE  LET g == [f EXCEPT !.suffix = x] IN Sound(g, I) /\ Graded(g)
  BY DEF Renamed, Sound
<1> DEFINE g == [f EXCEPT !.suffix = x]
<1>1. /\ Shaped(g) /\ g.cites = f.cites /\ g.sev = f.sev /\ g.vis = f.vis
      /\ g.trail = f.trail /\ g.n = f.n
  BY DEF Shaped, Fields
<1> HIDE DEF g
<1>2. Sound(g, I) /\ Graded(g)
  BY <1>1 DEF Sound, Subdued, Refuted, Graded
<1> QED
  BY <1>2 DEF g

LEMMA AbsorbingSound ==
  ASSUME NEW I, NEW w, NEW G, Sound(w, I), \A f \in G : Sound(f, I)
  PROVE  /\ Sound(Absorbing(w, G), I)
         /\ Graded(w) => Graded(Absorbing(w, G))
<1> DEFINE cites == UNION {f.cites : f \in G \union {w}}
           tags  == UNION {f.tags : f \in G \union {w}}
           reqs  == UNION {f.reqs : f \in G \union {w}}
           g     == [w EXCEPT !.cites = cites, !.tags = tags, !.reqs = reqs]
<1>1. cites \subseteq I
  BY DEF Sound
<1> HIDE DEF cites, tags, reqs
<1>2. /\ Shaped(g) /\ g.cites = cites /\ g.sev = w.sev /\ g.vis = w.vis
      /\ g.trail = w.trail /\ g.n = w.n
  BY DEF Sound, Shaped, Fields
<1> HIDE DEF g
<1>3. Sound(g, I) /\ (Graded(w) => Graded(g))
  BY <1>1, <1>2 DEF Sound, Subdued, Refuted, Graded
<1> QED
  BY <1>3 DEF g, cites, tags, reqs, Absorbing

\* Of findings with one identifier, one wins: the earliest of the most severe.
LEMMA WinnerIsOne ==
  ASSUME NEW G, G # {}, \A f \in G : Graded(f)
  PROVE  Winner(G) \in G
<1> DEFINE top == {f \in G : \A g \in G : g.sev <= f.sev}
<1>1. top # {}
  <2>1. \A f \in G : f.sev \in 1 .. 5
    BY DEF Graded, Severity, Info, Fatal
  <2>2. CASE \E f \in G : f.sev = 5
    BY <2>1, <2>2
  <2>3. CASE (\E f \in G : f.sev = 4) /\ \A f \in G : f.sev # 5
    BY <2>1, <2>3
  <2>4. CASE (\E f \in G : f.sev = 3) /\ \A f \in G : f.sev \notin {4, 5}
    BY <2>1, <2>4
  <2>5. CASE (\E f \in G : f.sev = 2) /\ \A f \in G : f.sev \notin {3, 4, 5}
    BY <2>1, <2>5
  <2>6. CASE \A f \in G : f.sev = 1
    BY <2>6
  <2> QED
    BY <2>1, <2>2, <2>3, <2>4, <2>5, <2>6
<1>2. \A f \in top : f \in G /\ f.n \in Nat
  BY DEF Graded
<1> HIDE DEF top
<1>3. \E f \in top : \A g \in top : f.n <= g.n
  <2> DEFINE N == {f.n : f \in top}
  <2>1. N \subseteq Nat /\ N # {}
    BY <1>1, <1>2
  <2> HIDE DEF N
  <2>2. PICK k \in N : \A j \in N : k <= j
    BY <2>1, Least
  <2> QED
    BY <2>1, <2>2 DEF N
<1>4. Earliest(top) \in top
  BY <1>3 DEF Earliest
<1> QED
  BY <1>2, <1>4 DEF Winner, top

LEMMA MergedSound ==
  ASSUME NEW F, NEW I, \A f \in F : Sound(f, I) /\ Graded(f)
  PROVE  \A f \in MergedById(F) : Sound(f, I) /\ Graded(f)
<1>1. \A f \in Renamed(F) : Sound(f, I) /\ Graded(f)
  BY RenamedSound
<1>2. ASSUME NEW f \in Renamed(F)
      PROVE  LET G == {g \in Renamed(F) : Id(g) = Id(f)}
             IN  Sound(Absorbing(Winner(G), G), I) /\ Graded(Absorbing(Winner(G), G))
  <2> DEFINE G == {g \in Renamed(F) : Id(g) = Id(f)}
  <2>1. G # {} /\ \A g \in G : Sound(g, I) /\ Graded(g)
    BY <1>1
  <2> HIDE DEF G
  <2>2. Winner(G) \in G
    BY <2>1, WinnerIsOne
  <2>3. Sound(Absorbing(Winner(G), G), I) /\ Graded(Absorbing(Winner(G), G))
    BY <2>1, <2>2, AbsorbingSound
  <2> QED
    BY <2>3 DEF G
<1> QED
  BY <1>2 DEF MergedById

LEMMA SuppressedSound ==
  ASSUME NEW F, NEW I, \A f \in F : Sound(f, I) /\ Graded(f)
  PROVE  \A f \in Suppressed(F) : Sound(f, I) /\ Graded(f)
<1> DEFINE winner(f) == Latest({w \in Overrides(F) : Path(w) = Path(f)})
           losers    == {f \in Conflicts(F) : (\E w \in Overrides(F) : Path(w) = Path(f)) /\ winner(f) # f}
<1>1. losers \subseteq F
  BY DEF Conflicts
<1>2. ASSUME NEW f \in F, NEW L, L \subseteq F
      PROVE  Sound(Absorbing(f, L), I) /\ Graded(Absorbing(f, L))
  BY <1>2, AbsorbingSound
<1>3. Suppressed(F) = {IF \E l \in losers : winner(l) = f
                       THEN Absorbing(f, {l \in losers : winner(l) = f}) ELSE f : f \in F \ losers}
  BY DEF Suppressed
<1> HIDE DEF winner, losers
<1>4. \A f \in F : {l \in losers : winner(l) = f} \subseteq F
  BY <1>1
<1> QED
  BY <1>2, <1>3, <1>4

LEMMA CappedSound ==
  ASSUME NEW I, NEW f, Sound(f, I), Graded(f), NEW cap \in {Note, Warn}, NEW code,
         code # "cross-layer-contradiction"
  PROVE  Sound(Capped(f, cap, code), I) /\ Graded(Capped(f, cap, code))
<1> DEFINE trail == f.trail \union {Change(code, f.sev, cap)}
           g     == [f EXCEPT !.sev = cap, !.disp = "downgraded", !.trail = trail]
<1>1. CASE f.sev <= cap
  BY <1>1 DEF Capped
<1>2. CASE ~(f.sev <= cap)
  <2>1. Capped(f, cap, code) = g
    BY <1>2 DEF Capped
  <2>2. ~Refuted(f)
    BY <1>2 DEF Sound, Subdued, Graded, Severity, Info, Note, Warn, Fatal
  <2>3. Change(code, f.sev, cap).code = code
    BY DEF Change
  <2>4. \A c \in trail : c.code # "cross-layer-contradiction"
    BY <2>2, <2>3 DEF Refuted
  <2> HIDE DEF trail
  <2>5. Shaped(g) /\ g.cites = f.cites /\ g.sev = cap /\ g.trail = trail /\ g.n = f.n
    BY DEF Sound, Shaped, Fields
  <2> HIDE DEF g
  <2> QED
    BY <2>1, <2>4, <2>5 DEF Sound, Subdued, Refuted, Graded, Severity, Info, Note, Warn, Fatal
<1> QED
  BY <1>1, <1>2

LEMMA CaveatsSound ==
  ASSUME NEW s, NEW F, NEW I, \A f \in F : Sound(f, I) /\ Graded(f)
  PROVE  \A f \in WithCaveats(s, F) : Sound(f, I)
<1>1. ASSUME NEW f, Sound(f, I), Graded(f)
      PROVE  Sound(Unfinal(s, f), I) /\ Graded(Unfinal(s, f))
  BY <1>1, CappedSound DEF Unfinal
<1>2. ASSUME NEW f, Sound(f, I), Graded(f)
      PROVE  Sound(Caveat(s, f), I)
  <2> DEFINE current == Flagged(Matching(s, f), "current") # {}
             capped == Capped(f, IF current THEN Note ELSE Warn, "runtime-resource-mutator-observed")
             conf   == IF current THEN MinOf((capped.conf * 7) \div 10, 70)
                       ELSE MinOf((capped.conf * 85) \div 100, 85)
             tags   == capped.tags \union {"runtime-script-caveat"}
             g      == [capped EXCEPT !.disp = "downgraded", !.conf = conf, !.tags = tags]
  <2>1. Sound(capped, I)
    BY <1>2, CappedSound
  <2>2. Caveat(s, f) = IF Matching(s, f) = {} THEN f ELSE g
    BY DEF Caveat
  <2> HIDE DEF capped, conf, tags
  <2>3. Shaped(g) /\ g.cites = capped.cites /\ g.sev = capped.sev /\ g.vis = capped.vis /\ g.trail = capped.trail
    BY <2>1 DEF Sound, Shaped, Fields
  <2> HIDE DEF g
  <2>4. Sound(g, I)
    BY <2>1, <2>3 DEF Sound, Subdued, Refuted
  <2> QED
    BY <1>2, <2>2, <2>4
<1> QED
  BY <1>1, <1>2 DEF WithCaveats

\* A card and a detail.
LEMMA CardSound ==
  ASSUME NEW I, NEW G, \A f \in G : Sound(f, I), NEW name, NEW sev, NEW n
  PROVE  Sound(Card(G, name, sev, n), I)
<1> DEFINE g == Card(G, name, sev, n)
<1>1. Shaped(g) /\ g.cites = UNION {f.cites : f \in G} /\ g.trail = {}
  BY DEF Card, Shaped, Fields
<1> HIDE DEF g
<1>2. g.cites \subseteq I
  BY <1>1 DEF Sound
<1> QED
  BY <1>1, <1>2 DEF Sound, Subdued, Refuted, g

LEMMA DetailSound ==
  ASSUME NEW I, NEW f, Sound(f, I)
  PROVE  Sound(Detail(f), I)
<1> DEFINE tags == f.tags \union {"clustered-detail"}
           g    == [f EXCEPT !.vis = "explain-only", !.tags = tags]
<1> HIDE DEF tags
<1>1. Shaped(g) /\ g.cites = f.cites /\ g.sev = f.sev /\ g.vis = "explain-only" /\ g.trail = f.trail
  BY DEF Sound, Shaped, Fields
<1> HIDE DEF g
<1>2. Sound(g, I)
  BY <1>1 DEF Sound, Subdued, Refuted
<1> QED
  BY <1>2 DEF g, tags, Detail

\* What a pass of clustering makes of findings: it turns some into details, and
\* adds a card over some of them under each key.
Details(F, D) == {IF f \in D THEN Detail(f) ELSE f : f \in F}
Cards(pass, K, group, sev, n) == {Card(group[k], <<pass, k>>, sev[k], n[k]) : k \in K}

ClustersOf(pass, F, C) ==
  \E D, K, group, sev, n : /\ \A k \in K : group[k] \in SUBSET F
                           /\ C = Details(F, D) \union Cards(pass, K, group, sev, n)

LEMMA ClusterMembers ==
  ASSUME NEW pass, NEW F, NEW C, ClustersOf(pass, F, C)
  PROVE  \A x \in C : \/ x \in F
                      \/ \E f \in F : x = Detail(f)
                      \/ \E G \in SUBSET F : \E name, sev, n : x = Card(G, name, sev, n)
BY DEF ClustersOf, Details, Cards

LEMMA ClustersSound ==
  ASSUME NEW pass, NEW F, NEW C, ClustersOf(pass, F, C), NEW I, \A f \in F : Sound(f, I)
  PROVE  \A f \in C : Sound(f, I)
<1>1. ASSUME NEW G \in SUBSET F, NEW name, NEW sev, NEW n
      PROVE  Sound(Card(G, name, sev, n), I)
  BY CardSound
<1>2. \A f \in F : Sound(Detail(f), I)
  BY DetailSound
<1>3. \A x \in C : \/ x \in F
                   \/ \E f \in F : x = Detail(f)
                   \/ \E G \in SUBSET F : \E name, sev, n : x = Card(G, name, sev, n)
  BY ClusterMembers
<1> TAKE x \in C
<1>4. CASE \E G \in SUBSET F : \E name, sev, n : x = Card(G, name, sev, n)
  <2>0. PICK G \in SUBSET F : \E name, sev, n : x = Card(G, name, sev, n)
    BY <1>4
  <2>1. PICK name, sev, n : x = Card(G, name, sev, n)
    BY <2>0
  <2> QED
    BY <1>1, <2>1
<1> QED
  BY <1>2, <1>3, <1>4

\* ClustersOf, with the findings E that may cluster, groups of them that are not
\* empty and cover the details, and the severity of the cards.
ClustersOver(pass, F, E, C) ==
  \E D, K, group, sev, n :
    /\ D \in SUBSET E /\ \A f \in D : \E k \in K : f \in group[k]
    /\ \A k \in K : /\ group[k] \in SUBSET E /\ group[k] # {}
                    /\ sev[k] = IF pass = "recipe" THEN MaxSeverity(group[k]) ELSE Warn
    /\ C = Details(F, D) \union Cards(pass, K, group, sev, n)

MayRecipe(F)   == {f \in F : f.of.family \in RecipeOverrides \union {"recipe-opaque-override"}}
MayConflict(F) == {f \in Visible(F) : f.of.family \in {"json-merge-candidate", "json-override"}}
MayLoader(F)   == {f \in Visible(F) : f.of.conclusion = "loader-mismatch" /\ f.disp = "abstained"}

LEMMA RecipeGrouped ==
  ASSUME NEW s, NEW F
  PROVE  ClustersOver("recipe", F, MayRecipe(F), RecipeClusters(s, F))
<1> DEFINE E        == MayRecipe(F)
           group(k) == {f \in E : Batch(s, f) = k}
           keys     == {k \in {Batch(s, f) : f \in E} \ {{}} : Cardinality(group(k)) >= 3}
           next     == IF F = {} THEN 1 ELSE Latest(F).n + 1
           details  == {f \in E : Batch(s, f) \in keys}
           groups   == [k \in keys |-> group(k)]
           sev      == [k \in keys |-> MaxSeverity(group(k))]
           n        == [k \in keys |-> next + Earliest(group(k)).n]
<1>1. RecipeClusters(s, F) =
        {IF f \in E /\ Batch(s, f) \in keys THEN Detail(f) ELSE f : f \in F}
          \union {Card(group(k), <<"recipe", k>>, MaxSeverity(group(k)),
                       next + Earliest(group(k)).n) : k \in keys}
  BY DEF RecipeClusters, Clustered, MayRecipe
<1> HIDE DEF E, next
<1>2. \A k \in keys : /\ groups[k] \in SUBSET E /\ groups[k] # {}
                      /\ sev[k] = IF "recipe" = "recipe" THEN MaxSeverity(groups[k]) ELSE Warn
  BY DEF WarnSeverity
<1>3. details \in SUBSET E /\ \A f \in details : \E k \in keys : f \in groups[k]
  OBVIOUS
<1>4. {IF f \in E /\ Batch(s, f) \in keys THEN Detail(f) ELSE f : f \in F}
        = Details(F, details)
  BY DEF Details
<1> HIDE DEF group, keys, details
<1>5. {Card(group(k), <<"recipe", k>>, MaxSeverity(group(k)), next + Earliest(group(k)).n) : k \in keys}
        = Cards("recipe", keys, groups, sev, n)
  BY DEF Cards
<1> HIDE DEF groups, sev, n
<1> QED
  BY <1>1, <1>2, <1>3, <1>4, <1>5 DEF ClustersOver, E

LEMMA ConflictGrouped ==
  ASSUME NEW s, NEW F
  PROVE  ClustersOver("resource-conflict", F, MayConflict(F), ConflictClusters(s, F))
<1> DEFINE E        == MayConflict(F)
           group(k) == {f \in E : Batch(s, f) = k}
           keys     == {k \in {Batch(s, f) : f \in E} \ {{}} : Cardinality(group(k)) >= 3}
           next     == IF F = {} THEN 1 ELSE Latest(F).n + 1
           details  == {f \in E : Batch(s, f) \in keys}
           groups   == [k \in keys |-> group(k)]
           sev      == [k \in keys |-> WarnSeverity(group(k))]
           n        == [k \in keys |-> next + Earliest(group(k)).n]
<1>1. ConflictClusters(s, F) =
        {IF f \in E /\ Batch(s, f) \in keys THEN Detail(f) ELSE f : f \in F}
          \union {Card(group(k), <<"resource-conflict", k>>, WarnSeverity(group(k)),
                       next + Earliest(group(k)).n) : k \in keys}
  BY DEF ConflictClusters, Clustered, MayConflict
<1> HIDE DEF E, next
<1>2. \A k \in keys : /\ groups[k] \in SUBSET E /\ groups[k] # {}
                      /\ sev[k] = IF "resource-conflict" = "recipe" THEN MaxSeverity(groups[k]) ELSE Warn
  BY DEF WarnSeverity
<1>3. details \in SUBSET E /\ \A f \in details : \E k \in keys : f \in groups[k]
  OBVIOUS
<1>4. {IF f \in E /\ Batch(s, f) \in keys THEN Detail(f) ELSE f : f \in F}
        = Details(F, details)
  BY DEF Details
<1> HIDE DEF group, keys, details
<1>5. {Card(group(k), <<"resource-conflict", k>>, WarnSeverity(group(k)), next + Earliest(group(k)).n) : k \in keys}
        = Cards("resource-conflict", keys, groups, sev, n)
  BY DEF Cards
<1> HIDE DEF groups, sev, n
<1> QED
  BY <1>1, <1>2, <1>3, <1>4, <1>5 DEF ClustersOver, E

LEMMA LoaderGrouped ==
  ASSUME NEW s, NEW F
  PROVE  ClustersOver("loader-mismatch", F, MayLoader(F), LoaderClusters(s, F))
<1> DEFINE loader(f, kind) == UNION {x.about : x \in {y \in Cited(s, f) : y.kind = kind}}
           pair(f)  == IF loader(f, "mod") = {} \/ loader(f, "environment") = {} THEN {}
                       ELSE {<<loader(f, "mod"), loader(f, "environment")>>}
           E        == MayLoader(F)
           group(k) == {f \in E : pair(f) = k}
           keys     == {k \in {pair(f) : f \in E} \ {{}} : Cardinality(group(k)) >= 3}
           next     == IF F = {} THEN 1 ELSE Latest(F).n + 1
           details  == {f \in E : pair(f) \in keys}
           groups   == [k \in keys |-> group(k)]
           sev      == [k \in keys |-> WarnSeverity(group(k))]
           n        == [k \in keys |-> next + Earliest(group(k)).n]
<1>1. LoaderClusters(s, F) =
        {IF f \in E /\ pair(f) \in keys THEN Detail(f) ELSE f : f \in F}
          \union {Card(group(k), <<"loader-mismatch", k>>, WarnSeverity(group(k)),
                       next + Earliest(group(k)).n) : k \in keys}
  BY DEF LoaderClusters, Clustered, MayLoader
<1> HIDE DEF E, next, pair
<1>2. \A k \in keys : /\ groups[k] \in SUBSET E /\ groups[k] # {}
                      /\ sev[k] = IF "loader-mismatch" = "recipe" THEN MaxSeverity(groups[k]) ELSE Warn
  BY DEF WarnSeverity
<1>3. details \in SUBSET E /\ \A f \in details : \E k \in keys : f \in groups[k]
  OBVIOUS
<1>4. {IF f \in E /\ pair(f) \in keys THEN Detail(f) ELSE f : f \in F}
        = Details(F, details)
  BY DEF Details
<1> HIDE DEF group, keys, details
<1>5. {Card(group(k), <<"loader-mismatch", k>>, WarnSeverity(group(k)), next + Earliest(group(k)).n) : k \in keys}
        = Cards("loader-mismatch", keys, groups, sev, n)
  BY DEF Cards
<1> HIDE DEF groups, sev, n
<1> QED
  BY <1>1, <1>2, <1>3, <1>4, <1>5 DEF ClustersOver, E


LEMMA OverOf ==
  ASSUME NEW pass, NEW F, NEW E \in SUBSET F, NEW C, ClustersOver(pass, F, E, C)
  PROVE  ClustersOf(pass, F, C)
<1>1. PICK D, K, group, sev, n :
        /\ \A k \in K : group[k] \in SUBSET E
        /\ C = Details(F, D) \union Cards(pass, K, group, sev, n)
  BY DEF ClustersOver
<1>2. \A k \in K : group[k] \in SUBSET F
  BY <1>1
<1> QED
  BY <1>1, <1>2 DEF ClustersOf

\* Each pass is such.
LEMMA RecipeClustered ==
  ASSUME NEW s, NEW F
  PROVE  ClustersOf("recipe", F, RecipeClusters(s, F))
BY RecipeGrouped, OverOf DEF MayRecipe

LEMMA ConflictClustered ==
  ASSUME NEW s, NEW F
  PROVE  ClustersOf("resource-conflict", F, ConflictClusters(s, F))
BY ConflictGrouped, OverOf DEF MayConflict, Visible

LEMMA LoaderClustered ==
  ASSUME NEW s, NEW F
  PROVE  ClustersOf("loader-mismatch", F, LoaderClusters(s, F))
BY LoaderGrouped, OverOf DEF MayLoader, Visible

LEMMA ShownSound ==
  ASSUME NEW F, NEW I, \A f \in F : Sound(f, I)
  PROVE  \A f \in Shown(F) : Sound(f, I)
<1> SUFFICES ASSUME NEW f \in F
             PROVE  Sound([f EXCEPT !.vis = Visibility(f)], I)
  BY DEF Shown
<1> DEFINE vis == Visibility(f)
           g   == [f EXCEPT !.vis = vis]
<1>1. vis = f.vis \/ vis # "default"
  BY DEF Visibility
<1> HIDE DEF vis
<1>2. Shaped(g) /\ g.cites = f.cites /\ g.sev = f.sev /\ g.vis = vis /\ g.trail = f.trail
  BY DEF Sound, Shaped, Fields
<1> HIDE DEF g
<1>3. Sound(g, I)
  BY <1>1, <1>2 DEF Sound, Subdued, Refuted
<1> QED
  BY <1>3 DEF g, vis

LEMMA TriagedSound ==
  ASSUME NEW s, NEW F, NEW I, \A f \in F : Sound(f, I) /\ Graded(f)
  PROVE  \A f \in Triaged(s, MergedById(F)) : Sound(f, I)
<1> DEFINE A == MergedById(F)
           B == Suppressed(A)
           C == WithCaveats(s, B)
           D == RecipeClusters(s, C)
           E == ConflictClusters(s, D)
           H == LoaderClusters(s, E)
<1>1. Triaged(s, A) = Shown(H)
  BY DEF Triaged, ClusteredAll
<1>2. \A f \in A : Sound(f, I) /\ Graded(f)
  BY MergedSound
<1> HIDE DEF A
<1>3. \A f \in B : Sound(f, I) /\ Graded(f)
  BY <1>2, SuppressedSound
<1> HIDE DEF B
<1>4. \A f \in C : Sound(f, I)
  BY <1>3, CaveatsSound
<1> HIDE DEF C
<1>5. \A f \in D : Sound(f, I)
  BY <1>4, RecipeClustered, ClustersSound
<1> HIDE DEF D
<1>6. \A f \in E : Sound(f, I)
  BY <1>5, ConflictClustered, ClustersSound
<1> HIDE DEF E
<1>7. \A f \in H : Sound(f, I)
  BY <1>6, LoaderClustered, ClustersSound
<1> HIDE DEF H
<1> QED
  BY <1>1, <1>7, ShownSound DEF A

-----------------------------------------------------------------------------
(* The invariants.                                                          *)

\* The stores are sound and the staging store continues the other.
StoresInv ==
  /\ engine \in Engines
  /\ stage = "rules" => at \in DOMAIN engine.rules
  /\ StoreOK(store) /\ StoreOK(staged)
  /\ stage = "observe" => Staged(store, staged)

\* Findings are well formed and cite facts that are there.
FindingsInv ==
  /\ stage # "done" => /\ IsFiniteSet(findings)
                       /\ \A f \in findings : Shaped(f) /\ Graded(f)
  /\ \A f \in findings : f.cites \subseteq Ids(store)

\* Nothing is refuted before reconciliation, and what is refuted stays subdued.
RefutedInv ==
  IF stage \in {"compact", "report", "done"} THEN \A f \in findings : Subdued(f)
  ELSE \A f \in findings : ~Refuted(f)

\* What refutes a finding depends on its proposal and on what it cites.
LEMMA RefutersDepend ==
  ASSUME NEW s, NEW f, NEW g, g.of = f.of, g.cites = f.cites
  PROVE  Refuters(s, g) = Refuters(s, f)
BY DEF Refuters, Cited, Frames, Installed, Together, CallsInto, Naming

LEMMA InitStores == Init => StoresInv
BY EmptyStoreOK DEF Init, StoresInv

LEMMA StoresStep == StoresInv /\ [Next]_vars => StoresInv'
<1> SUFFICES ASSUME StoresInv, [Next]_vars PROVE StoresInv'
  OBVIOUS
<1> USE DEF StoresInv
<1>1. CASE Start
  <2>1. store.next \in Nat
    BY DEF StoreOK
  <2>2. StoreOK(EmptyStore(store.next)) /\ Staged(store, EmptyStore(store.next))
    BY <2>1, EmptyStoreOK DEF Staged, EmptyStore
  <2>3. staged' = EmptyStore(store.next) /\ UNCHANGED <<engine, store>> /\ stage' = "observe"
    BY <1>1 DEF Start, StagingAfter, run
  <2> QED
    BY <2>2, <2>3
<1>2. ASSUME NEW o \in Observations, Observe(o) PROVE StoresInv'
  <2>1. staged' = Emit(staged, o) /\ UNCHANGED <<engine, store, stage, at>> /\ stage = "observe"
    BY <1>2 DEF Observe, run
  <2>2. StoreOK(Emit(staged, o)) /\ Emit(staged, o).next = staged.next + 1
        /\ Ids(Emit(staged, o)) = Ids(staged) \union {staged.next}
    BY EmitOK
  <2>3. \A f \in Emit(staged, o).facts : store.next <= f.id
    <3>1. \A id \in Ids(staged) \union {staged.next} : store.next <= id
      BY <2>1 DEF Staged, Ids
    <3> QED
      BY <2>2, <3>1 DEF Ids
  <2>4. store.next <= staged.next + 1
    BY <2>1 DEF Staged, StoreOK
  <2> QED
    BY <2>1, <2>2, <2>3, <2>4 DEF Staged
<1>3. ASSUME NEW ended, Finish(ended) PROVE StoresInv'
  <2>1. /\ store' = AppendStaged(store, staged) /\ staged' = EmptyStore(0)
        /\ stage = "observe" /\ NextCollector /\ UNCHANGED engine
    BY <1>3 DEF Finish, run
  <2>2. StoreOK(store') /\ StoreOK(staged')
    BY <2>1, AppendOK, EmptyStoreOK
  <2>3. stage' # "observe" /\ (stage' = "rules" => at' \in DOMAIN engine.rules)
    BY <2>1, EnginesAssumption DEF NextCollector
  <2> QED
    BY <2>1, <2>2, <2>3
<1>4. ASSUME NEW why, Skip(why) PROVE StoresInv'
  BY <1>4, EnginesAssumption DEF Skip, NextCollector, run
<1>5. ASSUME stage = "rules", NextRule, UNCHANGED <<run, store, staged>> PROVE StoresInv'
  <2>1. stage' # "observe" /\ (stage' = "rules" => at' \in DOMAIN engine.rules)
    BY <1>5, EnginesAssumption DEF NextRule
  <2> QED
    BY <1>5, <2>1 DEF run
<1>6. CASE Notice \/ AssessFindings \/ ReconcileFindings \/ Report
  BY <1>6 DEF Notice, AssessFindings, ReconcileFindings, Report, run
<1>7. CASE CompactFacts
  BY <1>7, CompactOK DEF CompactFacts, run
<1>8. CASE UNCHANGED vars
  BY <1>8 DEF vars, run
<1> QED
  BY <1>1, <1>2, <1>3, <1>4, <1>5, <1>6, <1>7, <1>8 DEF Next, Evaluate, RuleFails

\* The image of a finite set.
LEMMA FiniteImage ==
  ASSUME NEW S, IsFiniteSet(S), NEW h, DOMAIN h = S
  PROVE  IsFiniteSet({h[x] : x \in S})
<1>1. [x \in S |-> h[x]] \in Surjection(S, {h[x] : x \in S})
  BY DEF Surjection
<1> QED
  BY <1>1, FS_Surjection

\* A proposal becomes a finding that cites facts of the store.
LEMMA ContractedOK ==
  ASSUME NEW p, p.sev \in Severity, NEW n \in Nat
  PROVE  LET f == Contracted(p, n)
         IN  /\ Shaped(f) /\ Graded(f) /\ f.cites \subseteq Ids(store) /\ ~Refuted(f)
<1> DEFINE f == New(p, n)
           sev == IF BadProof(p) \/ Undeclarable(p) THEN MinOf(f.sev, Warn) ELSE f.sev
           tags == f.tags \union (IF BadProof(p) THEN {"rule-proof-contract-violation"} ELSE {})
                     \union (IF Undeclarable(p) THEN {"rule-coverage-contract-violation"} ELSE {})
           g == [f EXCEPT !.sev = sev, !.tags = tags]
<1>1. /\ Shaped(f) /\ f.sev = p.sev /\ f.n = n /\ f.trail = {}
      /\ f.cites = {x.id : x \in {y \in store.facts : <<y.kind, y.subject>> \in p.cites}}
  BY NewShaped DEF New
<1>2. Contracted(p, n) = g
  BY DEF Contracted
<1>3. sev \in Severity
  BY <1>1 DEF MinOf, Severity, Info, Warn, Fatal
<1> HIDE DEF f, sev, tags
<1>4. Shaped(g) /\ g.sev = sev /\ g.n = f.n /\ g.cites = f.cites /\ g.trail = f.trail
  BY <1>1 DEF Shaped, Fields
<1> HIDE DEF g
<1>5. \A id \in f.cites : \E x \in store.facts : id = x.id
  BY <1>1
<1>6. g.cites \subseteq Ids(store)
  BY <1>4, <1>5 DEF Ids
<1> QED
  BY <1>1, <1>2, <1>3, <1>4, <1>6 DEF Graded, Refuted

LEMMA InitFindings == Init => FindingsInv /\ RefutedInv
BY FS_EmptySet DEF Init, FindingsInv, RefutedInv

\* The findings of a batch.
LEMMA EvaluateFindings ==
  ASSUME StoresInv, FindingsInv, RefutedInv, stage = "rules",
         NEW batch \in Rule.batches, Evaluate(batch)
  PROVE  FindingsInv' /\ RefutedInv'
<1> DEFINE k == Cardinality(findings)
           h == [i \in DOMAIN batch |-> Contracted(batch[i], k + i)]
           new == {Contracted(batch[i], k + i) : i \in DOMAIN batch}
<1>1. /\ Len(batch) \in Nat /\ DOMAIN batch = 1 .. Len(batch)
      /\ \A i \in DOMAIN batch : batch[i].sev \in Severity
  BY EnginesAssumption DEF StoresInv, Rule
<1>2. IsFiniteSet(findings) /\ \A f \in findings : Shaped(f) /\ Graded(f)
  BY DEF FindingsInv
<1>3. k \in Nat
  BY <1>2, FS_CardinalityType
<1>4. \A f \in new : Shaped(f) /\ Graded(f) /\ f.cites \subseteq Ids(store) /\ ~Refuted(f)
  <2> SUFFICES ASSUME NEW i \in DOMAIN batch
               PROVE  LET f == Contracted(batch[i], k + i)
                      IN  Shaped(f) /\ Graded(f) /\ f.cites \subseteq Ids(store) /\ ~Refuted(f)
    OBVIOUS
  <2>1. k + i \in Nat /\ batch[i].sev \in Severity
    BY <1>1, <1>3
  <2> HIDE DEF k
  <2> QED
    BY <2>1, ContractedOK
<1>5. IsFiniteSet(new)
  <2>1. IsFiniteSet(DOMAIN batch)
    BY <1>1, FS_Interval
  <2>2. DOMAIN h = DOMAIN batch /\ new = {h[i] : i \in DOMAIN batch}
    OBVIOUS
  <2> HIDE DEF h, new
  <2> QED
    BY <2>1, <2>2, FiniteImage
<1>6. /\ findings' = findings \union new /\ store' = store
      /\ stage' \in {"notice", "rules"}
  BY DEF Evaluate, NextRule
<1> HIDE DEF new
<1>7. IsFiniteSet(findings')
  BY <1>2, <1>5, <1>6, FS_Union
<1>8. \A f \in findings' : Shaped(f) /\ Graded(f) /\ f.cites \subseteq Ids(store') /\ ~Refuted(f)
  BY <1>2, <1>4, <1>6 DEF FindingsInv, RefutedInv
<1>9. FindingsInv'
  BY <1>7, <1>8 DEF FindingsInv
<1>10. RefutedInv'
  BY <1>6, <1>8 DEF RefutedInv
<1> QED
  BY <1>9, <1>10

LEMMA NoticeFindings ==
  ASSUME StoresInv, FindingsInv, RefutedInv, Notice
  PROVE  FindingsInv' /\ RefutedInv'
<1> DEFINE k   == Cardinality(findings)
           new == New(Partial, k + 1)
<1>1. stage = "notice" /\ stage' = "assess" /\ store' = store
  BY DEF Notice
<1>2. IsFiniteSet(findings) /\ \A f \in findings : Shaped(f) /\ Graded(f)
  BY <1>1 DEF FindingsInv
<1>3. k \in Nat
  BY <1>2, FS_CardinalityType
<1>4. Shaped(new) /\ new.n = k + 1 /\ new.sev = Note /\ new.cites \subseteq Ids(store) /\ new.trail = {}
  <2>1. Shaped(new) /\ new.sev = Note
    BY NewShaped DEF Partial
  <2>2. new.n = k + 1 /\ new.trail = {} /\ new.cites = {x.id : x \in {y \in store.facts : <<y.kind, y.subject>> \in {}}}
    BY DEF New, Partial
  <2>3. new.cites = {}
    BY <2>2
  <2> QED
    BY <2>1, <2>2, <2>3
<1>5. findings' = findings \union (IF incremental THEN {new} ELSE {})
  BY DEF Notice
<1> HIDE DEF k, new
<1>6. Graded(new) /\ ~Refuted(new)
  BY <1>3, <1>4 DEF Graded, Severity, Info, Note, Fatal, Refuted
<1>7. IsFiniteSet(findings')
  BY <1>2, <1>5, FS_AddElement
<1>8. \A f \in findings' : Shaped(f) /\ Graded(f) /\ f.cites \subseteq Ids(store') /\ ~Refuted(f)
  BY <1>1, <1>2, <1>4, <1>5, <1>6 DEF FindingsInv, RefutedInv
<1>9. FindingsInv' /\ RefutedInv'
  BY <1>1, <1>7, <1>8 DEF FindingsInv, RefutedInv
<1> QED
  BY <1>9

LEMMA AssessFindingsOK ==
  ASSUME StoresInv, FindingsInv, RefutedInv, AssessFindings
  PROVE  FindingsInv' /\ RefutedInv'
<1> DEFINE h == [f \in findings |-> Assess(store, status, target, incremental, f)]
<1>1. stage = "assess" /\ stage' = "reconcile" /\ store' = store
  BY DEF AssessFindings
<1>2. findings' = {h[f] : f \in findings} /\ DOMAIN h = findings
  BY DEF AssessFindings
<1>3. IsFiniteSet(findings) /\ \A f \in findings : Shaped(f) /\ Graded(f) /\ ~Refuted(f)
                                                 /\ f.cites \subseteq Ids(store)
  BY <1>1 DEF FindingsInv, RefutedInv
<1>4. \A f \in findings : /\ Shaped(h[f]) /\ Graded(h[f]) /\ ~Refuted(h[f])
                          /\ h[f].cites \subseteq Ids(store)
  <2> TAKE f \in findings
  <2> DEFINE g == Assess(store, status, target, incremental, f)
  <2>1. h[f] = g
    OBVIOUS
  <2>2. /\ Shaped(g) /\ g.cites = f.cites /\ g.n = f.n /\ ~Refuted(g)
        /\ g.sev \in {Warn, Error, f.sev}
    BY <1>3, AssessFields
  <2> HIDE DEF g, h
  <2> QED
    BY <1>3, <2>1, <2>2 DEF Graded, Severity, Info, Warn, Error, Fatal
<1> HIDE DEF h
<1>5. IsFiniteSet(findings')
  BY <1>2, <1>3, FiniteImage
<1>6. \A f \in findings' : Shaped(f) /\ Graded(f) /\ f.cites \subseteq Ids(store') /\ ~Refuted(f)
  BY <1>1, <1>2, <1>4
<1>7. FindingsInv' /\ RefutedInv'
  BY <1>1, <1>5, <1>6 DEF FindingsInv, RefutedInv
<1> QED
  BY <1>7

\* After reconciliation a finding that something refutes is a note at most.
LEMMA ReconcileFindingsOK ==
  ASSUME StoresInv, FindingsInv, RefutedInv, ReconcileFindings
  PROVE  /\ FindingsInv' /\ RefutedInv'
         /\ \A f \in findings' : Refuters(store', f) # {} => f.sev <= Note /\ f.vis # "default"
<1> DEFINE h == [f \in findings |-> Reconcile(store, f)]
<1>1. stage = "reconcile" /\ stage' = "compact" /\ store' = store
  BY DEF ReconcileFindings
<1>2. findings' = {h[f] : f \in findings} /\ DOMAIN h = findings
  BY DEF ReconcileFindings
<1>3. IsFiniteSet(findings) /\ \A f \in findings : Shaped(f) /\ Graded(f) /\ ~Refuted(f)
                                                 /\ f.cites \subseteq Ids(store)
  BY <1>1 DEF FindingsInv, RefutedInv
<1>4. \A f \in findings : /\ Shaped(h[f]) /\ Graded(h[f]) /\ Subdued(h[f])
                          /\ h[f].cites \subseteq Ids(store)
                          /\ Refuters(store, h[f]) # {} => h[f].sev <= Note /\ h[f].vis # "default"
  <2> TAKE f \in findings
  <2> DEFINE g == Reconcile(store, f)
  <2>1. h[f] = g
    OBVIOUS
  <2>2. /\ Shaped(g) /\ g.of = f.of /\ g.cites = f.cites
        /\ Refuters(store, f) = {} => g = f
        /\ Refuters(store, f) # {} => g.sev \in {Info, Note} /\ g.vis = "explain-only"
        /\ g.n = f.n
    BY <1>3, ReconcileFields
  <2> HIDE DEF g, h
  <2>3. Refuters(store, g) = Refuters(store, f)
    BY <2>2, RefutersDepend
  <2> QED
    BY <1>3, <2>1, <2>2, <2>3 DEF Graded, Severity, Info, Note, Fatal, Subdued
<1> HIDE DEF h
<1>5. IsFiniteSet(findings')
  BY <1>2, <1>3, FiniteImage
<1>6. \A f \in findings' : /\ Shaped(f) /\ Graded(f) /\ f.cites \subseteq Ids(store') /\ Subdued(f)
                           /\ Refuters(store', f) # {} => f.sev <= Note /\ f.vis # "default"
  BY <1>1, <1>2, <1>4
<1>7. FindingsInv' /\ RefutedInv'
  BY <1>1, <1>5, <1>6 DEF FindingsInv, RefutedInv
<1> QED
  BY <1>6, <1>7

LEMMA ReportFindings ==
  ASSUME StoresInv, FindingsInv, RefutedInv, Report
  PROVE  FindingsInv' /\ RefutedInv'
<1>1. stage = "report" /\ stage' = "done" /\ store' = store
      /\ findings' = Triaged(store, MergedById(findings))
  BY DEF Report
<1>2. \A f \in findings : Sound(f, Ids(store)) /\ Graded(f)
  BY <1>1 DEF FindingsInv, RefutedInv, Sound
<1>3. \A f \in findings' : Sound(f, Ids(store))
  BY <1>1, <1>2, TriagedSound
<1>4. FindingsInv' /\ RefutedInv'
  BY <1>1, <1>3 DEF FindingsInv, RefutedInv, Sound
<1> QED
  BY <1>4

LEMMA FindingsStep ==
  StoresInv /\ FindingsInv /\ RefutedInv /\ [Next]_vars => FindingsInv' /\ RefutedInv'
<1> SUFFICES ASSUME StoresInv, FindingsInv, RefutedInv, [Next]_vars
             PROVE  FindingsInv' /\ RefutedInv'
  OBVIOUS
<1>1. ASSUME UNCHANGED findings, Ids(store) \subseteq Ids(store)', stage # "done",
             stage' # "done", stage' \in {"compact", "report"} <=> stage \in {"compact", "report"}
      PROVE  FindingsInv' /\ RefutedInv'
  BY <1>1 DEF FindingsInv, RefutedInv
<1>2. CASE Start
  BY <1>1, <1>2 DEF Start, Ids
<1>3. ASSUME NEW o \in Observations, Observe(o) PROVE FindingsInv' /\ RefutedInv'
  BY <1>1, <1>3 DEF Observe, Ids
<1>4. ASSUME NEW ended, Finish(ended) PROVE FindingsInv' /\ RefutedInv'
  <2>1. stage = "observe" /\ store' = AppendStaged(store, staged) /\ findings' = findings
        /\ stage' \in {"collect", "rules"}
    BY <1>4 DEF Finish, NextCollector
  <2>2. Ids(AppendStaged(store, staged)) = Ids(store) \union Ids(staged)
    BY <2>1, AppendOK DEF StoresInv
  <2>3. Ids(store)' = Ids(AppendStaged(store, staged))
    BY <2>1 DEF Ids
  <2> QED
    BY <1>1, <2>1, <2>2, <2>3
<1>5. ASSUME NEW why, Skip(why) PROVE FindingsInv' /\ RefutedInv'
  BY <1>1, <1>5 DEF Skip, NextCollector, Ids
<1>6. CASE stage = "rules" /\ \E batch \in Rule.batches : Evaluate(batch)
  BY <1>6, EvaluateFindings
<1>7. CASE RuleFails
  BY <1>1, <1>7 DEF RuleFails, NextRule, Ids
<1>8. CASE Notice
  BY <1>8, NoticeFindings
<1>9. CASE AssessFindings
  BY <1>9, AssessFindingsOK
<1>10. CASE ReconcileFindings
  BY <1>10, ReconcileFindingsOK
<1>11. CASE CompactFacts
  <2>1. /\ stage = "compact" /\ stage' = "report" /\ findings' = findings
        /\ store' = Compact(store, Kept)
    BY <1>11 DEF CompactFacts
  <2>2. \A f \in findings : f.cites \subseteq Ids(store) /\ f.cites \subseteq Kept
    BY DEF FindingsInv, Kept
  <2>3. \A id \in Ids(store) : id \in Kept => id \in Ids(Compact(store, Kept))
    BY CompactOK DEF StoresInv
  <2>4. \A f \in findings' : f.cites \subseteq Ids(store')
    BY <2>1, <2>2, <2>3
  <2>5. FindingsInv' /\ RefutedInv'
    BY <2>1, <2>4 DEF FindingsInv, RefutedInv
  <2> QED
    BY <2>5
<1>12. CASE Report
  BY <1>12, ReportFindings
<1>13. CASE UNCHANGED vars
  BY <1>13 DEF vars, FindingsInv, RefutedInv, Ids
<1> QED
  BY <1>2, <1>3, <1>4, <1>5, <1>6, <1>7, <1>8, <1>9, <1>10, <1>11, <1>12, <1>13 DEF Next

DoctorInv == StoresInv /\ FindingsInv /\ RefutedInv

LEMMA AlwaysDoctorInv == Spec => []DoctorInv
<1>1. Init => DoctorInv
  BY InitStores, InitFindings DEF DoctorInv
<1>2. DoctorInv /\ [Next]_vars => DoctorInv'
  BY StoresStep, FindingsStep DEF DoctorInv
<1> QED
  BY <1>1, <1>2, PTL DEF Spec

\* Every fact that a finding cites is found under its identifier, alone, at
\* every stage: after staging, appending, merging, clustering and compaction.
THEOREM AlwaysResolves == Spec => []EvidenceResolves
<1>1. DoctorInv => EvidenceResolves
  <2> SUFFICES ASSUME DoctorInv PROVE EvidenceResolves
    OBVIOUS
  <2>1. StoreOK(store) /\ Exact(store) /\ Exact(staged)
    BY DEF DoctorInv, StoresInv, StoreOK
  <2>2. \A f \in findings : \A id \in f.cites : id \in Ids(store)
    BY DEF DoctorInv, FindingsInv
  <2>3. \A id \in Ids(store) : \E x \in store.facts : Get(store, {id}) = {x} /\ x.id = id
    BY <2>1, Resolves
  <2> QED
    BY <2>1, <2>2, <2>3 DEF EvidenceResolves
<1> QED
  BY <1>1, AlwaysDoctorInv, PTL

\* No finding is an Error or worse between assessment and compaction unless its
\* contract is met, whichever collectors fail and whatever the rules propose.
THEOREM AlwaysHardErrorEarned == Spec => []HardErrorEarned
<1>1. HardErrorEarned <=> (stage \in {"reconcile", "compact"} => \A f \in findings : Earned(f))
  BY DEF HardErrorEarned, Earned
<1>2. Init => HardErrorEarned
  BY DEF Init, HardErrorEarned
<1>3. DoctorInv /\ HardErrorEarned /\ [Next]_vars => HardErrorEarned'
  <2> SUFFICES ASSUME DoctorInv, HardErrorEarned, [Next]_vars, stage' \in {"reconcile", "compact"}
               PROVE  \A f \in findings' : Earned(f)'
    BY DEF HardErrorEarned, Earned
  <2>1. AssessFindings \/ ReconcileFindings \/ UNCHANGED vars
    BY DEF Next, Start, Observe, Finish, Skip, NextCollector, Evaluate, RuleFails, NextRule,
       Notice, CompactFacts, Report
  <2>2. CASE AssessFindings
    <3>1. \A f \in findings : Shaped(f)
      BY <2>2 DEF AssessFindings, DoctorInv, FindingsInv
    <3>2. AnchorsIndexed
      <4>1. ByKind(store, "crash-anchor") = {f \in store.facts : f.kind = "crash-anchor"}
        BY KindIndexed DEF DoctorInv, StoresInv
      <4> QED
        BY <4>1 DEF AnchorsIndexed, ByKindSubject
    <3>3. /\ UNCHANGED <<store, status, incremental>>
          /\ findings' = {Assess(store, status, target, incremental, f) : f \in findings}
      BY <2>2 DEF AssessFindings, run
    <3>4. \A f \in findings : Earned(Assess(store, status, target, incremental, f))
      BY <3>1, <3>2, AssessEarned
    <3>5. \A g \in findings' : Earned(g)
      BY <3>3, <3>4
    <3> QED
      BY <3>3, <3>5 DEF Earned, Uncovered
  <2>3. CASE ReconcileFindings
    <3>1. stage = "reconcile" /\ \A f \in findings : Shaped(f) /\ Earned(f)
      BY <1>1, <2>3 DEF ReconcileFindings, DoctorInv, FindingsInv
    <3>2. /\ UNCHANGED <<store, status, incremental>>
          /\ findings' = {Reconcile(store, f) : f \in findings}
      BY <2>3 DEF ReconcileFindings, run
    <3>3. \A f \in findings : Reconcile(store, f) = f \/ Reconcile(store, f).sev \in {Info, Note}
      BY <3>1, ReconcileFields
    <3>4. \A g \in findings' : Earned(g)
      BY <3>1, <3>2, <3>3 DEF Earned, Info, Note, Error
    <3> QED
      BY <3>2, <3>4 DEF Earned, Uncovered
  <2>4. CASE UNCHANGED vars
    <3>1. \A f \in findings : Earned(f)
      BY <1>1, <2>4 DEF vars
    <3> QED
      BY <2>4, <3>1 DEF vars, Earned, Uncovered
  <2> QED
    BY <2>1, <2>2, <2>3, <2>4
<1> QED
  BY <1>2, <1>3, AlwaysDoctorInv, PTL DEF Spec

\* What exact evidence of another layer contradicts is a note at most and not
\* shown by default, when reconciliation ends and still in the report.
THEOREM AlwaysUncontradicted == Spec => []NoContradictedConclusion
<1> DEFINE Settled == stage = "compact" =>
                        \A f \in findings : Refuters(store, f) # {} => f.sev <= Note /\ f.vis # "default"
<1>1. Init => Settled
  BY DEF Init
<1>2. DoctorInv /\ Settled /\ [Next]_vars => Settled'
  <2> SUFFICES ASSUME DoctorInv, Settled, [Next]_vars, stage' = "compact"
               PROVE  \A f \in findings' : Refuters(store', f) # {} => f.sev <= Note /\ f.vis # "default"
    BY DEF Refuters, Cited, Frames, Installed, Together, CallsInto, Naming
  <2>1. ReconcileFindings \/ UNCHANGED vars
    BY DEF Next, Start, Observe, Finish, Skip, NextCollector, Evaluate, RuleFails, NextRule,
       Notice, AssessFindings, CompactFacts, Report
  <2>2. CASE ReconcileFindings
    BY <2>2, ReconcileFindingsOK DEF DoctorInv
  <2>3. CASE UNCHANGED vars
    BY <2>3 DEF vars
  <2> QED
    BY <2>1, <2>2, <2>3
<1>3. DoctorInv /\ Settled => NoContradictedConclusion
  BY DEF DoctorInv, RefutedInv, Subdued, NoContradictedConclusion
<1> QED
  BY <1>1, <1>2, <1>3, AlwaysDoctorInv, PTL DEF Spec

-----------------------------------------------------------------------------
(* SeverityTrail: which finding a finding of the report comes from, and the *)
(* recorded changes between the two severities.                             *)

\* g is f under another identifier, visibility or with more evidence.
Same(g, f) == /\ Shaped(g) /\ g.sev = f.sev /\ g.n = f.n /\ g.trail = f.trail /\ g.of = f.of
              /\ f.tags \subseteq g.tags

\* f is what has become of the finding p.
From(f, p)  == p.n = f.n /\ p.of = f.of /\ p.tags \subseteq f.tags
Next1(f, S) == S \union {c.to : c \in {d \in f.trail : d.from \in S}}

After1(p, f) == Next1(f, {p.sev})
After2(p, f) == Next1(f, After1(p, f))
After3(p, f) == Next1(f, After2(p, f))

\* One recorded change, or two when the second is a refutation.
TracedTo(p, f) == From(f, p) /\ (f.sev \in After1(p, f) \/ (f.sev \in After2(p, f) /\ f.sev <= Note))

Traced(P, f) == \E p \in P : TracedTo(p, f)
Ended(P, f)  == \E p \in P : From(f, p) /\ f.sev \in After3(p, f)

LEMMA SameAfter ==
  ASSUME NEW p, NEW f, NEW g, Same(g, f)
  PROVE  /\ From(f, p) => From(g, p)
         /\ After1(p, g) = After1(p, f) /\ After2(p, g) = After2(p, f)
         /\ After3(p, g) = After3(p, f)
BY DEF Same, From, Next1, After1, After2, After3

LEMMA SameTraced ==
  ASSUME NEW P, NEW f, NEW g, Same(g, f)
  PROVE  (Traced(P, f) => Traced(P, g)) /\ (Ended(P, f) => Ended(P, g))
<1>1. g.sev = f.sev
  BY DEF Same
<1> QED
  BY <1>1, SameAfter DEF TracedTo, Traced, Ended

LEMMA RenamedSame ==
  ASSUME NEW F, \A f \in F : Shaped(f) /\ Graded(f)
  PROVE  \A g \in Renamed(F) : Shaped(g) /\ Graded(g) /\ \E f \in F : Same(g, f)
<1>0. \A f \in F : Same(f, f)
  BY DEF Same
<1> SUFFICES ASSUME NEW f \in F, NEW x
             PROVE  LET g == [f EXCEPT !.suffix = x] IN Shaped(g) /\ Graded(g) /\ Same(g, f)
  BY <1>0 DEF Renamed
<1> DEFINE g == [f EXCEPT !.suffix = x]
<1>1. Shaped(g) /\ g.sev = f.sev /\ g.n = f.n /\ g.trail = f.trail /\ g.tags = f.tags /\ g.of = f.of
  BY DEF Shaped, Fields
<1> HIDE DEF g
<1>2. Shaped(g) /\ Graded(g) /\ Same(g, f)
  BY <1>1 DEF Same, Graded
<1> QED
  BY <1>2 DEF g

LEMMA AbsorbingSame ==
  ASSUME NEW w, NEW G, Shaped(w)
  PROVE  Same(Absorbing(w, G), w) /\ (Graded(w) => Graded(Absorbing(w, G)))
<1> DEFINE cites == UNION {f.cites : f \in G \union {w}}
           tags  == UNION {f.tags : f \in G \union {w}}
           reqs  == UNION {f.reqs : f \in G \union {w}}
           g     == [w EXCEPT !.cites = cites, !.tags = tags, !.reqs = reqs]
<1>1. w.tags \subseteq tags
  OBVIOUS
<1> HIDE DEF cites, tags, reqs
<1>2. Shaped(g) /\ g.sev = w.sev /\ g.n = w.n /\ g.trail = w.trail /\ g.tags = tags /\ g.of = w.of
  BY DEF Shaped, Fields
<1> HIDE DEF g
<1>3. Same(g, w) /\ (Graded(w) => Graded(g))
  BY <1>1, <1>2 DEF Same, Graded
<1> QED
  BY <1>3 DEF g, cites, tags, reqs, Absorbing

LEMMA SameTransitive ==
  ASSUME NEW f, NEW g, NEW h, Same(h, g), Same(g, f)
  PROVE  Same(h, f)
BY DEF Same

LEMMA MergedSame ==
  ASSUME NEW F, \A f \in F : Shaped(f) /\ Graded(f)
  PROVE  \A g \in MergedById(F) : Shaped(g) /\ Graded(g) /\ \E f \in F : Same(g, f)
<1>1. ASSUME NEW f \in Renamed(F)
      PROVE  LET G == {g \in Renamed(F) : Id(g) = Id(f)}
                 h == Absorbing(Winner(G), G)
             IN  Shaped(h) /\ Graded(h) /\ \E e \in F : Same(h, e)
  <2> DEFINE G == {g \in Renamed(F) : Id(g) = Id(f)}
  <2>1. G # {} /\ \A g \in G : Shaped(g) /\ Graded(g) /\ \E e \in F : Same(g, e)
    BY RenamedSame
  <2> HIDE DEF G
  <2>2. Winner(G) \in G
    BY <2>1, WinnerIsOne
  <2>3. Same(Absorbing(Winner(G), G), Winner(G)) /\ Graded(Absorbing(Winner(G), G))
    BY <2>1, <2>2, AbsorbingSame
  <2>4. \E e \in F : Same(Absorbing(Winner(G), G), e)
    BY <2>1, <2>2, <2>3, SameTransitive
  <2>5. Shaped(Absorbing(Winner(G), G))
    BY <2>3 DEF Same
  <2> QED
    BY <2>3, <2>4, <2>5 DEF G
<1> QED
  BY <1>1 DEF MergedById

LEMMA SuppressedSame ==
  ASSUME NEW F, \A f \in F : Shaped(f) /\ Graded(f)
  PROVE  \A g \in Suppressed(F) : Shaped(g) /\ Graded(g) /\ \E f \in F : Same(g, f)
<1> DEFINE winner(f) == Latest({w \in Overrides(F) : Path(w) = Path(f)})
           losers    == {f \in Conflicts(F) : (\E w \in Overrides(F) : Path(w) = Path(f)) /\ winner(f) # f}
<1>1. Suppressed(F) = {IF \E l \in losers : winner(l) = f
                       THEN Absorbing(f, {l \in losers : winner(l) = f}) ELSE f : f \in F \ losers}
  BY DEF Suppressed
<1> HIDE DEF winner, losers
<1>2. \A f \in F : \A L : Same(Absorbing(f, L), f) /\ Graded(Absorbing(f, L)) /\ Shaped(Absorbing(f, L))
  BY AbsorbingSame DEF Same
<1>3. \A f \in F : Same(f, f)
  BY DEF Same
<1> QED
  BY <1>1, <1>2, <1>3

\* A cap leaves the severity alone or records the change.
LEMMA CappedTraced ==
  ASSUME NEW f, Shaped(f), Graded(f), NEW cap \in {Note, Warn}, NEW code, NEW p, From(f, p)
  PROVE  LET g == Capped(f, cap, code)
         IN  /\ Shaped(g) /\ Graded(g) /\ From(g, p)
             /\ \/ g = f
                \/ /\ f.sev > cap
                   /\ f.sev \in After1(p, f) => g.sev \in After2(p, g)
                   /\ f.sev \in After2(p, f) => g.sev \in After3(p, g)
<1> DEFINE trail == f.trail \union {Change(code, f.sev, cap)}
           g     == [f EXCEPT !.sev = cap, !.disp = "downgraded", !.trail = trail]
<1>1. CASE f.sev <= cap
  BY <1>1 DEF Capped
<1>2. CASE ~(f.sev <= cap)
  <2>1. Capped(f, cap, code) = g
    BY <1>2 DEF Capped
  <2> DEFINE ch == Change(code, f.sev, cap)
  <2>0. ch.from = f.sev /\ ch.to = cap
    BY DEF Change
  <2>2. f.trail \subseteq trail /\ \E c \in trail : c.from = f.sev /\ c.to = cap
    <3>1. ch \in trail /\ f.trail \subseteq trail
      OBVIOUS
    <3> HIDE DEF ch, trail
    <3> QED
      BY <2>0, <3>1
  <2> HIDE DEF trail
  <2>3. Shaped(g) /\ g.sev = cap /\ g.trail = trail /\ g.n = f.n /\ g.of = f.of /\ g.tags = f.tags
    BY DEF Shaped, Fields
  <2> HIDE DEF g
  <2>4. From(g, p)
    BY <2>3 DEF From
  <2>5. \A S, R : S \subseteq R => Next1(f, S) \subseteq Next1(g, R)
    BY <2>2, <2>3 DEF Next1
  <2>6. After1(p, f) \subseteq After1(p, g) /\ After2(p, f) \subseteq After2(p, g)
    BY <2>5 DEF After1, After2
  <2>7. \A S : f.sev \in S => g.sev \in Next1(g, S)
    BY <2>2, <2>3 DEF Next1
  <2>8. Graded(g) /\ f.sev > cap
    BY <1>2, <2>3 DEF Graded, Severity, Info, Note, Warn, Fatal
  <2> QED
    BY <2>1, <2>3, <2>4, <2>6, <2>7, <2>8 DEF After2, After3
<1> QED
  BY <1>1, <1>2

LEMMA CaveatsTraced ==
  ASSUME NEW s, NEW p, NEW f, Shaped(f), Graded(f), TracedTo(p, f)
  PROVE  LET g == Caveat(s, Unfinal(s, f)) IN Shaped(g) /\ From(g, p) /\ g.sev \in After3(p, g)
<1> DEFINE u == Unfinal(s, f)
<1>1. After1(p, f) \subseteq After2(p, f) /\ After2(p, f) \subseteq After3(p, f)
  BY DEF After2, After3, Next1
<1>2. /\ Shaped(u) /\ Graded(u) /\ From(u, p) /\ u.sev \in After2(p, u)
  <2> DEFINE c == Capped(f, Warn, "resource-finality-unproven")
  <2>1. u = c \/ u = f
    BY DEF Unfinal
  <2>2. From(f, p) /\ f.sev \in After2(p, f)
    BY <1>1 DEF TracedTo
  <2>3. /\ Shaped(c) /\ Graded(c) /\ From(c, p)
        /\ c = f \/ (f.sev > Warn /\ (f.sev \in After1(p, f) => c.sev \in After2(p, c)))
    BY <2>2, CappedTraced
  <2> HIDE DEF c, u
  <2>4. c.sev \in After2(p, c)
    <3>1. CASE c = f
      BY <2>2, <3>1
    <3>2. CASE c # f
      <4>1. f.sev \in After1(p, f)
        BY <2>3, <3>2 DEF TracedTo, Graded, Severity, Info, Note, Warn, Fatal
      <4> QED
        BY <2>3, <3>2, <4>1
    <3> QED
      BY <3>1, <3>2
  <2> QED
    BY <2>1, <2>2, <2>3, <2>4
<1> HIDE DEF u
<1> DEFINE current == Flagged(Matching(s, u), "current") # {}
           capped == Capped(u, IF current THEN Note ELSE Warn, "runtime-resource-mutator-observed")
           conf   == IF current THEN MinOf((capped.conf * 7) \div 10, 70)
                     ELSE MinOf((capped.conf * 85) \div 100, 85)
           tags   == capped.tags \union {"runtime-script-caveat"}
           g      == [capped EXCEPT !.disp = "downgraded", !.conf = conf, !.tags = tags]
<1>3. After2(p, u) \subseteq After3(p, u)
  BY DEF After3, Next1
<1>4. Shaped(capped) /\ From(capped, p) /\ capped.sev \in After3(p, capped)
  BY <1>2, <1>3, CappedTraced
<1>5. Caveat(s, u) = IF Matching(s, u) = {} THEN u ELSE g
  BY DEF Caveat
<1>6. capped.tags \subseteq tags
  OBVIOUS
<1> HIDE DEF capped, conf, tags
<1>7. /\ Shaped(g) /\ g.sev = capped.sev /\ g.n = capped.n /\ g.trail = capped.trail /\ g.tags = tags
      /\ g.of = capped.of
  BY <1>4 DEF Shaped, Fields
<1> HIDE DEF g
<1>8. Same(g, capped)
  BY <1>6, <1>7 DEF Same
<1>9. Shaped(g) /\ From(g, p) /\ g.sev \in After3(p, g)
  BY <1>4, <1>7, <1>8, SameAfter
<1> QED
  BY <1>2, <1>3, <1>5, <1>9 DEF u

\* A card is marked as one; a detail is the finding it was.
Accounted(P, f) == Shaped(f) /\ ("cluster" \in f.tags \/ Ended(P, f))

LEMMA SameAccounted ==
  ASSUME NEW P, NEW f, NEW g, Same(g, f), Accounted(P, f)
  PROVE  Accounted(P, g)
<1>1. Shaped(g) /\ f.tags \subseteq g.tags /\ g.sev = f.sev
  BY DEF Same
<1> QED
  BY <1>1, SameTraced DEF Accounted

LEMMA ClustersAccounted ==
  ASSUME NEW pass, NEW F, NEW C, ClustersOf(pass, F, C), NEW P, \A f \in F : Accounted(P, f)
  PROVE  \A f \in C : Accounted(P, f)
<1>1. ASSUME NEW G, NEW name, NEW sev, NEW n PROVE Accounted(P, Card(G, name, sev, n))
  BY DEF Card, Accounted, Shaped, Fields
<1>2. ASSUME NEW f \in F PROVE Accounted(P, Detail(f))
  <2> DEFINE tags == f.tags \union {"clustered-detail"}
             g    == [f EXCEPT !.vis = "explain-only", !.tags = tags]
  <2>1. f.tags \subseteq tags /\ Shaped(f)
    BY DEF Accounted
  <2> HIDE DEF tags
  <2>2. Shaped(g) /\ g.sev = f.sev /\ g.n = f.n /\ g.trail = f.trail /\ g.tags = tags /\ g.of = f.of
    BY <2>1 DEF Shaped, Fields
  <2> HIDE DEF g
  <2>3. Same(g, f)
    BY <2>1, <2>2 DEF Same
  <2>4. Accounted(P, g)
    BY <2>3, SameAccounted
  <2> QED
    BY <2>4 DEF g, tags, Detail
<1> QED
  <2>1. \A x \in C : \/ x \in F
                     \/ \E f \in F : x = Detail(f)
                     \/ \E G \in SUBSET F : \E name, sev, n : x = Card(G, name, sev, n)
    BY ClusterMembers
  <2> TAKE x \in C
  <2>2. CASE \E G \in SUBSET F : \E name, sev, n : x = Card(G, name, sev, n)
    <3>0. PICK G \in SUBSET F : \E name, sev, n : x = Card(G, name, sev, n)
      BY <2>2
    <3>1. PICK name, sev, n : x = Card(G, name, sev, n)
      BY <3>0
    <3> QED
      BY <1>1, <3>1
  <2> QED
    BY <1>2, <2>1, <2>2

LEMMA ShownAccounted ==
  ASSUME NEW F, NEW P, \A f \in F : Accounted(P, f)
  PROVE  \A f \in Shown(F) : Accounted(P, f)
<1> SUFFICES ASSUME NEW f \in F, NEW vis
             PROVE  Accounted(P, [f EXCEPT !.vis = vis])
  BY DEF Shown
<1> DEFINE g == [f EXCEPT !.vis = vis]
<1>1. Shaped(g) /\ g.sev = f.sev /\ g.n = f.n /\ g.trail = f.trail /\ g.tags = f.tags /\ g.of = f.of
  BY DEF Accounted, Shaped, Fields
<1> HIDE DEF g
<1>2. Same(g, f)
  BY <1>1 DEF Same
<1>3. Accounted(P, g)
  BY <1>2, SameAccounted
<1> QED
  BY <1>3 DEF g

LEMMA TriagedAccounted ==
  ASSUME NEW s, NEW P, NEW F, \A f \in F : Shaped(f) /\ Graded(f) /\ Traced(P, f)
  PROVE  \A f \in Triaged(s, MergedById(F)) : Accounted(P, f)
<1> DEFINE A == MergedById(F)
           B == Suppressed(A)
           C == WithCaveats(s, B)
           D == RecipeClusters(s, C)
           E == ConflictClusters(s, D)
           H == LoaderClusters(s, E)
<1>1. Triaged(s, A) = Shown(H)
  BY DEF Triaged, ClusteredAll
<1>2. \A g \in A : Shaped(g) /\ Graded(g) /\ Traced(P, g)
  BY MergedSame, SameTraced
<1> HIDE DEF A
<1>3. \A g \in B : Shaped(g) /\ Graded(g) /\ Traced(P, g)
  BY <1>2, SuppressedSame, SameTraced
<1> HIDE DEF B
<1>4. \A f \in C : Accounted(P, f)
  <2>1. \A g \in B : LET h == Caveat(s, Unfinal(s, g)) IN Shaped(h) /\ Ended(P, h)
    BY <1>3, CaveatsTraced DEF Traced, Ended
  <2> QED
    BY <2>1 DEF WithCaveats, Accounted
<1> HIDE DEF C
<1>5. \A f \in D : Accounted(P, f)
  BY <1>4, RecipeClustered, ClustersAccounted
<1> HIDE DEF D
<1>6. \A f \in E : Accounted(P, f)
  BY <1>5, ConflictClustered, ClustersAccounted
<1> HIDE DEF E
<1>7. \A f \in H : Accounted(P, f)
  BY <1>6, LoaderClustered, ClustersAccounted
<1> HIDE DEF H
<1> QED
  BY <1>1, <1>7, ShownAccounted DEF A

LEMMA AssessTraced ==
  ASSUME NEW s, NEW st, NEW t, NEW inc, NEW f, Shaped(f)
  PROVE  LET g == Assess(s, st, t, inc, f) IN Shaped(g) /\ From(g, f) /\ g.sev \in After1(f, g)
<1> DEFINE g       == Assess(s, st, t, inc, f)
           unended == f.sev = Fatal /\ "terminal-runtime" \notin f.reqs
           gated   == Blockers(s, st, t, inc, f) # {} /\ f.sev >= Error
           c       == Change("fatal-requires-terminal-runtime", Fatal, Error)
           d       == Change("hard-error-gated", f.sev, Warn)
<1>1. /\ Shaped(g) /\ g.n = f.n /\ g.of = f.of
      /\ g.sev = IF gated THEN Warn ELSE IF unended THEN Error ELSE f.sev
  BY AssessFields
<1>2. (unended => c \in g.trail) /\ (gated => d \in g.trail) /\ f.tags \subseteq g.tags
  <2>1. f.tags \subseteq g.tags /\ g.trail = f.trail \union (IF unended THEN {c} ELSE {}) \union (IF gated THEN {d} ELSE {})
    <3> DEFINE blockers == Blockers(s, st, t, inc, f)
               coverage == {Coverage(s, st, t, Region(s, f, r)) : r \in f.reqs}
               sev      == IF gated THEN Warn ELSE IF unended THEN Error ELSE f.sev
               conf     == IF gated THEN MinOf(f.conf, 65) ELSE f.conf
               disp     == IF unended \/ f.disp = "downgraded" THEN "downgraded"
                           ELSE IF blockers # {} THEN "abstained" ELSE "asserted"
               cert     == IF blockers = {} THEN Certainty(f)
                           ELSE IF "unavailable" \in coverage THEN "unavailable" ELSE "undecidable"
               tags     == IF blockers # {} THEN f.tags \union {"why-not-error"} ELSE f.tags
               trail    == f.trail \union (IF unended THEN {c} ELSE {}) \union (IF gated THEN {d} ELSE {})
    <3>1. g = [f EXCEPT !.sev = sev, !.conf = conf, !.disp = disp, !.cert = cert,
                        !.blockers = blockers, !.coverage = coverage, !.tags = tags, !.trail = trail]
      BY DEF Assess
    <3>2. f.tags \subseteq tags
      OBVIOUS
    <3>3. g.trail = trail /\ g.tags = tags
      <4> HIDE DEF sev, conf, disp, cert, blockers, coverage, tags, trail, g
      <4> QED
        BY <3>1 DEF Shaped, Fields
    <3> HIDE DEF tags
    <3> QED
      BY <3>2, <3>3
  <2> HIDE DEF g, c, d, unended, gated
  <2> QED
    BY <2>1
<1>3. c.from = Fatal /\ c.to = Error /\ d.from = f.sev /\ d.to = Warn
  BY DEF Change
<1>4. unended => c.from = f.sev
  BY <1>3
<1> HIDE DEF g, c, d, gated, unended
<1>5. From(g, f)
  BY <1>1, <1>2 DEF From
<1>6. g.sev \in After1(f, g)
  BY <1>1, <1>2, <1>3, <1>4 DEF After1, Next1
<1> QED
  BY <1>1, <1>5, <1>6 DEF g

LEMMA ReconcileTraced ==
  ASSUME NEW s, NEW f, NEW p, Shaped(f), From(f, p), f.sev \in After1(p, f)
  PROVE  TracedTo(p, Reconcile(s, f))
<1> DEFINE R     == Refuters(s, f)
           low   == IF f.of.conclusion = "dependency-unused" THEN Info ELSE Note
           c     == Refutation(f, low, R)
           conf  == MinOf(f.conf, 20)
           tags  == f.tags \union {"runtime-contradicted"}
           trail == f.trail \union {c}
           suffix == IF f.of.conclusion = "loader-mismatch" THEN Append(f.suffix, "superseded") ELSE f.suffix
           g     == Invalidated(f, R)
<1>1. CASE R = {}
  BY <1>1 DEF Reconcile, TracedTo
<1>2. CASE R # {}
  <2>1. Reconcile(s, f) = g
    BY <1>2 DEF Reconcile
  <2>2. g = [f EXCEPT !.sev = low, !.conf = conf, !.vis = "explain-only", !.disp = "abstained",
                      !.cert = "undecidable", !.tags = tags, !.trail = trail, !.suffix = suffix]
    BY DEF Invalidated
  <2>3. low <= Note /\ c.from = f.sev /\ c.to = low
    BY DEF Refutation, Info, Note
  <2>4. c \in trail /\ f.trail \subseteq trail /\ f.tags \subseteq tags
    OBVIOUS
  <2> HIDE DEF low, conf, tags, trail, suffix, g, R, c
  <2>5. g.sev = low /\ g.trail = trail /\ g.n = f.n /\ g.of = f.of /\ g.tags = tags
    BY <2>2 DEF Shaped, Fields
  <2> HIDE DEF g
  <2>6. From(g, p)
    BY <2>4, <2>5 DEF From
  <2>7. After1(p, f) \subseteq After1(p, g)
    BY <2>4, <2>5 DEF After1, Next1
  <2>8. g.sev \in After2(p, g)
    BY <2>3, <2>4, <2>5, <2>7 DEF After2, Next1
  <2> QED
    BY <2>1, <2>3, <2>5, <2>6, <2>8 DEF TracedTo
<1> QED
  BY <1>1, <1>2

\* The rule's own severity, or the contract's cap with what the report shows of it.
AsRuled(E, p) ==
  \/ p.sev = p.of.sev
  \/ /\ p.sev = Warn /\ p.of.sev > Warn
     /\ p.tags \intersect ContractTags # {}
     /\ \E e \in E : e.stage = "rule-contract"

\* What the severity of a finding is, stage by stage.
TraceInv ==
  /\ stage \notin {"reconcile", "compact", "report", "done"} => \A f \in findings : AsRuled(errors, f)
  /\ \A p \in proposed : AsRuled(errors, p)
  /\ stage = "assess"    => proposed = findings
  /\ stage = "reconcile" =>
       \A f \in findings : \E p \in proposed : From(f, p) /\ f.sev \in After1(p, f)
  /\ stage \in {"compact", "report"} => \A f \in findings : Traced(proposed, f)
  /\ stage = "done"      => \A f \in findings : Accounted(proposed, f)

LEMMA ContractedAsRuled ==
  ASSUME NEW p, p.sev \in Severity, NEW n
  PROVE  LET f == Contracted(p, n)
         IN  /\ f.of = p
             /\ \/ f.sev = p.sev
                \/ /\ f.sev = Warn /\ p.sev > Warn /\ f.tags \intersect ContractTags # {}
                   /\ BadProof(p) \/ Undeclarable(p)
<1> DEFINE f    == New(p, n)
           sev  == IF BadProof(p) \/ Undeclarable(p) THEN MinOf(f.sev, Warn) ELSE f.sev
           tags == f.tags \union (IF BadProof(p) THEN {"rule-proof-contract-violation"} ELSE {})
                     \union (IF Undeclarable(p) THEN {"rule-coverage-contract-violation"} ELSE {})
           g    == [f EXCEPT !.sev = sev, !.tags = tags]
<1>1. Shaped(f) /\ f.of = p /\ f.sev = p.sev
  BY NewShaped DEF New
<1>2. Contracted(p, n) = g
  BY DEF Contracted
<1>3. sev = p.sev \/ (sev = Warn /\ p.sev > Warn /\ (BadProof(p) \/ Undeclarable(p)))
  BY <1>1 DEF MinOf, Severity, Info, Warn, Fatal
<1>4. BadProof(p) \/ Undeclarable(p) => tags \intersect ContractTags # {}
  BY DEF ContractTags
<1> HIDE DEF f, sev, tags
<1>5. g.sev = sev /\ g.tags = tags /\ g.of = p
  BY <1>1 DEF Shaped, Fields
<1> HIDE DEF g
<1> QED
  BY <1>2, <1>3, <1>4, <1>5

LEMMA TraceStep ==
  ASSUME DoctorInv, TraceInv, [Next]_vars
  PROVE  TraceInv'
<1>0. errors \subseteq errors' => \A p : AsRuled(errors, p) => AsRuled(errors', p)
  BY DEF AsRuled
<1>1. stage # "done" => \A f \in findings : Shaped(f) /\ Graded(f)
  BY DEF DoctorInv, FindingsInv
<1>2. ASSUME UNCHANGED <<findings, proposed>>, errors \subseteq errors',
             stage \in {"collect", "observe", "rules"},
             stage' \in {"collect", "observe", "rules", "notice"}
      PROVE  TraceInv'
  <2>1. \A f \in findings \union proposed : AsRuled(errors', f)
    BY <1>0, <1>2 DEF TraceInv
  <2> QED
    BY <1>2, <2>1 DEF TraceInv
<1>3. CASE Start \/ RuleFails \/ (\E o \in Observations : Observe(o))
           \/ (\E ended \in Ran : Finish(ended)) \/ (\E why \in NotRun : Skip(why))
  <2>1. /\ UNCHANGED <<findings, proposed>> /\ errors \subseteq errors'
        /\ stage \in {"collect", "observe", "rules"}
        /\ stage' \in {"collect", "observe", "rules", "notice"}
    BY <1>3 DEF Start, RuleFails, Observe, Finish, Skip, NextCollector, NextRule
  <2> QED
    BY <1>2, <2>1
<1>4. ASSUME stage = "rules", NEW batch \in Rule.batches, Evaluate(batch) PROVE TraceInv'
  <2> DEFINE new(i) == Contracted(batch[i], Cardinality(findings) + i)
  <2>1. /\ findings' = findings \union {new(i) : i \in DOMAIN batch}
        /\ errors \subseteq errors' /\ proposed' = proposed
        /\ stage' \in {"rules", "notice"}
    BY <1>4 DEF Evaluate, NextRule
  <2>2. (\E i \in DOMAIN batch : BadProof(batch[i]) \/ Undeclarable(batch[i]))
          => \E e \in errors' : e.stage = "rule-contract"
    <3>1. Failure("rule-contract", Rule.id).stage = "rule-contract"
      BY DEF Failure
    <3> QED
      BY <1>4, <3>1 DEF Evaluate
  <2>3. \A i \in DOMAIN batch : batch[i].sev \in Severity
    BY <1>4, EnginesAssumption DEF DoctorInv, StoresInv, Rule
  <2>4. ASSUME NEW i \in DOMAIN batch PROVE AsRuled(errors', new(i))
    <3>1. /\ new(i).of = batch[i]
          /\ \/ new(i).sev = batch[i].sev
             \/ /\ new(i).sev = Warn /\ batch[i].sev > Warn /\ new(i).tags \intersect ContractTags # {}
                /\ BadProof(batch[i]) \/ Undeclarable(batch[i])
      BY <2>3, ContractedAsRuled
    <3>2. \/ new(i).sev = new(i).of.sev
          \/ /\ new(i).sev = Warn /\ new(i).of.sev > Warn /\ new(i).tags \intersect ContractTags # {}
             /\ \E e \in errors' : e.stage = "rule-contract"
      BY <2>2, <3>1
    <3> QED
      BY <3>2 DEF AsRuled
  <2> HIDE DEF new
  <2>5. \A f \in findings \union proposed : AsRuled(errors', f)
    BY <1>0, <1>4, <2>1 DEF TraceInv
  <2>6. \A f \in findings' : AsRuled(errors', f)
    BY <2>1, <2>4, <2>5
  <2> QED
    BY <2>1, <2>5, <2>6 DEF TraceInv
<1>5. CASE Notice
  <2> DEFINE new == New(Partial, Cardinality(findings) + 1)
  <2>1. /\ stage = "notice" /\ stage' = "assess" /\ proposed' = findings' /\ errors' = errors
        /\ findings' = findings \union (IF incremental THEN {new} ELSE {})
    BY <1>5 DEF Notice
  <2>2. new.sev = new.of.sev
    BY DEF New
  <2> HIDE DEF new
  <2>3. AsRuled(errors, new) /\ \A f \in findings : AsRuled(errors, f)
    BY <2>1, <2>2 DEF AsRuled, TraceInv
  <2>4. \A f \in findings' : AsRuled(errors', f)
    BY <1>0, <2>1, <2>3
  <2> QED
    BY <2>1, <2>4 DEF TraceInv
<1>6. CASE AssessFindings
  <2>1. /\ stage = "assess" /\ stage' = "reconcile" /\ proposed' = proposed /\ errors' = errors
        /\ findings' = {Assess(store, status, target, incremental, f) : f \in findings}
    BY <1>6 DEF AssessFindings
  <2>2. proposed = findings /\ \A p \in proposed : AsRuled(errors', p)
    BY <1>0, <2>1 DEF TraceInv
  <2>3. \A f \in findings : LET g == Assess(store, status, target, incremental, f)
                            IN  From(g, f) /\ g.sev \in After1(f, g)
    BY <1>1, <2>1, AssessTraced
  <2>4. \A g \in findings' : \E p \in proposed' : From(g, p) /\ g.sev \in After1(p, g)
    BY <2>1, <2>2, <2>3
  <2> QED
    BY <2>1, <2>2, <2>4 DEF TraceInv
<1>7. CASE ReconcileFindings
  <2>1. /\ stage = "reconcile" /\ stage' = "compact" /\ proposed' = proposed /\ errors' = errors
        /\ findings' = {Reconcile(store, f) : f \in findings}
    BY <1>7 DEF ReconcileFindings
  <2>2. \A f \in findings : Shaped(f) /\ \E p \in proposed : From(f, p) /\ f.sev \in After1(p, f)
    BY <1>1, <2>1 DEF TraceInv
  <2>3. \A f \in findings : Traced(proposed, Reconcile(store, f))
    BY <2>2, ReconcileTraced DEF Traced
  <2>4. \A g \in findings' : Traced(proposed, g)
    BY <2>1, <2>3
  <2>5. \A p \in proposed : AsRuled(errors', p)
    BY <1>0, <2>1 DEF TraceInv
  <2> QED
    BY <2>1, <2>4, <2>5 DEF TraceInv
<1>8. CASE CompactFacts
  <2>1. /\ stage = "compact" /\ stage' = "report" /\ proposed' = proposed /\ findings' = findings
        /\ errors' = errors
    BY <1>8 DEF CompactFacts
  <2>2. \A p \in proposed : AsRuled(errors', p)
    BY <1>0, <2>1 DEF TraceInv
  <2> QED
    BY <2>1, <2>2 DEF TraceInv
<1>9. CASE Report
  <2>1. /\ stage = "report" /\ stage' = "done" /\ proposed' = proposed /\ errors \subseteq errors'
        /\ findings' = Triaged(store, MergedById(findings))
    BY <1>9 DEF Report
  <2>2. \A f \in findings : Shaped(f) /\ Graded(f) /\ Traced(proposed, f)
    BY <1>1, <2>1 DEF TraceInv
  <2>3. \A f \in Triaged(store, MergedById(findings)) : Accounted(proposed, f)
    BY <2>2, TriagedAccounted
  <2>4. \A p \in proposed : AsRuled(errors', p)
    BY <1>0, <2>1 DEF TraceInv
  <2> QED
    BY <2>1, <2>3, <2>4 DEF TraceInv
<1>10. CASE UNCHANGED vars
  BY <1>10 DEF vars, TraceInv
<1> QED
  BY <1>3, <1>4, <1>5, <1>6, <1>7, <1>8, <1>9, <1>10 DEF Next

\* From the severity that a rule proposed, before the engine has touched it, to the
\* one in the report there is a chain of recorded changes, for every finding that is
\* not the card of a cluster; where the rule's contract capped it first, the finding
\* carries the tag of the breach and the report the error of the rule.
THEOREM AlwaysTraced == Spec => []SeverityTrail
<1>1. Init => TraceInv
  BY DEF Init, TraceInv
<1>2. DoctorInv /\ TraceInv /\ [Next]_vars => TraceInv'
  BY TraceStep
<1>3. TraceInv => SeverityTrail
  <2> SUFFICES ASSUME TraceInv, stage = "done", NEW f \in findings, "cluster" \notin f.tags
               PROVE  \E p \in proposed :
                        /\ p.n = f.n /\ p.of = f.of
                        /\ p.sev = p.of.sev \/ CapDisclosed(p, f)
                        /\ f.sev \in After3(p, f)
    BY DEF SeverityTrail, After3, After2, After1, Next1
  <2>1. PICK p \in proposed : From(f, p) /\ f.sev \in After3(p, f)
    BY DEF TraceInv, Accounted, Ended
  <2>2. AsRuled(errors, p)
    BY DEF TraceInv
  <2> QED
    BY <2>1, <2>2 DEF AsRuled, From, CapDisclosed
<1> QED
  BY <1>1, <1>2, <1>3, AlwaysDoctorInv, PTL DEF Spec

-----------------------------------------------------------------------------
(* EvidenceConserved: where the evidence of a proposal is after each pass,  *)
(* and why no pass makes two findings of one identifier.                    *)

\* g is f with more evidence and other labels.
Carries(g, f) == /\ g.of = f.of /\ g.suffix = f.suffix
                 /\ f.cites \subseteq g.cites /\ f.tags \subseteq g.tags

Unrepeated(F) == \A f, g \in F : Id(f) = Id(g) => f = g

\* A finding holds a proposal: as its conclusion, or as what it absorbed.
Concludes(f, p) == p.cites \subseteq f.cites /\ f.of.id = p.of.id /\ f.of.payload = p.of.payload
Absorbs(f, p)   == p.cites \subseteq f.cites /\ "semantic-override" \in f.tags /\ f.of.id # p.of.id
Holds(F, p)     == \E f \in F : Concludes(f, p) \/ Absorbs(f, p)

LEMMA CarriesHeld ==
  ASSUME NEW F, NEW C, \A f \in F : \E g \in C : Carries(g, f), NEW p, Holds(F, p)
  PROVE  Holds(C, p)
<1>1. PICK f \in F : Concludes(f, p) \/ Absorbs(f, p)
  BY DEF Holds
<1>2. PICK g \in C : Carries(g, f)
  OBVIOUS
<1>3. Concludes(g, p) \/ Absorbs(g, p)
  BY <1>1, <1>2 DEF Carries, Concludes, Absorbs
<1> QED
  BY <1>3 DEF Holds

\* The suffixes there are: none, that of reconciliation, those of a collision,
\* that of a card.
Suffixed(f) ==
  \/ f.suffix = <<>> \/ f.suffix = <<"superseded">>
  \/ \E x : f.suffix = <<"collision", x>> \/ f.suffix = <<"superseded", "collision", x>>
  \/ \E k : f.suffix \in {<<"recipe", k>>, <<"resource-conflict", k>>, <<"loader-mismatch", k>>}

\* The identifier of a finding begins with that of its proposal.
LEMMA Joined ==
  ASSUME NEW a, NEW x, NEW y, NEW z
  PROVE  /\ <<a>> \o <<>> = <<a>>
         /\ <<a>> \o <<x>> = <<a, x>>
         /\ <<a>> \o <<x, y>> = <<a, x, y>>
         /\ <<a>> \o <<x, y, z>> = <<a, x, y, z>>
<1> DEFINE S == {a, x, y, z}
<1>1. <<a>> \in Seq(S) /\ <<>> \in Seq(S) /\ <<x>> \in Seq(S) /\ <<x, y>> \in Seq(S) /\ <<x, y, z>> \in Seq(S)
  OBVIOUS
<1>2. <<a, x>> \in Seq(S) /\ <<a, x, y>> \in Seq(S) /\ <<a, x, y, z>> \in Seq(S)
  OBVIOUS
<1> HIDE DEF S
<1>3. <<a>> \o <<>> = <<a>>
  BY <1>1, ConcatEmptySeq
<1>4. ASSUME NEW t \in Seq(S), NEW u \in Seq(S), Len(u) = 1 + Len(t), u[1] = a,
             \A i \in 1 .. Len(t) : u[i + 1] = t[i]
      PROVE  <<a>> \o t = u
  <2>1. /\ <<a>> \o t \in Seq(S) /\ Len(<<a>> \o t) = 1 + Len(t) /\ Len(t) \in Nat
        /\ \A i \in 1 .. 1 + Len(t) : (<<a>> \o t)[i] = IF i <= 1 THEN <<a>>[i] ELSE t[i - 1]
    BY <1>1, ConcatProperties
  <2>2. \A i \in 1 .. 1 + Len(t) : (<<a>> \o t)[i] = u[i]
    <3> TAKE i \in 1 .. 1 + Len(t)
    <3>1. CASE i = 1
      BY <2>1, <1>4, <3>1
    <3>2. CASE i # 1
      <4>1. i - 1 \in 1 .. Len(t) /\ (i - 1) + 1 = i
        BY <2>1, <3>2
      <4>2. u[(i - 1) + 1] = t[i - 1]
        BY <1>4, <4>1
      <4> QED
        BY <2>1, <3>2, <4>1, <4>2
    <3> QED
      BY <3>1, <3>2
  <2> QED
    BY <1>4, <2>1, <2>2, SeqEqual
<1>5. <<a>> \o <<x>> = <<a, x>>
  <2> DEFINE t == <<x>>
             u == <<a, x>>
  <2>1. Len(t) = 1 /\ Len(u) = 1 + Len(t) /\ 1 .. Len(t) = {1} /\ u[1] = a
    OBVIOUS
  <2>2. \A i \in {1} : u[i + 1] = t[i]
    OBVIOUS
  <2>3. t \in Seq(S) /\ u \in Seq(S)
    BY <1>1, <1>2
  <2> HIDE DEF t, u
  <2>4. <<a>> \o t = u
    BY <1>4, <2>1, <2>2, <2>3
  <2> QED
    BY <2>4 DEF t, u
<1>6. <<a>> \o <<x, y>> = <<a, x, y>>
  <2> DEFINE t == <<x, y>>
             u == <<a, x, y>>
  <2>1. Len(t) = 2 /\ Len(u) = 1 + Len(t) /\ 1 .. Len(t) = {1, 2} /\ u[1] = a
    OBVIOUS
  <2>2. \A i \in {1, 2} : u[i + 1] = t[i]
    OBVIOUS
  <2>3. t \in Seq(S) /\ u \in Seq(S)
    BY <1>1, <1>2
  <2> HIDE DEF t, u
  <2>4. <<a>> \o t = u
    BY <1>4, <2>1, <2>2, <2>3
  <2> QED
    BY <2>4 DEF t, u
<1>7. <<a>> \o <<x, y, z>> = <<a, x, y, z>>
  <2> DEFINE t == <<x, y, z>>
             u == <<a, x, y, z>>
  <2>1. Len(t) = 3 /\ Len(u) = 1 + Len(t) /\ 1 .. Len(t) = {1, 2, 3} /\ u[1] = a
    OBVIOUS
  <2>2. \A i \in {1, 2, 3} : u[i + 1] = t[i]
    OBVIOUS
  <2>3. t \in Seq(S) /\ u \in Seq(S)
    BY <1>1, <1>2
  <2> HIDE DEF t, u
  <2>4. <<a>> \o t = u
    BY <1>4, <2>1, <2>2, <2>3
  <2> QED
    BY <2>4 DEF t, u
<1> QED
  BY <1>3, <1>5, <1>6, <1>7

LEMMA IdTuple ==
  ASSUME NEW f, NEW x, NEW y, NEW z
  PROVE  /\ f.suffix = <<>> => Id(f) = <<f.of.id>>
         /\ f.suffix = <<x>> => Id(f) = <<f.of.id, x>>
         /\ f.suffix = <<x, y>> => Id(f) = <<f.of.id, x, y>>
         /\ f.suffix = <<x, y, z>> => Id(f) = <<f.of.id, x, y, z>>
<1> DEFINE a == f.of.id
<1>1. Id(f) = <<a>> \o f.suffix
  BY DEF Id
<1> HIDE DEF a
<1>2. /\ <<a>> \o <<>> = <<a>>
      /\ <<a>> \o <<x>> = <<a, x>>
      /\ <<a>> \o <<x, y>> = <<a, x, y>>
      /\ <<a>> \o <<x, y, z>> = <<a, x, y, z>>
  BY Joined
<1>3. f.suffix = <<>> => Id(f) = <<a>>
  BY <1>1, <1>2
<1>4. f.suffix = <<x>> => Id(f) = <<a, x>>
  BY <1>1, <1>2
<1>5. f.suffix = <<x, y>> => Id(f) = <<a, x, y>>
  BY <1>1, <1>2
<1>6. f.suffix = <<x, y, z>> => Id(f) = <<a, x, y, z>>
  BY <1>1, <1>2
<1> QED
  BY <1>3, <1>4, <1>5, <1>6 DEF a

LEMMA IdHead ==
  ASSUME NEW f, Suffixed(f)
  PROVE  Id(f)[1] = f.of.id
<1>1. CASE f.suffix = <<>>
  BY <1>1, IdTuple
<1>2. CASE f.suffix = <<"superseded">>
  BY <1>2, IdTuple
<1>3. ASSUME NEW x, NEW y, f.suffix = <<x, y>> PROVE Id(f)[1] = f.of.id
  <2>1. Id(f) = <<f.of.id, x, y>>
    BY <1>3, IdTuple
  <2> QED
    BY <2>1
<1>4. ASSUME NEW x, NEW y, NEW z, f.suffix = <<x, y, z>> PROVE Id(f)[1] = f.of.id
  <2>1. Id(f) = <<f.of.id, x, y, z>>
    BY <1>4, IdTuple
  <2> QED
    BY <2>1
<1> QED
  BY <1>1, <1>2, <1>3, <1>4 DEF Suffixed

LEMMA CarriesId ==
  ASSUME NEW f, NEW g, Carries(g, f)
  PROVE  Id(g) = Id(f) /\ (Suffixed(f) => Suffixed(g))
BY DEF Carries, Id, Suffixed

\* What absorbs takes over the citations of all.
LEMMA AbsorbingCarries ==
  ASSUME NEW w, NEW G, Shaped(w)
  PROVE  /\ Carries(Absorbing(w, G), w)
         /\ \A g \in G : g.cites \subseteq Absorbing(w, G).cites
<1> DEFINE cites == UNION {f.cites : f \in G \union {w}}
           tags  == UNION {f.tags : f \in G \union {w}}
           reqs  == UNION {f.reqs : f \in G \union {w}}
           g     == [w EXCEPT !.cites = cites, !.tags = tags, !.reqs = reqs]
<1>1. w.tags \subseteq tags /\ \A f \in G \union {w} : f.cites \subseteq cites
  OBVIOUS
<1> HIDE DEF cites, tags, reqs
<1>2. g.of = w.of /\ g.suffix = w.suffix /\ g.cites = cites /\ g.tags = tags
  BY DEF Shaped, Fields
<1> HIDE DEF g
<1>3. Carries(g, w) /\ \A f \in G : f.cites \subseteq g.cites
  BY <1>1, <1>2 DEF Carries
<1> QED
  BY <1>3 DEF g, cites, tags, reqs, Absorbing

\* A pass that relabels each finding by itself.
LEMMA Relabelled ==
  ASSUME NEW F, Unrepeated(F), NEW h, \A f \in F : Carries(h[f], f)
  PROVE  /\ Unrepeated({h[f] : f \in F})
         /\ \A p : Holds(F, p) => Holds({h[f] : f \in F}, p)
<1>1. \A f \in F : Id(h[f]) = Id(f)
  BY CarriesId
<1>2. \A f \in F : \E g \in {h[x] : x \in F} : Carries(g, f)
  OBVIOUS
<1>3. \A f, g \in F : Id(h[f]) = Id(h[g]) => f = g
  BY <1>1 DEF Unrepeated
<1>4. \A p : Holds(F, p) => Holds({h[f] : f \in F}, p)
  BY <1>2, CarriesHeld
<1> QED
  BY <1>3, <1>4 DEF Unrepeated

-----------------------------------------------------------------------------
(* Merging by identifier.                                                   *)

\* What reconciliation leaves.
Unmerged(f) == f.suffix \in {<<>>, <<"superseded">>} /\ f.of.id # ClusterId

\* Renaming appends the payload to the suffix of what collides.
LEMMA RenamedFields ==
  ASSUME NEW F, NEW f, Shaped(f), Unmerged(f)
  PROVE  LET r == IF Collides(F, f) THEN [f EXCEPT !.suffix = @ \o <<"collision", f.of.payload>>] ELSE f
         IN  /\ r.of = f.of /\ r.cites = f.cites /\ Shaped(r) /\ Suffixed(r)
             /\ r.sev = f.sev /\ r.n = f.n
             /\ ~Collides(F, f) => r = f
             /\ Collides(F, f) =>
                  \/ f.suffix = <<>> /\ r.suffix = <<"collision", f.of.payload>>
                  \/ f.suffix = <<"superseded">> /\ r.suffix = <<"superseded", "collision", f.of.payload>>
<1> DEFINE x == f.suffix \o <<"collision", f.of.payload>>
           g == [f EXCEPT !.suffix = x]
<1>1. \/ f.suffix = <<>> /\ x = <<"collision", f.of.payload>>
      \/ f.suffix = <<"superseded">> /\ x = <<"superseded", "collision", f.of.payload>>
  <2> DEFINE p == f.of.payload
  <2>1. x = f.suffix \o <<"collision", p>>
    OBVIOUS
  <2>2. <<"superseded">> \o <<"collision", p>> = <<"superseded", "collision", p>>
    BY Joined
  <2>3. <<>> \o <<"collision", p>> = <<"collision", p>>
    <3>1. <<"collision", p>> \in Seq({"collision", p})
      OBVIOUS
    <3> QED
      BY <3>1, ConcatEmptySeq
  <2> HIDE DEF x, p
  <2>4. CASE f.suffix = <<>>
    BY <2>1, <2>3, <2>4 DEF p
  <2>5. CASE f.suffix = <<"superseded">>
    BY <2>1, <2>2, <2>5 DEF p
  <2> QED
    BY <2>4, <2>5 DEF Unmerged
<1> HIDE DEF x
<1>2. g.of = f.of /\ g.cites = f.cites /\ g.suffix = x /\ Shaped(g) /\ g.sev = f.sev /\ g.n = f.n
  BY DEF Shaped, Fields
<1> HIDE DEF g
<1>3. Suffixed(g) /\ Suffixed(f)
  BY <1>1, <1>2 DEF Suffixed, Unmerged
<1> QED
  BY <1>1, <1>2, <1>3 DEF g, x

\* Two renamed findings with one identifier say the same of the same.
LEMMA OneConclusion ==
  ASSUME NEW F, \A f \in F : Shaped(f) /\ Unmerged(f),
         NEW r \in Renamed(F), NEW w \in Renamed(F), Id(r) = Id(w)
  PROVE  r.of.id = w.of.id /\ r.of.payload = w.of.payload
<1> DEFINE ren(f) == IF Collides(F, f) THEN [f EXCEPT !.suffix = @ \o <<"collision", f.of.payload>>] ELSE f
<1>1. PICK f \in F : r = ren(f)
  BY DEF Renamed
<1>2. PICK g \in F : w = ren(g)
  BY DEF Renamed
<1>3. /\ r.of = f.of /\ Suffixed(r) /\ (~Collides(F, f) => r = f)
      /\ Collides(F, f) =>
           \/ f.suffix = <<>> /\ r.suffix = <<"collision", f.of.payload>>
           \/ f.suffix = <<"superseded">> /\ r.suffix = <<"superseded", "collision", f.of.payload>>
  BY <1>1, RenamedFields
<1>4. /\ w.of = g.of /\ Suffixed(w) /\ (~Collides(F, g) => w = g)
      /\ Collides(F, g) =>
           \/ g.suffix = <<>> /\ w.suffix = <<"collision", g.of.payload>>
           \/ g.suffix = <<"superseded">> /\ w.suffix = <<"superseded", "collision", g.of.payload>>
  BY <1>2, RenamedFields
<1> HIDE DEF ren
<1>5. r.of.id = w.of.id
  BY <1>3, <1>4, IdHead
<1>6. CASE ~Collides(F, f) /\ ~Collides(F, g)
  <2>1. Id(f) = Id(g)
    BY <1>3, <1>4, <1>6
  <2>2. {x \in F : Id(x) = Id(f)} = {x \in F : Id(x) = Id(g)}
    BY <2>1
  <2>3. f.of.payload = g.of.payload
    BY <1>6, <2>2 DEF Collides
  <2> QED
    BY <1>3, <1>4, <1>5, <1>6, <2>3
<1> DEFINE a == f.of.id
           p == f.of.payload
           q == g.of.payload
<1>7. /\ f.suffix \in {<<>>, <<"superseded">>} /\ g.suffix \in {<<>>, <<"superseded">>}
  BY DEF Unmerged
<1>8. \/ ~Collides(F, f) /\ Id(r) \in {<<a>>, <<a, "superseded">>}
      \/ Collides(F, f) /\ Id(r) \in {<<a, "collision", p>>, <<a, "superseded", "collision", p>>}
  <2>1. r.suffix = <<>> => Id(r) = <<a>>
    BY <1>3, IdTuple
  <2>2. r.suffix = <<"superseded">> => Id(r) = <<a, "superseded">>
    BY <1>3, IdTuple
  <2>3. r.suffix = <<"collision", p>> => Id(r) = <<a, "collision", p>>
    BY <1>3, IdTuple
  <2>4. r.suffix = <<"superseded", "collision", p>> => Id(r) = <<a, "superseded", "collision", p>>
    BY <1>3, IdTuple
  <2> QED
    BY <1>3, <1>7, <2>1, <2>2, <2>3, <2>4
<1>9. \/ ~Collides(F, g) /\ Id(w) \in {<<a>>, <<a, "superseded">>}
      \/ Collides(F, g) /\ Id(w) \in {<<a, "collision", q>>, <<a, "superseded", "collision", q>>}
  <2>0. w.of.id = a
    BY <1>3, <1>5
  <2>1. w.suffix = <<>> => Id(w) = <<a>>
    BY <2>0, IdTuple
  <2>2. w.suffix = <<"superseded">> => Id(w) = <<a, "superseded">>
    BY <2>0, IdTuple
  <2>3. w.suffix = <<"collision", q>> => Id(w) = <<a, "collision", q>>
    BY <2>0, IdTuple
  <2>4. w.suffix = <<"superseded", "collision", q>> => Id(w) = <<a, "superseded", "collision", q>>
    BY <2>0, IdTuple
  <2> QED
    BY <1>4, <1>7, <2>1, <2>2, <2>3, <2>4
<1> HIDE DEF a, p, q
<1>10. CASE Collides(F, f) /\ Collides(F, g)
  <2>1. p = q
    BY <1>8, <1>9, <1>10
  <2> QED
    BY <1>3, <1>4, <1>5, <2>1 DEF p, q
<1>11. CASE ~(Collides(F, f) <=> Collides(F, g))
  <2>1. /\ Len(<<a>>) = 1 /\ Len(<<a, "superseded">>) = 2
        /\ \A x : Len(<<a, "collision", x>>) = 3 /\ Len(<<a, "superseded", "collision", x>>) = 4
    OBVIOUS
  <2>2. IF Collides(F, f) THEN Len(Id(r)) \in {3, 4} ELSE Len(Id(r)) \in {1, 2}
    BY <1>8, <2>1
  <2>3. IF Collides(F, g) THEN Len(Id(w)) \in {3, 4} ELSE Len(Id(w)) \in {1, 2}
    BY <1>9, <2>1
  <2> QED
    BY <1>11, <2>2, <2>3
<1> QED
  BY <1>6, <1>10, <1>11 DEF Collides

\* Merging makes identifiers unique and loses no citation and no conclusion.
LEMMA MergedConserves ==
  ASSUME NEW F, \A f \in F : Shaped(f) /\ Graded(f) /\ Unmerged(f)
  PROVE  /\ Unrepeated(MergedById(F))
         /\ \A m \in MergedById(F) : Suffixed(m) /\ m.of.id # ClusterId
         /\ \A f \in F : \E m \in MergedById(F) : Concludes(m, f)
<1> DEFINE Group(r) == {g \in Renamed(F) : Id(g) = Id(r)}
           Merge(r) == Absorbing(Winner(Group(r)), Group(r))
<1>1. \A r \in Renamed(F) : Shaped(r) /\ Graded(r) /\ Suffixed(r) /\ r.of.id # ClusterId
  <2>1. \A f \in F : LET r == IF Collides(F, f) THEN [f EXCEPT !.suffix = @ \o <<"collision", f.of.payload>>] ELSE f
                     IN  Shaped(r) /\ Graded(r) /\ Suffixed(r) /\ r.of.id # ClusterId
    BY RenamedFields DEF Graded, Unmerged
  <2> QED
    BY <2>1 DEF Renamed
<1>2. \A f \in F : \E r \in Renamed(F) : r.of = f.of /\ r.cites = f.cites
  <2>1. \A f \in F : LET r == IF Collides(F, f) THEN [f EXCEPT !.suffix = @ \o <<"collision", f.of.payload>>] ELSE f
                     IN  r.of = f.of /\ r.cites = f.cites
    BY RenamedFields
  <2>2. \A f \in F : (IF Collides(F, f) THEN [f EXCEPT !.suffix = @ \o <<"collision", f.of.payload>>] ELSE f)
                      \in Renamed(F)
    BY DEF Renamed
  <2> QED
    BY <2>1, <2>2
<1>3. ASSUME NEW r \in Renamed(F)
      PROVE  /\ Id(Merge(r)) = Id(r) /\ Suffixed(Merge(r))
             /\ Merge(r).of.id = r.of.id /\ Merge(r).of.payload = r.of.payload
             /\ r.cites \subseteq Merge(r).cites
  <2> DEFINE G == Group(r)
             w == Winner(G)
  <2>1. r \in G /\ \A g \in G : g \in Renamed(F) /\ Graded(g) /\ Id(g) = Id(r)
    BY <1>1
  <2> HIDE DEF G
  <2>2. w \in G
    BY <2>1, WinnerIsOne
  <2> HIDE DEF w
  <2>3. w.of.id = r.of.id /\ w.of.payload = r.of.payload
    BY <2>1, <2>2, OneConclusion
  <2>4. Carries(Absorbing(w, G), w) /\ \A g \in G : g.cites \subseteq Absorbing(w, G).cites
    BY <1>1, <2>1, <2>2, AbsorbingCarries
  <2>5. Id(Absorbing(w, G)) = Id(w) /\ Suffixed(Absorbing(w, G)) /\ Absorbing(w, G).of = w.of
    BY <1>1, <2>1, <2>2, <2>4, CarriesId DEF Carries
  <2> QED
    BY <2>1, <2>2, <2>3, <2>4, <2>5 DEF G, w
<1>4. MergedById(F) = {Merge(r) : r \in Renamed(F)}
  BY DEF MergedById
<1>5. Unrepeated(MergedById(F))
  <2>1. \A r, w \in Renamed(F) : Id(r) = Id(w) => Merge(r) = Merge(w)
    OBVIOUS
  <2> HIDE DEF Merge
  <2> QED
    BY <1>3, <1>4, <2>1 DEF Unrepeated
<1> HIDE DEF Merge
<1>6. \A m \in MergedById(F) : Suffixed(m) /\ m.of.id # ClusterId
  BY <1>1, <1>3, <1>4
<1>7. ASSUME NEW f \in F PROVE \E m \in MergedById(F) : Concludes(m, f)
  <2>1. PICK r \in Renamed(F) : r.of = f.of /\ r.cites = f.cites
    BY <1>2
  <2>2. Merge(r) \in MergedById(F) /\ Concludes(Merge(r), f)
    BY <1>3, <1>4, <2>1 DEF Concludes
  <2> QED
    BY <2>2
<1> QED
  BY <1>5, <1>6, <1>7

LEMMA MergedFinite ==
  ASSUME NEW F, IsFiniteSet(F)
  PROVE  IsFiniteSet(MergedById(F))
<1> DEFINE ren == [f \in F |-> IF Collides(F, f)
                               THEN [f EXCEPT !.suffix = @ \o <<"collision", f.of.payload>>] ELSE f]
           merge == [f \in Renamed(F) |-> LET G == {g \in Renamed(F) : Id(g) = Id(f)}
                                          IN  Absorbing(Winner(G), G)]
<1>1. DOMAIN ren = F /\ Renamed(F) = {ren[f] : f \in F}
  BY DEF Renamed
<1>2. DOMAIN merge = Renamed(F) /\ MergedById(F) = {merge[f] : f \in Renamed(F)}
  BY DEF MergedById
<1> HIDE DEF ren, merge
<1>3. IsFiniteSet(Renamed(F))
  BY <1>1, FiniteImage
<1> QED
  BY <1>2, <1>3, FiniteImage

-----------------------------------------------------------------------------
(* Suppression.                                                             *)

\* Of finitely many findings, one comes last.
LEMMA LatestIn ==
  ASSUME NEW S, IsFiniteSet(S), S # {}, \A f \in S : Graded(f)
  PROVE  Latest(S) \in S
<1> DEFINE Good == {T \in SUBSET S : T # {} => \E x \in T : \A y \in T : y.n <= x.n}
<1>1. ASSUME NEW T \in SUBSET S, T # {}, \A x \in T : T \ {x} \in Good
      PROVE  T \in Good
  <2>1. PICK x \in T : TRUE
    BY <1>1
  <2>2. \A y \in T : y.n \in Nat
    BY DEF Graded
  <2>3. CASE T \ {x} = {}
    <3>1. \A y \in T : y = x
      BY <2>3
    <3> QED
      BY <2>1, <2>2, <3>1
  <2>4. CASE T \ {x} # {}
    <3>1. PICK z \in T \ {x} : \A y \in T \ {x} : y.n <= z.n
      BY <1>1, <2>1, <2>4
    <3>2. x.n \in Nat /\ z.n \in Nat
      BY <2>1, <2>2
    <3>3. CASE x.n <= z.n
      BY <2>1, <3>1, <3>3
    <3>4. CASE z.n < x.n
      <4>1. \A y \in T : y.n <= x.n
        BY <2>1, <2>2, <3>1, <3>2, <3>4
      <4> QED
        BY <2>1, <4>1
    <3> QED
      BY <3>2, <3>3, <3>4
  <2> QED
    BY <2>3, <2>4
<1>2. {} \in Good
  OBVIOUS
<1> HIDE DEF Good
<1>3. \A T \in SUBSET S : T \in Good
  BY <1>1, <1>2, SetInduction
<1>4. \E x \in S : \A y \in S : y.n <= x.n
  BY <1>3 DEF Good
<1> QED
  BY <1>4 DEF Latest

\* Each conflict that goes is absorbed by an override of its path that stays.
LEMMA SuppressedConserves ==
  ASSUME NEW F, IsFiniteSet(F), \A f \in F : Shaped(f) /\ Graded(f), Unrepeated(F)
  PROVE  /\ Unrepeated(Suppressed(F))
         /\ \A g \in Suppressed(F) : \E f \in F : Carries(g, f)
         /\ \A p : (\E f \in F : Concludes(f, p)) => Holds(Suppressed(F), p)
<1> DEFINE rivals(f) == {w \in Overrides(F) : Path(w) = Path(f)}
           winner(f) == Latest(rivals(f))
           losers    == {f \in Conflicts(F) : (\E w \in Overrides(F) : Path(w) = Path(f)) /\ winner(f) # f}
           Rest     == F \ losers
           absorbed(f) == {l \in losers : winner(l) = f}
           h == [f \in Rest |-> IF \E l \in losers : winner(l) = f THEN Absorbing(f, absorbed(f)) ELSE f]
<1>1. Suppressed(F) = {h[f] : f \in Rest}
  BY DEF Suppressed
<1>2. ASSUME NEW l \in losers
      PROVE  /\ winner(l) \in Rest /\ winner(l) # l /\ l \in F
             /\ winner(l).suffix = <<>> /\ l.suffix = <<>> /\ "semantic-override" \in winner(l).tags
  <2>1. /\ rivals(l) # {} /\ rivals(l) \in SUBSET F /\ winner(l) # l /\ l \in F /\ l.suffix = <<>>
        /\ \A w \in rivals(l) : Path(w) = Path(l) /\ w.suffix = <<>> /\ "semantic-override" \in w.tags
    BY DEF Overrides, Conflicts
  <2>2. IsFiniteSet(rivals(l)) /\ \A w \in rivals(l) : Graded(w)
    BY <2>1, FS_Subset
  <2> DEFINE R == rivals(l)
  <2>3. Latest(R) \in R
    <3> HIDE DEF R
    <3> QED
      BY <2>1, <2>2, LatestIn DEF R
  <2>4. winner(l) \in rivals(l)
    BY <2>3
  <2>5. rivals(winner(l)) = rivals(l)
    BY <2>1, <2>4
  <2>6. winner(winner(l)) = winner(l)
    BY <2>5
  <2>7. winner(l) \notin losers
    BY <2>6
  <2> QED
    BY <2>1, <2>4, <2>7
<1>3. \A f \in F : \A L : Carries(Absorbing(f, L), f) /\ \A g \in L : g.cites \subseteq Absorbing(f, L).cites
  BY AbsorbingCarries
<1>4. \A f \in Rest : Carries(h[f], f)
  <2>1. \A f \in Rest : h[f] = Absorbing(f, absorbed(f)) \/ h[f] = f
    OBVIOUS
  <2> HIDE DEF h, absorbed
  <2> QED
    BY <1>3, <2>1 DEF Carries
<1>5. \A l \in losers : l.cites \subseteq h[winner(l)].cites
  <2> TAKE l \in losers
  <2>1. l \in absorbed(winner(l)) /\ winner(l) \in Rest
    BY <1>2
  <2>2. h[winner(l)] = Absorbing(winner(l), absorbed(winner(l)))
    BY <2>1
  <2> HIDE DEF h, absorbed, winner
  <2> QED
    BY <1>3, <2>1, <2>2
<1> HIDE DEF h, absorbed, winner, losers
<1>6. Unrepeated(Rest)
  BY DEF Unrepeated
<1> HIDE DEF Rest
<1>7. Unrepeated(Suppressed(F)) /\ \A p : Holds(Rest, p) => Holds(Suppressed(F), p)
  BY <1>1, <1>4, <1>6, Relabelled
<1>8. \A g \in Suppressed(F) : \E f \in F : Carries(g, f)
  BY <1>1, <1>4 DEF Rest
<1>9. ASSUME NEW p, NEW f \in F, Concludes(f, p) PROVE Holds(Suppressed(F), p)
  <2>1. CASE f \in Rest
    <3>1. Holds(Rest, p)
      BY <1>9, <2>1 DEF Holds
    <3> QED
      BY <1>7, <3>1
  <2>2. CASE f \in losers
    <3> DEFINE w == winner(f)
    <3>1. w \in Rest /\ w # f /\ w.suffix = <<>> /\ f.suffix = <<>> /\ "semantic-override" \in w.tags
      BY <1>2, <2>2
    <3>2. f.cites \subseteq h[w].cites /\ Carries(h[w], w) /\ h[w] \in Suppressed(F)
      BY <1>1, <1>4, <1>5, <2>2, <3>1
    <3> HIDE DEF w
    <3>3. Id(w) = <<w.of.id>> /\ Id(f) = <<f.of.id>>
      BY <3>1, IdTuple
    <3>4. w.of.id # f.of.id
      <4>1. w \in F /\ Id(w) # Id(f)
        BY <3>1 DEF Unrepeated, Rest
      <4> QED
        BY <3>3, <4>1
    <3>5. Absorbs(h[w], p)
      BY <1>9, <3>1, <3>2, <3>4 DEF Carries, Concludes, Absorbs
    <3> QED
      BY <3>2, <3>5 DEF Holds
  <2> QED
    BY <2>1, <2>2 DEF Rest
<1> QED
  BY <1>7, <1>8, <1>9

-----------------------------------------------------------------------------
(* Caveats, clusters, visibility.                                           *)

LEMMA CarriesTransitive ==
  ASSUME NEW f, NEW g, NEW h, Carries(h, g), Carries(g, f)
  PROVE  Carries(h, f)
BY DEF Carries

LEMMA CappedCarries ==
  ASSUME NEW f, Shaped(f), NEW cap, NEW code
  PROVE  Shaped(Capped(f, cap, code)) /\ Carries(Capped(f, cap, code), f)
<1> DEFINE trail == f.trail \union {Change(code, f.sev, cap)}
           g     == [f EXCEPT !.sev = cap, !.disp = "downgraded", !.trail = trail]
<1>1. Capped(f, cap, code) = f \/ Capped(f, cap, code) = g
  BY DEF Capped
<1> HIDE DEF trail
<1>2. Shaped(g) /\ g.of = f.of /\ g.suffix = f.suffix /\ g.cites = f.cites /\ g.tags = f.tags
  BY DEF Shaped, Fields
<1> HIDE DEF g
<1> QED
  BY <1>1, <1>2 DEF Carries

LEMMA CaveatCarries ==
  ASSUME NEW s, NEW f, Shaped(f)
  PROVE  LET g == Caveat(s, Unfinal(s, f)) IN Shaped(g) /\ Carries(g, f)
<1> DEFINE u == Unfinal(s, f)
<1>1. Shaped(u) /\ Carries(u, f)
  <2>1. Carries(f, f)
    BY DEF Carries
  <2> QED
    BY <2>1, CappedCarries DEF Unfinal
<1> HIDE DEF u
<1> DEFINE current == Flagged(Matching(s, u), "current") # {}
           capped == Capped(u, IF current THEN Note ELSE Warn, "runtime-resource-mutator-observed")
           conf   == IF current THEN MinOf((capped.conf * 7) \div 10, 70)
                     ELSE MinOf((capped.conf * 85) \div 100, 85)
           tags   == capped.tags \union {"runtime-script-caveat"}
           g      == [capped EXCEPT !.disp = "downgraded", !.conf = conf, !.tags = tags]
<1>2. Caveat(s, u) = IF Matching(s, u) = {} THEN u ELSE g
  BY DEF Caveat
<1>3. Shaped(capped) /\ Carries(capped, u) /\ capped.tags \subseteq tags
  BY <1>1, CappedCarries
<1> HIDE DEF capped, conf, tags
<1>4. Shaped(g) /\ g.of = capped.of /\ g.suffix = capped.suffix /\ g.cites = capped.cites /\ g.tags = tags
  BY <1>3 DEF Shaped, Fields
<1> HIDE DEF g
<1>5. Carries(g, capped)
  BY <1>3, <1>4 DEF Carries
<1>6. Carries(g, f)
  BY <1>1, <1>3, <1>5, CarriesTransitive
<1> QED
  BY <1>1, <1>2, <1>4, <1>6 DEF u

LEMMA DetailCarries ==
  ASSUME NEW f, Shaped(f)
  PROVE  Shaped(Detail(f)) /\ Carries(Detail(f), f)
<1> DEFINE tags == f.tags \union {"clustered-detail"}
           g    == [f EXCEPT !.vis = "explain-only", !.tags = tags]
<1>1. f.tags \subseteq tags
  OBVIOUS
<1> HIDE DEF tags
<1>2. Shaped(g) /\ g.of = f.of /\ g.suffix = f.suffix /\ g.cites = f.cites /\ g.tags = tags
  BY DEF Shaped, Fields
<1> HIDE DEF g
<1>3. Shaped(g) /\ Carries(g, f)
  BY <1>1, <1>2 DEF Carries
<1> QED
  BY <1>3 DEF g, tags, Detail

LEMMA ShownCarries ==
  ASSUME NEW f, Shaped(f), NEW vis
  PROVE  Carries([f EXCEPT !.vis = vis], f)
BY DEF Carries, Shaped, Fields

Passes == {"recipe", "resource-conflict", "loader-mismatch"}

\* The cards there are were made by these passes.
CardsOf(F, passes) == \A f \in F : f.of.id = ClusterId => \E q \in passes : \E k : f.suffix = <<q, k>>

\* What holds of the findings between the passes.
Settled(F, passes) == /\ Unrepeated(F) /\ CardsOf(F, passes)
                      /\ \A f \in F : Shaped(f) /\ Suffixed(f)

LEMMA ClustersConserve ==
  ASSUME NEW passes \in SUBSET Passes, NEW pass \in Passes, pass \notin passes,
         NEW F, NEW C, ClustersOf(pass, F, C), Settled(F, passes)
  PROVE  /\ Settled(C, passes \union {pass})
         /\ \A p : Holds(F, p) => Holds(C, p)
<1>1. PICK D, K, group, sev, n : C = Details(F, D) \union Cards(pass, K, group, sev, n)
  BY DEF ClustersOf
<1> DEFINE h    == [f \in F |-> IF f \in D THEN Detail(f) ELSE f]
           card == [k \in K |-> Card(group[k], <<pass, k>>, sev[k], n[k])]
           A    == {h[f] : f \in F}
           B    == {card[k] : k \in K}
<1>2. C = A \union B
  BY <1>1 DEF Details, Cards
<1>3. \A f \in F : Shaped(h[f]) /\ Carries(h[f], f)
  <2>1. \A f \in F : Shaped(f) /\ Carries(f, f)
    BY DEF Settled, Carries
  <2> QED
    BY <2>1, DetailCarries
<1>4. ASSUME NEW k \in K
      PROVE  /\ card[k].of.id = ClusterId /\ card[k].suffix = <<pass, k>>
             /\ Shaped(card[k]) /\ Suffixed(card[k]) /\ Id(card[k]) = <<ClusterId, pass, k>>
  <2>1. /\ card[k].suffix = <<pass, k>> /\ Shaped(card[k])
        /\ card[k].of.id = ClusterId
    BY DEF Card, Shaped, Fields
  <2>2. Suffixed(card[k])
    BY <2>1 DEF Suffixed, Passes
  <2>3. Id(card[k]) = <<ClusterId, pass, k>>
    BY <2>1, IdTuple
  <2> QED
    BY <2>1, <2>2, <2>3
<1>5. \A f \in F : Suffixed(f) /\ Unrepeated(F) /\ CardsOf(F, passes)
  BY DEF Settled
<1> HIDE DEF h, card
<1>6. Unrepeated(A) /\ \A p : Holds(F, p) => Holds(A, p)
  BY <1>3, <1>5, Relabelled DEF Settled
<1>7. ASSUME NEW f \in F, NEW k \in K PROVE Id(h[f]) # Id(card[k])
  <2> SUFFICES ASSUME Id(f) = <<ClusterId, pass, k>> PROVE FALSE
    BY <1>3, <1>4, CarriesId
  <2>1. f.of.id = ClusterId
    BY <1>5, IdHead
  <2>0. PICK q \in passes : \E j : f.suffix = <<q, j>>
    BY <1>5, <2>1 DEF CardsOf
  <2>2. PICK j : f.suffix = <<q, j>>
    BY <2>0
  <2>3. Id(f) = <<ClusterId, q, j>>
    BY <2>1, <2>2, IdTuple
  <2> QED
    BY <2>3
<1>8. Unrepeated(C)
  <2>1. \A j, k \in K : Id(card[j]) = Id(card[k]) => j = k
    BY <1>4
  <2> QED
    BY <1>2, <1>6, <1>7, <2>1 DEF Unrepeated
<1>9. \A g \in C : Shaped(g) /\ Suffixed(g)
  BY <1>2, <1>3, <1>4, <1>5, CarriesId
<1>10. CardsOf(C, passes \union {pass})
  <2>1. \A f \in F : h[f].of.id = ClusterId => \E q \in passes : \E k : h[f].suffix = <<q, k>>
    BY <1>3, <1>5 DEF CardsOf, Carries
  <2> QED
    BY <1>2, <1>4, <2>1 DEF CardsOf
<1>11. \A p : Holds(A, p) => Holds(C, p)
  BY <1>2 DEF Holds
<1> QED
  BY <1>6, <1>8, <1>9, <1>10, <1>11 DEF Settled

LEMMA TriagedConserves ==
  ASSUME NEW s, NEW F, IsFiniteSet(F), \A f \in F : Shaped(f) /\ Graded(f) /\ Unmerged(f)
  PROVE  /\ Unrepeated(Triaged(s, MergedById(F)))
         /\ \A f \in F : Holds(Triaged(s, MergedById(F)), f)
<1> DEFINE A == MergedById(F)
           B == Suppressed(A)
           C == WithCaveats(s, B)
           D == RecipeClusters(s, C)
           E == ConflictClusters(s, D)
           G == LoaderClusters(s, E)
<1>1. Triaged(s, A) = Shown(G)
  BY DEF Triaged, ClusteredAll
<1>2. /\ IsFiniteSet(A) /\ Unrepeated(A) /\ \A m \in A : Shaped(m) /\ Graded(m)
      /\ \A m \in A : Suffixed(m) /\ m.of.id # ClusterId
      /\ \A f \in F : \E m \in A : Concludes(m, f)
  BY MergedFinite, MergedSame, MergedConserves
<1> HIDE DEF A
<1>3. /\ Unrepeated(B) /\ \A f \in F : Holds(B, f)
      /\ \A g \in B : Shaped(g) /\ Suffixed(g) /\ g.of.id # ClusterId
  <2>1. \A g \in B : \E f \in A : Carries(g, f)
    BY <1>2, SuppressedConserves
  <2>2. \A g \in B : Shaped(g)
    BY <1>2, SuppressedSame
  <2>3. Unrepeated(B) /\ \A f \in F : Holds(B, f)
    BY <1>2, SuppressedConserves
  <2> HIDE DEF B
  <2>4. \A g \in B : Suffixed(g) /\ g.of.id # ClusterId
    BY <1>2, <2>1, CarriesId DEF Carries
  <2> QED
    BY <2>2, <2>3, <2>4
<1> HIDE DEF B
<1>4. Settled(C, {}) /\ \A f \in F : Holds(C, f)
  <2> DEFINE h == [f \in B |-> Caveat(s, Unfinal(s, f))]
  <2>1. \A f \in B : Shaped(h[f]) /\ Carries(h[f], f)
    BY <1>3, CaveatCarries
  <2>2. C = {h[f] : f \in B}
    BY DEF WithCaveats
  <2> HIDE DEF h, C
  <2>3. Unrepeated(C) /\ \A f \in F : Holds(C, f)
    BY <1>3, <2>1, <2>2, Relabelled
  <2>4. \A g \in C : Shaped(g) /\ Suffixed(g) /\ g.of.id # ClusterId
    <3>1. \A f \in B : Suffixed(h[f]) /\ h[f].of = f.of
      BY <1>3, <2>1, CarriesId DEF Carries
    <3> QED
      BY <1>3, <2>1, <2>2, <3>1
  <2> QED
    BY <2>3, <2>4 DEF Settled, CardsOf
<1> HIDE DEF C
<1>5. Settled(D, {"recipe"}) /\ \A f \in F : Holds(D, f)
  <2>1. ClustersOf("recipe", C, D) /\ {} \in SUBSET Passes /\ "recipe" \in Passes /\ "recipe" \notin {}
    BY RecipeClustered DEF Passes
  <2> HIDE DEF D
  <2>2. Settled(D, {} \union {"recipe"}) /\ \A p : Holds(C, p) => Holds(D, p)
    BY <1>4, <2>1, ClustersConserve
  <2> QED
    BY <1>4, <2>2
<1> HIDE DEF D
<1>6. Settled(E, {"recipe", "resource-conflict"}) /\ \A f \in F : Holds(E, f)
  <2>1. /\ ClustersOf("resource-conflict", D, E) /\ {"recipe"} \in SUBSET Passes
        /\ "resource-conflict" \in Passes /\ "resource-conflict" \notin {"recipe"}
    BY ConflictClustered DEF Passes
  <2> HIDE DEF E
  <2>2. Settled(E, {"recipe"} \union {"resource-conflict"}) /\ \A p : Holds(D, p) => Holds(E, p)
    BY <1>5, <2>1, ClustersConserve
  <2>3. {"recipe"} \union {"resource-conflict"} = {"recipe", "resource-conflict"}
    OBVIOUS
  <2> QED
    BY <1>5, <2>2, <2>3
<1> HIDE DEF E
<1>7. Settled(G, Passes) /\ \A f \in F : Holds(G, f)
  <2>1. /\ ClustersOf("loader-mismatch", E, G) /\ {"recipe", "resource-conflict"} \in SUBSET Passes
        /\ "loader-mismatch" \in Passes /\ "loader-mismatch" \notin {"recipe", "resource-conflict"}
    BY LoaderClustered DEF Passes
  <2> HIDE DEF G
  <2>2. /\ Settled(G, {"recipe", "resource-conflict"} \union {"loader-mismatch"})
        /\ \A p : Holds(E, p) => Holds(G, p)
    BY <1>6, <2>1, ClustersConserve
  <2>3. {"recipe", "resource-conflict"} \union {"loader-mismatch"} = Passes
    BY DEF Passes
  <2> QED
    BY <1>6, <2>2, <2>3
<1> HIDE DEF G
<1>8. Unrepeated(Shown(G)) /\ \A f \in F : Holds(Shown(G), f)
  <2> DEFINE h == [f \in G |-> [f EXCEPT !.vis = Visibility(f)]]
  <2>1. \A f \in G : Carries(h[f], f)
    BY <1>7, ShownCarries DEF Settled
  <2>2. Shown(G) = {h[f] : f \in G}
    BY DEF Shown
  <2> HIDE DEF h
  <2> QED
    BY <1>7, <2>1, <2>2, Relabelled DEF Settled
<1> QED
  BY <1>1, <1>8 DEF A

-----------------------------------------------------------------------------
(* The invariant: until the report, a finding of its own stands for each    *)
(* proposal, under its identifier and with what it cited.                   *)

StandsFor(f, p) == f.of = p.of /\ p.cites \subseteq f.cites

ConservedInv ==
  /\ stage \in {"collect", "observe", "rules", "notice", "assess", "reconcile"}
       => \A f \in findings : f.suffix = <<>> /\ f.of.id # ClusterId
  /\ stage \in {"compact", "report"} => \A f \in findings : Unmerged(f)
  /\ stage \in {"assess", "reconcile", "compact", "report"}
       => \A p \in proposed : \E f \in findings : StandsFor(f, p)
  /\ stage = "done" => EvidenceConserved

LEMMA AssessKeeps ==
  ASSUME NEW s, NEW st, NEW t, NEW inc, NEW f, Shaped(f)
  PROVE  Assess(s, st, t, inc, f).suffix = f.suffix
<1> DEFINE blockers == Blockers(s, st, t, inc, f)
           coverage == {Coverage(s, st, t, Region(s, f, r)) : r \in f.reqs}
           unended  == f.sev = Fatal /\ "terminal-runtime" \notin f.reqs
           gated    == blockers # {} /\ f.sev >= Error
           sev      == IF gated THEN Warn ELSE IF unended THEN Error ELSE f.sev
           conf     == IF gated THEN MinOf(f.conf, 65) ELSE f.conf
           disp     == IF unended \/ f.disp = "downgraded" THEN "downgraded"
                       ELSE IF blockers # {} THEN "abstained" ELSE "asserted"
           cert     == IF blockers = {} THEN Certainty(f)
                       ELSE IF "unavailable" \in coverage THEN "unavailable" ELSE "undecidable"
           tags     == IF blockers # {} THEN f.tags \union {"why-not-error"} ELSE f.tags
           trail    == f.trail \union (IF unended THEN {Change("fatal-requires-terminal-runtime", Fatal, Error)} ELSE {})
                         \union (IF gated THEN {Change("hard-error-gated", f.sev, Warn)} ELSE {})
           g        == Assess(s, st, t, inc, f)
<1>1. g = [f EXCEPT !.sev = sev, !.conf = conf, !.disp = disp, !.cert = cert,
                    !.blockers = blockers, !.coverage = coverage, !.tags = tags, !.trail = trail]
  BY DEF Assess
<1> HIDE DEF sev, conf, disp, cert, blockers, coverage, tags, trail, g
<1>2. g.suffix = f.suffix
  BY <1>1 DEF Shaped, Fields
<1> QED
  BY <1>2 DEF g

LEMMA ReconcileKeeps ==
  ASSUME NEW s, NEW f, Shaped(f), f.suffix = <<>>
  PROVE  Reconcile(s, f).suffix \in {<<>>, <<"superseded">>}
<1> DEFINE R      == Refuters(s, f)
           low    == IF f.of.conclusion = "dependency-unused" THEN Info ELSE Note
           conf   == MinOf(f.conf, 20)
           tags   == f.tags \union {"runtime-contradicted"}
           trail  == f.trail \union {Refutation(f, low, R)}
           suffix == IF f.of.conclusion = "loader-mismatch" THEN Append(f.suffix, "superseded") ELSE f.suffix
           g      == Invalidated(f, R)
<1>1. g = [f EXCEPT !.sev = low, !.conf = conf, !.vis = "explain-only", !.disp = "abstained",
                    !.cert = "undecidable", !.tags = tags, !.trail = trail, !.suffix = suffix]
  BY DEF Invalidated
<1>2. suffix \in {<<>>, <<"superseded">>}
  <2>1. Append(<<>>, "superseded") = <<"superseded">>
    OBVIOUS
  <2> QED
    BY <2>1
<1> HIDE DEF low, conf, tags, trail, suffix, g
<1>3. g.suffix = suffix
  BY <1>1 DEF Shaped, Fields
<1> QED
  BY <1>2, <1>3 DEF Reconcile, g

LEMMA ContractedKeeps ==
  ASSUME NEW p, NEW n
  PROVE  Contracted(p, n).of = p /\ Contracted(p, n).suffix = <<>>
<1> DEFINE f   == New(p, n)
           sev == IF BadProof(p) \/ Undeclarable(p) THEN MinOf(f.sev, Warn) ELSE f.sev
           tags == f.tags \union (IF BadProof(p) THEN {"rule-proof-contract-violation"} ELSE {})
                     \union (IF Undeclarable(p) THEN {"rule-coverage-contract-violation"} ELSE {})
<1>1. Shaped(f) /\ f.of = p /\ f.suffix = <<>>
  BY NewShaped DEF New
<1>2. Contracted(p, n) = [f EXCEPT !.sev = sev, !.tags = tags]
  BY DEF Contracted
<1> HIDE DEF f, sev, tags
<1> QED
  BY <1>1, <1>2 DEF Shaped, Fields

LEMMA ConservedStep ==
  ASSUME DoctorInv, ConservedInv, [Next]_vars
  PROVE  ConservedInv'
<1>1. CASE UNCHANGED vars
  BY <1>1 DEF vars, ConservedInv, EvidenceConserved
<1>2. ASSUME UNCHANGED findings, stage \in {"collect", "observe", "rules", "notice"},
             stage' \in {"collect", "observe", "rules", "notice"}
      PROVE  ConservedInv'
  BY <1>2 DEF ConservedInv
<1>3. CASE Start \/ RuleFails \/ (\E o \in Observations : Observe(o))
           \/ (\E ended \in Ran : Finish(ended)) \/ (\E why \in NotRun : Skip(why))
  BY <1>2, <1>3 DEF Start, RuleFails, Observe, Finish, Skip, NextCollector, NextRule
<1>4. ASSUME stage = "rules", NEW batch \in Rule.batches, Evaluate(batch) PROVE ConservedInv'
  <2>1. /\ stage' \in {"rules", "notice"}
        /\ findings' = findings \union {Contracted(batch[i], Cardinality(findings) + i) : i \in DOMAIN batch}
    BY <1>4 DEF Evaluate, NextRule
  <2>2. \A i \in DOMAIN batch : batch[i].id # ClusterId
    BY <1>4, EnginesAssumption DEF DoctorInv, StoresInv, Rule
  <2>3. \A i \in DOMAIN batch : LET f == Contracted(batch[i], Cardinality(findings) + i)
                                IN  f.suffix = <<>> /\ f.of.id # ClusterId
    BY <2>2, ContractedKeeps
  <2>4. \A f \in findings' : f.suffix = <<>> /\ f.of.id # ClusterId
    BY <1>4, <2>1, <2>3 DEF ConservedInv
  <2> QED
    BY <2>1, <2>4 DEF ConservedInv
<1>5. CASE Notice
  <2>1. /\ stage = "notice" /\ stage' = "assess" /\ proposed' = findings'
        /\ findings' = findings \union (IF incremental THEN {New(Partial, Cardinality(findings) + 1)} ELSE {})
    BY <1>5 DEF Notice
  <2>2. LET f == New(Partial, Cardinality(findings) + 1) IN f.suffix = <<>> /\ f.of.id # ClusterId
    BY DEF New, Partial, ClusterId
  <2>3. \A f \in findings' : f.suffix = <<>> /\ f.of.id # ClusterId
    BY <2>1, <2>2 DEF ConservedInv
  <2> QED
    BY <2>1, <2>3 DEF ConservedInv, StandsFor
<1>6. CASE AssessFindings
  <2>1. /\ stage = "assess" /\ stage' = "reconcile" /\ proposed' = proposed
        /\ findings' = {Assess(store, status, target, incremental, f) : f \in findings}
    BY <1>6 DEF AssessFindings
  <2>2. \A f \in findings : LET g == Assess(store, status, target, incremental, f)
                            IN  g.of = f.of /\ g.cites = f.cites /\ g.suffix = f.suffix
    BY <2>1, AssessFields, AssessKeeps DEF DoctorInv, FindingsInv
  <2>3. \A f \in findings' : f.suffix = <<>> /\ f.of.id # ClusterId
    BY <2>1, <2>2 DEF ConservedInv
  <2>4. \A f \in findings : \E g \in findings' : g.of = f.of /\ g.cites = f.cites
    BY <2>1, <2>2
  <2>5. \A p \in proposed' : \E f \in findings' : StandsFor(f, p)
    BY <2>1, <2>4 DEF ConservedInv, StandsFor
  <2> QED
    BY <2>1, <2>3, <2>5 DEF ConservedInv
<1>7. CASE ReconcileFindings
  <2>1. /\ stage = "reconcile" /\ stage' = "compact" /\ proposed' = proposed
        /\ findings' = {Reconcile(store, f) : f \in findings}
    BY <1>7 DEF ReconcileFindings
  <2>2. \A f \in findings : Shaped(f) /\ f.suffix = <<>> /\ f.of.id # ClusterId
    BY <2>1 DEF ConservedInv, DoctorInv, FindingsInv
  <2>3. \A f \in findings : LET g == Reconcile(store, f)
                            IN  g.of = f.of /\ g.cites = f.cites /\ Unmerged(g)
    BY <2>2, ReconcileFields, ReconcileKeeps DEF Unmerged
  <2>4. \A f \in findings' : Unmerged(f)
    BY <2>1, <2>3
  <2>5. \A f \in findings : \E g \in findings' : g.of = f.of /\ g.cites = f.cites
    BY <2>1, <2>3
  <2>6. \A p \in proposed' : \E f \in findings' : StandsFor(f, p)
    BY <2>1, <2>5 DEF ConservedInv, StandsFor
  <2> QED
    BY <2>1, <2>4, <2>6 DEF ConservedInv
<1>8. CASE CompactFacts
  <2>1. stage = "compact" /\ stage' = "report" /\ proposed' = proposed /\ findings' = findings
    BY <1>8 DEF CompactFacts
  <2> QED
    BY <2>1 DEF ConservedInv
<1>9. CASE Report
  <2>1. /\ stage = "report" /\ stage' = "done" /\ proposed' = proposed
        /\ findings' = Triaged(store, MergedById(findings))
    BY <1>9 DEF Report
  <2>2. IsFiniteSet(findings) /\ \A f \in findings : Shaped(f) /\ Graded(f) /\ Unmerged(f)
    BY <2>1 DEF ConservedInv, DoctorInv, FindingsInv
  <2>3. Unrepeated(findings') /\ \A f \in findings : Holds(findings', f)
    BY <2>1, <2>2, TriagedConserves
  <2>4. \A p \in proposed : Holds(findings', p)
    <3> TAKE p \in proposed
    <3>1. PICK f \in findings : StandsFor(f, p)
      BY <2>1 DEF ConservedInv
    <3>2. PICK g \in findings' : Concludes(g, f) \/ Absorbs(g, f)
      BY <2>3 DEF Holds
    <3>3. Concludes(g, p) \/ Absorbs(g, p)
      BY <3>1, <3>2 DEF StandsFor, Concludes, Absorbs
    <3> QED
      BY <3>3 DEF Holds
  <2>5. EvidenceConserved'
    BY <2>1, <2>3, <2>4 DEF EvidenceConserved, Unrepeated, Holds, Concludes, Absorbs
  <2> QED
    BY <2>1, <2>5 DEF ConservedInv
<1> QED
  BY <1>1, <1>3, <1>4, <1>5, <1>6, <1>7, <1>8, <1>9 DEF Next

\* The report loses no evidence and no conclusion of any rule, whatever the
\* rules propose under whatever identifiers, and names no two findings alike.
THEOREM AlwaysConserved == Spec => []EvidenceConserved
<1>1. Init => ConservedInv
  BY DEF Init, ConservedInv
<1>2. DoctorInv /\ ConservedInv /\ [Next]_vars => ConservedInv'
  BY ConservedStep
<1>3. ConservedInv => EvidenceConserved
  BY DEF ConservedInv, EvidenceConserved
<1> QED
  BY <1>1, <1>2, <1>3, AlwaysDoctorInv, PTL DEF Spec

-----------------------------------------------------------------------------
(* ClusterKeepsVerdict, for engines whose proposals are Modest.             *)

\* The severity of a finding that may cluster, while it is shown.
Tempered(f) ==
  /\ f.of.family \in Recipes   => f.sev <= Warn
  /\ f.of.family \in Documents => f.sev = Warn \/ f.vis # "default"
  /\ f.of.conclusion = "loader-mismatch" => f.sev >= Warn \/ f.vis # "default"
  /\ f.vis # "default" => f.sev <= Note

\* A finding of the rules, hidden by no tag that its proposal does not have.
Plainly(f, P) == f.of \in P /\ f.tags \intersect Hiding \subseteq f.of.tags /\ Tempered(f)

ModestInv == stage # "done" => \A f \in findings : Plainly(f, Proposals(engine))

LEMMA ContractedPlain ==
  ASSUME NEW e \in Engines, Modest(e), NEW p \in Proposals(e), p.sev \in Severity, NEW n
  PROVE  Plainly(Contracted(p, n), Proposals(e)) /\ Plainly(New(p, n), Proposals(e))
<1> DEFINE f    == New(p, n)
           sev  == IF BadProof(p) \/ Undeclarable(p) THEN MinOf(f.sev, Warn) ELSE f.sev
           tags == f.tags \union (IF BadProof(p) THEN {"rule-proof-contract-violation"} ELSE {})
                     \union (IF Undeclarable(p) THEN {"rule-coverage-contract-violation"} ELSE {})
           g    == Contracted(p, n)
<1>1. f.of = p /\ Shaped(f) /\ f.vis = "default" /\ f.sev = p.sev /\ f.tags = p.tags
  BY NewShaped DEF New
<1>2. /\ p.family \in Recipes   => p.sev <= Warn
      /\ p.family \in Documents => p.sev = Warn
      /\ p.conclusion = "loader-mismatch" => p.sev >= Warn
  BY DEF Modest
<1>3. Plainly(f, Proposals(e))
  BY <1>1, <1>2 DEF Plainly, Tempered
<1>4. Contracted(p, n) = [f EXCEPT !.sev = sev, !.tags = tags]
  BY DEF Contracted
<1>5. /\ p.family \in Recipes   => sev <= Warn
      /\ p.family \in Documents => sev = Warn
      /\ p.conclusion = "loader-mismatch" => sev >= Warn
  BY <1>1, <1>2 DEF MinOf, Warn, Severity, Info, Fatal
<1>6. tags \intersect Hiding \subseteq p.tags
  BY <1>1 DEF Hiding
<1> HIDE DEF sev, tags, f
<1>7. g.of = p /\ g.sev = sev /\ g.tags = tags /\ g.vis = "default"
  BY <1>1, <1>4 DEF Shaped, Fields
<1> HIDE DEF g
<1>8. Plainly(g, Proposals(e))
  BY <1>5, <1>6, <1>7 DEF Plainly, Tempered
<1> QED
  BY <1>3, <1>8 DEF f, g

LEMMA AssessPlain ==
  ASSUME NEW s, NEW st, NEW t, NEW inc, NEW f, Shaped(f), Graded(f), NEW P, Plainly(f, P)
  PROVE  Plainly(Assess(s, st, t, inc, f), P)
<1> DEFINE blockers == Blockers(s, st, t, inc, f)
           coverage == {Coverage(s, st, t, Region(s, f, r)) : r \in f.reqs}
           unended  == f.sev = Fatal /\ "terminal-runtime" \notin f.reqs
           gated    == blockers # {} /\ f.sev >= Error
           sev      == IF gated THEN Warn ELSE IF unended THEN Error ELSE f.sev
           conf     == IF gated THEN MinOf(f.conf, 65) ELSE f.conf
           disp     == IF unended \/ f.disp = "downgraded" THEN "downgraded"
                       ELSE IF blockers # {} THEN "abstained" ELSE "asserted"
           cert     == IF blockers = {} THEN Certainty(f)
                       ELSE IF "unavailable" \in coverage THEN "unavailable" ELSE "undecidable"
           tags     == IF blockers # {} THEN f.tags \union {"why-not-error"} ELSE f.tags
           trail    == f.trail \union (IF unended THEN {Change("fatal-requires-terminal-runtime", Fatal, Error)} ELSE {})
                         \union (IF gated THEN {Change("hard-error-gated", f.sev, Warn)} ELSE {})
           g        == Assess(s, st, t, inc, f)
<1>1. g = [f EXCEPT !.sev = sev, !.conf = conf, !.disp = disp, !.cert = cert,
                    !.blockers = blockers, !.coverage = coverage, !.tags = tags, !.trail = trail]
  BY DEF Assess
<1>2. tags \intersect Hiding \subseteq f.tags \intersect Hiding
  BY DEF Hiding
<1>3. /\ f.sev <= Warn => sev = f.sev
      /\ f.sev >= Warn => sev >= Warn
  BY DEF Graded, Severity, Info, Warn, Error, Fatal
<1> HIDE DEF sev, conf, disp, cert, blockers, coverage, tags, trail, g
<1>4. g.of = f.of /\ g.sev = sev /\ g.tags = tags /\ g.vis = f.vis
  BY <1>1 DEF Shaped, Fields
<1>5. Tempered(g)
  BY <1>3, <1>4 DEF Plainly, Tempered, Graded, Severity, Info, Note, Warn, Fatal
<1> QED
  BY <1>2, <1>4, <1>5 DEF Plainly, g

LEMMA ReconcilePlain ==
  ASSUME NEW s, NEW f, Shaped(f), NEW P, Plainly(f, P)
  PROVE  Plainly(Reconcile(s, f), P)
<1> DEFINE R      == Refuters(s, f)
           low    == IF f.of.conclusion = "dependency-unused" THEN Info ELSE Note
           conf   == MinOf(f.conf, 20)
           tags   == f.tags \union {"runtime-contradicted"}
           trail  == f.trail \union {Refutation(f, low, R)}
           suffix == IF f.of.conclusion = "loader-mismatch" THEN Append(f.suffix, "superseded") ELSE f.suffix
           g      == Invalidated(f, R)
<1>1. g = [f EXCEPT !.sev = low, !.conf = conf, !.vis = "explain-only", !.disp = "abstained",
                    !.cert = "undecidable", !.tags = tags, !.trail = trail, !.suffix = suffix]
  BY DEF Invalidated
<1>2. tags \intersect Hiding \subseteq f.tags /\ low <= Note /\ low <= Warn
  BY DEF Hiding, Info, Note, Warn
<1> HIDE DEF low, conf, tags, trail, suffix, g
<1>3. g.of = f.of /\ g.sev = low /\ g.tags = tags /\ g.vis = "explain-only"
  BY <1>1 DEF Shaped, Fields
<1>4. Plainly(g, P)
  BY <1>2, <1>3 DEF Plainly, Tempered
<1> QED
  BY <1>4 DEF Reconcile, g

LEMMA ModestStep ==
  ASSUME \A e \in Engines : Modest(e), DoctorInv, ModestInv, [Next]_vars
  PROVE  ModestInv'
<1> DEFINE P == Proposals(engine)
<1>1. CASE UNCHANGED vars
  BY <1>1 DEF vars, ModestInv
<1>2. ASSUME UNCHANGED <<findings, engine>>, stage # "done" PROVE ModestInv'
  BY <1>2 DEF ModestInv
<1>3. CASE Start \/ RuleFails \/ (\E o \in Observations : Observe(o))
           \/ (\E ended \in Ran : Finish(ended)) \/ (\E why \in NotRun : Skip(why)) \/ CompactFacts
  BY <1>2, <1>3 DEF Start, RuleFails, Observe, Finish, Skip, NextCollector, NextRule, CompactFacts, run
<1>4. engine \in Engines /\ Modest(engine)
  BY DEF DoctorInv, StoresInv
<1>5. ASSUME stage = "rules", NEW batch \in Rule.batches, Evaluate(batch) PROVE ModestInv'
  <2>1. /\ engine' = engine /\ at \in DOMAIN engine.rules
        /\ findings' = findings \union {Contracted(batch[i], Cardinality(findings) + i) : i \in DOMAIN batch}
    BY <1>5 DEF Evaluate, DoctorInv, StoresInv, run
  <2>2. \A i \in DOMAIN batch : batch[i] \in P /\ batch[i].sev \in Severity
    <3>1. \A i \in DOMAIN batch : batch[i] \in P
      BY <1>5, <2>1 DEF Proposals, Rule
    <3> QED
      BY <1>4, <1>5, <2>1, <3>1, EnginesAssumption DEF Rule
  <2>3. \A i \in DOMAIN batch : Plainly(Contracted(batch[i], Cardinality(findings) + i), P)
    BY <1>4, <2>2, ContractedPlain
  <2>4. \A f \in findings' : Plainly(f, P)
    BY <1>5, <2>1, <2>3 DEF ModestInv
  <2> QED
    BY <2>1, <2>4 DEF ModestInv
<1>6. CASE Notice
  <2>1. /\ stage = "notice" /\ engine' = engine
        /\ findings' = findings \union (IF incremental THEN {New(Partial, Cardinality(findings) + 1)} ELSE {})
    BY <1>6 DEF Notice, run
  <2>2. Partial \in P /\ Partial.sev \in Severity
    BY DEF Partial, Proposals, Severity, Info, Note, Fatal
  <2>3. Plainly(New(Partial, Cardinality(findings) + 1), P)
    BY <1>4, <2>2, ContractedPlain
  <2> QED
    BY <2>1, <2>3 DEF ModestInv
<1>7. CASE AssessFindings
  <2>1. /\ stage = "assess" /\ engine' = engine
        /\ findings' = {Assess(store, status, target, incremental, f) : f \in findings}
    BY <1>7 DEF AssessFindings, run
  <2>2. \A f \in findings : Plainly(Assess(store, status, target, incremental, f), P)
    BY <2>1, AssessPlain DEF ModestInv, DoctorInv, FindingsInv
  <2> QED
    BY <2>1, <2>2 DEF ModestInv
<1>8. CASE ReconcileFindings
  <2>1. /\ stage = "reconcile" /\ engine' = engine /\ findings' = {Reconcile(store, f) : f \in findings}
    BY <1>8 DEF ReconcileFindings, run
  <2>2. \A f \in findings : Plainly(Reconcile(store, f), P)
    BY <2>1, ReconcilePlain DEF ModestInv, DoctorInv, FindingsInv
  <2> QED
    BY <2>1, <2>2 DEF ModestInv
<1>9. CASE Report
  BY <1>9 DEF Report, ModestInv
<1> QED
  BY <1>1, <1>3, <1>5, <1>6, <1>7, <1>8, <1>9 DEF Next

-----------------------------------------------------------------------------
(* What merging, suppression and caveats leave of it.                       *)

\* A tag that hides is that of a proposal of the same identifier.
Tagged(f, P) == \A t \in f.tags \intersect Hiding : \E q \in P : q.id = f.of.id /\ t \in q.tags

LEMMA RenamedPlain ==
  ASSUME NEW F, NEW P, \A f \in F : Shaped(f) /\ Graded(f) /\ Unmerged(f) /\ Plainly(f, P)
  PROVE  \A f \in Renamed(F) : Shaped(f) /\ Graded(f) /\ Suffixed(f) /\ Plainly(f, P)
<1> TAKE r \in Renamed(F)
<1>1. PICK f \in F : r = IF Collides(F, f) THEN [f EXCEPT !.suffix = @ \o <<"collision", f.of.payload>>] ELSE f
  BY DEF Renamed
<1>2. /\ Shaped(r) /\ Suffixed(r) /\ r.of = f.of /\ r.sev = f.sev /\ r.n = f.n
  BY <1>1, RenamedFields
<1>3. r.tags = f.tags /\ r.vis = f.vis
  BY <1>1 DEF Shaped, Fields
<1> QED
  BY <1>2, <1>3 DEF Plainly, Tempered, Graded

\* What a finding that absorbs others keeps.
LEMMA AbsorbingFields ==
  ASSUME NEW w, Shaped(w), NEW G
  PROVE  LET a == Absorbing(w, G)
         IN  /\ Shaped(a) /\ a.of = w.of /\ a.sev = w.sev /\ a.vis = w.vis /\ a.n = w.n /\ a.suffix = w.suffix
             /\ a.tags = UNION {f.tags : f \in G \union {w}}
<1> DEFINE cites == UNION {f.cites : f \in G \union {w}}
           tags  == UNION {f.tags : f \in G \union {w}}
           reqs  == UNION {f.reqs : f \in G \union {w}}
           a     == [w EXCEPT !.cites = cites, !.tags = tags, !.reqs = reqs]
<1> HIDE DEF cites, tags, reqs
<1>1. /\ Shaped(a) /\ a.of = w.of /\ a.sev = w.sev /\ a.vis = w.vis /\ a.n = w.n /\ a.suffix = w.suffix
      /\ a.tags = tags
  BY DEF Shaped, Fields
<1> HIDE DEF a
<1> QED
  BY <1>1 DEF a, cites, tags, reqs, Absorbing

LEMMA MergedPlain ==
  ASSUME NEW F, NEW P, \A f \in F : Shaped(f) /\ Graded(f) /\ Unmerged(f) /\ Plainly(f, P)
  PROVE  \A m \in MergedById(F) : Shaped(m) /\ Graded(m) /\ m.of \in P /\ Tempered(m) /\ Tagged(m, P)
<1> TAKE m \in MergedById(F)
<1>1. PICK f \in Renamed(F) : LET G == {g \in Renamed(F) : Id(g) = Id(f)} IN m = Absorbing(Winner(G), G)
  BY DEF MergedById
<1> DEFINE G == {g \in Renamed(F) : Id(g) = Id(f)}
           w == Winner(G)
<1>2. \A g \in G : Shaped(g) /\ Graded(g) /\ Suffixed(g) /\ Plainly(g, P) /\ Id(g) = Id(f)
  BY RenamedPlain
<1>3. f \in G
  OBVIOUS
<1> HIDE DEF G
<1>4. w \in G
  BY <1>2, <1>3, WinnerIsOne
<1>5. m = Absorbing(w, G)
  BY <1>1 DEF G
<1> HIDE DEF w
<1>6. /\ Shaped(m) /\ m.of = w.of /\ m.sev = w.sev /\ m.vis = w.vis /\ m.n = w.n
      /\ m.tags = UNION {g.tags : g \in G \union {w}}
  BY <1>2, <1>4, <1>5, AbsorbingFields
<1>7. \A g \in G : g.of.id = w.of.id
  BY <1>2, <1>4, IdHead
<1>8. Tagged(m, P)
  BY <1>2, <1>4, <1>6, <1>7 DEF Tagged, Plainly
<1> QED
  BY <1>2, <1>4, <1>6, <1>8 DEF Plainly, Tempered, Graded

\* What a finding of a proposal is when it comes to the clusters: tempered, shown
\* unless its visibility says otherwise if it may cluster, of one kind at most.
Bare(f)  == Grouped(f.of) => f.tags \intersect Hiding = {}
Apart(f) == f.of.conclusion = "loader-mismatch" =>
              f.of.family \notin Recipes \union Documents \union {"loot-table-output-override"}
Calm(f)  == Shaped(f) /\ Graded(f) /\ Tempered(f) /\ Bare(f) /\ Apart(f)

LEMMA SuppressedPlain ==
  ASSUME NEW e, Modest(e), NEW A, IsFiniteSet(A), NEW P, P = Proposals(e),
         \A f \in A : Shaped(f) /\ Graded(f) /\ f.of \in P /\ Tempered(f) /\ Tagged(f, P)
  PROVE  \A x \in Suppressed(A) : Calm(x)
<1> DEFINE rivals(f) == {w \in Overrides(A) : Path(w) = Path(f)}
           winner(f) == Latest(rivals(f))
           losers    == {f \in Conflicts(A) : (\E w \in Overrides(A) : Path(w) = Path(f)) /\ winner(f) # f}
           absorbed(f) == {l \in losers : winner(l) = f}
<1>1. ASSUME NEW l \in losers
      PROVE  l \in A /\ l.of.family \in ResourceConflicts /\ Path(winner(l)) = Path(l)
  <2>1. rivals(l) # {} /\ rivals(l) \in SUBSET A /\ l \in A /\ l.of.family \in ResourceConflicts
    BY DEF Overrides, Conflicts
  <2>2. IsFiniteSet(rivals(l)) /\ \A w \in rivals(l) : Graded(w)
    BY <2>1, FS_Subset
  <2> DEFINE R == rivals(l)
  <2>3. Latest(R) \in R
    <3> HIDE DEF R
    <3> QED
      BY <2>1, <2>2, LatestIn DEF R
  <2> QED
    BY <2>1, <2>3
<1>2. \A x \in Suppressed(A) : \E f \in A : x = Absorbing(f, absorbed(f)) \/ x = f
  BY DEF Suppressed
<1>3. \A f \in A : \A l \in absorbed(f) : l \in A /\ l.of.family \in ResourceConflicts /\ Path(f) = Path(l)
  BY <1>1
<1> HIDE DEF absorbed
<1>4. ASSUME NEW f \in A, Grouped(f.of), NEW t \in Hiding
      PROVE  t \notin f.tags /\ \A l \in absorbed(f) : t \notin l.tags
  <2>1. t \notin f.tags
    <3>1. \A q \in P : t \in q.tags => q.id # f.of.id
      BY <1>4 DEF Modest
    <3> QED
      BY <3>1 DEF Tagged
  <2>2. ASSUME NEW l \in absorbed(f), t \in l.tags PROVE FALSE
    <3>1. l \in A /\ l.of \in P /\ l.of.family \in ResourceConflicts /\ f.of.components[1] = l.of.components[1]
      BY <1>3 DEF Path
    <3>2. PICK q \in P : q.id = l.of.id /\ t \in q.tags
      BY <2>2, <3>1 DEF Tagged
    <3>3. \A r \in P : r.id = q.id /\ r.family \in ResourceConflicts => r.components[1] # f.of.components[1]
      BY <1>4, <3>2 DEF Modest
    <3> QED
      BY <3>1, <3>2, <3>3
  <2> QED
    BY <2>1, <2>2
<1>5. \A f \in A : Apart(f) /\ Bare(f)
  BY <1>4 DEF Modest, Apart, Bare
<1>6. ASSUME NEW f \in A PROVE Calm(Absorbing(f, absorbed(f)))
  <2> DEFINE a == Absorbing(f, absorbed(f))
  <2>1. /\ Shaped(a) /\ a.of = f.of /\ a.sev = f.sev /\ a.vis = f.vis /\ a.n = f.n
        /\ a.tags = UNION {g.tags : g \in absorbed(f) \union {f}}
    BY AbsorbingFields
  <2> HIDE DEF a
  <2>2. Grouped(a.of) => a.tags \intersect Hiding = {}
    BY <1>4, <2>1
  <2> QED
    BY <1>5, <2>1, <2>2 DEF Calm, Tempered, Graded, Bare, Apart, a
<1> QED
  BY <1>2, <1>5, <1>6 DEF Calm

\* A cap at a warning, or at a note of what is neither a document nor a loader.
LEMMA CappedCalm ==
  ASSUME NEW f, Calm(f), NEW cap \in {Note, Warn}, NEW code,
         cap = Note => f.of.family \notin Documents /\ f.of.conclusion # "loader-mismatch"
  PROVE  LET g == Capped(f, cap, code) IN Calm(g) /\ g.of = f.of
<1> DEFINE trail == f.trail \union {Change(code, f.sev, cap)}
           g     == [f EXCEPT !.sev = cap, !.disp = "downgraded", !.trail = trail]
<1>1. CASE f.sev <= cap
  BY <1>1 DEF Capped
<1>2. CASE ~(f.sev <= cap)
  <2>1. Capped(f, cap, code) = g
    BY <1>2 DEF Capped
  <2> HIDE DEF trail
  <2>2. Shaped(g) /\ g.of = f.of /\ g.sev = cap /\ g.vis = f.vis /\ g.tags = f.tags /\ g.n = f.n
    BY DEF Calm, Shaped, Fields
  <2> HIDE DEF g
  <2>3. Graded(g) /\ Bare(g) /\ Apart(g)
    BY <2>2 DEF Calm, Graded, Severity, Info, Note, Warn, Fatal, Bare, Apart
  <2>4. Tempered(g)
    BY <1>2, <2>2 DEF Calm, Tempered, Graded, Severity, Info, Note, Warn, Fatal
  <2> QED
    BY <2>1, <2>2, <2>3, <2>4 DEF Calm
<1> QED
  BY <1>1, <1>2

LEMMA CaveatCalm ==
  ASSUME NEW s, NEW f, Calm(f)
  PROVE  Calm(Caveat(s, Unfinal(s, f)))
<1> DEFINE u == Unfinal(s, f)
<1>1. Calm(u)
  BY CappedCalm DEF Unfinal, Note, Warn
<1> HIDE DEF u
<1> DEFINE current == Flagged(Matching(s, u), "current") # {}
           capped == Capped(u, IF current THEN Note ELSE Warn, "runtime-resource-mutator-observed")
           conf   == IF current THEN MinOf((capped.conf * 7) \div 10, 70)
                     ELSE MinOf((capped.conf * 85) \div 100, 85)
           tags   == capped.tags \union {"runtime-script-caveat"}
           g      == [capped EXCEPT !.disp = "downgraded", !.conf = conf, !.tags = tags]
<1>2. Caveat(s, u) = IF Matching(s, u) = {} THEN u ELSE g
  BY DEF Caveat
<1>3. CASE Matching(s, u) # {}
  <2>1. u.of.family \in RecipeOverrides \union {"loot-table-output-override"}
    BY <1>3 DEF Matching
  <2>2. u.of.family \notin Documents /\ u.of.conclusion # "loader-mismatch"
    BY <1>1, <2>1 DEF Calm, Apart, Recipes, RecipeOverrides, Documents
  <2>3. Calm(capped)
    BY <1>1, <2>2, CappedCalm
  <2>4. tags \intersect Hiding = capped.tags \intersect Hiding
    BY DEF Hiding
  <2> HIDE DEF capped, conf, tags
  <2>5. Shaped(g) /\ g.of = capped.of /\ g.sev = capped.sev /\ g.vis = capped.vis /\ g.n = capped.n /\ g.tags = tags
    BY <2>3 DEF Calm, Shaped, Fields
  <2> HIDE DEF g
  <2>6. Calm(g)
    BY <2>3, <2>4, <2>5 DEF Calm, Graded, Tempered, Bare, Apart
  <2> QED
    BY <1>2, <1>3, <2>6 DEF u
<1> QED
  BY <1>1, <1>2, <1>3 DEF u

-----------------------------------------------------------------------------
(* What shows, and what a pass of clustering keeps of it.                   *)

Standing(f) == Visibility(f) = "default"
Serious(f)  == Standing(f) /\ f.sev >= Warn

\* What a pass keeps of the verdict of F.
Keeps(F, C) ==
  /\ \A x \in C : Standing(x) => \/ x \in F
                                 \/ /\ ~Incomplete(x) /\ x.sev <= Warn
                                    /\ x.sev = Warn => \E y \in F : Serious(y)
  /\ \A y \in F : Standing(y) /\ ~Incomplete(y) /\ y.sev >= Error => y \in C
  /\ (\E y \in F : Serious(y)) => \E x \in C : Serious(x)

Leveled(F) == \A f \in F : f.sev \in Severity

LEMMA KeepsTransitive ==
  ASSUME NEW F, NEW C, NEW D, Leveled(F), Leveled(C), Keeps(F, C), Keeps(C, D)
  PROVE  Keeps(F, D)
<1>1. (\E y \in C : Serious(y)) => \E y \in F : Serious(y)
  BY DEF Keeps, Serious, Leveled, Severity, Warn, Info, Fatal
<1>2. \A x \in D : Standing(x) => \/ x \in F
                                  \/ /\ ~Incomplete(x) /\ x.sev <= Warn
                                     /\ x.sev = Warn => \E y \in F : Serious(y)
  BY <1>1 DEF Keeps
<1>3. \A y \in F : Standing(y) /\ ~Incomplete(y) /\ y.sev >= Error => y \in D
  BY DEF Keeps
<1>4. (\E y \in F : Serious(y)) => \E x \in D : Serious(x)
  BY DEF Keeps
<1> QED
  BY <1>2, <1>3, <1>4 DEF Keeps

\* The verdict, in terms of what stands.
LEMMA VerdictShown ==
  ASSUME NEW F, \A f \in F : Shaped(f), NEW unsure
  PROVE  Verdict(Shown(F), unsure) =
           IF \E f \in F : Standing(f) /\ ~Incomplete(f) /\ f.sev >= Error THEN 2
           ELSE IF unsure \/ \E f \in F : Standing(f) /\ (Incomplete(f) \/ f.sev = Warn) THEN 1 ELSE 0
<1> DEFINE h == [f \in F |-> [f EXCEPT !.vis = Visibility(f)]]
<1>1. Shown(F) = {h[f] : f \in F}
  BY DEF Shown
<1>2. \A f \in F : /\ h[f].sev = f.sev /\ h[f].vis = Visibility(f)
                   /\ Incomplete(h[f]) = Incomplete(f)
  <2> TAKE f \in F
  <2> DEFINE vis == Visibility(f)
             g   == [f EXCEPT !.vis = vis]
  <2>1. h[f] = g
    OBVIOUS
  <2> HIDE DEF vis, h
  <2>2. /\ g.sev = f.sev /\ g.vis = vis /\ g.blockers = f.blockers /\ g.coverage = f.coverage
        /\ g.disp = f.disp /\ g.cert = f.cert
    BY DEF Shaped, Fields
  <2> HIDE DEF g
  <2>3. Incomplete(g) = Incomplete(f)
    BY <2>2 DEF Incomplete
  <2> QED
    BY <2>1, <2>2, <2>3 DEF vis
<1> HIDE DEF h
<1>3. Confirmed(Shown(F)) # {} <=> \E f \in F : Standing(f) /\ ~Incomplete(f) /\ f.sev >= Error
  BY <1>1, <1>2 DEF Confirmed, Visible, Standing
<1>4. NeedsReview(Shown(F)) # {} \/ (\E x \in Visible(Shown(F)) : Incomplete(x))
        <=> \E f \in F : Standing(f) /\ (Incomplete(f) \/ f.sev = Warn)
  BY <1>1, <1>2 DEF NeedsReview, Visible, Standing
<1> QED
  BY <1>3, <1>4 DEF Verdict

LEMMA KeepsVerdict ==
  ASSUME NEW F, NEW C, Leveled(F), Leveled(C), \A f \in F : Shaped(f), \A f \in C : Shaped(f),
         Keeps(F, C), NEW unsure
  PROVE  /\ Verdict(Shown(C), unsure) <= Verdict(Shown(F), unsure)
         /\ (\E f \in Visible(Shown(F)) : f.sev >= Warn)
              => Verdict(Shown(C), unsure) = Verdict(Shown(F), unsure)
<1> DEFINE Bad(S)   == \E f \in S : Standing(f) /\ ~Incomplete(f) /\ f.sev >= Error
           Doubt(S) == \E f \in S : Standing(f) /\ (Incomplete(f) \/ f.sev = Warn)
<1>1. Bad(C) <=> Bad(F)
  BY DEF Keeps, Leveled, Severity, Info, Warn, Error, Fatal
<1>2. Doubt(C) => Bad(F) \/ Doubt(F)
  <2>1. (\E y \in F : Serious(y)) => Bad(F) \/ Doubt(F)
    BY DEF Serious, Leveled, Severity, Info, Warn, Error, Fatal
  <2> QED
    BY <2>1 DEF Keeps
<1>3. (\E f \in F : Serious(f)) => Bad(C) \/ Doubt(C)
  BY DEF Keeps, Serious, Leveled, Severity, Info, Warn, Error, Fatal
<1>4. (\E f \in Visible(Shown(F)) : f.sev >= Warn) => \E f \in F : Serious(f)
  <2>1. ASSUME NEW f \in F
        PROVE  LET g == [f EXCEPT !.vis = Visibility(f)] IN g.sev = f.sev /\ g.vis = Visibility(f)
    <3> DEFINE vis == Visibility(f)
               g   == [f EXCEPT !.vis = vis]
    <3> HIDE DEF vis
    <3>1. g.sev = f.sev /\ g.vis = vis
      BY DEF Shaped, Fields
    <3> QED
      BY <3>1 DEF vis
  <2> QED
    BY <2>1 DEF Visible, Shown, Serious, Standing
<1> HIDE DEF Bad, Doubt
<1>5. \A S : (\A f \in S : Shaped(f)) =>
        Verdict(Shown(S), unsure) = IF Bad(S) THEN 2 ELSE IF unsure \/ Doubt(S) THEN 1 ELSE 0
  BY VerdictShown DEF Bad, Doubt
<1>6. /\ Verdict(Shown(C), unsure) = IF Bad(C) THEN 2 ELSE IF unsure \/ Doubt(C) THEN 1 ELSE 0
      /\ Verdict(Shown(F), unsure) = IF Bad(F) THEN 2 ELSE IF unsure \/ Doubt(F) THEN 1 ELSE 0
  BY <1>5
<1> QED
  BY <1>1, <1>2, <1>3, <1>4, <1>6

-----------------------------------------------------------------------------
(* The three passes keep the verdict.                                       *)

\* A card always shows, and never as incomplete.
LEMMA CardStands ==
  ASSUME NEW G, NEW name, NEW sev \in Severity, sev <= Warn, NEW n
  PROVE  LET c == Card(G, name, sev, n)
         IN  /\ Shaped(c) /\ c.sev = sev /\ Standing(c) /\ ~Incomplete(c)
             /\ c.of.family = "cluster" /\ c.of.conclusion = "cluster" /\ c.tags = {"cluster"}
<1> DEFINE c == Card(G, name, sev, n)
<1>1. /\ Shaped(c) /\ c.sev = sev /\ c.tags = {"cluster"} /\ c.vis = "default"
      /\ c.blockers = {} /\ c.coverage = {}
      /\ c.of.family = "cluster" /\ c.of.conclusion = "cluster"
  BY DEF Card, Shaped, Fields
<1> HIDE DEF c
<1>2. Standing(c) /\ ~Incomplete(c)
  BY <1>1 DEF Standing, Visibility, Incomplete, Severity, Info, Warn, Error, Fatal
<1> QED
  BY <1>1, <1>2 DEF c

LEMMA DetailFields ==
  ASSUME NEW f, Shaped(f)
  PROVE  LET d == Detail(f)
         IN  /\ Shaped(d) /\ d.of = f.of /\ d.sev = f.sev /\ d.vis = "explain-only"
             /\ ~Standing(d) /\ d.tags = f.tags \union {"clustered-detail"}
<1> DEFINE tags == f.tags \union {"clustered-detail"}
           g    == [f EXCEPT !.vis = "explain-only", !.tags = tags]
<1> HIDE DEF tags
<1>1. Shaped(g) /\ g.of = f.of /\ g.sev = f.sev /\ g.vis = "explain-only" /\ g.tags = tags
  BY DEF Shaped, Fields
<1> HIDE DEF g
<1>2. ~Standing(g)
  BY <1>1 DEF Standing, Visibility
<1> QED
  BY <1>1, <1>2 DEF g, tags, Detail

\* What the passes leave to the next: a shown document warns, a shown foreign
\* loader warns at least, and visibility hides neither.
Even(f) ==
  /\ Shaped(f) /\ f.sev \in Severity /\ Bare(f)
  /\ f.of.family \in Documents => f.sev = Warn \/ f.vis # "default"
  /\ f.of.conclusion = "loader-mismatch" => f.sev >= Warn \/ f.vis # "default"

LEMMA ShownIfGrouped ==
  ASSUME NEW f, Bare(f), Grouped(f.of), f.vis = "default"
  PROVE  Standing(f)
BY DEF Bare, Standing, Visibility, Hiding

\* A pass keeps the verdict if each of its cards has a severity up to a warning,
\* and that of a warning exactly if it stands for a serious finding.
StandFor(E, D, K, group, sev) ==
  /\ D \in SUBSET E /\ \A f \in D : \E k \in K : f \in group[k]
  /\ \A k \in K : /\ group[k] \in SUBSET E /\ sev[k] \in Severity /\ sev[k] <= Warn
                  /\ (\E f \in group[k] : Serious(f)) <=> sev[k] = Warn
  /\ \A f \in E : Standing(f) /\ ~Incomplete(f) => f.sev <= Warn

LEMMA PassKeeps ==
  ASSUME NEW pass, NEW F, NEW E \in SUBSET F, NEW D, NEW K, NEW group, NEW sev, NEW n,
         StandFor(E, D, K, group, sev), \A f \in F : Even(f),
         NEW C, C = Details(F, D) \union Cards(pass, K, group, sev, n)
  PROVE  Keeps(F, C) /\ \A x \in C : Even(x)
<1>1. D \in SUBSET F /\ D \in SUBSET E /\ \A f \in D : \E k \in K : f \in group[k]
  BY DEF StandFor
<1>2. \A k \in K : /\ group[k] \in SUBSET E /\ sev[k] \in Severity /\ sev[k] <= Warn
                   /\ (\E f \in group[k] : Serious(f)) <=> sev[k] = Warn
  BY DEF StandFor
<1>3. \A f \in E : Standing(f) /\ ~Incomplete(f) => f.sev <= Warn
  BY DEF StandFor
<1>4. \A x \in Details(F, D) : (x \in F /\ x \notin D) \/ (\E f \in D : x = Detail(f))
  BY DEF Details
<1>5. \A f \in F : f \notin D => f \in C
  BY <1>1 DEF Details
<1>6. \A x \in Cards(pass, K, group, sev, n) : \E k \in K : x = Card(group[k], <<pass, k>>, sev[k], n[k])
  BY DEF Cards
<1>7. \A k \in K : LET c == Card(group[k], <<pass, k>>, sev[k], n[k])
                   IN  /\ c \in C /\ c.sev = sev[k] /\ Standing(c) /\ ~Incomplete(c)
                       /\ Shaped(c) /\ c.of.family = "cluster" /\ c.of.conclusion = "cluster"
  <2> TAKE k \in K
  <2>1. sev[k] \in Severity /\ sev[k] <= Warn
    BY <1>2
  <2> DEFINE c == Card(group[k], <<pass, k>>, sev[k], n[k])
  <2>2. c \in C
    BY DEF Cards
  <2>3. /\ Shaped(c) /\ c.sev = sev[k] /\ Standing(c) /\ ~Incomplete(c)
        /\ c.of.family = "cluster" /\ c.of.conclusion = "cluster"
    BY <2>1, CardStands
  <2> QED
    BY <2>2, <2>3
<1>8. \A f \in F : ~Standing(Detail(f)) /\ Even(Detail(f))
  <2> TAKE f \in F
  <2> DEFINE d == Detail(f)
  <2>1. /\ Shaped(d) /\ d.of = f.of /\ d.sev = f.sev /\ d.vis = "explain-only"
        /\ ~Standing(d) /\ d.tags = f.tags \union {"clustered-detail"}
    BY DetailFields DEF Even
  <2>2. d.tags \intersect Hiding = f.tags \intersect Hiding
    BY <2>1 DEF Hiding
  <2> HIDE DEF d
  <2>3. Even(d)
    BY <2>1, <2>2 DEF Even, Bare
  <2> QED
    BY <2>1, <2>3 DEF d
<1>9. \A x \in C : Standing(x) => \/ x \in F
                                  \/ /\ ~Incomplete(x) /\ x.sev <= Warn
                                     /\ x.sev = Warn => \E y \in F : Serious(y)
  <2> TAKE x \in C
  <2>1. CASE x \in Details(F, D)
    BY <1>1, <1>4, <1>8, <2>1
  <2>2. CASE x \in Cards(pass, K, group, sev, n)
    BY <1>2, <1>6, <1>7, <2>2
  <2> QED
    BY <2>1, <2>2
<1>10. ASSUME NEW y \in F, Standing(y), ~Incomplete(y), y.sev >= Error PROVE y \in C
  <2>0. y.sev \in Severity
    BY DEF Even
  <2>1. y \notin E
    BY <1>3, <1>10, <2>0 DEF Severity, Info, Warn, Error, Fatal
  <2> QED
    BY <1>1, <1>5, <2>1
<1>11. ASSUME NEW y \in F, Serious(y) PROVE \E x \in C : Serious(x)
  <2>1. CASE y \notin D
    BY <1>5, <1>11, <2>1
  <2>2. CASE y \in D
    <3>1. PICK k \in K : y \in group[k]
      BY <1>1, <2>2
    <3>2. sev[k] = Warn
      BY <1>2, <1>11, <3>1
    <3> DEFINE c == Card(group[k], <<pass, k>>, sev[k], n[k])
    <3>3. c \in C /\ c.sev = sev[k] /\ Standing(c)
      BY <1>7
    <3> HIDE DEF c
    <3> QED
      BY <3>2, <3>3 DEF Serious, Warn
  <2> QED
    BY <2>1, <2>2
<1>12. \A x \in C : Even(x)
  <2> TAKE x \in C
  <2>1. CASE x \in Details(F, D)
    BY <1>1, <1>4, <1>8, <2>1
  <2>2. CASE x \in Cards(pass, K, group, sev, n)
    <3>1. Shaped(x) /\ x.of.family = "cluster" /\ x.of.conclusion = "cluster" /\ x.sev \in Severity
      BY <1>2, <1>6, <1>7, <2>2
    <3> QED
      BY <3>1 DEF Even, Bare, Grouped, Recipes, RecipeOverrides, Documents
  <2> QED
    BY <2>1, <2>2
<1> QED
  BY <1>9, <1>10, <1>11, <1>12 DEF Keeps

\* The most severe of some findings.
LEMMA MaxSeverityIs ==
  ASSUME NEW G, G # {}, Leveled(G)
  PROVE  /\ \E f \in G : f.sev = MaxSeverity(G)
         /\ \A f \in G : f.sev <= MaxSeverity(G)
<1> DEFINE S == {f.sev : f \in G}
<1>1. S # {} /\ \A v \in S : v \in 1 .. 5
  BY DEF Leveled, Severity, Info, Fatal
<1> HIDE DEF S
<1>2. \E v \in S : \A w \in S : v >= w
  <2>1. CASE 5 \in S
    BY <1>1, <2>1
  <2>2. CASE 5 \notin S /\ 4 \in S
    BY <1>1, <2>2
  <2>3. CASE 5 \notin S /\ 4 \notin S /\ 3 \in S
    BY <1>1, <2>3
  <2>4. CASE 5 \notin S /\ 4 \notin S /\ 3 \notin S /\ 2 \in S
    BY <1>1, <2>4
  <2>5. CASE 5 \notin S /\ 4 \notin S /\ 3 \notin S /\ 2 \notin S
    BY <1>1, <2>5
  <2> QED
    BY <2>1, <2>2, <2>3, <2>4, <2>5
<1>3. Max(S) \in S /\ \A w \in S : Max(S) >= w
  BY <1>2 DEF Max
<1>4. \A w \in S : w <= Max(S)
  BY <1>1, <1>3
<1> QED
  BY <1>3, <1>4 DEF S, MaxSeverity

LEMMA RecipesKeep ==
  ASSUME NEW s, NEW F, \A f \in F : Calm(f)
  PROVE  Keeps(F, RecipeClusters(s, F)) /\ \A x \in RecipeClusters(s, F) : Even(x)
<1> DEFINE E == MayRecipe(F)
           C == RecipeClusters(s, F)
<1>1. E \in SUBSET F /\ \A f \in E : f \in F /\ f.of.family \in Recipes
  BY DEF MayRecipe, Recipes
<1>2. ClustersOver("recipe", F, E, C)
  BY RecipeGrouped
<1> HIDE DEF E, C
<1>3. PICK D, K, group, sev, n :
        /\ D \in SUBSET E /\ \A f \in D : \E k \in K : f \in group[k]
        /\ \A k \in K : group[k] \in SUBSET E /\ group[k] # {} /\ sev[k] = MaxSeverity(group[k])
        /\ C = Details(F, D) \union Cards("recipe", K, group, sev, n)
  BY <1>2 DEF ClustersOver
<1>4. \A f \in E : f.sev \in Severity /\ f.sev <= Warn /\ (f.sev = Warn => Serious(f))
  <2> TAKE f \in E
  <2>1. f.sev \in Severity /\ f.sev <= Warn /\ Bare(f) /\ Grouped(f.of) /\ (f.vis # "default" => f.sev <= Note)
    BY <1>1 DEF Calm, Tempered, Graded, Grouped
  <2>2. f.sev = Warn => f.vis = "default"
    BY <2>1 DEF Note, Warn
  <2>3. f.sev = Warn => f.sev >= Warn
    BY DEF Warn
  <2> QED
    BY <2>1, <2>2, <2>3, ShownIfGrouped DEF Serious
<1>5. \A k \in K : /\ sev[k] \in Severity /\ sev[k] <= Warn
                   /\ (\E f \in group[k] : Serious(f)) <=> sev[k] = Warn
  <2> TAKE k \in K
  <2>1. group[k] \in SUBSET E /\ group[k] # {} /\ Leveled(group[k]) /\ sev[k] = MaxSeverity(group[k])
    BY <1>3, <1>4 DEF Leveled
  <2>2. PICK top \in group[k] : top.sev = sev[k]
    BY <2>1, MaxSeverityIs
  <2>3. \A f \in group[k] : f.sev <= sev[k]
    BY <2>1, MaxSeverityIs
  <2>4. \A f \in group[k] : f.sev \in Severity /\ f.sev <= Warn /\ (f.sev = Warn => Serious(f))
    BY <1>4, <2>1
  <2> QED
    BY <2>2, <2>3, <2>4 DEF Serious, Severity, Info, Warn, Fatal
<1>6. \A f \in F : Even(f)
  BY DEF Calm, Even, Tempered, Graded
<1>7. StandFor(E, D, K, group, sev)
  BY <1>3, <1>4, <1>5 DEF StandFor
<1>8. Keeps(F, C) /\ \A x \in C : Even(x)
  BY <1>1, <1>3, <1>6, <1>7, PassKeeps
<1> QED
  BY <1>8 DEF C

\* A pass over shown findings that each warn at least, and none of which both is
\* complete and worse.
LEMMA WarnersKeep ==
  ASSUME NEW pass, pass # "recipe", NEW F, \A f \in F : Even(f), NEW E \in SUBSET F, NEW C,
         ClustersOver(pass, F, E, C), \A f \in E : Serious(f) /\ (~Incomplete(f) => f.sev <= Warn)
  PROVE  Keeps(F, C) /\ \A x \in C : Even(x)
<1>1. PICK D, K, group, sev, n :
        /\ D \in SUBSET E /\ \A f \in D : \E k \in K : f \in group[k]
        /\ \A k \in K : group[k] \in SUBSET E /\ group[k] # {} /\ sev[k] = Warn
        /\ C = Details(F, D) \union Cards(pass, K, group, sev, n)
  BY DEF ClustersOver
<1>2. Warn \in Severity /\ Warn <= Warn
  BY DEF Severity, Info, Warn, Fatal
<1>3. \A k \in K : \E f \in group[k] : Serious(f)
  BY <1>1
<1>4. StandFor(E, D, K, group, sev)
  BY <1>1, <1>2, <1>3 DEF StandFor
<1> QED
  BY <1>1, <1>4, PassKeeps

LEMMA ConflictsKeep ==
  ASSUME NEW s, NEW F, \A f \in F : Even(f)
  PROVE  Keeps(F, ConflictClusters(s, F)) /\ \A x \in ConflictClusters(s, F) : Even(x)
<1>1. MayConflict(F) \in SUBSET F
  BY DEF MayConflict, Visible
<1>2. ASSUME NEW f \in MayConflict(F) PROVE Serious(f) /\ f.sev <= Warn
  <2>1. f \in F /\ f.vis = "default" /\ f.of.family \in Documents
    BY <1>2 DEF MayConflict, Visible, Documents
  <2>2. f.sev = Warn /\ Bare(f) /\ Grouped(f.of)
    BY <2>1 DEF Even, Grouped
  <2>3. Standing(f)
    BY <2>1, <2>2, ShownIfGrouped
  <2> QED
    BY <2>2, <2>3 DEF Serious, Warn
<1> QED
  BY <1>1, <1>2, ConflictGrouped, WarnersKeep

LEMMA LoadersKeep ==
  ASSUME NEW s, NEW F, \A f \in F : Even(f)
  PROVE  Keeps(F, LoaderClusters(s, F)) /\ \A x \in LoaderClusters(s, F) : Even(x)
<1>1. MayLoader(F) \in SUBSET F
  BY DEF MayLoader, Visible
<1>2. ASSUME NEW f \in MayLoader(F) PROVE Serious(f) /\ (~Incomplete(f) => f.sev <= Warn)
  <2>1. f \in F /\ f.vis = "default" /\ f.of.conclusion = "loader-mismatch" /\ f.disp = "abstained"
    BY <1>2 DEF MayLoader, Visible
  <2>2. f.sev >= Warn /\ f.sev \in Severity /\ Bare(f) /\ Grouped(f.of)
    BY <2>1 DEF Even, Grouped
  <2>3. Standing(f)
    BY <2>1, <2>2, ShownIfGrouped
  <2>4. ~Incomplete(f) => f.sev <= Warn
    BY <2>1, <2>2 DEF Incomplete, Severity, Info, Warn, Error, Fatal
  <2> QED
    BY <2>2, <2>3, <2>4 DEF Serious
<1> QED
  BY <1>1, <1>2, LoaderGrouped, WarnersKeep

LEMMA ClusteredKeeps ==
  ASSUME NEW s, NEW F, \A f \in F : Calm(f)
  PROVE  LET C == ClusteredAll(s, F) IN Keeps(F, C) /\ \A x \in C : Even(x)
<1> DEFINE A == RecipeClusters(s, F)
           B == ConflictClusters(s, A)
           C == LoaderClusters(s, B)
<1>1. Keeps(F, A) /\ \A x \in A : Even(x)
  BY RecipesKeep
<1> HIDE DEF A
<1>2. Keeps(A, B) /\ \A x \in B : Even(x)
  BY <1>1, ConflictsKeep
<1> HIDE DEF B
<1>3. Keeps(B, C) /\ \A x \in C : Even(x)
  BY <1>2, LoadersKeep
<1> HIDE DEF C
<1>4. Leveled(F) /\ Leveled(A) /\ Leveled(B)
  BY <1>1, <1>2 DEF Leveled, Even, Calm, Graded
<1>5. Keeps(F, B)
  BY <1>1, <1>2, <1>4, KeepsTransitive
<1>6. Keeps(F, C)
  BY <1>3, <1>4, <1>5, KeepsTransitive
<1>7. ClusteredAll(s, F) = C
  BY DEF ClusteredAll, A, B, C
<1> QED
  BY <1>3, <1>6, <1>7

\* A cluster keeps the verdict of its details, whatever Modest rules propose of
\* whatever instance.
THEOREM AlwaysKeepsVerdict ==
  ASSUME \A e \in Engines : Modest(e)
  PROVE  Spec => []ClusterKeepsVerdict
<1>1. Init => ConservedInv /\ ModestInv
  BY DEF Init, ConservedInv, ModestInv
<1>2. DoctorInv /\ ConservedInv /\ ModestInv /\ [Next]_vars => ConservedInv' /\ ModestInv'
  BY ConservedStep, ModestStep
<1>3. DoctorInv /\ ConservedInv /\ ModestInv => ClusterKeepsVerdict
  <2> SUFFICES ASSUME DoctorInv, ConservedInv, ModestInv, stage = "report"
               PROVE  LET own     == Verdict(Shown(Unclustered), Unsure)
                          verdict == Verdict(Shown(ClusteredAll(store, Unclustered)), Unsure)
                      IN  /\ verdict <= own
                          /\ (\E f \in Visible(Shown(Unclustered)) : f.sev >= Warn) => verdict = own
    BY DEF ClusterKeepsVerdict
  <2> DEFINE P == Proposals(engine)
             A == MergedById(findings)
             U == Unclustered
             C == ClusteredAll(store, U)
  <2>1. /\ IsFiniteSet(findings) /\ Modest(engine)
        /\ \A f \in findings : Shaped(f) /\ Graded(f) /\ Unmerged(f) /\ Plainly(f, P)
    BY DEF DoctorInv, StoresInv, FindingsInv, ConservedInv, ModestInv
  <2>2. IsFiniteSet(A) /\ \A f \in A : Shaped(f) /\ Graded(f) /\ f.of \in P /\ Tempered(f) /\ Tagged(f, P)
    BY <2>1, MergedFinite, MergedPlain
  <2>3. \A f \in Suppressed(A) : Calm(f)
    <3> HIDE DEF A
    <3> QED
      BY <2>1, <2>2, SuppressedPlain
  <2>4. \A f \in U : Calm(f)
    BY <2>3, CaveatCalm DEF Unclustered, WithCaveats
  <2> HIDE DEF A, U
  <2>5. Keeps(U, C) /\ \A x \in C : Even(x)
    BY <2>4, ClusteredKeeps
  <2> HIDE DEF C
  <2>6. Leveled(U) /\ Leveled(C) /\ (\A f \in U : Shaped(f)) /\ (\A f \in C : Shaped(f))
    BY <2>4, <2>5 DEF Leveled, Calm, Even, Graded
  <2>7. /\ Verdict(Shown(C), Unsure) <= Verdict(Shown(U), Unsure)
        /\ (\E f \in Visible(Shown(U)) : f.sev >= Warn) => Verdict(Shown(C), Unsure) = Verdict(Shown(U), Unsure)
    BY <2>5, <2>6, KeepsVerdict
  <2> QED
    BY <2>7 DEF C, U
<1> QED
  BY <1>1, <1>2, <1>3, AlwaysDoctorInv, PTL DEF Spec
=============================================================================
