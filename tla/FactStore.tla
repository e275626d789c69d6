------------------------------ MODULE FactStore ------------------------------
(***************************************************************************)
(* The store of observations of one diagnosis                              *)
(* (crates/intermed-facts/src/store.rs).                                   *)
(*                                                                         *)
(* A store is a record.  A fact carries its identifier, which findings     *)
(* cite, and its place in the vector, which the three indexes hold.        *)
(* Compaction moves facts to new places and leaves identifiers alone.      *)
(***************************************************************************)
EXTENDS Integers, FiniteSets

CONSTANTS
  Observations,  \* what a collector may observe: [kind, subject, about, is]
  KeepKinds,     \* FactRetentionPolicy::keep_kinds
  MaxFacts       \* FactRetentionPolicy::max_facts

Kinds    == {o.kind : o \in Observations}
Subjects == {o.subject : o \in Observations}

ASSUME RetentionAssumption == MaxFacts \in Nat

\* A fact is an observation with an identifier and a place.
Fact(o, id, at) == [id |-> id, at |-> at, kind |-> o.kind, subject |-> o.subject,
                    about |-> o.about, is |-> o.is]
Observed(f) == [kind |-> f.kind, subject |-> f.subject, about |-> f.about, is |-> f.is]

EmptyStore(next) ==
  [facts |-> {}, next |-> next, kindIndex |-> {}, subjectIndex |-> {}, idIndex |-> {}]

\* The postings of a set of facts, as pairs of a key and a place.
KindPostings(F)    == {<<f.kind, f.at>> : f \in F}
SubjectPostings(F) == {<<f.subject, f.at>> : f \in F}
IdPostings(F)      == {<<f.id, f.at>> : f \in F}

Size(s) == Cardinality(s.facts)

\* FactBuilder::emit: push the fact and extend the indexes by its place.
Emit(s, o) ==
  LET f == Fact(o, s.next, Size(s) + 1)
  IN  [facts        |-> s.facts \union {f},
       next         |-> s.next + 1,
       kindIndex    |-> s.kindIndex \union {<<f.kind, f.at>>},
       subjectIndex |-> s.subjectIndex \union {<<f.subject, f.at>>},
       idIndex      |-> {e \in s.idIndex : e[1] # f.id} \union {<<f.id, f.at>>}]

\* Fault: the staging store numbers its facts from zero.
StagingFromZero(s) == EmptyStore(0)

\* staging_after: identifiers continue after those of the store.
StagingAfter(s) == EmptyStore(s.next)

\* append_staged: the facts of the staging store move behind those of the
\* store, keep their identifiers and enter its indexes.
AppendStaged(s, staged) ==
  LET moved == {[f EXCEPT !.at = @ + Size(s)] : f \in staged.facts}
  IN  [facts        |-> s.facts \union moved,
       next         |-> IF staged.next > s.next THEN staged.next ELSE s.next,
       kindIndex    |-> s.kindIndex \union KindPostings(moved),
       subjectIndex |-> s.subjectIndex \union SubjectPostings(moved),
       idIndex      |-> {e \in s.idIndex : \A f \in moved : f.id # e[1]}
                          \union IdPostings(moved)]

-----------------------------------------------------------------------------
\* Vec::retain closes the gaps and keeps the order.
Closed(kept) ==
  {[f EXCEPT !.at = Cardinality({g \in kept : g.at <= f.at})] : f \in kept}

Retained(s, keep) == {f \in s.facts : f.kind \in KeepKinds \/ f.id \in keep}

\* compact_preserving and rebuild_index.
Compact(s, keep) ==
  LET kept == Retained(s, keep)
      F    == Closed(kept)
  IN  IF Size(s) <= MaxFacts \/ kept = s.facts THEN s
      ELSE [facts |-> F, next |-> s.next, kindIndex |-> KindPostings(F),
            subjectIndex |-> SubjectPostings(F), idIndex |-> IdPostings(F)]

-----------------------------------------------------------------------------
\* by_kind, by_subject and by_kind_subject: through the indexes.
ByKind(s, k) == {f \in s.facts : <<k, f.at>> \in s.kindIndex}
ByKindSubject(s, k, x) == {f \in ByKind(s, k) : <<x, f.at>> \in s.subjectIndex}

\* get: what the identifiers stand for.
Get(s, ids) == {f \in s.facts : \E id \in ids : <<id, f.at>> \in s.idIndex}

-----------------------------------------------------------------------------
(* What the store promises.                                                 *)

\* Places are 1 .. len, no two facts share a place or an identifier, no
\* identifier is due to be issued again, and each index lists each fact at its
\* place and nothing else.  docs/reference/facts.md relies on it for evidence:
\* an identifier resolves to the fact that was cited, also after compaction.
Exact(s) ==
  /\ \A f \in s.facts : f.at \in 1 .. Size(s) /\ f.id < s.next
  /\ \A f, g \in s.facts : f.at = g.at \/ f.id = g.id => f = g
  /\ s.kindIndex    = KindPostings(s.facts)
  /\ s.subjectIndex = SubjectPostings(s.facts)
  /\ s.idIndex      = IdPostings(s.facts)
=============================================================================
