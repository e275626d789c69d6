-------------------------- MODULE DependenciesProofs --------------------------
(***************************************************************************)
(* What the dependency layer promises of every pack, whatever the versions, *)
(* the ranges and the evaluator that judges them.                           *)
(*                                                                          *)
(* The verdict on one declaration is a function of the answers the provider *)
(* universe gives for its target (RequirementMeans, IncompatibilityMeans,   *)
(* VerdictOf), and MayBe says which answers stand for which versions        *)
(* (NothingMeets, SomethingMeets).  The two together make a hard verdict    *)
(* certain in any pack.  What compares the pairs with the resolution, or a  *)
(* forecast with the analysis after the edit, is stated of plain packs      *)
(* (Plain): there a confirmed package answers alone for its id              *)
(* (PackageAlone), so that the pairs, the catalog of the solver and the     *)
(* forecast look at the same version.                                       *)
(***************************************************************************)
EXTENDS Dependencies, TLAPS

-----------------------------------------------------------------------------
(* What the provider universe answers.                                      *)

LEMMA Chosen ==
  ASSUME NEW S, S # {}
  PROVE  (CHOOSE v \in S : TRUE) \in S
  OBVIOUS

LEMMA PackFields ==
  ASSUME NEW pk \in PackType
  PROVE  /\ pk.packages \subseteq Packages /\ pk.providers \subseteq Providers
         /\ pk.constraints \subseteq Constraints /\ pk.archives \subseteq Ids
         /\ pk.truncated \in BOOLEAN
  BY DEF PackType

LEMMA ConstraintFields ==
  ASSUME NEW c \in Constraints
  PROVE  /\ c.from \in Ids /\ c.to \in Ids /\ c.range \in Ranges /\ c.relation \in Relations
         /\ c.mandatory \in BOOLEAN /\ c.applies \in {"active", "off", "gated", "undecided", "foreign"}
         /\ c.mandatory => c.relation \in Solvable \union Negative \union Ordering
  BY DEF Constraints

LEMMA Judged ==
  ASSUME NEW v \in Versions, NEW r \in Ranges
  PROVE  InRange(v, r) \in {"yes", "no", "unknown"}
  BY RangeAssumption

LEMMA ProvidedVersions ==
  ASSUME NEW pk \in PackType, NEW p \in pk.providers
  PROVE  ProvidedVersion(pk, p) \subseteq Versions
  <1>1. p \in Providers
    BY PackFields
  <1>2. \A k \in Confirmed(pk) : k.version \in Versions
    BY PackFields DEF Confirmed, Packages
  <1>3. CASE p.version # Inherit
    BY <1>1, <1>3 DEF ProvidedVersion, Providers
  <1>4. CASE p.version = Inherit
    BY <1>2, <1>4 DEF ProvidedVersion
  <1> QED BY <1>3, <1>4

LEMMA PackageAnswers ==
  ASSUME NEW pk \in PackType, NEW k \in pk.packages, NEW r \in Ranges
  PROVE  OfPackage(k, r) \in {"yes", "no", "unknown"}
  <1>1. k.version \in Versions
    BY PackFields DEF Packages
  <1> QED BY <1>1, Judged DEF OfPackage

LEMMA ProviderAnswers ==
  ASSUME NEW pk \in PackType, NEW p \in pk.providers, NEW r \in Ranges
  PROVE  OfProvider(pk, p, r) \in {"yes", "no", "unknown"}
  <1> DEFINE v == CHOOSE v \in ProvidedVersion(pk, p) : TRUE
  <1>1. ProvidedVersion(pk, p) # {} => v \in Versions
    BY Chosen, ProvidedVersions
  <1>2. ProvidedVersion(pk, p) # {} => InRange(v, r) \in {"yes", "no", "unknown"}
    BY <1>1, Judged
  <1> HIDE DEF v
  <1>3. OfProvider(pk, p, r) \in {"yes", "unknown", InRange(v, r)}
    BY DEF OfProvider, v
  <1>4. ProvidedVersion(pk, p) = {} => OfProvider(pk, p, r) \in {"yes", "unknown"}
    BY DEF OfProvider
  <1> QED BY <1>2, <1>3, <1>4

LEMMA AnswersKnown ==
  ASSUME NEW pk \in PackType, NEW id, NEW r \in Ranges
  PROVE  Answers(pk, id, r) \subseteq {"yes", "no", "unknown"}
  BY PackageAnswers, ProviderAnswers DEF Answers, Offers

LEMMA AnswerOf ==
  ASSUME NEW pk, NEW id, NEW r, NEW a
  PROVE  a \in Answers(pk, id, r) <=>
           \/ \E k \in pk.packages : k.id = id /\ a = OfPackage(k, r)
           \/ \E p \in Offers(pk, id) : a = OfProvider(pk, p, r)
  BY DEF Answers

\* An active provider is judged by its version; one without a version satisfies
\* only the range of all.
LEMMA ActiveProvider ==
  ASSUME NEW pk \in PackType, NEW p \in pk.providers, NEW r \in Ranges, p.state = "active"
  PROVE  /\ OfProvider(pk, p, r) # "unknown" /\ KnownVersion(pk, p) # {} =>
              OfProvider(pk, p, r) = InRange(CHOOSE v \in KnownVersion(pk, p) : TRUE, r)
         /\ KnownVersion(pk, p) = {} /\ r # AnyRange => OfProvider(pk, p, r) = "unknown"
         /\ KnownVersion(pk, p) = {} /\ r = AnyRange => OfProvider(pk, p, r) = "yes"
  <1> DEFINE v == CHOOSE v \in ProvidedVersion(pk, p) : TRUE
  <1>1. KnownVersion(pk, p) = ProvidedVersion(pk, p)
    BY DEF KnownVersion
  <1>2. ProvidedVersion(pk, p) # {} => v \in Versions
    BY Chosen, ProvidedVersions
  <1>3. ProvidedVersion(pk, p) # {} => InRange(v, AnyRange) = "yes"
    BY <1>2, RangeAssumption
  <1> HIDE DEF v
  <1>4. r = AnyRange => OfProvider(pk, p, r) = "yes"
    BY DEF OfProvider
  <1>5. r # AnyRange => OfProvider(pk, p, r) = IF ProvidedVersion(pk, p) = {} THEN "unknown" ELSE InRange(v, r)
    BY DEF OfProvider, v
  <1>6. ProvidedVersion(pk, p) # {} => OfProvider(pk, p, r) = InRange(v, r)
    BY <1>3, <1>4, <1>5
  <1> QED BY <1>1, <1>4, <1>5, <1>6 DEF v

\* The four answers exclude each other and say what was answered.
LEMMA ResolutionMeans ==
  ASSUME NEW pk \in PackType, NEW id, NEW r \in Ranges
  PROVE  /\ Resolution(pk, id, r) \in {"satisfied", "unknown", "unsatisfied", "absent"}
         /\ Resolution(pk, id, r) = "satisfied" <=> "yes" \in Answers(pk, id, r)
         /\ Resolution(pk, id, r) = "unknown" <=>
              "unknown" \in Answers(pk, id, r) /\ "yes" \notin Answers(pk, id, r)
         /\ Resolution(pk, id, r) = "unsatisfied" <=> Answers(pk, id, r) = {"no"}
         /\ Resolution(pk, id, r) = "absent" <=> Answers(pk, id, r) = {}
  <1>1. Answers(pk, id, r) \subseteq {"yes", "no", "unknown"}
    BY AnswersKnown
  <1>2. Resolution(pk, id, r) =
          IF "yes" \in Answers(pk, id, r) THEN "satisfied"
          ELSE IF "unknown" \in Answers(pk, id, r) THEN "unknown"
          ELSE IF "no" \in Answers(pk, id, r) THEN "unsatisfied" ELSE "absent"
    BY DEF Resolution
  <1> QED BY <1>1, <1>2

\* A package nobody can compare answers "unknown" to the universe too.
LEMMA DirectUndecidable ==
  ASSUME NEW pk \in PackType, NEW id, NEW r \in Ranges,
         RangeStatus(pk, id, r) = "undecidable"
  PROVE  "unknown" \in Answers(pk, id, r)
  <1> DEFINE answers == {InRange(k.version, r) : k \in {k \in Confirmed(pk) : k.id = id}}
  <1>1. "unknown" \in answers
    BY DEF RangeStatus
  <1>2. PICK k \in Confirmed(pk) : k.id = id /\ InRange(k.version, r) = "unknown"
    BY <1>1
  <1>3. k \in pk.packages /\ k.confirmed
    BY DEF Confirmed
  <1>4. OfPackage(k, r) = "unknown"
    BY <1>2, <1>3 DEF OfPackage
  <1> QED BY <1>2, <1>3, <1>4, AnswerOf

-----------------------------------------------------------------------------
(* What a pack may turn out to be.                                          *)

\* Everything an id may be, one by one.
LEMMA MayBeOf ==
  ASSUME NEW pk \in PackType, NEW id, NEW v
  PROVE  v \in MayBe(pk, id) <=>
           \/ \E k \in pk.packages : k.id = id /\ v = IF k.confirmed THEN k.version ELSE UnknownV
           \/ \E p \in Offers(pk, id) :
                v = IF KnownVersion(pk, p) = {} THEN UnknownV ELSE CHOOSE w \in KnownVersion(pk, p) : TRUE
           \/ v = UnknownV /\ pk.truncated
           \/ /\ v = UnknownV /\ id \in pk.archives
              /\ Offers(pk, id) = {} /\ ~ \E k \in pk.packages : k.id = id
  <1> DEFINE packages  == {k \in pk.packages : k.id = id}
             providers == {p \in pk.providers : p.id = id /\ p.state # "inactive" /\ (p.bundled => packages = {})}
             known(p)  == IF KnownVersion(pk, p) = {} THEN UnknownV ELSE CHOOSE w \in KnownVersion(pk, p) : TRUE
  <1>1. Offers(pk, id) = providers
    <2>1. \A p \in pk.providers : p.id = id => (~Shadowed(pk, p) <=> (p.bundled => packages = {}))
      <3>1. \A p \in pk.providers : p.bundled \in BOOLEAN
        BY PackFields DEF Providers
      <3> QED BY <3>1 DEF Shadowed
    <2> QED BY <2>1 DEF Offers
  <1>2. packages = {} <=> ~ \E k \in pk.packages : k.id = id
    OBVIOUS
  <1>3. MayBe(pk, id) =
          {IF k.confirmed THEN k.version ELSE UnknownV : k \in packages}
            \union {known(p) : p \in providers}
            \union (IF pk.truncated \/ (packages = {} /\ providers = {} /\ id \in pk.archives)
                    THEN {UnknownV} ELSE {})
    BY DEF MayBe
  <1> HIDE DEF known, providers
  <1>4. v \in MayBe(pk, id) <=>
          \/ \E k \in packages : v = IF k.confirmed THEN k.version ELSE UnknownV
          \/ \E p \in providers : v = known(p)
          \/ v = UnknownV /\ (pk.truncated \/ (packages = {} /\ providers = {} /\ id \in pk.archives))
    BY <1>3
  <1> QED BY <1>1, <1>2, <1>4 DEF known

\* Where no answer might do, nothing the id may be meets the declaration.
LEMMA NothingMeets ==
  ASSUME NEW pk \in PackType, NEW c \in pk.constraints, ~pk.truncated,
         Answers(pk, c.to, c.range) \subseteq {"no"},
         c.to \in pk.archives => Answers(pk, c.to, c.range) # {}
  PROVE  \A v \in MayBe(pk, c.to) : v \in Versions /\ InRange(v, c.range) = "no" /\ ~MayMeet(v, c)
  <1> DEFINE A == Answers(pk, c.to, c.range)
  <1>1. c.range \in Ranges
    BY PackFields, ConstraintFields
  <1>2. ASSUME NEW v \in MayBe(pk, c.to)
        PROVE  v \in Versions /\ InRange(v, c.range) = "no"
    <2>1. CASE \E k \in pk.packages : k.id = c.to /\ v = IF k.confirmed THEN k.version ELSE UnknownV
      <3>1. PICK k \in pk.packages : k.id = c.to /\ v = IF k.confirmed THEN k.version ELSE UnknownV
        BY <2>1
      <3>2. OfPackage(k, c.range) \in A
        BY <3>1, AnswerOf
      <3>3. k.confirmed /\ InRange(k.version, c.range) = "no"
        BY <3>2 DEF OfPackage
      <3>4. k.version \in Versions
        BY PackFields DEF Packages
      <3> QED BY <3>1, <3>3, <3>4
    <2>2. CASE \E p \in Offers(pk, c.to) :
                 v = IF KnownVersion(pk, p) = {} THEN UnknownV ELSE CHOOSE w \in KnownVersion(pk, p) : TRUE
      <3>1. PICK p \in Offers(pk, c.to) :
                 v = IF KnownVersion(pk, p) = {} THEN UnknownV ELSE CHOOSE w \in KnownVersion(pk, p) : TRUE
        BY <2>2
      <3>2. p \in pk.providers
        BY DEF Offers
      <3>3. OfProvider(pk, p, c.range) \in A
        BY AnswerOf
      <3>4. OfProvider(pk, p, c.range) = "no"
        BY <3>3
      <3>5. p.state = "active"
        BY <3>4 DEF OfProvider
      <3>6. KnownVersion(pk, p) # {}
        BY <1>1, <3>2, <3>4, <3>5, ActiveProvider
      <3>7. v = CHOOSE w \in KnownVersion(pk, p) : TRUE
        BY <3>1, <3>6
      <3>8. InRange(v, c.range) = "no"
        BY <1>1, <3>2, <3>4, <3>5, <3>6, <3>7, ActiveProvider
      <3>9. v \in KnownVersion(pk, p)
        BY <3>6, <3>7, Chosen
      <3>10. v \in Versions
        BY <3>2, <3>5, <3>9, ProvidedVersions DEF KnownVersion
      <3> QED BY <3>8, <3>10
    <2>3. CASE v = UnknownV /\ c.to \in pk.archives
               /\ Offers(pk, c.to) = {} /\ ~ \E k \in pk.packages : k.id = c.to
      <3>1. PICK a : a \in A
        BY <2>3
      <3> QED BY <2>3, <3>1, AnswerOf
    <2> QED BY <2>1, <2>2, <2>3, MayBeOf
  <1>3. UnknownV \notin Versions
    BY RangeAssumption
  <1> QED BY <1>2, <1>3 DEF MayMeet

\* A "yes" is some version's, or the range of all an active provider's.
LEMMA SomethingMeets ==
  ASSUME NEW pk \in PackType, NEW c \in pk.constraints,
         "yes" \in Answers(pk, c.to, c.range)
  PROVE  \/ \E v \in MayBe(pk, c.to) : v # UnknownV /\ InRange(v, c.range) = "yes"
         \/ c.range = AnyRange /\ \E p \in Offers(pk, c.to) : p.state = "active"
  <1>1. c.range \in Ranges
    BY PackFields, ConstraintFields
  <1>2. UnknownV \notin Versions
    BY RangeAssumption
  <1>3. CASE \E k \in pk.packages : k.id = c.to /\ "yes" = OfPackage(k, c.range)
    <2>1. PICK k \in pk.packages : k.id = c.to /\ "yes" = OfPackage(k, c.range)
      BY <1>3
    <2>2. k.confirmed /\ InRange(k.version, c.range) = "yes"
      BY <2>1 DEF OfPackage
    <2>3. k.version \in MayBe(pk, c.to)
      BY <2>1, <2>2, MayBeOf
    <2>4. k.version \in Versions
      BY PackFields DEF Packages
    <2> QED BY <1>2, <2>2, <2>3, <2>4
  <1>4. CASE \E p \in Offers(pk, c.to) : "yes" = OfProvider(pk, p, c.range)
    <2>1. PICK p \in Offers(pk, c.to) : "yes" = OfProvider(pk, p, c.range)
      BY <1>4
    <2>2. p \in pk.providers /\ p.state = "active"
      BY <2>1 DEF Offers, OfProvider
    <2>3. CASE KnownVersion(pk, p) = {}
      BY <1>1, <2>1, <2>2, <2>3, ActiveProvider
    <2>4. CASE KnownVersion(pk, p) # {}
      <3> DEFINE v == CHOOSE w \in KnownVersion(pk, p) : TRUE
      <3>1. InRange(v, c.range) = "yes"
        BY <1>1, <2>1, <2>2, <2>4, ActiveProvider
      <3>2. v \in KnownVersion(pk, p)
        BY <2>4, Chosen
      <3>3. v \in Versions
        BY <2>2, <3>2, ProvidedVersions DEF KnownVersion
      <3>4. v \in MayBe(pk, c.to)
        BY <2>1, <2>4, MayBeOf
      <3> QED BY <1>2, <3>1, <3>3, <3>4
    <2> QED BY <2>3, <2>4
  <1> QED BY <1>3, <1>4, AnswerOf

-----------------------------------------------------------------------------
(* What a verdict says of one declaration.                                  *)

LEMMA RequirementMeans ==
  ASSUME NEW pk \in PackType, NEW c \in pk.constraints
  PROVE  /\ Requirement(pk, c) = <<"wrong-version", IF c.mandatory THEN "error" ELSE "warn">> <=>
              Answers(pk, c.to, c.range) = {"no"}
         /\ Requirement(pk, c) = <<"missing-dependency", "error">> <=>
              c.mandatory /\ c.to \notin pk.archives /\ Answers(pk, c.to, c.range) = {}
         /\ Requirement(pk, c) = <<"provider-identity-unresolved", "warn">> <=>
              c.mandatory /\ c.to \in pk.archives /\ Answers(pk, c.to, c.range) = {}
         /\ "yes" \in Answers(pk, c.to, c.range) => Requirement(pk, c) = Silent
         /\ RangeStatus(pk, c.to, c.range) = "undecidable" /\ "yes" \notin Answers(pk, c.to, c.range) =>
              Requirement(pk, c) = <<"version-undecidable", "note">>
         /\ Requirement(pk, c) \in
              {Silent, <<"version-undecidable", "note">>, <<"provided-version-unknown", "warn">>,
               <<"provider-identity-unresolved", "warn">>, <<"missing-dependency", "error">>,
               <<"wrong-version", IF c.mandatory THEN "error" ELSE "warn">>}
  <1> DEFINE A == Answers(pk, c.to, c.range)
             provided == Resolution(pk, c.to, c.range)
             direct == RangeStatus(pk, c.to, c.range)
  <1>1. c.range \in Ranges /\ c.mandatory \in BOOLEAN
    BY PackFields, ConstraintFields
  <1>2. /\ provided \in {"satisfied", "unknown", "unsatisfied", "absent"}
        /\ provided = "satisfied" <=> "yes" \in A
        /\ provided = "unknown" <=> "unknown" \in A /\ "yes" \notin A
        /\ provided = "unsatisfied" <=> A = {"no"}
        /\ provided = "absent" <=> A = {}
    BY <1>1, ResolutionMeans
  <1>3. direct = "undecidable" => "unknown" \in A
    BY <1>1, DirectUndecidable
  <1> HIDE DEF A, provided, direct
  <1>4. provided = "satisfied" => Requirement(pk, c) = Silent
    BY DEF Requirement, provided
  <1>5. provided # "satisfied" /\ direct = "undecidable" => Requirement(pk, c) = <<"version-undecidable", "note">>
    BY DEF Requirement, provided, direct
  <1>6. provided = "unknown" /\ direct # "undecidable" =>
          Requirement(pk, c) = IF c.mandatory THEN <<"provided-version-unknown", "warn">> ELSE Silent
    BY DEF Requirement, provided, direct
  <1>7. provided = "unsatisfied" /\ direct # "undecidable" =>
          Requirement(pk, c) = <<"wrong-version", IF c.mandatory THEN "error" ELSE "warn">>
    BY DEF Requirement, provided, direct
  <1>8. provided = "absent" /\ direct # "undecidable" =>
          Requirement(pk, c) =
            IF ~c.mandatory THEN Silent
            ELSE IF c.to \in pk.archives THEN <<"provider-identity-unresolved", "warn">>
            ELSE <<"missing-dependency", "error">>
    BY <1>1 DEF Requirement, provided, direct
  <1>9. A = {"no"} => provided = "unsatisfied" /\ direct # "undecidable"
    BY <1>2, <1>3
  <1>10. A = {} => provided = "absent" /\ direct # "undecidable"
    BY <1>2, <1>3
  <1> QED BY <1>1, <1>2, <1>3, <1>4, <1>5, <1>6, <1>7, <1>8, <1>9, <1>10 DEF Silent, A, direct

LEMMA IncompatibilityMeans ==
  ASSUME NEW pk \in PackType, NEW c \in pk.constraints
  PROVE  LET family == IF c.relation = "breaks" THEN "incompatible-mod"
                       ELSE IF c.relation = "conflicts" THEN "conflicting-mod" ELSE "discouraged-dependency"
             sure   == IF c.relation = "breaks" THEN "error" ELSE "warn"
             unsure == IF c.relation = "breaks" THEN "warn" ELSE "note"
             A      == Answers(pk, c.to, c.range)
         IN  Incompatibility(pk, c) = IF "yes" \in A THEN <<family, sure>>
                                      ELSE IF "unknown" \in A THEN <<"undecided-incompatibility", unsure>>
                                      ELSE Silent
  <1>1. c.range \in Ranges
    BY PackFields, ConstraintFields
  <1> DEFINE provided == Resolution(pk, c.to, c.range)
  <1>2. /\ provided = "satisfied" <=> "yes" \in Answers(pk, c.to, c.range)
        /\ provided = "unknown" <=> "unknown" \in Answers(pk, c.to, c.range) /\ "yes" \notin Answers(pk, c.to, c.range)
    BY <1>1, ResolutionMeans
  <1>3. CASE c.relation = "breaks"
    <2>1. Incompatibility(pk, c) = CASE provided = "satisfied" -> <<"incompatible-mod", "error">>
                                     [] provided = "unknown"   -> <<"undecided-incompatibility", "warn">>
                                     [] OTHER                  -> Silent
      BY <1>3 DEF Incompatibility
    <2> QED BY <1>2, <1>3, <2>1
  <1>4. CASE c.relation = "conflicts"
    <2>1. Incompatibility(pk, c) = CASE provided = "satisfied" -> <<"conflicting-mod", "warn">>
                                     [] provided = "unknown"   -> <<"undecided-incompatibility", "note">>
                                     [] OTHER                  -> Silent
      BY <1>4 DEF Incompatibility
    <2> QED BY <1>2, <1>4, <2>1
  <1>5. CASE c.relation \notin {"breaks", "conflicts"}
    <2>1. Incompatibility(pk, c) = CASE provided = "satisfied" -> <<"discouraged-dependency", "warn">>
                                     [] provided = "unknown"   -> <<"undecided-incompatibility", "note">>
                                     [] OTHER                  -> Silent
      BY <1>5 DEF Incompatibility
    <2> QED BY <1>2, <1>5, <2>1
  <1> QED BY <1>3, <1>4, <1>5

\* The shapes of a verdict, by what the declaration is.
LEMMA VerdictOf ==
  ASSUME NEW pk \in PackType, NEW c \in pk.constraints
  PROVE  /\ c.applies # "active" => Verdict(pk, c) \in {Silent, <<Unselected(c), "note">>}
         /\ c.applies = "active" /\ c.relation \in Ordering => Verdict(pk, c) = Silent
         /\ c.applies = "active" /\ c.relation \in Negative /\ c.to \in Platform => Verdict(pk, c) = Silent
         /\ c.applies = "active" /\ c.relation \in Negative /\ c.to \notin Platform =>
              Verdict(pk, c) = Incompatibility(pk, c)
         /\ c.applies = "active" /\ c.relation \notin Ordering \union Negative /\ c.to \in Platform =>
              Verdict(pk, c) \in {Silent, <<"wrong-runtime-version", "warn">>}
         /\ c.applies = "active" /\ c.relation \notin Ordering \union Negative /\ c.to \notin Platform =>
              Verdict(pk, c) = Requirement(pk, c)
  <1>1. Ordering \intersect Negative = {}
    BY DEF Ordering, Negative
  <1>2. RuntimeCheck(c) \in {Silent, <<"wrong-runtime-version", "warn">>}
    BY DEF RuntimeCheck
  <1>3. c.applies # "active" => Verdict(pk, c) \in {Silent, <<Unselected(c), "note">>}
    BY DEF Verdict
  <1>4. c.applies = "active" =>
          Verdict(pk, c) =
            CASE c.relation \in Ordering -> Silent
              [] c.relation \in Negative -> IF c.to \in Platform THEN Silent ELSE Incompatibility(pk, c)
              [] OTHER -> IF c.to \in Platform THEN RuntimeCheck(c) ELSE Requirement(pk, c)
    BY DEF Verdict
  <1> QED BY <1>1, <1>2, <1>3, <1>4

\* The hard verdicts.
LEMMA HardVerdicts ==
  ASSUME NEW pk \in PackType, NEW c \in pk.constraints, Verdict(pk, c)[2] = "error"
  PROVE  /\ c.applies = "active" /\ c.to \notin Platform
         /\ \/ /\ Verdict(pk, c)[1] = "incompatible-mod"
               /\ c.relation \in Negative /\ "yes" \in Answers(pk, c.to, c.range)
            \/ /\ Verdict(pk, c)[1] \in {"missing-dependency", "wrong-version"}
               /\ c.mandatory /\ c.relation \in Solvable
               /\ Answers(pk, c.to, c.range) \subseteq {"no"}
               /\ c.to \in pk.archives => Answers(pk, c.to, c.range) # {}
  <1>1. /\ c.mandatory => c.relation \in Solvable \union Negative \union Ordering
        /\ c.mandatory \in BOOLEAN
    BY PackFields, ConstraintFields
  <1>2. Silent[2] # "error"
    BY DEF Silent
  <1>3. c.applies = "active" /\ c.to \notin Platform /\ c.relation \notin Ordering
    BY <1>2, VerdictOf
  <1>4. CASE c.relation \in Negative
    <2>1. Verdict(pk, c) = Incompatibility(pk, c)
      BY <1>3, <1>4, VerdictOf
    <2> QED BY <1>2, <1>3, <1>4, <2>1, IncompatibilityMeans
  <1>5. CASE c.relation \notin Negative
    <2>1. Verdict(pk, c) = Requirement(pk, c)
      BY <1>3, <1>5, VerdictOf
    <2>2. \/ Requirement(pk, c) = <<"missing-dependency", "error">>
          \/ c.mandatory /\ Requirement(pk, c) = <<"wrong-version", IF c.mandatory THEN "error" ELSE "warn">>
      BY <1>1, <1>2, <2>1, RequirementMeans
    <2> QED BY <1>1, <1>3, <1>5, <2>1, <2>2, RequirementMeans
  <1> QED BY <1>4, <1>5

LEMMA PairFindingOf ==
  ASSUME NEW pk, NEW f
  PROVE  f \in PairFindings(pk) <=>
           \E c \in pk.constraints : Verdict(pk, c) # Silent /\ f = PairFinding(pk, c)
  BY DEF PairFindings

LEMMA PairFindingFields ==
  ASSUME NEW pk, NEW c
  PROVE  /\ PairFinding(pk, c).family = Verdict(pk, c)[1]
         /\ PairFinding(pk, c).severity = Verdict(pk, c)[2]
         /\ PairFinding(pk, c).about = {c}
         /\ PairFinding(pk, c).affects = IF c.to \in Platform THEN {c.from} ELSE {c.from, c.to}
  BY DEF PairFinding

\* A hard finding about one declaration is certain, whatever the pack.
LEMMA PairCertain ==
  ASSUME NEW pk \in PackType, NEW f \in PairFindings(pk), f.severity = "error"
  PROVE  f.family # "dependency-unsat" /\ Certain(pk, f)
  <1>0. PICK c \in pk.constraints : f = PairFinding(pk, c)
    BY PairFindingOf
  <1>1. f.family = Verdict(pk, c)[1] /\ f.severity = Verdict(pk, c)[2] /\ f.about = {c}
    BY <1>0, PairFindingFields
  <1>2. Verdict(pk, c)[2] = "error"
    BY <1>1
  <1>3. CASE f.family = "incompatible-mod"
    <2>1. "yes" \in Answers(pk, c.to, c.range)
      BY <1>1, <1>2, <1>3, HardVerdicts
    <2>2. \/ \E v \in MayBe(pk, c.to) : v # UnknownV /\ InRange(v, c.range) = "yes"
          \/ c.range = AnyRange /\ \E p \in Offers(pk, c.to) : p.state = "active"
      BY <2>1, SomethingMeets
    <2> QED BY <1>1, <1>3, <2>2 DEF Certain
  <1>4. CASE f.family # "incompatible-mod"
    <2>1. /\ f.family \in {"missing-dependency", "wrong-version"}
          /\ Answers(pk, c.to, c.range) \subseteq {"no"}
          /\ c.to \in pk.archives => Answers(pk, c.to, c.range) # {}
      BY <1>1, <1>2, <1>4, HardVerdicts
    <2>2. pk.truncated \in BOOLEAN
      BY PackFields
    <2>3. ~pk.truncated => \A v \in MayBe(pk, c.to) : ~MayMeet(v, c)
      BY <2>1, NothingMeets
    <2> QED BY <1>1, <2>1, <2>2, <2>3 DEF Certain
  <1> QED BY <1>3, <1>4

-----------------------------------------------------------------------------
(* What the resolution adds.                                                *)

LEMMA ResolutionOf ==
  ASSUME NEW pk, NEW answer \in Resolutions(pk)
  PROVE  \/ answer.status = "skipped" /\ Installed(pk) = {}
         \/ \E pin \in Pins(pk) :
              \/ answer.status = "satisfied" /\ Contradictions(pk, pin) = {}
              \/ answer.status = "unsatisfiable" /\ answer.proof \in Contradictions(pk, pin)
  <1>1. CASE Installed(pk) = {} /\ "minecraft" \notin DOMAIN Runtime
    BY <1>1 DEF Resolutions
  <1>2. CASE ~(Installed(pk) = {} /\ "minecraft" \notin DOMAIN Runtime)
    <2>1. PICK pin \in Pins(pk) :
            answer \in IF Contradictions(pk, pin) = {} THEN {[status |-> "satisfied", proof |-> {}]}
                       ELSE {[status |-> "unsatisfiable", proof |-> core] : core \in Contradictions(pk, pin)}
      BY <1>2 DEF Resolutions
    <2>2. CASE Contradictions(pk, pin) = {}
      BY <2>1, <2>2
    <2>3. CASE Contradictions(pk, pin) # {}
      BY <2>1, <2>3
    <2> QED BY <2>2, <2>3
  <1> QED BY <1>1, <1>2

LEMMA ResolutionFindingOf ==
  ASSUME NEW pk, NEW found, NEW answer
  PROVE  /\ \A f \in ResolutionFinding(pk, found, answer) :
              \/ f.family = "dependency-resolution-skipped" /\ f.severity = "note"
              \/ /\ f.family = "dependency-unsat" /\ f.severity = "error"
                 /\ answer.status = "unsatisfiable" /\ ShouldEmitUnsat(found, answer.proof)
                 /\ CoverageComplete(pk)
         /\ answer.status = "unsatisfiable" /\ ShouldEmitUnsat(found, answer.proof) =>
              \E f \in ResolutionFinding(pk, found, answer) :
                f.severity = "error" \/ f.family = "dependency-resolution-skipped"
  <1>1. \A family, severity, about :
          /\ \A f \in Global(family, severity, about) : f.family = family /\ f.severity = severity
          /\ \E f \in Global(family, severity, about) : f.family = family /\ f.severity = severity
    BY DEF Global
  <1>2. CASE answer.status = "unsatisfiable" /\ ShouldEmitUnsat(found, answer.proof)
    <2>1. ResolutionFinding(pk, found, answer) =
            IF CoverageComplete(pk) THEN Global("dependency-unsat", "error", answer.proof)
            ELSE Global("dependency-resolution-skipped", "note", pk.constraints)
      BY <1>2 DEF ResolutionFinding
    <2> QED BY <1>1, <1>2, <2>1
  <1>3. CASE ~(answer.status = "unsatisfiable" /\ ShouldEmitUnsat(found, answer.proof))
    <2>1. ResolutionFinding(pk, found, answer) \subseteq
            Global("dependency-resolution-skipped", "note", pk.constraints)
      BY <1>3 DEF ResolutionFinding
    <2> QED BY <1>1, <1>3, <2>1
  <1> QED BY <1>2, <1>3

LEMMA EdgesRequired ==
  ASSUME NEW pk
  PROVE  SolverEdges(pk) \subseteq SurelyRequired(pk)
  BY DEF SolverEdges, SurelyRequired

LEMMA ContradictionOf ==
  ASSUME NEW pk, NEW pin, NEW core
  PROVE  core \in Contradictions(pk, pin) <=>
           /\ core \subseteq SolverEdges(pk) /\ core # {}
           /\ \E id \in {c.to : c \in core} :
                /\ \A c \in core : c.to = id
                /\ \A v \in Selectable(pk, pin, id) : \E c \in core : ~Permits(c, v)
  BY DEF Contradictions

\* An id nothing is known of is a finding of each declaration that requires it.
LEMMA AbsentIsFound ==
  ASSUME NEW pk \in PackType, NEW c \in SurelyRequired(pk),
         Answers(pk, c.to, c.range) = {}
  PROVE  \E f \in PairFindings(pk) :
           /\ f.about = {c} /\ f.affects = {c.from, c.to}
           /\ IF c.to \in pk.archives THEN f.family = "provider-identity-unresolved" /\ f.family \in Explaining
              ELSE f.family = "missing-dependency" /\ f.severity = "error"
  <1>1. c \in pk.constraints /\ c.applies = "active" /\ c.mandatory /\ c.relation \in Solvable /\ c.to \notin Platform
    BY DEF SurelyRequired
  <1>2. c.relation \notin Ordering \union Negative
    BY <1>1 DEF Solvable, Ordering, Negative
  <1>3. Verdict(pk, c) = Requirement(pk, c)
    BY <1>1, <1>2, VerdictOf
  <1>4. Verdict(pk, c) = IF c.to \in pk.archives THEN <<"provider-identity-unresolved", "warn">>
                         ELSE <<"missing-dependency", "error">>
    BY <1>1, <1>3, RequirementMeans
  <1>5. Verdict(pk, c) # Silent
    BY <1>4 DEF Silent
  <1> DEFINE f == PairFinding(pk, c)
  <1>6. f \in PairFindings(pk)
    BY <1>1, <1>5, PairFindingOf
  <1>7. f.family = Verdict(pk, c)[1] /\ f.severity = Verdict(pk, c)[2] /\ f.about = {c}
    BY PairFindingFields
  <1>8. f.affects = {c.from, c.to}
    BY <1>1, PairFindingFields
  <1> HIDE DEF f
  <1> QED BY <1>4, <1>6, <1>7, <1>8 DEF Explaining

-----------------------------------------------------------------------------
(* Plain packs: a confirmed package answers alone for its id.               *)

LEMMA PackageAlone ==
  ASSUME NEW pk \in PackType, Plain(pk), NEW k \in Confirmed(pk)
  PROVE  /\ Offers(pk, k.id) = {} /\ k.id \in Installed(pk)
         /\ \A r : Answers(pk, k.id, r) = {InRange(k.version, r)}
         /\ CatalogVersions(pk, k.id) = {k.version}
  <1>1. k \in pk.packages /\ k.confirmed
    BY DEF Confirmed
  <1>2. \A l \in pk.packages : l.id = k.id => l = k
    BY <1>1 DEF Plain
  <1>3. Offers(pk, k.id) = {}
    <2>1. SUFFICES ASSUME NEW p \in Offers(pk, k.id) PROVE FALSE
      OBVIOUS
    <2>2. p \in pk.providers /\ p.id = k.id /\ ~Shadowed(pk, p) /\ p.state # "inactive"
      BY DEF Offers
    <2>3. p.bundled
      BY <2>2 DEF Plain
    <2> QED BY <1>1, <2>2, <2>3 DEF Shadowed
  <1>4. k.id \in Installed(pk)
    BY DEF Installed
  <1>5. \A r : Answers(pk, k.id, r) = {InRange(k.version, r)}
    <2>1. {l \in pk.packages : l.id = k.id} = {k}
      BY <1>1, <1>2
    <2>2. TAKE r
    <2>3. Answers(pk, k.id, r) = {OfPackage(k, r)}
      BY <1>3, <2>1 DEF Answers
    <2> QED BY <1>1, <2>3 DEF OfPackage
  <1>6. CatalogVersions(pk, k.id) = {k.version}
    <2>1. {l \in Confirmed(pk) : l.id = k.id} = {k}
      BY <1>1, <1>2 DEF Confirmed
    <2> QED BY <1>4, <2>1 DEF CatalogVersions
  <1> QED BY <1>3, <1>4, <1>5, <1>6

LEMMA KnownSingle ==
  ASSUME NEW pk \in PackType, Plain(pk), NEW p \in pk.providers,
         NEW v \in KnownVersion(pk, p)
  PROVE  v \in Versions /\ v = CHOOSE w \in KnownVersion(pk, p) : TRUE
  <1>1. v \in ProvidedVersion(pk, p) /\ p.state = "active" /\ KnownVersion(pk, p) = ProvidedVersion(pk, p)
    BY DEF KnownVersion
  <1>2. \A w \in ProvidedVersion(pk, p) : w = v
    <2>1. CASE p.version # Inherit
      BY <1>1, <2>1 DEF ProvidedVersion
    <2>2. CASE p.version = Inherit
      <3>1. \A k, l \in Confirmed(pk) : k.id = l.id => k = l
        BY DEF Confirmed, Plain
      <3>2. ProvidedVersion(pk, p) = {k.version : k \in {o \in Confirmed(pk) : o.id = p.owner}}
        BY <2>2 DEF ProvidedVersion
      <3> QED BY <1>1, <3>1, <3>2
    <2> QED BY <2>1, <2>2
  <1>3. ProvidedVersion(pk, p) = {v}
    BY <1>1, <1>2
  <1> QED BY <1>1, <1>3, ProvidedVersions

\* Where no package has the id, what is offered is what the graph holds as alias.
LEMMA AliasesOffer ==
  ASSUME NEW pk, NEW id, ~ \E k \in pk.packages : k.id = id
  PROVE  /\ Offers(pk, id) = Aliases(pk, id) /\ id \notin Installed(pk)
         /\ CatalogVersions(pk, id) = UNION {KnownVersion(pk, p) : p \in Aliases(pk, id)}
  <1>1. id \notin Installed(pk)
    BY DEF Installed, Confirmed
  <1>2. Offers(pk, id) = Aliases(pk, id)
    BY DEF Offers, Aliases, Shadowed
  <1> QED BY <1>1, <1>2 DEF CatalogVersions

\* A pack called unsatisfiable, on complete coverage and with no pair to explain
\* it, has no choice of versions that might load.
LEMMA UnsatIsCertain ==
  ASSUME NEW pk \in PackType, Plain(pk), NEW pin \in Pins(pk), NEW core \in Contradictions(pk, pin),
         CoverageComplete(pk), ShouldEmitUnsat(PairFindings(pk), core)
  PROVE  ~MayLoad(pk)
  <1>1. core \subseteq SolverEdges(pk) /\ core # {}
    BY ContradictionOf
  <1>2. core \subseteq SurelyRequired(pk)
    BY <1>1, EdgesRequired
  <1>3. PICK id \in {c.to : c \in core} :
          /\ \A c \in core : c.to = id
          /\ \A v \in Selectable(pk, pin, id) : \E c \in core : ~Permits(c, v)
    BY ContradictionOf
  <1>4. PICK c0 \in core : c0.to = id
    BY <1>3
  <1>5. ASSUME NEW v \in MayBe(pk, id)
        PROVE  v \in Versions /\ v \in Selectable(pk, pin, id)
    <2>1. CASE \E k \in pk.packages : k.id = id /\ v = IF k.confirmed THEN k.version ELSE UnknownV
      <3>1. PICK k \in pk.packages : k.id = id /\ v = IF k.confirmed THEN k.version ELSE UnknownV
        BY <2>1
      <3>2. k \in Confirmed(pk)
        BY DEF CoverageComplete, Confirmed
      <3>3. v = k.version /\ v \in Versions
        BY <3>1, <3>2, PackFields DEF Packages, Confirmed
      <3>4. id \in Installed(pk) /\ CatalogVersions(pk, id) = {v}
        BY <3>1, <3>2, <3>3, PackageAlone
      <3>5. pin[id] = v
        BY <3>4 DEF Pins
      <3> QED BY <3>3, <3>4, <3>5 DEF Selectable
    <2>2. CASE \E p \in Offers(pk, id) :
                 v = IF KnownVersion(pk, p) = {} THEN UnknownV ELSE CHOOSE w \in KnownVersion(pk, p) : TRUE
      <3>1. PICK p \in Offers(pk, id) :
                   v = IF KnownVersion(pk, p) = {} THEN UnknownV ELSE CHOOSE w \in KnownVersion(pk, p) : TRUE
        BY <2>2
      <3>2. ~ \E k \in pk.packages : k.id = id
        BY <3>1, PackageAlone DEF CoverageComplete, Confirmed
      <3>3. p \in Aliases(pk, id) /\ p \in pk.providers /\ p.id = id
        BY <3>2, AliasesOffer DEF Offers
      <3>4. KnownVersion(pk, p) # {}
        <4>1. id \notin UnknownProviderIds(pk)
          BY <1>1, <1>4 DEF SolverEdges
        <4>2. id \in {q.id : q \in pk.providers}
          BY <3>3
        <4> QED BY <3>3, <4>1, <4>2 DEF UnknownProviderIds
      <3>5. v \in KnownVersion(pk, p)
        BY <3>1, <3>4, Chosen
      <3>6. v \in CatalogVersions(pk, id) /\ id \notin Installed(pk)
        BY <3>2, <3>3, <3>5, AliasesOffer
      <3>7. v \in Versions
        BY <3>3, <3>5, KnownSingle
      <3> QED BY <3>6, <3>7 DEF Selectable
    <2>3. ~pk.truncated
      BY DEF CoverageComplete
    <2>4. CASE v = UnknownV /\ id \in pk.archives
               /\ Offers(pk, id) = {} /\ ~ \E k \in pk.packages : k.id = id
      <3>1. Answers(pk, c0.to, c0.range) = {}
        BY <1>4, <2>4, AnswerOf
      <3>2. PICK f \in PairFindings(pk) : {c0.from, c0.to} \subseteq f.affects /\ f.family \in Explaining
        BY <1>2, <1>4, <2>4, <3>1, AbsentIsFound
      <3> QED BY <3>2 DEF ShouldEmitUnsat
    <2> QED BY <2>1, <2>2, <2>3, <2>4, MayBeOf
  <1>6. \A v \in MayBe(pk, id) : \E c \in SurelyRequired(pk) : c.to = id /\ ~MayMeet(v, c)
    <2>1. TAKE v \in MayBe(pk, id)
    <2>2. PICK c \in core : ~Permits(c, v)
      BY <1>3, <1>5
    <2>3. v # UnknownV
      BY <1>5, RangeAssumption
    <2>4. ~MayMeet(v, c)
      BY <2>2, <2>3 DEF Permits, MayMeet
    <2> QED BY <1>2, <1>3, <2>4
  <1>7. id \in {c.to : c \in SurelyRequired(pk)}
    BY <1>2, <1>4
  <1> QED BY <1>6, <1>7 DEF MayLoad

\* A pack that cannot load, however its unknowns turn out, is reported on, or a
\* finding about two mods of the proof keeps the contradiction back.
LEMMA BrokenIsShown ==
  ASSUME NEW pk \in PackType, Plain(pk), NEW answer \in Resolutions(pk), ~MayLoad(pk)
  PROVE  \E f \in PairFindings(pk) \union ResolutionFinding(pk, PairFindings(pk), answer) :
           \/ f.severity = "error" \/ f.family = "dependency-resolution-skipped"
           \/ /\ f.family \in Explaining
              /\ \/ f.about \intersect SurelyRequired(pk) # {}
                 \/ \E c \in answer.proof : {c.from, c.to} \subseteq f.affects
  <1>1. PICK id \in {c.to : c \in SurelyRequired(pk)} :
          \A v \in MayBe(pk, id) : \E c \in SurelyRequired(pk) : c.to = id /\ ~MayMeet(v, c)
    BY DEF MayLoad
  <1>2. PICK c0 \in SurelyRequired(pk) : c0.to = id
    BY <1>1
  <1>3. UnknownV \notin MayBe(pk, id)
    BY <1>1 DEF MayMeet
  <1>4. \A c \in SurelyRequired(pk) :
          /\ c \in pk.constraints /\ c.applies = "active" /\ c.mandatory /\ c.relation \in Solvable
          /\ c.to \notin Platform
    BY DEF SurelyRequired
  <1>5. CASE \E k \in pk.packages : k.id = id
    <2>1. PICK k \in pk.packages : k.id = id
      BY <1>5
    <2>2. k.confirmed
      BY <1>3, <2>1, MayBeOf
    <2>3. k \in Confirmed(pk) /\ k.version \in MayBe(pk, id)
      BY <2>1, <2>2, MayBeOf DEF Confirmed
    <2>4. PICK c \in SurelyRequired(pk) : c.to = id /\ ~MayMeet(k.version, c)
      BY <1>1, <2>3
    <2>5. Answers(pk, c.to, c.range) = {"no"}
      BY <2>1, <2>3, <2>4, PackageAlone DEF MayMeet
    <2>6. Requirement(pk, c) = <<"wrong-version", "error">>
      BY <1>4, <2>5, RequirementMeans
    <2>7. c.relation \notin Ordering \union Negative
      BY <1>4 DEF Solvable, Ordering, Negative
    <2>8. Verdict(pk, c) = <<"wrong-version", "error">>
      BY <1>4, <2>6, <2>7, VerdictOf
    <2>9. Verdict(pk, c) # Silent
      BY <2>8 DEF Silent
    <2>10. PairFinding(pk, c) \in PairFindings(pk)
      BY <1>4, <2>9, PairFindingOf
    <2>11. PairFinding(pk, c).severity = "error"
      <3>1. PairFinding(pk, c).severity = Verdict(pk, c)[2]
        BY PairFindingFields
      <3> QED BY <2>8, <3>1
    <2> QED BY <2>10, <2>11
  <1>6. CASE (~ \E k \in pk.packages : k.id = id) /\ Offers(pk, id) = {}
    <2>1. Answers(pk, c0.to, c0.range) = {}
      BY <1>2, <1>6, AnswerOf
    <2>2. PICK f \in PairFindings(pk) :
            /\ f.about = {c0}
            /\ f.severity = "error" \/ f.family \in Explaining
      BY <2>1, AbsentIsFound
    <2>3. f.about \intersect SurelyRequired(pk) # {}
      BY <2>2
    <2> QED BY <2>2, <2>3
  <1>7. CASE (~ \E k \in pk.packages : k.id = id) /\ Offers(pk, id) # {}
    <2> DEFINE core == {c \in SurelyRequired(pk) : c.to = id}
    <2>1. /\ Offers(pk, id) = Aliases(pk, id) /\ id \notin Installed(pk)
          /\ CatalogVersions(pk, id) = UNION {KnownVersion(pk, p) : p \in Aliases(pk, id)}
      BY <1>7, AliasesOffer
    <2>2. \A p \in Aliases(pk, id) : p \in pk.providers /\ p.id = id /\ KnownVersion(pk, p) # {}
      BY <1>3, <2>1, MayBeOf DEF Offers
    <2>3. id \notin UnknownProviderIds(pk)
      BY <2>2 DEF UnknownProviderIds
    <2>4. CatalogVersions(pk, id) # {}
      BY <1>7, <2>1, <2>2
    <2>5. core \subseteq SolverEdges(pk)
      BY <1>4, <2>3, <2>4 DEF SolverEdges, Constrains, Plain
    <2>6. ASSUME NEW pin PROVE core \in Contradictions(pk, pin)
      <3>1. ASSUME NEW v \in Selectable(pk, pin, id) PROVE \E c \in core : ~Permits(c, v)
        <4>1. PICK p \in Aliases(pk, id) : v \in KnownVersion(pk, p)
          BY <2>1 DEF Selectable
        <4>2. v \in Versions /\ v = CHOOSE w \in KnownVersion(pk, p) : TRUE
          BY <2>2, <4>1, KnownSingle
        <4>3. v \in MayBe(pk, id)
          BY <2>1, <2>2, <4>1, <4>2, MayBeOf
        <4> QED BY <1>1, <4>3 DEF MayMeet, Permits
      <3>2. c0 \in core
        BY <1>2
      <3>3. id \in {c.to : c \in core} /\ \A c \in core : c.to = id
        BY <3>2
      <3> HIDE DEF core
      <3> QED BY <2>5, <3>1, <3>2, <3>3, ContradictionOf
    <2>7. c0.from \in Installed(pk)
      BY <1>4 DEF Plain
    <2>8. PICK pin \in Pins(pk) : answer.status = "unsatisfiable" /\ answer.proof \in Contradictions(pk, pin)
      BY <2>6, <2>7, ResolutionOf
    <2>9. CASE ShouldEmitUnsat(PairFindings(pk), answer.proof)
      BY <2>8, <2>9, ResolutionFindingOf
    <2>10. CASE ~ShouldEmitUnsat(PairFindings(pk), answer.proof)
      BY <2>10 DEF ShouldEmitUnsat
    <2> QED BY <2>9, <2>10
  <1> QED BY <1>5, <1>6, <1>7

-----------------------------------------------------------------------------
(* The user's edit.                                                         *)

LEMMA UpdatedFields ==
  ASSUME NEW pk \in PackType, NEW target, NEW from, NEW to
  PROVE  LET qk == Edited(pk, UpdateImpact(pk, target, from, to))
         IN  /\ qk.packages = {IF k.id = target THEN [k EXCEPT !.version = to] ELSE k : k \in pk.packages}
             /\ qk.providers = pk.providers /\ qk.constraints = pk.constraints
             /\ qk.archives = pk.archives /\ qk.truncated = pk.truncated
             /\ qk = [packages |-> qk.packages, providers |-> qk.providers, constraints |-> qk.constraints,
                      archives |-> qk.archives, truncated |-> qk.truncated]
  BY DEF PackType, Edited, UpdateImpact

LEMMA RemovedFields ==
  ASSUME NEW pk \in PackType, NEW target
  PROVE  LET qk == Edited(pk, RemoveImpact(pk, target))
         IN  /\ qk.packages = {k \in pk.packages : k.id # target}
             /\ qk.providers = {p \in pk.providers : p.owner # target}
             /\ qk.constraints = {c \in pk.constraints : c.from # target}
             /\ qk.archives = pk.archives \ {target} /\ qk.truncated = pk.truncated
             /\ qk = [packages |-> qk.packages, providers |-> qk.providers, constraints |-> qk.constraints,
                      archives |-> qk.archives, truncated |-> qk.truncated]
  BY DEF PackType, Edited, RemoveImpact

\* Who is there and under which id does not change with a version.
LEMMA UpdatedPackages ==
  ASSUME NEW pk \in PackType, NEW target, NEW from, NEW to \in Versions, NEW qk,
         qk = Edited(pk, UpdateImpact(pk, target, from, to))
  PROVE  /\ qk.packages \subseteq Packages
         /\ \A k \in qk.packages : \E l \in pk.packages :
              /\ k = IF l.id = target THEN [l EXCEPT !.version = to] ELSE l
              /\ k.id = l.id /\ k.confirmed = l.confirmed
              /\ k.version = IF l.id = target THEN to ELSE l.version
         /\ \A l \in pk.packages : \E k \in qk.packages :
              /\ k.id = l.id /\ k.confirmed = l.confirmed
              /\ k.version = IF l.id = target THEN to ELSE l.version
         /\ \A k : k.id # target => (k \in qk.packages <=> k \in pk.packages)
  <1> DEFINE M(l) == IF l.id = target THEN [l EXCEPT !.version = to] ELSE l
  <1>1. qk.packages = {M(l) : l \in pk.packages}
    BY UpdatedFields
  <1>2. ASSUME NEW l \in pk.packages
        PROVE  /\ M(l) \in Packages
               /\ M(l).id = l.id /\ M(l).confirmed = l.confirmed
               /\ M(l).version = IF l.id = target THEN to ELSE l.version
    BY PackFields DEF Packages
  <1>3. \A l : l.id # target => M(l) = l
    OBVIOUS
  <1> HIDE DEF M
  <1>4. qk.packages \subseteq Packages
    BY <1>1, <1>2
  <1>5. \A k \in qk.packages : \E l \in pk.packages :
              /\ k = M(l)
              /\ k.id = l.id /\ k.confirmed = l.confirmed
              /\ k.version = IF l.id = target THEN to ELSE l.version
    BY <1>1, <1>2
  <1>6. \A l \in pk.packages : M(l) \in qk.packages
    BY <1>1
  <1>7. \A k : k.id # target => (k \in qk.packages <=> k \in pk.packages)
    BY <1>3, <1>5, <1>6
  <1> QED BY <1>2, <1>4, <1>5, <1>6, <1>7 DEF M

LEMMA EditTyped ==
  ASSUME NEW pk \in PackType
  PROVE  /\ \A target, from : \A to \in Versions : Edited(pk, UpdateImpact(pk, target, from, to)) \in PackType
         /\ \A target : Edited(pk, RemoveImpact(pk, target)) \in PackType
  <1>1. ASSUME NEW target, NEW from, NEW to \in Versions
        PROVE  Edited(pk, UpdateImpact(pk, target, from, to)) \in PackType
    <2> DEFINE qk == Edited(pk, UpdateImpact(pk, target, from, to))
    <2>1. qk.packages \subseteq Packages
      BY UpdatedPackages
    <2>2. /\ qk.providers = pk.providers /\ qk.constraints = pk.constraints
          /\ qk.archives = pk.archives /\ qk.truncated = pk.truncated
          /\ qk = [packages |-> qk.packages, providers |-> qk.providers, constraints |-> qk.constraints,
                   archives |-> qk.archives, truncated |-> qk.truncated]
      BY UpdatedFields
    <2> HIDE DEF qk
    <2>3. qk \in PackType
      BY <2>1, <2>2, PackFields DEF PackType
    <2> QED BY <2>3 DEF qk
  <1>2. ASSUME NEW target
        PROVE  Edited(pk, RemoveImpact(pk, target)) \in PackType
    <2> DEFINE qk == Edited(pk, RemoveImpact(pk, target))
    <2>1. /\ qk.packages \subseteq pk.packages /\ qk.providers \subseteq pk.providers
          /\ qk.constraints \subseteq pk.constraints /\ qk.archives \subseteq pk.archives
          /\ qk.truncated = pk.truncated
          /\ qk = [packages |-> qk.packages, providers |-> qk.providers, constraints |-> qk.constraints,
                   archives |-> qk.archives, truncated |-> qk.truncated]
      BY RemovedFields
    <2> HIDE DEF qk
    <2>2. qk \in PackType
      BY <2>1, PackFields DEF PackType
    <2> QED BY <2>2 DEF qk
  <1> QED BY <1>1, <1>2

LEMMA UpdatePlain ==
  ASSUME NEW pk \in PackType, Plain(pk), NEW target, NEW from, NEW to \in Versions, NEW qk,
         qk = Edited(pk, UpdateImpact(pk, target, from, to))
  PROVE  Plain(qk) /\ Installed(qk) = Installed(pk)
  <1>1. \A k \in qk.packages : \E l \in pk.packages :
          /\ k = IF l.id = target THEN [l EXCEPT !.version = to] ELSE l
          /\ k.id = l.id /\ k.confirmed = l.confirmed
    BY UpdatedPackages
  <1>2. \A l \in pk.packages : \E k \in qk.packages : k.id = l.id /\ k.confirmed = l.confirmed
    BY UpdatedPackages
  <1>3. qk.providers = pk.providers /\ qk.constraints = pk.constraints
    BY UpdatedFields
  <1>4. Installed(qk) = Installed(pk)
    BY <1>1, <1>2 DEF Installed, Confirmed
  <1>5. \A k, m \in qk.packages : k.id = m.id => k = m
    <2>1. TAKE k, m \in qk.packages
    <2>2. HAVE k.id = m.id
    <2>3. PICK l \in pk.packages : k = (IF l.id = target THEN [l EXCEPT !.version = to] ELSE l) /\ k.id = l.id
      BY <1>1
    <2>4. PICK n \in pk.packages : m = (IF n.id = target THEN [n EXCEPT !.version = to] ELSE n) /\ m.id = n.id
      BY <1>1
    <2>5. l = n
      BY <2>2, <2>3, <2>4 DEF Plain
    <2> QED BY <2>3, <2>4, <2>5
  <1>6. \A k \in Confirmed(qk), p \in qk.providers : p.id = k.id => p.bundled \/ p.state = "inactive"
    <2>1. \A k \in Confirmed(qk) : \E l \in Confirmed(pk) : k.id = l.id
      BY <1>1 DEF Confirmed
    <2> QED BY <1>3, <2>1 DEF Plain
  <1> QED BY <1>3, <1>4, <1>5, <1>6 DEF Plain

LEMMA RemovePlain ==
  ASSUME NEW pk \in PackType, Plain(pk), NEW target, NEW qk,
         qk = Edited(pk, RemoveImpact(pk, target))
  PROVE  Plain(qk)
  <1>1. /\ qk.packages = {k \in pk.packages : k.id # target}
        /\ qk.providers = {p \in pk.providers : p.owner # target}
        /\ qk.constraints = {c \in pk.constraints : c.from # target}
    BY RemovedFields
  <1>2. Confirmed(qk) = {k \in Confirmed(pk) : k.id # target}
    BY <1>1 DEF Confirmed
  <1>3. Installed(qk) = Installed(pk) \ {target}
    BY <1>2 DEF Installed
  <1>4. \A k, m \in qk.packages : k.id = m.id => k = m
    BY <1>1 DEF Plain
  <1>5. \A k \in Confirmed(qk), p \in qk.providers : p.id = k.id => p.bundled \/ p.state = "inactive"
    BY <1>1, <1>2 DEF Plain
  <1>6. \A c \in qk.constraints : c.applies = "active" => c.from \in Installed(qk)
    BY <1>1, <1>3 DEF Plain
  <1>7. \A p \in qk.providers : p.state = "unknown" => p.owner \notin Installed(qk)
    BY <1>1, <1>3 DEF Plain
  <1> QED BY <1>4, <1>5, <1>6, <1>7 DEF Plain

-----------------------------------------------------------------------------
(* What an edit changes: the verdicts on its target, and no other.          *)

\* A verdict is made of the answers for the id it is on.
LEMMA VerdictDepends ==
  ASSUME NEW pk, NEW qk, NEW c,
         Answers(pk, c.to, c.range) = Answers(qk, c.to, c.range),
         RangeStatus(pk, c.to, c.range) = RangeStatus(qk, c.to, c.range),
         c.to \in pk.archives <=> c.to \in qk.archives
  PROVE  Verdict(pk, c) = Verdict(qk, c)
  <1>1. Resolution(pk, c.to, c.range) = Resolution(qk, c.to, c.range)
    BY DEF Resolution
  <1>2. Incompatibility(pk, c) = Incompatibility(qk, c)
    BY <1>1 DEF Incompatibility
  <1>3. Requirement(pk, c) = Requirement(qk, c)
    BY <1>1 DEF Requirement
  <1> QED BY <1>2, <1>3 DEF Verdict

\* Two packs that hold the same packages and aliases of an id answer for it
\* alike, unless an alias takes its version from what is not the same.
LEMMA SameAround ==
  ASSUME NEW pk \in PackType, NEW qk \in PackType, NEW target, NEW id, id # target, NEW r,
         \A k : k.id # target => (k \in pk.packages <=> k \in qk.packages),
         \A p : p.id = id => (p \in pk.providers <=> p \in qk.providers),
         \A p \in pk.providers : p.id = id => p.version # Inherit \/ p.owner # target
  PROVE  Answers(pk, id, r) = Answers(qk, id, r) /\ RangeStatus(pk, id, r) = RangeStatus(qk, id, r)
  <1>1. \A x : x # target =>
          {k \in Confirmed(pk) : k.id = x} = {k \in Confirmed(qk) : k.id = x}
    BY DEF Confirmed
  <1>2. {k \in pk.packages : k.id = id} = {k \in qk.packages : k.id = id}
    OBVIOUS
  <1>3. RangeStatus(pk, id, r) = RangeStatus(qk, id, r)
    BY <1>1 DEF RangeStatus
  <1>4. \A p : p.id = id => (Shadowed(pk, p) <=> Shadowed(qk, p))
    BY <1>2 DEF Shadowed
  <1>5. Offers(pk, id) = Offers(qk, id)
    BY <1>4 DEF Offers
  <1>6. \A p \in Offers(pk, id) : ProvidedVersion(pk, p) = ProvidedVersion(qk, p)
    <2>1. TAKE p \in Offers(pk, id)
    <2>2. p \in pk.providers /\ (p.version # Inherit \/ p.owner # target)
      BY DEF Offers
    <2>3. p.owner # target =>
            {k \in Confirmed(pk) : k.id = p.owner} = {k \in Confirmed(qk) : k.id = p.owner}
      BY <1>1
    <2> QED BY <2>2, <2>3 DEF ProvidedVersion
  <1>7. \A p \in Offers(pk, id) : OfProvider(pk, p, r) = OfProvider(qk, p, r)
    <2>1. TAKE p \in Offers(pk, id)
    <2>2. ProvidedVersion(pk, p) = ProvidedVersion(qk, p)
      BY <1>6
    <2>3. (CHOOSE v \in ProvidedVersion(pk, p) : TRUE) = (CHOOSE v \in ProvidedVersion(qk, p) : TRUE)
      BY <2>2
    <2> QED BY <2>2, <2>3 DEF OfProvider
  <1>8. {OfProvider(pk, p, r) : p \in Offers(pk, id)} = {OfProvider(qk, p, r) : p \in Offers(qk, id)}
    BY <1>5, <1>7
  <1> QED BY <1>2, <1>3, <1>8 DEF Answers

\* The verdicts that are hard on a declaration, and the undecided ones.
IsHard(verdict) ==
  /\ verdict[1] \in {"wrong-version", "incompatible-mod", "conflicting-mod", "discouraged-dependency"}
  /\ verdict[2] \in {"warn", "error"}
IsUndecided(verdict) == verdict[1] \in {"version-undecidable", "undecided-incompatibility"}

LEMMA HardOf ==
  ASSUME NEW pk, NEW c \in pk.constraints, findings = PairFindings(pk)
  PROVE  /\ Hard(c) <=> IsHard(Verdict(pk, c))
         /\ Undecided(c) <=> IsUndecided(Verdict(pk, c))
  <1>1. \A f : f \in findings /\ c \in f.about <=> Verdict(pk, c) # Silent /\ f = PairFinding(pk, c)
    <2>1. TAKE f
    <2>2. ASSUME f \in findings, c \in f.about
          PROVE  Verdict(pk, c) # Silent /\ f = PairFinding(pk, c)
      <3>1. PICK d \in pk.constraints : Verdict(pk, d) # Silent /\ f = PairFinding(pk, d)
        BY <2>2, PairFindingOf
      <3>2. PairFinding(pk, d).about = {d}
        BY PairFindingFields
      <3> QED BY <2>2, <3>1, <3>2
    <2>3. ASSUME Verdict(pk, c) # Silent, f = PairFinding(pk, c)
          PROVE  f \in findings /\ c \in f.about
      <3>1. PairFinding(pk, c).about = {c}
        BY PairFindingFields
      <3> QED BY <2>3, <3>1, PairFindingOf
    <2> QED BY <2>2, <2>3
  <1>2. PairFinding(pk, c).family = Verdict(pk, c)[1]
    BY PairFindingFields
  <1>3. PairFinding(pk, c).severity = Verdict(pk, c)[2]
    BY PairFindingFields
  <1>4. ~IsHard(Silent) /\ ~IsUndecided(Silent)
    BY DEF Silent, IsHard, IsUndecided
  <1>5. Hard(c) <=> Verdict(pk, c) # Silent /\ IsHard(Verdict(pk, c))
    BY <1>1, <1>2, <1>3 DEF Hard, IsHard
  <1>6. Undecided(c) <=> Verdict(pk, c) # Silent /\ IsUndecided(Verdict(pk, c))
    BY <1>1, <1>2 DEF Undecided, IsUndecided
  <1> QED BY <1>4, <1>5, <1>6

\* The verdict of a declaration on a confirmed package is that of its version.
LEMMA AloneVerdict ==
  ASSUME NEW pk \in PackType, Plain(pk), NEW k \in Confirmed(pk), NEW c \in pk.constraints,
         c.applies = "active", c.to = k.id, c.relation \notin Ordering
  PROVE  /\ c.relation \in Negative =>
              /\ IsHard(Verdict(pk, c)) <=> InRange(k.version, c.range) = "yes"
              /\ Verdict(pk, c) = Silent <=> InRange(k.version, c.range) = "no"
              /\ InRange(k.version, c.range) = "yes" =>
                   Verdict(pk, c) = IF c.relation = "breaks" THEN <<"incompatible-mod", "error">>
                                    ELSE IF c.relation = "conflicts" THEN <<"conflicting-mod", "warn">>
                                    ELSE <<"discouraged-dependency", "warn">>
         /\ c.relation \notin Negative =>
              /\ IsHard(Verdict(pk, c)) <=> InRange(k.version, c.range) = "no"
         /\ IsUndecided(Verdict(pk, c)) <=> InRange(k.version, c.range) = "unknown"
  <1> DEFINE a == InRange(k.version, c.range)
  <1>1. k \in Packages /\ c \in Constraints
    BY PackFields DEF Confirmed
  <1>2. c.to \notin Platform /\ c.range \in Ranges /\ k.version \in Versions /\ c.mandatory \in BOOLEAN
    BY <1>1, ConstraintFields DEF Packages
  <1>3. a \in {"yes", "no", "unknown"}
    BY <1>2, Judged
  <1>4. Answers(pk, c.to, c.range) = {a}
    BY PackageAlone
  <1>5. RangeStatus(pk, c.to, c.range) = IF a = "yes" THEN "in" ELSE IF a = "unknown" THEN "undecidable" ELSE "out"
    <2>1. {l \in Confirmed(pk) : l.id = c.to} = {k}
      BY DEF Confirmed, Plain
    <2>2. {InRange(l.version, c.range) : l \in {l \in Confirmed(pk) : l.id = c.to}} = {a}
      BY <2>1
    <2> HIDE DEF a
    <2> QED BY <2>2 DEF RangeStatus
  <1> HIDE DEF a
  <1>6. CASE c.relation \in Negative
    <2>1. Verdict(pk, c) = Incompatibility(pk, c)
      BY <1>2, <1>6, VerdictOf
    <2>2. Incompatibility(pk, c) =
            IF a = "yes" THEN IF c.relation = "breaks" THEN <<"incompatible-mod", "error">>
                              ELSE IF c.relation = "conflicts" THEN <<"conflicting-mod", "warn">>
                              ELSE <<"discouraged-dependency", "warn">>
            ELSE IF a = "unknown" THEN <<"undecided-incompatibility", IF c.relation = "breaks" THEN "warn" ELSE "note">>
            ELSE Silent
      BY <1>3, <1>4, IncompatibilityMeans
    <2> QED BY <1>3, <1>6, <2>1, <2>2 DEF Silent, IsHard, IsUndecided, a
  <1>7. CASE c.relation \notin Negative
    <2>1. Verdict(pk, c) = Requirement(pk, c)
      BY <1>2, <1>7, VerdictOf
    <2>2. CASE a = "yes"
      <3>1. Requirement(pk, c) = Silent
        BY <1>4, <2>2, RequirementMeans
      <3> QED BY <1>7, <2>1, <2>2, <3>1 DEF Silent, IsHard, IsUndecided, a
    <2>3. CASE a = "unknown"
      <3>1. Requirement(pk, c) = <<"version-undecidable", "note">>
        BY <1>4, <1>5, <2>3, RequirementMeans
      <3> QED BY <1>7, <2>1, <2>3, <3>1 DEF IsHard, IsUndecided, a
    <2>4. CASE a = "no"
      <3>1. Requirement(pk, c) = <<"wrong-version", IF c.mandatory THEN "error" ELSE "warn">>
        BY <1>4, <2>4, RequirementMeans
      <3> QED BY <1>7, <2>1, <2>4, <3>1 DEF IsHard, IsUndecided, a
    <2> QED BY <1>3, <2>2, <2>3, <2>4
  <1> QED BY <1>6, <1>7

-----------------------------------------------------------------------------
(* The forecasts.                                                           *)

AskedUpdate(pk, asked) ==
  \E k \in Confirmed(pk) : \E to \in Versions \ {k.version} : asked = UpdateImpact(pk, k.id, k.version, to)
AskedRemove(pk, asked) == \E id \in Installed(pk) : asked = RemoveImpact(pk, id)

LEMMA UpdateFields ==
  ASSUME NEW pk, NEW target, NEW from, NEW to
  PROVE  LET fc == UpdateImpact(pk, target, from, to)
         IN  /\ fc.edit = "update" /\ fc.target = target /\ fc.to = to
             /\ fc.breaks = {c \in Weighed(pk, target) : Breaks(c, from, to)}
             /\ fc.nowSatisfied = {c \in Weighed(pk, target) : NowSatisfied(c, from, to)}
             /\ fc.undecidable = {c \in Weighed(pk, target) : InRange(to, c.range) = "unknown"}
  BY DEF UpdateImpact

LEMMA RemoveFields ==
  ASSUME NEW pk, NEW target
  PROVE  LET fc == RemoveImpact(pk, target)
         IN  /\ fc.edit = "remove" /\ fc.target = target
             /\ fc.dependents = DeclaredDependents(pk, target)
             /\ fc.provides = LostProvides(pk, target)
  BY DEF RemoveImpact

\* No manifest makes a suggestion mandatory, or a relation nobody knows: the check
\* of one declaration is at most a warning for them.
LEMMA PassedOverIsSoft ==
  ASSUME NEW pk \in PackType, NEW c \in pk.constraints, c.relation \in PassedOver
  PROVE  Verdict(pk, c)[2] # "error"
  <1>1. c.relation \notin Solvable \union Ordering \union Negative
    BY DEF PassedOver, Solvable, Negative, Ordering
  <1> QED BY <1>1, HardVerdicts

LEMMA UpdateIsForeseen ==
  ASSUME NEW pk \in PackType, Plain(pk), AskedUpdate(pk, forecast),
         earlier = pk, pack = Edited(pk, forecast), findings = PairFindings(pack)
  PROVE  UpdateForeseen
  <1>0. PICK k \in Confirmed(pk) :
          \E to \in Versions \ {k.version} : forecast = UpdateImpact(pk, k.id, k.version, to)
    BY DEF AskedUpdate
  <1>1. PICK to \in Versions : forecast = UpdateImpact(pk, k.id, k.version, to)
    BY <1>0
  <1> DEFINE target == k.id
             from   == k.version
  <1>2. pack \in PackType
    BY <1>1, EditTyped
  <1>3. Plain(pack)
    BY <1>1, UpdatePlain
  <1>4. /\ forecast.target = target
        /\ forecast.breaks = {c \in Weighed(pk, target) : Breaks(c, from, to)}
        /\ forecast.nowSatisfied = {c \in Weighed(pk, target) : NowSatisfied(c, from, to)}
        /\ forecast.undecidable = {c \in Weighed(pk, target) : InRange(to, c.range) = "unknown"}
    BY <1>1, UpdateFields
  <1>5. /\ pack.providers = pk.providers /\ pack.constraints = pk.constraints
        /\ pack.archives = pk.archives
    BY <1>1, UpdatedFields
  <1>6. PICK m \in Confirmed(pack) : m.id = target /\ m.version = to
    BY <1>1, UpdatedPackages DEF Confirmed
  <1>7. \A l : l.id # target => (l \in pack.packages <=> l \in pk.packages)
    BY <1>1, UpdatedPackages
  <1>8. from \in Versions
    BY PackFields DEF Packages, Confirmed
  <1> HIDE DEF target, from
  <1>9. Weighed(pack, target) = Weighed(pk, target)
    BY <1>5 DEF Weighed, Declared
  <1>10. ASSUME NEW c \in Weighed(pk, target)
         PROVE  /\ Hard(c) <=>
                     \/ c \in forecast.breaks
                     \/ /\ c.relation \in Negative /\ Verdict(earlier, c) = Verdict(pack, c)
                        /\ Verdict(pack, c) # Silent /\ ~Undecided(c)
                /\ Undecided(c) <=> c \in forecast.undecidable
                /\ c \in forecast.nowSatisfied => ~Hard(c) /\ ~Undecided(c)
    <2>1. /\ c \in pk.constraints /\ c \in pack.constraints
          /\ c.applies = "active" /\ c.to = target /\ c.relation \notin Ordering
      BY <1>5 DEF Weighed, Declared
    <2>2. c.range \in Ranges
      BY <2>1, PackFields, ConstraintFields
    <2> DEFINE was == InRange(from, c.range)
               is  == InRange(to, c.range)
    <2>3. was \in {"yes", "no", "unknown"} /\ is \in {"yes", "no", "unknown"}
      BY <1>8, <2>2, Judged
    <2>4. /\ Hard(c) <=> IsHard(Verdict(pack, c))
          /\ Undecided(c) <=> IsUndecided(Verdict(pack, c))
      BY <2>1, HardOf
    <2>5. /\ c \in forecast.breaks <=> Breaks(c, from, to)
          /\ c \in forecast.nowSatisfied <=> NowSatisfied(c, from, to)
          /\ c \in forecast.undecidable <=> is = "unknown"
      BY <1>4
    <2>6. IsUndecided(Verdict(pack, c)) <=> is = "unknown"
      BY <1>2, <1>3, <1>6, <2>1, AloneVerdict
    <2>7. IsUndecided(Verdict(earlier, c)) <=> was = "unknown"
      BY <2>1, AloneVerdict DEF target, from
    <2>8. CASE c.relation \in Negative
      <3>1. /\ Breaks(c, from, to) <=> is = "yes" /\ was # "yes"
            /\ NowSatisfied(c, from, to) <=> is = "no" /\ was = "yes"
        BY <2>8 DEF Breaks, NowSatisfied
      <3>2. /\ IsHard(Verdict(pack, c)) <=> is = "yes"
            /\ Verdict(pack, c) = Silent <=> is = "no"
            /\ is = "yes" =>
                 Verdict(pack, c) = IF c.relation = "breaks" THEN <<"incompatible-mod", "error">>
                                    ELSE IF c.relation = "conflicts" THEN <<"conflicting-mod", "warn">>
                                    ELSE <<"discouraged-dependency", "warn">>
        BY <1>2, <1>3, <1>6, <2>1, <2>8, AloneVerdict
      <3>3. /\ Verdict(earlier, c) = Silent <=> was = "no"
            /\ was = "yes" =>
                 Verdict(earlier, c) = IF c.relation = "breaks" THEN <<"incompatible-mod", "error">>
                                       ELSE IF c.relation = "conflicts" THEN <<"conflicting-mod", "warn">>
                                       ELSE <<"discouraged-dependency", "warn">>
        BY <2>1, <2>8, AloneVerdict DEF target, from
      <3>4. is = "yes" /\ was = "yes" => Verdict(earlier, c) = Verdict(pack, c)
        BY <3>2, <3>3
      <3>5. Verdict(earlier, c) = Verdict(pack, c) /\ Verdict(pack, c) # Silent /\ is # "unknown" => is = "yes"
        BY <2>3, <3>2
      <3> HIDE DEF is, was
      <3> QED BY <2>3, <2>4, <2>5, <2>6, <2>7, <2>8, <3>1, <3>2, <3>4, <3>5
    <2>9. CASE c.relation \notin Negative
      <3>1. /\ Breaks(c, from, to) <=> is = "no"
            /\ NowSatisfied(c, from, to) <=> is = "yes" /\ was = "no"
        BY <2>9 DEF Breaks, NowSatisfied
      <3>2. IsHard(Verdict(pack, c)) <=> is = "no"
        BY <1>2, <1>3, <1>6, <2>1, <2>9, AloneVerdict
      <3> HIDE DEF is, was
      <3> QED BY <2>3, <2>4, <2>5, <2>6, <2>9, <3>1, <3>2
    <2> QED BY <2>8, <2>9
  <1>11. ASSUME NEW c \in pack.constraints, c.to # target,
                ~ \E p \in pack.providers : p.id = c.to /\ p.owner = target /\ p.version = Inherit
         PROVE  Verdict(pack, c) = Verdict(earlier, c)
    <2>1. \A p \in pk.providers : p.id = c.to => p.version # Inherit \/ p.owner # target
      BY <1>5, <1>11
    <2>2. /\ Answers(pk, c.to, c.range) = Answers(pack, c.to, c.range)
          /\ RangeStatus(pk, c.to, c.range) = RangeStatus(pack, c.to, c.range)
      BY <1>2, <1>5, <1>7, <1>11, <2>1, SameAround
    <2> QED BY <1>5, <2>2, VerdictDepends
  <1>12. ASSUME NEW c \in Declared(pack), c.relation \in PassedOver, NEW f \in findings, c \in f.about
         PROVE  f.severity # "error"
    <2>1. PICK d \in pack.constraints : Verdict(pack, d) # Silent /\ f = PairFinding(pack, d)
      BY <1>12, PairFindingOf
    <2>2. f.about = {d} /\ f.severity = Verdict(pack, d)[2]
      BY <2>1, PairFindingFields
    <2>3. d = c
      BY <1>12, <2>2
    <2> QED BY <1>2, <1>12, <2>2, <2>3, PassedOverIsSoft DEF Declared
  <1> QED BY <1>4, <1>9, <1>10, <1>11, <1>12 DEF UpdateForeseen

LEMMA RemovalIsForeseen ==
  ASSUME NEW pk \in PackType, Plain(pk), AskedRemove(pk, forecast),
         earlier = pk, pack = Edited(pk, forecast), findings = PairFindings(pack)
  PROVE  RemovalForeseen
  <1>1. PICK target \in Installed(pk) : forecast = RemoveImpact(pk, target)
    BY DEF AskedRemove
  <1>2. pack \in PackType
    BY <1>1, EditTyped
  <1>3. /\ pack.packages = {k \in pk.packages : k.id # target}
        /\ pack.providers = {p \in pk.providers : p.owner # target}
        /\ pack.constraints = {c \in pk.constraints : c.from # target}
        /\ pack.archives = pk.archives \ {target}
    BY <1>1, RemovedFields
  <1>4. /\ forecast.target = target
        /\ forecast.dependents = DeclaredDependents(pk, target)
        /\ forecast.provides = LostProvides(pk, target)
    BY <1>1, RemoveFields
  <1>5. SUFFICES ASSUME NEW f \in findings, f.severity = "error",
                        f.family \in {"missing-dependency", "wrong-version"}, NEW c \in f.about
                 PROVE  \/ Verdict(earlier, c) = Verdict(pack, c)
                        \/ c.from \in forecast.dependents /\ c.to = forecast.target
                        \/ c.to \in forecast.provides
    BY DEF RemovalForeseen
  <1>6. PICK d \in pack.constraints : f = PairFinding(pack, d)
    BY PairFindingOf
  <1>7. /\ f.about = {d} /\ f.severity = Verdict(pack, d)[2] /\ f.family = Verdict(pack, d)[1]
    <2>1. PairFinding(pack, d).about = {d}
      BY PairFindingFields
    <2>2. PairFinding(pack, d).severity = Verdict(pack, d)[2]
      BY PairFindingFields
    <2>3. PairFinding(pack, d).family = Verdict(pack, d)[1]
      BY PairFindingFields
    <2> QED BY <1>6, <2>1, <2>2, <2>3
  <1>8. c = d /\ c \in pack.constraints /\ c \in pk.constraints
    BY <1>3, <1>5, <1>6, <1>7
  <1>9. c.applies = "active" /\ c.relation \in Solvable
    BY <1>2, <1>5, <1>7, <1>8, HardVerdicts
  <1>10. CASE c.to = target
    <2>1. c.relation \in {"requires", "recommends", "includes"}
      BY <1>9 DEF Solvable
    <2>2. c.from \in DeclaredDependents(pk, target)
      BY <1>8, <1>9, <1>10, <2>1 DEF DeclaredDependents, Declared
    <2> QED BY <1>4, <1>10, <2>2
  <1>11. CASE c.to # target /\ c.to \notin forecast.provides
    <2>1. \A p \in pk.providers : p.id = c.to => p.owner # target
      <3>1. TAKE p \in pk.providers
      <3>2. HAVE p.id = c.to
      <3>3. p.owner = target => p.state # "unknown"
        BY <1>1 DEF Plain
      <3>4. p.owner = target => p.id \in LostProvides(pk, target)
        BY <3>3 DEF LostProvides
      <3> QED BY <1>4, <1>11, <3>2, <3>4
    <2>2. \A p : p.id = c.to => (p \in pk.providers <=> p \in pack.providers)
      BY <1>3, <2>1
    <2>3. \A k : k.id # target => (k \in pk.packages <=> k \in pack.packages)
      BY <1>3
    <2>4. /\ Answers(pk, c.to, c.range) = Answers(pack, c.to, c.range)
          /\ RangeStatus(pk, c.to, c.range) = RangeStatus(pack, c.to, c.range)
      BY <1>2, <1>11, <2>1, <2>2, <2>3, SameAround
    <2>5. c.to \in pk.archives <=> c.to \in pack.archives
      BY <1>3, <1>11
    <2> QED BY <2>4, <2>5, VerdictDepends
  <1> QED BY <1>10, <1>11

-----------------------------------------------------------------------------
(* The inductive invariant: the packs are typed, the findings are those of   *)
(* the pack at the stage reached, and the pack after an edit is the earlier  *)
(* one with what was forecast done to it.                                    *)

Typed == pack \in PackType /\ earlier \in PackType

Analysed ==
  /\ stage = "collected" => findings = {}
  /\ stage \in {"paired", "resolved"} => findings = PairFindings(pack)
  /\ stage \in {"resolved", "concluded", "forecast"} => outcome \in Resolutions(pack)
  /\ stage \in {"concluded", "forecast"} =>
       findings = PairFindings(pack) \union ResolutionFinding(pack, PairFindings(pack), outcome)
  /\ stage \in {"collected", "paired", "resolved", "concluded", "forecast"}

Forecasted ==
  /\ forecast = NoForecast \/ AskedUpdate(earlier, forecast) \/ AskedRemove(earlier, forecast)
  /\ stage = "forecast" => forecast # NoForecast /\ pack = earlier
  /\ stage # "forecast" /\ forecast # NoForecast => pack = Edited(earlier, forecast)

IInv == Typed /\ Analysed /\ Forecasted

LEMMA AskedEdit ==
  ASSUME NEW pk, NEW asked
  PROVE  /\ AskedUpdate(pk, asked) => asked.edit = "update"
         /\ AskedRemove(pk, asked) => asked.edit = "remove"
         /\ NoForecast.edit = "none"
  BY UpdateFields, RemoveFields DEF AskedUpdate, AskedRemove, NoForecast

LEMMA AskedTyped ==
  ASSUME NEW pk \in PackType, NEW asked, AskedUpdate(pk, asked) \/ AskedRemove(pk, asked)
  PROVE  Edited(pk, asked) \in PackType /\ (Plain(pk) => Plain(Edited(pk, asked)))
  <1>1. CASE AskedUpdate(pk, asked)
    <2>1. PICK k \in Confirmed(pk) :
            \E to \in Versions \ {k.version} : asked = UpdateImpact(pk, k.id, k.version, to)
      BY <1>1 DEF AskedUpdate
    <2>2. PICK to \in Versions : asked = UpdateImpact(pk, k.id, k.version, to)
      BY <2>1
    <2> QED BY <2>2, EditTyped, UpdatePlain
  <1>2. CASE AskedRemove(pk, asked)
    <2>1. PICK id \in Installed(pk) : asked = RemoveImpact(pk, id)
      BY <1>2 DEF AskedRemove
    <2> QED BY <2>1, EditTyped, RemovePlain
  <1> QED BY <1>1, <1>2

LEMMA InitInv == Init => IInv
  BY PackAssumption DEF Init, IInv, Typed, Analysed, Forecasted

LEMMA StepInv == IInv /\ [Next]_vars => IInv'
  <1> SUFFICES ASSUME IInv, [Next]_vars PROVE IInv'
    OBVIOUS
  <1> USE DEF IInv
  <1>1. CASE CheckPairs
    <2>1. Analysed'
      BY <1>1 DEF CheckPairs, Analysed
    <2>2. Typed' /\ Forecasted'
      BY <1>1 DEF CheckPairs, Typed, Forecasted
    <2> QED BY <2>1, <2>2
  <1>2. CASE Resolve
    <2>1. Analysed'
      BY <1>2 DEF Resolve, Analysed
    <2>2. Typed' /\ Forecasted'
      BY <1>2 DEF Resolve, Typed, Forecasted
    <2> QED BY <2>1, <2>2
  <1>3. CASE Conclude
    <2>1. Analysed'
      BY <1>3 DEF Conclude, Analysed
    <2>2. Typed' /\ Forecasted'
      BY <1>3 DEF Conclude, Typed, Forecasted
    <2> QED BY <2>1, <2>2
  <1>4. CASE AskUpdate
    <2>1. Analysed'
      BY <1>4 DEF AskUpdate, Analysed
    <2>2. Typed'
      BY <1>4 DEF AskUpdate, Typed
    <2>3. AskedUpdate(earlier', forecast')
      BY <1>4 DEF AskUpdate, AskedUpdate
    <2>4. forecast' # NoForecast
      BY <2>3, AskedEdit
    <2>5. stage' = "forecast" /\ pack' = earlier'
      BY <1>4 DEF AskUpdate
    <2>6. Forecasted'
      BY <2>3, <2>4, <2>5 DEF Forecasted
    <2> QED BY <2>1, <2>2, <2>6
  <1>5. CASE AskRemove
    <2>1. Analysed'
      BY <1>5 DEF AskRemove, Analysed
    <2>2. Typed'
      BY <1>5 DEF AskRemove, Typed
    <2>3. AskedRemove(earlier', forecast')
      BY <1>5 DEF AskRemove, AskedRemove
    <2>4. forecast' # NoForecast
      BY <2>3, AskedEdit
    <2>5. stage' = "forecast" /\ pack' = earlier'
      BY <1>5 DEF AskRemove
    <2>6. Forecasted'
      BY <2>3, <2>4, <2>5 DEF Forecasted
    <2> QED BY <2>1, <2>2, <2>6
  <1>6. CASE Edit
    <2>1. Analysed'
      BY <1>6 DEF Edit, Analysed
    <2>2. /\ AskedUpdate(earlier, forecast) \/ AskedRemove(earlier, forecast)
          /\ pack = earlier
      BY <1>6 DEF Edit, Forecasted
    <2>3. pack' \in PackType
      BY <1>6, <2>2, AskedTyped DEF Edit, Typed
    <2>4. Typed'
      BY <1>6, <2>3 DEF Edit, Typed
    <2>5. Forecasted'
      BY <1>6, <2>2 DEF Edit, Forecasted
    <2> QED BY <2>1, <2>4, <2>5
  <1>7. CASE UNCHANGED vars
    BY <1>7 DEF vars, Typed, Analysed, Forecasted
  <1> QED BY <1>1, <1>2, <1>3, <1>4, <1>5, <1>6, <1>7 DEF Next

\* The invariant holds in every behaviour, whatever the packs.
THEOREM AlwaysInv == Spec => []IInv
  BY InitInv, StepInv, PTL DEF Spec

-----------------------------------------------------------------------------
(* Plain packs stay plain, whatever the user does of what is forecast.       *)

PlainInv == Plain(pack) /\ Plain(earlier)

LEMMA InitPlain ==
  ASSUME \A pk \in Packs : Plain(pk)
  PROVE  Init => PlainInv
  BY DEF Init, PlainInv

LEMMA StepPlain == IInv /\ PlainInv /\ [Next]_vars => PlainInv'
  <1> SUFFICES ASSUME IInv, PlainInv, [Next]_vars PROVE PlainInv'
    OBVIOUS
  <1>1. CASE CheckPairs \/ Resolve \/ Conclude
    BY <1>1 DEF CheckPairs, Resolve, Conclude, PlainInv
  <1>2. CASE AskUpdate \/ AskRemove
    BY <1>2 DEF AskUpdate, AskRemove, PlainInv
  <1>3. CASE Edit
    <2>1. /\ AskedUpdate(earlier, forecast) \/ AskedRemove(earlier, forecast)
          /\ pack = earlier /\ pack \in PackType
      BY <1>3 DEF Edit, IInv, Forecasted, Typed
    <2>2. Plain(pack')
      BY <1>3, <2>1, AskedTyped DEF Edit, PlainInv
    <2> QED BY <1>3, <2>2 DEF Edit, PlainInv
  <1>4. CASE UNCHANGED vars
    BY <1>4 DEF vars, PlainInv
  <1> QED BY <1>1, <1>2, <1>3, <1>4 DEF Next

\* A pack that is plain is so after every edit the impact commands propose.
THEOREM AlwaysPlain ==
  ASSUME \A pk \in Packs : Plain(pk)
  PROVE  Spec => [](IInv /\ PlainInv)
  <1>1. Init => IInv /\ PlainInv
    BY InitInv, InitPlain
  <1>2. IInv /\ PlainInv /\ [Next]_vars => (IInv /\ PlainInv)'
    BY StepInv, StepPlain
  <1> QED BY <1>1, <1>2, PTL DEF Spec

-----------------------------------------------------------------------------
(* The properties.                                                          *)

\* A hard verdict on one declaration survives every way the unknowns can turn out.
PairVerdictIsCertain ==
  \A f \in findings : f.severity = "error" /\ f.family # "dependency-unsat" => Certain(pack, f)

\* What a finding of this layer is, in any stage.
LEMMA FindingsOf ==
  ASSUME IInv, NEW f \in findings
  PROVE  /\ pack \in PackType
         /\ \/ f \in PairFindings(pack)
            \/ /\ f \in ResolutionFinding(pack, PairFindings(pack), outcome)
               /\ outcome \in Resolutions(pack)
  <1>1. stage \in {"paired", "resolved", "concluded", "forecast"}
    BY DEF IInv, Analysed
  <1> QED BY <1>1 DEF IInv, Typed, Analysed

\* pairwise.rs states no error a provider of unknown version, an unselected
\* descriptor or an unreadable range might take back, duplicate packages and
\* aliases beside packages included.
THEOREM AlwaysPairVerdictIsCertain == Spec => []PairVerdictIsCertain
  <1>1. IInv => PairVerdictIsCertain
    <2> SUFFICES ASSUME IInv, NEW f \in findings, f.severity = "error", f.family # "dependency-unsat"
                 PROVE  Certain(pack, f)
      BY DEF PairVerdictIsCertain
    <2>1. pack \in PackType /\ f \in PairFindings(pack)
      BY FindingsOf, ResolutionFindingOf
    <2> QED BY <2>1, PairCertain
  <1> QED BY <1>1, AlwaysInv, PTL

\* Nor does rule.rs: of a plain pack it calls unsatisfiable no choice of versions
\* loads.
THEOREM AlwaysHardVerdictIsCertain ==
  ASSUME \A pk \in Packs : Plain(pk)
  PROVE  Spec => []HardVerdictIsCertain
  <1>1. IInv /\ PlainInv => HardVerdictIsCertain
    <2> SUFFICES ASSUME IInv, PlainInv, NEW f \in findings, f.severity = "error"
                 PROVE  Certain(pack, f)
      BY DEF HardVerdictIsCertain
    <2>1. CASE f \in PairFindings(pack)
      BY <2>1, FindingsOf, PairCertain
    <2>2. CASE /\ f \in ResolutionFinding(pack, PairFindings(pack), outcome)
               /\ outcome \in Resolutions(pack)
      <3>1. /\ f.family = "dependency-unsat" /\ outcome.status = "unsatisfiable"
            /\ ShouldEmitUnsat(PairFindings(pack), outcome.proof) /\ CoverageComplete(pack)
        BY <2>2, ResolutionFindingOf
      <3>2. PICK pin \in Pins(pack) : outcome.proof \in Contradictions(pack, pin)
        BY <2>2, <3>1, ResolutionOf
      <3>3. ~MayLoad(pack)
        BY <3>1, <3>2, UnsatIsCertain, FindingsOf DEF PlainInv
      <3> QED BY <3>1, <3>3 DEF Certain
    <2> QED BY <2>1, <2>2, FindingsOf
  <1> QED BY <1>1, AlwaysPlain, PTL

\* The pairs and the resolution leave no gap between them but the one that Masked
\* names: a plain pack that cannot load is reported on, by an error, by a note that
\* nothing could be decided, or by a finding about a required declaration itself,
\* unless a finding about another declaration of two mods of the proof masks it.
THEOREM AlwaysBrokenPackIsReported ==
  ASSUME \A pk \in Packs : Plain(pk)
  PROVE  Spec => []BrokenPackIsReported
  <1>1. IInv /\ PlainInv => BrokenPackIsReported
    <2> SUFFICES ASSUME IInv, PlainInv, stage = "concluded", ~MayLoad(pack), ~Masked
                 PROVE  \E f \in findings :
                          \/ f.severity = "error" \/ f.family = "dependency-resolution-skipped"
                          \/ f.family \in Explaining /\ f.about \intersect SurelyRequired(pack) # {}
      BY DEF BrokenPackIsReported
    <2>1. /\ pack \in PackType /\ outcome \in Resolutions(pack)
          /\ findings = PairFindings(pack) \union ResolutionFinding(pack, PairFindings(pack), outcome)
      BY DEF IInv, Typed, Analysed
    <2>2. PICK f \in findings :
            \/ f.severity = "error" \/ f.family = "dependency-resolution-skipped"
            \/ /\ f.family \in Explaining
               /\ \/ f.about \intersect SurelyRequired(pack) # {}
                  \/ \E c \in outcome.proof : {c.from, c.to} \subseteq f.affects
      BY <2>1, BrokenIsShown DEF PlainInv
    <2> QED BY <2>2 DEF Masked
  <1> QED BY <1>1, AlwaysPlain, PTL

\* What update_impact says of a plain pack is what pairwise_findings says of it
\* after the update.
THEOREM AlwaysUpdateForeseen ==
  ASSUME \A pk \in Packs : Plain(pk)
  PROVE  Spec => []UpdateForeseen
  <1>1. IInv /\ PlainInv => UpdateForeseen
    <2> SUFFICES ASSUME IInv, PlainInv, Reanalysed("update") PROVE UpdateForeseen
      BY DEF UpdateForeseen
    <2>1. stage = "paired" /\ forecast.edit = "update"
      BY DEF Reanalysed
    <2>2. AskedUpdate(earlier, forecast) /\ pack = Edited(earlier, forecast)
      BY <2>1, AskedEdit DEF IInv, Forecasted
    <2>3. earlier \in PackType /\ Plain(earlier) /\ findings = PairFindings(pack)
      BY <2>1 DEF IInv, Typed, Analysed, PlainInv
    <2> QED BY <2>2, <2>3, UpdateIsForeseen
  <1> QED BY <1>1, AlwaysPlain, PTL

\* What remove_impact lists of a plain pack covers every new hard error on a
\* requirement after the removal.
THEOREM AlwaysRemovalForeseen ==
  ASSUME \A pk \in Packs : Plain(pk)
  PROVE  Spec => []RemovalForeseen
  <1>1. IInv /\ PlainInv => RemovalForeseen
    <2> SUFFICES ASSUME IInv, PlainInv, Reanalysed("remove") PROVE RemovalForeseen
      BY DEF RemovalForeseen
    <2>1. stage = "paired" /\ forecast.edit = "remove"
      BY DEF Reanalysed
    <2>2. AskedRemove(earlier, forecast) /\ pack = Edited(earlier, forecast)
      BY <2>1, AskedEdit DEF IInv, Forecasted
    <2>3. earlier \in PackType /\ Plain(earlier) /\ findings = PairFindings(pack)
      BY <2>1 DEF IInv, Typed, Analysed, PlainInv
    <2> QED BY <2>2, <2>3, RemovalIsForeseen
  <1> QED BY <1>1, AlwaysPlain, PTL

===============================================================================
