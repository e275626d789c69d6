----------------------------- MODULE Dependencies -----------------------------
(***************************************************************************)
(* Layer C over one pack: the certainty-aware model of what is installed   *)
(* and provided (intermed-deps model.rs, graph.rs), the check of each      *)
(* declaration on its own (pairwise.rs), the whole-pack resolution over    *)
(* the finite installed catalog (provider.rs, resolver.rs), the rule that  *)
(* joins the two (rule.rs), and the forecasts of `impact update` and       *)
(* `impact remove` (impact.rs), which the user then acts on.               *)
(*                                                                         *)
(* A pack is a record of                                                   *)
(*   packages    [id, version, confirmed]                                  *)
(*   providers   [id, owner, version, state, bundled], state "active",     *)
(*               "unknown" or "inactive"; an unconfirmed identity makes a  *)
(*               provider "unknown"                                        *)
(*   constraints [from, to, range, relation, mandatory, applies], applies  *)
(*               "active", "off" (the other side's), "gated" (a feature,   *)
(*               a condition, an unresolved side), "undecided" (the        *)
(*               descriptor is one candidate of several) or "foreign" (it  *)
(*               is for another loader than the instance's)                *)
(*   archives    the ids some archive's file name suggests                 *)
(*   truncated   whether the metadata scan was cut short                   *)
(* The language of a range is that of its manifest; InRange stands for     *)
(* version_in_range_with_dialect, which answers "yes", "no" or "unknown".  *)
(***************************************************************************)
EXTENDS FiniteSets

CONSTANTS
  Ids,           \* mods, libraries and platforms
  Versions,      \* raw versions
  Ranges,        \* predicates over versions
  AnyRange,      \* the range every version is in
  InRange(_, _), \* what a dialect's evaluator answers
  Probe,         \* the version "0.0.0", which asks whether a range can be read
  Inherit,       \* a provider that declares no version of its own
  Platform,      \* minecraft, java and the loaders: never packages
  Runtime,       \* the version of each platform id, where it is known
  Packs          \* the packs an instance may hold

-----------------------------------------------------------------------------
(* Relations.                                                               *)

Ordering == {"loadbefore", "loadafter"}
Negative == {"breaks", "conflicts", "discouraged"}
Solvable == {"requires", "includes"}
Relations == Ordering \union Negative \union Solvable \union {"recommends", "suggests", "other"}

-----------------------------------------------------------------------------
(* What a pack is made of.  A platform is no package, and the manifests      *)
(* make no weak relation mandatory.                                         *)

Packages == [id : Ids \ Platform, version : Versions, confirmed : BOOLEAN]

Providers == [id : Ids, owner : Ids, version : Versions \union {Inherit},
              state : {"active", "unknown", "inactive"}, bundled : BOOLEAN]

Constraints ==
  {c \in [from : Ids, to : Ids, range : Ranges, relation : Relations, mandatory : BOOLEAN,
          applies : {"active", "off", "gated", "undecided", "foreign"}] :
     c.mandatory => c.relation \in Solvable \union Negative \union Ordering}

PackType == [packages : SUBSET Packages, providers : SUBSET Providers,
             constraints : SUBSET Constraints, archives : SUBSET Ids, truncated : BOOLEAN]

\* What a version nobody knows may be: anything.
UnknownV == "unknown version"

ASSUME PackAssumption ==
  Packs \subseteq PackType

ASSUME RangeAssumption ==
  /\ AnyRange \in Ranges /\ Inherit \notin Versions /\ UnknownV \notin Versions
  /\ \A v \in Versions \union {Probe}, r \in Ranges : InRange(v, r) \in {"yes", "no", "unknown"}
  /\ \A v \in Versions \union {Probe} : InRange(v, AnyRange) = "yes"

VARIABLES
  pack,      \* what is installed
  stage,     \* how far the analysis has come
  findings,  \* what the dependency rule has concluded
  outcome,   \* what the resolver answered
  forecast,  \* the impact analysis asked for, if one was
  earlier    \* the pack the forecast was made from

vars == <<pack, stage, findings, outcome, forecast, earlier>>

Unasked == [status |-> "unasked", proof |-> {}]
NoForecast == [edit |-> "none"]

-----------------------------------------------------------------------------
(* What satisfies a range.                                                  *)

Confirmed(pk) == {k \in pk.packages : k.confirmed}
Installed(pk) == {k.id : k \in Confirmed(pk)}

\* A provider's version, or its owner's: a set of at most one.
ProvidedVersion(pk, p) ==
  IF p.version # Inherit THEN {p.version}
  ELSE {k.version : k \in {o \in Confirmed(pk) : o.id = p.owner}}

\* A bundled copy gives way to a package of the same id.
Shadowed(pk, p) == p.bundled /\ \E k \in pk.packages : k.id = p.id

Offers(pk, id) == {p \in pk.providers : p.id = id /\ ~Shadowed(pk, p) /\ p.state # "inactive"}

OfPackage(k, range) == IF k.confirmed THEN InRange(k.version, range) ELSE "unknown"

OfProvider(pk, p, range) ==
  IF p.state # "active" THEN "unknown"
  ELSE IF range = AnyRange THEN "yes"
  ELSE IF ProvidedVersion(pk, p) = {} THEN "unknown"
  ELSE InRange(CHOOSE v \in ProvidedVersion(pk, p) : TRUE, range)

Answers(pk, id, range) ==
  {OfPackage(k, range) : k \in {k \in pk.packages : k.id = id}}
    \union {OfProvider(pk, p, range) : p \in Offers(pk, id)}

\* Fault: a known version outside the range outweighs an unresolved provider.
KnownOutweighs(pk, id, range) ==
  LET answers == Answers(pk, id, range)
  IN  IF "yes" \in answers THEN "satisfied" ELSE IF "no" \in answers THEN "unsatisfied"
      ELSE IF "unknown" \in answers THEN "unknown" ELSE "absent"

Resolution(pk, id, range) ==
  LET answers == Answers(pk, id, range)
  IN  IF "yes" \in answers THEN "satisfied" ELSE IF "unknown" \in answers THEN "unknown"
      ELSE IF "no" \in answers THEN "unsatisfied" ELSE "absent"

\* The packages alone; any copy of an id that is there twice will do.  Versions
\* with a game's version in front are undecidable to the generic dialect only,
\* which no manifest with ranges is read in (plugins ask for any version).
RangeStatus(pk, id, range) ==
  LET answers == {InRange(k.version, range) : k \in {k \in Confirmed(pk) : k.id = id}}
  IN  IF answers = {} THEN "absent" ELSE IF "yes" \in answers THEN "in"
      ELSE IF "unknown" \in answers THEN "undecidable" ELSE "out"

-----------------------------------------------------------------------------
(* One declaration at a time: the family and the severity of a finding.     *)

Silent == <<"none", "none">>

Requirement(pk, c) ==
  LET provided  == Resolution(pk, c.to, c.range)
      direct    == RangeStatus(pk, c.to, c.range)
      hard      == IF c.mandatory THEN "error" ELSE "warn"
      Needed(f, s) == IF c.mandatory THEN <<f, s>> ELSE Silent
  IN  IF provided = "satisfied" THEN Silent
      ELSE IF direct = "undecidable" THEN <<"version-undecidable", "note">>
      ELSE CASE provided = "unknown"     -> Needed("provided-version-unknown", "warn")
             [] provided = "unsatisfied" -> <<"wrong-version", hard>>
             [] OTHER ->
                  IF c.to \in pk.archives THEN Needed("provider-identity-unresolved", "warn")
                  ELSE Needed("missing-dependency", "error")

Incompatibility(pk, c) ==
  LET provided == Resolution(pk, c.to, c.range)
      Graded(family, sure, unsure) ==
        CASE provided = "satisfied" -> <<family, sure>>
          [] provided = "unknown"   -> <<"undecided-incompatibility", unsure>>
          [] OTHER                  -> Silent
  IN  CASE c.relation = "breaks"    -> Graded("incompatible-mod", "error", "warn")
        [] c.relation = "conflicts" -> Graded("conflicting-mod", "warn", "note")
        [] OTHER                    -> Graded("discouraged-dependency", "warn", "note")

RuntimeCheck(c) ==
  IF c.to \in DOMAIN Runtime /\ InRange(Runtime[c.to], c.range) = "no"
  THEN <<"wrong-runtime-version", "warn">> ELSE Silent

\* A declaration of a descriptor that was not selected.
Unselected(c) == IF c.applies = "foreign" THEN "dependency-cross-loader-inactive"
                 ELSE "dependency-identity-undecidable"

Verdict(pk, c) ==
  IF c.applies # "active"
  THEN IF c.applies \in {"undecided", "foreign"} /\ c.mandatory /\ c.to \notin Platform /\ c.relation \notin Ordering
       THEN <<Unselected(c), "note">> ELSE Silent
  ELSE CASE c.relation \in Ordering -> Silent
         [] c.relation \in Negative -> IF c.to \in Platform THEN Silent ELSE Incompatibility(pk, c)
         [] OTHER -> IF c.to \in Platform THEN RuntimeCheck(c) ELSE Requirement(pk, c)

PairFinding(pk, c) ==
  [family |-> Verdict(pk, c)[1], severity |-> Verdict(pk, c)[2],
   affects |-> IF c.to \in Platform THEN {c.from} ELSE {c.from, c.to}, about |-> {c}]

PairFindings(pk) == {PairFinding(pk, c) : c \in {c \in pk.constraints : Verdict(pk, c) # Silent}}

-----------------------------------------------------------------------------
(* All declarations together: the catalog of installed versions, and the    *)
(* external solver, which pins what is installed and picks one version of   *)
(* whatever else is required.                                               *)

Aliases(pk, id) == {p \in pk.providers : p.id = id /\ p.state # "inactive"}

KnownVersion(pk, p) == IF p.state = "active" THEN ProvidedVersion(pk, p) ELSE {}

\* Ids some provider of which has no known version: nothing is asked of them.
UnknownProviderIds(pk) ==
  {id \in {p.id : p \in pk.providers} : \E p \in Aliases(pk, id) : KnownVersion(pk, p) = {}}

CatalogVersions(pk, id) ==
  IF id \in Installed(pk) THEN {k.version : k \in {k \in Confirmed(pk) : k.id = id}}
  ELSE UNION {KnownVersion(pk, p) : p \in Aliases(pk, id)}

\* A version the evaluator cannot judge is let through, and so is a missing
\* package behind a range nobody can read.
Permits(c, v) == InRange(v, c.range) # "no"

Constrains(pk, c) == CatalogVersions(pk, c.to) # {} \/ InRange(Probe, c.range) # "unknown"

SolverEdges(pk) ==
  {c \in pk.constraints :
     /\ c.applies = "active" /\ c.mandatory /\ c.relation \in Solvable
     /\ c.from \in Installed(pk)
     /\ c.to \notin Platform \union UnknownProviderIds(pk)
     /\ Constrains(pk, c)}

\* The root asks for every installed package at its version; of a package that
\* is there twice one version is kept.
Pins(pk) == {pin \in [Installed(pk) -> Versions] :
               \A id \in Installed(pk) : pin[id] \in CatalogVersions(pk, id)}

Selectable(pk, pin, id) == IF id \in Installed(pk) THEN {pin[id]} ELSE CatalogVersions(pk, id)

\* Fault: each declaration picks its own provider.
SingleContradictions(pk, pin) ==
  {{c} : c \in {c \in SolverEdges(pk) : \A v \in Selectable(pk, pin, c.to) : ~Permits(c, v)}}

\* The sets of declarations a proof of contradiction can rest on.
Contradictions(pk, pin) ==
  {core \in SUBSET SolverEdges(pk) :
     /\ core # {}
     /\ \E id \in {c.to : c \in core} :
          /\ \A c \in core : c.to = id
          /\ \A v \in Selectable(pk, pin, id) : \E c \in core : ~Permits(c, v)}

Resolutions(pk) ==
  IF Installed(pk) = {} /\ "minecraft" \notin DOMAIN Runtime
  THEN {[status |-> "skipped", proof |-> {}]}
  ELSE UNION {
    IF Contradictions(pk, pin) = {} THEN {[status |-> "satisfied", proof |-> {}]}
    ELSE {[status |-> "unsatisfiable", proof |-> core] : core \in Contradictions(pk, pin)} :
    pin \in Pins(pk)}

-----------------------------------------------------------------------------
(* The rule: what the resolution adds to the pairs.                         *)

Explaining == {"missing-dependency", "wrong-version", "provider-identity-unresolved",
               "dependency-identity-undecidable"}

\* Fault: any finding about the two mods will do.
EmitUnlessAffected(found, proof) ==
  ~ \E c \in proof, f \in found : {c.from, c.to} \subseteq f.affects

ShouldEmitUnsat(found, proof) ==
  ~ \E c \in proof, f \in found : {c.from, c.to} \subseteq f.affects /\ f.family \in Explaining

CoverageComplete(pk) ==
  /\ ~pk.truncated
  /\ \A k \in pk.packages : k.confirmed
  /\ \A p \in pk.providers : p.state # "unknown"
  /\ \A c \in pk.constraints :
       /\ c.applies \notin {"gated", "undecided", "foreign"}
       /\ c.applies = "active" => InRange(Probe, c.range) # "unknown"

Global(family, severity, about) ==
  {[family |-> family, severity |-> severity, affects |-> {}, about |-> about]}

ResolutionFinding(pk, found, answer) ==
  CASE answer.status = "unsatisfiable" /\ ShouldEmitUnsat(found, answer.proof) ->
         IF CoverageComplete(pk) THEN Global("dependency-unsat", "error", answer.proof)
         ELSE Global("dependency-resolution-skipped", "note", pk.constraints)
    [] answer.status = "skipped" /\ pk.packages # {} /\ pk.constraints # {} ->
         Global("dependency-resolution-skipped", "note", pk.constraints)
    [] OTHER -> {}

-----------------------------------------------------------------------------
(* Blast radius.                                                            *)

Declared(pk) == {c \in pk.constraints : c.applies = "active"}

\* What the forecast passes over: what is only suggested, and relations that
\* this program does not know.
PassedOver == {"suggests", "other"}

Weighed(pk, target) ==
  {c \in Declared(pk) : c.to = target /\ c.relation \notin Ordering \union PassedOver}

\* Fault: leaving a negative range is a breakage too, and entering one is not.
BreaksOnReject(c, from, to) == InRange(to, c.range) = "no"

Breaks(c, from, to) ==
  IF c.relation \in Negative THEN InRange(to, c.range) = "yes" /\ InRange(from, c.range) # "yes"
  ELSE InRange(to, c.range) = "no"

NowSatisfied(c, from, to) ==
  IF c.relation \in Negative THEN InRange(to, c.range) = "no" /\ InRange(from, c.range) = "yes"
  ELSE InRange(to, c.range) = "yes" /\ InRange(from, c.range) = "no"

UpdateImpact(pk, target, from, to) ==
  [edit |-> "update", target |-> target, to |-> to,
   breaks |-> {c \in Weighed(pk, target) : Breaks(c, from, to)},
   nowSatisfied |-> {c \in Weighed(pk, target) : NowSatisfied(c, from, to)},
   undecidable |-> {c \in Weighed(pk, target) : InRange(to, c.range) = "unknown"}]

\* Fault: only those the target serves today.
ServedDependents(pk, target) ==
  {c.from : c \in {c \in Declared(pk) :
                     c.to = target /\ c.relation \in Solvable /\ RangeStatus(pk, target, c.range) = "in"}}

DeclaredDependents(pk, target) ==
  {c.from : c \in {c \in Declared(pk) :
                     c.to = target /\ c.relation \in {"requires", "recommends", "includes"}}}

LostProvides(pk, target) == {p.id : p \in {p \in pk.providers : p.owner = target /\ p.state # "unknown"}}

RemoveImpact(pk, target) ==
  [edit |-> "remove", target |-> target,
   dependents |-> DeclaredDependents(pk, target), provides |-> LostProvides(pk, target)]

-----------------------------------------------------------------------------
Init ==
  /\ pack \in Packs
  /\ stage = "collected"
  /\ findings = {} /\ outcome = Unasked
  /\ forecast = NoForecast /\ earlier = pack

\* DependencyRule::evaluate
CheckPairs ==
  /\ stage = "collected"
  /\ findings' = PairFindings(pack)
  /\ stage' = "paired"
  /\ UNCHANGED <<pack, outcome, forecast, earlier>>

Resolve ==
  /\ stage = "paired"
  /\ outcome' \in Resolutions(pack)
  /\ stage' = "resolved"
  /\ UNCHANGED <<pack, findings, forecast, earlier>>

Conclude ==
  /\ stage = "resolved"
  /\ findings' = findings \union ResolutionFinding(pack, findings, outcome)
  /\ stage' = "concluded"
  /\ UNCHANGED <<pack, outcome, forecast, earlier>>

\* intermed impact update
AskUpdate ==
  /\ stage = "concluded" /\ forecast = NoForecast
  /\ \E k \in Confirmed(pack) : \E to \in Versions \ {k.version} :
       forecast' = UpdateImpact(pack, k.id, k.version, to)
  /\ earlier' = pack
  /\ stage' = "forecast"
  /\ UNCHANGED <<pack, findings, outcome>>

\* intermed impact remove
AskRemove ==
  /\ stage = "concluded" /\ forecast = NoForecast
  /\ \E id \in Installed(pack) : forecast' = RemoveImpact(pack, id)
  /\ earlier' = pack
  /\ stage' = "forecast"
  /\ UNCHANGED <<pack, findings, outcome>>

\* The user does what was asked about, and the pack is collected again.  The
\* environment's step: an archive goes with what it declares and provides.
Edited(pk, asked) ==
  IF asked.edit = "update"
  THEN [pk EXCEPT !.packages = {IF k.id = asked.target THEN [k EXCEPT !.version = asked.to] ELSE k : k \in @}]
  ELSE [pk EXCEPT !.packages = {k \in @ : k.id # asked.target},
                  !.providers = {p \in @ : p.owner # asked.target},
                  !.constraints = {c \in @ : c.from # asked.target},
                  !.archives = @ \ {asked.target}]

Edit ==
  /\ stage = "forecast"
  /\ pack' = Edited(pack, forecast)
  /\ stage' = "collected"
  /\ findings' = {} /\ outcome' = Unasked
  /\ UNCHANGED <<forecast, earlier>>

Next == CheckPairs \/ Resolve \/ Conclude \/ AskUpdate \/ AskRemove \/ Edit

Spec == Init /\ [][Next]_vars

-----------------------------------------------------------------------------
(* What a pack may turn out to be once its unknowns are settled: the        *)
(* versions an id may have, UnknownV for one that could be anything.        *)

MayBe(pk, id) ==
  LET packages  == {k \in pk.packages : k.id = id}
      providers == {p \in pk.providers : p.id = id /\ p.state # "inactive" /\ (p.bundled => packages = {})}
  IN  {IF k.confirmed THEN k.version ELSE UnknownV : k \in packages}
        \union {IF KnownVersion(pk, p) = {} THEN UnknownV ELSE CHOOSE v \in KnownVersion(pk, p) : TRUE :
                  p \in providers}
        \union (IF pk.truncated \/ (packages = {} /\ providers = {} /\ id \in pk.archives)
                THEN {UnknownV} ELSE {})

MayMeet(v, c) == v = UnknownV \/ InRange(v, c.range) # "no"

SurelyRequired(pk) ==
  {c \in pk.constraints : c.applies = "active" /\ c.mandatory /\ c.relation \in Solvable /\ c.to \notin Platform}

\* One version of everything required, acceptable to all who require it.
MayLoad(pk) ==
  \A id \in {c.to : c \in SurelyRequired(pk)} :
    \E v \in MayBe(pk, id) : \A c \in SurelyRequired(pk) : c.to = id => MayMeet(v, c)

\* A hard verdict of this layer survives every way the pack's unknowns can turn
\* out: a missing or wrong dependency has no provider that might do, a declared
\* breakage has an installed version surely in its range (any version is in the
\* range of all, that of a loader's library without one too), and a pack called
\* unsatisfiable has no choice of versions that might load.  (What the trust
\* contract takes back when the scan was truncated is not held against it.)
Certain(pk, f) ==
  CASE f.family \in {"missing-dependency", "wrong-version"} ->
         pk.truncated \/ \A c \in f.about : \A v \in MayBe(pk, c.to) : ~MayMeet(v, c)
    [] f.family = "incompatible-mod" ->
         \A c \in f.about :
           \/ \E v \in MayBe(pk, c.to) : v # UnknownV /\ InRange(v, c.range) = "yes"
           \/ c.range = AnyRange /\ \E p \in Offers(pk, c.to) : p.state = "active"
    [] f.family = "dependency-unsat" -> ~MayLoad(pk)

HardVerdictIsCertain == \A f \in findings : f.severity = "error" => Certain(pack, f)

\* The proof of the contradiction names a declaration, and a finding about another
\* one of the same two mods, which nobody needs met, keeps it from the report
\* (should_emit_pubgrub_unsat compares mods, not declarations).
Masked ==
  \E c \in outcome.proof, f \in findings :
    /\ f.family \in Explaining /\ f.about \intersect SurelyRequired(pack) = {}
    /\ {c.from, c.to} \subseteq f.affects

\* Nothing broken passes for healthy: if no way of settling the unknowns gives
\* a pack that loads, the report holds an error, says it could not decide, or
\* says of a declaration that is itself required that its target could not be
\* identified; where this fails, the contradiction is masked.
BrokenPackIsReported ==
  (stage = "concluded" /\ ~MayLoad(pack) /\ ~Masked) =>
    \E f \in findings :
      \/ f.severity = "error" \/ f.family = "dependency-resolution-skipped"
      \/ f.family \in Explaining /\ f.about \intersect SurelyRequired(pack) # {}

\* What the comment on should_emit_pubgrub_unsat says: a contradiction is dropped
\* only where the pairwise checks have surfaced its cause and an unsat would
\* "duplicate the error".
BrokenPackIsAnError ==
  (stage = "concluded" /\ ~MayLoad(pack)) =>
    \E f \in findings : f.severity = "error" \/ f.family = "dependency-resolution-skipped"

\* The packs the verdicts are sure of: an id is there once, and no alias stands
\* beside a package of its id; whose declarations are active is installed, and a
\* provider is unknown because its owner is.
Plain(pk) ==
  /\ \A k, l \in pk.packages : k.id = l.id => k = l
  /\ \A k \in Confirmed(pk), p \in pk.providers : p.id = k.id => p.bundled \/ p.state = "inactive"
  /\ \A c \in pk.constraints : c.applies = "active" => c.from \in Installed(pk)
  /\ \A p \in pk.providers : p.state = "unknown" => p.owner \notin Installed(pk)

\* The findings that name a declaration, and how bad they are.
Hard(c)      == \E f \in findings : c \in f.about /\ f.family \in {"wrong-version", "incompatible-mod", "conflicting-mod", "discouraged-dependency"} /\ f.severity \in {"warn", "error"}
Undecided(c) == \E f \in findings : c \in f.about /\ f.family \in {"version-undecidable", "undecided-incompatibility"}

Reanalysed(edit) == stage = "paired" /\ forecast.edit = edit

\* `impact update` says what the Doctor will say after the update.  Of what it
\* weighs, no more and no less: a declaration on the updated mod breaks if and
\* only if it was forecast to, or is negative and was in its range before; it is
\* undecided if and only if it was forecast so.  What it passes over costs at
\* most a warning.  And a verdict on any other id changes only if the mod
\* provides that id without a version of its own.
UpdateForeseen ==
  Reanalysed("update") =>
    /\ \A c \in Weighed(pack, forecast.target) :
         /\ Hard(c) <=> \/ c \in forecast.breaks
                        \/ c.relation \in Negative /\ Verdict(earlier, c) = Verdict(pack, c) /\ Verdict(pack, c) # Silent /\ ~Undecided(c)
         /\ Undecided(c) <=> c \in forecast.undecidable
         /\ c \in forecast.nowSatisfied => ~Hard(c) /\ ~Undecided(c)
    /\ \A c \in Declared(pack) : c.to = forecast.target /\ c.relation \in PassedOver =>
         \A f \in findings : c \in f.about => f.severity # "error"
    /\ \A c \in pack.constraints :
         c.to = forecast.target
           \/ Verdict(pack, c) = Verdict(earlier, c)
           \/ \E p \in pack.providers : p.id = c.to /\ p.owner = forecast.target /\ p.version = Inherit

\* The same of what the forecast passes over, which the code does not keep: a
\* suggestion is warned about after the update only if it was before, or if the
\* forecast of `impact update` said so.
SuggestionsForeseen ==
  Reanalysed("update") =>
    \A c \in Declared(pack) : c.to = forecast.target /\ c.relation \in PassedOver /\ Hard(c) =>
      c \in forecast.breaks \/ Verdict(earlier, c) = Verdict(pack, c)

\* `impact remove` names everyone who will miss something: a requirement that
\* becomes a hard error when the mod is gone is declared by a dependent it
\* lists, or is on an id it lists as lost with the mod.
RemovalForeseen ==
  Reanalysed("remove") =>
    \A f \in findings :
      (f.severity = "error" /\ f.family \in {"missing-dependency", "wrong-version"}) =>
        \A c \in f.about :
          \/ Verdict(earlier, c) = Verdict(pack, c)
          \/ c.from \in forecast.dependents /\ c.to = forecast.target
          \/ c.to \in forecast.provides
===============================================================================
