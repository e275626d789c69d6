---------------------------- MODULE TrustContract ----------------------------
(***************************************************************************)
(* The trust contract: what a rule's proposal becomes once its             *)
(* prerequisites are checked (intermed-doctor-core assessment.rs, the      *)
(* coverage of scope.rs) and once other layers contradict it               *)
(* (coherence/reconcile.rs).                                               *)
(*                                                                         *)
(* A finding is the proposal of its rule ("of", which never changes) with  *)
(* the fields later stages rewrite.  Severities are 1 (info), 2 (note),    *)
(* 3 (warn), 4 (error), 5 (fatal); confidence is in per cent.              *)
(***************************************************************************)
EXTENDS FactStore, Sequences

CONSTANTS
  Collectors,  \* collector identifiers
  Scope,       \* per collector: [produces, emits, regions, allOrNothing, ends]
  GraphKinds   \* kinds from which the evidence graph makes its links

Info == 1
Note == 2
Warn == 3
Error == 4
Fatal == 5
Severity == Info .. Fatal

MinOf(a, b) == IF a < b THEN a ELSE b

\* The facts a finding cites.
Cited(s, f) == Get(s, f.cites)

\* Facts with a flag: an attribute with the value the flag names.
Flagged(F, flag) == {x \in F : flag \in x.is}

-----------------------------------------------------------------------------
(* Coverage: "complete", "partial" or "unavailable".                        *)

\* region_coverage: every collector that declares the region counts.
RegionCoverage(status, region) ==
  LET matching == {c \in Collectors : region \in Scope[c].regions}
      with(st) == {c \in matching : status[c] \in st}
  IN  IF matching = {} \/ with({"failed"}) # {}    THEN "unavailable"
      ELSE IF with({"incomplete"}) # {}
           THEN IF \E c \in with({"incomplete"}) : Scope[c].allOrNothing
                THEN "unavailable" ELSE "partial"
      ELSE IF with({"active", "complete-empty"}) # {} THEN "complete"
      ELSE "unavailable"

\* combine_coverage.
Both(a, b) == IF a = "complete" /\ b = "complete" THEN "complete"
              ELSE IF a = "unavailable" /\ b = "unavailable" THEN "unavailable"
              ELSE "partial"

Unless(ok, coverage) == IF ok THEN coverage ELSE "unavailable"

\* resolve_environment_field for the loader: the sources of the highest rank
\* decide, and only if they agree.  An authoritative source outranks a guess.
Rank(x) == IF "authoritative" \in x.is THEN 2 ELSE 1
TopEnvironment(s) ==
  {x \in ByKind(s, "environment") : \A y \in ByKind(s, "environment") : Rank(y) <= Rank(x)}
Agreed(F) == \A x, y \in F : x.about = y.about
StrongestEnvironment(s) ==
  {x \in TopEnvironment(s) : Agreed(TopEnvironment(s)) /\ \A y \in TopEnvironment(s) : x.id <= y.id}

LoaderIdentity(s) ==
  IF TopEnvironment(s) = {} THEN IF ByKind(s, "mod") # {} THEN "partial" ELSE "unavailable"
  ELSE IF \E x \in StrongestEnvironment(s) : Rank(x) = 2 THEN "complete" ELSE "partial"

\* derive_with_scopes and for_requirement: the coverage a requirement asks for,
\* of a target (what it has: "mods", "minecraft-jar", "mappings"), from the
\* facts and from how the collectors ended.
Coverage(s, status, target, req) ==
  LET region(r)    == RegionCoverage(status, r)
      materialized == IF ByKind(s, "modpack-incomplete") # {} THEN "partial"
                      ELSE Unless("mods" \in target, region("metadata"))
      mixin        == region("mod-classpath")
      indexed(of)  == Flagged(ByKind(s, "classpath"), of) # {}
  IN  CASE req \in {"local-artifact", "complete-pack", "complete-provider-universe",
                    "active-descriptor", "known-bridge-semantics"} -> materialized
        [] req \in {"runtime-evidence", "terminal-runtime"} -> region("logs")
        [] req = "authoritative-loader" -> LoaderIdentity(s)
        [] req \in {"applicable-mixin", "mod-classpath"} -> Unless(indexed("mods"), mixin)
        [] req = "complete-classpath" ->
             Unless("minecraft-jar" \in target /\ indexed("minecraft"), mixin)
        [] req = "compatible-mappings" -> Unless("mappings" \in target, mixin)
        [] req = "complete-vanilla-baseline" ->
             IF "minecraft-jar" \notin target THEN "unavailable"
             ELSE IF Flagged(ByKind(s, "scan-truncated"), "vanilla") # {} THEN "partial"
             ELSE region("vanilla")
        [] req = "known-runtime-mutators" ->
             Both(Both(region("scripts"), region("mutation-logs")), mixin)
        [] req = "relevant-resources" -> region("datapacks")
        [] OTHER -> region(req)   \* resource blobs, runtime profile

-----------------------------------------------------------------------------
(* evaluate_requirement: does the evidence meet the requirement.            *)

\* A log signal names the event that a crash anchor describes.
Terminal(s, f) ==
  \E x \in Cited(s, f) :
    \/ x.kind = "crash-anchor"
    \/ /\ x.kind = "log-signal"
       /\ \E event \in x.about : ByKindSubject(s, "crash-anchor", event) # {}

\* A loader mismatch may rest on the one foreign descriptor an artifact has.
OnlyForeign(f, x) == /\ f.of.conclusion = "loader-mismatch"
                     /\ {"cross-loader", "single-candidate"} \subseteq x.is

Undecidable(s, f) ==
  \E x \in Cited(s, f) :
    \/ x.is \intersect {"cross-loader", "identity-unsure"} # {} /\ ~OnlyForeign(f, x)
    \/ "inactive" \in x.is

ExplicitlyActive(s, f) ==
  \E x \in Cited(s, f) : x.is \intersect {"confirmed", "active"} # {} \/ OnlyForeign(f, x)

Satisfied(s, f, req, complete, incremental) ==
  /\ incremental => req \notin {"complete-pack", "complete-provider-universe", "relevant-resources"}
  /\ CASE req = "terminal-runtime"  -> Terminal(s, f)
       [] req = "active-descriptor" ->
            complete /\ ExplicitlyActive(s, f) /\ ~Undecidable(s, f)
       [] req = "known-bridge-semantics" ->
            complete /\ Flagged(ByKind(s, "compatibility-bridge"), "ambiguous") = {}
       [] req = "applicable-mixin" ->
            complete /\ Flagged(Cited(s, f), "applicable") # {}
       [] req = "known-runtime-mutators" ->
            complete /\ ByKind(s, "mixin-resource-mutation") = {}
                     /\ ByKind(s, "script-modifies-recipe") = {}
       [] OTHER -> complete

\* CompleteClasspath is about Minecraft's classes or about the mods'.
Region(s, f, req) ==
  IF req = "complete-classpath" /\ Flagged(Cited(s, f), "minecraft-target") = {}
  THEN "mod-classpath" ELSE req

Complete(s, status, target, f, req) ==
  Coverage(s, status, target, Region(s, f, req)) = "complete"

-----------------------------------------------------------------------------
(* assess_findings.                                                         *)

Strong == {"observation", "derivation"}

\* certainty_for; a finding without a proof counts as a heuristic.
Certainty(f) ==
  IF f.of.proof \in Strong
  THEN IF f.conf >= 90 THEN "confirmed" ELSE IF f.conf >= 70 THEN "probable" ELSE "undecidable"
  ELSE IF f.conf >= 70 THEN "possible" ELSE "undecidable"

\* What stands in the way of the proposal.
Blockers(s, status, target, incremental, f) ==
  f.blockers
  \union {r \in f.reqs : ~Satisfied(s, f, r, Complete(s, status, target, f, r), incremental)}
  \union (IF /\ f.of.conclusion # "analysis-incomplete"
             /\ \E x \in Cited(s, f) : x.kind = "scan-truncated"
          THEN {"collector-reported-incomplete"} ELSE {})
  \union (IF f.sev >= Error
          THEN   (IF f.of.proof = "none" THEN {"no-proof-kind"} ELSE {})
          \union (IF f.reqs = {} THEN {"no-coverage-contract"} ELSE {})
          \union (IF Certainty(f) # "confirmed" THEN {"certainty-below-confirmed"} ELSE {})
          ELSE {})

Change(code, from, to) == [code |-> code, from |-> from, to |-> to, refuters |-> {}]

\* Fault: an Error keeps its severity when a prerequisite is missing.
AssessUngated(s, status, target, incremental, f) ==
  [f EXCEPT !.blockers = Blockers(s, status, target, incremental, f),
            !.disp     = "asserted",
            !.cert     = Certainty(f),
            !.coverage = {Coverage(s, status, target, Region(s, f, r)) : r \in f.reqs}]

\* Fault: the gate leaves no trace of the severity it replaced.
AssessSilently(s, status, target, incremental, f) ==
  LET blockers == Blockers(s, status, target, incremental, f)
  IN  [f EXCEPT !.sev      = IF blockers # {} THEN MinOf(@, Warn) ELSE @,
                !.disp     = IF blockers # {} THEN "abstained" ELSE "asserted",
                !.cert     = IF blockers # {} THEN "undecidable" ELSE Certainty(f),
                !.blockers = blockers,
                !.coverage = {Coverage(s, status, target, Region(s, f, r)) : r \in f.reqs}]

\* First Fatal is kept for terminal runtime evidence, then the gate.
Assess(s, status, target, incremental, f) ==
  LET blockers == Blockers(s, status, target, incremental, f)
      coverage == {Coverage(s, status, target, Region(s, f, r)) : r \in f.reqs}
      unended  == f.sev = Fatal /\ "terminal-runtime" \notin f.reqs
      gated    == blockers # {} /\ f.sev >= Error
  IN  [f EXCEPT
        !.sev      = IF gated THEN Warn ELSE IF unended THEN Error ELSE @,
        !.conf     = IF gated THEN MinOf(@, 65) ELSE @,
        !.disp     = IF unended \/ f.disp = "downgraded" THEN "downgraded"
                     ELSE IF blockers # {} THEN "abstained" ELSE "asserted",
        !.cert     = IF blockers = {} THEN Certainty(f)
                     ELSE IF "unavailable" \in coverage THEN "unavailable" ELSE "undecidable",
        !.blockers = blockers,
        !.coverage = coverage,
        !.tags     = IF blockers # {} THEN @ \union {"why-not-error"} ELSE @,
        !.trail    = @ \union (IF unended THEN {Change("fatal-requires-terminal-runtime", Fatal, Error)} ELSE {})
                       \union (IF gated THEN {Change("hard-error-gated", f.sev, Warn)} ELSE {})]

-----------------------------------------------------------------------------
(* reconcile_findings: exact evidence of another layer against a hypothesis.*)

Frames(s) == ByKind(s, "stack-frame")

Naming(F, name) == {x \in F : name \in x.about}

\* The mods installed under a name, as far as their descriptors are settled.
Installed(s, m) ==
  {x \in ByKindSubject(s, "mod", m) :
     x.is \intersect {"cross-loader", "identity-unsure", "inactive"} = {}}

\* Runtime events (the subjects of frames) whose frames name both mods.
Together(s, from, to) ==
  {x.subject : x \in Naming(Frames(s), from)} \intersect {x.subject : x \in Naming(Frames(s), to)}

\* Call edges of one mod into a package that the other owns.
CallsInto(s, from, to) ==
  {e \in ByKindSubject(s, "call-edge", from) :
     \E own \in ByKindSubject(s, "package-owner", to) : own.about = e.about}

\* The facts that refute the finding; none, if it stands.  "about" is what the
\* attributes of a fact name: classes, mods, packages, events, loaders.
Refuters(s, f) ==
  LET from == f.of.components[1]
      to   == f.of.components[2]
  IN  CASE f.of.conclusion \in {"class-absent", "method-absent"} ->
             {x \in Frames(s) : \E y \in Cited(s, f) \ Frames(s) : y.about \intersect x.about # {}}
        [] f.of.conclusion = "dependency-unused" ->
             IF Together(s, from, to) # {}
             THEN {x \in Frames(s) : x.subject \in Together(s, from, to)}
             ELSE CallsInto(s, from, to)
        [] f.of.conclusion = "missing-dependency" -> Installed(s, to)
        [] f.of.conclusion = "loader-mismatch" ->
             {x \in StrongestEnvironment(s) :
                LET cited == {y \in Cited(s, f) : y.kind = "environment"}
                IN  \E y \in cited : y # x /\ \A z \in cited : y.id <= z.id}
        [] OTHER -> {}

Refutation(f, to, refuters) ==
  [code |-> "cross-layer-contradiction", from |-> f.sev, to |-> to,
   refuters |-> {x.id : x \in refuters}]

\* invalidate, and the identifier of a loader mismatch that is superseded.
Invalidated(f, refuters) ==
  LET low == IF f.of.conclusion = "dependency-unused" THEN Info ELSE Note
  IN  [f EXCEPT !.sev    = low,
                !.conf   = MinOf(@, 20),
                !.vis    = "explain-only",
                !.disp   = "abstained",
                !.cert   = "undecidable",
                !.tags   = @ \union {"runtime-contradicted"},
                !.trail  = @ \union {Refutation(f, low, refuters)},
                !.suffix = IF f.of.conclusion = "loader-mismatch" THEN Append(@, "superseded") ELSE @]

\* Fault: a hard error is left standing.
ReconcileSoft(s, f) ==
  IF Refuters(s, f) = {} \/ f.sev >= Error THEN f ELSE Invalidated(f, Refuters(s, f))

Reconcile(s, f) ==
  IF Refuters(s, f) = {} THEN f ELSE Invalidated(f, Refuters(s, f))
=============================================================================
