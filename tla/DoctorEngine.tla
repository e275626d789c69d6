---------------------------- MODULE DoctorEngine -----------------------------
(***************************************************************************)
(* One diagnosis: collectors, rules, assessment, reconciliation,           *)
(* compaction, report (intermed-doctor-core engine.rs).                    *)
(*                                                                         *)
(* What the collectors observe, how they end, what the rules conclude from *)
(* the facts and which of them fail is nondeterministic.                   *)
(***************************************************************************)
EXTENDS Triage

CONSTANTS
  Engines,   \* engines that may be built, and what they may be run on:
             \*   pipeline     the collectors in their order
             \*   rules        the rules in their order: [id, proofs, coverage, batches]
             \*   targets      what a target may have: "mods", "minecraft-jar", "mappings"
  MaxEmit    \* bound: facts one collector emits

\* An engine has rules, and a rule proposes findings of the five severities
\* under identifiers that are not those of a cluster.
ASSUME EnginesAssumption ==
  \A e \in Engines :
    /\ Len(e.rules) \in Nat \ {0} /\ DOMAIN e.rules = 1 .. Len(e.rules)
    /\ \A i \in DOMAIN e.rules : \A batch \in e.rules[i].batches :
         /\ Len(batch) \in Nat /\ DOMAIN batch = 1 .. Len(batch)
         /\ \A j \in DOMAIN batch : batch[j].sev \in Severity /\ batch[j].id # ClusterId

VARIABLES
  stage,        \* the phase of diagnose_with_facts
  at,           \* the collector or rule that is next
  engine,
  target,
  incremental,  \* --changed-since
  store,        \* the facts
  staged,       \* the staging store of the running collector
  status,       \* how each collector ended
  findings,
  errors,       \* operational errors, as [stage, component]
  proposed      \* history: the findings as the rules left them

vars == <<stage, at, engine, target, incremental, store, staged, status, findings, errors, proposed>>
run  == <<engine, target, incremental>>

Collector == engine.pipeline[at]
Rule      == engine.rules[at]
Ran       == {"active", "complete-empty", "incomplete", "failed"}
NotRun    == {"not-applicable", "deferred", "disabled"}
Failure(where, component) == [stage |-> where, component |-> component]

Init ==
  /\ stage       = "collect"
  /\ at          = 1
  /\ engine      \in Engines
  /\ target      \in engine.targets
  /\ incremental \in BOOLEAN
  /\ store       = EmptyStore(0)
  /\ staged      = EmptyStore(0)
  /\ status      = [c \in Collectors |-> "pending"]
  /\ findings    = {}
  /\ errors      = {}
  /\ proposed    = {}

-----------------------------------------------------------------------------
(* Collection.  A collector writes to a staging store.                      *)

Start ==
  /\ stage = "collect"
  /\ stage'  = "observe"
  /\ staged' = StagingAfter(store)
  /\ UNCHANGED <<at, run, store, status, findings, errors, proposed>>

Observe(o) ==
  /\ stage = "observe"
  /\ Size(staged) < MaxEmit
  /\ o \in Scope[Collector].emits
  /\ staged' = Emit(staged, o)
  /\ UNCHANGED <<stage, at, run, store, status, findings, errors, proposed>>

\* Kinds that the collector emitted and does not declare.
Undeclared == {f.kind : f \in staged.facts} \ Scope[Collector].produces

Breach == Scope[Collector].produces # {} /\ Undeclared # {}

NextCollector == /\ stage' = IF at = Len(engine.pipeline) THEN "rules" ELSE "collect"
                 /\ at' = IF at = Len(engine.pipeline) THEN 1 ELSE at + 1

Finish(ended) ==
  /\ stage = "observe"
  /\ ended \in Scope[Collector].ends
  /\ store'  = AppendStaged(store, staged)
  /\ staged' = EmptyStore(0)
  /\ status' = [status EXCEPT ![Collector] =
                  IF Breach /\ ended \in {"active", "complete-empty"} THEN "incomplete" ELSE ended]
  /\ errors' = IF Breach THEN errors \union {Failure("collector-contract", Collector)} ELSE errors
  /\ NextCollector
  /\ UNCHANGED <<run, findings, proposed>>

\* The collector does not apply to the target, or is disabled or deferred.
Skip(why) ==
  /\ stage = "collect"
  /\ why \in Scope[Collector].ends
  /\ status' = [status EXCEPT ![Collector] = why]
  /\ NextCollector
  /\ UNCHANGED <<run, store, staged, findings, errors, proposed>>

-----------------------------------------------------------------------------
(* Rules see every fact.                                                    *)

Undeclarable(p) ==
  Rule.coverage # {} /\ ~(p.reqs \subseteq Rule.coverage)

BadProof(p) ==
  /\ Rule.proofs # {}
  /\ IF p.proof = "none" THEN p.sev >= Error ELSE p.proof \notin Rule.proofs

\* A new finding cites the facts its rule found.
New(p, n) ==
  [of |-> p, n |-> n, suffix |-> <<>>, sev |-> p.sev, conf |-> p.conf, reqs |-> p.reqs,
   cites |-> {f.id : f \in {g \in store.facts : <<g.kind, g.subject>> \in p.cites}},
   tags |-> p.tags, vis |-> "default", disp |-> "abstained", cert |-> "undecidable",
   blockers |-> {}, coverage |-> {}, trail |-> {}]

\* Fault: the cap leaves nothing in the report that says so.
ContractedSilently(p, n) ==
  [New(p, n) EXCEPT !.sev = IF BadProof(p) \/ Undeclarable(p) THEN MinOf(@, Warn) ELSE @]

\* One that breaks the rule's own contract is at most a warning, by a tag and
\* without a recorded change of severity.
Contracted(p, n) ==
  [New(p, n) EXCEPT
     !.sev  = IF BadProof(p) \/ Undeclarable(p) THEN MinOf(@, Warn) ELSE @,
     !.tags = @ \union (IF BadProof(p) THEN {"rule-proof-contract-violation"} ELSE {})
                \union (IF Undeclarable(p) THEN {"rule-coverage-contract-violation"} ELSE {})]

\* A rule concludes from facts that are there.
Supported(p) == \A c \in p.cites : ByKindSubject(store, c[1], c[2]) # {}

NextRule == /\ stage' = IF at = Len(engine.rules) THEN "notice" ELSE "rules"
            /\ at' = IF at = Len(engine.rules) THEN 1 ELSE at + 1

\* A batch is a sequence of proposals.
Evaluate(batch) ==
  /\ stage = "rules"
  /\ batch \in Rule.batches
  /\ \A i \in DOMAIN batch : Supported(batch[i])
  /\ findings' = findings \union {Contracted(batch[i], Cardinality(findings) + i) : i \in DOMAIN batch}
  /\ errors'   = IF \E i \in DOMAIN batch : BadProof(batch[i]) \/ Undeclarable(batch[i])
                 THEN errors \union {Failure("rule-contract", Rule.id)} ELSE errors
  /\ NextRule
  /\ UNCHANGED <<run, store, staged, status, proposed>>

RuleFails ==
  /\ stage = "rules"
  /\ errors' = errors \union {Failure("rule", Rule.id)}
  /\ NextRule
  /\ UNCHANGED <<run, store, staged, status, findings, proposed>>

-----------------------------------------------------------------------------
(* The deterministic passes.                                                *)

\* append_partial_analysis_notice.
Partial == [id |-> "analysis-partial", payload |-> "analysis-partial", family |-> "",
            conclusion |-> "generic", sev |-> Note, proof |-> "observation", conf |-> 95,
            reqs |-> {}, cites |-> {}, tags |-> {"partial-analysis"}, components |-> <<>>,
            domain |-> "none", resource |-> FALSE]

Notice ==
  /\ stage = "notice"
  /\ stage' = "assess"
  /\ findings' = findings \union
       (IF incremental THEN {New(Partial, Cardinality(findings) + 1)} ELSE {})
  /\ proposed' = findings'
  /\ UNCHANGED <<at, run, store, staged, status, errors>>

AssessFindings ==
  /\ stage = "assess"
  /\ stage' = "reconcile"
  /\ findings' = {Assess(store, status, target, incremental, f) : f \in findings}
  /\ UNCHANGED <<at, run, store, staged, status, errors, proposed>>

ReconcileFindings ==
  /\ stage = "reconcile"
  /\ stage' = "compact"
  /\ findings' = {Reconcile(store, f) : f \in findings}
  /\ UNCHANGED <<at, run, store, staged, status, errors, proposed>>

\* What findings cite and what the evidence graph links.
Kept == UNION {f.cites : f \in findings}
          \union {x.id : x \in {y \in store.facts : y.kind \in GraphKinds}}

CompactFacts ==
  /\ stage = "compact"
  /\ stage' = "report"
  /\ store' = Compact(store, Kept)
  /\ UNCHANGED <<at, run, staged, status, findings, errors, proposed>>

\* assemble: identifiers, triage, operational errors.
Report ==
  /\ stage = "report"
  /\ stage' = "done"
  /\ findings' = Triaged(store, MergedById(findings))
  /\ errors' = errors
       \union (IF \E f \in findings : Collides(findings, f)
               THEN {Failure("report-generation", "finding-identity")} ELSE {})
       \union {Failure("collector", c) : c \in {d \in Collectors : status[d] = "failed"}}
  /\ UNCHANGED <<at, run, store, staged, status, proposed>>

Next ==
  \/ Start
  \/ \E o \in Observations : Observe(o)
  \/ \E ended \in Ran : Finish(ended)
  \/ \E why \in NotRun : Skip(why)
  \/ stage = "rules" /\ \E batch \in Rule.batches : Evaluate(batch)
  \/ RuleFails
  \/ Notice \/ AssessFindings \/ ReconcileFindings \/ CompactFacts \/ Report

Spec == Init /\ [][Next]_vars

-----------------------------------------------------------------------------
(* Properties.                                                              *)

\* An identifier that a finding cites resolves to exactly one fact, through
\* indexes that are exact, after staging, appending and compaction alike
\* (store.rs: "FactIds ... must stay valid after compaction").
EvidenceResolves ==
  /\ Exact(store) /\ Exact(staged)
  /\ \A f \in findings : \A id \in f.cites : \E x \in store.facts : Get(store, {id}) = {x} /\ x.id = id

\* docs/reference/output-formats.md: "Error and Fatal conclusions are permitted
\* only when their declared contract is satisfied": a strong proof, some
\* declared coverage, none of whose collectors ended badly, no doubt about the
\* descriptor, and for Fatal the anchor of a crash.
Uncovered(region) ==
  \E c \in Collectors : region \in Scope[c].regions /\ status[c] \in {"failed", "incomplete"}

HardErrorEarned ==
  stage \in {"reconcile", "compact"} => \A f \in findings : f.sev >= Error =>
    /\ f.of.proof \in Strong /\ f.conf >= 90 /\ f.reqs # {}
    /\ f.reqs \intersect {"local-artifact", "active-descriptor"} # {} => ~Uncovered("metadata")
    /\ "relevant-resources" \in f.reqs => ~Uncovered("datapacks") /\ ~incremental
    /\ "active-descriptor" \in f.reqs => \A x \in Cited(store, f) : "inactive" \notin x.is
    /\ f.sev = Fatal => \E x \in store.facts : x.kind = "crash-anchor"

\* reconcile.rs: a hypothesis that exact evidence contradicts "is retained only
\* for explanation": after reconciliation, and in the report, where merging and
\* triage have passed over it.
Refuted(f) == \E c \in f.trail : c.code = "cross-layer-contradiction"

NoContradictedConclusion ==
  /\ stage = "compact" =>
       \A f \in findings : Refuters(store, f) # {} => f.sev <= Note /\ f.vis # "default"
  /\ stage = "done" => \A f \in findings : Refuted(f) => f.sev <= Note /\ f.vis # "default"

\* docs/reference/facts.md: reconciliation "records every adjustment instead of
\* silently rewriting severity": from what the rule concluded (p.of.sev, before
\* the engine has touched it) to what the report says there is a chain of recorded
\* changes, whichever copy of a merged finding has won.  The contract's cap has no
\* such record: where it lowered the finding, the report carries the tag of the
\* breach on the finding and the operational error of its rule.
ContractTags == {"rule-proof-contract-violation", "rule-coverage-contract-violation"}

CapDisclosed(p, f) ==
  /\ p.sev = Warn /\ p.of.sev > Warn
  /\ p.tags \intersect ContractTags # {}
  /\ p.tags \intersect ContractTags \subseteq f.tags
  /\ \E e \in errors : e.stage = "rule-contract"

SeverityTrail ==
  stage = "done" => \A f \in findings : "cluster" \notin f.tags =>
    \E p \in proposed :
      LET step(S) == S \union {c.to : c \in {d \in f.trail : d.from \in S}} IN
      /\ p.n = f.n /\ p.of = f.of
      /\ p.sev = p.of.sev \/ CapDisclosed(p, f)
      /\ f.sev \in step(step(step({p.sev})))

\* Renaming, merging, suppressing and clustering lose no evidence and no
\* conclusion: what a rule cited is cited by the finding with its payload (so a
\* collision of identifiers cannot swallow one of the two) or by the semantic
\* override that absorbed it; and no two findings of a report share an identifier
\* (report.rs asserts that in debug builds).
EvidenceConserved ==
  stage = "done" =>
    /\ \A p \in proposed : \E f \in findings :
         /\ p.cites \subseteq f.cites
         /\ \/ f.of.id = p.of.id /\ f.of.payload = p.of.payload
            \/ "semantic-override" \in f.tags /\ f.of.id # p.of.id
    /\ \A f, g \in findings : Id(f) = Id(g) => f = g

\* A cluster stands for its details: it makes no verdict worse, and where the
\* default surface would have held a warning or more it keeps the verdict the
\* findings would have had on their own.
Unclustered == WithCaveats(store, Suppressed(MergedById(findings)))
Unsure      == \E c \in Collectors : status[c] = "incomplete"

ClusterKeepsVerdict ==
  stage = "report" =>
    LET own     == Verdict(Shown(Unclustered), Unsure)
        verdict == Verdict(Shown(ClusteredAll(store, Unclustered)), Unsure)
    IN  /\ verdict <= own
        /\ (\E f \in Visible(Shown(Unclustered)) : f.sev >= Warn) => verdict = own

\* What the rules of this repository propose of the findings that cluster, and
\* what keeps the verdict: overrides of recipes are at most warnings, those of
\* documents are warnings, a foreign loader is one at least; and what visibility
\* hides has neither their identifiers nor their paths (rules/core, impact.rs).
Recipes   == RecipeOverrides \union {"recipe-opaque-override"}
Documents == {"json-merge-candidate", "json-override"}
Hiding    == {"safe-merge", "safe-crdt-merge", "root-metadata", "mixin-detail", "apply-failure"}
Grouped(p) == p.family \in Recipes \union Documents \/ p.conclusion = "loader-mismatch"

Proposals(e) ==
  {Partial} \union UNION {{batch[j] : j \in DOMAIN batch} : batch \in UNION {e.rules[i].batches : i \in DOMAIN e.rules}}

Modest(e) ==
  /\ \A p \in Proposals(e) :
       /\ p.family \in Recipes   => p.sev <= Warn
       /\ p.family \in Documents => p.sev = Warn
       /\ p.conclusion = "loader-mismatch" =>
            p.sev >= Warn /\ p.family \notin Recipes \union Documents \union {"loot-table-output-override"}
  /\ \A p, q \in Proposals(e) : Grouped(p) /\ q.tags \intersect Hiding # {} =>
       /\ q.id # p.id
       /\ \A r \in Proposals(e) :
            r.id = q.id /\ r.family \in ResourceConflicts => r.components[1] # p.components[1]

\* docs/guides/reading-a-report.md: the report is "conservative about its verdict
\* rather than presenting an incomplete scan as healthy": a doubt about a finding
\* survives the cluster that hides it.
ClusterKeepsDoubt ==
  stage = "report" =>
    Verdict(Shown(ClusteredAll(store, Unclustered)), Unsure) = Verdict(Shown(Unclustered), Unsure)

\* docs/PROJECT_STATUS.md: "semantics-preserving fact compaction": the report is
\* the one that the facts before compaction would have given.
Conclusions(F) == {<<Id(f), f.sev, f.disp, f.vis>> : f \in F}

CompactionPreservesConclusions ==
  stage = "compact" =>
    Conclusions(Triaged(Compact(store, Kept), MergedById(findings)))
      = Conclusions(Triaged(store, MergedById(findings)))
=============================================================================
