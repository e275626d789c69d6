------------------------------- MODULE Triage --------------------------------
(***************************************************************************)
(* From the reconciled findings to the report: one finding per identifier, *)
(* semantic overrides absorb byte conflicts, script caveats, clusters,     *)
(* visibility, and the verdict (intermed-doctor-core report.rs, triage.rs, *)
(* suppression.rs).                                                        *)
(*                                                                         *)
(* Findings are a set; "n" is the place of a finding in the vector.        *)
(***************************************************************************)
EXTENDS TrustContract, FiniteSetsExt

Earliest(G) == CHOOSE f \in G : \A g \in G : f.n <= g.n
Latest(G)   == CHOOSE f \in G : \A g \in G : g.n <= f.n
First(F)    == CHOOSE x \in F : \A y \in F : x.id <= y.id

\* Fault: the evidence of the copies that lose is dropped.
AbsorbingTags(w, G) ==
  [w EXCEPT !.tags = UNION {f.tags : f \in G \union {w}},
            !.reqs = UNION {f.reqs : f \in G \union {w}}]

\* merge_into: the winner takes over what the others cite, say and require.
Absorbing(w, G) ==
  [w EXCEPT !.cites = UNION {f.cites : f \in G \union {w}},
            !.tags  = UNION {f.tags : f \in G \union {w}},
            !.reqs  = UNION {f.reqs : f \in G \union {w}}]

-----------------------------------------------------------------------------
(* merge_findings_by_id.                                                    *)

Id(f) == <<f.of.id>> \o f.suffix

\* Another payload under an identifier that is taken.
Collides(F, f) == f.of.payload # Earliest({g \in F : Id(g) = Id(f)}).of.payload

Renamed(F) ==
  {IF Collides(F, f) THEN [f EXCEPT !.suffix = @ \o <<"collision", f.of.payload>>] ELSE f : f \in F}

\* The highest severity wins, then the earlier copy.
Winner(G) == Earliest({f \in G : \A g \in G : g.sev <= f.sev})

MergedById(F) ==
  {LET G == {g \in Renamed(F) : Id(g) = Id(f)} IN Absorbing(Winner(G), G) : f \in Renamed(F)}

-----------------------------------------------------------------------------
(* apply_semantic_override_suppression: the meaning of a conflict absorbs   *)
(* the conflict.  The latest override of a path is the one that does.       *)

ResourceConflicts == {"json-merge-candidate", "json-override", "resource-conflict"}

\* Both encode the path in an identifier that has no suffix.
Path(f) == f.of.components[1]
Overrides(F) == {f \in F : "semantic-override" \in f.tags /\ f.suffix = <<>>}
Conflicts(F) == {f \in F : f.of.family \in ResourceConflicts /\ f.suffix = <<>>}

Suppressed(F) ==
  LET winner(f) == Latest({w \in Overrides(F) : Path(w) = Path(f)})
      losers    == {f \in Conflicts(F) : (\E w \in Overrides(F) : Path(w) = Path(f)) /\ winner(f) # f}
  IN  {IF \E l \in losers : winner(l) = f
       THEN Absorbing(f, {l \in losers : winner(l) = f}) ELSE f : f \in F \ losers}

-----------------------------------------------------------------------------
(* apply_runtime_caveats: scripts may undo what the files say.              *)

Mutable == {"recipe", "loot-table", "tag"}
RecipeOverrides == {"recipe-output-override", "recipe-type-override",
                    "recipe-ingredient-override", "recipe-condition-override"}

\* Mutations of a domain that run on this side and are of this session.
Mutations(s, domain) ==
  {x \in ByKind(s, "script-mutation") :
     domain \in x.is /\ x.is \intersect {"wrong-phase", "stale"} = {}}

\* A selector names a path, or a recipe type that the parsed file has.
Selects(s, x, path) ==
  IF "by-type" \in x.is
  THEN \E ast \in ByKindSubject(s, "resource-ast", path) : ast.about = x.about
  ELSE path \in x.about

Matching(s, f) ==
  IF f.of.family \in RecipeOverrides \union {"loot-table-output-override"}
  THEN {x \in Mutations(s, f.of.domain) : Selects(s, x, Path(f))} ELSE {}

ScriptsUnsure(s) ==
  \/ Flagged(ByKind(s, "scan-truncated"), "scripts") # {}
  \/ Flagged(ByKind(s, "script-coverage"), "incomplete") # {}

MutatorPresent(s, f) ==
  \/ f.of.domain \in Mutable /\ Mutations(s, f.of.domain) # {}
  \/ ByKind(s, "mixin-resource-mutation") # {}

Capped(f, cap, code) ==
  IF f.sev <= cap THEN f
  ELSE [f EXCEPT !.sev = cap, !.disp = "downgraded", !.trail = @ \union {Change(code, f.sev, cap)}]

\* A static resource state is not final while something may mutate it ...
Unfinal(s, f) ==
  IF /\ f.of.resource /\ f.of.conclusion = "static-resource-state"
     /\ f.of.domain \in Mutable
     /\ ScriptsUnsure(s) \/ MutatorPresent(s, f)
  THEN Capped(f, Warn, "resource-finality-unproven") ELSE f

\* ... and is a note once a script of this session was seen to change it.
Caveat(s, f) ==
  LET current == Flagged(Matching(s, f), "current") # {}
      capped  == Capped(f, IF current THEN Note ELSE Warn, "runtime-resource-mutator-observed")
  IN  IF Matching(s, f) = {} THEN f
      ELSE [capped EXCEPT !.disp = "downgraded",
                          !.conf = IF current THEN MinOf((@ * 7) \div 10, 70)
                                              ELSE MinOf((@ * 85) \div 100, 85),
                          !.tags = @ \union {"runtime-script-caveat"}]

WithCaveats(s, F) == {Caveat(s, Unfinal(s, f)) : f \in F}

-----------------------------------------------------------------------------
(* cluster_resource_conflicts and cluster_loader_mismatches: three or more  *)
(* findings of one cause become details of one card.                        *)

\* The writers of the resource, by the first cited fact that names them.
Writers(s, f) ==
  LET named == Flagged(Cited(s, f), "writers")
  IN  IF named = {} THEN {} ELSE First(named).about

\* The first part of the identifier of a card; the others say which pass made
\* it, and of what group.
ClusterId == "cluster"

\* The card cites what its details cite, and no pass takes it for a finding of
\* its own kind.  It was never assessed: a new finding is abstained and
\* undecidable.
Card(G, name, sev, n) ==
  [of |-> [id |-> ClusterId, payload |-> name, family |-> "cluster", conclusion |-> "cluster"],
   n |-> n, suffix |-> name, sev |-> sev, conf |-> 90, reqs |-> {},
   cites |-> UNION {f.cites : f \in G}, tags |-> {"cluster"}, vis |-> "default",
   disp |-> "abstained", cert |-> "undecidable", blockers |-> {}, coverage |-> {}, trail |-> {}]

Detail(f) == [f EXCEPT !.vis = "explain-only", !.tags = @ \union {"clustered-detail"}]

\* Group the eligible findings by key; those without a key are left alone.
Clustered(F, pass, eligible, key(_), sev(_)) ==
  LET group(k) == {f \in eligible : key(f) = k}
      keys == {k \in {key(f) : f \in eligible} \ {{}} : Cardinality(group(k)) >= 3}
      next == IF F = {} THEN 1 ELSE Latest(F).n + 1
  IN  {IF f \in eligible /\ key(f) \in keys THEN Detail(f) ELSE f : f \in F}
        \union {Card(group(k), <<pass, k>>, sev(group(k)), next + Earliest(group(k)).n) : k \in keys}

\* Fault: a cluster is context only.
MaxSeverityNote(G) == Note

MaxSeverity(G) == Max({f.sev : f \in G})
WarnSeverity(G) == Warn

Visible(F) == {f \in F : f.vis = "default"}

\* The family and the writers of a resource finding.
Batch(s, f) == IF Writers(s, f) = {} THEN {} ELSE {<<f.of.family, Writers(s, f)>>}

RecipeClusters(s, F) ==
  Clustered(F, "recipe", {f \in F : f.of.family \in RecipeOverrides \union {"recipe-opaque-override"}},
            LAMBDA f : Batch(s, f), MaxSeverity)

ConflictClusters(s, F) ==
  Clustered(F, "resource-conflict", {f \in Visible(F) : f.of.family \in {"json-merge-candidate", "json-override"}},
            LAMBDA f : Batch(s, f), WarnSeverity)

\* The loader of the artifact and the loader of the target.
LoaderClusters(s, F) ==
  LET loader(f, kind) == UNION {x.about : x \in {y \in Cited(s, f) : y.kind = kind}}
      pair(f) == IF loader(f, "mod") = {} \/ loader(f, "environment") = {} THEN {}
                 ELSE {<<loader(f, "mod"), loader(f, "environment")>>}
  IN  Clustered(F, "loader-mismatch",
                {f \in Visible(F) : f.of.conclusion = "loader-mismatch" /\ f.disp = "abstained"}, pair, WarnSeverity)

ClusteredAll(s, F) == LoaderClusters(s, ConflictClusters(s, RecipeClusters(s, F)))

-----------------------------------------------------------------------------
(* apply_visibility_policy: what the default surface shows.                 *)

Visibility(f) ==
  IF f.tags \intersect {"safe-merge", "safe-crdt-merge"} # {} THEN "explain-only"
  ELSE IF "root-metadata" \in f.tags THEN "overlay-only"
  ELSE IF f.sev <= Note /\ "mixin-detail" \in f.tags THEN "verbose"
  ELSE IF /\ f.disp = "abstained" \/ f.cert = "undecidable"
          /\ {"apply-failure", "mixin"} \subseteq f.tags THEN "explain-only"
  ELSE f.vis

Shown(F) == {[f EXCEPT !.vis = Visibility(f)] : f \in F}

\* DefaultTriage::process.
Triaged(s, F) == Shown(ClusteredAll(s, WithCaveats(s, Suppressed(F))))

-----------------------------------------------------------------------------
(* Summary::tally and exit_code.                                            *)

Incomplete(f) ==
  \/ f.blockers # {}
  \/ f.coverage \ {"complete"} # {}
  \/ f.sev >= Error /\ (f.disp # "asserted" \/ f.cert # "confirmed")

Confirmed(F)   == {f \in Visible(F) : ~Incomplete(f) /\ f.sev >= Error}
NeedsReview(F) == {f \in Visible(F) : ~Incomplete(f) /\ f.sev = Warn}

\* `unsure`: a collector ended incomplete.
Verdict(F, unsure) ==
  IF Confirmed(F) # {} THEN 2
  ELSE IF unsure \/ NeedsReview(F) # {} \/ \E f \in Visible(F) : Incomplete(f) THEN 1 ELSE 0
=============================================================================
