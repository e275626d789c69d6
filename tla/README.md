# InterMed: verification project

TLA+ models of InterMed (the repository this directory sits beside), the TLC runs that check them on
small instances, and theorems about them checked by TLAPS. Source paths below are relative to
`src/crates/`.

## 1. Inventory

InterMed analyses Minecraft mod packs without running them: *collectors* read a target and stage
*facts*, *rules* turn facts into *findings*, an *assessment* decides how strongly each finding may be
asserted, and reporters write the result. Around that pipeline there is a per-jar scan cache shared by
threads and processes, a columnar engine that evaluates rule packs, a dependency resolver, an overlay
builder, and a *lab* that runs campaigns: it lays out packs, runs the analyzer and optionally the game,
and compares the two.

| Component | State it keeps | Operations | Hard behaviour | What makes it correct | Module |
|---|---|---|---|---|---|
| Lab campaign runner (`intermed-lab/campaign.rs`, `campaign_report.rs`) | `campaign-state.json`, three artifacts per case; in memory the table, the batch, the channel | load and recover, start a batch, worker steps, commit a result, report | workers finishing in any order, a kill at any point that leaves Doctor children running, failed writes, retries under changing budgets, rebuilt analyzers | budget spent by committed results only; settled cases final; observation, report and accuracy of one attempt, as far as no left-over Doctor interferes; the loop ends | `Campaign` |
| Jar scan cache: lookups (`intermed-doctor-core/jar_cache/`) | record files, fingerprints, memory and remote tiers, in-flight gates, counters | get_or_scan, read and write a record | concurrent readers, writers and pruners; a jar rewritten while it is hashed or scanned; failed writes | a result belongs to the bytes that were looked up; one scan per key; every lookup returns | `JarCache` |
| Jar scan cache: size budget (`jar_cache/mod.rs`, `prune.rs`) | sizes of the files, a lock-free estimate of their sum | account, enforce, prune, maintain | lost updates, an unsigned counter that underflows | estimate and limit | `CacheBudget` |
| Atomic file publication (`intermed-doctor-core/io_util.rs`) | temporary sibling, target, directory entry | stage, sync, rename, sync the directory, clean up | a crash or an error between any two steps, loss of power | a reader sees one whole version; what was acknowledged lasts | `AtomicFile` |
| Lab artifact store (`intermed-lab/store.rs`) | content-addressed blobs, hard-linked targets, the record | ingest, materialize, verify | racing processes, sources that change between hashing and copying | a blob holds what its name says; nothing is overwritten; what was verified stays | `ArtifactStore` |
| Lab execution backend (`intermed-lab/execution.rs`, `observation.rs`) | child process group, deadline, log | spawn, poll, kill, read the log | exit racing the deadline, descendants that outlive the child | a pass is earned; the last words are read; no survivors after a timeout | `Execution` |
| Fact store (`intermed-facts/store.rs`) | id counter, facts, three indexes | emit, stage, append, compact | ids and indexes across staging and compaction | cited facts resolve | `FactStore` |
| Trust contract (`assessment.rs`, `scope.rs`, `coherence/reconcile.rs`) | severity, disposition, requirements of a finding | assess, evaluate requirements, reconcile | the order of rules, assessment and reconciliation | hard errors are earned; contradicted conclusions stay low | `TrustContract` |
| Report assembly (`report.rs`, `triage.rs`, `suppression.rs`) | the report document | merge, absorb, cluster, hide, verdict | identifiers rewritten on the way | nothing is lost; every change of severity is recorded | `Triage` |
| Doctor engine (`engine.rs`) | store, findings, collector states, errors | the phases of one diagnosis | a failing collector, rule or reconciler | the others go on, and no region counts as covered that was not | `DoctorEngine` |
| Columnar engine (`intermed-columnar`) | plans, batches | compile, optimize, execute | name collisions in joins, two executors | rewrites and strategies do not change results | `Relational`, `Optimizer` |
| Rule interpreter and lowering (`intermed-rules`) | rule packs | match, lower | two semantics of one rule | both find the same | `RuleEngines` |
| Dependency analysis (`intermed-deps`) | resolved model, solver input | pairwise checks, resolution, impact of an edit | aliases, bundled copies, partial coverage | hard verdicts are certain; broken packs are reported; forecasts hold | `Dependencies` |
| Resource collisions and overlay (`intermed-vfs`, `intermed-packops`) | temporary sibling and output directory | scan in two passes, classify, merge, stage, commit | byte caps, racing processes, a crash, jars replaced meanwhile | an overlay is whole and accounts for every collision; what it calls safe is independent of order | `ResourceMerge`, `Overlay` |
| Lab corpus, Modrinth, reports; rule pack signing and distribution; evidence graph; instance detection; jar metadata; mixins; resource AST; logs, spark; dynamics, security, SBOM; DuckDB, query bridge; CLI, configuration, rendering | files, facts per jar | parsing, conversion, I/O | large inputs | mostly pure functions | not modelled, section 5 |

### How they interact

`intermed-cli` loads the configuration, builds the collectors and rules, and calls the engine. Collectors call
the jar cache (`get_or_scan`) from a thread pool; the cache publishes its records with
`write_atomic`, as every component does that keeps files. The engine hands a read-only view of the fact
store to the rules and to the columnar engine, assesses the findings, reconciles them, compacts the
facts and builds the report. The dependency rule and the resource collector are two of its rules and
collectors; `intermed vfs overlay` uses the resource scan on its own. The campaign runner starts
`intermed doctor` as a child process per case, reads the report it leaves, runs the execution backend on a
directory the artifact store has laid out, and evaluates one against the other.

The modules compose as the code does: `Triage` extends `TrustContract` extends `FactStore`, and
`DoctorEngine` runs all three; `ArtifactStore` publishes its record through `AtomicFile`; `RuleEngines` runs
the plans of `Relational` through `Optimizer`; `Overlay` stages what `ResourceMerge` decides;
`CampaignRefinement` maps `Campaign` to `CampaignLedger`. `Campaign`, `JarCache` and `CacheBudget` use the
three outcomes of an atomic write (done, failed without effect, failed after the rename) as one step:
`AtomicFile` is where those outcomes come from.

## 2. What is modelled

Every module carries a header that says what it stands for, one action per operation or step of the
code, the faults used to test the properties (operators whose comment begins with "Fault:", which no
action uses), and at its end the properties with the statement each one formalizes. `PROJECT.json` maps
every definition to the lines it models.

### Campaign (`intermed-lab/src/campaign.rs`, `campaign_report.rs`)

One coordinator process and its worker threads. `stateFile` is `campaign-state.json`, `state` the table in
memory; `pc` is the coordinator's place in `run_campaign` (`down` when there is no process); `worker[c]` is
the step of `execute_attempt` that the thread of case `c` is at, `job[c]` what it has computed; `channel` is
the mpsc channel; `reportFile`, `obsFile` and `accFile` are the three artifacts of a case; `orphans` are the Doctor
children that a killed process has left running; `outlived` (which builds' Doctors ever were) and `commits` are history
variables.

| Action | Code |
|---|---|
| `Start` | load or create the table, take interrupted attempts back, make it durable |
| `StartBatch`, `Finish` | the head of the loop: the first `max_parallel` retryable cases, or the end |
| `PrepareStatic` | the report on disk is reused, or Doctor is started as a child process |
| `DoctorWrites`, `VerifyReport` | the child renames its report into place; the worker, when the child has ended, reads what is at that path and accepts or refuses it |
| `Execute`, `WriteObservation`, `EvaluateAccuracy` | the other steps of `execute_attempt` in a worker thread, each with its failures; a panic is a failure |
| `Commit`, `Abandon` | one received result and its durable commit; a failed commit drops the receiver and joins the workers |
| `WriteReport` | the campaign report is written, or not, and the process ends |
| `Crash` | a kill at any step: the worker threads end, the Doctors they wait for do not |
| `OrphanWrites`, `OrphanDies` | such a Doctor replaces the report of its case, at any later time and whoever runs the campaign then, or ends without doing so |

Reports, logs and observations are reduced to what the runner tells apart: which analyzer wrote a report,
which attempt an observation is of, and the class of its status (eligible for accuracy, harness failure, infrastructure
failure, skipped). The campaign report is a file no process reads again, so it is no variable. A Minecraft that a kill
leaves running writes into its runtime directory and no file of the case. A write (`write_atomic`) succeeds, fails
without effect, or fails after its rename.

`CampaignLedger` is the abstract specification: a ledger of cases that are begun together, settled one
at a time and taken back. `CampaignRefinement` maps the state file to that ledger.

### JarCache (`intermed-doctor-core/src/jar_cache/mod.rs`, `fingerprint.rs`, `remote.rs`, `util.rs`)

The threads of one process call `get_or_scan`; `pc[t]` is where a lookup stands, with one action for each
access to shared state: the metadata, the hash, the three tiers (before and, with the gate, after waiting),
the registration, the mutex, the scan, the record, the other tiers, the fingerprint, and the two halves
of the guard's drop. `disk`, `remote` and `fp` outlive the process, `memory`, `inflight` and `stats` do not.
The environment replaces jars, deletes files (pruning), lets sidecars expire, stores records as another
process, and kills the process at any step.

A content is named by its SHA-256; metadata are one value `stamp`, so that two contents may share size
and mtime; `Segment` is `sanitize_segment`, which may map two versions to one directory; what a scan returns
is the pair of the version that scanned and the content it read. One collector is modelled, since
registry, memory, paths and hashes are keyed by collector. A record that cannot be parsed is `Junk`.

### CacheBudget (`intermed-doctor-core/src/jar_cache/mod.rs`, `prune.rs`)

The sizes of the files under the cache root and the lock-free estimate of their sum. A write is a rename
(`Write`), the reading of the counter (`Account`), the addition (`Add`) and the check of the budget (`Check`);
enforcement is lock, walk, store, prune, walk, store, each a step of its own. `Maintenance` is
`prune_now` and `clear_all`; `Reopen` is `new_with_config` with `maybe_prune`.

Abstractions: one walk and one pass of eviction are atomic; the order of mtimes is the sequence `recency`;
one thread replaces a file at a time (the shard lock, and one lookup of a jar per collector and process);
temporary files are not in `disk`; maintenance runs in a process that does nothing else; the 64-bit
counter is a counter modulo `Wrap` whose last value is the sentinel, as in the code.

### AtomicFile and ArtifactStore (`intermed-doctor-core/src/io_util.rs`, `intermed-lab/src/store.rs`)

`AtomicFile` is `write_atomic` with several writers of one file: a staged sibling, its sync, the rename, the
sync of the directory, a failure after each, a writer's death and a loss of power. `file` is what readers see,
`lasting` everything they may see after a loss of power; `renames`, `mine` and `acked` are history.

`ArtifactStore` is several processes that materialize one lock into one directory and a campaign that
verifies it. One action per step of `ingest` (`HashSource`, `Copy`, `Compare`, `Commit`, `SyncBlob`) and of
`materialize_blob` (`Check`, `Link`, `PublishCopy`), `WriteRecord` through `AtomicFile`, `VerifyTarget` and
`VerifyFile`; sources change, processes die and start again, the power fails. A content stands for its hash.

### Execution (`intermed-lab/src/execution.rs`, `observation.rs`, `run.rs`, `bounded_text.rs`)

The child writes log lines, forks, exits or hangs; the executor launches, polls (`Reap`, `Expire`), kills the
group, waits, opens and reads the log, to which descendants may still write between the two. `Observed` and
`Verdict` draw the observation's status and the smoke verdict from the raw output. A line stands for the
event it normalizes to; the log limit is counted in lines.

### FactStore, TrustContract, Triage, DoctorEngine (`intermed-facts`, `intermed-doctor-core`)

A store is a record: facts with identifier and place, three indexes, the id counter; staging continues the
counter, compaction moves facts and keeps identifiers (`FactStore`). `TrustContract` turns the proposal of a
rule into a finding: coverage from the outcomes of the collectors, the requirements, the gate for hard
errors, reconciliation. `Triage` merges findings by identifier, lets semantic overrides absorb byte conflicts,
caps findings that scripts may undo, clusters, hides, and gives the verdict. `DoctorEngine` is
`diagnose_with_facts`: `Start`; `Observe`, `Finish`, `Skip` for the collectors; `Evaluate` (with the cap on what a rule that breaks its
contract may say: a tag and an error of the rule, and no adjustment), `RuleFails`; then
`Notice`, `AssessFindings`, `ReconcileFindings`, `CompactFacts`, `Report`. What collectors observe, how they
end, what rules conclude and which fail is nondeterministic. `ReconcileFindings` includes the identity step,
which computes the payload identity and nothing else; `Verdict` takes a collector that ended incomplete for a
doubt (`Unsure`) and leaves out operational errors, whose exit code is apart. A card of a cluster
has identifier, family and conclusion of its own, which no later pass takes up. Retention while facts are emitted (`with_live_retention`) is used by tests only and left out.

### Relational, Optimizer, RuleEngines (`intermed-columnar`, `intermed-rules`)

`Relational` gives the relational operators, the plans, and the two executors (vectorized, row at a time). A plan
is a source (a scan, a lowered rule, or a join of two plans) and the sequence of operators above it; the tree
of the IR is read from the source up. A condition is the sequence of its nodes, parts before wholes. Recursion over plans
and conditions is thus a recursive function over a finite set (`Within`, up to `MaxNesting` joins deep).
`Optimizer` gives predicate pushdown, join reordering and projection pushdown as functions from a plan to the
plan or the set of plans they may give (costs are left out, so a reordering may begin anywhere). `RuleEngines` is one
engine at work: `Compile` a query or `Lower` a rule (or `Fallback` to the interpreter), `Push`, `Reorder`,
`Prune`, `Execute`, and `Again` for the next query on the same facts. A text stands for the number it displays; the
columns are `fact_id`, `subject` and the attributes.

### Dependencies (`intermed-deps`)

One pack: packages, providers and constraints. `CheckPairs` is the pairwise rule, `Resolve` the whole-pack
resolution (the solver is external: it finds a solution if there is one and otherwise names a contradiction),
`Conclude` the rule that merges both, `AskUpdate` and `AskRemove` the forecasts, `Edit` the edit itself, after
which the pack is analysed again. Whether a version is in a range is a constant with three answers. A declaration of a descriptor
that was not selected is "undecided" (one candidate of several) or "foreign" (of another loader); each has a finding family
of its own, and only the first can explain a contradiction. `Weighed` is what `update_impact` looks at, `PassedOver` what
it skips: suggestions and relations it does not know. `range_status` also calls versions with a game version in front undecidable; it does
so in the generic dialect only, whose manifests (plugins) ask for any version, so the model leaves it out.

### ResourceMerge and Overlay (`intermed-vfs/src/lib.rs`, `intermed-packops/src/lib.rs`)

`ResourceMerge` is the pure part: the class of a group of blobs (`Classify`, `TagClass`, `LanguageClass`,
`SoundClass`), `IsSafeMerge`, the merges, and `Effective`, what the game makes of a stack of files, written
from the comments of the code and marked external. `Overlay` is `write_overlay_preview` by processes that
share the mods and the output directory: `Begin` (a left-over temporary sibling is refused), `CheckOut`,
`Scan` (pass 1, with its limits), one `ClassifyBatch` per batch of pass 2, `CreateTmp`, one of `Pass`, `Skip`
and `Stage` per collision, `WriteManifest`, `Commit`, and `WriteFails`, `Fail`, `Crash`. Jars may be replaced
between any two steps. A step reads all its jars at one moment: as long as one jar is replaced at most, this
loses no interleaving. Of an entry the model keeps path, size and document; writers and topology are labels.

## 3. The runs

| Run | Instance | What it shows |
|---|---|---|
| `campaign` | 2 cases (one static-only), 2 processes, 2 option sets, 2 analyzer builds; 445,000 states | budget is spent by committed results; a worker, a queued result and a pending member are one attempt; the files of a settled case belong together and never change, but for what a Doctor that outlived its coordinator replaces; a returned table is exhausted; the state file implements the ledger; a started process ends |
| `jar_identity` | 2 threads, 1 jar, 2 contents of equal metadata, 2 versions in one directory, unreadable leftovers, 2 processes; 1.43 million | every lookup returns what a fresh scan would |
| `jar_flight` | 3 threads, 4 lookups of one key, remote tier, eviction at any time; 295,000 | one scan per process and key |
| `jar_live` | 2 threads, 3 lookups, failing writes and panics; 137,000 | no gate outlives its users; every lookup returns |
| `budget` | one writer with 4 files and two processes, or two writers with failing writes and removals and another process; 291,000 | estimate exact and limit kept with one writer; the counter underflows but never stays so; every write returns |
| `doctor` | 5 engines of 1-2 collectors and 2-3 rules, 2 facts per collector, with rules that break their contract; 1.29 million | evidence resolves; hard errors are earned; contradicted conclusions stay low; severity is traced from what the rule itself said; nothing is lost in the report; clusters make no verdict worse, and keep it where there is a warning |
| `doctor_retention` (violation) | the same with a store of one fact | a conclusion depends on what compaction dropped |
| `lab_store` | 2 processes, 2 files, 2 contents, one change of a source, 3 attempts, one loss of power; 2.1 million | files are whole and durable; blobs and records tell the truth; what was verified stays; nothing is overwritten |
| `lab_execution` | 4 lines with room for 3, descendants, an exit racing the deadline; 603,000 | a pass is earned; last words are read; no survivors after a timeout; the executor returns |
| `rule_engines` | every small database of two kinds (at most two facts of each), 17 queries and 16 rules; 448,000 | no rewrite and no strategy changes the rows; a lowered rule finds what the interpreter finds |
| `dependencies` | 80,250 packs of two mods, a library and a third mod, of an undecided descriptor or for another loader; 3.13 million | hard verdicts are certain; broken packs are reported unless the contradiction is masked; updates and removals are foreseen |
| `overlay` | 897 mods directories of 2-3 archives; four more with three runs of two processes and a replaced jar; 239,000 | a published overlay is whole and accounts for every collision; safe items are independent of order |

Why these bounds suffice. *Campaign*: retry, refund and a left-over Doctor need two processes, and two cases give every order of two results and a
failed commit with a survivor; what needs more processes (a rebuilt analyzer after two interruptions, two left-over Doctors
of one case, which write in either order) is about one case, and `MCCampaignRestarts` has that with five processes: 567,000 states,
no error. It asks no other question than `campaign` and is therefore none of the runs.
*JarCache*: a superseded gate needs its holder, a waiter and a newcomer, so three threads; the fourth lookup
comes after all of them; two contents, versions and processes are what a confusion of identities takes.
*CacheBudget*: three payloads let a pass evict none, some or all; the lost update needs two writers and the
second write of one. `Wrap` is far above every sum the instance reaches, so the upper half of the counter is
reached by underflow only, as in 64 bits. *Doctor*: a finding, its rival and its refutation need three rules; two facts per
collector let compaction drop one and keep one; three findings make a cluster, of notes, of warnings and of gated errors. *Lab store*: two processes
meet at every step; a third attempt comes after a death; one loss of power can undo every unsynced rename.
*Execution*: a log one line longer than what is read. *Rule engines*: three relations on one key give chains of
two joins, the least that can be reordered, and `MaxNesting` of 2 covers them. *Dependencies*: one declaration per pair of mods, of every relation but an ordering; three declarations
on one library, one of them about two mods of the proof and in a range no version is in; an alias, a bundled copy, a loader's versionless provider, a range nobody can read and a
descriptor nobody selected. *Overlay*: three archives give an event or a key
its first, middle and last writer; sizes 0 to 3 against caps of 2, 6 and 5 put batches below, at and above the
cap, and an empty entry behind a cap that is met exactly; three runs of two ids give a race, a death, and an id that is used again.
Counters that the code leaves open are bounded by `MaxBoots`, `MaxLookups`, `MaxWrites`, `MaxAttempts`,
`MaxRewrites`, `MaxLosses`, `MaxLines`, `MaxEmit`, `MaxRuns` and `MaxReplaced`; deadlock is not checked where a
system that has used them up, or has ended, may stop. Symmetry is used in runs without liveness only.

What the instances exclude. `rule_engines`: joins of a query are on the subject, which every kind has; no projection below another
drops a column that is read in between; no condition of a rule negates, or chooses by, a comparison of attributes that may be
missing, orders by a literal text, or has as keys a number and a text that display alike: outside this fragment the
engines do differ (below). Since a text is the number it displays, texts that order or compare in another way than their numbers
("10" before "9", "1.0" beside "1") are left out altogether. `dependencies`: no duplicate ids, no
active non-bundled alias of an installed id.

Fairness. `FairSpec` gives weak fairness to each worker and to the coordinator (Campaign) and to each
thread (JarCache, CacheBudget): the operating system schedules them, every game launch has a deadline, and a mutex
is held for finitely many steps. Doctor has no deadline (campaign.rs:356-362), so `Termination` assumes that it ends; nothing
is assumed of one that has outlived its coordinator. `Execution` assumes that the executor is scheduled and that the clock runs;
the child owes nothing. Nothing is assumed of the environment: no process need start or die, no jar be
replaced, no file be evicted. A std mutex is not fair to its waiters, but the lookups that can overtake a
waiting one are bounded by `MaxLookups`.

### Where the program differs from what it says

One run of the list ends in a violation by intent, `doctor_retention`; `PROJECT.json` quotes the sentence. These
are reproduced with a configuration that is kept here and is part of no run (`tlc -config X.cfg M`), or with one whose
property is replaced as said:

| Configuration | Property | What happens |
|---|---|---|
| `MCCampaignPairing` | `ExactPairing` | campaign.rs:3-5 promises to resume without "losing the exact analyzer/runtime pairing that produced an observation"; the Doctor of a killed process is a plain child (356-362), goes on, and renames its report over that of the case a resumed process of another analyzer build has settled. `PairedUnlessOutlived` and `SettledIsFinal` say that nothing else does, and that entry, observation and accuracy stay |
| `MCCampaignPairing` with `LaunchesNotRepeated` as PROPERTY | `LaunchesNotRepeated` | a completed launch is repeated when the kill comes before the commit (campaign.rs:589 against 3-5) |
| `MCCampaignPairing` with `CompletedCountsObservations` as INVARIANT | `CompletedCountsObservations` | `completed` and `runtime_statuses` of one report disagree (campaign_report.rs:125 against 26) |
| `MCJarCacheFailing` | `SingleFlight` | after a failed write two threads scan one key at a time (mod.rs:743 against 101-103) |
| `MCJarCacheRewriting` | `ResultIsFresh` | a jar replaced between hash and scan: the result of one content is filed under the hash of another (mod.rs:392 against caching.md:7-8) |
| `MCCacheBudgetRace` | `WithinBudget` | a walk stored over an addition leaves the cache above its budget (mod.rs:643 against caching.md:46-47) |
| `MCRuleEnginesParity` | `BackendsAgree` | a negated comparison of an attribute some facts lack: ir_lowering.rs:10-11, 54 promise "no silent divergence", the interpreter has no answer (expr.rs:618-637), the lowered plan takes the comparison for false and its negation for true (join.rs:6-23) |
| `MCRuleEnginesNarrow` | `StrategyIrrelevant` | a named subquery keeps the subject only, its user filters by another column and projects: the vectorized engine takes the dropped column for null, FastRow ignores inner projections and reads it (strategy.rs:75-83, "only the optimizer's column-pruning"; fast_row.rs:22-26) |
| `MCRuleEnginesUnkeyed` | `ResultsPreserved` | a join on an attribute that no fact of one side has finds nothing; `orient` knows no side for the pair and drops it (optimizer.rs:355-368), and the rebuilt join is a cross product, against optimizer.rs:22-24 |
| `MCDependenciesOverlap` | `HardVerdictIsCertain` | a non-bundled alias of an installed id: the pairwise check accepts it, the resolver's catalog hides it, and the pack is reported unsatisfiable (dependencies.md:45-49; provider.rs:86-88) |
| `MCDependenciesSuppressed` | `BrokenPackIsAnError` | rule.rs:77-80 suppresses a contradiction where a pairwise finding has surfaced its root cause and "emitting both would duplicate the error"; the code compares mods (81-104): two declarations on one library exclude each other, the wrong version of a third, optional one is a warning about the same two mods, and no error remains. `Masked` names the case; `BrokenPackIsReported` holds of all others |
| `MCDependencies` with `SuggestionsForeseen` as INVARIANT | `SuggestionsForeseen` | `impact update` passes over suggestions and unknown relations (impact.rs:184-191); the analysis after the update checks them as it does optional requirements and may warn (pairwise.rs:585-887) |
| `MCDoctorDoubt` | `ClusterKeepsDoubt` | three abstained notes of one recipe family become one card that carries no doubt: the exit code is 1 for two of them and 0 for three (report.rs:1052-1145 against docs/guides/reading-a-report.md:114-117) |

Met while modelling, without a configuration of their own:

- *Jar cache.* `mem_hits` is called a subset of `hits` (mod.rs:78), but a coalesced lookup answered by memory
  counts a memory hit and no hit (378, 456). `save` leaves a sidecar of the same mapping as it is, so
  `last_verified_secs` is not the last confirmation (fingerprint.rs:24-25, 98-105). The estimate stays accurate
  (mod.rs:586-588) with one writer only. Temporary siblings of a killed `write_atomic` are neither counted nor
  pruned (caching.md:50-51). With unreadable leftovers on disk a late warming of memory puts them over a fresh
  entry, and a key can be scanned twice: `ScannedOnce` is checked and proved without such leftovers.
- *Lab.* An error after the rename of `write_atomic` reports failure although the file is replaced; an error of
  ingest's copy or sync leaves its temporary file. After a loss of power a record may outlive its hard links, because the
  destination directory is never synced (`verify_target` notices). A release build materializes a content it
  has not compared with the lock (a `debug_assert`, store.rs:253). After a normal exit descendants are not
  killed, though "process-tree" is listed as enforced. The smoke status may be Fail while the observation is
  Crashed; a truncated log that lost its terminal incident passes; `read_text_tail` drops the first line
  even when it is whole.
- *Doctor.* Triage turns Abstained into Downgraded (suppression.rs, about line 212) though triage.rs:49-53 calls
  it presentation only. `merge_into` gives an Error winner the unsatisfied requirements of its copies
  (output-formats.md:68-69), and the tags of an absorbed finding reach the winner before visibility is decided. Clusters
  take the greatest severity of findings without being assessed. A rule that breaks its contract has its errors lowered to a warning and tagged, and the
  engine reports the breach as an error of the rule (engine.rs:187-216, 564-569), but no adjustment records it: the trail of such a
  finding begins at the warning. `--dump-facts` is said to be
  "before any rule runs" (facts.md:50) and is taken after compaction. Invalidation sets Note, also where the
  severity was lower. Evidence of a contradiction named in an adjustment may be compacted away.
- *Optimizer and engines.* "The optimizer never changes results" (optimizer.rs:24-26), but: a filter on `right.x` is
  pushed to a right input when no column of that name exists; shared key names attach outer predicates to inner joins;
  making a right-deep cluster left-deep renames `right.` columns. The interpreter's join index compares
  texts where its evaluation compares numbers; typed index keys tell Int(1) from Str("1") where the
  condition does not; `int >= '3'` is never true in the columnar engine; a literal "03" on a declared integer is
  normalized by the lowering only.
- *Dependencies.* Duplicate installed versions: the pairwise check is lenient (pairwise.rs:140-144), the solver pins
  one. `update_impact` ignores aliases that inherit the target's version; `remove_impact` does
  not see a bundled copy that the removed mod shadowed fall into a `breaks` range. Maven's order (semver.rs
  378-426) is not transitive: "1.0" = "1" < "1-1" < "1.0". `relation_static` (metadata.rs:1449-1460) has no `conflicts`, so a descriptor read back from the cache
  has a declared conflict as an optional dependency. model.rs:214 tests for "cross-loader-inactive" where the
  scanner writes "cross-loader-unresolved", so such constraints stay unknown and coverage partial.
- *Overlay.* A `sounds.json` event with `replace` that one writer alone defines is classified as a safe merge, but
  `merge_sound_definitions` ("a collision proven safe", lib.rs:1652) refuses it: the whole overlay fails with "safe
  merge invariant failed". With `--include-unsafe-winners` a locale in two formats has no blob under its name, and
  the whole overlay fails too (commands.md:133-134). If a jar is replaced between classification and staging
  the language merges do not look for conflicts again and the tag merge drops `required` flags, yet the item
  says `safe_to_apply`: `SafeIsOrderFree` speaks of archives that did not change. Archives that could not be
  read, and limits that cut a scan short, are missing from the overlay's manifest. When the cap of pass 2 is met
  exactly, the remaining archives are not opened, so that an empty entry of theirs leaves its path without a class
  (vfs lib.rs:1073); `PublishedIsWhole` allows for that.

## 4. The proofs

All theorems hold for every value of the constants that meets the named assumptions of the modules. Those
say that the constants have their types, that sentinels are distinct values, and, where stated below, a little more.

**Campaign** (`CampaignProofs`).

- `TypeCorrect`; `Safety`, `AlwaysDurable`, `AlwaysOneAttempt`: `BudgetAccounting`, `MemoryIsDurable` (what a process
  works on is what is on disk) and `OneAttemptInFlight`. The inductive invariant is `SafetyInv`. The three are not
  inductive: the budget needs that a case is Running in the table exactly when its result is awaited
  (`PendingIsRunning`); one attempt needs that a process that is not collecting has an empty channel and no
  workers (`Quiescent`); a first start needs that the unwritten table is the initial one (`Unwritten`).
- `AlwaysPaired`, `AlwaysFinal`, `AlwaysExhausted`: `PairedUnlessOutlived`, `SettledIsFinal`, `FinishedIsExhausted`. `ResultInv` adds to
  `SafetyInv` that a worker's case is Running (`WorkerIsRunning`), which files its step has left
  (`WorkerHolds`), that a queued result describes the files on disk (`ResultsHold`), and that a Doctor left running is
  among those that ever were (`OrphansOutlived`). The report on disk, and the one the accuracy was computed from, are
  therefore the recorded one or that of such a Doctor; that there is no other exception is what is proved. Exhaustion uses
  that the least retryable case is always in the batch.
- `Refinement`: `Spec => ImplementsLedger`. `Start` maps to `Reclaim` or a stutter, `StartBatch` to `Begin`, `Commit` to
  `Settle`, each if its write has an effect; everything else stutters.

**Jar cache lookups** (`JarCacheProofs`).

- `AlwaysTypeOK`, with what the locals of a thread hold at each label (`Located`).
- `AlwaysReclaimed`: only `Register` and `Unregister` move gates, and a thread with a gate keeps its key (`GateKept`).
- `AlwaysFresh`: if no jar is replaced during a lookup and what lies in the directory at first was put there by the
  program or cannot be parsed (`FreshAssumption`), then `ResultIsFresh`: every text in a tier is the scan of the
  content and version it names (`FreshTiers`), and a thread that has a hash has its jar's (`FreshLocal`).
- `AlwaysScannedOnce`, `AlwaysSingleFlight`: under `FlightAssumption` (no failures, an empty directory at first, a
  directory per version, room in memory). A key is open while its record is not in memory or the thread with
  its gate is between miss and publication; while it is open all its threads have the registered gate
  (`OneGate`), one holds it (`OneHolder`), it is given up only when the key is closed (`DoneIsClosed`).

**Cache budget** (`CacheBudgetProofs`).

- `AlwaysTyped`, `AlwaysEstimateExact`, `AlwaysBudgetHonoured`, `AlwaysUnderflowHeals`, the last for any number of writers
  and processes and any failures. The inductive invariant `IInv` has three parts: `Typed` (also: the order
  of eviction lists every payload on disk once); `Heals` (whoever made the counter wrap, or will, still has the
  comparison or the overwriting before it); `ExactAlone` (what a single writer's locals, the estimate and
  the files on disk have to do with each other at each of its steps).
- The sum of the sizes is a fold of the community modules, that is, a function somebody chooses; that there is one, that it adds
  up, and that one pass of eviction leaves less than the limit or nothing, are shown by induction over a
  finite set or a sequence. The module begins with these inductions in a first-order form (the least element of a set of
  naturals, `SetInduction` with the predicate as the set of what satisfies it, `FoldExists`).
- Assumptions: a limit below half of `Wrap` and sizes whose sum stays below it too (`SizeAssumption`: the code's counter has 64 bits).

**Doctor** (`DoctorProofs`). Emission, staging, appending and compaction keep the indexes of a store exact and identifiers
unique. `DoctorInv` is `StoresInv` (both stores are exact and the staging store continues the other), `FindingsInv` (findings
are well formed and cite identifiers of the store) and `RefutedInv` (nothing is refuted before reconciliation;
what is refuted stays at Note or below and hidden). It gives `AlwaysResolves`, `AlwaysHardErrorEarned` and
`AlwaysUncontradicted`. `AlwaysTraced` (`SeverityTrail`) speaks of the severity the rule itself gave. It has an invariant by stage (`TraceInv`): a
proposal has no trail and the severity of its rule, unless the rule broke its contract: then it is a warning where the rule said
error, and the tag and the rule's error say so (`AsRuled`); assessment starts the trail at the proposed severity, and each later
rewrite appends a link that begins where the last one ended (`TracedTo`, `Ended`).

`AlwaysConserved` (`EvidenceConserved`) has `ConservedInv`: until the report, every proposal has a finding that was made
of it and cites at least what it cited, and no finding has a card's identifier. For the report the proof follows the
passes: an identifier is a tuple, and a renamed one is longer than any that is not; after renaming one identifier is
one payload, so what merging absorbs has the payload of the winner, and there is a winner because a set of
naturals has a least element; the override that suppresses a conflict is never suppressed itself; caveats, clustering and
visibility relabel a finding and keep its identifier, and the cards they add begin with `ClusterId`, which no
finding does. Assumption of all these theorems: rules propose finite batches of findings of the five severities, under
identifiers that are not a card's (`EnginesAssumption`).

`AlwaysKeepsVerdict` (`ClusterKeepsVerdict`) holds for proposals that are `Modest`: overrides of recipes are warnings at most,
conflicts over json documents are warnings, a loader mismatch is a warning at least, and no tag that visibility hides by is on a
finding with the identifier or the path of one that may cluster. So it is in the repository: `rules/core/intermed-core.rules.v2.json`
gives the two json families `warn`, `loader-mismatch` `error`, and the tags `safe-merge`, `safe-crdt-merge` and `root-metadata` to
families that do not cluster; the severities of overrides are in impact.rs; `mixin-detail` and `apply-failure` are of mixin-intel.
Every engine of the run is Modest (an assumption of `MCDoctor`). Without the hypothesis the claim fails, as it should: a card
that warns would hide, say, a json conflict proposed as an error. The invariant `ModestInv` says that each finding is still of a
proposal, with no more hiding tags, and with the severity of its family unless it is hidden, and then it is a note at most. Merging,
suppression and caveats keep that (`Calm`), the recipe pass leaves what the two later ones need of it (`Even`), each pass
keeps what is confirmed and whether anything shown warns (`Keeps`), `Keeps` is transitive, and the two claims about the verdict follow.

**Dependencies** (`DependenciesProofs`). What a lookup of the resolver answers, and what the id may turn out to be (`MayBe`), is
stated once per kind of answer (present, shadowed, undecidable, absent). The invariant `IInv` says which pack each of
the findings, the outcome and the forecast was drawn from (`Typed`, `Analysed`, `Forecasted`).

- `AlwaysPairVerdictIsCertain`: a hard verdict of the pairwise rule survives every way the unknowns of the pack can turn out.
  This holds for every pack.
- `AlwaysBrokenPackIsReported` excepts `Masked`: a contradiction kept back by a finding about a declaration that is not required. A
  finding counts as a report only if it is about a required declaration itself. What the resolver leaves to the pairs is found by
  them (`AbsentIsFound`); what no pair sees is a contradiction of the resolver (`BrokenIsShown`).
- `AlwaysUpdateForeseen` is exact for what the forecast weighs; of what it passes over it says that the analysis never makes it an
  error (`PassedOverIsSoft`), and no more: `SuggestionsForeseen` fails.
- `AlwaysHardVerdictIsCertain`, and the two above, and `AlwaysRemovalForeseen`: for packs that are `Plain`, and remain so
  after the edit (`AlwaysPlain`). Plain excludes duplicate ids and an active alias beside a package of its id;
  `MCDependenciesOverlap` shows that the verdict is wrong there, so the hypothesis is needed. Every pack of the run is
  Plain (an assumption of `MCDependencies`).

**Artifact store** (`LabProofs`). A copy is compared before it is renamed, so a blob never changes
(`StoreBlobHonest`); destinations are only ever filled, so records and what was verified stay true
(`StoreNoClobber`, `StoreRecordHonest`, `StoreVerifiedIsPinned`); staged bytes are synced before the rename and the
directory after it, so nothing is torn or older than what was acknowledged (`FileWhole`, `FileDurable`).
The invariant also ties each process's step to the bytes it holds (`StepInv`, `DestInv`, `RecordInv`, `VerifierInv`).
Assumption: a lock names every file (`LockAssumption`).

**Execution** (`LabProofs`). The log only grows; the lines there at the child's end are a prefix of what is
measured, and what is measured is among what is read (`LogInv`, `RawInv`); the group is killed before the wait
(`ChildInv`). `AlwaysTreeDead`, `AlwaysLastWords`, `AlwaysEarned`. Assumption: room for at least two lines
(`LimitAssumption`), since the first line read may be cut and is dropped.

**Overlay** (`OverlayProofs`). `AlwaysWhole` (`PublishedIsWhole`) and `AlwaysOrderFree` (`SafeIsOrderFree`), in three parts.

- The scan: folds become functions with a step equation (`Steps`, `OfStep`, `SizeStep`, `ScansStep`, ...), and an induction over
  sequences, its predicate given as a set, shows what each computes. If no archive meets a limit, pass 1 writes what
  `Entries` says (`DirScan`); the batches are disjoint, lose no colliding path, and hold more than the cap only if they hold one path
  (`BatchesHold`); pass 2 over a batch reads a prefix of the entries of each of its paths, and all of them if the bytes are
  within the cap and none is empty (`DirReads`). So what is classified has the right class (`ObservedRight`), and
  what two formats share is found (`CrossRight`).
- The staging: `Inv` says of a process from its scan to its commit that what it has in hand is `Sound` unless an archive was
  replaced: every name that is classified (`Done`) is exactly once among the collisions to come, the items and the skipped
  ones, unless it is one content (`Listing`), and every other colliding path is in a batch that is left. Its temporary
  directory has the files of its items, and at the commit the manifest of its plan (`Staged`). `PublishedIsWhole` alone is not
  inductive: a commit publishes what the process holds, so it needs all of that. Returned plans need the guard of the
  rename only: nothing can have been published before.
- The merges: an order of the documents is a permutation of their places (`OrderIs`), and what a class promises is what such a
  permutation keeps. Keys without a conflict have one text, whoever is last (`Speaks`, `LanguagesMean`); tags that neither
  replace nor remove add up to a union (`TagsUnion`, `TagsMean`); an appended event has, for each place of a sound in the
  documents, one place in its own list (`Pairs`, carried through the fold by `ToldGrows`), so that each sound is heard as often
  (`ToldIs`, `SoundsMean`). `Trust` carries this to the overlay: what is in hand as a safe collision has the class of the
  contents as they are (`Safe`), and what is staged for it means what they mean (`Kept`), because pass 2 reads all of a path or
  is found out (`ReadIs`) and a merge that fails stages nothing.
- Assumptions: `OverlayAssumption`, `NameAssumption` (places of names are distinct numbers; a locale is not a path) and
  `ArchiveAssumption` (an archive that opens is a sequence of entries with paths and sizes; an event of a `sounds.json` is what
  `SoundEvent::parse` makes of it, or shapeless). What the game makes of a stack (`Effective`) is the external part.

**Rule engines** (`RuleEnginesProofs`). The inductive invariant `IInv` (`EngineInvariant`) says which passes have made the plan
of each stage, and that a result is that plan's execution. The rest is about functions of plans.

- `OneSourceResults` (`ResultsPreserved` for plans that begin with one scan or one lowered rule, with any number of operators
  above). `Run` is a trace along the operators; an operator sees of a narrowed relation what it sees of the whole one (`RunTrace`, `SeenView`). A filter
  passes a projection that keeps its column (`InsertRun`), so pushing changes nothing (`PushKeeps`). Narrowing a scan keeps
  what the operators up to the first that makes its own columns read, each of which depends only on what it sees (`Seen`); so
  pruning changes nothing (`PruneKeeps`). There is no order of joins to choose.
- `FastRowStrategy` (`StrategyIrrelevant` where `FastRowSafe`): a plan that FastRow takes is one filter chain when no
  projection of the plan given drops a column that is read above it; pushing and pruning keep that (`InsertKeeps`,
  `PrunedKeeps`). Every other plan is vectorized. `MCRuleEnginesNarrow` shows that the hypothesis is needed.
- `LoweringIsFaithful` (`BackendsAgree` where `RuleAlike`): from lowering through all passes and the execution to the
  findings. It needs no hypothesis for rules over facts and over groups (`FactRulesAgree`, `GroupRulesAgree`). For joins
  `RuleAlike` says, of each pair of facts of the two kinds: no comparison orders a number and a text, the left part of an OR and what
  a NOT negates have an answer, and values that are compared as keys display alike only if they are equal. Then each node comes to the
  same in both evaluations, by induction over the condition, the index on the keys loses no pair, and the interpreter's first
  key is one of them (`JoinRulesAgree`). `MCRuleEnginesParity` violates each part and the claim with it.
- The three hypotheses are met in every state of the run `rule_engines` but for plans over joins. Assumptions: the types of databases,
  queries and rules (`DatabasesAssumption`, `QueriesAssumption`, `RulesAssumption`, `AttrsAssumption`).

Model-checked only:

- `ResultsPreserved` for plans over joins. The passes recurse into the sides of a join; that such a function has the values its
  equation says takes an induction over plans, which the provers cannot instantiate. The choice of the join order is in this part.
- The liveness properties `Termination`, `EveryLookupReturns`, `EveryWriteReturns` and `ExecutionReturns`, which need fairness.

## 5. What is not modelled

`PROJECT.json` lists every component with its reason.

- Parsers, scanners and renderers (jar metadata, mixins, resource AST, logs, spark, dynamics, security, SBOM, CLI,
  configuration, reports) are most of the repository's lines. They transform data sequentially and share no
  state; a model of them would be a transcription of their tables and patterns. They reach the cache through
  `get_or_scan` and the store through emission, which are modelled.
- DuckDB, HTTP (Modrinth) and cryptography are external. Installation of a chain of rule packs can stop half-way
  (hazard at distribution.rs:124): one process over an index, no shared state.
- Two campaign processes in one output directory (hazard at campaign.rs:482): nothing protects the state file from that,
  and no promise is made.
- Within modelled components: accuracy evaluation, the sandbox, validation of a lock's paths; incremental evaluation, window
  functions and the SQL, Datalog, Polars and DataFusion backends; aggregate and correlation rules;
  version comparison (a constant), load-order cycles, implicit dependencies, Quilt expressions and explanations;
  topology, writers and the read-only plan of the overlay; texts and recommendations everywhere.

## 6. What could come next

1. Incremental maintenance (`intermed-columnar/incremental.rs`): deltas and retractions against evaluation from scratch.
2. Version comparison as a definition with its order properties, in place of the constant of `Dependencies`.
3. `ResultsPreserved` for plans over joins, from an induction over the nesting of a plan.
4. Installation and update of rule packs with a crash between two steps; live retention, once the program uses it.
