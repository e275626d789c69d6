----------------------------- MODULE RuleEngines ------------------------------
(***************************************************************************)
(* A query engine at work: a declarative query is compiled (frontend.rs),  *)
(* a rule is lowered or left to the interpreter (intermed-rules            *)
(* ir_lowering.rs, columnar.rs), and the plan goes through the optimizer   *)
(* to one of the two ways of running it (engine.rs, executor.rs,           *)
(* fast_row.rs).  The interpreter (interpreter.rs, expr.rs, join_plan.rs)  *)
(* says what a rule finds.                                                 *)
(*                                                                         *)
(* A rule is one of                                                        *)
(*   [type |-> "fact",  inputs, all, not]                                  *)
(*   [type |-> "group", inputs, all, not, by, of, min]                     *)
(*   [type |-> "join",  left, right, on, where]                            *)
(* where all and not are sequences of <<column, text>>, on and where         *)
(* conditions.  Aggregate and correlation rules never leave the interpreter. *)
(***************************************************************************)
EXTENDS Optimizer

CONSTANTS
  Databases,   \* the sequences of facts an engine may be built from
  Queries,     \* the declarative queries it may be asked
  Rules,       \* the rules of the pack
  IntColumns   \* the <<kind, column>> the fact schema declares to be numbers

ASSUME DatabasesAssumption ==
  \A db \in Databases : db \in Seq([kind : STRING, subject : Value, attrs : [Attrs -> Value]])

\* A query, but for the subqueries it names.
Written(q) ==
  /\ q.scan \in STRING /\ q.join \in Seq([scan : STRING, on : Seq(Column \X Column)])
  /\ q.filters \in Seq(Predicate) /\ q.having \in Seq(Predicate)
  /\ q.closure \in Seq(Column) /\ q.by \in Seq(Column) /\ q.project \in Seq(Column)
  /\ q.aggs \in Seq([func : {"count", "sum", "max"}, column : Column, alias : Column])

ASSUME QueriesAssumption ==
  \A spec \in Queries :
    /\ Written(spec)
    /\ spec.with \in Seq(ToSet(spec.with)) /\ \A sub \in ToSet(spec.with) : Written(sub.query)

\* The columns a rule may name; the nodes of a condition come after their parts.
Named == Attrs \union {Subject}
Term  == [alias : {"l", "r"}, column : Named]

IsCondition(c) ==
  /\ c # <<>> /\ c \in Seq(ToSet(c))
  /\ \A i \in DOMAIN c :
       \/ c[i].is = "true"
       \/ c[i].is = "cmp" /\ c[i].term \in Term /\ c[i].op \in Comparisons /\ c[i].value \in Int
       \/ c[i].is = "colcmp" /\ c[i].term \in Term /\ c[i].op \in Comparisons /\ c[i].other \in Term
       \/ c[i].is \in {"null", "notnull"} /\ c[i].term \in Term
       \/ c[i].is \in {"and", "or"} /\ c[i].left \in 1 .. i - 1 /\ c[i].right \in 1 .. i - 1
       \/ c[i].is = "not" /\ c[i].of \in 1 .. i - 1

ASSUME RulesAssumption ==
  \A r \in Rules :
    /\ r.type \in {"fact", "group", "join"}
    /\ r.type = "join" => r.left \in STRING /\ r.right \in STRING /\ IsCondition(r.on) /\ IsCondition(r.where)
    /\ r.type # "join" => /\ IsFiniteSet(r.inputs) /\ \A kind \in r.inputs : kind \in STRING
                          /\ r.all \in Seq(Named \X Int) /\ r.not \in Seq(Named \X Int)
    /\ r.type = "group" => r.by \in Named /\ r.of \in Named /\ r.min \in Nat \ {0}

VARIABLES facts, rule, given, plan, stage, result

vars == <<facts, rule, given, plan, stage, result>>

NoRule == [type |-> "none"]
NoPlan == Plan([op |-> "none"], <<>>)

-----------------------------------------------------------------------------
(* The frontend: scan, join, filters, closure, aggregate, having, project.  *)

ScanOf(name, ctes) ==
  LET hits == {i \in DOMAIN ctes : ctes[i].name = name}
  IN  IF hits = {} THEN Scan(name) ELSE ctes[Min(hits)].plan

Filters(preds) == [i \in DOMAIN preds |-> Filter(preds[i])]

CompileWith(spec, ctes) ==
  LET from    == ScanOf(spec.scan, ctes)
      joined  == IF spec.join = <<>> THEN from
                 ELSE Join(from, ScanOf(spec.join[1].scan, ctes), spec.join[1].on)
      closed  == IF spec.closure = <<>> THEN <<>> ELSE <<Closure(spec.closure[1], spec.closure[2])>>
      grouped == IF spec.by = <<>> /\ spec.aggs = <<>> THEN <<>> ELSE <<Aggregate(spec.by, spec.aggs)>>
      shown   == IF spec.project = <<>> THEN <<>> ELSE <<Project(spec.project)>>
  IN  Plan(joined.from, joined.steps \o Filters(spec.filters) \o closed \o grouped \o Filters(spec.having) \o shown)

\* A named subquery sees those before it.
Compiled(spec) ==
  LET ctes[k \in 0 .. Len(spec.with)] ==
        IF k = 0 THEN <<>>
        ELSE Append(ctes[k - 1], [name |-> spec.with[k].name, plan |-> CompileWith(spec.with[k].query, ctes[k - 1])])
  IN  CompileWith(spec, ctes[Len(spec.with)])

-----------------------------------------------------------------------------
(* Lowering, <<>> when a rule is left to the interpreter.                   *)

Archive == <<"archive">>
File    == <<"file">>

\* Fault: the terms with aliases are lowered.
AnyTerm(column) == TRUE

\* The interpreter looks an archive up under other names too, and knows no id.
FaithfulTerm(column) == column \notin {Archive, FactId}

\* The columns a node of a condition names.
Terms(node) ==
  CASE node.is \in {"cmp", "null", "notnull"} -> {node.term.column}
    [] node.is = "colcmp" -> {node.term.column, node.other.column}
    [] OTHER -> {}

Faithful(c) == \A node \in ToSet(c) : \A column \in Terms(node) : FaithfulTerm(column)

SchemaLiteral(kind, column, n) == IF <<kind, column>> \in IntColumns THEN Int64(n) ELSE Str(n)

LowerFact(r) ==
  IF /\ Cardinality(r.inputs) = 1 /\ r.not = <<>>
     /\ \A w \in ToSet(r.all) : FaithfulTerm(w[1])
  THEN LET kind == CHOOSE k \in r.inputs : TRUE
       IN  <<Plan(Scan(kind).from,
                  Filters([i \in DOMAIN r.all |->
                             [column |-> r.all[i][1], op |-> "eq",
                              value |-> SchemaLiteral(kind, r.all[i][1], r.all[i][2])]]))>>
  ELSE <<>>

LowerJoin(r) ==
  IF Faithful(r.on) /\ Faithful(r.where)
  THEN <<Plan([op |-> "joinfilter", left |-> r.left, right |-> r.right, on |-> r.on, where |-> r.where], <<>>)>>
  ELSE <<>>

LowerGroup(r) ==
  IF /\ r.inputs # {} /\ r.not = <<>>
     /\ FaithfulTerm(r.by) /\ FaithfulTerm(r.of)
     /\ \A w \in ToSet(r.all) : FaithfulTerm(w[1])
  THEN <<Plan([op |-> "groupdistinct", kinds |-> r.inputs, by |-> r.by, of |-> r.of, min |-> r.min,
               filters |-> [i \in DOMAIN r.all |->
                              [column |-> r.all[i][1], op |-> "eq", value |-> Str(r.all[i][2])]]], <<>>)>>
  ELSE <<>>

Lowered(r) ==
  CASE r.type = "fact" -> LowerFact(r) [] r.type = "join" -> LowerJoin(r) [] r.type = "group" -> LowerGroup(r)

-----------------------------------------------------------------------------
(* The interpreter: texts, and sets of at most one element for what may be  *)
(* missing.                                                                 *)

Text(v) == IF v = Null THEN {} ELSE {v.n}

TermValue(f, column) ==
  IF column = Subject THEN Text(f.subject)
  ELSE IF column = Archive /\ f.attrs[Archive] = Null THEN Text(f.attrs[File])
  ELSE Text(f.attrs[column])

MatchesV1(f, r) ==
  /\ r.inputs = {} \/ f.kind \in r.inputs
  /\ \A w \in ToSet(r.all) : TermValue(f, w[1]) = {w[2]}
  /\ \A w \in ToSet(r.not) : TermValue(f, w[1]) # {w[2]}

Operand(env, term) == TermValue(env[term.alias], term.column)

\* What a node of a condition comes to.  Texts that are numbers compare as
\* numbers; a missing operand makes no answer.
Answer(c, env, answer, i) ==
  CASE c[i].is = "true"    -> {TRUE}
    [] c[i].is = "cmp"     -> {Holds(a, c[i].op, c[i].value) : a \in Operand(env, c[i].term)}
    [] c[i].is = "colcmp"  -> {Holds(p[1], c[i].op, p[2]) : p \in Operand(env, c[i].term) \X Operand(env, c[i].other)}
    [] c[i].is = "null"    -> {Operand(env, c[i].term) = {}}
    [] c[i].is = "notnull" -> {Operand(env, c[i].term) # {}}
    [] c[i].is = "and"     -> UNION {IF a THEN answer[c[i].right] ELSE {FALSE} : a \in answer[c[i].left]}
    [] c[i].is = "or"      -> UNION {IF a THEN {TRUE} ELSE answer[c[i].right] : a \in answer[c[i].left]}
    [] c[i].is = "not"     -> {~a : a \in answer[c[i].of]}

Answers(c, env) == LET answer[i \in DOMAIN c] == Answer(c, env, answer, i) IN answer

EvalAst(c, env) == Answers(c, env)[Len(c)]

\* The first equality of on is an index; on and where are evaluated in full.
JoinMatches(r, l, f) ==
  LET env  == [l |-> l, r |-> f]
      keys == MandatoryKeys(r.on)
  IN  /\ keys = <<>> \/ TermValue(l, keys[1][1]) \intersect TermValue(f, keys[1][2]) # {}
      /\ EvalAst(r.on, env) = {TRUE}
      /\ EvalAst(r.where, env) = {TRUE}

\* The members of every group with enough distinct values.
GroupsOf(r, db, wanted) ==
  LET members(g) == {i \in DOMAIN db : MatchesV1(db[i], r) /\ TermValue(db[i], r.by) = {g}}
      values(g)  == UNION {TermValue(db[i], r.of) : i \in members(g)}
  IN  {[group |-> g, members |-> members(g)] :
         g \in {h \in wanted : members(h) # {} /\ Cardinality(values(h)) >= r.min}}

\* What a rule finds: the facts each finding is made of.
Interpreted(r, db) ==
  CASE r.type = "fact"  -> {i \in DOMAIN db : MatchesV1(db[i], r)}
    [] r.type = "join"  -> {p \in (DOMAIN db) \X (DOMAIN db) :
                              /\ db[p[1]].kind = r.left /\ db[p[2]].kind = r.right
                              /\ JoinMatches(r, db[p[1]], db[p[2]])}
    [] r.type = "group" -> GroupsOf(r, db, UNION {TermValue(db[i], r.by) : i \in DOMAIN db})

\* What the columnar backend makes of the rows the engine returned.
Found(r, rows, db) ==
  CASE r.type = "fact"  -> {row[FactId].n : row \in DOMAIN rows}
    [] r.type = "join"  -> {<<row[<<"left_fact_id">>].n, row[<<"right_fact_id">>].n>> : row \in DOMAIN rows}
    [] r.type = "group" -> GroupsOf(r, db, {row[r.by].n : row \in DOMAIN rows})

-----------------------------------------------------------------------------
Init ==
  /\ facts \in Databases
  /\ rule = NoRule /\ given = NoPlan /\ plan = NoPlan
  /\ stage = "idle" /\ result = <<>>

Given(r, p) == /\ rule' = r /\ given' = p /\ plan' = p /\ stage' = "given"
               /\ UNCHANGED <<facts, result>>

Compile == stage = "idle" /\ \E spec \in Queries : Given(NoRule, Compiled(spec))

Lower == stage = "idle" /\ \E r \in Rules : Lowered(r) # <<>> /\ Given(r, Lowered(r)[1])

\* A rule that cannot be lowered is for the interpreter.
Fallback ==
  /\ stage = "idle"
  /\ \E r \in Rules : Lowered(r) = <<>> /\ rule' = r /\ result' = Interpreted(r, facts)
  /\ stage' = "interpreted"
  /\ UNCHANGED <<facts, given, plan>>

Pass(from, to, plans) ==
  /\ stage = from /\ stage' = to /\ plan' \in plans
  /\ UNCHANGED <<facts, rule, given, result>>

Push    == Pass("given", "pushed", {PushFilters(plan, facts)})
Reorder == Pass("pushed", "ordered", Reorders(plan, facts))
Prune   == Pass("ordered", "optimized", {PruneColumns(plan, facts)})

Execute ==
  /\ stage = "optimized" /\ stage' = "done"
  /\ result' = Materialized(IF FastRowEligible(plan) THEN FastRow(plan, facts) ELSE Stream(plan, facts))
  /\ UNCHANGED <<facts, rule, given, plan>>

\* The engine serves the next query from the same facts.
Again ==
  /\ stage \in {"done", "interpreted"} /\ stage' = "idle"
  /\ rule' = NoRule /\ given' = NoPlan /\ plan' = NoPlan /\ result' = <<>>
  /\ UNCHANGED facts

Next == Compile \/ Lower \/ Fallback \/ Push \/ Reorder \/ Prune \/ Execute \/ Again

Spec == Init /\ [][Next]_vars

-----------------------------------------------------------------------------
(* Whatever pass has run, the plan yields the rows of the plan that was     *)
(* given, as often ("the optimizer never changes results, only, at most,    *)
(* does less", optimizer.rs).                                               *)
ResultsPreserved ==
  stage \in {"pushed", "ordered", "optimized"} =>
    Materialized(Stream(plan, facts)) = Materialized(Stream(given, facts))

(* The way the engine chooses to run a plan does not show in the rows it    *)
(* returns (strategy.rs).                                                   *)
StrategyIrrelevant == stage = "done" => result = Materialized(Stream(plan, facts))

(* The findings a lowered rule leads to are made of the same facts as the   *)
(* interpreter's ("faithfully or not at all", ir_lowering.rs).              *)
BackendsAgree ==
  stage = "done" /\ rule # NoRule => Found(rule, result, facts) = Interpreted(rule, facts)
=============================================================================
