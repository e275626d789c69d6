----------------------------- MODULE Relational ------------------------------
(***************************************************************************)
(* Queries over facts: the values and relations of the columnar engine,    *)
(* the plans of its IR and what the executor makes of them                 *)
(* (intermed-columnar value.rs, ir.rs, executor.rs and executor/).         *)
(*                                                                         *)
(* A text stands for the number it displays, so Str(1) and Int(1) display  *)
(* alike.  A column is a sequence, a collision in a join puts "right" in   *)
(* front.  Rows come in no order that matters here: a relation is          *)
(* [names, rows], a row [id, cells], the id whatever tells it from others. *)
(* Windows and external modules are left out.  None is {}, <<>> where it   *)
(* is a set that may be missing.                                           *)
(***************************************************************************)
EXTENDS Integers, Sequences, FiniteSets, SequencesExt, Relation

CONSTANTS
  Attrs,       \* the columns that attributes make
  MaxNesting   \* how deep the joins of a plan nest, at most

FactId  == <<"fact_id">>
Subject == <<"subject">>

ASSUME AttrsAssumption == IsFiniteSet(Attrs) /\ {FactId, Subject} \intersect Attrs = {}
ASSUME MaxNestingAssumption == MaxNesting \in Nat

Column      == Seq(STRING)
Comparisons == {"eq", "ne", "lt", "le", "gt", "ge"}
Value       == [type : {"null", "str", "int", "float"}, n : Int]
Predicate   == [column : Column, op : Comparisons, value : Value]

Null     == [type |-> "null", n |-> 0]
Str(n)   == [type |-> "str", n |-> n]
Int64(n) == [type |-> "int", n |-> n]
Float(n) == [type |-> "float", n |-> n]

Numeric(v) == v.type \in {"int", "float"}

Holds(a, op, b) ==
  CASE op = "eq" -> a = b [] op = "ne" -> a # b [] op = "lt" -> a < b
    [] op = "le" -> a <= b [] op = "gt" -> a > b [] op = "ge" -> a >= b

\* eval_cmp: equality of what is displayed, order within a type.
EvalCmp(l, op, r) ==
  /\ l # Null /\ r # Null
  /\ op \in {"eq", "ne"} \/ Numeric(l) = Numeric(r)
  /\ Holds(l.n, op, r.n)

-----------------------------------------------------------------------------
(* Relations, and the facts [kind, subject, attrs] they are built from.  An  *)
(* attribute a fact does not have is Null.                                   *)

\* The first column of a name.
Pos(names, c) == {i \in DOMAIN names : names[i] = c /\ \A j \in 1 .. i - 1 : names[j] # c}
Cell(names, row, c) == IF Pos(names, c) = {} THEN Null ELSE row[CHOOSE i \in Pos(names, c) : TRUE]

OfKind(facts, kind) == {i \in DOMAIN facts : facts[i].kind = kind}

\* The columns of a kind are the attributes its facts have; none of an unknown kind.
Columns(facts, kind) ==
  IF OfKind(facts, kind) = {} THEN <<>>
  ELSE <<FactId, Subject>> \o SetToSeq({a \in Attrs : \E i \in OfKind(facts, kind) : facts[i].attrs[a] # Null})

FactCell(facts, i, c) ==
  IF c = FactId THEN Int64(i) ELSE IF c = Subject THEN facts[i].subject ELSE facts[i].attrs[c]

ScanRel(facts, kind) ==
  LET names == Columns(facts, kind)
  IN  [names |-> names,
       rows  |-> {[id |-> i, cells |-> [p \in DOMAIN names |-> FactCell(facts, i, names[p])]] :
                    i \in OfKind(facts, kind)}]

\* What an operator sees that reads these columns.
Seen(rel, columns) ==
  {[id |-> row.id, of |-> [c \in columns |-> Cell(rel.names, row.cells, c)]] : row \in rel.rows}

Passes(names, row, pred) == EvalCmp(Cell(names, row.cells, pred.column), pred.op, pred.value)

Where(rel, pred) == [rel EXCEPT !.rows = {row \in @ : Passes(rel.names, row, pred)}]

Only(seen, columns) ==
  [names |-> columns,
   rows  |-> {[id |-> x.id, cells |-> [p \in DOMAIN columns |-> x.of[columns[p]]]] : x \in seen}]

JoinNames(l, r) ==
  l \o [i \in DOMAIN r |-> IF r[i] \in ToSet(l) THEN <<"right">> \o r[i] ELSE r[i]]

\* Keys meet with their types, and Null meets nothing; no keys is a cross join.
Meet(l, a, r, b, on) ==
  \A i \in DOMAIN on : /\ Cell(l.names, a.cells, on[i][1]) # Null
                       /\ Cell(l.names, a.cells, on[i][1]) = Cell(r.names, b.cells, on[i][2])

JoinRel(l, r, on) ==
  [names |-> JoinNames(l.names, r.names),
   rows  |-> {[id |-> <<p[1].id, p[2].id>>, cells |-> p[1].cells \o p[2].cells] :
                p \in {q \in l.rows \X r.rows : Meet(l, q[1], r, q[2], on)}}]

\* compute_agg, of the numbers among the values.
Aggregated(agg, members) ==
  LET numbers == {x \in members : Numeric(x.of[agg.column])}
  IN  IF agg.func = "count" THEN Int64(Cardinality(members))
      ELSE IF numbers = {} THEN Null
      ELSE IF agg.func = "sum" THEN Float(MapThenSumSet(LAMBDA x : x.of[agg.column].n, numbers))
      ELSE Float(Max({x.of[agg.column].n : x \in numbers}))

\* Groups by what is displayed; a group shows the values of one of its rows.
AggregateRel(seen, by, aggs) ==
  LET Key(x) == [p \in DOMAIN by |-> IF x.of[by[p]] = Null THEN -1 ELSE x.of[by[p]].n]
      Row(members) == LET shown == CHOOSE x \in members : TRUE
                      IN  [p \in DOMAIN by |-> shown.of[by[p]]] \o
                          [a \in DOMAIN aggs |-> Aggregated(aggs[a], members)]
  IN  [names |-> by \o [a \in DOMAIN aggs |-> aggs[a].alias],
       rows  |-> {[id |-> key, cells |-> Row({x \in seen : Key(x) = key})] : key \in {Key(x) : x \in seen}}]

Reached(edges) ==
  LET nodes == UNION {{e[1], e[2]} : e \in edges}
      path  == TransitiveClosure([e \in nodes \X nodes |-> e \in edges], nodes)
  IN  {e \in nodes \X nodes : path[e]}

ClosureRel(seen, from, to) ==
  LET edges == {x \in seen : x.of[from] # Null /\ x.of[to] # Null}
  IN  [names |-> <<from, to>>,
       rows  |-> {[id |-> e, cells |-> <<Str(e[1]), Str(e[2])>>] :
                    e \in Reached({<<x.of[from].n, x.of[to].n>> : x \in edges})}]

-----------------------------------------------------------------------------
(* Conditions over two facts, under the aliases "l" and "r".  A condition is *)
(* the sequence of its nodes, each after those it is made of (left, right,   *)
(* of: their places), the last one the whole.  A literal is a text.          *)

\* env: alias -> [names, cells].
Resolve(env, term) == Cell(env[term.alias].names, env[term.alias].cells, term.column)

\* What a node comes to, given what those before it hold.
Verdict(c, env, holds, i) ==
  CASE c[i].is = "true"    -> TRUE
    [] c[i].is = "cmp"     -> EvalCmp(Resolve(env, c[i].term), c[i].op, Str(c[i].value))
    [] c[i].is = "colcmp"  -> EvalCmp(Resolve(env, c[i].term), c[i].op, Resolve(env, c[i].other))
    [] c[i].is = "null"    -> Resolve(env, c[i].term) = Null
    [] c[i].is = "notnull" -> Resolve(env, c[i].term) # Null
    [] c[i].is = "and"     -> holds[c[i].left] /\ holds[c[i].right]
    [] c[i].is = "or"      -> holds[c[i].left] \/ holds[c[i].right]
    [] c[i].is = "not"     -> ~holds[c[i].of]

Verdicts(c, env) == LET holds[i \in DOMAIN c] == Verdict(c, env, holds, i) IN holds

EvalCondition(c, env) == Verdicts(c, env)[Len(c)]

\* The equalities between the sides that must hold.
NodeKeys(c, keys, i) ==
  CASE c[i].is = "colcmp" /\ c[i].op = "eq" /\ c[i].term.alias # c[i].other.alias ->
         IF c[i].term.alias = "l" THEN <<<<c[i].term.column, c[i].other.column>>>>
         ELSE <<<<c[i].other.column, c[i].term.column>>>>
    [] c[i].is = "and" -> keys[c[i].left] \o keys[c[i].right]
    [] OTHER -> <<>>

MandatoryKeys(c) == LET keys[i \in DOMAIN c] == NodeKeys(c, keys, i) IN keys[Len(c)]

\* The index on the keys first, the whole condition on what it finds.
JoinFilterRel(l, r, on, where) ==
  LET Env(a, b) == [l |-> [names |-> l.names, cells |-> a.cells], r |-> [names |-> r.names, cells |-> b.cells]]
      hits == {p \in l.rows \X r.rows :
                 /\ Meet(l, p[1], r, p[2], MandatoryKeys(on) \o MandatoryKeys(where))
                 /\ EvalCondition(on, Env(p[1], p[2])) /\ EvalCondition(where, Env(p[1], p[2]))}
      Out(rel, row) == <<Cell(rel.names, row.cells, FactId), Cell(rel.names, row.cells, Subject)>>
  IN  [names |-> <<<<"left_fact_id">>, <<"left_subject">>, <<"right_fact_id">>, <<"right_subject">>>>,
       rows  |-> {[id |-> <<p[1].id, p[2].id>>, cells |-> Out(l, p[1]) \o Out(r, p[2])] : p \in hits}]

\* Non-null groups with enough distinct non-null values, over the rows of all kinds.
GroupDistinctRel(facts, from) ==
  LET Passed(rel) == {row \in rel.rows : \A f \in ToSet(from.filters) : Passes(rel.names, row, f)}
      pairs  == UNION {LET rel == ScanRel(facts, k)
                       IN  {<<Cell(rel.names, row.cells, from.by), Cell(rel.names, row.cells, from.of)>> :
                              row \in Passed(rel)} : k \in from.kinds}
      full   == {<<p[1].n, p[2].n>> : p \in {q \in pairs : q[1] # Null /\ q[2] # Null}}
      groups == {g \in {x[1] : x \in full} : Cardinality({x \in full : x[1] = g}) >= from.min}
  IN  [names |-> <<from.by>>, rows |-> {[id |-> g, cells |-> <<Str(g)>>] : g \in groups}]

-----------------------------------------------------------------------------
(* Plans: the operators of one input each, from a source up.  The sides of a *)
(* join are plans.                                                           *)

Plan(from, steps) == [from |-> from, steps |-> steps]

Scan(kind)        == Plan([op |-> "scan", kind |-> kind], <<>>)
Join(l, r, on)    == Plan([op |-> "join", left |-> l, right |-> r, on |-> on], <<>>)
Filter(pred)      == [op |-> "filter", pred |-> pred]
Project(columns)  == [op |-> "project", columns |-> columns]
Aggregate(by, aggs) == [op |-> "aggregate", by |-> by, aggs |-> aggs]
Closure(from, to)   == [op |-> "closure", from |-> from, to |-> to]

\* A plan and the sides of its joins.
Within(p) ==
  LET upTo[n \in 0 .. MaxNesting] ==
        IF n = 0 THEN {p}
        ELSE upTo[n - 1] \union UNION {{q.from.left, q.from.right} : q \in {x \in upTo[n - 1] : x.from.op = "join"}}
  IN  upTo[MaxNesting]

\* The columns an operator reads; a count reads none.
Reads(step) ==
  CASE step.op = "filter"    -> {step.pred.column}
    [] step.op = "project"   -> ToSet(step.columns)
    [] step.op = "aggregate" -> ToSet(step.by) \union
                                {a.column : a \in {b \in ToSet(step.aggs) : b.func # "count"}}
    [] step.op = "closure"   -> {step.from, step.to}

Step(rel, step) ==
  LET seen == Seen(rel, Reads(step))
  IN  CASE step.op = "filter"    -> Where(rel, step.pred)
        [] step.op = "project"   -> Only(seen, step.columns)
        [] step.op = "aggregate" -> AggregateRel(seen, step.by, step.aggs)
        [] step.op = "closure"   -> ClosureRel(seen, step.from, step.to)

Run(rel, steps) ==
  LET after[k \in 0 .. Len(steps)] == IF k = 0 THEN rel ELSE Step(after[k - 1], steps[k])
  IN  after[Len(steps)]

Leaf(from, facts) ==
  CASE from.op = "scan"          -> ScanRel(facts, from.kind)
    [] from.op = "joinfilter"    -> JoinFilterRel(ScanRel(facts, from.left), ScanRel(facts, from.right), from.on, from.where)
    [] from.op = "groupdistinct" -> GroupDistinctRel(facts, from)

Source(from, facts) ==
  LET yield[q \in Within(from.left) \union Within(from.right)] ==
        Run(IF q.from.op = "join" THEN JoinRel(yield[q.from.left], yield[q.from.right], q.from.on)
            ELSE Leaf(q.from, facts), q.steps)
  IN  IF from.op = "join" THEN JoinRel(yield[from.left], yield[from.right], from.on) ELSE Leaf(from, facts)

Stream(p, facts) == Run(Source(p.from, facts), p.steps)

\* Rows become maps, where the last column of a name wins; how often each occurs.
Materialized(rel) ==
  LET Map(row) == [c \in ToSet(rel.names) |-> row.cells[Max({p \in DOMAIN rel.names : rel.names[p] = c})]]
  IN  [map \in {Map(row) : row \in rel.rows} |-> Cardinality({row \in rel.rows : Map(row) = map})]

-----------------------------------------------------------------------------
(* FastRow: filters, and projections below an outermost one, over a scan.   *)

Projects(steps) == steps # <<>> /\ Last(steps).op = "project"

\* Fault: the chain may end in a filter above its projections.
AnyChain(p) == p.from.op = "scan" /\ \A s \in ToSet(p.steps) : s.op \in {"filter", "project"}

FastRowEligible(p) ==
  /\ p.from.op = "scan"
  /\ \A s \in ToSet(p.steps) : s.op = "filter" \/ (s.op = "project" /\ Projects(p.steps))

\* All the filters on the whole rows of the kind, then the outermost projection.
FastRow(p, facts) ==
  LET scan    == ScanRel(facts, p.from.kind)
      filters == {s \in ToSet(p.steps) : s.op = "filter"}
      kept    == [scan EXCEPT !.rows = {row \in @ : \A s \in filters : Passes(scan.names, row, s.pred)}]
  IN  IF Projects(p.steps) THEN Only(Seen(kept, Reads(Last(p.steps))), Last(p.steps).columns) ELSE kept
=============================================================================
