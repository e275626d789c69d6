-------------------------- MODULE RuleEnginesProofs --------------------------
(***************************************************************************)
(* Proofs about RuleEngines, for every set of databases, queries and rules. *)
(*                                                                         *)
(* A plan over one source is a chain of operators.  Run is given as a      *)
(* trace along the chain; pushing a filter below projections that keep its *)
(* column, narrowing a scan to the columns needed, and FastRow are shown   *)
(* to change nothing about its end.  The inductive invariant IInv says of  *)
(* each stage which passes made its plan, so that ResultsPreserved and     *)
(* StrategyIrrelevant follow.  BackendsAgree then compares what a lowered  *)
(* plan yields with the interpreter's findings: fact by fact, group by     *)
(* group, and, for a join, node by node of its conditions.                 *)
(***************************************************************************)
EXTENDS RuleEngines, FiniteSetTheorems, FunctionTheorems, WellFoundedInduction, TLAPS

-----------------------------------------------------------------------------
(* Induction, its predicate given as the set of what satisfies it.          *)

\* A set of naturals has a least element.
LEMMA Least ==
  ASSUME NEW N \in SUBSET Nat, N # {}
  PROVE  \E n \in N : \A m \in N : n <= m
<1>1. IsWellFoundedOn({p \in Nat \X Nat : p[1] < p[2]}, Nat)
  BY NatLessThanWellFounded DEF OpToRel
<1>2. PICK n \in N : \A m \in N : ~(<<m, n>> \in {p \in Nat \X Nat : p[1] < p[2]})
  BY <1>1, WFMin
<1>3. \A m \in N : ~(m < n)
  BY <1>2
<1> QED
  BY <1>3

\* Induction over the naturals up to a bound ...
LEMMA Counting ==
  ASSUME NEW n \in Nat, NEW Good, 0 \in Good, \A m \in 1 .. n : m - 1 \in Good => m \in Good
  PROVE  \A m \in 0 .. n : m \in Good
<1> DEFINE Bad == {m \in 0 .. n : m \notin Good}
<1> SUFFICES ASSUME Bad # {} PROVE FALSE
  OBVIOUS
<1>1. PICK m \in Bad : \A k \in Bad : m <= k
  <2>1. Bad \in SUBSET Nat
    OBVIOUS
  <2> HIDE DEF Bad
  <2> QED BY <2>1, Least
<1>2. m \in 1 .. n /\ m - 1 \in 0 .. n /\ ~(m <= m - 1)
  OBVIOUS
<1> QED
  BY <1>1, <1>2

\* ... where a number follows from all those before it.
LEMMA Climbing ==
  ASSUME NEW n \in Nat, NEW Good, \A m \in 1 .. n : (\A k \in 1 .. m - 1 : k \in Good) => m \in Good
  PROVE  \A m \in 1 .. n : m \in Good
<1> DEFINE Bad == {m \in 1 .. n : m \notin Good}
<1> SUFFICES ASSUME Bad # {} PROVE FALSE
  OBVIOUS
<1>1. PICK m \in Bad : \A k \in Bad : m <= k
  <2>1. Bad \in SUBSET Nat
    OBVIOUS
  <2> HIDE DEF Bad
  <2> QED BY <2>1, Least
<1>2. ASSUME NEW k \in 1 .. m - 1 PROVE k \in Good
  <2>1. k \in 1 .. n /\ ~(m <= k)
    OBVIOUS
  <2> QED BY <1>1, <2>1
<1>3. m \in Good
  BY <1>2
<1> QED
  BY <1>3

\* A sequence is one of its own elements.
LEMMA SeqOwn ==
  ASSUME NEW S, NEW s \in Seq(S)
  PROVE  s \in Seq(ToSet(s))
<1> DEFINE T == ToSet(s)
           l == Len(s)
<1>1. l \in Nat /\ s \in [1 .. l -> S]
  OBVIOUS
<1>2. \A y \in 1 .. l : s[y] \in T
  BY <1>1 DEF ToSet
<1> HIDE DEF T, l
<1>3. s \in [1 .. l -> T]
  BY <1>1, <1>2
<1>4. s \in Seq(T)
  BY <1>1, <1>3
<1> QED
  BY <1>4 DEF T

-----------------------------------------------------------------------------
(* Run.  f is what the steps s make of a relation, one by one.              *)

Trace(f, rel, s) ==
  /\ f = [k \in 0 .. Len(s) |-> f[k]]
  /\ f[0] = rel
  /\ \A k \in 1 .. Len(s) : f[k] = Step(f[k - 1], s[k])

\* What Run makes of a relation is the end of such a trace.
LEMMA RunTrace ==
  ASSUME NEW rel, NEW T, NEW s \in Seq(T)
  PROVE  \E f : Trace(f, rel, s) /\ Run(rel, s) = f[Len(s)]
<1> DEFINE Upto(f, n) == f = [k \in 0 .. n |-> IF k = 0 THEN rel ELSE Step(f[k - 1], s[k])]
           Good == {n \in 0 .. Len(s) : \E f : Upto(f, n)}
           l == Len(s)
<1>0. l \in Nat
  OBVIOUS
<1>1. 0 \in Good
  <2> DEFINE f == [k \in 0 .. 0 |-> rel]
  <2>1. Upto(f, 0)
    OBVIOUS
  <2> HIDE DEF f, Upto
  <2> QED BY <1>0, <2>1
<1>2. ASSUME NEW m \in 1 .. l, m - 1 \in Good PROVE m \in Good
  <2>1. PICK f : Upto(f, m - 1)
    BY <1>2
  <2> DEFINE g == [k \in 0 .. m |-> IF k = m THEN Step(f[m - 1], s[m]) ELSE f[k]]
  <2>2. ASSUME NEW k \in 0 .. m
        PROVE  g[k] = IF k = 0 THEN rel ELSE Step(g[k - 1], s[k])
    <3>1. CASE k = 0
      BY <2>1, <3>1
    <3>2. CASE k = m
      <4>1. g[m - 1] = f[m - 1] /\ m # 0
        OBVIOUS
      <4> QED BY <3>2, <4>1
    <3>3. CASE k # 0 /\ k # m
      <4>1. k \in 0 .. m - 1 /\ k - 1 \in 0 .. m /\ k - 1 # m
        BY <3>3
      <4>2. g[k] = f[k] /\ g[k - 1] = f[k - 1]
        BY <3>3, <4>1
      <4>3. f[k] = Step(f[k - 1], s[k])
        BY <2>1, <3>3, <4>1
      <4> QED BY <3>3, <4>2, <4>3
    <3> QED BY <3>1, <3>2, <3>3
  <2>3. Upto(g, m)
    <3>1. g = [k \in 0 .. m |-> g[k]]
      OBVIOUS
    <3> HIDE DEF g
    <3> QED BY <2>2, <3>1
  <2> HIDE DEF Upto
  <2> QED BY <2>3
<1>3. l \in Good
  <2> HIDE DEF Good
  <2>1. \A m \in 0 .. l : m \in Good
    BY <1>0, <1>1, <1>2, Counting
  <2> QED BY <1>0, <2>1
<1> DEFINE after == CHOOSE f : Upto(f, l)
<1>4. Upto(after, l)
  <2>1. \E f : Upto(f, l)
    BY <1>3
  <2> QED BY <2>1
<1>5. Run(rel, s) = after[l]
  BY DEF Run
<1> HIDE DEF after
<1>6. Trace(after, rel, s)
  BY <1>4 DEF Trace
<1> QED
  BY <1>5, <1>6

\* There is only one.
LEMMA RunOf ==
  ASSUME NEW rel, NEW T, NEW s \in Seq(T), NEW f, Trace(f, rel, s)
  PROVE  Run(rel, s) = f[Len(s)]
<1>1. PICK g : Trace(g, rel, s) /\ Run(rel, s) = g[Len(s)]
  BY RunTrace
<1> DEFINE Good == {k \in 0 .. Len(s) : f[k] = g[k]}
<1>2. 0 \in Good /\ Len(s) \in Nat
  BY <1>1 DEF Trace
<1>3. ASSUME NEW k \in 1 .. Len(s), k - 1 \in Good PROVE k \in Good
  <2>1. k \in 0 .. Len(s) /\ f[k - 1] = g[k - 1]
    BY <1>2, <1>3
  <2>2. f[k] = Step(f[k - 1], s[k]) /\ g[k] = Step(g[k - 1], s[k])
    BY <1>1 DEF Trace
  <2> QED BY <2>1, <2>2
<1>4. Len(s) \in Good
  <2> HIDE DEF Good
  <2>1. \A k \in 0 .. Len(s) : k \in Good
    BY <1>2, <1>3, Counting
  <2> QED BY <1>2, <2>1
<1> QED
  BY <1>1, <1>4

-----------------------------------------------------------------------------
(* Relations.                                                               *)

\* A sequence of something.
Own(s) == s \in Seq(ToSet(s))

IsRel(rel) == rel = [names |-> rel.names, rows |-> rel.rows]

Known(step) ==
  /\ step.op \in {"filter", "project", "aggregate", "closure"}
  /\ step.op = "filter" => step = Filter(step.pred)
  /\ step.op = "project" => Own(step.columns)

\* A filter keeps the names and drops rows.
LEMMA WhereIs ==
  ASSUME NEW rel, IsRel(rel), NEW pred
  PROVE  Where(rel, pred) = [names |-> rel.names,
                             rows |-> {row \in rel.rows : Passes(rel.names, row, pred)}]
  BY DEF IsRel, Where

\* An operator makes a relation of a relation.
LEMMA StepIsRel ==
  ASSUME NEW rel, IsRel(rel), NEW step, Known(step)
  PROVE  IsRel(Step(rel, step))
<1> DEFINE seen == Seen(rel, Reads(step))
<1> HIDE DEF seen
<1>1. CASE step.op = "filter"
  <2>1. Step(rel, step) = Where(rel, step.pred)
    BY <1>1 DEF Step
  <2>2. IsRel([names |-> rel.names, rows |-> {row \in rel.rows : Passes(rel.names, row, step.pred)}])
    BY DEF IsRel
  <2> QED BY <2>1, <2>2, WhereIs
<1>2. CASE step.op = "project"
  <2>1. Step(rel, step) = Only(seen, step.columns)
    BY <1>2 DEF Step, seen
  <2>2. IsRel(Only(seen, step.columns))
    BY DEF IsRel, Only
  <2> QED BY <2>1, <2>2
<1>3. CASE step.op = "aggregate"
  <2>1. Step(rel, step) = AggregateRel(seen, step.by, step.aggs)
    BY <1>3 DEF Step, seen
  <2>2. IsRel(AggregateRel(seen, step.by, step.aggs))
    BY DEF IsRel, AggregateRel
  <2> QED BY <2>1, <2>2
<1>4. CASE step.op = "closure"
  <2>1. Step(rel, step) = ClosureRel(seen, step.from, step.to)
    BY <1>4 DEF Step, seen
  <2>2. IsRel(ClosureRel(seen, step.from, step.to))
    BY DEF IsRel, ClosureRel
  <2> QED BY <2>1, <2>2
<1> QED
  BY <1>1, <1>2, <1>3, <1>4 DEF Known

LeafOps == {"scan", "joinfilter", "groupdistinct"}

\* So does a source that is no join.
LEMMA LeafIsRel ==
  ASSUME NEW from, from.op \in LeafOps, NEW db
  PROVE  IsRel(Leaf(from, db))
<1>1. CASE from.op = "scan"
  BY <1>1 DEF Leaf, ScanRel, IsRel
<1>2. CASE from.op = "joinfilter"
  <2> DEFINE l == ScanRel(db, from.left)
             r == ScanRel(db, from.right)
  <2> HIDE DEF l, r
  <2>1. Leaf(from, db) = JoinFilterRel(l, r, from.on, from.where)
    BY <1>2 DEF Leaf, l, r
  <2> QED BY <2>1 DEF JoinFilterRel, IsRel
<1>3. CASE from.op = "groupdistinct"
  BY <1>3 DEF Leaf, GroupDistinctRel, IsRel
<1> QED
  BY <1>1, <1>2, <1>3 DEF LeafOps

-----------------------------------------------------------------------------
(* Projections.  What View shows of a relation is a row for each of its     *)
(* rows; the columns it leaves out are Null to whoever reads them after it. *)

View(rel, columns) == Only(Seen(rel, ToSet(columns)), columns)

Shown(rel, columns, row) ==
  [id |-> row.id, cells |-> [p \in DOMAIN columns |-> Cell(rel.names, row.cells, columns[p])]]

\* A projection is a view.
LEMMA ProjectIsView ==
  ASSUME NEW rel, NEW step, step.op = "project"
  PROVE  Step(rel, step) = View(rel, step.columns)
  BY DEF Step, View, Reads

\* A view, row by row.
LEMMA ViewIs ==
  ASSUME NEW rel, NEW columns
  PROVE  View(rel, columns) = [names |-> columns, rows |-> {Shown(rel, columns, row) : row \in rel.rows}]
<1> DEFINE At(row) == [id |-> row.id, of |-> [c \in ToSet(columns) |-> Cell(rel.names, row.cells, c)]]
           Line(x) == [id |-> x.id, cells |-> [p \in DOMAIN columns |-> x.of[columns[p]]]]
<1>1. ASSUME NEW row PROVE Line(At(row)) = Shown(rel, columns, row)
  <2>1. \A p \in DOMAIN columns : columns[p] \in ToSet(columns)
    BY DEF ToSet
  <2> QED BY <2>1 DEF Shown
<1>2. Seen(rel, ToSet(columns)) = {At(row) : row \in rel.rows}
  BY DEF Seen
<1>3. View(rel, columns) = [names |-> columns, rows |-> {Line(x) : x \in Seen(rel, ToSet(columns))}]
  BY DEF View, Only
<1> HIDE DEF At, Line
<1>4. {Line(x) : x \in {At(row) : row \in rel.rows}} = {Shown(rel, columns, row) : row \in rel.rows}
  BY <1>1
<1> QED
  BY <1>2, <1>3, <1>4

\* A column that is there has a first place.
LEMMA FirstPos ==
  ASSUME NEW T, NEW names \in Seq(T), NEW c
  PROVE  /\ \A i \in Pos(names, c) : i \in DOMAIN names /\ names[i] = c
         /\ Pos(names, c) # {} <=> c \in ToSet(names)
<1>1. \A i \in Pos(names, c) : i \in DOMAIN names /\ names[i] = c
  BY DEF Pos
<1>2. ASSUME c \in ToSet(names) PROVE Pos(names, c) # {}
  <2> DEFINE N == {i \in DOMAIN names : names[i] = c}
  <2>1. N \in SUBSET Nat /\ N # {}
    BY <1>2 DEF ToSet
  <2>2. PICK i \in N : \A j \in N : i <= j
    <3> HIDE DEF N
    <3> QED BY <2>1, Least
  <2>3. \A j \in 1 .. i - 1 : names[j] # c
    BY <2>2
  <2> QED BY <2>2, <2>3 DEF Pos
<1>3. ASSUME Pos(names, c) # {} PROVE c \in ToSet(names)
  BY <1>1, <1>3 DEF ToSet
<1> QED
  BY <1>1, <1>2, <1>3

\* The value of a column, by the column.
LEMMA CellOf ==
  ASSUME NEW T, NEW names \in Seq(T), NEW cells, NEW c, NEW v,
         \A p \in DOMAIN names : names[p] = c => cells[p] = v
  PROVE  Cell(names, cells, c) = IF c \in ToSet(names) THEN v ELSE Null
<1>1. CASE c \notin ToSet(names)
  BY <1>1, FirstPos DEF Cell
<1>2. CASE c \in ToSet(names)
  <2>1. Pos(names, c) # {}
    BY <1>2, FirstPos
  <2> DEFINE i == CHOOSE j \in Pos(names, c) : TRUE
  <2>2. i \in Pos(names, c)
    BY <2>1
  <2>3. Cell(names, cells, c) = cells[i]
    BY <2>1 DEF Cell
  <2> HIDE DEF i
  <2> QED BY <1>2, <2>2, <2>3, FirstPos
<1> QED
  BY <1>1, <1>2

\* What a view shows under a name.
LEMMA CellShown ==
  ASSUME NEW rel, NEW columns, Own(columns), NEW row, NEW c
  PROVE  Cell(columns, Shown(rel, columns, row).cells, c) =
           IF c \in ToSet(columns) THEN Cell(rel.names, row.cells, c) ELSE Null
<1> DEFINE cells == Shown(rel, columns, row).cells
           v == Cell(rel.names, row.cells, c)
<1>1. \A p \in DOMAIN columns : columns[p] = c => cells[p] = v
  BY DEF Shown
<1> HIDE DEF cells, v
<1>2. Cell(columns, cells, c) = IF c \in ToSet(columns) THEN v ELSE Null
  BY <1>1, CellOf DEF Own
<1> QED
  BY <1>2 DEF cells, v

\* A relation without a column, or a view that keeps it.
Keeps(columns, c, names) == c \in ToSet(columns) \/ Pos(names, c) = {}

\* A view shows what it keeps.
LEMMA CellKept ==
  ASSUME NEW rel, NEW columns, Own(columns), NEW row, NEW c, Keeps(columns, c, rel.names)
  PROVE  Cell(columns, Shown(rel, columns, row).cells, c) = Cell(rel.names, row.cells, c)
<1>1. CASE c \in ToSet(columns)
  BY <1>1, CellShown
<1>2. CASE Pos(rel.names, c) = {} /\ c \notin ToSet(columns)
  <2>1. Cell(rel.names, row.cells, c) = Null
    BY <1>2 DEF Cell
  <2> QED BY <1>2, <2>1, CellShown
<1> QED
  BY <1>1, <1>2 DEF Keeps

\* A filter may go below a projection that keeps its column.
LEMMA FilterView ==
  ASSUME NEW rel, IsRel(rel), NEW columns, Own(columns),
         NEW pred, Keeps(columns, pred.column, rel.names)
  PROVE  Where(View(rel, columns), pred) = View(Where(rel, pred), columns)
<1> DEFINE Good(names, row) == Passes(names, row, pred)
           w == Where(rel, pred)
           All == {Shown(rel, columns, row) : row \in rel.rows}
           view == [names |-> columns, rows |-> All]
<1>1. View(rel, columns) = view
  BY ViewIs
<1>2. Where(view, pred) = [names |-> columns, rows |-> {row \in All : Good(columns, row)}]
  <2>1. IsRel(view) /\ view.names = columns /\ view.rows = All
    BY DEF IsRel
  <2> HIDE DEF view, All
  <2>2. Where(view, pred) = [names |-> view.names, rows |-> {row \in view.rows : Passes(view.names, row, pred)}]
    BY <2>1, WhereIs, Zenon
  <2> QED BY <2>1, <2>2
<1>3. w = [names |-> rel.names, rows |-> {row \in rel.rows : Good(rel.names, row)}]
  BY WhereIs, Zenon
<1>4. View(w, columns) = [names |-> columns, rows |-> {Shown(w, columns, row) : row \in w.rows}]
  BY ViewIs
<1>5. \A row : Shown(w, columns, row) = Shown(rel, columns, row)
  BY <1>3 DEF Shown
<1>6. ASSUME NEW row PROVE Good(columns, Shown(rel, columns, row)) <=> Good(rel.names, row)
  <2>1. Cell(columns, Shown(rel, columns, row).cells, pred.column) = Cell(rel.names, row.cells, pred.column)
    BY CellKept
  <2> QED BY <2>1 DEF Passes
<1> HIDE DEF Good
<1>7. w.rows = {row \in rel.rows : Good(rel.names, row)}
  BY <1>3
<1> HIDE DEF w
<1>8. {row \in All : Good(columns, row)} = {Shown(w, columns, row) : row \in w.rows}
  BY <1>5, <1>6, <1>7
<1> QED
  BY <1>1, <1>2, <1>4, <1>8 DEF w

\* What is read of a view is what is read of the relation.
LEMMA SeenView ==
  ASSUME NEW rel, NEW columns, Own(columns), NEW C, \A c \in C : Keeps(columns, c, rel.names)
  PROVE  Seen(View(rel, columns), C) = Seen(rel, C)
<1> DEFINE At(names, row) == [id |-> row.id, of |-> [c \in C |-> Cell(names, row.cells, c)]]
           view == View(rel, columns)
<1>1. view.names = columns /\ view.rows = {Shown(rel, columns, row) : row \in rel.rows}
  BY ViewIs
<1> HIDE DEF view
<1>2. ASSUME NEW row PROVE At(columns, Shown(rel, columns, row)) = At(rel.names, row)
  <2>1. Shown(rel, columns, row).id = row.id
    BY DEF Shown
  <2>2. \A c \in C : Cell(columns, Shown(rel, columns, row).cells, c) = Cell(rel.names, row.cells, c)
    BY CellKept
  <2>3. [c \in C |-> Cell(columns, Shown(rel, columns, row).cells, c)] = [c \in C |-> Cell(rel.names, row.cells, c)]
    BY <2>2
  <2> QED BY <2>1, <2>3
<1>3. Seen(rel, C) = {At(rel.names, row) : row \in rel.rows}
  BY DEF Seen
<1>4. Seen(view, C) = {At(view.names, row) : row \in view.rows}
  BY DEF Seen
<1> HIDE DEF At
<1> QED
  BY <1>1, <1>2, <1>3, <1>4 DEF view

\* A view of a view is a view.
LEMMA ViewView ==
  ASSUME NEW rel, NEW columns, Own(columns), NEW fewer,
         \A c \in ToSet(fewer) : Keeps(columns, c, rel.names)
  PROVE  View(View(rel, columns), fewer) = View(rel, fewer)
  BY SeenView DEF View

-----------------------------------------------------------------------------
(* Chains of operators.                                                     *)

Steps(s) == Own(s) /\ \A i \in 1 .. Len(s) : Known(s[i])

\* A trace is of relations.
LEMMA TraceIsRel ==
  ASSUME NEW rel, IsRel(rel), NEW s, Steps(s), NEW f, Trace(f, rel, s)
  PROVE  \A k \in 0 .. Len(s) : IsRel(f[k])
<1> DEFINE Good == {k \in 0 .. Len(s) : IsRel(f[k])}
<1>1. 0 \in Good /\ Len(s) \in Nat
  BY DEF Trace, Steps, Own
<1>2. ASSUME NEW k \in 1 .. Len(s), k - 1 \in Good PROVE k \in Good
  <2>1. k \in 0 .. Len(s) /\ IsRel(f[k - 1]) /\ Known(s[k])
    BY <1>2 DEF Steps
  <2>2. f[k] = Step(f[k - 1], s[k])
    BY DEF Trace
  <2>3. IsRel(f[k])
    BY <2>1, <2>2, StepIsRel
  <2> QED BY <2>1, <2>3
<1>3. \A k \in 0 .. Len(s) : k \in Good
  <2> HIDE DEF Good
  <2> QED BY <1>1, <1>2, Counting
<1> QED
  BY <1>3

\* The end of a chain is a relation.
LEMMA RunIsRel ==
  ASSUME NEW rel, IsRel(rel), NEW s, Steps(s)
  PROVE  IsRel(Run(rel, s))
<1>1. s \in Seq(ToSet(s)) /\ Len(s) \in 0 .. Len(s)
  BY DEF Steps, Own
<1>2. PICK f : Trace(f, rel, s) /\ Run(rel, s) = f[Len(s)]
  BY <1>1, RunTrace
<1> QED
  BY <1>1, <1>2, TraceIsRel

\* An empty chain changes nothing.
LEMMA RunNothing ==
  ASSUME NEW rel
  PROVE  Run(rel, <<>>) = rel
<1> DEFINE s == <<>>
           f == [k \in 0 .. Len(s) |-> rel]
<1>1. s \in Seq({}) /\ Len(s) = 0
  OBVIOUS
<1> HIDE DEF s
<1>2. Trace(f, rel, s)
  BY <1>1 DEF Trace
<1>3. f[Len(s)] = rel
  BY <1>1
<1> HIDE DEF f
<1>4. Run(rel, s) = f[Len(s)]
  BY <1>1, <1>2, RunOf
<1> QED
  BY <1>3, <1>4 DEF s

\* Append, by its elements.
LEMMA AppendIs ==
  ASSUME NEW s, Own(s), NEW x
  PROVE  /\ Own(Append(s, x)) /\ Len(Append(s, x)) = Len(s) + 1
         /\ \A i \in 1 .. Len(s) : Append(s, x)[i] = s[i]
         /\ Append(s, x)[Len(s) + 1] = x
<1> DEFINE T == ToSet(s) \union {x}
<1>1. s \in Seq(ToSet(s))
  BY DEF Own
<1>2. s \in Seq(T) /\ x \in T
  <2>1. Len(s) \in Nat /\ s \in [1 .. Len(s) -> ToSet(s)]
    BY <1>1
  <2>2. s \in [1 .. Len(s) -> T]
    BY <2>1
  <2> QED BY <2>1, <2>2
<1> HIDE DEF T
<1>3. Append(s, x) \in Seq(T)
  BY <1>2
<1>4. Own(Append(s, x))
  BY <1>3, SeqOwn DEF Own
<1> QED
  BY <1>2, <1>4

\* A longer chain runs the shorter one first.
LEMMA RunAppend ==
  ASSUME NEW rel, NEW s, Own(s), NEW x
  PROVE  Run(rel, Append(s, x)) = Step(Run(rel, s), x)
<1> DEFINE t == Append(s, x)
           l == Len(s)
<1>1. /\ s \in Seq(ToSet(s)) /\ t \in Seq(ToSet(t)) /\ l \in Nat /\ Len(t) = l + 1
      /\ \A i \in 1 .. l : t[i] = s[i]
      /\ t[l + 1] = x
  BY AppendIs DEF Own
<1> HIDE DEF t
<1>2. PICK f : Trace(f, rel, s) /\ Run(rel, s) = f[l]
  BY <1>1, RunTrace
<1> DEFINE g == [k \in 0 .. Len(t) |-> IF k = l + 1 THEN Step(f[l], x) ELSE f[k]]
<1>3. Trace(g, rel, t)
  <2>1. g = [k \in 0 .. Len(t) |-> g[k]]
    OBVIOUS
  <2>2. g[0] = rel
    BY <1>1, <1>2 DEF Trace
  <2>3. ASSUME NEW k \in 1 .. l + 1 PROVE g[k] = Step(g[k - 1], t[k])
    <3>1. CASE k = l + 1
      <4>1. g[k] = Step(f[l], x) /\ g[k - 1] = f[l]
        BY <1>1, <3>1
      <4> QED BY <1>1, <3>1, <4>1
    <3>2. CASE k # l + 1
      <4>1. k \in 1 .. l /\ k - 1 # l + 1 /\ k - 1 \in 0 .. Len(t)
        BY <1>1, <3>2
      <4>2. g[k] = f[k] /\ g[k - 1] = f[k - 1] /\ t[k] = s[k]
        BY <1>1, <3>2, <4>1
      <4>3. f[k] = Step(f[k - 1], s[k])
        BY <1>2, <4>1 DEF Trace
      <4> QED BY <4>2, <4>3
    <3> QED BY <3>1, <3>2
  <2> HIDE DEF g
  <2> QED BY <1>1, <2>1, <2>2, <2>3 DEF Trace
<1>4. g[Len(t)] = Step(f[l], x)
  BY <1>1
<1> HIDE DEF g
<1>5. Run(rel, t) = g[Len(t)]
  BY <1>1, <1>3, RunOf
<1> QED
  BY <1>2, <1>4, <1>5 DEF t

-----------------------------------------------------------------------------
(* Pushing a filter down.                                                   *)

\* Max is the largest number of a set that is bounded.
LEMMA MaxIn ==
  ASSUME NEW n \in Nat, NEW S \in SUBSET (0 .. n), S # {}
  PROVE  Max(S) \in S /\ \A x \in S : x <= Max(S)
<1> DEFINE N == {m \in Nat : \A x \in S : x <= m}
<1>1. n \in N
  OBVIOUS
<1>2. PICK m \in N : \A k \in N : m <= k
  <2>1. N \in SUBSET Nat /\ N # {}
    BY <1>1
  <2> HIDE DEF N
  <2> QED BY <2>1, Least
<1>3. m \in S
  <2> SUFFICES ASSUME m \notin S PROVE FALSE
    OBVIOUS
  <2>1. \A x \in S : x <= m - 1 /\ x \in Nat
    BY <1>2
  <2>2. PICK x \in S : TRUE
    OBVIOUS
  <2>3. x \in Nat /\ x <= m - 1
    BY <2>1
  <2>4. m - 1 \in Nat /\ ~(m <= m - 1)
    BY <2>3
  <2>5. m - 1 \in N
    BY <2>1, <2>4
  <2> HIDE DEF N
  <2> QED BY <1>2, <2>4, <2>5
<1>4. \A x \in S : m >= x
  BY <1>2
<1>5. Max(S) \in S /\ \A x \in S : Max(S) >= x
  BY <1>3, <1>4, Zenon DEF Max
<1> QED
  BY <1>5

\* What stands above the place of a filter are projections that keep its column.
LEMMA UnderIs ==
  ASSUME NEW s, Own(s), NEW c
  PROVE  /\ Under(s, c) \in 0 .. Len(s)
         /\ \A i \in Under(s, c) + 1 .. Len(s) : s[i].op = "project" /\ c \in ToSet(s[i].columns)
<1> DEFINE Stops == {i \in DOMAIN s : ~(s[i].op = "project" /\ c \in ToSet(s[i].columns))}
           S == {0} \union Stops
<1>1. Len(s) \in Nat /\ DOMAIN s = 1 .. Len(s)
  BY DEF Own
<1>2. S \in SUBSET (0 .. Len(s)) /\ S # {}
  BY <1>1
<1>3. Under(s, c) = Max(S)
  BY DEF Under
<1>4. Max(S) \in S /\ \A x \in S : x <= Max(S)
  <2> HIDE DEF S
  <2> QED BY <1>1, <1>2, MaxIn
<1>5. Max(S) \in 0 .. Len(s)
  <2> HIDE DEF S
  <2> QED BY <1>2, <1>4
<1>6. ASSUME NEW i \in Max(S) + 1 .. Len(s) PROVE i \notin Stops
  <2> DEFINE u == Max(S)
  <2>1. \A x \in Stops : x <= u
    BY <1>4
  <2>2. i \in u + 1 .. Len(s) /\ u \in Nat
    BY <1>1, <1>5
  <2> HIDE DEF u, S, Stops
  <2> QED BY <1>1, <2>1, <2>2
<1> QED
  <2> HIDE DEF S
  <2>1. ASSUME NEW i \in Max(S) + 1 .. Len(s) PROVE s[i].op = "project" /\ c \in ToSet(s[i].columns)
    <3>1. i \in DOMAIN s
      BY <1>1, <1>5
    <3> QED BY <1>6, <3>1
  <2> QED BY <1>3, <1>5, <2>1

\* InsertAt, by its elements.
LEMMA InsertIs ==
  ASSUME NEW s, Own(s), NEW u \in 0 .. Len(s), NEW x
  PROVE  /\ Own(InsertAt(s, u + 1, x)) /\ Len(InsertAt(s, u + 1, x)) = Len(s) + 1
         /\ \A i \in 1 .. u : InsertAt(s, u + 1, x)[i] = s[i]
         /\ InsertAt(s, u + 1, x)[u + 1] = x
         /\ \A i \in u + 2 .. Len(s) + 1 : InsertAt(s, u + 1, x)[i] = s[i - 1]
<1> DEFINE T == ToSet(s) \union {x}
           l == Len(s)
           below == SubSeq(s, 1, u)
           above == SubSeq(s, u + 1, l)
<1>1. s \in Seq(ToSet(s)) /\ l \in Nat
  BY DEF Own
<1>2. s \in Seq(T) /\ <<x>> \in Seq(T)
  <2>1. s \in [1 .. l -> T]
    BY <1>1
  <2> QED BY <1>1, <2>1
<1> HIDE DEF T
<1>3. below \in Seq(T) /\ Len(below) = u /\ \A i \in 1 .. u : below[i] = s[i]
  BY <1>1, <1>2
<1>4. above \in Seq(T) /\ Len(above) = l - u /\ \A i \in 1 .. l - u : above[i] = s[u + i]
  BY <1>1, <1>2
<1>5. InsertAt(s, u + 1, x) = below \o <<x>> \o above
  <2> DEFINE i == u + 1
  <2>1. i - 1 = u
    BY <1>1
  <2> HIDE DEF i
  <2>2. InsertAt(s, i, x) = SubSeq(s, 1, i - 1) \o <<x>> \o SubSeq(s, i, l)
    BY DEF InsertAt
  <2>3. InsertAt(s, i, x) = SubSeq(s, 1, u) \o <<x>> \o SubSeq(s, i, l)
    BY <2>1, <2>2
  <2> QED BY <2>3 DEF i
<1> HIDE DEF below, above
<1> DEFINE low == below \o <<x>>
           t == low \o above
<1>6. low \in Seq(T) /\ Len(low) = u + 1 /\ (\A i \in 1 .. u : low[i] = s[i]) /\ low[u + 1] = x
  BY <1>1, <1>2, <1>3
<1> HIDE DEF low
<1>7. t \in Seq(T) /\ Len(t) = l + 1 /\ (\A i \in 1 .. u + 1 : t[i] = low[i])
      /\ \A i \in u + 2 .. l + 1 : t[i] = above[i - (u + 1)]
  BY <1>1, <1>4, <1>6
<1>8. ASSUME NEW i \in u + 2 .. l + 1 PROVE t[i] = s[i - 1]
  <2>1. i - (u + 1) \in 1 .. l - u /\ u + (i - (u + 1)) = i - 1
    BY <1>1
  <2>2. t[i] = above[i - (u + 1)]
    BY <1>7
  <2> HIDE DEF t
  <2> QED BY <1>4, <2>1, <2>2
<1>9. Own(t)
  BY <1>7, SeqOwn DEF Own
<1>10. (\A i \in 1 .. u : t[i] = s[i]) /\ t[u + 1] = x
  <2> HIDE DEF t
  <2> QED BY <1>1, <1>6, <1>7
<1>11. InsertAt(s, u + 1, x) = t
  BY <1>5 DEF low
<1> HIDE DEF t
<1> QED
  BY <1>7, <1>8, <1>9, <1>10, <1>11

\* A filter put under projections that keep its column is a filter on top.
LEMMA InsertRun ==
  ASSUME NEW rel, IsRel(rel), NEW s, Steps(s), NEW pred
  PROVE  LET t == InsertAt(s, Under(s, pred.column) + 1, Filter(pred))
         IN  Steps(t) /\ Run(rel, t) = Where(Run(rel, s), pred)
<1> DEFINE u == Under(s, pred.column)
           x == Filter(pred)
           t == InsertAt(s, u + 1, x)
           l == Len(s)
<1>1. /\ s \in Seq(ToSet(s)) /\ l \in Nat
      /\ \A i \in 1 .. l : Known(s[i])
  BY DEF Steps, Own
<1>2. u \in 0 .. l /\ \A i \in u + 1 .. l : s[i].op = "project" /\ pred.column \in ToSet(s[i].columns)
  BY UnderIs DEF Steps
<1>3. Known(x) /\ \A r : Step(r, x) = Where(r, pred)
  BY DEF Known, Filter, Step
<1> HIDE DEF u, x
<1>4. /\ t \in Seq(ToSet(t)) /\ Len(t) = l + 1
      /\ \A i \in 1 .. u : t[i] = s[i]
      /\ t[u + 1] = x
      /\ \A i \in u + 2 .. l + 1 : t[i] = s[i - 1]
  BY <1>2, InsertIs DEF Steps, Own
<1> HIDE DEF t
<1>5. Steps(t)
  <2> SUFFICES ASSUME NEW i \in 1 .. l + 1 PROVE Known(t[i])
    BY <1>4 DEF Steps, Own
  <2>1. CASE i \in 1 .. u
    <3>1. i \in 1 .. l
      BY <1>2, <2>1
    <3> QED BY <1>1, <1>4, <2>1, <3>1
  <2>2. CASE i = u + 1
    BY <1>3, <1>4, <2>2
  <2>3. CASE i \in u + 2 .. l + 1
    <3>1. i - 1 \in 1 .. l
      BY <1>1, <1>2, <2>3
    <3> QED BY <1>1, <1>4, <2>3, <3>1
  <2> QED BY <1>1, <1>2, <2>1, <2>2, <2>3
<1>6. PICK f : Trace(f, rel, s) /\ Run(rel, s) = f[l]
  BY <1>1, RunTrace
<1>7. \A k \in 0 .. l : IsRel(f[k])
  BY <1>6, TraceIsRel
<1> DEFINE g == [k \in 0 .. l + 1 |-> IF k <= u THEN f[k] ELSE Where(f[k - 1], pred)]
<1>8. ASSUME NEW k \in 1 .. l + 1 PROVE g[k] = Step(g[k - 1], t[k])
  <2>1. CASE k <= u
    <3>1. k \in 1 .. l /\ k - 1 \in 0 .. l + 1 /\ k - 1 <= u /\ k \in 1 .. u
      BY <1>1, <1>2, <2>1
    <3>2. g[k] = f[k] /\ g[k - 1] = f[k - 1] /\ t[k] = s[k]
      BY <1>4, <2>1, <3>1
    <3>3. f[k] = Step(f[k - 1], s[k])
      BY <1>6, <3>1 DEF Trace
    <3> QED BY <3>2, <3>3
  <2>2. CASE k = u + 1
    <3>1. ~(k <= u) /\ k - 1 = u /\ u <= u /\ u \in 0 .. l + 1
      BY <1>1, <1>2, <2>2
    <3>2. g[k] = Where(f[u], pred) /\ g[k - 1] = f[u]
      BY <3>1
    <3> QED BY <1>3, <1>4, <2>2, <3>2
  <2>3. CASE k > u + 1
    <3>1. /\ k - 1 \in 1 .. l /\ k - 1 \in u + 1 .. l /\ k \in u + 2 .. l + 1 /\ k - 2 \in 0 .. l
          /\ ~(k <= u) /\ ~(k - 1 <= u) /\ k - 1 \in 0 .. l + 1 /\ (k - 1) - 1 = k - 2
      BY <1>1, <1>2, <2>3
    <3> DEFINE before == f[k - 2]
               columns == s[k - 1].columns
    <3>2. g[k] = Where(f[k - 1], pred) /\ g[k - 1] = Where(before, pred) /\ t[k] = s[k - 1]
      BY <1>4, <3>1
    <3>3. f[k - 1] = Step(before, s[k - 1])
      BY <1>6, <3>1 DEF Trace
    <3>4. s[k - 1].op = "project" /\ pred.column \in ToSet(columns) /\ Own(columns) /\ IsRel(before)
      BY <1>1, <1>2, <1>7, <3>1 DEF Known
    <3>5. Step(before, s[k - 1]) = View(before, columns)
          /\ Step(Where(before, pred), s[k - 1]) = View(Where(before, pred), columns)
      BY <3>4, ProjectIsView
    <3> HIDE DEF before, columns, g
    <3>6. Where(View(before, columns), pred) = View(Where(before, pred), columns)
      BY <3>4, FilterView DEF Keeps
    <3> QED BY <3>2, <3>3, <3>5, <3>6
  <2> QED BY <1>2, <2>1, <2>2, <2>3
<1>9. Trace(g, rel, t)
  <2>1. g = [k \in 0 .. l + 1 |-> g[k]]
    OBVIOUS
  <2>2. g[0] = rel
    BY <1>1, <1>2, <1>6 DEF Trace
  <2> HIDE DEF g
  <2> QED BY <1>4, <1>8, <2>1, <2>2 DEF Trace
<1>10. g[l + 1] = Where(f[l], pred)
  <2>1. l + 1 \in 0 .. l + 1 /\ ~(l + 1 <= u) /\ (l + 1) - 1 = l
    BY <1>1, <1>2
  <2> QED BY <2>1
<1> HIDE DEF g
<1>11. Run(rel, t) = g[Len(t)]
  BY <1>4, <1>9, RunOf
<1> QED
  BY <1>4, <1>5, <1>6, <1>10, <1>11 DEF t, u, x

\* Nothing reads a column, of some, that a projection below it has dropped.
Keeping(s, N) ==
  \A i \in 1 .. Len(s) : \A j \in i + 1 .. Len(s) :
    s[i].op = "project" /\ s[j].op \in {"filter", "project"} =>
      Reads(s[j]) \intersect N \subseteq ToSet(s[i].columns)

\* Putting a filter lower hides no column from it.
LEMMA InsertKeeps ==
  ASSUME NEW s, Own(s), NEW u \in 0 .. Len(s), NEW x, x.op = "filter", NEW N, Keeping(Append(s, x), N)
  PROVE  Keeping(InsertAt(s, u + 1, x), N)
<1> DEFINE t == InsertAt(s, u + 1, x)
           a == Append(s, x)
           l == Len(s)
           Fine(p, q) == p.op = "project" /\ q.op \in {"filter", "project"} =>
                           Reads(q) \intersect N \subseteq ToSet(p.columns)
<1>0. l \in Nat
  BY DEF Own
<1>1. /\ Len(a) = l + 1 /\ a[l + 1] = x /\ \A i \in 1 .. l : a[i] = s[i]
  BY AppendIs
<1>2. /\ Len(t) = l + 1
      /\ \A i \in 1 .. u : t[i] = s[i]
      /\ t[u + 1] = x
      /\ \A i \in u + 2 .. l + 1 : t[i] = s[i - 1]
  <2>1. /\ Own(InsertAt(s, u + 1, x)) /\ Len(InsertAt(s, u + 1, x)) = Len(s) + 1
        /\ \A i \in 1 .. u : InsertAt(s, u + 1, x)[i] = s[i]
        /\ InsertAt(s, u + 1, x)[u + 1] = x
        /\ \A i \in u + 2 .. Len(s) + 1 : InsertAt(s, u + 1, x)[i] = s[i - 1]
    <3> HIDE DEF t, a, l, Fine
    <3> QED BY InsertIs
  <2> QED BY <2>1
<1>3. \A i \in 1 .. l + 1 : \A j \in i + 1 .. l + 1 : Fine(a[i], a[j])
  BY <1>1 DEF Keeping
<1>4. \A q : Fine(x, q)
  OBVIOUS
<1> HIDE DEF t, a, Fine
<1>5. ASSUME NEW i \in 1 .. l + 1, NEW j \in i + 1 .. l + 1 PROVE Fine(t[i], t[j])
  <2>1. CASE j <= u
    <3>1. i \in 1 .. u /\ j \in 1 .. u /\ i \in 1 .. l /\ j \in 1 .. l
      BY <1>0, <2>1
    <3>2. t[i] = a[i] /\ t[j] = a[j]
      BY <1>1, <1>2, <3>1
    <3> QED BY <1>3, <3>2
  <2>2. CASE j = u + 1
    <3>1. i \in 1 .. u /\ i \in 1 .. l /\ l + 1 \in i + 1 .. l + 1
      BY <1>0, <2>2
    <3>2. t[i] = a[i] /\ t[j] = a[l + 1]
      BY <1>1, <1>2, <2>2, <3>1
    <3> QED BY <1>3, <3>1, <3>2
  <2>3. CASE j > u + 1
    <3>1. j \in u + 2 .. l + 1 /\ j - 1 \in 1 .. l
      BY <1>0, <2>3
    <3>2. t[j] = a[j - 1]
      BY <1>1, <1>2, <3>1
    <3>3. CASE i <= u
      <4>1. i \in 1 .. u /\ i \in 1 .. l /\ j - 1 \in i + 1 .. l + 1
        BY <1>0, <2>3, <3>3
      <4>2. t[i] = a[i]
        BY <1>1, <1>2, <4>1
      <4> QED BY <1>3, <3>2, <4>1, <4>2
    <3>4. CASE i = u + 1
      BY <1>2, <1>4, <3>4
    <3>5. CASE i > u + 1
      <4>1. i \in u + 2 .. l + 1 /\ i - 1 \in 1 .. l /\ i - 1 \in 1 .. l + 1 /\ j - 1 \in (i - 1) + 1 .. l + 1
        BY <1>0, <3>5
      <4>2. t[i] = a[i - 1]
        BY <1>1, <1>2, <4>1
      <4> QED BY <1>3, <3>2, <4>1, <4>2
    <3> QED BY <1>0, <3>3, <3>4, <3>5
  <2> QED BY <1>0, <2>1, <2>2, <2>3
<1> QED
  BY <1>2, <1>5 DEF Keeping, t, Fine

\* An operator put on a plan.
Put(p, step, db) ==
  IF step.op = "filter" THEN PushOne(p, step.pred, db) ELSE [p EXCEPT !.steps = Append(@, step)]

\* q is what becomes of the plan, operator by operator.
Pushes(q, from, s, db) ==
  /\ q[0] = Plan(from, <<>>)
  /\ \A k \in 1 .. Len(s) : q[k] = Put(q[k - 1], s[k], db)

\* PushOnto puts the steps on one by one.
LEMMA PushTrace ==
  ASSUME NEW from, NEW T, NEW s \in Seq(T), NEW db
  PROVE  \E q : Pushes(q, from, s, db) /\ PushOnto(from, s, db) = q[Len(s)]
<1> DEFINE Upto(q, n) == q = [k \in 0 .. n |->
                                IF k = 0 THEN Plan(from, <<>>)
                                ELSE IF s[k].op = "filter" THEN PushOne(q[k - 1], s[k].pred, db)
                                ELSE [q[k - 1] EXCEPT !.steps = Append(@, s[k])]]
           Good == {n \in 0 .. Len(s) : \E q : Upto(q, n)}
           l == Len(s)
<1>0. l \in Nat
  OBVIOUS
<1>1. ASSUME NEW q, NEW n \in 0 .. l
      PROVE  Upto(q, n) <=> q = [k \in 0 .. n |-> IF k = 0 THEN Plan(from, <<>>) ELSE Put(q[k - 1], s[k], db)]
  BY DEF Put
<1>2. 0 \in Good
  <2> DEFINE q == [k \in 0 .. 0 |-> Plan(from, <<>>)]
  <2>1. Upto(q, 0)
    OBVIOUS
  <2> HIDE DEF q, Upto
  <2> QED BY <1>0, <2>1
<1> HIDE DEF Upto
<1>3. ASSUME NEW m \in 1 .. l, m - 1 \in Good PROVE m \in Good
  <2>1. PICK q : Upto(q, m - 1)
    BY <1>3
  <2>2. q = [k \in 0 .. m - 1 |-> IF k = 0 THEN Plan(from, <<>>) ELSE Put(q[k - 1], s[k], db)]
    <3>1. m - 1 \in 0 .. l
      BY <1>0
    <3> QED BY <1>1, <2>1, <3>1
  <2> DEFINE g == [k \in 0 .. m |-> IF k = m THEN Put(q[m - 1], s[m], db) ELSE q[k]]
  <2>3. ASSUME NEW k \in 0 .. m
        PROVE  g[k] = IF k = 0 THEN Plan(from, <<>>) ELSE Put(g[k - 1], s[k], db)
    <3>1. CASE k = 0
      BY <2>2, <3>1
    <3>2. CASE k = m
      <4>1. g[m - 1] = q[m - 1] /\ m # 0
        OBVIOUS
      <4> QED BY <3>2, <4>1
    <3>3. CASE k # 0 /\ k # m
      <4>1. k \in 0 .. m - 1 /\ k - 1 \in 0 .. m /\ k - 1 # m
        BY <3>3
      <4>2. g[k] = q[k] /\ g[k - 1] = q[k - 1]
        BY <3>3, <4>1
      <4>3. q[k] = Put(q[k - 1], s[k], db)
        BY <2>2, <3>3, <4>1
      <4> QED BY <3>3, <4>2, <4>3
    <3> QED BY <3>1, <3>2, <3>3
  <2>4. g = [k \in 0 .. m |-> g[k]]
    OBVIOUS
  <2> HIDE DEF g
  <2>5. Upto(g, m)
    <3>1. m \in 0 .. l
      OBVIOUS
    <3>2. g = [k \in 0 .. m |-> IF k = 0 THEN Plan(from, <<>>) ELSE Put(g[k - 1], s[k], db)]
      BY <2>3, <2>4
    <3> QED BY <1>1, <3>1, <3>2
  <2> QED BY <2>5
<1>4. l \in Good
  <2> HIDE DEF Good
  <2>1. \A m \in 0 .. l : m \in Good
    BY <1>0, <1>2, <1>3, Counting
  <2> QED BY <1>0, <2>1
<1> DEFINE pushed == CHOOSE q : Upto(q, l)
<1>5. Upto(pushed, l)
  <2>1. \E q : Upto(q, l)
    BY <1>4
  <2> QED BY <2>1
<1>6. PushOnto(from, s, db) = pushed[l]
  BY DEF PushOnto, Upto
<1> HIDE DEF pushed
<1>7. Pushes(pushed, from, s, db)
  <2>1. pushed = [k \in 0 .. l |-> IF k = 0 THEN Plan(from, <<>>) ELSE Put(pushed[k - 1], s[k], db)]
    BY <1>0, <1>1, <1>5
  <2> QED BY <1>0, <2>1 DEF Pushes
<1> QED
  BY <1>6, <1>7

\* A plan has its source and its steps.
LEMMA PlanIs ==
  ASSUME NEW from, NEW s
  PROVE  Plan(from, s).from = from /\ Plan(from, s).steps = s
  BY DEF Plan

\* Over one source every filter ends as low as it may, and the chain makes of a
\* relation what it made of it.  All its operators come from the plan.
Pushed(t, s, k, rel, N) ==
  /\ Steps(t)
  /\ \A i \in 1 .. Len(t) : \E j \in 1 .. k : t[i] = s[j]
  /\ Keeping(s, N) => Keeping(t, N)

PushedSame(from, s, db, rel, N) ==
  \E t : /\ PushOnto(from, s, db) = Plan(from, t)
         /\ Pushed(t, s, Len(s), rel, N) /\ Run(rel, t) = Run(rel, s)

\* Pushing filters changes neither the rows nor what the projections keep.
LEMMA PushOntoRuns ==
  ASSUME NEW from, from.op # "join", NEW s, Steps(s), NEW db, NEW rel, IsRel(rel), NEW N
  PROVE  PushedSame(from, s, db, rel, N)
<1> DEFINE l == Len(s)
<1>1. /\ s \in Seq(ToSet(s)) /\ l \in Nat
      /\ \A i \in 1 .. l : Known(s[i])
  BY DEF Steps, Own
<1>2. PICK q : Pushes(q, from, s, db) /\ PushOnto(from, s, db) = q[l]
  BY <1>1, PushTrace
<1>3. PICK f : Trace(f, rel, s) /\ Run(rel, s) = f[l]
  BY <1>1, RunTrace
<1> DEFINE Fits(k, t) == q[k] = Plan(from, t) /\ Pushed(t, s, k, rel, N) /\ Run(rel, t) = f[k]
           Good == {k \in 0 .. l : \E t : Fits(k, t)}
<1>4. 0 \in Good
  <2> DEFINE t == <<>>
  <2>1. Own(t) /\ Len(t) = 0
    BY DEF Own, ToSet
  <2>2. Run(rel, t) = rel
    BY RunNothing
  <2>3. q[0] = Plan(from, t) /\ f[0] = rel
    BY <1>2, <1>3 DEF Pushes, Trace
  <2> HIDE DEF t
  <2>4. Pushed(t, s, 0, rel, N)
    BY <2>1 DEF Pushed, Steps, Keeping
  <2>5. Fits(0, t)
    BY <2>2, <2>3, <2>4
  <2> QED BY <1>1, <2>5
<1>5. ASSUME NEW k \in 1 .. l, k - 1 \in Good PROVE k \in Good
  <2>1. PICK t : Fits(k - 1, t)
    BY <1>5
  <2> DEFINE x == s[k]
             a == Append(t, x)
  <2>2. q[k] = Put(Plan(from, t), x, db) /\ f[k] = Step(Run(rel, t), x) /\ Known(x) /\ Own(t)
    BY <1>1, <1>2, <1>3, <2>1 DEF Pushes, Trace, Pushed, Steps
  <2>3. IsRel(Run(rel, t))
    BY <2>1, RunIsRel DEF Pushed
  <2>4. /\ Own(a) /\ Len(a) = Len(t) + 1 /\ Len(t) \in Nat
        /\ \A i \in 1 .. Len(t) : a[i] = t[i]
        /\ a[Len(t) + 1] = x
    BY <2>2, AppendIs DEF Own
  <2> HIDE DEF a
  <2>5. \A i \in 1 .. Len(a) : (\E j \in 1 .. k : a[i] = s[j]) /\ Known(a[i])
    <3> SUFFICES ASSUME NEW i \in 1 .. Len(a) PROVE (\E j \in 1 .. k : a[i] = s[j]) /\ Known(a[i])
      OBVIOUS
    <3>1. CASE i = Len(t) + 1
      BY <1>1, <2>2, <2>4, <3>1
    <3>2. CASE i \in 1 .. Len(t)
      <4>1. PICK j \in 1 .. k - 1 : t[i] = s[j]
        BY <2>1, <3>2 DEF Pushed
      <4>2. j \in 1 .. k /\ a[i] = s[j] /\ Known(t[i])
        BY <2>1, <2>4, <3>2, <4>1 DEF Pushed, Steps
      <4> QED BY <2>4, <3>2, <4>2
    <3> QED BY <2>4, <3>1, <3>2
  <2>6. ASSUME Keeping(s, N) PROVE Keeping(a, N)
    <3> DEFINE Fine(b, c) == b.op = "project" /\ c.op \in {"filter", "project"} =>
                               Reads(c) \intersect N \subseteq ToSet(b.columns)
    <3> SUFFICES ASSUME NEW i \in 1 .. Len(a), NEW j \in i + 1 .. Len(a) PROVE Fine(a[i], a[j])
      BY DEF Keeping
    <3>1. i \in 1 .. Len(t)
      BY <2>4
    <3>2. CASE j = Len(t) + 1
      <4>1. PICK h \in 1 .. k - 1 : t[i] = s[h]
        BY <2>1, <3>1 DEF Pushed
      <4>2. h \in 1 .. l /\ k \in h + 1 .. l
        BY <1>1, <4>1
      <4>3. Fine(s[h], s[k])
        BY <2>6, <4>2 DEF Keeping
      <4> HIDE DEF Fine
      <4> QED BY <2>4, <3>1, <3>2, <4>1, <4>3
    <3>3. CASE j \in 1 .. Len(t)
      <4>1. Keeping(t, N) /\ j \in i + 1 .. Len(t)
        BY <2>1, <2>6, <3>3 DEF Pushed
      <4>2. Fine(t[i], t[j])
        BY <3>1, <4>1 DEF Keeping
      <4> HIDE DEF Fine
      <4> QED BY <2>4, <3>1, <3>3, <4>2
    <3> QED BY <2>4, <3>2, <3>3
  <2>7. CASE x.op = "filter"
    <3> DEFINE pred == x.pred
               u == Under(t, pred.column)
               b == InsertAt(t, u + 1, x)
               p == Plan(from, t)
    <3>1. x = Filter(pred) /\ Steps(t) /\ u \in 0 .. Len(t)
      BY <2>1, <2>2, <2>7, UnderIs DEF Known, Pushed
    <3>2. q[k] = Plan(from, b)
      <4>1. p.from = from /\ p.steps = t
        BY PlanIs
      <4> HIDE DEF p
      <4>2. q[k] = PushOne(p, pred, db)
        BY <2>2, <2>7 DEF Put, p
      <4>3. PushOne(p, pred, db) = Insert(p, pred)
        BY <4>1 DEF PushOne
      <4>4. Insert(p, pred) = Plan(from, InsertAt(t, u + 1, Filter(pred)))
        BY <4>1 DEF Insert
      <4> QED BY <3>1, <4>2, <4>3, <4>4
    <3>3. Steps(b) /\ Run(rel, b) = f[k]
      <4>1. Steps(b) /\ Run(rel, b) = Where(Run(rel, t), pred)
        BY <3>1, InsertRun
      <4>2. Step(Run(rel, t), x) = Where(Run(rel, t), pred)
        BY <2>7 DEF Step
      <4> QED BY <2>2, <4>1, <4>2
    <3>4. /\ Len(b) = Len(t) + 1
          /\ \A i \in 1 .. u : b[i] = t[i]
          /\ b[u + 1] = x
          /\ \A i \in u + 2 .. Len(t) + 1 : b[i] = t[i - 1]
      <4> HIDE DEF u
      <4> QED BY <2>2, <3>1, InsertIs
    <3>5. ASSUME Keeping(s, N) PROVE Keeping(b, N)
      <4>1. Keeping(Append(t, x), N)
        BY <2>6, <3>5 DEF a
      <4> HIDE DEF u
      <4> QED BY <2>2, <2>7, <3>1, <4>1, InsertKeeps
    <3> HIDE DEF b, u
    <3>6. ASSUME NEW i \in 1 .. Len(b) PROVE \E j \in 1 .. k : b[i] = s[j]
      <4>1. CASE i = u + 1
        BY <1>1, <3>4, <4>1
      <4>2. CASE i # u + 1
        <5>1. PICK h \in 1 .. Len(t) : b[i] = t[h]
          <6>1. CASE i \in 1 .. u
            BY <2>4, <3>1, <3>4, <6>1
          <6>2. CASE i \in u + 2 .. Len(t) + 1
            <7>1. i - 1 \in 1 .. Len(t)
              BY <2>4, <3>1, <6>2
            <7> QED BY <3>4, <6>2, <7>1
          <6> QED BY <2>4, <3>1, <3>4, <4>2, <6>1, <6>2
        <5>2. PICK j \in 1 .. k - 1 : t[h] = s[j]
          BY <2>1 DEF Pushed
        <5>3. j \in 1 .. k
          BY <1>1
        <5> QED BY <5>1, <5>2, <5>3
      <4> QED BY <4>1, <4>2
    <3>7. Pushed(b, s, k, rel, N)
      BY <3>3, <3>5, <3>6 DEF Pushed
    <3>8. Fits(k, b)
      BY <3>2, <3>3, <3>7
    <3> QED BY <3>8
  <2>8. CASE x.op # "filter"
    <3>1. q[k] = Plan(from, a)
      BY <2>2, <2>8 DEF Put, Plan, a
    <3>2. Run(rel, a) = f[k]
      BY <2>2, RunAppend DEF a
    <3>3. Pushed(a, s, k, rel, N)
      BY <2>4, <2>5, <2>6 DEF Pushed, Steps
    <3>4. Fits(k, a)
      BY <3>1, <3>2, <3>3
    <3> QED BY <3>4
  <2> QED BY <2>7, <2>8
<1>6. l \in Good
  <2> HIDE DEF Good
  <2>1. \A k \in 0 .. l : k \in Good
    BY <1>1, <1>4, <1>5, Counting
  <2> QED BY <1>1, <2>1
<1> QED
  BY <1>2, <1>3, <1>6 DEF PushedSame

-----------------------------------------------------------------------------
(* Narrowing a scan.                                                        *)

\* SetToSeq lists a set.
LEMMA Listed ==
  ASSUME NEW S, IsFiniteSet(S)
  PROVE  Own(SetToSeq(S)) /\ ToSet(SetToSeq(S)) = S
<1> DEFINE n == Cardinality(S)
           Good(f) == f \in [1 .. n -> S] /\ IsInjective(f)
           list == CHOOSE f \in [1 .. n -> S] : IsInjective(f)
<1>1. n \in Nat /\ IsFiniteSet(1 .. n) /\ Cardinality(1 .. n) = n
  BY FS_CardinalityType, FS_Interval
<1>2. \E f : Good(f)
  <2>1. PICK f : f \in Bijection(1 .. n, S)
    BY FS_CardinalityType DEF ExistsBijection
  <2> QED BY <2>1 DEF Bijection, Injection
<1>3. Good(list)
  BY <1>2
<1>4. SetToSeq(S) = list
  BY DEF SetToSeq
<1> HIDE DEF list
<1>5. list \in Injection(1 .. n, S)
  BY <1>3 DEF Injection
<1>6. list \in Surjection(1 .. n, S)
  BY <1>1, <1>5, FS_Injection
<1>7. list \in Seq(S) /\ DOMAIN list = 1 .. n
  BY <1>1, <1>3
<1>8. ToSet(list) = S
  <2>1. ToSet(list) = {list[i] : i \in 1 .. n}
    BY <1>7 DEF ToSet
  <2>2. \A x \in S : \E i \in 1 .. n : list[i] = x
    BY <1>6 DEF Surjection
  <2>3. \A i \in 1 .. n : list[i] \in S
    BY <1>3
  <2> QED BY <2>1, <2>2, <2>3
<1> QED
  BY <1>4, <1>7, <1>8, SeqOwn DEF Own

\* Prepending, by its elements.
LEMMA PrependIs ==
  ASSUME NEW s, Own(s), NEW x
  PROVE  /\ Own(<<x>> \o s) /\ Len(<<x>> \o s) = Len(s) + 1
         /\ (<<x>> \o s)[1] = x
         /\ \A i \in 2 .. Len(s) + 1 : (<<x>> \o s)[i] = s[i - 1]
<1> DEFINE T == ToSet(s) \union {x}
           t == <<x>> \o s
<1>1. s \in Seq(ToSet(s))
  BY DEF Own
<1>2. s \in Seq(T) /\ <<x>> \in Seq(T) /\ Len(s) \in Nat
  <2>1. Len(s) \in Nat /\ s \in [1 .. Len(s) -> ToSet(s)]
    BY <1>1
  <2>2. s \in [1 .. Len(s) -> T]
    BY <2>1
  <2> QED BY <2>1, <2>2
<1> HIDE DEF T
<1>3. t \in Seq(T)
  BY <1>2
<1>4. Own(t)
  BY <1>3, SeqOwn DEF Own
<1>5. Len(t) = Len(s) + 1 /\ t[1] = x
  BY <1>2
<1>6. \A i \in 2 .. Len(s) + 1 : t[i] = s[i - 1]
  BY <1>2
<1> QED
  BY <1>4, <1>5, <1>6

\* The empty sequence changes no sequence.
LEMMA NothingBefore ==
  ASSUME NEW s, Own(s)
  PROVE  <<>> \o s = s
<1>1. s \in Seq(ToSet(s))
  BY DEF Own
<1> QED
  BY <1>1

\* What makes its own columns depends on what it reads, only.
LEMMA StepSeen ==
  ASSUME NEW a, NEW b, NEW step, Known(step), step.op # "filter", Seen(a, Reads(step)) = Seen(b, Reads(step))
  PROVE  Step(a, step) = Step(b, step)
<1>1. step.op \in {"project", "aggregate", "closure"}
  BY DEF Known
<1> QED
  BY <1>1 DEF Step

Makers(s) == {i \in DOMAIN s : s[i].op # "filter"}

\* m is the lowest operator that makes its own columns.
Lowest(m, s) == m \in Makers(s) /\ \A i \in Makers(s) : m <= i

\* The operators up to the lowest that narrows read needed columns only.
LEMMA NeededBelow ==
  ASSUME NEW s, Own(s), NEW m, Lowest(m, s)
  PROVE  /\ m \in 1 .. Len(s) /\ s[m].op # "filter"
         /\ \A i \in 1 .. m - 1 : s[i].op = "filter"
         /\ \A i \in 1 .. m : Reads(s[i]) \subseteq Needed(s)
<1>1. Len(s) \in Nat /\ DOMAIN s = 1 .. Len(s)
  BY DEF Own
<1>2. m \in 1 .. Len(s) /\ s[m].op # "filter"
  BY <1>1 DEF Lowest, Makers
<1>3. ASSUME NEW i \in 1 .. m - 1 PROVE s[i].op = "filter"
  <2>1. i \in DOMAIN s /\ ~(m <= i)
    BY <1>1, <1>2
  <2> QED BY <2>1 DEF Lowest, Makers
<1>4. ASSUME NEW i \in 1 .. m PROVE Reads(s[i]) \subseteq Needed(s)
  <2> DEFINE low == {j \in DOMAIN s : \A k \in Makers(s) : j <= k}
  <2>1. Needed(s) = UNION {Reads(s[j]) : j \in low}
    BY DEF Needed, Makers
  <2>2. i \in low
    <3>1. i \in DOMAIN s
      BY <1>1, <1>2
    <3>2. \A k \in Makers(s) : i <= k
      <4>1. \A k \in Makers(s) : k \in 1 .. Len(s) /\ m <= k
        BY <1>1 DEF Lowest, Makers
      <4> QED BY <1>1, <1>2, <4>1
    <3> QED BY <3>1, <3>2
  <2> HIDE DEF low
  <2> QED BY <2>1, <2>2
<1> QED
  BY <1>2, <1>3, <1>4

\* A projection to the needed columns of a relation may go below a chain.
LEMMA NarrowRun ==
  ASSUME NEW rel, IsRel(rel), Own(rel.names), NEW s, Steps(s), NEW m, Lowest(m, s),
         NEW columns, Own(columns), ToSet(columns) = ToSet(rel.names) \intersect Needed(s)
  PROVE  Run(rel, <<Project(columns)>> \o s) = Run(rel, s)
<1> DEFINE x == Project(columns)
           t == <<x>> \o s
           l == Len(s)
           names == rel.names
<1>1. /\ s \in Seq(ToSet(s)) /\ l \in Nat
      /\ \A i \in 1 .. l : Known(s[i])
  BY DEF Steps, Own
<1>2. \A r : Step(r, x) = View(r, columns)
  <2>1. x.op = "project" /\ x.columns = columns
    BY DEF Project
  <2> QED BY <2>1, ProjectIsView
<1> HIDE DEF x
<1>3. /\ t \in Seq(ToSet(t)) /\ Len(t) = l + 1 /\ t[1] = x
      /\ \A i \in 2 .. l + 1 : t[i] = s[i - 1]
  BY PrependIs DEF Steps, Own
<1> HIDE DEF t
<1>4. /\ m \in 1 .. l /\ s[m].op # "filter"
      /\ \A i \in 1 .. m - 1 : s[i].op = "filter"
      /\ \A i \in 1 .. m : Reads(s[i]) \subseteq Needed(s)
  BY NeededBelow DEF Steps
<1>5. PICK f : Trace(f, rel, s) /\ Run(rel, s) = f[l]
  BY <1>1, RunTrace
<1>6. \A k \in 0 .. l : IsRel(f[k])
  BY <1>5, TraceIsRel
<1>7. \A k \in 1 .. l : f[k] = Step(f[k - 1], s[k])
  BY <1>5 DEF Trace
<1>8. ASSUME NEW k \in 1 .. m - 1
      PROVE  /\ f[k] = Where(f[k - 1], s[k].pred)
             /\ s[k].pred.column \in Needed(s)
             /\ f[k].names = f[k - 1].names
  <2>1. k \in 1 .. l /\ k \in 1 .. m /\ k - 1 \in 0 .. l
    BY <1>1, <1>4
  <2>2. s[k].op = "filter"
    BY <1>4
  <2>3. f[k] = Where(f[k - 1], s[k].pred)
    BY <1>7, <2>1, <2>2 DEF Step
  <2>4. s[k].pred.column \in Reads(s[k])
    BY <2>2 DEF Reads
  <2>5. f[k].names = f[k - 1].names
    <3>1. IsRel(f[k - 1])
      BY <1>6, <2>1
    <3> QED BY <2>3, <3>1, WhereIs
  <2> QED BY <1>4, <2>1, <2>3, <2>4, <2>5
<1>9. ASSUME NEW k \in 0 .. m - 1 PROVE f[k].names = names
  <2> DEFINE Good == {j \in 0 .. m - 1 : f[j].names = names}
  <2>1. 0 \in Good
    BY <1>4, <1>5 DEF Trace
  <2>2. ASSUME NEW j \in 1 .. m - 1, j - 1 \in Good PROVE j \in Good
    BY <1>8, <2>2
  <2>3. \A j \in 0 .. m - 1 : j \in Good
    <3>1. m - 1 \in Nat
      BY <1>1, <1>4
    <3> HIDE DEF Good
    <3> QED BY <2>1, <2>2, <3>1, Counting
  <2> QED BY <2>3
<1>10. ASSUME NEW c \in Needed(s) PROVE Keeps(columns, c, names)
  <2>1. Pos(names, c) # {} => c \in ToSet(names)
    BY FirstPos DEF Own
  <2> QED BY <2>1 DEF Keeps
<1> DEFINE h == [k \in 0 .. l + 1 |-> IF k = 0 THEN rel ELSE IF k <= m THEN View(f[k - 1], columns) ELSE f[k - 1]]
<1>11. ASSUME NEW k \in 1 .. l + 1 PROVE h[k] = Step(h[k - 1], t[k])
  <2>1. CASE k = 1
    <3>1. h[1] = View(f[0], columns) /\ h[0] = rel /\ f[0] = rel
      BY <1>1, <1>4, <1>5 DEF Trace
    <3> QED BY <1>2, <1>3, <2>1, <3>1
  <2>2. CASE k > 1
    <3> DEFINE j == k - 1
               before == f[j - 1]
               step == s[j]
    <3>1. /\ j \in 1 .. l /\ k = j + 1 /\ j - 1 \in 0 .. l /\ k \in 2 .. l + 1 /\ k \in 0 .. l + 1 /\ j \in 0 .. l + 1
          /\ k # 0 /\ j # 0
      BY <1>1, <2>2
    <3>2. /\ h[k] = IF k <= m THEN View(f[j], columns) ELSE f[j]
          /\ h[j] = IF j <= m THEN View(before, columns) ELSE before
          /\ t[k] = step
      BY <1>3, <3>1
    <3>3. f[j] = Step(before, step) /\ IsRel(before) /\ Known(step)
      BY <1>1, <1>6, <1>7, <3>1
    <3> HIDE DEF h
    <3>4. CASE k <= m
      <4>1. j \in 1 .. m - 1 /\ j - 1 \in 0 .. m - 1 /\ j <= m
        BY <1>4, <3>1, <3>4
      <4>2. f[j] = Where(before, step.pred) /\ step.pred.column \in Needed(s) /\ before.names = names
            /\ step.op = "filter"
        BY <1>4, <1>8, <1>9, <4>1
      <4>3. Keeps(columns, step.pred.column, before.names)
        BY <1>10, <4>2
      <4>4. Step(View(before, columns), step) = Where(View(before, columns), step.pred)
        BY <4>2 DEF Step
      <4> HIDE DEF before, step, j
      <4>5. Where(View(before, columns), step.pred) = View(Where(before, step.pred), columns)
        BY <3>3, <4>3, FilterView
      <4> QED BY <3>2, <3>4, <4>1, <4>2, <4>4, <4>5 DEF j
    <3>5. CASE j = m
      <4>1. ~(k <= m) /\ j <= m /\ j - 1 \in 0 .. m - 1 /\ j \in 1 .. m
        BY <1>1, <1>4, <3>1, <3>5
      <4>2. before.names = names /\ step.op # "filter" /\ Reads(step) \subseteq Needed(s)
        BY <1>4, <1>9, <3>5, <4>1
      <4>3. \A c \in Reads(step) : Keeps(columns, c, before.names)
        BY <1>10, <4>2
      <4>4. h[k] = f[j] /\ h[j] = View(before, columns)
        BY <3>2, <4>1
      <4> HIDE DEF before, step, j
      <4>5. Seen(View(before, columns), Reads(step)) = Seen(before, Reads(step))
        BY <4>3, SeenView
      <4>6. Step(View(before, columns), step) = Step(before, step)
        BY <3>3, <4>2, <4>5, StepSeen
      <4> QED BY <3>2, <3>3, <4>4, <4>6 DEF j
    <3>6. CASE ~(k <= m) /\ j # m
      <4>1. ~(j <= m)
        BY <1>1, <1>4, <3>1, <3>6
      <4> QED BY <3>2, <3>3, <3>6, <4>1
    <3> QED BY <3>4, <3>5, <3>6
  <2> QED BY <2>1, <2>2
<1>12. Trace(h, rel, t)
  <2>1. h = [k \in 0 .. l + 1 |-> h[k]] /\ h[0] = rel
    BY <1>1
  <2> HIDE DEF h
  <2> QED BY <1>3, <1>11, <2>1 DEF Trace
<1>13. h[l + 1] = f[l]
  <2>1. l + 1 \in 0 .. l + 1 /\ l + 1 # 0 /\ ~(l + 1 <= m) /\ (l + 1) - 1 = l
    BY <1>1, <1>4
  <2> QED BY <2>1
<1> HIDE DEF h
<1>14. Run(rel, t) = h[Len(t)]
  BY <1>3, <1>12, RunOf
<1> QED
  BY <1>3, <1>5, <1>13, <1>14 DEF t, x

\* The columns of a kind.
Had(db, kind) == {a \in Attrs : \E i \in OfKind(db, kind) : db[i].attrs[a] # Null}

\* The columns of a kind.
LEMMA ColumnsAre ==
  ASSUME NEW db, NEW kind
  PROVE  /\ Own(Columns(db, kind))
         /\ ToSet(Columns(db, kind)) = IF OfKind(db, kind) = {} THEN {} ELSE {FactId, Subject} \union Had(db, kind)
<1> DEFINE A == Had(db, kind)
           s == SetToSeq(A)
           t == <<FactId, Subject>> \o s
<1>1. IsFiniteSet(A)
  BY AttrsAssumption, FS_Subset DEF Had
<1> HIDE DEF A
<1>2. Own(s) /\ ToSet(s) = A
  BY <1>1, Listed
<1> HIDE DEF s
<1>3. s \in Seq(A) /\ Len(s) \in Nat /\ A = {s[i] : i \in 1 .. Len(s)}
  BY <1>2 DEF Own, ToSet
<1> DEFINE All == {FactId, Subject} \union A
<1>4. t \in Seq(All) /\ ToSet(t) = All
  <2> DEFINE two == <<FactId, Subject>>
             l == Len(s)
  <2>1. two \in Seq(All) /\ Len(two) = 2 /\ two[1] = FactId /\ two[2] = Subject
    OBVIOUS
  <2>2. s \in Seq(All)
    <3>1. s \in [1 .. l -> All]
      BY <1>3
    <3> QED BY <1>3, <3>1
  <2> HIDE DEF All, two
  <2>3. two \o s \in Seq(All) /\ DOMAIN (two \o s) = 1 .. l + 2
        /\ (two \o s)[1] = FactId /\ (two \o s)[2] = Subject
        /\ \A i \in 1 .. l : i + 2 \in 1 .. l + 2 /\ (two \o s)[i + 2] = s[i]
    <3> DEFINE w == two \o s
    <3>1. /\ w \in Seq(All) /\ Len(w) = Len(two) + l
          /\ \A i \in 1 .. Len(two) : w[i] = two[i]
          /\ \A i \in 1 .. l : w[Len(two) + i] = s[i]
      <4>1. two \in Seq(All) /\ s \in Seq(All)
        BY <2>1, <2>2
      <4> QED BY <4>1
    <3> HIDE DEF w
    <3>2. l \in Nat /\ Len(w) = l + 2 /\ w[1] = FactId /\ w[2] = Subject
      BY <1>3, <2>1, <3>1
    <3>3. \A i \in 1 .. l : w[i + 2] = s[i]
      <4>1. \A i \in 1 .. l : Len(two) + i = i + 2
        BY <2>1
      <4> QED BY <3>1, <4>1
    <3>4. DOMAIN w = 1 .. l + 2 /\ \A i \in 1 .. l : i + 2 \in 1 .. l + 2
      BY <3>1, <3>2
    <3> QED BY <3>1, <3>2, <3>3, <3>4 DEF w
  <2>4. All \subseteq ToSet(two \o s)
    <3> SUFFICES ASSUME NEW x \in All PROVE x \in ToSet(two \o s)
      OBVIOUS
    <3>1. 1 \in 1 .. l + 2 /\ 2 \in 1 .. l + 2
      BY <1>3
    <3>2. CASE x \in {FactId, Subject}
      BY <2>3, <3>1, <3>2 DEF ToSet
    <3>3. CASE x \in A
      <4>1. PICK i \in 1 .. l : x = s[i]
        BY <1>3, <3>3
      <4> QED BY <2>3, <4>1 DEF ToSet
    <3> QED BY <3>2, <3>3 DEF All
  <2>5. ToSet(two \o s) \subseteq All
    <3> DEFINE w == two \o s
    <3>1. w \in Seq(All)
      BY <2>3
    <3> HIDE DEF w
    <3>2. ToSet(w) \subseteq All
      BY <3>1 DEF ToSet
    <3> QED BY <3>2 DEF w
  <2> QED BY <2>3, <2>4, <2>5 DEF two
<1>5. Own(t)
  <2> HIDE DEF t, All
  <2> QED BY <1>4, SeqOwn DEF Own
<1>6. CASE OfKind(db, kind) = {}
  <2>1. Columns(db, kind) = <<>>
    BY <1>6 DEF Columns
  <2> QED BY <1>6, <2>1 DEF Own, ToSet
<1>7. CASE OfKind(db, kind) # {}
  <2>1. Columns(db, kind) = t
    BY <1>7 DEF Columns, s, A, Had
  <2> HIDE DEF t
  <2> QED BY <1>4, <1>5, <1>7, <2>1 DEF A
<1> QED
  BY <1>6, <1>7

\* A chain that the row path may run, but for its end.
Plain(s) == \A i \in 1 .. Len(s) : s[i].op \in {"filter", "project"}

\* Pruning changes neither the rows nor what the projections keep.
LEMMA PruneRuns ==
  ASSUME NEW from, from.op \in LeafOps, NEW s, Steps(s), NEW db
  PROVE  \E t : /\ PruneColumns(Plan(from, s), db) = Plan(from, t)
                /\ Steps(t) /\ Run(Leaf(from, db), t) = Run(Leaf(from, db), s)
                /\ Plain(t) => Plain(s)
                /\ LET N == ToSet(Columns(db, from.kind))
                   IN  from.op = "scan" /\ Plain(s) /\ Keeping(s, N) => Keeping(t, N)
<1> DEFINE p == Plan(from, s)
           N == ToSet(Columns(db, from.kind))
           keep == N \intersect Needed(s)
           columns == SetToSeq(keep)
           Narrow == /\ from.op = "scan" /\ \E x \in ToSet(s) : x.op # "filter"
                     /\ keep # {} /\ keep # N
           rel == Leaf(from, db)
<1>1. p.from = from /\ p.steps = s
  BY PlanIs
<1>2. PruneColumns(p, db) = Plan(from, Narrowing(p, db) \o s)
  <2> HIDE DEF p
  <2> QED BY <1>1 DEF PruneColumns, LeafOps
<1>3. Narrowing(p, db) = IF Narrow THEN <<Project(columns)>> ELSE <<>>
  <2> HIDE DEF p
  <2> QED BY <1>1 DEF Narrowing
<1> HIDE DEF p
<1>4. CASE ~Narrow
  <2>1. PruneColumns(p, db) = Plan(from, s)
    BY <1>2, <1>3, <1>4, NothingBefore DEF Steps
  <2> QED BY <2>1 DEF p
<1>5. CASE Narrow
  <2> DEFINE x == Project(columns)
             t == <<x>> \o s
             l == Len(s)
  <2>1. PruneColumns(p, db) = Plan(from, t)
    BY <1>2, <1>3, <1>5
  <2>2. rel = ScanRel(db, from.kind) /\ rel.names = Columns(db, from.kind) /\ IsRel(rel)
    <3>1. rel = ScanRel(db, from.kind)
      BY <1>5 DEF Leaf
    <3>2. IsRel(rel)
      BY LeafIsRel
    <3> QED BY <3>1, <3>2 DEF ScanRel
  <2>3. Own(rel.names) /\ ToSet(rel.names) = N /\ IsFiniteSet(N)
    <3>1. Own(rel.names) /\ ToSet(rel.names) = N
      BY <2>2, ColumnsAre
    <3>2. IsFiniteSet(N)
      <4>1. IsFiniteSet(Had(db, from.kind))
        BY AttrsAssumption, FS_Subset DEF Had
      <4>2. IsFiniteSet({}) /\ IsFiniteSet({FactId, Subject})
        <5>1. IsFiniteSet({FactId})
          BY FS_Singleton
        <5>2. IsFiniteSet({FactId} \union {Subject})
          BY <5>1, FS_AddElement
        <5>3. {FactId} \union {Subject} = {FactId, Subject}
          OBVIOUS
        <5> QED BY <5>2, <5>3, FS_EmptySet
      <4>3. IsFiniteSet({FactId, Subject} \union Had(db, from.kind))
        BY <4>1, <4>2, FS_Union
      <4>4. N = {} \/ N = {FactId, Subject} \union Had(db, from.kind)
        BY ColumnsAre
      <4> HIDE DEF N
      <4> QED BY <4>2, <4>3, <4>4
    <3> QED BY <3>1, <3>2
  <2> HIDE DEF N, rel
  <2>4. Own(columns) /\ ToSet(columns) = keep
    <3>1. IsFiniteSet(keep)
      BY <2>3, FS_Subset
    <3> HIDE DEF keep
    <3> QED BY <3>1, Listed
  <2>5. s \in Seq(ToSet(s)) /\ l \in Nat /\ DOMAIN s = 1 .. l /\ \A i \in 1 .. l : Known(s[i])
    BY DEF Steps, Own
  <2>6. PICK m : Lowest(m, s)
    <3>1. Makers(s) \in SUBSET Nat /\ Makers(s) # {}
      BY <1>5, <2>5 DEF Makers, ToSet
    <3>2. \E m \in Makers(s) : \A i \in Makers(s) : m <= i
      <4> HIDE DEF rel
      <4> QED BY <3>1, Least
    <3> QED BY <3>2 DEF Lowest
  <2>7. /\ m \in 1 .. l /\ s[m].op # "filter"
        /\ \A i \in 1 .. m : Reads(s[i]) \subseteq Needed(s)
    BY <2>6, NeededBelow DEF Steps
  <2>8. Run(rel, t) = Run(rel, s)
    BY <2>2, <2>3, <2>4, <2>6, NarrowRun
  <2>9. x.op = "project" /\ x.columns = columns
    BY DEF Project
  <2> HIDE DEF x, columns
  <2>10. /\ Own(t) /\ Len(t) = l + 1 /\ t[1] = x
         /\ \A i \in 2 .. l + 1 : t[i] = s[i - 1]
    BY PrependIs DEF Steps
  <2> HIDE DEF t
  <2>11. Steps(t)
    <3> SUFFICES ASSUME NEW i \in 1 .. l + 1 PROVE Known(t[i])
      BY <2>10 DEF Steps
    <3>1. CASE i = 1
      BY <2>4, <2>9, <2>10, <3>1 DEF Known
    <3>2. CASE i # 1
      <4>1. i \in 2 .. l + 1 /\ i - 1 \in 1 .. l
        BY <2>5, <3>2
      <4> QED BY <2>5, <2>10, <4>1
    <3> QED BY <3>1, <3>2
  <2>12. ASSUME Plain(t) PROVE Plain(s)
    <3> SUFFICES ASSUME NEW i \in 1 .. l PROVE s[i].op \in {"filter", "project"}
      BY DEF Plain
    <3>1. i + 1 \in 2 .. l + 1 /\ i + 1 \in 1 .. l + 1 /\ (i + 1) - 1 = i
      BY <2>5
    <3> QED BY <2>10, <2>12, <3>1 DEF Plain
  <2>13. ASSUME Plain(s), Keeping(s, N) PROVE Keeping(t, N)
    <3> DEFINE Fine(a, b) == a.op = "project" /\ b.op \in {"filter", "project"} =>
                               Reads(b) \intersect N \subseteq ToSet(a.columns)
    <3>1. \A i \in 1 .. l : \A j \in i + 1 .. l : Fine(s[i], s[j])
      BY <2>13 DEF Keeping
    <3> SUFFICES ASSUME NEW i \in 1 .. l + 1, NEW j \in i + 1 .. l + 1 PROVE Fine(t[i], t[j])
      BY <2>10 DEF Keeping
    <3>2. j \in 2 .. l + 1 /\ j - 1 \in 1 .. l
      BY <2>5
    <3>3. t[j] = s[j - 1]
      BY <2>10, <3>2
    <3>4. CASE i # 1
      <4>1. i \in 2 .. l + 1 /\ i - 1 \in 1 .. l /\ j - 1 \in (i - 1) + 1 .. l
        BY <2>5, <3>4
      <4>2. t[i] = s[i - 1]
        BY <2>10, <4>1
      <4> HIDE DEF Fine
      <4> QED BY <3>1, <3>3, <4>1, <4>2
    <3>5. CASE i = 1
      <4>1. Reads(s[j - 1]) \intersect N \subseteq Needed(s)
        <5>1. CASE j - 1 <= m
          <6>1. j - 1 \in 1 .. m
            BY <2>5, <2>7, <3>2, <5>1
          <6> QED BY <2>7, <6>1
        <5>2. CASE j - 1 > m
          <6>1. j - 1 \in m + 1 .. l
            BY <2>5, <2>7, <3>2, <5>2
          <6>2. s[m].op = "project" /\ s[j - 1].op \in {"filter", "project"}
            BY <2>7, <2>13, <3>2 DEF Plain
          <6>3. Reads(s[j - 1]) \intersect N \subseteq ToSet(s[m].columns)
            BY <2>7, <3>1, <6>1, <6>2
          <6>4. ToSet(s[m].columns) = Reads(s[m]) /\ m \in 1 .. m
            BY <2>5, <2>7, <6>2 DEF Reads
          <6> QED BY <2>7, <6>3, <6>4
        <5> QED BY <2>5, <2>7, <3>2, <5>1, <5>2
      <4>2. t[i] = x
        BY <2>10, <3>5
      <4> QED BY <2>4, <2>9, <3>3, <4>1, <4>2
    <3> QED BY <3>4, <3>5
  <2> QED BY <2>1, <2>8, <2>11, <2>12, <2>13 DEF p, N, rel
<1> QED
  BY <1>4, <1>5

-----------------------------------------------------------------------------
(* The row path.                                                            *)

\* What the filters among the first k operators leave.
Left(rel, s, k) ==
  [names |-> rel.names,
   rows  |-> {row \in rel.rows : \A i \in 1 .. k : s[i].op = "filter" => Passes(rel.names, row, s[i].pred)}]

\* How the rows left change with a step.
LEMMA LeftIs ==
  ASSUME NEW rel, NEW s, NEW k \in Nat
  PROVE  /\ IsRel(Left(rel, s, k)) /\ Left(rel, s, k).names = rel.names
         /\ k > 0 /\ s[k].op = "filter" => Where(Left(rel, s, k - 1), s[k].pred) = Left(rel, s, k)
         /\ k > 0 /\ s[k].op # "filter" => Left(rel, s, k - 1) = Left(rel, s, k)
         /\ IsRel(rel) /\ k = 0 => Left(rel, s, k) = rel
<1> DEFINE Good(row, j) == \A i \in 1 .. j : s[i].op = "filter" => Passes(rel.names, row, s[i].pred)
<1>1. ASSUME NEW j PROVE IsRel(Left(rel, s, j)) /\ Left(rel, s, j).names = rel.names
                         /\ Left(rel, s, j).rows = {row \in rel.rows : Good(row, j)}
  BY DEF Left, IsRel
<1>2. ASSUME k > 0, NEW row
      PROVE  Good(row, k) <=> Good(row, k - 1) /\ (s[k].op = "filter" => Passes(rel.names, row, s[k].pred))
  <2>1. 1 .. k = (1 .. k - 1) \union {k}
    BY <1>2
  <2> QED BY <2>1
<1> HIDE DEF Good
<1>3. ASSUME k > 0, s[k].op = "filter" PROVE Where(Left(rel, s, k - 1), s[k].pred) = Left(rel, s, k)
  <2> DEFINE a == Left(rel, s, k - 1)
             b == Left(rel, s, k)
             pred == s[k].pred
  <2>1. /\ IsRel(a) /\ a.names = rel.names /\ a.rows = {row \in rel.rows : Good(row, k - 1)}
        /\ IsRel(b) /\ b.names = rel.names /\ b.rows = {row \in rel.rows : Good(row, k)}
    BY <1>1
  <2>2. \A row : Good(row, k) <=> Good(row, k - 1) /\ Passes(rel.names, row, pred)
    BY <1>2, <1>3
  <2> HIDE DEF a, b, pred
  <2>3. Where(a, pred) = [names |-> a.names, rows |-> {row \in a.rows : Passes(a.names, row, pred)}]
    BY <2>1, WhereIs
  <2>4. {row \in a.rows : Passes(a.names, row, pred)} = b.rows
    BY <2>1, <2>2
  <2>5. Where(a, pred) = [names |-> b.names, rows |-> b.rows]
    BY <2>1, <2>3, <2>4
  <2> QED BY <2>1, <2>5 DEF IsRel, a, b, pred
<1>4. ASSUME k > 0, s[k].op # "filter" PROVE Left(rel, s, k - 1) = Left(rel, s, k)
  <2> DEFINE a == Left(rel, s, k - 1)
             b == Left(rel, s, k)
  <2>1. /\ IsRel(a) /\ a.names = rel.names /\ a.rows = {row \in rel.rows : Good(row, k - 1)}
        /\ IsRel(b) /\ b.names = rel.names /\ b.rows = {row \in rel.rows : Good(row, k)}
    BY <1>1
  <2>2. \A row : Good(row, k) <=> Good(row, k - 1)
    BY <1>2, <1>4
  <2> HIDE DEF a, b
  <2>3. a.rows = b.rows
    BY <2>1, <2>2
  <2> QED BY <2>1, <2>3 DEF IsRel, a, b
<1>5. ASSUME IsRel(rel), k = 0 PROVE Left(rel, s, k) = rel
  <2>1. \A row : Good(row, k)
    BY <1>5 DEF Good
  <2> DEFINE b == Left(rel, s, k)
  <2>2. IsRel(b) /\ b.names = rel.names /\ b.rows = {row \in rel.rows : Good(row, k)}
    BY <1>1
  <2> HIDE DEF b
  <2>3. b.rows = rel.rows
    BY <2>1, <2>2
  <2> QED BY <1>5, <2>2, <2>3 DEF IsRel, b
<1> QED
  BY <1>1, <1>3, <1>4, <1>5

\* The rows that pass all the filters so far, seen through the highest projection.
Standing(r, rel, s, k) ==
  \/ r = Left(rel, s, k) /\ \A i \in 1 .. k : s[i].op = "filter"
  \/ \E i \in 1 .. k : /\ s[i].op = "project" /\ \A j \in i + 1 .. k : s[j].op = "filter"
                       /\ r = View(Left(rel, s, k), s[i].columns)

\* A plain chain leaves the rows that pass its filters, as its last projection shows them.
LEMMA PlainRun ==
  ASSUME NEW rel, IsRel(rel), Own(rel.names), NEW s, Steps(s), Plain(s), Keeping(s, ToSet(rel.names))
  PROVE  Standing(Run(rel, s), rel, s, Len(s))
<1> DEFINE l == Len(s)
           N == ToSet(rel.names)
<1>1. /\ s \in Seq(ToSet(s)) /\ l \in Nat
      /\ \A i \in 1 .. l : Known(s[i]) /\ s[i].op \in {"filter", "project"}
  BY DEF Steps, Own, Plain
<1>2. PICK f : Trace(f, rel, s) /\ Run(rel, s) = f[l]
  BY <1>1, RunTrace
<1>3. \A c : c \notin N => Pos(rel.names, c) = {}
  BY FirstPos DEF Own
<1> HIDE DEF N
<1> DEFINE Good == {k \in 0 .. l : Standing(f[k], rel, s, k)}
<1>4. 0 \in Good
  <2>1. f[0] = Left(rel, s, 0)
    BY <1>2, LeftIs DEF Trace
  <2> QED BY <1>1, <2>1 DEF Standing
<1>5. ASSUME NEW k \in 1 .. l, k - 1 \in Good PROVE k \in Good
  <2> DEFINE step == s[k]
             a == Left(rel, s, k - 1)
             b == Left(rel, s, k)
  <2>1. f[k] = Step(f[k - 1], step) /\ Known(step) /\ k \in Nat /\ k > 0 /\ k - 1 \in Nat /\ k \in 0 .. l
    BY <1>1, <1>2 DEF Trace
  <2>2. IsRel(a) /\ a.names = rel.names
    BY <2>1, LeftIs
  <2>3. CASE step.op = "filter"
    <3> DEFINE pred == step.pred
    <3>1. Where(a, pred) = b /\ f[k] = Where(f[k - 1], pred)
      BY <2>1, <2>3, LeftIs DEF Step
    <3>2. CASE f[k - 1] = a /\ \A i \in 1 .. k - 1 : s[i].op = "filter"
      <4>1. \A i \in 1 .. k : s[i].op = "filter"
        <5>1. \A i \in 1 .. k : i \in 1 .. k - 1 \/ i = k
          BY <2>1
        <5> QED BY <2>3, <3>2, <5>1
      <4> QED BY <2>1, <3>1, <3>2, <4>1 DEF Standing
    <3>3. CASE \E i \in 1 .. k - 1 : /\ s[i].op = "project" /\ \A j \in i + 1 .. k - 1 : s[j].op = "filter"
                                     /\ f[k - 1] = View(a, s[i].columns)
      <4>1. PICK i \in 1 .. k - 1 : /\ s[i].op = "project" /\ \A j \in i + 1 .. k - 1 : s[j].op = "filter"
                                    /\ f[k - 1] = View(a, s[i].columns)
        BY <3>3
      <4> DEFINE columns == s[i].columns
      <4>2. i \in 1 .. l /\ i \in 1 .. k /\ k \in i + 1 .. l /\ Own(columns)
        BY <1>1, <4>1 DEF Known
      <4>3. {pred.column} \intersect N \subseteq ToSet(columns)
        <5>1. Reads(step) \intersect N \subseteq ToSet(columns)
          BY <2>3, <4>1, <4>2 DEF Keeping, N
        <5>2. Reads(step) = {pred.column}
          BY <2>3 DEF Reads
        <5> QED BY <5>1, <5>2
      <4>4. Keeps(columns, pred.column, a.names)
        BY <1>3, <2>2, <4>3 DEF Keeps
      <4> HIDE DEF a, pred, columns
      <4>5. Where(View(a, columns), pred) = View(Where(a, pred), columns)
        BY <2>2, <4>2, <4>4, FilterView
      <4>6. f[k] = View(b, columns)
        BY <3>1, <4>1, <4>5 DEF columns
      <4>7. \A j \in i + 1 .. k : s[j].op = "filter"
        <5>1. \A j \in i + 1 .. k : j \in i + 1 .. k - 1 \/ j = k
          BY <2>1
        <5> QED BY <2>3, <4>1, <5>1
      <4> QED BY <2>1, <4>1, <4>2, <4>6, <4>7 DEF Standing, columns
    <3> QED BY <1>5, <3>2, <3>3 DEF Standing
  <2>4. CASE step.op = "project"
    <3> DEFINE fewer == step.columns
    <3>1. a = b /\ f[k] = View(f[k - 1], fewer)
      <4>1. a = b
        BY <2>1, <2>4, LeftIs
      <4> QED BY <2>1, <2>4, <4>1, ProjectIsView
    <3>2. f[k] = View(a, fewer)
      <4>1. CASE f[k - 1] = a
        BY <3>1, <4>1
      <4>2. CASE \E i \in 1 .. k - 1 : s[i].op = "project" /\ f[k - 1] = View(a, s[i].columns)
        <5>1. PICK i \in 1 .. k - 1 : s[i].op = "project" /\ f[k - 1] = View(a, s[i].columns)
          BY <4>2
        <5> DEFINE columns == s[i].columns
        <5>2. i \in 1 .. l /\ k \in i + 1 .. l /\ Own(columns)
          BY <1>1, <5>1 DEF Known
        <5>3. Reads(step) \intersect N \subseteq ToSet(columns) /\ Reads(step) = ToSet(fewer)
          BY <2>4, <5>1, <5>2 DEF Keeping, N, Reads
        <5>4. \A c \in ToSet(fewer) : Keeps(columns, c, a.names)
          BY <1>3, <2>2, <5>3 DEF Keeps
        <5> HIDE DEF a, fewer, columns
        <5>5. View(View(a, columns), fewer) = View(a, fewer)
          BY <5>2, <5>4, ViewView
        <5> QED BY <3>1, <5>1, <5>5 DEF columns
      <4> QED BY <1>5, <4>1, <4>2 DEF Standing
    <3>3. k \in 1 .. k /\ \A j \in k + 1 .. k : s[j].op = "filter"
      BY <2>1
    <3> QED BY <2>1, <2>4, <3>1, <3>2, <3>3 DEF Standing
  <2> QED BY <1>1, <2>3, <2>4
<1>6. l \in Good
  <2> HIDE DEF Good
  <2>1. \A k \in 0 .. l : k \in Good
    BY <1>1, <1>4, <1>5, Counting
  <2> QED BY <1>1, <2>1
<1> QED
  BY <1>2, <1>6

\* A chain whose projections keep what is read above them runs alike either way.
LEMMA FastRowRuns ==
  ASSUME NEW from, from.op = "scan", NEW s, Steps(s), NEW db,
         FastRowEligible(Plan(from, s)), Keeping(s, ToSet(Columns(db, from.kind)))
  PROVE  FastRow(Plan(from, s), db) = Run(Leaf(from, db), s)
<1> DEFINE p == Plan(from, s)
           l == Len(s)
           rel == ScanRel(db, from.kind)
           kept == Left(rel, s, l)
<1>1. p.from = from /\ p.steps = s
  BY PlanIs
<1>2. /\ s \in Seq(ToSet(s)) /\ l \in Nat /\ DOMAIN s = 1 .. l /\ ToSet(s) = {s[i] : i \in 1 .. l}
      /\ \A i \in 1 .. l : Known(s[i])
  BY DEF Steps, Own, ToSet
<1>3. Leaf(from, db) = rel /\ IsRel(rel) /\ rel.names = Columns(db, from.kind) /\ Own(rel.names)
  <2>1. Leaf(from, db) = rel
    BY DEF Leaf
  <2>2. IsRel(Leaf(from, db))
    BY LeafIsRel DEF LeafOps
  <2>3. rel.names = Columns(db, from.kind)
    BY DEF ScanRel
  <2> HIDE DEF rel
  <2> QED BY <2>1, <2>2, <2>3, ColumnsAre
<1>4. \A i \in 1 .. l : s[i].op = "filter" \/ (s[i].op = "project" /\ Projects(s))
  <2> HIDE DEF p
  <2>1. \A x \in ToSet(s) : x.op = "filter" \/ (x.op = "project" /\ Projects(s))
    BY <1>1 DEF FastRowEligible, p
  <2> QED BY <1>2, <2>1
<1>5. FastRow(p, db) = IF Projects(s) THEN Only(Seen(kept, Reads(Last(s))), Last(s).columns) ELSE kept
  <2> DEFINE filters == {x \in ToSet(s) : x.op = "filter"}
             held == [rel EXCEPT !.rows = {row \in @ : \A x \in filters : Passes(rel.names, row, x.pred)}]
  <2>1. held = kept
    <3>1. ASSUME NEW row
          PROVE (\A x \in filters : Passes(rel.names, row, x.pred)) <=>
                (\A i \in 1 .. l : s[i].op = "filter" => Passes(rel.names, row, s[i].pred))
      BY <1>2
    <3> HIDE DEF rel, filters
    <3> DEFINE all == {row \in rel.rows : \A x \in filters : Passes(rel.names, row, x.pred)}
    <3>2. held = [names |-> rel.names, rows |-> all]
      <4>1. held = [rel EXCEPT !.rows = all]
        OBVIOUS
      <4> HIDE DEF all, held
      <4> QED BY <1>3, <4>1 DEF IsRel
    <3>3. {row \in rel.rows : \A x \in filters : Passes(rel.names, row, x.pred)} = kept.rows
      BY <3>1 DEF Left
    <3>4. kept.names = rel.names /\ IsRel(kept)
      BY DEF Left, IsRel
    <3> QED BY <3>2, <3>3, <3>4 DEF IsRel
  <2> HIDE DEF p
  <2>2. FastRow(p, db) = IF Projects(s) THEN Only(Seen(held, Reads(Last(s))), Last(s).columns) ELSE held
    BY <1>1 DEF FastRow
  <2> HIDE DEF held, kept
  <2> QED BY <2>1, <2>2
<1>6. Standing(Run(rel, s), rel, s, l)
  <2>1. Plain(s) /\ Keeping(s, ToSet(rel.names))
    BY <1>3, <1>4 DEF Plain
  <2> HIDE DEF rel
  <2> QED BY <1>3, <2>1, PlainRun
<1> HIDE DEF p, rel, kept
<1>7. CASE Run(rel, s) = kept /\ \A i \in 1 .. l : s[i].op = "filter"
  <2>1. ~Projects(s)
    <3> SUFFICES ASSUME Projects(s) PROVE FALSE
      OBVIOUS
    <3>1. l \in 1 .. l /\ s[l].op = "project"
      BY <1>2 DEF Projects, Last
    <3> QED BY <1>7, <3>1
  <2> QED BY <1>3, <1>5, <1>7, <2>1 DEF p
<1>8. CASE \E i \in 1 .. l : /\ s[i].op = "project" /\ \A j \in i + 1 .. l : s[j].op = "filter"
                             /\ Run(rel, s) = View(kept, s[i].columns)
  <2>1. PICK i \in 1 .. l : /\ s[i].op = "project" /\ \A j \in i + 1 .. l : s[j].op = "filter"
                            /\ Run(rel, s) = View(kept, s[i].columns)
    BY <1>8
  <2>2. Projects(s) /\ Last(s) = s[l] /\ s[l].op = "project"
    BY <1>4, <2>1 DEF Projects, Last
  <2>3. i = l
    <3> SUFFICES ASSUME i # l PROVE FALSE
      OBVIOUS
    <3>1. l \in i + 1 .. l
      <4>1. l \in Nat /\ i \in 1 .. l
        BY <1>2, <2>1
      <4> HIDE DEF l
      <4> QED BY <4>1
    <3>2. s[l].op = "filter"
      BY <2>1, <3>1
    <3> QED BY <2>2, <3>2
  <2>4. Reads(s[l]) = ToSet(s[l].columns)
    BY <2>2 DEF Reads
  <2> QED BY <1>3, <1>5, <2>1, <2>2, <2>3, <2>4 DEF p, View
<1> QED
  BY <1>6, <1>7, <1>8 DEF Standing, kept

-----------------------------------------------------------------------------
(* What is compiled and lowered.                                            *)

Sound(p) ==
  /\ p = Plan(p.from, p.steps) /\ p.from.op \in LeafOps \union {"join"}
  /\ Steps(p.steps)

\* Two chains make one.
LEMMA StepsConcat ==
  ASSUME NEW a, Steps(a), NEW b, Steps(b)
  PROVE  Steps(a \o b)
<1> DEFINE All == ToSet(a) \union ToSet(b)
           w == a \o b
<1>1. a \in Seq(ToSet(a)) /\ b \in Seq(ToSet(b))
  BY DEF Steps, Own
<1>2. a \in Seq(All) /\ b \in Seq(All) /\ Len(a) \in Nat /\ Len(b) \in Nat
  <2>1. a \in [1 .. Len(a) -> All] /\ b \in [1 .. Len(b) -> All] /\ Len(a) \in Nat /\ Len(b) \in Nat
    BY <1>1
  <2> QED BY <2>1
<1> HIDE DEF All
<1>3. w \in Seq(All) /\ Len(w) = Len(a) + Len(b)
      /\ (\A i \in 1 .. Len(a) : w[i] = a[i])
      /\ \A i \in Len(a) + 1 .. Len(a) + Len(b) : w[i] = b[i - Len(a)]
  BY <1>2
<1> HIDE DEF w
<1>4. Own(w)
  BY <1>3, SeqOwn DEF Own
<1>5. ASSUME NEW i \in 1 .. Len(a) + Len(b) PROVE Known(w[i])
  <2>1. CASE i \in 1 .. Len(a)
    BY <1>3, <2>1 DEF Steps
  <2>2. CASE i \in Len(a) + 1 .. Len(a) + Len(b)
    <3>1. i - Len(a) \in 1 .. Len(b)
      BY <1>2, <2>2
    <3> QED BY <1>3, <2>2, <3>1 DEF Steps
  <2> QED BY <1>2, <2>1, <2>2
<1>6. Steps(w)
  BY <1>3, <1>4, <1>5 DEF Steps
<1> QED
  BY <1>6 DEF w

\* Filters are a chain.
LEMMA FiltersSteps ==
  ASSUME NEW T, NEW preds \in Seq(T)
  PROVE  /\ Steps(Filters(preds)) /\ Len(Filters(preds)) = Len(preds)
         /\ \A i \in 1 .. Len(preds) : Filters(preds)[i] = Filter(preds[i])
<1> DEFINE w == Filters(preds)
           E == {Filter(preds[i]) : i \in 1 .. Len(preds)}
<1>1. Len(preds) \in Nat /\ w = [i \in 1 .. Len(preds) |-> Filter(preds[i])]
  BY DEF Filters
<1>2. w \in Seq(E) /\ Len(w) = Len(preds) /\ \A i \in 1 .. Len(preds) : w[i] = Filter(preds[i])
  BY <1>1
<1> HIDE DEF w, E
<1>3. Own(w)
  BY <1>2, SeqOwn DEF Own
<1>4. \A pred : Known(Filter(pred))
  BY DEF Known, Filter
<1>5. Steps(w)
  BY <1>2, <1>3, <1>4 DEF Steps
<1> QED
  BY <1>2, <1>5 DEF w

\* No step is a chain.
LEMMA NoSteps == Steps(<<>>)
<1>1. Len(<<>>) = 0 /\ <<>> \in Seq(ToSet(<<>>))
  OBVIOUS
<1> QED
  BY <1>1 DEF Steps, Own

\* So is one.
LEMMA OneStep ==
  ASSUME NEW x, Known(x)
  PROVE  Steps(<<x>>)
<1> DEFINE w == <<x>>
<1>1. w \in Seq({x}) /\ Len(w) = 1 /\ w[1] = x
  OBVIOUS
<1> HIDE DEF w
<1>2. Own(w)
  BY <1>1, SeqOwn DEF Own
<1>3. Steps(w)
  BY <1>1, <1>2 DEF Steps
<1> QED
  BY <1>3 DEF w

\* Subqueries so far.
Ctes(ctes) == Own(ctes) /\ \A i \in 1 .. Len(ctes) : Sound(ctes[i].plan)

\* A scan is sound.
LEMMA ScanIsSound ==
  ASSUME NEW kind
  PROVE  Sound(Scan(kind))
<1>1. Scan(kind).from.op = "scan" /\ Scan(kind).steps = <<>> /\ Scan(kind) = Plan(Scan(kind).from, Scan(kind).steps)
  BY DEF Scan, Plan
<1> QED
  BY <1>1, NoSteps DEF Sound, LeafOps

\* So is what a query scans.
LEMMA ScanOfIsSound ==
  ASSUME NEW name, NEW ctes, Ctes(ctes)
  PROVE  Sound(ScanOf(name, ctes))
<1> DEFINE hits == {i \in DOMAIN ctes : ctes[i].name = name}
<1>1. DOMAIN ctes = 1 .. Len(ctes) /\ Len(ctes) \in Nat
  BY DEF Ctes, Own
<1>2. CASE hits = {}
  <2>1. ScanOf(name, ctes) = Scan(name)
    BY <1>2 DEF ScanOf
  <2> QED BY <2>1, ScanIsSound
<1>3. CASE hits # {}
  <2> DEFINE n == Min(hits)
  <2>1. PICK m \in hits : \A k \in hits : m <= k
    <3>1. hits \in SUBSET Nat
      BY <1>1
    <3> HIDE DEF hits
    <3> QED BY <1>3, <3>1, Least
  <2>2. n \in hits
    <3> HIDE DEF hits
    <3> QED BY <2>1, Zenon DEF Min
  <2>3. ScanOf(name, ctes) = ctes[n].plan
    BY <1>3 DEF ScanOf
  <2> HIDE DEF n
  <2> QED BY <1>1, <2>2, <2>3 DEF Ctes
<1> QED
  BY <1>2, <1>3

\* So is a query over sound subqueries.
LEMMA CompileWithIsSound ==
  ASSUME NEW q, Written(q), NEW ctes, Ctes(ctes)
  PROVE  Sound(CompileWith(q, ctes))
<1> DEFINE from    == ScanOf(q.scan, ctes)
           joined  == IF q.join = <<>> THEN from ELSE Join(from, ScanOf(q.join[1].scan, ctes), q.join[1].on)
           closed  == IF q.closure = <<>> THEN <<>> ELSE <<Closure(q.closure[1], q.closure[2])>>
           grouped == IF q.by = <<>> /\ q.aggs = <<>> THEN <<>> ELSE <<Aggregate(q.by, q.aggs)>>
           shown   == IF q.project = <<>> THEN <<>> ELSE <<Project(q.project)>>
           steps   == joined.steps \o Filters(q.filters) \o closed \o grouped \o Filters(q.having) \o shown
<1>1. CompileWith(q, ctes) = Plan(joined.from, steps)
  BY DEF CompileWith
<1>2. joined.from.op \in LeafOps \union {"join"} /\ Steps(joined.steps)
  <2>1. Sound(from)
    BY ScanOfIsSound
  <2>2. CASE q.join = <<>>
    BY <2>1, <2>2 DEF Sound
  <2>3. CASE q.join # <<>>
    <3>1. joined.from.op = "join" /\ joined.steps = <<>>
      BY <2>3 DEF Join, Plan
    <3> QED BY <3>1, NoSteps
  <2> QED BY <2>2, <2>3
<1>3. Steps(Filters(q.filters)) /\ Steps(Filters(q.having))
  BY FiltersSteps DEF Written
<1>4. Steps(closed)
  <2>1. Known(Closure(q.closure[1], q.closure[2]))
    BY DEF Known, Closure
  <2> QED BY <2>1, NoSteps, OneStep
<1>5. Steps(grouped)
  <2>1. Known(Aggregate(q.by, q.aggs))
    BY DEF Known, Aggregate
  <2> QED BY <2>1, NoSteps, OneStep
<1>6. Steps(shown)
  <2>1. Own(q.project)
    BY SeqOwn DEF Written, Own
  <2>2. Known(Project(q.project))
    BY <2>1 DEF Known, Project
  <2> QED BY <2>2, NoSteps, OneStep
<1> HIDE DEF joined, closed, grouped, shown
<1>7. Steps(steps)
  BY <1>2, <1>3, <1>4, <1>5, <1>6, StepsConcat
<1> HIDE DEF steps
<1>8. Plan(joined.from, steps).from = joined.from /\ Plan(joined.from, steps).steps = steps
  BY PlanIs
<1> QED
  BY <1>1, <1>2, <1>7, <1>8 DEF Sound

\* The frontend makes sound plans.
LEMMA CompiledIsSound ==
  ASSUME NEW spec \in Queries
  PROVE  Sound(Compiled(spec))
<1> DEFINE with == spec.with
           l == Len(with)
           Upto(c, n) == c = [k \in 0 .. n |->
                                IF k = 0 THEN <<>>
                                ELSE Append(c[k - 1], [name |-> with[k].name,
                                                       plan |-> CompileWith(with[k].query, c[k - 1])])]
           Good == {n \in 0 .. l : \E c : Upto(c, n)}
<1>1. /\ Written(spec) /\ l \in Nat
      /\ \A k \in 1 .. l : Written(with[k].query)
  <2>1. Written(spec) /\ with \in Seq(ToSet(with)) /\ \A sub \in ToSet(with) : Written(sub.query)
    BY QueriesAssumption
  <2>2. l \in Nat /\ \A k \in 1 .. l : with[k] \in ToSet(with)
    <3> HIDE DEF with
    <3> QED BY <2>1
  <2> QED BY <2>1, <2>2
<1> DEFINE Grown(c, k) == Append(c, [name |-> with[k].name, plan |-> CompileWith(with[k].query, c)])
<1>2. ASSUME NEW c, NEW n PROVE Upto(c, n) <=> c = [k \in 0 .. n |-> IF k = 0 THEN <<>> ELSE Grown(c[k - 1], k)]
  OBVIOUS
<1>3. 0 \in Good
  <2> DEFINE c == [k \in 0 .. 0 |-> <<>>]
  <2>1. Upto(c, 0)
    OBVIOUS
  <2> HIDE DEF c, Upto
  <2> QED BY <1>1, <2>1
<1> HIDE DEF Upto, Grown
<1>4. ASSUME NEW m \in 1 .. l, m - 1 \in Good PROVE m \in Good
  <2>1. PICK c : Upto(c, m - 1)
    BY <1>4
  <2>2. c = [k \in 0 .. m - 1 |-> IF k = 0 THEN <<>> ELSE Grown(c[k - 1], k)]
    BY <1>2, <2>1
  <2> DEFINE g == [k \in 0 .. m |-> IF k = m THEN Grown(c[m - 1], m) ELSE c[k]]
  <2>3. ASSUME NEW k \in 0 .. m
        PROVE  g[k] = IF k = 0 THEN <<>> ELSE Grown(g[k - 1], k)
    <3>1. CASE k = 0
      BY <2>2, <3>1
    <3>2. CASE k = m
      <4>1. g[m - 1] = c[m - 1] /\ m # 0
        OBVIOUS
      <4> QED BY <3>2, <4>1
    <3>3. CASE k # 0 /\ k # m
      <4>1. k \in 0 .. m - 1 /\ k - 1 \in 0 .. m /\ k - 1 # m
        BY <3>3
      <4>2. g[k] = c[k] /\ g[k - 1] = c[k - 1]
        BY <3>3, <4>1
      <4>3. c[k] = Grown(c[k - 1], k)
        BY <2>2, <3>3, <4>1
      <4> QED BY <3>3, <4>2, <4>3
    <3> QED BY <3>1, <3>2, <3>3
  <2>4. g = [k \in 0 .. m |-> g[k]]
    OBVIOUS
  <2> HIDE DEF g
  <2>5. g = [k \in 0 .. m |-> IF k = 0 THEN <<>> ELSE Grown(g[k - 1], k)]
    BY <2>3, <2>4
  <2>6. Upto(g, m)
    BY <1>2, <2>5
  <2> QED BY <2>6
<1>5. l \in Good
  <2> HIDE DEF Good
  <2>1. \A m \in 0 .. l : m \in Good
    BY <1>1, <1>3, <1>4, Counting
  <2> QED BY <1>1, <2>1
<1> DEFINE ctes == CHOOSE c : Upto(c, l)
<1>6. Upto(ctes, l)
  <2>1. \E c : Upto(c, l)
    BY <1>5
  <2> QED BY <2>1
<1>7. Compiled(spec) = CompileWith(spec, ctes[l])
  BY DEF Compiled, Upto
<1> HIDE DEF ctes
<1>8. ctes = [k \in 0 .. l |-> IF k = 0 THEN <<>> ELSE Grown(ctes[k - 1], k)]
  BY <1>2, <1>6
<1> DEFINE Fit == {k \in 0 .. l : Ctes(ctes[k])}
<1>9. 0 \in Fit
  <2>1. ctes[0] = <<>>
    BY <1>1, <1>8
  <2>2. Ctes(<<>>)
    <3>1. Own(<<>>) /\ Len(<<>>) = 0
      BY NoSteps DEF Steps
    <3> QED BY <3>1 DEF Ctes
  <2> QED BY <1>1, <2>1, <2>2
<1>10. ASSUME NEW k \in 1 .. l, k - 1 \in Fit PROVE k \in Fit
  <2> DEFINE c == ctes[k - 1]
             x == [name |-> with[k].name, plan |-> CompileWith(with[k].query, c)]
  <2>1. Ctes(c)
    BY <1>10
  <2>2. ctes[k] = Append(c, x)
    <3>1. ctes[k] = Grown(ctes[k - 1], k)
      <4>1. k \in 0 .. l /\ k # 0
        BY <1>1
      <4> HIDE DEF l
      <4> QED BY <1>8, <4>1
    <3>2. Grown(c, k) = Append(c, x)
      BY DEF Grown
    <3> HIDE DEF x
    <3> QED BY <3>1, <3>2
  <2>3. Sound(x.plan)
    BY <1>1, <2>1, CompileWithIsSound
  <2> HIDE DEF c, x
  <2>4. /\ Own(Append(c, x)) /\ Len(Append(c, x)) = Len(c) + 1 /\ Len(c) \in Nat
        /\ \A i \in 1 .. Len(c) : Append(c, x)[i] = c[i]
        /\ Append(c, x)[Len(c) + 1] = x
    BY <2>1, AppendIs DEF Ctes, Own
  <2>5. \A i \in 1 .. Len(c) + 1 : Sound(Append(c, x)[i].plan)
    BY <2>1, <2>3, <2>4 DEF Ctes
  <2>6. Ctes(ctes[k])
    BY <2>2, <2>4, <2>5 DEF Ctes
  <2> QED BY <2>6
<1>11. l \in Fit
  <2> HIDE DEF Fit
  <2>1. \A k \in 0 .. l : k \in Fit
    BY <1>1, <1>9, <1>10, Counting
  <2> QED BY <1>1, <2>1
<1>12. Ctes(ctes[l])
  BY <1>11
<1> HIDE DEF l, with
<1> QED
  BY <1>1, <1>7, <1>12, CompileWithIsSound

\* So does the lowering, over one source.
LEMMA LoweredIsSound ==
  ASSUME NEW r \in Rules, Lowered(r) # <<>>
  PROVE  Sound(Lowered(r)[1]) /\ Lowered(r)[1].from.op # "join"
<1>1. r.type \in {"fact", "group", "join"}
  BY RulesAssumption
<1>2. CASE r.type = "fact"
  <2> DEFINE kind == CHOOSE k \in r.inputs : TRUE
             preds == [i \in DOMAIN r.all |-> [column |-> r.all[i][1], op |-> "eq",
                                               value |-> SchemaLiteral(kind, r.all[i][1], r.all[i][2])]]
  <2>1. Lowered(r) = <<Plan(Scan(kind).from, Filters(preds))>>
    BY <1>2 DEF Lowered, LowerFact
  <2>2. Steps(Filters(preds))
    <3> DEFINE E == {preds[i] : i \in 1 .. Len(r.all)}
    <3>1. r.all \in Seq(Named \X Int)
      BY <1>2, RulesAssumption
    <3>2. preds \in Seq(E)
      <4>1. Len(r.all) \in Nat /\ DOMAIN r.all = 1 .. Len(r.all)
        BY <3>1
      <4>2. preds \in [1 .. Len(r.all) -> E]
        BY <4>1
      <4> HIDE DEF preds, E
      <4> QED BY <4>1, <4>2
    <3> HIDE DEF preds, E
    <3> QED BY <3>2, FiltersSteps
  <2>3. Scan(kind).from.op = "scan"
    BY DEF Scan, Plan
  <2> HIDE DEF preds, kind
  <2> QED BY <2>1, <2>2, <2>3, PlanIs DEF Sound, LeafOps
<1>3. CASE r.type = "join"
  <2> DEFINE from == [op |-> "joinfilter", left |-> r.left, right |-> r.right, on |-> r.on, where |-> r.where]
  <2>1. Lowered(r) = <<Plan(from, <<>>)>>
    BY <1>3 DEF Lowered, LowerJoin
  <2>2. from.op = "joinfilter"
    OBVIOUS
  <2> HIDE DEF from
  <2> QED BY <2>1, <2>2, PlanIs, NoSteps DEF Sound, LeafOps
<1>4. CASE r.type = "group"
  <2> DEFINE filters == [i \in DOMAIN r.all |-> [column |-> r.all[i][1], op |-> "eq", value |-> Str(r.all[i][2])]]
             from == [op |-> "groupdistinct", kinds |-> r.inputs, by |-> r.by, of |-> r.of, min |-> r.min,
                      filters |-> filters]
  <2>1. Lowered(r) = <<Plan(from, <<>>)>>
    BY <1>4 DEF Lowered, LowerGroup
  <2>2. from.op = "groupdistinct"
    OBVIOUS
  <2> HIDE DEF from
  <2> QED BY <2>1, <2>2, PlanIs, NoSteps DEF Sound, LeafOps
<1> QED
  BY <1>1, <1>2, <1>3, <1>4

-----------------------------------------------------------------------------
(* The optimizer over one source.                                           *)

OneSource(p) == Sound(p) /\ p.from.op # "join"

\* No projection drops a column of the scan that an operator above it reads.
ProjectionsKeep(p, db) == Keeping(p.steps, ToSet(Columns(db, p.from.kind)))

\* The rows of a plan over one source.
LEMMA StreamIs ==
  ASSUME NEW p, OneSource(p), NEW db
  PROVE  Stream(p, db) = Run(Leaf(p.from, db), p.steps) /\ IsRel(Leaf(p.from, db)) /\ p.from.op \in LeafOps
<1>1. p.from.op \in LeafOps
  BY DEF OneSource, Sound
<1>2. Source(p.from, db) = Leaf(p.from, db)
  BY DEF Source, OneSource
<1> QED
  BY <1>1, <1>2, LeafIsRel DEF Stream

\* Predicate pushdown on a plan over one source.
LEMMA PushKeeps ==
  ASSUME NEW p, OneSource(p), NEW db
  PROVE  LET q == PushFilters(p, db)
         IN  /\ OneSource(q) /\ q.from = p.from /\ Stream(q, db) = Stream(p, db)
             /\ ProjectionsKeep(p, db) => ProjectionsKeep(q, db)
             /\ Reorders(q, db) = {q}
<1> DEFINE q == PushFilters(p, db)
           from == p.from
           s == p.steps
           N == ToSet(Columns(db, from.kind))
           rel == Leaf(from, db)
<1>1. q = PushOnto(from, s, db)
  BY DEF PushFilters, OneSource
<1>2. Stream(p, db) = Run(rel, s) /\ IsRel(rel)
  BY StreamIs
<1>3. Steps(s) /\ from.op # "join" /\ from.op \in LeafOps \union {"join"}
  BY DEF OneSource, Sound
<1> HIDE DEF q, from, s, N, rel
<1>4. PICK t : /\ PushOnto(from, s, db) = Plan(from, t)
               /\ Pushed(t, s, Len(s), rel, N) /\ Run(rel, t) = Run(rel, s)
  <2>1. from.op # "join" /\ Steps(s) /\ IsRel(rel)
    BY <1>2, <1>3
  <2>2. PushedSame(from, s, db, rel, N)
    BY <2>1, PushOntoRuns
  <2> QED BY <2>2 DEF PushedSame
<1>5. q = Plan(from, t) /\ q.from = from /\ q.steps = t
  BY <1>1, <1>4, PlanIs
<1>6. OneSource(q)
  BY <1>3, <1>4, <1>5 DEF OneSource, Sound, Pushed
<1>7. Stream(q, db) = Run(rel, t)
  BY <1>5, <1>6, StreamIs DEF rel
<1>8. Reorders(q, db) = {q}
  BY <1>3, <1>5 DEF Reorders
<1>9. ASSUME ProjectionsKeep(p, db) PROVE ProjectionsKeep(q, db)
  <2>1. Keeping(s, N)
    BY <1>9 DEF ProjectionsKeep, s, N, from
  <2>2. Keeping(t, N)
    BY <1>4, <2>1 DEF Pushed
  <2> QED BY <1>5, <2>2 DEF ProjectionsKeep, N
<1> QED
  BY <1>2, <1>4, <1>5, <1>6, <1>7, <1>8, <1>9 DEF q, from

\* Projection pruning on a plan over one source.
LEMMA PruneKeeps ==
  ASSUME NEW p, OneSource(p), NEW db
  PROVE  LET q == PruneColumns(p, db)
         IN  /\ OneSource(q) /\ q.from = p.from /\ Stream(q, db) = Stream(p, db)
             /\ ProjectionsKeep(p, db) /\ FastRowEligible(q) => ProjectionsKeep(q, db)
<1> DEFINE q == PruneColumns(p, db)
           from == p.from
           s == p.steps
           N == ToSet(Columns(db, from.kind))
           rel == Leaf(from, db)
<1>1. p = Plan(from, s) /\ Steps(s) /\ from.op \in LeafOps /\ from.op # "join"
  BY DEF OneSource, Sound
<1>2. Stream(p, db) = Run(rel, s)
  BY StreamIs
<1> HIDE DEF from, s
<1>3. PICK t : /\ PruneColumns(Plan(from, s), db) = Plan(from, t)
               /\ Steps(t) /\ Run(rel, t) = Run(rel, s)
               /\ Plain(t) => Plain(s)
               /\ from.op = "scan" /\ Plain(s) /\ Keeping(s, N) => Keeping(t, N)
  BY <1>1, PruneRuns
<1> HIDE DEF q, N, rel
<1>4. q = Plan(from, t) /\ q.from = from /\ q.steps = t
  BY <1>1, <1>3, PlanIs DEF q
<1>5. OneSource(q)
  BY <1>1, <1>3, <1>4 DEF OneSource, Sound
<1>6. Stream(q, db) = Run(rel, t)
  BY <1>4, <1>5, StreamIs DEF rel
<1>7. ASSUME ProjectionsKeep(p, db), FastRowEligible(q) PROVE ProjectionsKeep(q, db)
  <2>1. Keeping(s, N)
    BY <1>7 DEF ProjectionsKeep, s, N, from
  <2>2. from.op = "scan" /\ \A x \in ToSet(t) : x.op \in {"filter", "project"}
    BY <1>4, <1>7 DEF FastRowEligible
  <2>3. Plain(t)
    <3>1. \A i \in 1 .. Len(t) : t[i] \in ToSet(t)
      BY <1>3 DEF Steps, Own, ToSet
    <3> QED BY <2>2, <3>1 DEF Plain
  <2>4. Keeping(t, N)
    BY <1>3, <2>1, <2>2, <2>3
  <2> QED BY <1>4, <2>4 DEF ProjectionsKeep, N
<1> QED
  BY <1>2, <1>3, <1>4, <1>5, <1>6, <1>7 DEF q, from

\* What becomes of a plan over one source.
Pruned(p, db) == PruneColumns(PushFilters(p, db), db)

\* Both, and FastRow on what they leave.
LEMMA PrunedKeeps ==
  ASSUME NEW p, OneSource(p), NEW db
  PROVE  LET q == Pruned(p, db)
         IN  /\ OneSource(q) /\ q.from = p.from /\ Stream(q, db) = Stream(p, db)
             /\ ProjectionsKeep(p, db) /\ FastRowEligible(q) => FastRow(q, db) = Stream(q, db)
<1> DEFINE m == PushFilters(p, db)
           q == PruneColumns(m, db)
<1>1. /\ OneSource(m) /\ m.from = p.from /\ Stream(m, db) = Stream(p, db)
      /\ ProjectionsKeep(p, db) => ProjectionsKeep(m, db)
  BY PushKeeps
<1> HIDE DEF m
<1>2. /\ OneSource(q) /\ q.from = m.from /\ Stream(q, db) = Stream(m, db)
      /\ ProjectionsKeep(m, db) /\ FastRowEligible(q) => ProjectionsKeep(q, db)
  BY <1>1, PruneKeeps
<1> HIDE DEF q
<1>3. ASSUME ProjectionsKeep(p, db), FastRowEligible(q) PROVE FastRow(q, db) = Stream(q, db)
  <2> DEFINE from == q.from
             s == q.steps
  <2>1. q = Plan(from, s) /\ Steps(s)
    BY <1>2 DEF OneSource, Sound
  <2>2. from.op = "scan"
    BY <1>3 DEF FastRowEligible
  <2>3. Keeping(s, ToSet(Columns(db, from.kind)))
    BY <1>1, <1>2, <1>3 DEF ProjectionsKeep
  <2>4. Stream(q, db) = Run(Leaf(from, db), s)
    BY <1>2, StreamIs
  <2> HIDE DEF from, s
  <2> QED BY <1>3, <2>1, <2>2, <2>3, <2>4, FastRowRuns
<1> QED
  BY <1>1, <1>2, <1>3 DEF Pruned, m, q

-----------------------------------------------------------------------------
(* The engine.                                                              *)

Executed(p, db) == Materialized(IF FastRowEligible(p) THEN FastRow(p, db) ELSE Stream(p, db))

\* Where the plan that was given comes from.
Origin ==
  \/ rule = NoRule /\ \E spec \in Queries : given = Compiled(spec)
  \/ rule \in Rules /\ Lowered(rule) # <<>> /\ given = Lowered(rule)[1]

\* Each stage has a plan that follows from the given one.
IInv ==
  /\ facts \in Databases
  /\ stage \in {"idle", "given", "pushed", "ordered", "optimized", "done", "interpreted"}
  /\ stage \in {"given", "pushed", "ordered", "optimized", "done"} => Origin
  /\ stage = "given" => plan = given
  /\ stage = "pushed" => plan = PushFilters(given, facts)
  /\ stage = "ordered" => plan \in Reorders(PushFilters(given, facts), facts)
  /\ stage \in {"optimized", "done"} =>
       \E q \in Reorders(PushFilters(given, facts), facts) : plan = PruneColumns(q, facts)
  /\ stage = "done" => result = Executed(plan, facts)

\* An engine starts idle.
LEMMA InitIInv == Init => IInv
  BY DEF Init, IInv

\* Every step leads from one stage to the next.
LEMMA NextIInv == IInv /\ [Next]_vars => IInv'
<1> SUFFICES ASSUME IInv, [Next]_vars PROVE IInv'
  OBVIOUS
<1>1. CASE Compile
  BY <1>1 DEF Compile, Given, IInv, Origin
<1>2. CASE Lower
  BY <1>2 DEF Lower, Given, IInv, Origin
<1>3. CASE Fallback
  BY <1>3 DEF Fallback, IInv
<1>4. CASE Push
  BY <1>4 DEF Push, Pass, IInv, Origin
<1>5. CASE Reorder
  BY <1>5 DEF Reorder, Pass, IInv, Origin
<1>6. CASE Prune
  <2>1. /\ stage = "ordered" /\ stage' = "optimized" /\ plan' = PruneColumns(plan, facts)
        /\ UNCHANGED <<facts, rule, given, result>>
    BY <1>6 DEF Prune, Pass
  <2> QED BY <2>1 DEF IInv, Origin
<1>7. CASE Execute
  BY <1>7 DEF Execute, IInv, Origin, Executed
<1>8. CASE Again
  BY <1>8 DEF Again, IInv
<1>9. CASE UNCHANGED vars
  BY <1>9 DEF vars, IInv, Origin
<1> QED
  BY <1>1, <1>2, <1>3, <1>4, <1>5, <1>6, <1>7, <1>8, <1>9 DEF Next

(* Every stage of the engine has the plan the passes before it lead to, and *)
(* what it returns is that plan's execution (engine.rs).                    *)
THEOREM EngineInvariant == Spec => []IInv
  BY InitIInv, NextIInv, PTL DEF Spec

\* A plan over one source is all the stages make of it.
LEMMA GivenIsSound ==
  ASSUME IInv, stage \in {"given", "pushed", "ordered", "optimized", "done"}
  PROVE  /\ Sound(given)
         /\ rule # NoRule => rule \in Rules /\ given = Lowered(rule)[1] /\ Lowered(rule) # <<>> /\ OneSource(given)
<1>1. Origin
  BY DEF IInv
<1>2. CASE rule = NoRule /\ \E spec \in Queries : given = Compiled(spec)
  BY <1>2, CompiledIsSound
<1>3. CASE rule \in Rules /\ Lowered(rule) # <<>> /\ given = Lowered(rule)[1]
  BY <1>3, LoweredIsSound DEF OneSource
<1> QED
  BY <1>1, <1>2, <1>3 DEF Origin

\* Over one source the join order has nothing to choose.
LEMMA StagesOfOneSource ==
  ASSUME IInv, given.from.op # "join", stage \in {"pushed", "ordered", "optimized", "done"}
  PROVE  /\ OneSource(given)
         /\ stage \in {"pushed", "ordered"} => plan = PushFilters(given, facts)
         /\ stage \in {"optimized", "done"} => plan = Pruned(given, facts)
<1>1. OneSource(given)
  BY GivenIsSound DEF OneSource
<1>2. Reorders(PushFilters(given, facts), facts) = {PushFilters(given, facts)}
  BY <1>1, PushKeeps
<1> QED
  BY <1>1, <1>2 DEF IInv, Pruned

(* The optimizer preserves the results of every plan over one source.       *)
THEOREM OneSourceResults == Spec => [](given.from.op # "join" => ResultsPreserved)
<1>1. IInv => (given.from.op # "join" => ResultsPreserved)
  <2> SUFFICES ASSUME IInv, given.from.op # "join", stage \in {"pushed", "ordered", "optimized"}
               PROVE  Stream(plan, facts) = Stream(given, facts)
    BY DEF ResultsPreserved
  <2>1. /\ OneSource(given)
        /\ stage \in {"pushed", "ordered"} => plan = PushFilters(given, facts)
        /\ stage = "optimized" => plan = Pruned(given, facts)
    BY StagesOfOneSource
  <2> QED BY <2>1, PushKeeps, PrunedKeeps
<1> QED
  BY <1>1, EngineInvariant, PTL

\* A plan that FastRow takes over one source, with projections that keep.
FastRowSafe == FastRowEligible(plan) => given.from.op # "join" /\ ProjectionsKeep(given, facts)

(* Either way of running a plan gives the same rows, as long as a plan that *)
(* FastRow takes has no projection that drops a column read above it        *)
(* (strategy.rs, fast_row.rs).                                              *)
THEOREM FastRowStrategy == Spec => [](FastRowSafe => StrategyIrrelevant)
<1>1. IInv => (FastRowSafe => StrategyIrrelevant)
  <2> SUFFICES ASSUME IInv, FastRowSafe, stage = "done"
               PROVE  result = Materialized(Stream(plan, facts))
    BY DEF StrategyIrrelevant
  <2>1. result = Executed(plan, facts)
    BY DEF IInv
  <2>2. CASE FastRowEligible(plan)
    <3>1. given.from.op # "join" /\ ProjectionsKeep(given, facts)
      BY <2>2 DEF FastRowSafe
    <3>2. OneSource(given) /\ plan = Pruned(given, facts)
      BY <3>1, StagesOfOneSource
    <3>3. FastRow(plan, facts) = Stream(plan, facts)
      BY <2>2, <3>1, <3>2, PrunedKeeps
    <3> QED BY <2>1, <2>2, <3>3 DEF Executed
  <2>3. CASE ~FastRowEligible(plan)
    BY <2>1, <2>3 DEF Executed
  <2> QED BY <2>2, <2>3
<1> QED
  BY <1>1, EngineInvariant, PTL

-----------------------------------------------------------------------------
(* Facts and their rows.                                                    *)

Facts(db) == db \in Seq([kind : STRING, subject : Value, attrs : [Attrs -> Value]])

ScanRow(db, kind, i) ==
  [id |-> i, cells |-> [p \in DOMAIN Columns(db, kind) |-> FactCell(db, i, Columns(db, kind)[p])]]

\* A scan has a row for each fact of its kind.
LEMMA ScanIs ==
  ASSUME NEW db, NEW kind
  PROVE  /\ ScanRel(db, kind).names = Columns(db, kind)
         /\ ScanRel(db, kind).rows = {ScanRow(db, kind, i) : i \in OfKind(db, kind)}
  BY DEF ScanRel, ScanRow

\* A fact shows values, and the interpreter reads the same.
LEMMA FactIs ==
  ASSUME NEW db, Facts(db), NEW i \in DOMAIN db, NEW c \in Named
  PROVE  /\ c # FactId /\ FactCell(db, i, c) \in Value
         /\ FaithfulTerm(c) => TermValue(db[i], c) = Text(FactCell(db, i, c))
<1>1. db[i].subject \in Value /\ db[i].attrs \in [Attrs -> Value]
  <2> DEFINE F == [kind : STRING, subject : Value, attrs : [Attrs -> Value]]
  <2>1. db \in Seq(F)
    BY DEF Facts
  <2>2. db[i] \in F
    <3> HIDE DEF F
    <3> QED BY <2>1
  <2> QED BY <2>2
<1>2. FactId # Subject
  BY DEF FactId, Subject
<1>3. c # FactId /\ FactCell(db, i, c) = IF c = Subject THEN db[i].subject ELSE db[i].attrs[c]
  BY <1>2, AttrsAssumption DEF Named, FactCell
<1>4. FactCell(db, i, c) \in Value
  BY <1>1, <1>3 DEF Named
<1>5. FaithfulTerm(c) => TermValue(db[i], c) = Text(FactCell(db, i, c))
  BY <1>3 DEF FaithfulTerm, TermValue
<1> QED
  BY <1>3, <1>4, <1>5

\* What a row of a scan shows of its fact.
LEMMA CellIsFact ==
  ASSUME NEW db, Facts(db), NEW kind, NEW i \in OfKind(db, kind), NEW c \in Named \union {FactId}
  PROVE  Cell(Columns(db, kind), ScanRow(db, kind, i).cells, c) = FactCell(db, i, c)
<1> DEFINE names == Columns(db, kind)
           cells == ScanRow(db, kind, i).cells
           v == FactCell(db, i, c)
<1>1. Own(names) /\ ToSet(names) = {FactId, Subject} \union Had(db, kind)
  BY ColumnsAre
<1>2. \A p \in DOMAIN names : names[p] = c => cells[p] = v
  BY DEF ScanRow
<1>3. CASE c \in ToSet(names)
  <2> HIDE DEF cells, v, names
  <2>3. Cell(names, cells, c) = v
    BY <1>1, <1>2, <1>3, CellOf DEF Own
  <2> QED BY <2>3 DEF cells, v, names
<1>4. CASE c \notin ToSet(names)
  <2>1. c \in Attrs /\ c # FactId /\ c # Subject
    BY <1>1, <1>4 DEF Named
  <2>2. v = Null
    <3>1. db[i].attrs[c] = Null
      BY <1>1, <1>4, <2>1 DEF Had
    <3> QED BY <2>1, <3>1 DEF FactCell
  <2> HIDE DEF cells, v, names
  <2>3. Cell(names, cells, c) = Null
    BY <1>1, <1>2, <1>4, CellOf DEF Own
  <2> QED BY <2>2, <2>3 DEF cells, v, names
<1> QED
  BY <1>3, <1>4

\* An equality with a text passes what displays it.
LEMMA PassesText ==
  ASSUME NEW v \in Value, NEW literal, NEW n \in Int, literal \in {Str(n), Int64(n)}
  PROVE  EvalCmp(v, "eq", literal) <=> Text(v) = {n}
<1>1. literal # Null /\ literal.n = n
  BY DEF Str, Int64, Null
<1> QED
  BY <1>1 DEF EvalCmp, Holds, Text, Value

-----------------------------------------------------------------------------
(* Rows as maps.                                                            *)

AsMap(rel, row) == [c \in ToSet(rel.names) |-> row.cells[Max({p \in DOMAIN rel.names : rel.names[p] = c})]]

\* The rows returned, as maps.
LEMMA MaterializedIs ==
  ASSUME NEW rel
  PROVE  DOMAIN Materialized(rel) = {AsMap(rel, row) : row \in rel.rows}
  BY DEF Materialized, AsMap

Maps(rel, row, c, v) == AsMap(rel, row)[c] = v

\* What a map says under a column.
LEMMA MapAt ==
  ASSUME NEW rel, Own(rel.names), NEW row, NEW c \in ToSet(rel.names), NEW v,
         \A p \in DOMAIN rel.names : rel.names[p] = c => row.cells[p] = v
  PROVE  Maps(rel, row, c, v)
<1> DEFINE S == {p \in DOMAIN rel.names : rel.names[p] = c}
<1>1. Len(rel.names) \in Nat /\ DOMAIN rel.names = 1 .. Len(rel.names)
  BY DEF Own
<1>2. S \in SUBSET (0 .. Len(rel.names)) /\ S # {}
  BY <1>1 DEF ToSet
<1>3. AsMap(rel, row)[c] = row.cells[Max(S)]
  BY DEF AsMap
<1>4. Max(S) \in S
  <2> HIDE DEF S
  <2> QED BY <1>1, <1>2, MaxIn
<1> DEFINE m == Max(S)
<1> HIDE DEF m
<1>5. m \in DOMAIN rel.names /\ rel.names[m] = c
  BY <1>4 DEF m
<1> QED
  BY <1>3, <1>5 DEF m, Maps

-----------------------------------------------------------------------------
(* Rules over facts.                                                        *)

\* What a condition on the facts asks for, as predicates of either backend.
Asks(preds, all) ==
  /\ Len(preds) = Len(all)
  /\ \A k \in 1 .. Len(all) : /\ preds[k].column = all[k][1] /\ preds[k].op = "eq"
                              /\ preds[k].value \in {Str(all[k][2]), Int64(all[k][2])}

AllPass(names, row, preds) == \A k \in 1 .. Len(preds) : Passes(names, row, preds[k])
AllMatch(f, all) == \A w \in ToSet(all) : TermValue(f, w[1]) = {w[2]}

\* A row passes the predicates of a rule where its fact matches.
LEMMA AsksWhatMatches ==
  ASSUME NEW db, Facts(db), NEW kind, NEW i \in OfKind(db, kind), NEW all \in Seq(Named \X Int),
         \A w \in ToSet(all) : FaithfulTerm(w[1]), NEW preds, Asks(preds, all)
  PROVE  AllPass(Columns(db, kind), ScanRow(db, kind, i), preds) <=> AllMatch(db[i], all)
<1>1. Len(all) \in Nat /\ DOMAIN all = 1 .. Len(all) /\ ToSet(all) = {all[k] : k \in 1 .. Len(all)}
  BY DEF ToSet
<1>2. ASSUME NEW k \in 1 .. Len(all)
      PROVE  Passes(Columns(db, kind), ScanRow(db, kind, i), preds[k]) <=> TermValue(db[i], all[k][1]) = {all[k][2]}
  <2> DEFINE c == all[k][1]
             n == all[k][2]
             v == FactCell(db, i, c)
             literal == preds[k].value
  <2>1. c \in Named /\ n \in Int /\ FaithfulTerm(c) /\ i \in DOMAIN db
    BY <1>1 DEF OfKind
  <2>2. preds[k].column = c /\ preds[k].op = "eq" /\ literal \in {Str(n), Int64(n)}
    BY DEF Asks
  <2>3. v \in Value /\ TermValue(db[i], c) = Text(v)
    BY <2>1, FactIs
  <2>4. Cell(Columns(db, kind), ScanRow(db, kind, i).cells, c) = v
    BY <2>1, CellIsFact
  <2> HIDE DEF c, n, v, literal
  <2>5. EvalCmp(v, "eq", literal) <=> Text(v) = {n}
    BY <2>1, <2>2, <2>3, PassesText
  <2>6. Passes(Columns(db, kind), ScanRow(db, kind, i), preds[k]) <=> EvalCmp(v, "eq", literal)
    BY <2>2, <2>4 DEF Passes, literal
  <2> QED BY <2>3, <2>5, <2>6 DEF c, n
<1>3. Len(preds) = Len(all)
  BY DEF Asks
<1> DEFINE Shows(k) == Passes(Columns(db, kind), ScanRow(db, kind, i), preds[k])
           Says(w) == TermValue(db[i], w[1]) = {w[2]}
<1>4. AllPass(Columns(db, kind), ScanRow(db, kind, i), preds) <=> \A k \in 1 .. Len(all) : Shows(k)
  BY <1>3 DEF AllPass
<1>5. AllMatch(db[i], all) <=> \A w \in ToSet(all) : Says(w)
  BY DEF AllMatch
<1>6. \A k \in 1 .. Len(all) : Shows(k) <=> Says(all[k])
  BY <1>2
<1> HIDE DEF Shows, Says
<1> QED
  BY <1>1, <1>4, <1>5, <1>6

\* A chain of filters leaves what passes all of them.
LEMMA FiltersRun ==
  ASSUME NEW rel, IsRel(rel), Own(rel.names), NEW T, NEW preds \in Seq(T)
  PROVE  /\ Run(rel, Filters(preds)).names = rel.names
         /\ Run(rel, Filters(preds)).rows =
              {row \in rel.rows : \A k \in 1 .. Len(preds) : Passes(rel.names, row, preds[k])}
         /\ \A N : Keeping(Filters(preds), N)
<1> DEFINE s == Filters(preds)
<1>1. /\ Steps(s) /\ Len(s) = Len(preds)
      /\ \A i \in 1 .. Len(preds) : s[i] = Filter(preds[i])
  BY FiltersSteps
<1> HIDE DEF s
<1>2. ASSUME NEW i \in 1 .. Len(s) PROVE s[i].op = "filter" /\ s[i].pred = preds[i]
  <2>1. s[i] = Filter(preds[i])
    BY <1>1
  <2> QED BY <2>1 DEF Filter
<1>3. Plain(s) /\ \A N : Keeping(s, N)
  BY <1>2 DEF Plain, Keeping
<1>4. Standing(Run(rel, s), rel, s, Len(s))
  BY <1>1, <1>3, PlainRun
<1>5. Run(rel, s) = Left(rel, s, Len(s))
  BY <1>2, <1>4 DEF Standing
<1>6. Left(rel, s, Len(s)).names = rel.names
      /\ Left(rel, s, Len(s)).rows =
           {row \in rel.rows : \A i \in 1 .. Len(s) : s[i].op = "filter" => Passes(rel.names, row, s[i].pred)}
  BY DEF Left
<1>7. \A row : (\A i \in 1 .. Len(s) : s[i].op = "filter" => Passes(rel.names, row, s[i].pred))
               <=> \A k \in 1 .. Len(preds) : Passes(rel.names, row, preds[k])
  BY <1>1, <1>2
<1> QED
  BY <1>3, <1>5, <1>6, <1>7 DEF s

\* The rows of a lowered rule.
Rows(r, db) == Materialized(Run(Leaf(Lowered(r)[1].from, db), Lowered(r)[1].steps))

\* A rule over facts finds the facts the interpreter finds.
LEMMA FactRulesAgree ==
  ASSUME NEW r \in Rules, r.type = "fact", Lowered(r) # <<>>, NEW db, Facts(db)
  PROVE  /\ Found(r, Rows(r, db), db) = Interpreted(r, db)
         /\ ProjectionsKeep(Lowered(r)[1], db)
<1> DEFINE kind == CHOOSE k \in r.inputs : TRUE
           all == r.all
           preds == [i \in DOMAIN all |-> [column |-> all[i][1], op |-> "eq",
                                           value |-> SchemaLiteral(kind, all[i][1], all[i][2])]]
           rel == ScanRel(db, kind)
           names == Columns(db, kind)
           out == Run(rel, Filters(preds))
<1>1. /\ Lowered(r) = <<Plan(Scan(kind).from, Filters(preds))>>
      /\ Cardinality(r.inputs) = 1 /\ r.not = <<>> /\ \A w \in ToSet(all) : FaithfulTerm(w[1])
  BY DEF Lowered, LowerFact
<1>2. all \in Seq(Named \X Int) /\ Len(all) \in Nat /\ DOMAIN all = 1 .. Len(all) /\ IsFiniteSet(r.inputs)
  BY RulesAssumption
<1>3. r.inputs = {kind}
  <2>1. \E x : r.inputs = {x}
    BY <1>1, <1>2, FS_Singleton
  <2> QED BY <2>1
<1>4. Scan(kind).from.op = "scan" /\ Scan(kind).from.kind = kind
  BY DEF Scan, Plan
<1>5. Lowered(r)[1].from = Scan(kind).from /\ Lowered(r)[1].steps = Filters(preds)
  <2> HIDE DEF preds, kind
  <2> QED BY <1>1, PlanIs
<1>6. Leaf(Scan(kind).from, db) = rel
  BY <1>4 DEF Leaf
<1>7. preds \in Seq({preds[i] : i \in 1 .. Len(all)}) /\ Asks(preds, all)
  <2> DEFINE E == {preds[i] : i \in 1 .. Len(all)}
  <2>1. preds = [i \in 1 .. Len(all) |-> preds[i]] /\ Len(preds) = Len(all)
    BY <1>2
  <2>2. \A i \in 1 .. Len(all) : /\ preds[i].column = all[i][1] /\ preds[i].op = "eq"
                                 /\ preds[i].value \in {Str(all[i][2]), Int64(all[i][2])}
    BY <1>2 DEF SchemaLiteral
  <2> HIDE DEF preds
  <2>3. preds \in Seq(E) /\ Len(preds) = Len(all)
    BY <1>2, <2>1
  <2> QED BY <2>2, <2>3 DEF Asks, E
<1>8. IsRel(rel) /\ rel.names = names /\ Own(names) /\ rel.rows = {ScanRow(db, kind, i) : i \in OfKind(db, kind)}
  <2>1. IsRel(rel)
    BY <1>4, <1>6, LeafIsRel DEF LeafOps
  <2> HIDE DEF kind
  <2>2. rel.names = names /\ rel.rows = {ScanRow(db, kind, i) : i \in OfKind(db, kind)}
    BY ScanIs
  <2>3. Own(names)
    BY ColumnsAre
  <2> QED BY <2>1, <2>2, <2>3
<1> HIDE DEF preds, rel, kind, all
<1>9. /\ out.names = names
      /\ out.rows = {row \in rel.rows : \A k \in 1 .. Len(all) : Passes(names, row, preds[k])}
      /\ \A N : Keeping(Filters(preds), N)
  <2>1. Len(preds) = Len(all)
    BY <1>7 DEF Asks
  <2> QED BY <1>7, <1>8, <2>1, FiltersRun
<1> DEFINE Good(i) == MatchesV1(db[i], r)
<1>10. ASSUME NEW i \in OfKind(db, kind)
       PROVE  (\A k \in 1 .. Len(all) : Passes(names, ScanRow(db, kind, i), preds[k])) <=> Good(i)
  <2>1. db[i].kind \in r.inputs
    BY <1>3 DEF OfKind
  <2>2. \A w \in ToSet(r.not) : FALSE
    BY <1>1 DEF ToSet
  <2>3. Good(i) <=> AllMatch(db[i], all)
    BY <2>1, <2>2 DEF MatchesV1, AllMatch, all
  <2>4. AllPass(Columns(db, kind), ScanRow(db, kind, i), preds) <=> AllMatch(db[i], all)
    BY <1>1, <1>2, <1>7, AsksWhatMatches
  <2>5. Len(preds) = Len(all)
    BY <1>7 DEF Asks
  <2> QED BY <2>3, <2>4, <2>5 DEF AllPass
<1>11. ASSUME NEW i \in OfKind(db, kind) PROVE AsMap(out, ScanRow(db, kind, i))[FactId].n = i
  <2>1. FactId \in ToSet(names)
    BY ColumnsAre
  <2> DEFINE row == ScanRow(db, kind, i)
  <2>2. \A p \in DOMAIN names : names[p] = FactId => row.cells[p] = Int64(i)
    BY DEF ScanRow, FactCell
  <2>3. AsMap(out, row)[FactId] = Int64(i)
    <3> HIDE DEF out, row, names
    <3>1. out.names = names /\ Own(out.names) /\ FactId \in ToSet(out.names)
      BY <1>8, <1>9, <2>1
    <3>2. Maps(out, row, FactId, Int64(i))
      BY <2>2, <3>1, MapAt
    <3> QED BY <3>2 DEF Maps
  <2> QED BY <2>3 DEF Int64
<1>12. Found(r, Rows(r, db), db) = {m[FactId].n : m \in {AsMap(out, row) : row \in out.rows}}
  <2>1. Rows(r, db) = Materialized(out)
    BY <1>5, <1>6 DEF Rows
  <2> HIDE DEF out
  <2>2. DOMAIN Rows(r, db) = {AsMap(out, row) : row \in out.rows}
    BY <2>1, MaterializedIs
  <2> QED BY <2>2 DEF Found
<1>13. Interpreted(r, db) = {i \in DOMAIN db : Good(i)}
  BY DEF Interpreted
<1>14. ASSUME NEW i \in DOMAIN db, Good(i) PROVE i \in OfKind(db, kind)
  <2>1. db[i].kind \in r.inputs
    BY <1>3, <1>14 DEF MatchesV1
  <2> QED BY <1>3, <2>1 DEF OfKind
<1>15. \A i \in OfKind(db, kind) : i \in DOMAIN db
  BY DEF OfKind
<1> DEFINE Line(i) == ScanRow(db, kind, i)
           Id(m) == m[FactId].n
           found == {Id(m) : m \in {AsMap(out, row) : row \in out.rows}}
<1>16. out.rows = {Line(i) : i \in {j \in OfKind(db, kind) : Good(j)}}
  <2> DEFINE Ok(row) == \A k \in 1 .. Len(all) : Passes(names, row, preds[k])
  <2>1. out.rows = {row \in {Line(i) : i \in OfKind(db, kind)} : Ok(row)}
    BY <1>8, <1>9
  <2>2. \A i \in OfKind(db, kind) : Ok(Line(i)) <=> Good(i)
    BY <1>10
  <2> HIDE DEF out, Ok, Good, Line
  <2> QED BY <2>1, <2>2
<1>17. \A i \in OfKind(db, kind) : Id(AsMap(out, Line(i))) = i
  BY <1>11
<1> HIDE DEF out, Line, Good, Id
<1>18. found = {i \in DOMAIN db : Good(i)}
  <2>1. ASSUME NEW i \in DOMAIN db, Good(i) PROVE i \in found
    <3>1. i \in OfKind(db, kind)
      BY <1>14, <2>1
    <3>2. Line(i) \in out.rows /\ Id(AsMap(out, Line(i))) = i
      BY <1>16, <1>17, <2>1, <3>1
    <3> QED BY <3>2
  <2>2. ASSUME NEW x \in found PROVE x \in DOMAIN db /\ Good(x)
    <3>1. PICK row \in out.rows : x = Id(AsMap(out, row))
      OBVIOUS
    <3>2. PICK i \in OfKind(db, kind) : Good(i) /\ row = Line(i)
      BY <1>16, <3>1
    <3> QED BY <1>15, <1>17, <3>1, <3>2
  <2> HIDE DEF found
  <2> QED BY <2>1, <2>2
<1>19. Found(r, Rows(r, db), db) = found
  BY <1>12 DEF Id
<1>20. ProjectionsKeep(Lowered(r)[1], db)
  BY <1>5, <1>9 DEF ProjectionsKeep
<1> QED
  BY <1>13, <1>18, <1>19, <1>20

-----------------------------------------------------------------------------
(* Groups.                                                                  *)

\* A fact of the rule's that shows g and v.
Belongs(r, db, i, g, v) ==
  MatchesV1(db[i], r) /\ TermValue(db[i], r.by) = {g} /\ TermValue(db[i], r.of) = {v}

\* A value displays one number, or none.
LEMMA TextIs ==
  ASSUME NEW v, NEW n
  PROVE  Text(v) = {n} <=> v # Null /\ v.n = n
  BY DEF Text

\* The pairs the columnar operator counts.
PairsOf(rel, from) ==
  {<<Cell(rel.names, row.cells, from.by), Cell(rel.names, row.cells, from.of)>> :
     row \in {x \in rel.rows : \A f \in ToSet(from.filters) : Passes(rel.names, x, f)}}
Full(db, from) ==
  {<<p[1].n, p[2].n>> :
     p \in {q \in UNION {PairsOf(ScanRel(db, k), from) : k \in from.kinds} : q[1] # Null /\ q[2] # Null}}
Groups(db, from) ==
  {g \in {x[1] : x \in Full(db, from)} : Cardinality({x \in Full(db, from) : x[1] = g}) >= from.min}

\* The groups the columnar operator yields.
LEMMA GroupDistinctIs ==
  ASSUME NEW db, NEW from
  PROVE  GroupDistinctRel(db, from) =
           [names |-> <<from.by>>, rows |-> {[id |-> g, cells |-> <<Str(g)>>] : g \in Groups(db, from)}]
  BY Zenon DEF GroupDistinctRel, Groups, Full, PairsOf

\* The operator a group rule is lowered to.
GroupOperator(r, from) ==
  /\ from.kinds = r.inputs /\ from.by = r.by /\ from.of = r.of /\ from.min = r.min
  /\ Asks(from.filters, r.all) /\ from.filters \in Seq(ToSet(from.filters))
  /\ r.inputs # {} /\ r.not = <<>> /\ r.all \in Seq(Named \X Int)
  /\ r.by \in Named /\ r.of \in Named /\ r.min \in Nat \ {0}
  /\ FaithfulTerm(r.by) /\ FaithfulTerm(r.of) /\ \A w \in ToSet(r.all) : FaithfulTerm(w[1])

\* A row is counted where its fact matches.
LEMMA FiltersMatch ==
  ASSUME NEW r, NEW from, GroupOperator(r, from), NEW db, Facts(db), NEW kind \in r.inputs, NEW i \in OfKind(db, kind)
  PROVE  (\A f \in ToSet(from.filters) : Passes(Columns(db, kind), ScanRow(db, kind, i), f)) <=> MatchesV1(db[i], r)
<1> DEFINE all == r.all
           preds == from.filters
           Good(f) == Passes(Columns(db, kind), ScanRow(db, kind, i), f)
<1>1. all \in Seq(Named \X Int) /\ (\A w \in ToSet(all) : FaithfulTerm(w[1])) /\ Asks(preds, all)
  BY DEF GroupOperator
<1>2. AllPass(Columns(db, kind), ScanRow(db, kind, i), preds) <=> AllMatch(db[i], all)
  <2> HIDE DEF all, preds
  <2> QED BY <1>1, AsksWhatMatches
<1>3. (\A f \in ToSet(preds) : Good(f)) <=> AllPass(Columns(db, kind), ScanRow(db, kind, i), preds)
  <2>1. DOMAIN preds = 1 .. Len(all)
    BY <1>1 DEF Asks, GroupOperator
  <2>2. ToSet(preds) = {preds[k] : k \in 1 .. Len(preds)}
    BY <2>1, <1>1 DEF ToSet, Asks
  <2>3. AllPass(Columns(db, kind), ScanRow(db, kind, i), preds) <=> \A k \in 1 .. Len(preds) : Good(preds[k])
    BY DEF AllPass
  <2> HIDE DEF Good, preds
  <2> QED BY <2>2, <2>3
<1>4. MatchesV1(db[i], r) <=> AllMatch(db[i], all)
  <2>1. db[i].kind \in r.inputs
    BY DEF OfKind
  <2>2. \A w \in ToSet(r.not) : FALSE
    BY DEF ToSet, GroupOperator
  <2> QED BY <2>1, <2>2 DEF MatchesV1, AllMatch, all
<1> QED
  BY <1>2, <1>3, <1>4

\* The pairs of one kind.
LEMMA PairsAre ==
  ASSUME NEW r, NEW from, GroupOperator(r, from), NEW db, Facts(db), NEW kind \in r.inputs
  PROVE  PairsOf(ScanRel(db, kind), from) =
           {<<FactCell(db, i, r.by), FactCell(db, i, r.of)>> : i \in {j \in OfKind(db, kind) : MatchesV1(db[j], r)}}
<1> DEFINE names == Columns(db, kind)
           Line(i) == ScanRow(db, kind, i)
           Ok(row) == \A f \in ToSet(from.filters) : Passes(names, row, f)
           Good(i) == MatchesV1(db[i], r)
           Pair(row) == <<Cell(names, row.cells, from.by), Cell(names, row.cells, from.of)>>
           Both(i) == <<FactCell(db, i, r.by), FactCell(db, i, r.of)>>
           O == OfKind(db, kind)
<1>1. ScanRel(db, kind).names = names /\ ScanRel(db, kind).rows = {Line(i) : i \in O}
  BY ScanIs
<1>2. PairsOf(ScanRel(db, kind), from) = {Pair(row) : row \in {x \in {Line(i) : i \in O} : Ok(x)}}
  BY <1>1 DEF PairsOf
<1>3. \A i \in O : Ok(Line(i)) <=> Good(i)
  BY FiltersMatch
<1>4. ASSUME NEW i \in O PROVE Pair(Line(i)) = Both(i)
  <2>1. r.by \in Named \union {FactId} /\ r.of \in Named \union {FactId} /\ from.by = r.by /\ from.of = r.of
    BY DEF GroupOperator
  <2>2. Cell(names, Line(i).cells, r.by) = FactCell(db, i, r.by)
    BY <2>1, CellIsFact
  <2>3. Cell(names, Line(i).cells, r.of) = FactCell(db, i, r.of)
    BY <2>1, CellIsFact
  <2> HIDE DEF names, Line
  <2> QED BY <2>1, <2>2, <2>3
<1> HIDE DEF names, Line, Ok, Good, Pair, Both, O
<1>5. {Pair(row) : row \in {x \in {Line(i) : i \in O} : Ok(x)}} = {Both(i) : i \in {j \in O : Good(j)}}
  BY <1>3, <1>4
<1> QED
  BY <1>2, <1>5 DEF Both, O, Good

\* The pairs of all kinds that are complete.
LEMMA FullIs ==
  ASSUME NEW r, NEW from, GroupOperator(r, from), NEW db, Facts(db)
  PROVE  /\ \A g, v : <<g, v>> \in Full(db, from) <=> \E i \in DOMAIN db : Belongs(r, db, i, g, v)
         /\ \A x \in Full(db, from) : x = <<x[1], x[2]>>
<1> DEFINE A(i) == FactCell(db, i, r.by)
           B(i) == FactCell(db, i, r.of)
           Good(i) == MatchesV1(db[i], r)
           pairs == UNION {PairsOf(ScanRel(db, k), from) : k \in from.kinds}
<1>1. pairs = {<<A(i), B(i)>> : i \in {j \in DOMAIN db : Good(j)}}
  <2>1. from.kinds = r.inputs /\ r.inputs # {}
    BY DEF GroupOperator
  <2>2. \A k \in r.inputs : PairsOf(ScanRel(db, k), from) = {<<A(i), B(i)>> : i \in {j \in OfKind(db, k) : Good(j)}}
    BY PairsAre
  <2>3. \A j \in DOMAIN db : Good(j) => \E k \in r.inputs : j \in OfKind(db, k)
    BY <2>1 DEF OfKind, MatchesV1
  <2>4. \A k \in r.inputs : OfKind(db, k) \subseteq DOMAIN db
    BY DEF OfKind
  <2> HIDE DEF A, B, Good
  <2> QED BY <2>1, <2>2, <2>3, <2>4
<1>2. ASSUME NEW i \in DOMAIN db
      PROVE  /\ \A g : TermValue(db[i], r.by) = {g} <=> A(i) # Null /\ A(i).n = g
             /\ \A v : TermValue(db[i], r.of) = {v} <=> B(i) # Null /\ B(i).n = v
  <2>1. TermValue(db[i], r.by) = Text(A(i)) /\ TermValue(db[i], r.of) = Text(B(i))
    BY FactIs DEF GroupOperator
  <2> HIDE DEF A, B
  <2> QED BY <2>1, TextIs
<1>3. Full(db, from) = {<<p[1].n, p[2].n>> : p \in {q \in pairs : q[1] # Null /\ q[2] # Null}}
  BY DEF Full
<1> HIDE DEF A, B, Good, pairs
<1>4. Full(db, from) = {<<A(i).n, B(i).n>> : i \in {j \in DOMAIN db : Good(j) /\ A(j) # Null /\ B(j) # Null}}
  <2> DEFINE Tidy(q) == <<q[1].n, q[2].n>>
             Fine(q) == q[1] # Null /\ q[2] # Null
             Both(i) == <<A(i), B(i)>>
  <2>1. \A i : Tidy(Both(i)) = <<A(i).n, B(i).n>> /\ (Fine(Both(i)) <=> A(i) # Null /\ B(i) # Null)
    OBVIOUS
  <2>2. Full(db, from) = {Tidy(p) : p \in {q \in {Both(i) : i \in {j \in DOMAIN db : Good(j)}} : Fine(q)}}
    BY <1>1, <1>3
  <2> HIDE DEF Tidy, Fine, Both
  <2> QED BY <2>1, <2>2
<1>5. \A x \in Full(db, from) : x = <<x[1], x[2]>>
  BY <1>4
<1>6. ASSUME NEW g, NEW v
      PROVE  <<g, v>> \in Full(db, from) <=> \E i \in DOMAIN db : Belongs(r, db, i, g, v)
  <2>1. <<g, v>> \in Full(db, from) <=>
          \E i \in DOMAIN db : Good(i) /\ A(i) # Null /\ B(i) # Null /\ A(i).n = g /\ B(i).n = v
    BY <1>4
  <2>2. \A i \in DOMAIN db : Belongs(r, db, i, g, v) <=>
                             Good(i) /\ A(i) # Null /\ A(i).n = g /\ B(i) # Null /\ B(i).n = v
    BY <1>2 DEF Belongs, Good
  <2> QED BY <2>1, <2>2
<1> QED
  BY <1>5, <1>6

\* The image of a finite set is finite and no larger.
LEMMA ImageIsFinite ==
  ASSUME NEW S, IsFiniteSet(S), NEW f, DOMAIN f = S
  PROVE  IsFiniteSet({f[x] : x \in S}) /\ Cardinality({f[x] : x \in S}) <= Cardinality(S)
<1> DEFINE T == {f[x] : x \in S}
           g == [x \in S |-> f[x]]
<1>1. g \in Surjection(S, T)
  BY DEF Surjection
<1> HIDE DEF g, T
<1>2. IsFiniteSet(T) /\ Cardinality(T) <= Cardinality(S)
  BY <1>1, FS_Surjection
<1> QED
  BY <1>2 DEF T

\* What the interpreter asks of a group.
ValuesOf(r, db, g) ==
  UNION {TermValue(db[i], r.of) : i \in {j \in DOMAIN db : MatchesV1(db[j], r) /\ TermValue(db[j], r.by) = {g}}}

\* The distinct values of a group.
LEMMA ValuesAre ==
  ASSUME NEW r, NEW db, Facts(db), NEW g
  PROVE  /\ IsFiniteSet(ValuesOf(r, db, g))
         /\ \A v : v \in ValuesOf(r, db, g) <=> \E i \in DOMAIN db : Belongs(r, db, i, g, v)
<1> DEFINE M == {j \in DOMAIN db : MatchesV1(db[j], r) /\ TermValue(db[j], r.by) = {g}}
           T(i) == TermValue(db[i], r.of)
<1>1. \A i : T(i) = {} \/ \E n : T(i) = {n}
  BY DEF TermValue, Text
<1>2. IsFiniteSet(M)
  <2>1. DOMAIN db = 1 .. Len(db) /\ Len(db) \in Nat
    BY DEF Facts
  <2>2. IsFiniteSet(1 .. Len(db))
    BY <2>1, FS_Interval
  <2>3. M \in SUBSET (1 .. Len(db))
    BY <2>1
  <2> HIDE DEF M
  <2> QED BY <2>2, <2>3, FS_Subset
<1>3. \A v : v \in ValuesOf(r, db, g) <=> \E i \in M : v \in T(i)
  BY DEF ValuesOf
<1>4. \A i, v : v \in T(i) <=> T(i) = {v}
  <2> HIDE DEF T
  <2> QED BY <1>1
<1>5. \A v : v \in ValuesOf(r, db, g) <=> \E i \in DOMAIN db : Belongs(r, db, i, g, v)
  <2>1. \A i, v : Belongs(r, db, i, g, v) <=> (MatchesV1(db[i], r) /\ TermValue(db[i], r.by) = {g}) /\ T(i) = {v}
    BY DEF Belongs
  <2> HIDE DEF T
  <2> QED BY <1>3, <1>4, <2>1
<1>6. IsFiniteSet(ValuesOf(r, db, g))
  <2> DEFINE S == {T(i) : i \in M}
  <2>1. IsFiniteSet(S)
    <3> DEFINE f == [i \in M |-> T(i)]
    <3>1. DOMAIN f = M /\ S = {f[i] : i \in M}
      OBVIOUS
    <3> HIDE DEF f, M, S
    <3> QED BY <1>2, <3>1, ImageIsFinite
  <2>2. \A X \in S : IsFiniteSet(X)
    <3>1. ASSUME NEW i PROVE IsFiniteSet(T(i))
      <4> HIDE DEF T
      <4>1. CASE T(i) = {}
        BY <4>1, FS_EmptySet
      <4>2. CASE \E n : T(i) = {n}
        BY <4>2, FS_Singleton
      <4> QED BY <1>1, <4>1, <4>2
    <3> HIDE DEF T
    <3> QED BY <3>1
  <2>3. ValuesOf(r, db, g) = UNION S
    BY DEF ValuesOf
  <2> HIDE DEF S
  <2> QED BY <2>1, <2>2, <2>3, FS_UNION
<1> QED
  BY <1>5, <1>6

\* A group with enough values is among the columnar ones.
LEMMA GroupsAre ==
  ASSUME NEW r, NEW from, GroupOperator(r, from), NEW db, Facts(db), NEW g, Cardinality(ValuesOf(r, db, g)) >= r.min
  PROVE  g \in Groups(db, from)
<1> DEFINE V == ValuesOf(r, db, g)
           X == {x \in Full(db, from) : x[1] = g}
<1>1. IsFiniteSet(V) /\ \A v : v \in V <=> \E i \in DOMAIN db : Belongs(r, db, i, g, v)
  BY ValuesAre
<1>2. /\ \A h, v : <<h, v>> \in Full(db, from) <=> \E i \in DOMAIN db : Belongs(r, db, i, h, v)
      /\ \A x \in Full(db, from) : x = <<x[1], x[2]>>
  BY FullIs
<1> HIDE DEF V
<1>3. X = {<<g, v>> : v \in V}
  <2>1. ASSUME NEW v \in V PROVE <<g, v>> \in X
    BY <1>1, <1>2, <2>1
  <2>2. ASSUME NEW x \in X PROVE x \in {<<g, v>> : v \in V}
    <3>1. x = <<g, x[2]>> /\ <<g, x[2]>> \in Full(db, from)
      BY <1>2
    <3>2. x[2] \in V
      BY <1>1, <1>2, <3>1
    <3> QED BY <3>1, <3>2
  <2> HIDE DEF X
  <2> QED BY <2>1, <2>2
<1> HIDE DEF X
<1>4. IsFiniteSet(X) /\ Cardinality(X) = Cardinality(V)
  <2> DEFINE f == [v \in V |-> <<g, v>>]
  <2>1. f \in Bijection(V, X)
    <3>1. f \in [V -> X] /\ \A x \in X : \E v \in V : f[v] = x
      BY <1>3
    <3>2. \A a, b \in V : f[a] = f[b] => a = b
      OBVIOUS
    <3> HIDE DEF f
    <3> QED BY <3>1, <3>2 DEF Bijection, Injection, Surjection, IsInjective
  <2>2. ExistsBijection(V, X)
    <3> HIDE DEF f
    <3> QED BY <2>1 DEF ExistsBijection
  <2> QED BY <1>1, <2>2, FS_Bijection
<1>7. r.min \in Nat \ {0} /\ from.min = r.min /\ Cardinality(V) >= r.min
  BY DEF GroupOperator, V
<1>8. Cardinality(V) \in Nat /\ Cardinality(X) \in Nat
  BY <1>1, <1>4, FS_CardinalityType
<1>9. V # {}
  <2>1. Cardinality(V) # 0
    BY <1>7, <1>8
  <2> QED BY <2>1, FS_EmptySet
<1>10. Cardinality(X) >= from.min
  BY <1>4, <1>7, <1>8
<1>11. g \in {x[1] : x \in Full(db, from)}
  <2>1. PICK v : v \in V
    BY <1>9
  <2>2. <<g, v>> \in Full(db, from) /\ <<g, v>>[1] = g
    BY <1>1, <1>2, <2>1
  <2> QED BY <2>2
<1> QED
  BY <1>10, <1>11 DEF Groups, X

\* A rule over groups finds the groups the interpreter finds.
LEMMA GroupRulesAgree ==
  ASSUME NEW r \in Rules, r.type = "group", Lowered(r) # <<>>, NEW db, Facts(db)
  PROVE  Found(r, Rows(r, db), db) = Interpreted(r, db) /\ Lowered(r)[1].steps = <<>>
<1> DEFINE preds == [i \in DOMAIN r.all |-> [column |-> r.all[i][1], op |-> "eq", value |-> Str(r.all[i][2])]]
           from == [op |-> "groupdistinct", kinds |-> r.inputs, by |-> r.by, of |-> r.of, min |-> r.min,
                    filters |-> preds]
           wanted == UNION {TermValue(db[i], r.by) : i \in DOMAIN db}
           members(g) == {i \in DOMAIN db : MatchesV1(db[i], r) /\ TermValue(db[i], r.by) = {g}}
           Enough(g) == members(g) # {} /\ Cardinality(ValuesOf(r, db, g)) >= r.min
<1>1. /\ Lowered(r) = <<Plan(from, <<>>)>>
      /\ r.inputs # {} /\ r.not = <<>> /\ FaithfulTerm(r.by) /\ FaithfulTerm(r.of)
      /\ \A w \in ToSet(r.all) : FaithfulTerm(w[1])
  BY DEF Lowered, LowerGroup
<1>2. r.all \in Seq(Named \X Int) /\ r.by \in Named /\ r.of \in Named /\ r.min \in Nat \ {0}
  BY RulesAssumption
<1>3. Asks(preds, r.all) /\ preds \in Seq(ToSet(preds))
  <2>1. Len(r.all) \in Nat /\ DOMAIN r.all = 1 .. Len(r.all)
    BY <1>2
  <2>2. preds = [k \in 1 .. Len(r.all) |-> preds[k]] /\ Len(preds) = Len(r.all)
    BY <2>1
  <2>3. \A k \in 1 .. Len(r.all) : preds[k].column = r.all[k][1] /\ preds[k].op = "eq" /\ preds[k].value = Str(r.all[k][2])
    BY <2>1
  <2> HIDE DEF preds
  <2>4. preds \in Seq({preds[k] : k \in 1 .. Len(r.all)})
    BY <2>1, <2>2
  <2> QED BY <2>2, <2>3, <2>4, SeqOwn DEF Asks
<1>4. GroupOperator(r, from)
  <2> HIDE DEF preds
  <2> QED BY <1>1, <1>2, <1>3 DEF GroupOperator
<1>5. Rows(r, db) = Materialized(GroupDistinctRel(db, from)) /\ Lowered(r)[1].steps = <<>>
  <2>1. from.op = "groupdistinct"
    OBVIOUS
  <2> HIDE DEF from
  <2>2. Lowered(r)[1].from = from /\ Lowered(r)[1].steps = <<>>
    BY <1>1, PlanIs
  <2>3. Leaf(from, db) = GroupDistinctRel(db, from)
    BY <2>1 DEF Leaf
  <2> QED BY <2>2, <2>3, RunNothing DEF Rows
<1>6. from.by = r.by
  OBVIOUS
<1> HIDE DEF from, preds
<1> DEFINE groups == Groups(db, from)
           rel == GroupDistinctRel(db, from)
           Line(g) == [id |-> g, cells |-> <<Str(g)>>]
<1>7. {row[r.by].n : row \in DOMAIN Rows(r, db)} = groups
  <2>1. rel.names = <<r.by>> /\ rel.rows = {Line(g) : g \in groups}
    BY <1>6, GroupDistinctIs
  <2>2. ASSUME NEW g PROVE AsMap(rel, Line(g))[r.by].n = g
    <3>1. Own(rel.names) /\ r.by \in ToSet(rel.names) /\ DOMAIN rel.names = {1}
      <4>1. ToSet(<<r.by>>) = {r.by} /\ <<r.by>> \in Seq({r.by}) /\ DOMAIN <<r.by>> = {1}
        BY DEF ToSet
      <4> QED BY <2>1, <4>1 DEF Own
    <3>2. Line(g).cells[1] = Str(g)
      OBVIOUS
    <3> HIDE DEF rel, Line
    <3>3. Maps(rel, Line(g), r.by, Str(g))
      BY <3>1, <3>2, MapAt
    <3> QED BY <3>3 DEF Maps, Str
  <2>3. DOMAIN Rows(r, db) = {AsMap(rel, row) : row \in rel.rows}
    BY <1>5, MaterializedIs
  <2> HIDE DEF rel, Line, groups
  <2> QED BY <2>1, <2>2, <2>3
<1>8. ASSUME NEW g, Enough(g) PROVE g \in groups /\ g \in wanted
  <2>1. g \in groups
    BY <1>4, <1>8, GroupsAre
  <2>2. g \in wanted
    BY <1>8
  <2> QED BY <2>1, <2>2
<1>9. \A W : GroupsOf(r, db, W) = {[group |-> g, members |-> members(g)] : g \in {h \in W : Enough(h)}}
  BY Zenon DEF GroupsOf, ValuesOf
<1>10. {h \in groups : Enough(h)} = {h \in wanted : Enough(h)}
  <2> HIDE DEF groups, wanted, Enough
  <2> QED BY <1>8
<1>11. Found(r, Rows(r, db), db) = GroupsOf(r, db, groups) /\ Interpreted(r, db) = GroupsOf(r, db, wanted)
  <2>1. Found(r, Rows(r, db), db) = GroupsOf(r, db, {row[r.by].n : row \in DOMAIN Rows(r, db)})
    BY DEF Found
  <2>2. Interpreted(r, db) = GroupsOf(r, db, wanted)
    BY DEF Interpreted
  <2> HIDE DEF groups, wanted
  <2> QED BY <1>7, <2>1, <2>2
<1> HIDE DEF groups, wanted, members, Enough
<1> QED
  BY <1>5, <1>9, <1>10, <1>11

-----------------------------------------------------------------------------
(* Conditions.  f is what the nodes of one come to: a verdict, an answer or  *)
(* the keys it makes mandatory.                                              *)

NodeOf(what, c, env, f, i) ==
  IF what = "verdict" THEN Verdict(c, env, f, i)
  ELSE IF what = "answer" THEN Answer(c, env, f, i) ELSE NodeKeys(c, f, i)

Nodes(f, what, c, env, n) == f = [i \in 1 .. n |-> NodeOf(what, c, env, f, i)]

\* A node depends on those before it.
LEMMA NodeSame ==
  ASSUME NEW what, NEW c, IsCondition(c), NEW env, NEW i \in DOMAIN c, NEW f, NEW g, \A k \in 1 .. i - 1 : f[k] = g[k]
  PROVE  NodeOf(what, c, env, f, i) = NodeOf(what, c, env, g, i)
<1>1. /\ c[i].is \in {"and", "or"} => f[c[i].left] = g[c[i].left] /\ f[c[i].right] = g[c[i].right]
      /\ c[i].is = "not" => f[c[i].of] = g[c[i].of]
  BY DEF IsCondition
<1>2. Verdict(c, env, f, i) = Verdict(c, env, g, i)
  <2>1. CASE c[i].is \in {"and", "or", "not"}
    BY <1>1, <2>1 DEF Verdict
  <2>2. CASE c[i].is \notin {"and", "or", "not"}
    BY <2>2 DEF Verdict
  <2> QED BY <2>1, <2>2
<1>3. Answer(c, env, f, i) = Answer(c, env, g, i)
  <2>1. CASE c[i].is \in {"and", "or", "not"}
    BY <1>1, <2>1 DEF Answer
  <2>2. CASE c[i].is \notin {"and", "or", "not"}
    BY <2>2 DEF Answer
  <2> QED BY <2>1, <2>2
<1>4. NodeKeys(c, f, i) = NodeKeys(c, g, i)
  BY <1>1 DEF NodeKeys
<1> QED
  BY <1>2, <1>3, <1>4 DEF NodeOf

\* So there is one function for all the nodes.
LEMMA NodesExist ==
  ASSUME NEW what, NEW c, IsCondition(c), NEW env
  PROVE  \E f : Nodes(f, what, c, env, Len(c))
<1> DEFINE Good == {n \in 0 .. Len(c) : \E f : Nodes(f, what, c, env, n)}
           l == Len(c)
<1>0. l \in Nat /\ DOMAIN c = 1 .. l
  BY DEF IsCondition
<1>1. 0 \in Good
  <2> DEFINE f == [k \in 1 .. 0 |-> 0]
  <2>1. Nodes(f, what, c, env, 0)
    BY DEF Nodes
  <2> HIDE DEF f
  <2> QED BY <1>0, <2>1
<1>2. ASSUME NEW m \in 1 .. l, m - 1 \in Good PROVE m \in Good
  <2>1. PICK f : Nodes(f, what, c, env, m - 1)
    BY <1>2
  <2> DEFINE g == [k \in 1 .. m |-> IF k = m THEN NodeOf(what, c, env, f, m) ELSE f[k]]
  <2>2. ASSUME NEW k \in 1 .. m PROVE g[k] = NodeOf(what, c, env, g, k)
    <3>1. k \in DOMAIN c
      BY <1>0
    <3>2. \A j \in 1 .. k - 1 : f[j] = g[j]
      OBVIOUS
    <3>3. g[k] = NodeOf(what, c, env, f, k)
      <4>1. CASE k = m
        BY <4>1
      <4>2. CASE k # m
        <5>1. k \in 1 .. m - 1
          BY <4>2
        <5>2. f[k] = NodeOf(what, c, env, f, k)
          BY <2>1, <5>1 DEF Nodes
        <5> QED BY <4>2, <5>2
      <4> QED BY <4>1, <4>2
    <3> HIDE DEF g
    <3> QED BY <3>1, <3>2, <3>3, NodeSame
  <2>3. Nodes(g, what, c, env, m)
    <3>1. g = [k \in 1 .. m |-> g[k]]
      OBVIOUS
    <3> HIDE DEF g
    <3> QED BY <2>2, <3>1 DEF Nodes
  <2> HIDE DEF g
  <2> QED BY <2>3
<1>3. l \in Good
  <2> HIDE DEF Good
  <2>1. \A m \in 0 .. l : m \in Good
    BY <1>0, <1>1, <1>2, Counting
  <2> QED BY <1>0, <2>1
<1> QED
  BY <1>3

\* Verdicts, answers and mandatory keys are such functions.
LEMMA VerdictsAre ==
  ASSUME NEW c, IsCondition(c), NEW env
  PROVE  /\ Nodes(Verdicts(c, env), "verdict", c, env, Len(c))
         /\ Nodes(Answers(c, env), "answer", c, env, Len(c))
         /\ \E f : Nodes(f, "keys", c, env, Len(c)) /\ MandatoryKeys(c) = f[Len(c)]
<1>0. DOMAIN c = 1 .. Len(c)
  BY DEF IsCondition
<1>1. Nodes(Verdicts(c, env), "verdict", c, env, Len(c))
  <2> DEFINE P(f) == f = [i \in DOMAIN c |-> Verdict(c, env, f, i)]
  <2>1. \A f : Nodes(f, "verdict", c, env, Len(c)) <=> P(f)
    BY <1>0 DEF Nodes, NodeOf
  <2>2. \E f : P(f)
    BY <2>1, NodesExist
  <2>3. Verdicts(c, env) = CHOOSE f : P(f)
    BY DEF Verdicts
  <2> HIDE DEF P
  <2> QED BY <2>1, <2>2, <2>3
<1>2. Nodes(Answers(c, env), "answer", c, env, Len(c))
  <2> DEFINE P(f) == f = [i \in DOMAIN c |-> Answer(c, env, f, i)]
  <2>1. \A f : Nodes(f, "answer", c, env, Len(c)) <=> P(f)
    BY <1>0 DEF Nodes, NodeOf
  <2>2. \E f : P(f)
    BY <2>1, NodesExist
  <2>3. Answers(c, env) = CHOOSE f : P(f)
    BY DEF Answers
  <2> HIDE DEF P
  <2> QED BY <2>1, <2>2, <2>3
<1>3. \E f : Nodes(f, "keys", c, env, Len(c)) /\ MandatoryKeys(c) = f[Len(c)]
  <2> DEFINE P(f) == f = [i \in DOMAIN c |-> NodeKeys(c, f, i)]
  <2>1. \A f : Nodes(f, "keys", c, env, Len(c)) <=> P(f)
    BY <1>0 DEF Nodes, NodeOf
  <2>2. \E f : P(f)
    BY <2>1, NodesExist
  <2>3. MandatoryKeys(c) = (CHOOSE f : P(f))[Len(c)]
    BY DEF MandatoryKeys
  <2> HIDE DEF P
  <2> QED BY <2>1, <2>2, <2>3
<1> QED
  BY <1>1, <1>2, <1>3

-----------------------------------------------------------------------------
(* Where the two backends read a condition alike.                           *)

\* An order is read alike within a type.
Comparable(a, op, b) == a # Null /\ b # Null /\ op \notin {"eq", "ne"} => (Numeric(a) <=> Numeric(b))

\* A verdict for an answer; a missing answer is none.
Agrees(n, verdicts, answers) ==
  /\ verdicts[n] \in BOOLEAN /\ answers[n] \in {{}, {TRUE}, {FALSE}}
  /\ verdicts[n] <=> answers[n] = {TRUE}

ReadsAlike(env, pair, term) == Resolve(env, term) \in Value /\ Operand(pair, term) = Text(Resolve(env, term))

\* A comparison holds or does not.
LEMMA HoldsOrNot ==
  ASSUME NEW a, NEW b, NEW op \in Comparisons
  PROVE  Holds(a, op, b) \in BOOLEAN
<1>1. CASE op = "eq"
  BY <1>1 DEF Holds
<1>2. CASE op = "ne"
  BY <1>2 DEF Holds
<1>3. CASE op = "lt"
  BY <1>3 DEF Holds
<1>4. CASE op = "le"
  BY <1>4 DEF Holds
<1>5. CASE op = "gt"
  BY <1>5 DEF Holds
<1>6. CASE op = "ge"
  BY <1>6 DEF Holds
<1> QED
  BY <1>1, <1>2, <1>3, <1>4, <1>5, <1>6 DEF Comparisons

\* An answer chooses how to go on.
Choice(S, P, Q) == UNION {IF a THEN P ELSE Q : a \in S}

\* What is chosen by a set of answers: one branch, the other, or both.
LEMMA Choosing ==
  ASSUME NEW S \in {{}, {TRUE}, {FALSE}}, NEW P, NEW Q
  PROVE  Choice(S, P, Q) = IF S = {} THEN {} ELSE IF S = {TRUE} THEN P ELSE Q
<1> DEFINE Going(a) == IF a THEN P ELSE Q
<1>1. Going(TRUE) = P /\ Going(FALSE) = Q
  OBVIOUS
<1>2. Choice(S, P, Q) = UNION {Going(a) : a \in S}
  BY DEF Choice
<1>3. {TRUE} # {FALSE} /\ {TRUE} # {} /\ {FALSE} # {}
  <2>1. FALSE \notin {TRUE} /\ FALSE \in {FALSE} /\ TRUE \in {TRUE}
    OBVIOUS
  <2> QED BY <2>1
<1> HIDE DEF Going
<1>4. CASE S = {}
  BY <1>2, <1>4
<1>5. CASE S = {TRUE}
  <2>1. {Going(a) : a \in S} = {P}
    BY <1>1, <1>5
  <2> QED BY <1>2, <1>3, <1>5, <2>1
<1>6. CASE S = {FALSE}
  <2>1. {Going(a) : a \in S} = {Q}
    BY <1>1, <1>6
  <2>2. Choice(S, P, Q) = Q
    BY <1>2, <2>1
  <2> QED BY <1>3, <1>6, <2>2
<1> QED
  BY <1>4, <1>5, <1>6

\* Comparable values compare alike in both backends.
LEMMA ComparisonsAgree ==
  ASSUME NEW a \in Value, NEW b \in Value, NEW op \in Comparisons, Comparable(a, op, b),
         NEW S, S = {Holds(p[1], op, p[2]) : p \in Text(a) \X Text(b)}
  PROVE  S \in {{}, {TRUE}, {FALSE}} /\ (EvalCmp(a, op, b) <=> S = {TRUE})
<1>1. CASE a = Null \/ b = Null
  <2>1. S = {} /\ ~EvalCmp(a, op, b)
    BY <1>1 DEF Text, EvalCmp
  <2> QED BY <2>1
<1>2. CASE a # Null /\ b # Null
  <2>1. a.n \in Int /\ b.n \in Int
    BY DEF Value
  <2>2. S = {Holds(a.n, op, b.n)}
    <3>1. Text(a) = {a.n} /\ Text(b) = {b.n}
      BY <1>2 DEF Text
    <3>2. S = {Holds(p[1], op, p[2]) : p \in {a.n} \X {b.n}}
      BY <3>1
    <3>3. {a.n} \X {b.n} = {<<a.n, b.n>>}
      OBVIOUS
    <3> QED BY <3>2, <3>3
  <2>3. Holds(a.n, op, b.n) \in BOOLEAN
    BY HoldsOrNot
  <2>4. EvalCmp(a, op, b) <=> Holds(a.n, op, b.n)
    <3>1. op \in {"eq", "ne"} \/ Numeric(a) = Numeric(b)
      BY <1>2 DEF Comparable, Numeric
    <3> QED BY <1>2, <3>1 DEF EvalCmp
  <2> DEFINE h == Holds(a.n, op, b.n)
             e == EvalCmp(a, op, b)
  <2>5. S = {h} /\ h \in BOOLEAN /\ (e <=> h)
    BY <2>2, <2>3, <2>4
  <2> HIDE DEF h, e
  <2>6. S \in {{}, {TRUE}, {FALSE}} /\ (e <=> S = {TRUE})
    BY <2>5
  <2> QED BY <2>6 DEF e
<1> QED
  BY <1>1, <1>2

\* A node agrees when those before it do.
LEMMA NodeAgrees ==
  ASSUME NEW c, IsCondition(c), Faithful(c), NEW env, NEW pair,
         \A t \in Term : FaithfulTerm(t.column) => ReadsAlike(env, pair, t),
         NEW V, NEW A, NEW n \in DOMAIN c, \A k \in 1 .. n - 1 : Agrees(k, V, A),
         V[n] = Verdict(c, env, V, n), A[n] = Answer(c, pair, A, n),
         c[n].is = "cmp" => Comparable(Resolve(env, c[n].term), c[n].op, Str(c[n].value)),
         c[n].is = "colcmp" => Comparable(Resolve(env, c[n].term), c[n].op, Resolve(env, c[n].other)),
         c[n].is = "or" => A[c[n].left] # {},
         c[n].is = "not" => A[c[n].of] # {}
  PROVE  Agrees(n, V, A)
<1> DEFINE node == c[n]
<1>0. \A column \in Terms(node) : FaithfulTerm(column)
  BY DEF Faithful, ToSet
<1>1. CASE node.is = "true"
  BY <1>1 DEF Verdict, Answer, Agrees
<1>2. CASE node.is = "cmp"
  <2> DEFINE a == Resolve(env, node.term)
             b == Str(node.value)
  <2>1. node.term \in Term /\ node.op \in Comparisons /\ node.value \in Int /\ FaithfulTerm(node.term.column)
    BY <1>0, <1>2 DEF IsCondition, Terms
  <2>2. a \in Value /\ Operand(pair, node.term) = Text(a) /\ b \in Value /\ Text(b) = {node.value}
    BY <2>1 DEF ReadsAlike, Value, Str, Text, Null
  <2>3. A[n] = {Holds(x, node.op, node.value) : x \in Text(a)}
    BY <1>2, <2>2 DEF Answer
  <2>4. (V[n] <=> EvalCmp(a, node.op, b)) /\ V[n] \in BOOLEAN
    BY <1>2 DEF Verdict, EvalCmp
  <2>5. Comparable(a, node.op, b)
    BY <1>2
  <2> HIDE DEF a, b
  <2>6. A[n] = {Holds(p[1], node.op, p[2]) : p \in Text(a) \X Text(b)}
    <3> DEFINE T == Text(a)
               P == T \X {node.value}
    <3>1. \A p \in P : p[1] \in T /\ p[2] = node.value
      OBVIOUS
    <3>2. \A x \in T : <<x, node.value>> \in P
      OBVIOUS
    <3> HIDE DEF P, T
    <3>3. {Holds(x, node.op, node.value) : x \in T} = {Holds(p[1], node.op, p[2]) : p \in P}
      BY <3>1, <3>2
    <3> QED BY <2>2, <2>3, <3>3 DEF P, T
  <2>7. A[n] \in {{}, {TRUE}, {FALSE}} /\ (EvalCmp(a, node.op, b) <=> A[n] = {TRUE})
    BY <2>1, <2>2, <2>5, <2>6, ComparisonsAgree
  <2> QED BY <2>4, <2>7 DEF Agrees
<1>3. CASE node.is = "colcmp"
  <2> DEFINE a == Resolve(env, node.term)
             b == Resolve(env, node.other)
  <2>1. /\ node.term \in Term /\ node.op \in Comparisons /\ node.other \in Term
        /\ FaithfulTerm(node.term.column) /\ FaithfulTerm(node.other.column)
    BY <1>0, <1>3 DEF IsCondition, Terms
  <2>2. a \in Value /\ Operand(pair, node.term) = Text(a) /\ b \in Value /\ Operand(pair, node.other) = Text(b)
    BY <2>1 DEF ReadsAlike
  <2>4. (V[n] <=> EvalCmp(a, node.op, b)) /\ V[n] \in BOOLEAN
    <3>1. V[n] = EvalCmp(a, node.op, b)
      BY <1>3 DEF Verdict
    <3>2. EvalCmp(a, node.op, b) \in BOOLEAN
      BY DEF EvalCmp
    <3> QED BY <3>1, <3>2
  <2>5. Comparable(a, node.op, b)
    BY <1>3
  <2>6. A[n] = {Holds(p[1], node.op, p[2]) : p \in Text(a) \X Text(b)}
    BY <1>3, <2>2 DEF Answer
  <2> HIDE DEF a, b
  <2>7. A[n] \in {{}, {TRUE}, {FALSE}} /\ (EvalCmp(a, node.op, b) <=> A[n] = {TRUE})
    BY <2>1, <2>2, <2>5, <2>6, ComparisonsAgree
  <2> QED BY <2>4, <2>7 DEF Agrees
<1>4. CASE node.is \in {"null", "notnull"}
  <2> DEFINE a == Resolve(env, node.term)
  <2>1. node.term \in Term /\ FaithfulTerm(node.term.column)
    BY <1>0, <1>4 DEF IsCondition, Terms
  <2>2. Operand(pair, node.term) = Text(a)
    BY <2>1 DEF ReadsAlike
  <2>3. Text(a) = {} <=> a = Null
    BY DEF Text
  <2>4. CASE node.is = "null"
    BY <2>2, <2>3, <2>4 DEF Verdict, Answer, Agrees
  <2>5. CASE node.is = "notnull"
    BY <2>2, <2>3, <2>5 DEF Verdict, Answer, Agrees
  <2> QED BY <1>4, <2>4, <2>5
<1>5. CASE node.is = "and"
  <2>1. Agrees(node.left, V, A) /\ Agrees(node.right, V, A)
    BY <1>5 DEF IsCondition
  <2>2. V[n] = (V[node.left] /\ V[node.right])
    BY <1>5 DEF Verdict
  <2>3. A[n] = Choice(A[node.left], A[node.right], {FALSE})
    BY <1>5 DEF Answer, Choice
  <2>4. A[n] = IF A[node.left] = {} THEN {} ELSE IF A[node.left] = {TRUE} THEN A[node.right] ELSE {FALSE}
    <3>1. A[node.left] \in {{}, {TRUE}, {FALSE}}
      BY <2>1 DEF Agrees
    <3> QED BY <2>1, <2>3, <3>1, Choosing
  <2> QED BY <2>1, <2>2, <2>4 DEF Agrees
<1>6. CASE node.is = "or"
  <2>1. Agrees(node.left, V, A) /\ Agrees(node.right, V, A) /\ A[node.left] # {}
    BY <1>6 DEF IsCondition
  <2>2. V[n] = (V[node.left] \/ V[node.right])
    BY <1>6 DEF Verdict
  <2>3. A[n] = Choice(A[node.left], {TRUE}, A[node.right])
    BY <1>6 DEF Answer, Choice
  <2>4. A[n] = IF A[node.left] = {TRUE} THEN {TRUE} ELSE A[node.right]
    <3>1. A[node.left] \in {{}, {TRUE}, {FALSE}}
      BY <2>1 DEF Agrees
    <3> QED BY <2>1, <2>3, <3>1, Choosing
  <2> QED BY <2>1, <2>2, <2>4 DEF Agrees
<1>7. CASE node.is = "not"
  <2>1. Agrees(node.of, V, A) /\ A[node.of] # {}
    BY <1>7 DEF IsCondition
  <2>2. V[n] = ~V[node.of]
    BY <1>7 DEF Verdict
  <2>3. A[n] = {~a : a \in A[node.of]}
    BY <1>7 DEF Answer
  <2>4. A[n] = IF A[node.of] = {TRUE} THEN {FALSE} ELSE {TRUE}
    <3>1. CASE A[node.of] = {TRUE}
      BY <2>3, <3>1
    <3>2. CASE A[node.of] = {FALSE}
      BY <2>3, <3>2
    <3> QED BY <2>1, <3>1, <3>2 DEF Agrees
  <2> QED BY <2>1, <2>2, <2>4 DEF Agrees
<1> QED
  BY <1>1, <1>2, <1>3, <1>4, <1>5, <1>6, <1>7 DEF IsCondition

-----------------------------------------------------------------------------
(* Joins.                                                                   *)

\* The value a term stands for in a pair of facts.
At(db, i, j, term) == FactCell(db, IF term.alias = "l" THEN i ELSE j, term.column)

\* What is displayed alike under two keys.
SameKey(db, i, j, key) ==
  /\ FactCell(db, i, key[1]) # Null /\ FactCell(db, j, key[2]) # Null
  /\ FactCell(db, i, key[1]).n = FactCell(db, j, key[2]).n

\* A pair of facts in which the two backends read a condition alike: what is
\* negated or left of an "or" has an answer, an order is between numbers or
\* between texts, and keys that are displayed alike are of one type.
Alike(c, db, i, j) ==
  /\ \A n \in DOMAIN c :
       /\ c[n].is = "cmp" => Comparable(At(db, i, j, c[n].term), c[n].op, Str(c[n].value))
       /\ c[n].is = "colcmp" => Comparable(At(db, i, j, c[n].term), c[n].op, At(db, i, j, c[n].other))
       /\ c[n].is = "or" => Answers(c, [l |-> db[i], r |-> db[j]])[c[n].left] # {}
       /\ c[n].is = "not" => Answers(c, [l |-> db[i], r |-> db[j]])[c[n].of] # {}
  /\ \A key \in ToSet(MandatoryKeys(c)) :
       SameKey(db, i, j, key) => FactCell(db, i, key[1]) = FactCell(db, j, key[2])

\* Keys that hold when a node does.
Held(db, i, j, key) == SameKey(db, i, j, key) /\ FaithfulTerm(key[1]) /\ FaithfulTerm(key[2])
KeysHold(db, i, j, keys) == keys \in Seq(Named \X Named) /\ \A p \in DOMAIN keys : Held(db, i, j, keys[p])

\* Keys hold one after another.
LEMMA KeysHoldBoth ==
  ASSUME NEW db, NEW i, NEW j, NEW s, NEW t, KeysHold(db, i, j, s), KeysHold(db, i, j, t)
  PROVE  KeysHold(db, i, j, s \o t)
<1> DEFINE u == s \o t
           K == Named \X Named
           Same(key) == Held(db, i, j, key)
<1>1. s \in Seq(K) /\ t \in Seq(K) /\ (\A p \in DOMAIN s : Same(s[p])) /\ (\A p \in DOMAIN t : Same(t[p]))
  BY DEF KeysHold
<1> HIDE DEF K, Same
<1>2. /\ u \in Seq(K) /\ Len(s) \in Nat /\ Len(t) \in Nat /\ DOMAIN u = 1 .. Len(s) + Len(t)
      /\ DOMAIN s = 1 .. Len(s) /\ DOMAIN t = 1 .. Len(t)
      /\ \A p \in 1 .. Len(s) + Len(t) : u[p] = IF p <= Len(s) THEN s[p] ELSE t[p - Len(s)]
  BY <1>1
<1> HIDE DEF u
<1>3. ASSUME NEW p \in DOMAIN u PROVE Same(u[p])
  <2>1. CASE p <= Len(s)
    BY <1>1, <1>2, <2>1
  <2>2. CASE ~(p <= Len(s))
    <3>1. p - Len(s) \in DOMAIN t
      BY <1>2, <2>2
    <3> QED BY <1>1, <1>2, <2>2, <3>1
  <2> QED BY <2>1, <2>2
<1> QED
  BY <1>2, <1>3 DEF KeysHold, u, K, Same

\* The keys a node makes mandatory, where the node holds.
LEMMA NodeKeysHold ==
  ASSUME NEW c, IsCondition(c), NEW env, NEW db, NEW i, NEW j,
         Faithful(c), \A t \in Term : FaithfulTerm(t.column) => Resolve(env, t) = At(db, i, j, t),
         NEW V, NEW K, NEW n \in DOMAIN c, V[n] = Verdict(c, env, V, n), K[n] = NodeKeys(c, K, n),
         \A k \in 1 .. n - 1 : V[k] \in BOOLEAN /\ (V[k] => KeysHold(db, i, j, K[k]))
  PROVE  V[n] => KeysHold(db, i, j, K[n])
<1> DEFINE node == c[n]
           left == <<<<node.term.column, node.other.column>>>>
           right == <<<<node.other.column, node.term.column>>>>
           key == node.is = "colcmp" /\ node.op = "eq" /\ node.term.alias # node.other.alias
<1> SUFFICES ASSUME V[n] PROVE KeysHold(db, i, j, K[n])
  OBVIOUS
<1>1. CASE key
  <2>1. /\ node.term \in Term /\ node.other \in Term
        /\ FaithfulTerm(node.term.column) /\ FaithfulTerm(node.other.column)
    BY <1>1 DEF IsCondition, Faithful, Terms, ToSet
  <2>2. /\ node.term.column \in Named /\ node.other.column \in Named
        /\ node.term.alias \in {"l", "r"} /\ node.other.alias \in {"l", "r"}
    BY <2>1 DEF Term
  <2> DEFINE a == Resolve(env, node.term)
             b == Resolve(env, node.other)
  <2>3. a = At(db, i, j, node.term) /\ b = At(db, i, j, node.other)
    BY <2>1
  <2>4. EvalCmp(a, "eq", b)
    BY <1>1 DEF Verdict
  <2>5. a # Null /\ b # Null /\ a.n = b.n
    BY <2>4 DEF EvalCmp, Holds
  <2>6. K[n] = IF node.term.alias = "l" THEN left ELSE right
    BY <1>1 DEF NodeKeys
  <2> HIDE DEF a, b
  <2>7. CASE node.term.alias = "l"
    <3>1. Held(db, i, j, <<node.term.column, node.other.column>>)
      BY <1>1, <2>1, <2>2, <2>3, <2>5, <2>7 DEF Held, SameKey, At
    <3>2. left \in Seq(Named \X Named) /\ DOMAIN left = {1} /\ left[1] = <<node.term.column, node.other.column>>
      BY <2>2
    <3> QED BY <2>6, <2>7, <3>1, <3>2 DEF KeysHold
  <2>8. CASE node.term.alias = "r"
    <3>1. Held(db, i, j, <<node.other.column, node.term.column>>)
      BY <1>1, <2>1, <2>2, <2>3, <2>5, <2>8 DEF Held, SameKey, At
    <3>2. right \in Seq(Named \X Named) /\ DOMAIN right = {1} /\ right[1] = <<node.other.column, node.term.column>>
      BY <2>2
    <3> QED BY <2>6, <2>8, <3>1, <3>2 DEF KeysHold
  <2> QED BY <2>2, <2>7, <2>8
<1>2. CASE node.is = "and"
  <2>1. node.left \in 1 .. n - 1 /\ node.right \in 1 .. n - 1
    BY <1>2 DEF IsCondition
  <2>2. V[n] = (V[node.left] /\ V[node.right]) /\ K[n] = K[node.left] \o K[node.right]
    BY <1>2 DEF Verdict, NodeKeys
  <2>3. KeysHold(db, i, j, K[node.left]) /\ KeysHold(db, i, j, K[node.right])
    BY <2>1, <2>2
  <2> QED BY <2>2, <2>3, KeysHoldBoth
<1>3. CASE ~key /\ node.is # "and"
  <2>1. K[n] = <<>>
    BY <1>3 DEF NodeKeys
  <2> QED BY <2>1 DEF KeysHold
<1> QED
  BY <1>1, <1>2, <1>3

\* An evaluation of a condition against the interpreter's.
LEMMA ConditionsAgree ==
  ASSUME NEW c, IsCondition(c), Faithful(c), NEW db, Facts(db), NEW i \in DOMAIN db, NEW j \in DOMAIN db,
         Alike(c, db, i, j), NEW env, \A t \in Term : FaithfulTerm(t.column) => Resolve(env, t) = At(db, i, j, t)
  PROVE  /\ EvalCondition(c, env) <=> EvalAst(c, [l |-> db[i], r |-> db[j]]) = {TRUE}
         /\ EvalCondition(c, env) => KeysHold(db, i, j, MandatoryKeys(c))
<1> DEFINE pair == [l |-> db[i], r |-> db[j]]
           V == Verdicts(c, env)
           A == Answers(c, pair)
           l == Len(c)
<1>1. l \in Nat \ {0} /\ DOMAIN c = 1 .. l
  BY DEF IsCondition
<1>2. PICK K : Nodes(K, "keys", c, env, l) /\ MandatoryKeys(c) = K[l]
  BY VerdictsAre
<1>3. \A n \in 1 .. l : V[n] = Verdict(c, env, V, n) /\ A[n] = Answer(c, pair, A, n) /\ K[n] = NodeKeys(c, K, n)
  <2>1. Nodes(V, "verdict", c, env, l) /\ Nodes(A, "answer", c, pair, l)
    BY VerdictsAre
  <2> HIDE DEF V, A
  <2> QED BY <1>2, <2>1 DEF Nodes, NodeOf
<1>4. ASSUME NEW t \in Term, FaithfulTerm(t.column) PROVE ReadsAlike(env, pair, t)
  <2> DEFINE f == IF t.alias = "l" THEN i ELSE j
  <2>1. f \in DOMAIN db /\ t.column \in Named /\ t.alias \in {"l", "r"}
    BY DEF Term
  <2>2. Resolve(env, t) = FactCell(db, f, t.column)
    BY <1>4 DEF At
  <2>3. Operand(pair, t) = TermValue(db[f], t.column)
    BY <2>1 DEF Operand
  <2> HIDE DEF f, pair
  <2> QED BY <1>4, <2>1, <2>2, <2>3, FactIs DEF ReadsAlike
<1>5. ASSUME NEW n \in DOMAIN c
      PROVE  /\ c[n].is = "cmp" => Comparable(Resolve(env, c[n].term), c[n].op, Str(c[n].value))
             /\ c[n].is = "colcmp" => Comparable(Resolve(env, c[n].term), c[n].op, Resolve(env, c[n].other))
             /\ c[n].is = "or" => A[c[n].left] # {}
             /\ c[n].is = "not" => A[c[n].of] # {}
  <2>1. c[n].is \in {"cmp", "colcmp"} => c[n].term \in Term /\ FaithfulTerm(c[n].term.column)
    BY DEF IsCondition, Faithful, Terms, ToSet
  <2>2. c[n].is = "colcmp" => c[n].other \in Term /\ FaithfulTerm(c[n].other.column)
    BY DEF IsCondition, Faithful, Terms, ToSet
  <2> QED BY <2>1, <2>2 DEF Alike
<1> HIDE DEF V, A, pair
<1> DEFINE Good == {n \in 1 .. l : Agrees(n, V, A) /\ (V[n] => KeysHold(db, i, j, K[n]))}
<1>6. ASSUME NEW n \in 1 .. l, \A k \in 1 .. n - 1 : k \in Good PROVE n \in Good
  <2>1. Agrees(n, V, A)
    BY <1>1, <1>3, <1>4, <1>5, <1>6, NodeAgrees
  <2>2. \A k \in 1 .. n - 1 : V[k] \in BOOLEAN /\ (V[k] => KeysHold(db, i, j, K[k]))
    BY <1>6 DEF Agrees
  <2>3. V[n] => KeysHold(db, i, j, K[n])
    BY <1>1, <1>3, <2>2, NodeKeysHold
  <2> QED BY <2>1, <2>3
<1>7. l \in Good
  <2> HIDE DEF Good
  <2>1. \A n \in 1 .. l : n \in Good
    BY <1>1, <1>6, Climbing
  <2> QED BY <1>1, <2>1
<1> QED
  BY <1>2, <1>7 DEF Agrees, EvalCondition, EvalAst, V, A, pair

\* The pairs of facts a join looks at.
PairsAlike(r, db) ==
  \A i \in OfKind(db, r.left), j \in OfKind(db, r.right) : Alike(r.on, db, i, j) /\ Alike(r.where, db, i, j)

JoinEnv(l, a, r, b) == [l |-> [names |-> l.names, cells |-> a.cells], r |-> [names |-> r.names, cells |-> b.cells]]

\* What the columnar operator keeps.
Hit(l, a, r, b, on, where) ==
  /\ Meet(l, a, r, b, MandatoryKeys(on) \o MandatoryKeys(where))
  /\ EvalCondition(on, JoinEnv(l, a, r, b)) /\ EvalCondition(where, JoinEnv(l, a, r, b))

\* A row of a join's side shows the values of its fact.
LEMMA JoinEnvIs ==
  ASSUME NEW db, Facts(db), NEW x, NEW y, NEW i \in OfKind(db, x), NEW j \in OfKind(db, y), NEW t \in Term
  PROVE  Resolve(JoinEnv(ScanRel(db, x), ScanRow(db, x, i), ScanRel(db, y), ScanRow(db, y, j)), t) = At(db, i, j, t)
<1>1. t.alias \in {"l", "r"} /\ t.column \in Named
  BY DEF Term
<1>2. /\ Cell(Columns(db, x), ScanRow(db, x, i).cells, t.column) = FactCell(db, i, t.column)
      /\ Cell(Columns(db, y), ScanRow(db, y, j).cells, t.column) = FactCell(db, j, t.column)
  BY <1>1, CellIsFact
<1>3. ScanRel(db, x).names = Columns(db, x) /\ ScanRel(db, y).names = Columns(db, y)
  BY ScanIs
<1>4. CASE t.alias = "l"
  BY <1>2, <1>3, <1>4 DEF Resolve, JoinEnv, At
<1>5. CASE t.alias = "r"
  BY <1>2, <1>3, <1>5 DEF Resolve, JoinEnv, At
<1> QED
  BY <1>1, <1>4, <1>5

\* The columnar join keeps a pair where the interpreter matches it.
LEMMA HitIsMatch ==
  ASSUME NEW r \in Rules, r.type = "join", Faithful(r.on), Faithful(r.where), NEW db, Facts(db), PairsAlike(r, db),
         NEW i \in OfKind(db, r.left), NEW j \in OfKind(db, r.right)
  PROVE  Hit(ScanRel(db, r.left), ScanRow(db, r.left, i), ScanRel(db, r.right), ScanRow(db, r.right, j), r.on, r.where)
           <=> JoinMatches(r, db[i], db[j])
<1> DEFINE x == ScanRel(db, r.left)
           y == ScanRel(db, r.right)
           a == ScanRow(db, r.left, i)
           b == ScanRow(db, r.right, j)
           env == JoinEnv(x, a, y, b)
           pair == [l |-> db[i], r |-> db[j]]
           m == MandatoryKeys(r.on)
           w == MandatoryKeys(r.where)
           keys == m \o w
<1>1. /\ IsCondition(r.on) /\ IsCondition(r.where) /\ i \in DOMAIN db /\ j \in DOMAIN db
      /\ Alike(r.on, db, i, j) /\ Alike(r.where, db, i, j)
  BY RulesAssumption DEF OfKind, PairsAlike
<1>2. \A t \in Term : FaithfulTerm(t.column) => Resolve(env, t) = At(db, i, j, t)
  BY JoinEnvIs
<1> HIDE DEF env, pair, m, w
<1>3. /\ EvalCondition(r.on, env) <=> EvalAst(r.on, pair) = {TRUE}
      /\ EvalCondition(r.on, env) => KeysHold(db, i, j, m)
      /\ EvalCondition(r.where, env) <=> EvalAst(r.where, pair) = {TRUE}
      /\ EvalCondition(r.where, env) => KeysHold(db, i, j, w)
  <2>1. /\ EvalCondition(r.on, env) <=> EvalAst(r.on, [l |-> db[i], r |-> db[j]]) = {TRUE}
        /\ EvalCondition(r.on, env) => KeysHold(db, i, j, MandatoryKeys(r.on))
    BY <1>1, <1>2, ConditionsAgree
  <2>2. /\ EvalCondition(r.where, env) <=> EvalAst(r.where, [l |-> db[i], r |-> db[j]]) = {TRUE}
        /\ EvalCondition(r.where, env) => KeysHold(db, i, j, MandatoryKeys(r.where))
    BY <1>1, <1>2, ConditionsAgree
  <2> QED BY <2>1, <2>2 DEF pair, m, w
\* The keys meet where the conditions hold.
<1>4. ASSUME EvalCondition(r.on, env), EvalCondition(r.where, env) PROVE Meet(x, a, y, b, keys)
  <2>1. KeysHold(db, i, j, keys) /\ KeysHold(db, i, j, m) /\ KeysHold(db, i, j, w)
    BY <1>3, <1>4, KeysHoldBoth
  <2>2. \A key : key \in ToSet(m) \/ key \in ToSet(w) =>
                   (SameKey(db, i, j, key) => FactCell(db, i, key[1]) = FactCell(db, j, key[2]))
    BY <1>1 DEF Alike, m, w
  <2> SUFFICES ASSUME NEW p \in DOMAIN keys
               PROVE  /\ Cell(x.names, a.cells, keys[p][1]) # Null
                      /\ Cell(x.names, a.cells, keys[p][1]) = Cell(y.names, b.cells, keys[p][2])
    BY DEF Meet
  <2> DEFINE key == keys[p]
  <2>3. SameKey(db, i, j, key) /\ key \in Named \X Named
    <3> HIDE DEF keys
    <3> QED BY <2>1 DEF KeysHold, Held
  <2>4. key \in ToSet(m) \/ key \in ToSet(w)
    <3>1. m \in Seq(Named \X Named) /\ w \in Seq(Named \X Named)
      BY <2>1 DEF KeysHold
    <3> DEFINE K == Named \X Named
    <3> HIDE DEF K
    <3>2. /\ Len(m) \in Nat /\ Len(w) \in Nat /\ DOMAIN m = 1 .. Len(m) /\ DOMAIN w = 1 .. Len(w)
          /\ p \in 1 .. Len(m) + Len(w)
      BY <3>1 DEF K
    <3>3. CASE p <= Len(m)
      <4>1. p \in DOMAIN m /\ keys[p] = m[p]
        BY <3>1, <3>2, <3>3 DEF K
      <4> QED BY <4>1 DEF ToSet
    <3>4. CASE ~(p <= Len(m))
      <4>1. p - Len(m) \in DOMAIN w /\ keys[p] = w[p - Len(m)]
        BY <3>1, <3>2, <3>4 DEF K
      <4> QED BY <4>1 DEF ToSet
    <3> QED BY <3>3, <3>4
  <2> HIDE DEF key
  <2>5. FactCell(db, i, key[1]) # Null /\ FactCell(db, i, key[1]) = FactCell(db, j, key[2])
    BY <2>2, <2>3, <2>4 DEF SameKey
  <2>6. key[1] \in Named \union {FactId} /\ key[2] \in Named \union {FactId}
    BY <2>3
  <2>7. /\ Cell(Columns(db, r.left), ScanRow(db, r.left, i).cells, key[1]) = FactCell(db, i, key[1])
        /\ Cell(Columns(db, r.right), ScanRow(db, r.right, j).cells, key[2]) = FactCell(db, j, key[2])
    BY <2>6, CellIsFact
  <2>8. x.names = Columns(db, r.left) /\ y.names = Columns(db, r.right)
    BY ScanIs
  <2> QED BY <2>5, <2>7, <2>8 DEF key
\* The index of the interpreter finds what its condition asks for.
<1>5. ASSUME EvalCondition(r.on, env)
      PROVE  m = <<>> \/ TermValue(db[i], m[1][1]) \intersect TermValue(db[j], m[1][2]) # {}
  <2> SUFFICES ASSUME m # <<>> PROVE TermValue(db[i], m[1][1]) \intersect TermValue(db[j], m[1][2]) # {}
    OBVIOUS
  <2>1. KeysHold(db, i, j, m)
    BY <1>3, <1>5
  <2>2. 1 \in DOMAIN m
    BY <2>1 DEF KeysHold
  <2> DEFINE key == m[1]
  <2>3. SameKey(db, i, j, key) /\ key[1] \in Named /\ key[2] \in Named
    BY <2>1, <2>2 DEF KeysHold, Held
  <2>4. FaithfulTerm(key[1]) /\ FaithfulTerm(key[2])
    BY <2>1, <2>2 DEF KeysHold, Held
  <2> HIDE DEF key
  <2>5. TermValue(db[i], key[1]) = Text(FactCell(db, i, key[1])) /\ TermValue(db[j], key[2]) = Text(FactCell(db, j, key[2]))
    BY <1>1, <2>3, <2>4, FactIs
  <2>6. TermValue(db[i], key[1]) \intersect TermValue(db[j], key[2]) # {}
    BY <2>3, <2>5 DEF SameKey, Text
  <2> QED BY <2>6 DEF key
<1>6. JoinMatches(r, db[i], db[j]) <=>
        /\ m = <<>> \/ TermValue(db[i], m[1][1]) \intersect TermValue(db[j], m[1][2]) # {}
        /\ EvalAst(r.on, pair) = {TRUE} /\ EvalAst(r.where, pair) = {TRUE}
  BY DEF JoinMatches, pair, m
<1>7. Hit(x, a, y, b, r.on, r.where) <=>
        Meet(x, a, y, b, keys) /\ EvalCondition(r.on, env) /\ EvalCondition(r.where, env)
  BY DEF Hit, env, m, w
<1> HIDE DEF x, y, a, b, keys
<1> QED
  BY <1>3, <1>4, <1>5, <1>6, <1>7 DEF x, y, a, b

JoinedNames == <<<<"left_fact_id">>, <<"left_subject">>, <<"right_fact_id">>, <<"right_subject">>>>

JoinedRow(l, a, r, b) ==
  [id |-> <<a.id, b.id>>,
   cells |-> <<Cell(l.names, a.cells, FactId), Cell(l.names, a.cells, Subject)>> \o
             <<Cell(r.names, b.cells, FactId), Cell(r.names, b.cells, Subject)>>]

\* The rows of a columnar join.
LEMMA JoinFilterIs ==
  ASSUME NEW l, NEW r, NEW on, NEW where
  PROVE  JoinFilterRel(l, r, on, where) =
           [names |-> JoinedNames,
            rows  |-> {JoinedRow(l, p[1], r, p[2]) : p \in {q \in l.rows \X r.rows : Hit(l, q[1], r, q[2], on, where)}}]
  BY Zenon DEF JoinFilterRel, JoinedNames, JoinedRow, Hit, JoinEnv

\* A row of a join names its facts.
LEMMA JoinedShows ==
  ASSUME NEW db, Facts(db), NEW x, NEW y, NEW i \in OfKind(db, x), NEW j \in OfKind(db, y), NEW rel, rel.names = JoinedNames
  PROVE  LET map == AsMap(rel, JoinedRow(ScanRel(db, x), ScanRow(db, x, i), ScanRel(db, y), ScanRow(db, y, j)))
         IN  map[<<"left_fact_id">>].n = i /\ map[<<"right_fact_id">>].n = j
<1> DEFINE row == JoinedRow(ScanRel(db, x), ScanRow(db, x, i), ScanRel(db, y), ScanRow(db, y, j))
           first == <<"left_fact_id">>
           second == <<"left_subject">>
           third == <<"right_fact_id">>
           fourth == <<"right_subject">>
           names == <<first, second, third, fourth>>
<1>1. first # second /\ first # third /\ first # fourth /\ third # second /\ third # fourth
  <2>1. /\ first[1] = "left_fact_id" /\ second[1] = "left_subject" /\ third[1] = "right_fact_id"
        /\ fourth[1] = "right_subject"
    OBVIOUS
  <2> HIDE DEF first, second, third, fourth
  <2> QED BY <2>1
<1>2. rel.names = names
  BY DEF JoinedNames
<1> HIDE DEF first, second, third, fourth
<1>3. /\ names \in Seq({first, second, third, fourth}) /\ DOMAIN names = 1 .. 4
      /\ names[1] = first /\ names[2] = second /\ names[3] = third /\ names[4] = fourth
  OBVIOUS
<1> HIDE DEF names
<1>4. Own(rel.names) /\ first \in ToSet(rel.names) /\ third \in ToSet(rel.names)
  <2>1. names \in Seq(ToSet(names))
    BY <1>3, SeqOwn
  <2>2. first \in ToSet(names) /\ third \in ToSet(names)
    BY <1>3 DEF ToSet
  <2> QED BY <1>2, <2>1, <2>2 DEF Own
<1>5. row.cells[1] = Int64(i) /\ row.cells[3] = Int64(j)
  <2>1. /\ Cell(Columns(db, x), ScanRow(db, x, i).cells, FactId) = FactCell(db, i, FactId)
        /\ Cell(Columns(db, y), ScanRow(db, y, j).cells, FactId) = FactCell(db, j, FactId)
    BY CellIsFact
  <2>2. ScanRel(db, x).names = Columns(db, x) /\ ScanRel(db, y).names = Columns(db, y)
    BY ScanIs
  <2>3. FactCell(db, i, FactId) = Int64(i) /\ FactCell(db, j, FactId) = Int64(j)
    BY DEF FactCell
  <2>4. \A a, b, c, d : (<<a, b>> \o <<c, d>>)[1] = a /\ (<<a, b>> \o <<c, d>>)[3] = c
    OBVIOUS
  <2>5. /\ row.cells[1] = Cell(Columns(db, x), ScanRow(db, x, i).cells, FactId)
        /\ row.cells[3] = Cell(Columns(db, y), ScanRow(db, y, j).cells, FactId)
    <3> DEFINE a == Cell(Columns(db, x), ScanRow(db, x, i).cells, FactId)
               b == Cell(Columns(db, x), ScanRow(db, x, i).cells, Subject)
               c == Cell(Columns(db, y), ScanRow(db, y, j).cells, FactId)
               d == Cell(Columns(db, y), ScanRow(db, y, j).cells, Subject)
    <3>1. row.cells = <<a, b>> \o <<c, d>>
      BY <2>2 DEF JoinedRow
    <3> HIDE DEF a, b, c, d, row
    <3>2. row.cells[1] = a /\ row.cells[3] = c
      BY <2>4, <3>1
    <3> QED BY <3>2 DEF a, c
  <2> QED BY <2>1, <2>3, <2>5
<1> HIDE DEF row
<1>6. /\ \A p \in DOMAIN rel.names : rel.names[p] = first => row.cells[p] = Int64(i)
      /\ \A p \in DOMAIN rel.names : rel.names[p] = third => row.cells[p] = Int64(j)
  BY <1>1, <1>2, <1>3, <1>5
<1>7. Maps(rel, row, first, Int64(i)) /\ Maps(rel, row, third, Int64(j))
  BY <1>4, <1>6, MapAt
<1> QED
  BY <1>7 DEF Maps, Int64, row, first, third

\* A join finds the pairs the interpreter finds, where it reads them alike.
LEMMA JoinRulesAgree ==
  ASSUME NEW r \in Rules, r.type = "join", Lowered(r) # <<>>, NEW db, Facts(db), PairsAlike(r, db)
  PROVE  Found(r, Rows(r, db), db) = Interpreted(r, db) /\ Lowered(r)[1].steps = <<>>
<1> DEFINE from == [op |-> "joinfilter", left |-> r.left, right |-> r.right, on |-> r.on, where |-> r.where]
           x == ScanRel(db, r.left)
           y == ScanRel(db, r.right)
           L == OfKind(db, r.left)
           R == OfKind(db, r.right)
           rel == JoinFilterRel(x, y, r.on, r.where)
           Line(i, j) == JoinedRow(x, ScanRow(db, r.left, i), y, ScanRow(db, r.right, j))
           Kept(a, b) == Hit(x, a, y, b, r.on, r.where)
           Good(i, j) == JoinMatches(r, db[i], db[j])
           Ids(map) == <<map[<<"left_fact_id">>].n, map[<<"right_fact_id">>].n>>
<1>1. Lowered(r) = <<Plan(from, <<>>)>> /\ Faithful(r.on) /\ Faithful(r.where)
  BY DEF Lowered, LowerJoin
<1>2. Rows(r, db) = Materialized(rel) /\ Lowered(r)[1].steps = <<>>
  <2>1. from.op = "joinfilter" /\ from.left = r.left /\ from.right = r.right /\ from.on = r.on /\ from.where = r.where
    OBVIOUS
  <2> HIDE DEF from
  <2>2. Lowered(r)[1].from = from /\ Lowered(r)[1].steps = <<>>
    BY <1>1, PlanIs
  <2>3. Leaf(from, db) = rel
    BY <2>1 DEF Leaf
  <2> QED BY <2>2, <2>3, RunNothing DEF Rows
<1>3. \A i \in L, j \in R : Kept(ScanRow(db, r.left, i), ScanRow(db, r.right, j)) <=> Good(i, j)
  BY <1>1, HitIsMatch
<1>4. x.rows = {ScanRow(db, r.left, i) : i \in L} /\ y.rows = {ScanRow(db, r.right, j) : j \in R}
  BY ScanIs
<1>5. rel.names = JoinedNames /\ rel.rows = {JoinedRow(x, p[1], y, p[2]) : p \in {q \in x.rows \X y.rows : Kept(q[1], q[2])}}
  BY JoinFilterIs
<1>6. \A i \in L, j \in R : Ids(AsMap(rel, Line(i, j))) = <<i, j>>
  <2> HIDE DEF rel
  <2> QED BY <1>5, JoinedShows
<1>7. Found(r, Rows(r, db), db) = {Ids(AsMap(rel, row)) : row \in rel.rows}
  <2>1. DOMAIN Rows(r, db) = {AsMap(rel, row) : row \in rel.rows}
    BY <1>2, MaterializedIs
  <2>2. Found(r, Rows(r, db), db) = {Ids(map) : map \in DOMAIN Rows(r, db)}
    BY DEF Found
  <2> HIDE DEF rel, Ids
  <2> QED BY <2>1, <2>2
<1>8. Interpreted(r, db) = {p \in (DOMAIN db) \X (DOMAIN db) : p[1] \in L /\ p[2] \in R /\ Good(p[1], p[2])}
  BY DEF Interpreted, OfKind
<1> DEFINE A(i) == ScanRow(db, r.left, i)
           B(j) == ScanRow(db, r.right, j)
<1>9. rel.rows = {Line(p[1], p[2]) : p \in {q \in L \X R : Good(q[1], q[2])}}
  <2> DEFINE Row(a, b) == JoinedRow(x, a, y, b)
  <2>1. rel.rows = {Row(p[1], p[2]) : p \in {q \in {A(i) : i \in L} \X {B(j) : j \in R} : Kept(q[1], q[2])}}
    BY <1>4, <1>5
  <2>2. \A i, j : Line(i, j) = Row(A(i), B(j))
    OBVIOUS
  <2>3. \A i \in L, j \in R : Kept(A(i), B(j)) <=> Good(i, j)
    BY <1>3
  <2> HIDE DEF Row, A, B, Kept, Good, Line, rel
  <2>4. ASSUME NEW row \in rel.rows PROVE row \in {Line(p[1], p[2]) : p \in {q \in L \X R : Good(q[1], q[2])}}
    <3>1. PICK i \in L, j \in R : Kept(A(i), B(j)) /\ row = Row(A(i), B(j))
      BY <2>1
    <3>2. <<i, j>> \in {q \in L \X R : Good(q[1], q[2])} /\ row = Line(<<i, j>>[1], <<i, j>>[2])
      BY <2>2, <2>3, <3>1
    <3> QED BY <3>2
  <2>5. ASSUME NEW p \in L \X R, Good(p[1], p[2]) PROVE Line(p[1], p[2]) \in rel.rows
    <3>1. Kept(A(p[1]), B(p[2])) /\ Line(p[1], p[2]) = Row(A(p[1]), B(p[2]))
      BY <2>2, <2>3, <2>5
    <3>2. <<A(p[1]), B(p[2])>> \in {q \in {A(i) : i \in L} \X {B(j) : j \in R} : Kept(q[1], q[2])}
      BY <3>1
    <3> QED BY <2>1, <3>1, <3>2
  <2> QED BY <2>4, <2>5
<1>10. L \subseteq DOMAIN db /\ R \subseteq DOMAIN db
  BY DEF OfKind
<1> HIDE DEF Line, Good, Ids, rel, L, R
<1>11. {Ids(AsMap(rel, row)) : row \in rel.rows} =
         {p \in (DOMAIN db) \X (DOMAIN db) : p[1] \in L /\ p[2] \in R /\ Good(p[1], p[2])}
  <2> DEFINE found == {Ids(AsMap(rel, row)) : row \in rel.rows}
  <2>1. ASSUME NEW p \in found PROVE p \in L \X R /\ Good(p[1], p[2])
    <3>1. PICK q \in L \X R : Good(q[1], q[2]) /\ p = Ids(AsMap(rel, Line(q[1], q[2])))
      BY <1>9
    <3>2. p = <<q[1], q[2]>>
      BY <1>6, <3>1
    <3> QED BY <3>1, <3>2
  <2>2. ASSUME NEW p \in L \X R, Good(p[1], p[2]) PROVE p \in found
    <3>1. Line(p[1], p[2]) \in rel.rows
      BY <1>9, <2>2
    <3>2. Ids(AsMap(rel, Line(p[1], p[2]))) = p
      BY <1>6
    <3> QED BY <3>1, <3>2
  <2> HIDE DEF found
  <2>3. \A p : p \in found <=> p \in L \X R /\ Good(p[1], p[2])
    BY <2>1, <2>2
  <2>4. found = {p \in (DOMAIN db) \X (DOMAIN db) : p[1] \in L /\ p[2] \in R /\ Good(p[1], p[2])}
    BY <1>10, <2>3
  <2> QED BY <2>4 DEF found
<1> QED
  BY <1>2, <1>7, <1>8, <1>11

\* What BackendsAgree asks of a rule: nothing but of the pairs of a join.
RuleAlike(r, db) == r.type = "join" => PairsAlike(r, db)

\* The rows of a lowered rule lead to the interpreter's findings.
LEMMA LoweredAgree ==
  ASSUME NEW r \in Rules, Lowered(r) # <<>>, NEW db, Facts(db), RuleAlike(r, db)
  PROVE  /\ Found(r, Rows(r, db), db) = Interpreted(r, db)
         /\ ProjectionsKeep(Lowered(r)[1], db)
<1>1. r.type \in {"fact", "group", "join"}
  BY RulesAssumption
<1>2. \A N : Keeping(<<>>, N)
  BY DEF Keeping
<1>3. CASE r.type = "fact"
  BY <1>3, FactRulesAgree
<1>4. CASE r.type = "group"
  BY <1>2, <1>4, GroupRulesAgree DEF ProjectionsKeep
<1>5. CASE r.type = "join"
  BY <1>2, <1>5, JoinRulesAgree DEF ProjectionsKeep, RuleAlike
<1> QED
  BY <1>1, <1>3, <1>4, <1>5

\* What the engine returns for a lowered rule.
LEMMA DoneIs ==
  ASSUME IInv, stage = "done", rule # NoRule, RuleAlike(rule, facts)
  PROVE  BackendsAgree
<1> DEFINE q == Pruned(given, facts)
<1>1. rule \in Rules /\ given = Lowered(rule)[1] /\ Lowered(rule) # <<>> /\ OneSource(given)
  BY GivenIsSound
<1>2. Facts(facts)
  BY DatabasesAssumption DEF IInv, Facts
<1>3. Found(rule, Rows(rule, facts), facts) = Interpreted(rule, facts) /\ ProjectionsKeep(given, facts)
  BY <1>1, <1>2, LoweredAgree
<1>4. plan = q
  BY <1>1, StagesOfOneSource DEF OneSource
<1>5. Stream(q, facts) = Stream(given, facts) /\ (FastRowEligible(q) => FastRow(q, facts) = Stream(q, facts))
  BY <1>1, <1>3, PrunedKeeps
<1>6. Stream(given, facts) = Run(Leaf(given.from, facts), given.steps)
  BY <1>1, StreamIs
<1>7. result = Executed(q, facts)
  BY <1>4 DEF IInv
<1> HIDE DEF q
<1>8. result = Rows(rule, facts)
  BY <1>1, <1>5, <1>6, <1>7 DEF Executed, Rows
<1> QED
  BY <1>3, <1>8 DEF BackendsAgree

(* A rule that is lowered finds what the interpreter finds, for every rule  *)
(* over facts or groups, and for a join wherever its conditions are read    *)
(* alike.                                                                   *)
THEOREM LoweringIsFaithful == Spec => [](RuleAlike(rule, facts) => BackendsAgree)
<1>1. IInv => (RuleAlike(rule, facts) => BackendsAgree)
  BY DoneIs DEF BackendsAgree
<1> QED
  BY <1>1, EngineInvariant, PTL
=============================================================================
