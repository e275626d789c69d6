------------------------------ MODULE Optimizer -------------------------------
(***************************************************************************)
(* The rewrites of the logical optimizer (intermed-columnar optimizer.rs): *)
(* predicate pushdown, join reordering, projection pushdown.  Each is a    *)
(* function from a plan to plans, under the statistics of the facts: the   *)
(* columns of every kind there is.  Costs are left out, so reordering may  *)
(* begin anywhere and go on with any relation that is connected.           *)
(***************************************************************************)
EXTENDS Relational

\* What an operator that makes its own columns calls them.
Makes(step) ==
  CASE step.op = "project"   -> ToSet(step.columns)
    [] step.op = "aggregate" -> ToSet(step.by) \union {a.alias : a \in ToSet(step.aggs)}
    [] step.op = "closure"   -> {step.from, step.to}

\* The columns a plan yields, unless unknown.
OutputCols(p, facts) ==
  LET cols[q \in Within(p)] ==
        LET makers == {i \in DOMAIN q.steps : q.steps[i].op # "filter"}
        IN  IF makers # {} THEN <<Makes(q.steps[Max(makers)])>>
            ELSE IF q.from.op = "scan" /\ OfKind(facts, q.from.kind) # {}
            THEN <<ToSet(Columns(facts, q.from.kind))>>
            ELSE IF q.from.op = "join" /\ cols[q.from.left] # <<>> /\ cols[q.from.right] # <<>>
            THEN LET l == cols[q.from.left][1]
                 IN  <<l \union {IF c \in l THEN <<"right">> \o c ELSE c : c \in cols[q.from.right][1]}>>
            ELSE <<>>
  IN  cols[p]

Provides(p, column, facts) == \E cols \in ToSet(OutputCols(p, facts)) : column \in cols

-----------------------------------------------------------------------------
(* Predicate pushdown.                                                      *)

\* The side of a join that is asked for a column, "right.x" for the right one's x.
Side(join, column, facts) ==
  IF Len(column) > 1 /\ column[1] = "right"
  THEN IF Provides(join.right, Tail(column), facts) THEN "right" ELSE "above"
  ELSE IF Provides(join.left, column, facts) THEN "left"
  ELSE IF Provides(join.right, column, facts) THEN "right" ELSE "above"

Inner(column) == IF Len(column) > 1 /\ column[1] = "right" THEN Tail(column) ELSE column

\* The operators from the source up that a filter on a column stays above: what
\* is above them are projections that keep the column.
Under(steps, column) ==
  Max({0} \union {i \in DOMAIN steps : ~(steps[i].op = "project" /\ column \in ToSet(steps[i].columns))})

Insert(p, pred) ==
  Plan(p.from, InsertAt(p.steps, Under(p.steps, pred.column) + 1, Filter(pred)))

\* A filter that gets down to a join goes on into one of its sides.
PushOne(p, pred, facts) ==
  LET columns == {SubSeq(pred.column, k, Len(pred.column)) : k \in DOMAIN pred.column}
      put[q \in Within(p), c \in columns] ==
        LET f == [pred EXCEPT !.column = c]
            side == IF q.from.op = "join" /\ Under(q.steps, c) = 0 THEN Side(q.from, c, facts) ELSE "above"
        IN  CASE side = "left"  -> [q EXCEPT !.from.left = put[@, c]]
              [] side = "right" -> [q EXCEPT !.from.right = put[@, Inner(c)]]
              [] side = "above" -> Insert(q, f)
  IN  IF p.from.op = "join" THEN put[p, pred.column] ELSE Insert(p, pred)

\* Every filter in its turn, from the source up.
PushOnto(from, steps, facts) ==
  LET pushed[k \in 0 .. Len(steps)] ==
        IF k = 0 THEN Plan(from, <<>>)
        ELSE IF steps[k].op = "filter" THEN PushOne(pushed[k - 1], steps[k].pred, facts)
        ELSE [pushed[k - 1] EXCEPT !.steps = Append(@, steps[k])]
  IN  pushed[Len(steps)]

PushFilters(p, facts) ==
  LET push[q \in Within(p)] ==
        PushOnto(IF q.from.op = "join" THEN [q.from EXCEPT !.left = push[@], !.right = push[@]] ELSE q.from,
                 q.steps, facts)
  IN  IF p.from.op = "join" THEN push[p] ELSE PushOnto(p.from, p.steps, facts)

-----------------------------------------------------------------------------
(* Join reordering: a cluster of joins is its leaves and its key pairs.     *)

\* The pairs that connect two column sets, each turned to begin on the left.
Attached(pairs, l, r) ==
  LET turned(a, b) == IF a \in l /\ b \in r THEN <<a, b>> ELSE <<b, a>>
      connects(pair) == \/ pair[1] \in l /\ pair[2] \in r
                        \/ pair[2] \in l /\ pair[1] \in r
      on == SelectSeq(pairs, connects)
  IN  [i \in DOMAIN on |-> turned(on[i][1], on[i][2])]

\* In the order given; unknown columns count as none.
LeftDeep(leaves, pairs, facts) ==
  LET cols(i) == UNION ToSet(OutputCols(leaves[i], facts))
      joined(tree, i) == Join(tree, leaves[i], Attached(pairs, UNION {cols(j) : j \in 1 .. i - 1}, cols(i)))
      tree[i \in DOMAIN leaves] == IF i = 1 THEN leaves[1] ELSE joined(tree[i - 1], i)
  IN  joined(tree[Len(leaves) - 1], Len(leaves))

\* Fault: any cluster may be reordered.
AlwaysSafe(leaves, pairs, facts) == \A i \in DOMAIN leaves : OutputCols(leaves[i], facts) # <<>>

\* Known columns, and no two leaves share one that is not a key.
SafeToReorder(leaves, pairs, facts) ==
  LET cols == [i \in DOMAIN leaves |-> OutputCols(leaves[i], facts)]
      keys == UNION {ToSet(pair) : pair \in ToSet(pairs)}
  IN  /\ \A i \in DOMAIN leaves : cols[i] # <<>>
      /\ \A i, j \in DOMAIN leaves : i # j => cols[i][1] \intersect cols[j][1] \subseteq keys

\* Every order in which each leaf is connected to one before it, and the order
\* of the source when there is none.
GreedyOrders(leaves, pairs, facts) ==
  LET linked(i, j) == Attached(pairs, OutputCols(leaves[i], facts)[1], OutputCols(leaves[j], facts)[1]) # <<>>
      orders == {o \in SetToSeqs(DOMAIN leaves) : \A k \in 2 .. Len(o) : \E j \in 1 .. k - 1 : linked(o[j], o[k])}
  IN  IF orders = {} THEN {LeftDeep(leaves, pairs, facts)}
      ELSE {LeftDeep([k \in DOMAIN o |-> leaves[o[k]]], pairs, facts) : o \in orders}

\* The joins a cluster may become.
Rejoined(cluster, facts) ==
  IF Len(cluster.leaves) >= 3 /\ SafeToReorder(cluster.leaves, cluster.pairs, facts)
  THEN GreedyOrders(cluster.leaves, cluster.pairs, facts)
  ELSE {LeftDeep(cluster.leaves, cluster.pairs, facts)}

\* A join as it may be reordered, below the operators p has above it.
Reordered(p, clusters, facts) ==
  {Plan(q.from, p.steps) : q \in UNION {Rejoined(cluster, facts) : cluster \in clusters}}

\* The clusters a side of a join contributes: itself, as it may be reordered,
\* or the cluster of a join that nothing is above.
Flattened(p, facts) ==
  LET below[q \in Within(p)] ==
        LET clusters == {[leaves |-> l.leaves \o r.leaves, pairs |-> q.from.on \o l.pairs \o r.pairs] :
                           l \in below[q.from.left], r \in below[q.from.right]}
        IN  IF q.from.op # "join" THEN {[leaves |-> <<q>>, pairs |-> <<>>]}
            ELSE IF q.steps = <<>> THEN clusters
            ELSE {[leaves |-> <<x>>, pairs |-> <<>>] : x \in Reordered(q, clusters, facts)}
  IN  below[p]

\* The plans a plan may be reordered to.
Reorders(p, facts) ==
  IF p.from.op = "join" THEN Reordered(p, Flattened(Plan(p.from, <<>>), facts), facts) ELSE {p}

-----------------------------------------------------------------------------
(* Projection pushdown: only a scan below an operator that makes its own     *)
(* columns is narrowed, to what is read up to there.                         *)

Needed(steps) ==
  LET makers == {i \in DOMAIN steps : steps[i].op # "filter"}
  IN  UNION {Reads(steps[i]) : i \in {j \in DOMAIN steps : \A m \in makers : j <= m}}

Narrowing(p, facts) ==
  LET columns == ToSet(Columns(facts, p.from.kind))
      keep    == columns \intersect Needed(p.steps)
  IN  IF /\ p.from.op = "scan" /\ \E s \in ToSet(p.steps) : s.op # "filter"
         /\ keep # {} /\ keep # columns
      THEN <<Project(SetToSeq(keep))>> ELSE <<>>

\* The sides of a join keep all their columns.
PruneColumns(p, facts) ==
  LET prune[q \in Within(p)] ==
        Plan(IF q.from.op = "join" THEN [q.from EXCEPT !.left = prune[@], !.right = prune[@]] ELSE q.from,
             Narrowing(q, facts) \o q.steps)
  IN  IF p.from.op = "join" THEN prune[p] ELSE Plan(p.from, Narrowing(p, facts) \o p.steps)
=============================================================================
