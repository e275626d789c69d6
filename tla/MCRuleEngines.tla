---------------------------- MODULE MCRuleEngines -----------------------------
(* Small databases of two kinds of facts, and the queries and rules asked.   *)
EXTENDS RuleEngines

V == <<"v">>
RightV == <<"right", "v">>
RightSubject == <<"right", "subject">>

MCAttrs == {V, File, Archive}

Fact(kind, subject, v, file, archive) ==
  [kind |-> kind, subject |-> Str(subject),
   attrs |-> (V :> v @@ File :> file @@ Archive :> archive)]

Vs == {Null, Int64(1), Int64(2)}

Mods == {Fact("mod", s, v, Null, Null) : s \in {1, 2}, v \in Vs}
Deps == {Fact("dep", s, v, x[1], x[2]) : s \in {1, 2}, v \in {Null, Int64(1)},
                                        x \in {<<Null, Null>>, <<Str(1), Null>>, <<Str(2), Str(1)>>}}

\* At most two facts of each kind, equal ones too; their order only names them.
UpTo2(S) == {SetToSeq(T) : T \in UNION {kSubset(k, S) : k \in 0 .. 2}} \union {<<f, f>> : f \in S}
MCDatabases == {m \o d : m \in UpTo2(Mods), d \in UpTo2(Deps)}

MCIntColumns == {<<"mod", V>>, <<"dep", V>>}

-----------------------------------------------------------------------------
Query == [with |-> <<>>, scan |-> "mod", join |-> <<>>, filters |-> <<>>, closure |-> <<>>,
          by |-> <<>>, aggs |-> <<>>, having |-> <<>>, project |-> <<>>]

Pred(c, op, v) == [column |-> c, op |-> op, value |-> v]
Agg(func, c)   == [func |-> func, column |-> c, alias |-> <<func>>]
OnSubject(scan) == <<[scan |-> scan, on |-> <<<<Subject, Subject>>>>]>>

\* Three relations on one key: a narrow one, v of the modules, the dependencies.
Renamed(name, scan, columns) == [name |-> name, query |-> [Query EXCEPT !.scan = scan, !.project = columns]]
Narrow == Renamed("narrow", "mod", <<Subject>>)
Valued == Renamed("valued", "mod", <<Subject, V>>)
Filed(columns) == Renamed("filed", "dep", columns)
Joined == [name |-> "joined", query |-> [Query EXCEPT !.scan = "narrow", !.join = OnSubject("valued")]]
Chain(columns) == [Query EXCEPT !.with = <<Narrow, Valued, Filed(columns), Joined>>,
                                !.scan = "joined", !.join = OnSubject("filed")]

MCQueries ==
  LET join == [Query EXCEPT !.join = OnSubject("dep")]
  IN  { [Query EXCEPT !.filters = <<Pred(V, "eq", Int64(1))>>],
        [Query EXCEPT !.filters = <<Pred(V, "gt", Int64(1)), Pred(Subject, "ne", Str(2))>>, !.project = <<Subject>>],
        [Query EXCEPT !.filters = <<Pred(V, "ne", Str(1))>>, !.project = <<V>>],
        [Query EXCEPT !.with = <<Valued>>, !.scan = "valued", !.project = <<V>>,
                      !.filters = <<Pred(V, "le", Int64(1))>>],
        [Query EXCEPT !.with = <<Narrow>>, !.scan = "narrow", !.filters = <<Pred(V, "eq", Int64(1))>>],
        join,
        [join EXCEPT !.filters = <<Pred(V, "eq", Int64(1))>>],
        [join EXCEPT !.filters = <<Pred(RightSubject, "eq", Str(1)), Pred(File, "eq", Str(1))>>],
        [join EXCEPT !.filters = <<Pred(File, "eq", Str(2)), Pred(V, "gt", Int64(1))>>, !.project = <<Subject, V>>],
        [join EXCEPT !.by = <<Subject>>, !.aggs = <<Agg("count", V), Agg("sum", RightV)>>],
        [Query EXCEPT !.by = <<V>>, !.aggs = <<Agg("count", Subject)>>,
                      !.having = <<Pred(<<"count">>, "gt", Int64(1))>>],
        [Query EXCEPT !.aggs = <<Agg("max", V)>>, !.filters = <<Pred(Subject, "eq", Str(1))>>],
        [Query EXCEPT !.scan = "dep", !.closure = <<Subject, File>>],
        [Query EXCEPT !.scan = "dep", !.closure = <<Subject, File>>, !.having = <<Pred(File, "eq", Str(2))>>],
        Chain(<<Subject, File>>),
        Chain(<<Subject, V>>),
        [Chain(<<Subject, File>>) EXCEPT !.filters = <<Pred(V, "eq", Int64(1))>>, !.project = <<V, File>>] }

-----------------------------------------------------------------------------
Always == <<[is |-> "true"]>>
L(c) == [alias |-> "l", column |-> c]
R(c) == [alias |-> "r", column |-> c]
Same(a, b)     == <<[is |-> "colcmp", op |-> "eq", term |-> a, other |-> b]>>
Before(a, b)   == <<[is |-> "colcmp", op |-> "lt", term |-> a, other |-> b]>>
Cmp(t, op, n)  == <<[is |-> "cmp", op |-> op, term |-> t, value |-> n]>>
Missing(t)     == <<[is |-> "null", term |-> t]>>
Present(t)     == <<[is |-> "notnull", term |-> t]>>
Not(c)         == Append(c, [is |-> "not", of |-> Len(c)])

\* Two atoms, or one with a negated one: the second moves up by the first.
Both(is, a, b) ==
  LET moved == [i \in DOMAIN b |-> IF b[i].is = "not" THEN [b[i] EXCEPT !.of = @ + Len(a)] ELSE b[i]]
  IN  Append(a \o moved, [is |-> is, left |-> Len(a), right |-> Len(a) + Len(b)])
And(a, b)      == Both("and", a, b)
Or(a, b)       == Both("or", a, b)

FactRule(inputs, all, not) == [type |-> "fact", inputs |-> inputs, all |-> all, not |-> not]
JoinRule(on, where) == [type |-> "join", left |-> "mod", right |-> "dep", on |-> on, where |-> where]
GroupRule(inputs, all, by, of) ==
  [type |-> "group", inputs |-> inputs, all |-> all, not |-> <<>>, by |-> by, of |-> of, min |-> 2]

MCRules ==
  { FactRule({"mod"}, <<<<V, 1>>>>, <<>>),
    FactRule({"dep"}, <<<<File, 1>>, <<Subject, 2>>>>, <<>>),
    FactRule({"dep"}, <<<<Archive, 1>>>>, <<>>),
    FactRule({"mod"}, <<>>, <<<<V, 1>>>>),
    FactRule({}, <<<<V, 1>>>>, <<>>),
    GroupRule({"mod"}, <<>>, Subject, V),
    GroupRule({"mod", "dep"}, <<<<V, 1>>>>, V, Subject),
    GroupRule({"dep"}, <<>>, Subject, Archive),
    JoinRule(Same(L(Subject), R(Subject)), Always),
    JoinRule(Same(L(Subject), R(File)), Present(R(V))),
    JoinRule(Same(L(Subject), R(File)), Missing(L(V))),
    JoinRule(And(Same(L(V), R(V)), Same(L(Subject), R(File))), Always),
    JoinRule(Same(L(Subject), R(Archive)), Always),
    JoinRule(Always, Before(R(V), L(V))),
    JoinRule(Or(Same(L(Subject), R(Subject)), Missing(R(File))), Cmp(R(V), "eq", 1)),
    JoinRule(Always, Not(Same(L(Subject), R(Subject)))) }

\* What the lowering accepts and the interpreter answers otherwise.
ParityRules ==
  { JoinRule(Same(L(Subject), R(Subject)), Not(Cmp(R(V), "eq", 1))),
    JoinRule(Same(L(Subject), R(Subject)), Or(Cmp(R(V), "eq", 1), Cmp(L(V), "eq", 2))),
    JoinRule(Same(L(Subject), R(Subject)), Cmp(L(V), "ge", 2)),
    JoinRule(Same(L(V), R(File)), Always) }
NoQueries == {}

\* A named subquery that drops a column its user reads, below a projection.
NarrowQueries == {[Query EXCEPT !.with = <<Narrow>>, !.scan = "narrow", !.filters = <<Pred(V, "eq", Int64(1))>>,
                                !.project = <<Subject>>]}

\* A join on a column that one side may not have.
UnkeyedQueries == {[Query EXCEPT !.join = <<[scan |-> "dep", on |-> <<<<V, File>>>>]>>]}
NoRules == {}
=============================================================================
