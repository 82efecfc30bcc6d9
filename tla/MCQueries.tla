----------------------------- MODULE MCQueries -----------------------------
(* Small statements over R(a key, b nullable) and S(c nullable), each shape  *)
(* of clause the compiler knows, and small instances with one candidate row  *)
(* in each relation.                                                        *)
EXTENDS Queries

MCRelation == {"R", "S"}
MCSchema   == [r \in MCRelation |-> IF r = "R" THEN <<FALSE, TRUE>> ELSE <<TRUE>>]
MCNames    == [r \in MCRelation |-> IF r = "R" THEN <<"a", "b">> ELSE <<"c">>]
MCKeys     == [r \in MCRelation |-> IF r = "R" THEN {<<1>>} ELSE {}]
MCDomain   == {1, 2}

(* Expressions.                                                             *)
E(op, kids) == Node(op, "", kids)
C(alias, name) == Node("col", <<alias, name>>, << >>)
N(n) == Node("int", n, << >>)
Nul  == Leaf("nul")
A    == C("R", "a")
B    == C("R", "b")
Cc   == C("S", "c")
Eq(x, y) == E("eq", <<x, y>>)
Lt(x, y) == E("lt", <<x, y>>)
Agg(name, kids)         == Node("agg", <<name, FALSE, FALSE>>, kids)
AggDistinct(name, kids) == Node("agg", <<name, TRUE, FALSE>>, kids)
AggWhere(name, kids)    == Node("agg", <<name, FALSE, TRUE>>, kids)
CountStar == Agg("countstar", << >>)
Grouping(kids) == E("grouping", kids)
Added(x, y) == Node("arith", "add", <<x, y>>)

(* Sources and joins.                                                       *)
Named(name, alias) == [kind |-> "table", name |-> name, alias |-> <<alias>>, columns |-> << >>]
From(name) == [kind |-> "table", name |-> name, alias |-> << >>, columns |-> << >>]
Subselect(q, alias, columns) == [kind |-> "derived", query |-> q, alias |-> <<alias>>, columns |-> columns]
Values(rows, alias, columns) == [kind |-> "values", rows |-> rows, alias |-> <<alias>>, columns |-> columns]
Join(kind, source, on) == [kind |-> kind, source |-> source, on |-> on]
(* Statements.                                                              *)
Item(e, name) == [e |-> e, name |-> name]
Asc(e)  == [e |-> e, desc |-> FALSE]
Desc(e) == [e |-> e, desc |-> TRUE]
Select(items, from) ==
    [kind |-> "select", from |-> from, joins |-> << >>, where |-> << >>, items |-> items, star |-> FALSE,
     group |-> << >>, having |-> << >>, distinct |-> FALSE, order |-> << >>, limit |-> << >>, offset |-> << >>]
GroupBy(fixed) == [fixed |-> fixed, rollup |-> << >>, cube |-> << >>, sets |-> << >>]
SetOperation(kind, all, left, right) ==
    [kind |-> kind, all |-> all, left |-> left, right |-> right, distinct |-> FALSE,
     order |-> << >>, limit |-> << >>, offset |-> << >>]
WithTables(ctes, body) == [kind |-> "with", ctes |-> ctes, body |-> body]

OneItem(e) == <<Item(e, "x")>>
SelectA == Select(<<Item(A, "a")>>, <<From("R")>>)
SelectB == Select(<<Item(B, "b")>>, <<From("R")>>)
SelectC == Select(<<Item(Cc, "c")>>, <<From("S")>>)
SelectAB == Select(<<Item(A, "a"), Item(B, "b")>>, <<From("R")>>)
StarR == [SelectAB EXCEPT !.star = TRUE]
Where(q, p) == [q EXCEPT !.where = <<p>>]
JoinedBy(kind) == [Select(<<Item(A, "a"), Item(B, "b"), Item(Cc, "c")>>, <<From("R")>>)
                    EXCEPT !.joins = <<Join(kind, From("S"), <<Eq(B, Cc)>>)>>]
MatchingC == Where(SelectC, Eq(Cc, B))

Plainly ==
    {SelectB,
     Where(SelectAB, Lt(A, B)),
     [SelectB EXCEPT !.distinct = TRUE],
     SetOperation("union", TRUE, SelectB, SelectC),
     SetOperation("union", FALSE, SelectB, SelectC),
     Where(StarR, E("or", <<E("isnull", <<B>>), E("not", <<Eq(B, N(1))>>)>>)),
     Select(OneItem(E("case", <<Lt(B, N(2)), A, N(0)>>)), <<From("R")>>),
     Where(SelectAB, Eq(A, N(1)))}

(* R LEFT JOIN S ON ... LEFT JOIN S AS t ON ...: a join above an outer join. *)
LeftTwice == [JoinedBy("left") EXCEPT !.joins = Append(@, Join("left", Named("S", "t"), <<Eq(A, C("t", "c"))>>))]

Joins ==
    {JoinedBy("inner"), JoinedBy("left"), JoinedBy("right"), JoinedBy("full"), LeftTwice,
     Select(<<Item(A, "a")>>, <<From("R"), From("S")>>)}

MaxOf(q, e) == [q EXCEPT !.items = OneItem(Agg("max", <<e>>))]
WithSubquery(q) == Select(<<Item(A, "a"), Item(Node("subquery", q, << >>), "x")>>, <<From("R")>>)
In(e, q) == Node("inquery", q, <<e>>)
Lateral(kind, q, on) == [Select(<<Item(A, "a"), Item(C("t", "c"), "c")>>, <<From("R")>>)
                            EXCEPT !.joins = <<Join(kind, Subselect(q, "t", << >>), on)>>]
Subqueries ==
    {Where(SelectA, In(B, SelectC)),
     Where(SelectA, E("not", <<In(B, SelectC)>>)),
     WithSubquery(MatchingC),
     WithSubquery(MaxOf(MatchingC, Cc)),
     Where(SelectA, Node("exists", MatchingC, << >>)),
     Where(SelectA, Node("exists", Where(SelectB, Eq(B, N(2))), << >>)),
     Lateral("lateral", Where(SelectC, Lt(Cc, A)), << >>),
     Lateral("leftlateral", SelectC, <<Lt(C("t", "c"), A)>>),
     WithTables(<<[name |-> "t", query |-> SelectB]>>,
                SetOperation("union", TRUE, Select(<<Item(C("t", "b"), "b")>>, <<From("t")>>),
                                            Select(<<Item(C("u", "b"), "b")>>, <<Named("t", "u")>>)))}

Grouped(items, group) == [Select(items, <<From("R")>>) EXCEPT !.group = <<group>>]
HavingOf(q, p) == [q EXCEPT !.having = <<p>>]
Folds ==
    {Select(<<Item(CountStar, "n"), Item(Agg("count", <<B>>), "m")>>, <<From("R")>>),
     Select(<<Item(Agg("sum", <<B>>), "s"), Item(Agg("max", <<B>>), "m")>>, <<From("R")>>),
     Select(<<Item(AggDistinct("count", <<Cc>>), "n"), Item(AggWhere("min", <<Cc, Lt(N(1), Cc)>>), "m")>>, <<From("S")>>),
     Grouped(<<Item(B, "b"), Item(CountStar, "n"), Item(Agg("sum", <<A>>), "s")>>, GroupBy(<<B>>)),
     HavingOf(Grouped(<<Item(B, "b")>>, GroupBy(<<B>>)), Lt(N(1), CountStar)),
     \* bare column; ROLLUP with GROUPING; CUBE; GROUPING SETS
     Grouped(<<Item(A, "a"), Item(B, "b"), Item(CountStar, "n")>>, GroupBy(<<A>>)),
     Grouped(<<Item(B, "b"), Item(Grouping(<<B>>), "g"), Item(CountStar, "n")>>, [GroupBy(<< >>) EXCEPT !.rollup = <<B>>]),
     Grouped(<<Item(A, "a"), Item(B, "b")>>, [GroupBy(<< >>) EXCEPT !.cube = <<A, B>>]),
     Grouped(<<Item(A, "a"), Item(B, "b"), Item(Grouping(<<A, B>>), "g")>>, [GroupBy(<<A>>) EXCEPT !.sets = <<<<B>>, << >>>>])}

Limited(q, order, limit, offset) == [q EXCEPT !.order = order, !.limit = limit, !.offset = offset]
OrderedQueries ==
    {Limited(SelectC, <<Asc(Cc)>>, <<1>>, << >>),
     Limited(SelectAB, <<Asc(A)>>, <<1>>, << >>),
     Limited(SelectB, <<Desc(A)>>, <<1>>, <<1>>),
     Limited(SelectA, <<Desc(N(1))>>, << >>, <<1>>),
     Limited(SetOperation("union", FALSE, SelectB, SelectC), <<Asc(C("", "b"))>>, << >>, << >>),
     [Limited(SelectB, <<Asc(A)>>, << >>, << >>) EXCEPT !.distinct = TRUE]}

(* EXISTS and subqueries in the select list, in HAVING and in ORDER BY: with *)
(* columns of their own, without, and with an aggregate.                    *)
Ex(q) == Node("exists", q, << >>)
Flag(q) == E("case", <<Ex(q), N(1), N(0)>>)
Ones(name) == Select(OneItem(N(1)), <<From(name)>>)
Counting == Select(OneItem(CountStar), <<From("R")>>)
GroupedB == Grouped(<<Item(B, "b"), Item(CountStar, "n")>>, GroupBy(<<B>>))
BeyondWhere ==
    {Select(<<Item(A, "a"), Item(Flag(MatchingC), "x")>>, <<From("R")>>),
     Limited(SelectA, <<Desc(Flag(SelectC)), Asc(A)>>, <<1>>, << >>),
     HavingOf(Counting, Ex(Ones("S"))),
     HavingOf(GroupedB, Ex(Where(Ones("R"), Eq(A, N(2))))),
     Grouped(<<Item(B, "b"), Item(Node("subquery", MaxOf(SelectC, Cc), << >>), "x")>>, GroupBy(<<B>>)),
     \* refused: c is no column of R
     HavingOf(Counting, Ex(SelectC)),
     Select(<<Item(A, "a"), Item(Flag(MaxOf(SelectC, Cc)), "x")>>, <<From("R")>>)}

Others ==
    {Where(SelectAB, E("between", <<B, A, N(2)>>)),
     Where(SelectAB, E("inlist", <<B, N(2), Nul>>)),
     Where(SelectAB, Node("rowin", 2, <<A, B, N(1), N(1), N(2), B>>)),
     Where(SelectA, B),
     Select(OneItem(Lt(A, B)), <<From("R")>>),
     Select(OneItem(Added(A, B)), <<From("R")>>),
     Select(OneItem(N(1)), << >>),
     SetOperation("intersect", FALSE, SelectB, SelectC),
     SetOperation("except", FALSE, SelectB, SelectC),
     Select(<<Item(C("t", "y"), "y")>>, <<Subselect(SelectAB, "t", <<"x", "y">>)>>),
     Select(<<Item(C("t", "x"), "x")>>, <<Values(<<<<N(1)>>, <<Nul>>>>, "t", <<"x">>)>>)}

MCStatements == Plainly \cup Joins \cup Subqueries \cup Folds \cup OrderedQueries \cup BeyondWhere \cup Others

-----------------------------------------------------------------------------
(* Rows are given as sequences; each is stored once.                        *)
Instance(r, s) ==
    LET rows == [q \in MCRelation |-> IF q = "R" THEN r ELSE s]
        names == UNION {{<<q, i, c>> : i \in DOMAIN rows[q], c \in 0 .. Len(MCSchema[q])} : q \in MCRelation}
    IN  [n \in names |-> IF n[3] # 0 THEN rows[n[1]][n[2]][n[3]] ELSE 1]

MCInstances ==
    {Instance(<< >>, << >>),
     Instance(<<<<1, 1>>>>, <<<<1>>, <<1>>>>),
     Instance(<<<<1, Null>>, <<2, 2>>>>, <<<<Null>>, <<2>>>>)}
=============================================================================
