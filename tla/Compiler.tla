------------------------------ MODULE Compiler ------------------------------
(* The query compiler: a qualified SQL statement becomes a compact query    *)
(* (parser/query/, parser/expression.py, parser/scope.py).                  *)
(*                                                                          *)
(* A statement is a record whose optional clauses are sequences of at most  *)
(* one element; an expression is a node, and two are the same when they     *)
(* read the same, which is what the analyzer's keys compare.  A relation is *)
(* its term and its columns.  An environment gives the columns and the row  *)
(* that names refer to, the expressions that are columns already (`slots`), *)
(* the rows of the enclosing queries, the common table expressions, and the *)
(* scope of the term that is being built.                                   *)
EXTENDS Lowering

CONSTANT ColumnNames   \* [Relation -> Seq of names]: the columns of the catalog

Column(name, from, nullable) == [name |-> name, from |-> from, nullable |-> nullable]
NullabilityOf(columns)       == [i \in DOMAIN columns |-> columns[i].nullable]
Widened(columns, absent) ==
    [i \in DOMAIN columns |-> [columns[i] EXCEPT !.nullable = @ \/ absent]]
TableOf(term, columns)    == [term |-> term, columns |-> columns]

NoRow == Built(Zero, <<0, 0>>)
TopContext == [outer |-> << >>, ctes |-> [name \in {} |-> NoRow], scope |-> <<0, 0>>]

Environment(columns, slots, c) ==
    [outer |-> c.outer, ctes |-> c.ctes, scope |-> c.scope,
     columns |-> columns, slots |-> slots, row |-> NoRow]

(* The body of a function of a row of this schema.                          *)
AtRow(env, schema) == [env EXCEPT !.row = Var(schema, env.scope), !.scope = UnderRow(@)]

(* A query inside an expression sees the row around it first.               *)
NestedContext(columns, row, c) ==
    [outer |-> <<[columns |-> columns, row |-> row]>> \o c.outer, ctes |-> c.ctes, scope |-> c.scope]

(* The value of an expression, whether it may be NULL, its truth as a       *)
(* condition, the relation of a query.                                      *)
RECURSIVE Sql(_, _, _)
ValueIn(e, env)     == Sql("value", e, env)
MayBeNullIn(e, env) == Sql("nullable", e, env)
ConditionIn(e, env) == Sql("condition", e, env)
QueryIn(q, c)       == Sql("query", q, c)

IsBagTerm(term)    == SortOf(term.t)[1] = "bag"
AsBag(rel, scope)  == IF IsBagTerm(rel.term) THEN rel.term
                      ELSE Build("forget", "", <<rel.term>>, scope)
BagOf(rel, scope)  == [rel EXCEPT !.term = AsBag(rel, scope)]

FieldsOf(row, width, scope) == [i \in 1 .. width |-> Build("field", i, <<row>>, scope)]

-----------------------------------------------------------------------------
(* Names.  A column is looked for in the relation, then in the queries      *)
(* around it, the nearest first.                                            *)
MatchingIndices(e, columns) ==
    {i \in DOMAIN columns : columns[i].name = Arg(e)[2]
                            /\ Arg(e)[1] \in {""} \cup columns[i].from}

OuterFirst(env) == env.outer \o <<[columns |-> env.columns, row |-> env.row]>>   \* mutant
Scopes(env) == <<[columns |-> env.columns, row |-> env.row]>> \o env.outer
Resolving(e, scopes) == SelectSeq(scopes, LAMBDA s : MatchingIndices(e, s.columns) # {})

IndexIn(e, s) == CHOOSE i \in MatchingIndices(e, s.columns) : MatchingIndices(e, s.columns) = {i}

SlotsOf(e, env) == {i \in DOMAIN env.slots : env.slots[i].key = e}
SlotOf(e, env)  == env.slots[Max(SlotsOf(e, env))].index

-----------------------------------------------------------------------------
(* Scalars.  CASE is <<condition, value, ..., default>>.                    *)
Comparisons == {"eq", "neq", "lt", "gt", "lte", "gte", "nseq", "nsneq"}
Conditions  == Comparisons \cup {"and", "or", "not", "bool", "isnull", "between", "inlist", "rowin",
                                 "inquery", "exists"}

ColumnValue(e, s, scope) == Build("field", IndexIn(e, s), <<s.row>>, scope)

CaseValue(e, env) ==
    FoldLeft(LAMBDA rest, i : Build("case", "", <<ConditionIn(Kid(e, 2 * i - 1), env),
                                                  ValueIn(Kid(e, 2 * i), env), rest>>, env.scope),
             ValueIn(Last(Kids(e)), env),
             Reverse([i \in 1 .. (Len(Kids(e)) - 1) \div 2 |-> i]))

TruthValue(p, scope) ==
    Build("case", "", <<p, Build("truth", TRUE, << >>, scope),
                        Build("case", "", <<Build("not3", "", <<p>>, scope),
                                            Build("truth", FALSE, << >>, scope),
                                            Build("null", "", << >>, scope)>>, scope)>>, scope)

(* What the compiler refuses: a name no relation has, HAVING of no groups.  *)
Refused == Leaf("refused")
Refuses(e, env) ==
    \/ e = Refused
    \/ SlotsOf(e, env) = {} /\ Op(e) = "col" /\ Resolving(e, Scopes(env)) = << >>

MayBeNull(e, env) ==
    CASE SlotsOf(e, env) # {}        -> env.columns[SlotOf(e, env)].nullable
      [] Refuses(e, env)             -> TRUE
      [] Op(e) = "col"               -> LET s == Resolving(e, Scopes(env))[1]
                                        IN  s.columns[IndexIn(e, s)].nullable
      [] Op(e) = "int"               -> FALSE
      [] Op(e) = "arith"             -> \E i \in 1..2 : MayBeNullIn(Kid(e, i), env)
      [] Op(e) = "case"              -> \E i \in DOMAIN Kids(e) : /\ i % 2 = 0 \/ i = Len(Kids(e))
                                                                  /\ MayBeNullIn(Kid(e, i), env)
      [] OTHER                       -> TRUE

SubqueryValue(q, env) ==
    Build("scalarize", "", <<AsBag(QueryIn(q, NestedContext(env.columns, env.row, env)), env.scope)>>,
          env.scope)

ScalarValue(e, env) ==
    CASE Refuses(e, env)      -> Build("null", "refused", << >>, env.scope)
      [] SlotsOf(e, env) # {} -> Build("field", SlotOf(e, env), <<env.row>>, env.scope)
      [] Op(e) = "col"   -> ColumnValue(e, Resolving(e, Scopes(env))[1], env.scope)
      [] Op(e) = "int"   -> Build("lit", Arg(e), << >>, env.scope)
      [] Op(e) = "nul"   -> Build("null", "", << >>, env.scope)
      [] Op(e) = "arith" -> Build("call", <<Arg(e), MayBeNull(e, env)>>,
                                  <<ValueIn(Kid(e, 1), env), ValueIn(Kid(e, 2), env)>>, env.scope)
      [] Op(e) = "case"  -> CaseValue(e, env)
      [] Op(e) = "subquery"      -> SubqueryValue(Arg(e), env)
      [] Op(e) \in Conditions    -> TruthValue(ConditionIn(e, env), env.scope)

-----------------------------------------------------------------------------
(* Conditions.                                                              *)
Negated(yes, p, scope) == IF yes THEN Build("not3", "", <<p>>, scope) ELSE p

Compared(op, left, right, scope) ==
    Negated(op \in {"neq", "lte", "gte", "nsneq"},
            CASE op \in {"eq", "neq"}     -> Build("eq3", "", <<left, right>>, scope)
              [] op \in {"lt", "gte"}     -> Build("lt3", "", <<left, right>>, scope)
              [] op \in {"gt", "lte"}     -> Build("lt3", "", <<right, left>>, scope)
              [] op \in {"nseq", "nsneq"} -> Build("isnotdistinct", "", <<left, right>>, scope), scope)

AnyOf(ps, scope) == Build("or3", "", ps, scope)
AllTrue(ps, scope) == Build("and3", "", ps, scope)
EqualTerms(a, b, scope) == Build("eq3", "", <<a, b>>, scope)

Between(v, low, high, scope) ==
    AllTrue(<<Compared("gte", v, low, scope), Negated(TRUE, Compared("lt", high, v, scope), scope)>>, scope)

(* (x, y) IN ((a, b), ...): the needle has Arg(e) cells, then the rows.     *)
RowIn(width, cells, scope) ==
    AnyOf([k \in 1 .. (Len(cells) \div width) - 1 |->
              AllTrue([i \in 1 .. width |-> EqualTerms(cells[i], cells[k * width + i], scope)], scope)],
          scope)

(* EXISTS: is there one 1 among the 1s that the rows of the query become?   *)
ExistsIn(bag, schema, scope) ==
    Build("isnotnull", "",
          <<Build("scalarize", "",
                  <<Build("distinct", "",
                          <<Build("map", "",
                                  <<bag, Lam(schema, Build("row", <<FALSE>>,
                                                           <<Build("lit", 1, << >>, UnderRow(scope))>>,
                                                           UnderRow(scope)), scope)>>, scope)>>,
                          scope)>>, scope)>>, scope)

ExistsCondition(rel, scope) == ExistsIn(AsBag(rel, scope), NullabilityOf(rel.columns), scope)

(* The conditions over conditions and queries, and those over values.       *)
Connective(e, env) ==
    CASE Op(e) = "bool" -> Build(IF Arg(e) THEN "true3" ELSE "false3", "", << >>, env.scope)
      [] Op(e) = "nul"  -> Build("unknown3", "", << >>, env.scope)
      [] Op(e) = "and"  -> AllTrue([i \in 1..2 |-> ConditionIn(Kid(e, i), env)], env.scope)
      [] Op(e) = "or"   -> AnyOf([i \in 1..2 |-> ConditionIn(Kid(e, i), env)], env.scope)
      [] Op(e) = "not" /\ Op(Kid(e, 1)) = "isnull" ->
           Build("isnotnull", "", <<ValueIn(Kid(Kid(e, 1), 1), env)>>, env.scope)
      [] Op(e) = "not"  -> Negated(TRUE, ConditionIn(Kid(e, 1), env), env.scope)
      [] Op(e) = "exists" ->
           ExistsCondition(QueryIn(Arg(e), NestedContext(env.columns, env.row, env)), env.scope)
      [] Op(e) = "inquery" ->
           Build("insubquery", "",
                 <<ValueIn(Kid(e, 1), env),
                   AsBag(QueryIn(Arg(e), NestedContext(env.columns, env.row, env)), env.scope)>>, env.scope)

OverValues(e, v, scope) ==
    CASE Op(e) \in Comparisons -> Compared(Op(e), v[1], v[2], scope)
      [] Op(e) = "isnull"  -> Build("isnull", "", v, scope)
      [] Op(e) = "between" -> Between(v[1], v[2], v[3], scope)
      [] Op(e) = "inlist"  -> AnyOf([i \in 1 .. Len(v) - 1 |-> EqualTerms(v[1], v[i + 1], scope)], scope)
      [] Op(e) = "rowin"   -> RowIn(Arg(e), v, scope)

(* A number is true when it is not 0.                                       *)
ConditionOf(e, env) ==
    CASE Op(e) \in {"bool", "nul", "and", "or", "not", "exists", "inquery"} -> Connective(e, env)
      [] Op(e) \in Conditions ->
           OverValues(e, Strict([i \in DOMAIN Kids(e) |-> ValueIn(Kid(e, i), env)]), env.scope)
      [] OTHER -> Compared("neq", ValueIn(e, env), Build("lit", 0, << >>, env.scope), env.scope)

-----------------------------------------------------------------------------
(* Sources and joins.                                                       *)
Singleton(scope) == TableOf(BagLam(<< >>, Built(One, UnderRow(scope)), scope), << >>)

(* An alias replaces the qualifiers, and as many names as it lists.         *)
Renamed(columns, alias, names) ==
    [i \in DOMAIN columns |-> Column(IF i <= Len(names) THEN names[i] ELSE columns[i].name,
                                     {alias}, columns[i].nullable)]
ApplyAlias(rel, source) ==
    IF source.alias = << >> THEN rel
    ELSE TableOf(rel.term, Renamed(rel.columns, source.alias[1], source.columns))

BaseRelation(name, scope) ==
    TableOf(Build("base", name, << >>, scope),
               [i \in DOMAIN Schema[name] |-> Column(ColumnNames[name][i], {name}, Schema[name][i])])

(* VALUES: a row is there as often as it is listed.                         *)
ListedAs(rows, schema, output, env) ==
    Build("add", "", [r \in DOMAIN rows |->
        Build("ind", "", <<Build("rowid", "",
            <<Build("row", schema, [i \in DOMAIN rows[r] |-> ValueIn(rows[r][i], env)], env.scope), output>>,
            env.scope)>>, env.scope)], env.scope)

ValuesRelation(rows, schema, env) ==
    TableOf(BagLam(schema, ListedAs(rows, schema, Var(schema, env.scope),
                                         [env EXCEPT !.scope = UnderRow(@)]), env.scope),
               [i \in DOMAIN schema |-> Column("column" \o ToString(i), {}, schema[i])])

ValuesOf(rows, env) ==
    ValuesRelation(rows, [i \in DOMAIN rows[1] |-> \E r \in DOMAIN rows : MayBeNullIn(rows[r][i], env)], env)

SourceOf(source, c) ==
    ApplyAlias(CASE source.kind = "table" /\ source.name \in DOMAIN c.ctes -> BagOf(c.ctes[source.name], c.scope)
                 [] source.kind = "table"   -> BaseRelation(source.name, c.scope)
                 [] source.kind = "derived" -> BagOf(QueryIn(source.query, c), c.scope)
                 [] source.kind = "values"  -> ValuesOf(source.rows, Environment(<< >>, << >>, c)), source)

(* The rows of a relation for which the condition holds.                    *)
FilterWith(rel, p, schema, env) ==
    TableOf(Build("filter", "", <<rel.term, Lam(schema, ConditionIn(p, AtRow(env, schema)), env.scope)>>,
                     env.scope), rel.columns)
FilterRows(rel, p, env) == FilterWith(rel, p, NullabilityOf(rel.columns), env)

JoinOperator(kind) == CASE kind = "inner" -> "join"
                        [] kind = "left"  -> "leftjoin"
                        [] kind = "right" -> "rightjoin"
                        [] kind = "full"  -> "fulljoin"

OnCondition(p, schema, env) == Lam(schema, ConditionIn(p, AtRow(env, schema)), env.scope)

Joining(left, right, join, both, c) ==
    TableOf(Build(JoinOperator(join.kind), "",
                     <<left.term, right.term,
                       OnCondition(join.on[1], NullabilityOf(both), Environment(both, << >>, c))>>, c.scope),
               Widened(left.columns, join.kind \in {"right", "full"})
               \o Widened(right.columns, join.kind \in {"left", "full"}))

Crossing(left, right, scope) ==
    TableOf(Build("product", "", <<left.term, right.term>>, scope), left.columns \o right.columns)

JoinWith(left, right, join, c) ==
    IF join.on = << >> THEN Crossing(left, right, c.scope)
    ELSE Joining(left, right, join, left.columns \o right.columns, c)

(* LATERAL: the source is compiled under the row of the left side.          *)
LateralOn(rel, on, c) ==
    IF on = << >> THEN BagOf(rel, c.scope)
    ELSE FilterRows(BagOf(rel, c.scope), on[1], Environment(rel.columns, << >>, c))

LateralContext(columns, schema, c) ==
    [NestedContext(columns, Var(schema, c.scope), c) EXCEPT !.scope = UnderRow(@)]

LateralWith(left, inner, join, schema, scope) ==
    TableOf(Build(IF join.kind = "leftlateral" THEN "depleftjoin" ELSE "depjoin", "",
                     <<left.term, Lam(schema, inner.term, scope)>>, scope),
               left.columns \o Widened(inner.columns, join.kind = "leftlateral"))

LateralInner(join, c) == LateralOn(SourceOf(join.source, c), join.on, c)

JoinSource(left, join, c) ==
    IF join.kind \in {"lateral", "leftlateral"}
    THEN LateralWith(left, LateralInner(join, LateralContext(left.columns, NullabilityOf(left.columns), c)),
                     join, NullabilityOf(left.columns), c.scope)
    ELSE JoinWith(left, SourceOf(join.source, c), join, c)

(* The tables of FROM are joined crosswise, and then what JOIN lists.       *)
CrossJoins(sources) ==
    [i \in DOMAIN sources |-> [kind |-> "cross", source |-> sources[i], on |-> << >>]]

FromSources(first, rest, c) == FoldLeft(LAMBDA left, join : JoinSource(left, join, c), first, rest)

FromClause(q, c) ==
    IF q.from = << >> THEN FromSources(Singleton(c.scope), q.joins, c)
    ELSE FromSources(SourceOf(q.from[1], c), Tail(CrossJoins(q.from)) \o q.joins, c)

-----------------------------------------------------------------------------
(* What a SELECT block aggregates: the group keys, the aggregates and the   *)
(* GROUPING calls of the select list, HAVING and ORDER BY, and the columns  *)
(* there that are none of these and outside them.                           *)
Once(s) == LET firsts == SelectSeq([i \in DOMAIN s |-> i], LAMBDA i : \A j \in 1 .. i - 1 : s[j] # s[i])
           IN  Strict([i \in DOMAIN firsts |-> s[firsts[i]]])

(* The query of an EXISTS is no subquery node: all of it is searched too,   *)
(* down to the subquery nodes in it.                                        *)
QueryNode(q) == Node("exists", q, << >>)
Expressions(clause) == [i \in DOMAIN clause |-> clause[i].e]
ListedBy(source)    == IF source.kind = "values" THEN FlattenSeq(source.rows) ELSE << >>
ListedByJoin(join)  == ListedBy(join.source) \o join.on
KeysListed(group)   == group.fixed \o group.rollup \o group.cube \o FlattenSeq(group.sets)

InBlock(q) ==
    Expressions(q.items)
    \o FlattenSeq([i \in DOMAIN q.from |-> ListedBy(q.from[i])])
    \o FlattenSeq([i \in DOMAIN q.joins |-> ListedByJoin(q.joins[i])])
    \o q.where \o FlattenSeq([i \in DOMAIN q.group |-> KeysListed(q.group[i])]) \o q.having
    \o Expressions(q.order)

InQuery(q) ==
    CASE q.kind = "select" -> InBlock(q)
      [] q.kind = "with"   -> <<QueryNode(q.body)>> \o [i \in DOMAIN q.ctes |-> QueryNode(q.ctes[i].query)]
      [] q.kind \in {"union", "intersect", "except"} ->
           <<QueryNode(q.left), QueryNode(q.right)>> \o Expressions(q.order)
      [] OTHER -> ListedBy(q)

SearchedIn(e) == IF Op(e) = "exists" THEN InQuery(Arg(e)) ELSE Kids(e)

RECURSIVE Collect(_, _, _)
CollectAll(es, found, hidden) ==
    FlattenSeq(Strict([i \in DOMAIN es |-> Collect(es[i], found, hidden)]))
Collect(e, found, hidden) ==
    CASE Op(e) \in found -> <<e>>
      [] e \in hidden \/ Op(e) \in {"subquery", "agg"} -> << >>
      [] OTHER -> CollectAll(SearchedIn(e), found, hidden)

CollectIn(roots, found, hidden) ==
    Once(CollectAll(roots, found, hidden))

Roots(q) == Expressions(q.items) \o q.having \o Expressions(q.order)

(* ROLLUP gives the prefixes of its list, CUBE its subsets, the first of    *)
(* the list counting most; each combines with the others.                   *)
RollupSets(s) == [i \in 1 .. Len(s) + 1 |-> SubSeq(s, 1, Len(s) + 1 - i)]
InMask(mask, s, i) == (mask \div 2 ^ (Len(s) - i)) % 2 = 1
CubeSets(s) == [k \in 1 .. 2 ^ Len(s) |->
                   LET in == SelectSeq([i \in DOMAIN s |-> i], LAMBDA i : InMask(2 ^ Len(s) - k, s, i))
                   IN  [j \in DOMAIN in |-> s[in[j]]]]

CrossSets(prefixes, suffixes) ==
    IF suffixes = << >> THEN prefixes
    ELSE FlattenSeq([i \in DOMAIN prefixes |-> [j \in DOMAIN suffixes |-> prefixes[i] \o suffixes[j]]])

GroupingSets(group) ==
    CrossSets(CrossSets(CrossSets(<<group.fixed>>, IF group.rollup = << >> THEN << >> ELSE RollupSets(group.rollup)),
                      IF group.cube = << >> THEN << >> ELSE CubeSets(group.cube)), group.sets)

(* A column named like an output column of the block is that column.        *)
BareColumns(roots, keys, aliases) ==
    SelectSeq(CollectIn(roots, {"col"}, ToSet(keys)),
              LAMBDA e : e \notin ToSet(keys) /\ ~(Arg(e)[1] = "" /\ Arg(e)[2] \in aliases))

FactsWith(q, sets, keys) ==
    [sets       |-> sets,
     keys       |-> keys,
     aggregates |-> CollectIn(Roots(q), {"agg"}, {}),
     groupings  |-> CollectIn(Roots(q), {"grouping"}, {}),
     bare       |-> IF keys = << >> /\ CollectIn(Roots(q), {"agg"}, {}) = << >> THEN << >>
                    ELSE BareColumns(Roots(q), keys, {q.items[i].name : i \in DOMAIN q.items})]

FactsOf(q, sets) == FactsWith(q, sets, Once(FlattenSeq(sets)))
Facts(q) == FactsOf(q, IF q.group = << >> THEN << >> ELSE GroupingSets(q.group[1]))

RequiresAggregation(q) == q.group # << >> \/ CollectIn(Roots(q), {"agg"}, {}) # << >>

-----------------------------------------------------------------------------
(* Folds.  A call is [agg, distinct, arg, filter]; its functions follow the *)
(* key function among the children of the fold.                             *)
FoldCall(agg, distinct, arg, filter) == [agg |-> agg, distinct |-> distinct, arg |-> arg, filter |-> filter]

(* An aggregate is <<name, DISTINCT, FILTER>> over its argument and filter. *)
CallOf(e) == FoldCall(Arg(e)[1], Arg(e)[2],
                      IF Arg(e)[1] = "countstar" THEN << >> ELSE <<Kid(e, 1)>>,
                      IF Arg(e)[3] THEN <<Last(Kids(e))>> ELSE << >>)
AnyValueCall(e) == FoldCall("anyvalue", FALSE, <<e>>, << >>)

CallsOf(facts) == [i \in DOMAIN facts.aggregates |-> CallOf(facts.aggregates[i])]
                  \o [i \in DOMAIN facts.bare |-> AnyValueCall(facts.bare[i])]

ChildrenOf(call) == Len(call.arg) + Len(call.filter)
ChildBefore(calls, i, fixed) == FoldLeft(LAMBDA n, call : n + ChildrenOf(call), fixed, SubSeq(calls, 1, i - 1))

Layout(call, before) ==
    <<call.agg, call.distinct, IF call.arg = << >> THEN 0 ELSE before + 1,
      IF call.filter = << >> THEN 0 ELSE before + ChildrenOf(call)>>

FunctionsOf(call, schema, env) ==
    [i \in DOMAIN call.arg |-> Lam(schema, ValueIn(call.arg[i], AtRow(env, schema)), env.scope)]
    \o [i \in DOMAIN call.filter |-> Lam(schema, ConditionIn(call.filter[i], AtRow(env, schema)), env.scope)]

FoldTerm(op, fixed, calls, schema, env) ==
    Build(op, [i \in DOMAIN calls |-> Layout(calls[i], ChildBefore(calls, i, Len(fixed)))],
          fixed \o FlattenSeq(Strict([i \in DOMAIN calls |-> FunctionsOf(calls[i], schema, env)])), env.scope)

(* The row of some values, a projection of a row of this schema.            *)
RowFunction(output, values, schema, scope) ==
    Lam(schema, Build("row", output, values, UnderRow(scope)), scope)

KeyFunction(keys, nullable, schema, env) ==
    RowFunction(nullable, [i \in DOMAIN keys |-> ValueIn(keys[i], AtRow(env, schema))], schema, env.scope)

DistinctKeys(bag, function, scope) ==
    Build("distinct", "", <<Build("map", "", <<bag, function>>, scope)>>, scope)

(* The groups of the given keys, one row each.                              *)
KeyedFold(bag, key, calls, schema, env) ==
    IF calls = << >> THEN DistinctKeys(bag, key, env.scope)
    ELSE FoldTerm("groupfold", <<bag, key>>, calls, schema, env)

Ungrouped(bag, calls, sets, schema, env) ==
    IF calls = << >> /\ sets THEN Singleton(env.scope).term
    ELSE FoldTerm("globalfold", <<bag>>, calls, schema, env)

NullableKeys(keys, env) == [i \in DOMAIN keys |-> MayBeNullIn(keys[i], env)]

GroupTerm(bag, keys, calls, sets, schema, env) ==
    IF keys = << >> THEN Ungrouped(bag, calls, sets, schema, env)
    ELSE KeyedFold(bag, KeyFunction(keys, NullableKeys(keys, env), schema, env), calls, schema, env)

(* What GROUPING(x, y) is: a bit for each key that is not grouped by, the   *)
(* last key counting least.                                                 *)
GroupingMask(e, grouped) ==
    FoldLeft(LAMBDA mask, key : 2 * mask + IF key \in ToSet(grouped) THEN 0 ELSE 1, 0, Kids(e))

(* A row of one grouping set among the others: NULL for the other keys.     *)
KeyField(key, grouped, row, scope) ==
    IF key \in ToSet(grouped)
    THEN Build("field", Max({i \in DOMAIN grouped : grouped[i] = key}), <<row>>, scope)
    ELSE Build("null", "", << >>, scope)

BranchRow(facts, grouped, calls, row, scope) ==
    [i \in DOMAIN facts.keys |-> KeyField(facts.keys[i], grouped, row, scope)]
    \o [i \in DOMAIN calls |-> Build("field", Len(grouped) + i, <<row>>, scope)]
    \o [i \in DOMAIN facts.groupings |->
           Build("lit", GroupingMask(facts.groupings[i], grouped), << >>, scope)]

Branch(facts, grouped, calls, output, inner, scope) ==
    Build("map", "", <<inner, RowFunction(output, BranchRow(facts, grouped, calls,
                                                            Var(SchemaOf(inner.t), scope), UnderRow(scope)),
                                          SchemaOf(inner.t), scope)>>, scope)

UnionOf(terms, scope) ==
    FoldLeft(LAMBDA union, term : Build("unionall", "", <<union, term>>, scope), terms[1], Tail(terms))

SetsTerm(bag, facts, calls, output, schema, env) ==
    UnionOf([s \in DOMAIN facts.sets |->
                Branch(facts, facts.sets[s], calls, output,
                       GroupTerm(bag, facts.sets[s], calls, TRUE, schema, env), env.scope)], env.scope)

(* The columns after grouping: keys, aggregates, bare columns, GROUPINGs.   *)
GroupColumns(nullable) == [i \in DOMAIN nullable |-> Column("", {}, nullable[i])]
SlotsFor(expressions)  == [i \in DOMAIN expressions |-> [key |-> expressions[i], index |-> i]]

GroupedFrame(term, facts, nullable, c) ==
    [term |-> term,
     env  |-> Environment(GroupColumns(nullable),
                          SlotsFor(facts.keys \o facts.aggregates \o facts.bare \o facts.groupings), c)]

ManySets(facts) == facts.groupings # << >> \/ Len(facts.sets) > 1

(* A key that some set leaves out may be NULL.                              *)
OutputSchema(facts, env, calls) ==
    [i \in DOMAIN facts.keys |-> \/ MayBeNullIn(facts.keys[i], env)
                                 \/ \E s \in DOMAIN facts.sets : facts.keys[i] \notin ToSet(facts.sets[s])]
    \o CallSchema([i \in DOMAIN calls |-> <<calls[i].agg>>]) \o [i \in DOMAIN facts.groupings |-> FALSE]

AggregateBy(rel, facts, calls, output, env) ==
    GroupedFrame(IF ManySets(facts)
                 THEN SetsTerm(rel.term, [facts EXCEPT !.sets = IF @ = << >> THEN <<facts.keys>> ELSE @],
                               calls, output, NullabilityOf(rel.columns), env)
                 ELSE GroupTerm(rel.term, facts.keys, calls, FALSE, NullabilityOf(rel.columns), env),
                 facts, output, env)

AggregateRows(rel, facts, env) ==
    AggregateBy(rel, facts, CallsOf(facts), OutputSchema(facts, env, CallsOf(facts)), env)

-----------------------------------------------------------------------------
(* The select list.  A projection is an expression or, when `slot` is not 0, *)
(* the column of that position.                                             *)
ProjectionOf(e, name, slot) == [e |-> e, name |-> name, slot |-> slot]

(* An expanded star takes the columns of the source, each once.             *)
StarChoice(chosen, e, columns) ==
    LET left == IF Op(e) = "col" THEN MatchingIndices(e, columns) \ ToSet(chosen) ELSE {}
    IN  Append(chosen, IF left = {} THEN 0 ELSE Min(left))
StarChoices(items, columns) ==
    FoldLeft(LAMBDA chosen, item : StarChoice(chosen, item.e, columns), << >>, items)

StarFits(items, columns, chosen) ==
    /\ Len(items) = Len(columns)
    /\ \A i \in DOMAIN items : chosen[i] > 0 /\ columns[chosen[i]].name = items[i].name

ProjectionsBy(items, columns, chosen) ==
    [i \in DOMAIN items |->
        ProjectionOf(items[i].e, items[i].name, IF StarFits(items, columns, chosen) THEN chosen[i] ELSE 0)]

ProjectionsOf(q, columns) ==
    ProjectionsBy(q.items, columns, IF q.star THEN StarChoices(q.items, columns)
                                    ELSE [i \in DOMAIN q.items |-> 0])

ProjectionValue(p, env) ==
    IF p.slot > 0 THEN Build("field", p.slot, <<env.row>>, env.scope) ELSE ValueIn(p.e, env)
ProjectionMayBeNull(p, env) ==
    IF p.slot > 0 THEN env.columns[p.slot].nullable ELSE MayBeNullIn(p.e, env)

(* The values say what the columns may be.                                  *)
SortsOf(values)     == [i \in DOMAIN values |-> SortOf(values[i].t)[2]]
ProjectionValues(projections, env) == [i \in DOMAIN projections |-> ProjectionValue(projections[i], env)]

ProjectAs(term, projections, values, schema, scope) ==
    TableOf(Build(IF IsBagTerm(term) THEN "map" ELSE "seqmap", "",
                     <<term, RowFunction(SortsOf(values), values, schema, scope)>>, scope),
               [i \in DOMAIN projections |-> Column(projections[i].name, {}, SortsOf(values)[i])])

Project(rel, env, projections) ==
    ProjectAs(rel.term, projections,
              Strict(ProjectionValues(projections, AtRow([env EXCEPT !.columns = rel.columns],
                                                         NullabilityOf(rel.columns)))),
              NullabilityOf(rel.columns), env.scope)

ProjectionSlots(projections) == SlotsFor([i \in DOMAIN projections |-> projections[i].e])
ProjectionEnvironment(rel, projections, c) == Environment(rel.columns, ProjectionSlots(projections), c)

-----------------------------------------------------------------------------
(* ORDER BY, LIMIT and OFFSET.  A position or the name of one output column *)
(* stands for its expression.                                               *)
OrderExpression(e, projections) ==
    LET named == {i \in DOMAIN projections : Op(e) = "col" /\ Arg(e) = <<"", projections[i].name>>}
    IN  IF Op(e) = "int" /\ Arg(e) \in DOMAIN projections THEN projections[Arg(e)].e
        ELSE IF Cardinality(named) = 1 THEN projections[CHOOSE i \in named : TRUE].e ELSE e

OrderExpressions(order, projections) == [i \in DOMAIN order |-> OrderExpression(order[i].e, projections)]

(* What the order needs beyond the select list.                             *)
HiddenBy(keys, projections) ==
    LET unseen == SelectSeq(Once(keys), LAMBDA e : \A i \in DOMAIN projections : projections[i].e # e)
    IN  [i \in DOMAIN unseen |-> ProjectionOf(unseen[i], "", 0)]
Hidden(order, projections) == HiddenBy(OrderExpressions(order, projections), projections)

NullsFirst(descending) == ~descending
OrderSpecs(order) == [i \in DOMAIN order |-> <<order[i].desc, NullsFirst(order[i].desc)>>]

Literal(n, scope) == Build("lit", n, << >>, scope)
OffsetOf(q) == IF q.offset = << >> THEN 0 ELSE q.offset[1]

OrderTerm(q, term, keys, scope) ==
    CASE q.limit # << >> ->
           Build("topk", OrderSpecs(q.order),
                 <<term, Literal(OffsetOf(q), scope), Literal(q.limit[1], scope)>> \o keys, scope)
      [] q.limit = << >> /\ q.offset # << >> ->
           Build("drop", "", <<Literal(OffsetOf(q), scope),
                               Build("orderby", OrderSpecs(q.order), <<term>> \o keys, scope)>>, scope)
      [] OTHER -> IF q.order = << >> THEN term
                  ELSE Build("orderby", OrderSpecs(q.order), <<term>> \o keys, scope)

OrderKeys(expressions, schema, env) ==
    [i \in DOMAIN expressions |-> Lam(schema, ValueIn(expressions[i], AtRow(env, schema)), env.scope)]

OrderAndLimit(q, rel, env, projections) ==
    TableOf(OrderTerm(q, rel.term,
                         OrderKeys(OrderExpressions(q.order, projections), NullabilityOf(rel.columns), env),
                         env.scope), rel.columns)

-----------------------------------------------------------------------------
(* SELECT.  A frame is a term and the environment of its rows.              *)
Frame(rel, env) == [term |-> rel.term, env |-> env]
InFrame(f)      == TableOf(f.term, f.env.columns)
FilterFrame(f, p) == Frame(FilterRows(InFrame(f), p, f.env), f.env)

(* SELECT DISTINCT ordered by something else: grouped by the select list,   *)
(* each group keeping one of its order values.                              *)
DistinctGroups(f, projections, hidden, schema, nullable) ==
    [term |-> FoldTerm("groupfold",
                  <<f.term, RowFunction(nullable, ProjectionValues(projections, AtRow(f.env, schema)),
                                        schema, f.env.scope)>>,
                  [i \in DOMAIN hidden |-> AnyValueCall(hidden[i].e)], schema, f.env),
     env  |-> Environment([i \in 1 .. Len(projections) + Len(hidden) |->
                              Column((projections \o hidden)[i].name, {},
                                     i > Len(projections) \/ nullable[i])],
                          ProjectionSlots(projections \o hidden), f.env)]

OrderAndProject(q, f, projections) ==
    Project(OrderAndLimit(q, InFrame(f), f.env, projections), f.env, projections)

DistinctOrdered(q, rel, projections, c) ==
    OrderAndLimit(q, TableOf(Build("distinct", "", <<rel.term>>, c.scope), rel.columns),
                  ProjectionEnvironment(rel, projections, c), projections)

ProjectedFrame(rel, projections, c) == Frame(rel, ProjectionEnvironment(rel, projections, c))

SelectList(q, f, projections, hidden) ==
    CASE q.distinct /\ hidden # << >> ->
           OrderAndProject(q, DistinctGroups(f, projections, hidden, NullabilityOf(f.env.columns),
                                      [i \in DOMAIN projections |-> ProjectionMayBeNull(projections[i], f.env)]),
                    projections)
      [] q.distinct -> DistinctOrdered(q, Project(InFrame(f), f.env, projections), projections, f.env)
      [] ~q.distinct /\ q.order # << >> ->
           OrderAndProject(q, ProjectedFrame(Project(InFrame(f), f.env, projections \o hidden),
                                      projections \o hidden, f.env), projections)
      [] OTHER -> OrderAndProject(q, f, projections)

Having(q, f) == IF q.having = << >> THEN f ELSE FilterFrame(f, q.having[1])

NoHaving(q, f) == IF q.having = << >> THEN f ELSE FilterFrame(f, Refused)

Working(q, f) == IF RequiresAggregation(q) THEN Having(q, AggregateRows(InFrame(f), Facts(q), f.env))
                 ELSE NoHaving(q, f)

SelectFrom(q, f, projections) == SelectList(q, Working(q, f), projections, Hidden(q.order, projections))

SelectWhere(q, f) ==
    SelectFrom(q, IF q.where = << >> THEN f ELSE FilterFrame(f, q.where[1]), ProjectionsOf(q, f.env.columns))

SelectOver(q, rel, c) == SelectWhere(q, Frame(rel, Environment(rel.columns, << >>, c)))

-----------------------------------------------------------------------------
(* Set operations, on columns that may be NULL when one side's may.         *)
CastTerm(bag, schema, common, scope) ==
    IF schema = common THEN bag
    ELSE Build("map", "", <<bag, RowFunction(common, FieldsOf(Var(schema, scope), Len(schema), UnderRow(scope)),
                                             schema, scope)>>, scope)
CastColumns(rel, common, scope) ==
    TableOf(CastTerm(AsBag(rel, scope), NullabilityOf(rel.columns), common, scope),
               [i \in DOMAIN common |-> [rel.columns[i] EXCEPT !.nullable = common[i]]])

SameFields(left, right, width, scope) ==
    AllTrue([i \in 1 .. width |->
                Build("isnotdistinct", "", <<FieldsOf(left, width, scope)[i], FieldsOf(right, width, scope)[i]>>,
                      scope)], scope)

(* The rows of the right side that are the row of the left side.            *)
MatchingRight(right, row, schema, scope) ==
    Build("filter", "", <<right, Lam(schema, SameFields(row, Var(schema, scope), Len(schema), UnderRow(scope)),
                                     scope)>>, scope)

DistinctBag(bag, scope) == Build("distinct", "", <<bag>>, scope)

SetTerm(q, left, right, schema, scope) ==
    CASE q.kind = "union" /\ q.all -> Build("unionall", "", <<left, right>>, scope)
      [] q.kind = "union" -> DistinctBag(Build("unionall", "", <<left, right>>, scope), scope)
      [] OTHER ->
           Build(IF q.kind = "intersect" THEN "semijoin" ELSE "antijoin", "",
                 <<DistinctBag(left, scope),
                   Lam(schema, MatchingRight(DistinctBag(right, scope), Var(schema, scope), schema,
                                             UnderRow(scope)), scope)>>, scope)

NamedProjections(columns) ==
    [i \in DOMAIN columns |-> ProjectionOf(Node("col", <<"", columns[i].name>>, << >>), columns[i].name, 0)]

SetResult(q, rel, projections, c) ==
    OrderAndLimit(q, rel, ProjectionEnvironment(rel, projections, c), projections)

SetOfCast(q, left, right, common, scope) ==
    TableOf(SetTerm(q, left.term, right.term, common, scope), left.columns)

SetOfCommon(q, left, right, common, c) ==
    SetResult(q, SetOfCast(q, CastColumns(left, common, c.scope), CastColumns(right, common, c.scope),
                           common, c.scope), NamedProjections(left.columns), c)

SetOf(q, left, right, c) ==
    SetOfCommon(q, left, right, [i \in DOMAIN left.columns |-> left.columns[i].nullable \/ right.columns[i].nullable], c)

(* WITH: the first table is bound around what follows.                      *)
BoundTable(name, definition, scope) ==
    TableOf(Built(RelVar(0, SortOf(definition.term.t)), UnderRel(scope)),
               Renamed(definition.columns, name, << >>))

LetTerm(definition, result, scope) ==
    TableOf(Built(Node("letrel", "", <<Resolve(definition.term, scope),
                                          Resolve(result.term, UnderRel(scope))>>), scope), result.columns)

WithTable(q, definition, c) ==
    LetTerm(definition,
            QueryIn([q EXCEPT !.ctes = Tail(@)],
                    [c EXCEPT !.ctes = (q.ctes[1].name :> BoundTable(q.ctes[1].name, definition, c.scope)) @@ @,
                              !.scope = UnderRel(@)]), c.scope)

QueryRelation(q, c) ==
    CASE q.kind = "with" -> IF q.ctes = << >> THEN QueryIn(q.body, c)
                            ELSE WithTable(q, QueryIn(q.ctes[1].query, c), c)
      [] q.kind = "select" -> SelectOver(q, FromClause(q, c), c)
      [] q.kind \in {"union", "intersect", "except"} -> SetOf(q, QueryIn(q.left, c), QueryIn(q.right, c), c)
      [] OTHER -> SourceOf(q, c)

Sql(kind, x, env) ==
    CASE kind = "value"     -> ScalarValue(x, env)
      [] kind = "nullable"  -> MayBeNull(x, env)
      [] kind = "condition" -> ConditionOf(x, env)
      [] kind = "query"     -> QueryRelation(x, env)

(* The compact query of a statement, if the compiler refuses nothing in it. *)
RECURSIVE Accepted(_)
Accepted(t) == t # Node("null", "refused", << >>) /\ \A i \in DOMAIN Kids(t) : Accepted(Kid(t, i))

Compiled(q) == Resolve(QueryIn(q, TopContext).term, <<0, 0>>)
=============================================================================
