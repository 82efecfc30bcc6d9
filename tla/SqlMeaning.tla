---------------------------- MODULE SqlMeaning ----------------------------
(* What a SQL statement means over the stored rows, by the names of the     *)
(* statement itself.  This is the reference the compiler is held against:   *)
(* it builds no term, and of the compiler it uses only how a name matches   *)
(* a column.                                                                *)
EXTENDS Meaning, Compiler

(* A table is its columns and its rows.  A world is what an expression can  *)
(* see: the rows around it with their columns, the tables of WITH, and in a *)
(* grouping the rows of the group and the keys that it is grouped by.       *)
Table(columns, rows) == [columns |-> columns, rows |-> rows]
Alone              == [member |-> << >>, keys |-> {}, all |-> {}]
TopWorld           == [frames |-> << >>, tables |-> [name \in {} |-> << >>], group |-> Alone]
Seeing(columns, row, w) ==
    [w EXCEPT !.frames = <<[columns |-> columns, row |-> row]>> \o @, !.group = Alone]

RECURSIVE Means(_, _, _)
ValueMeant(e, w) == Means("value", e, w)
TableMeant(q, w) == Means("query", q, w)

NotOf(v) == IF v \in {Null, Failure} THEN v ELSE ~v
AndOf(vs) == CASE Failure \in vs -> Failure
               [] FALSE \in vs   -> FALSE
               [] OTHER          -> IF Null \in vs THEN Null ELSE TRUE
OrOf(vs)  == NotOf(AndOf({NotOf(v) : v \in vs}))

Relates(op, a, b) == CASE op = "nseq" /\ Failure \notin {a, b} -> a = b
                       [] Failure \in {a, b} -> Failure
                       [] Null \in {a, b}    -> Null
                       [] op = "eq"          -> a = b
                       [] op = "lt"          -> a < b

Compares(op, a, b) == CASE op = "neq"   -> NotOf(Relates("eq", a, b))
                        [] op = "nsneq" -> NotOf(Relates("nseq", a, b))
                        [] op = "gt"    -> Relates("lt", b, a)
                        [] op = "lte"   -> OrOf({Relates("lt", a, b), Relates("eq", a, b)})
                        [] op = "gte"   -> OrOf({Relates("lt", b, a), Relates("eq", a, b)})
                        [] OTHER        -> Relates(op, a, b)

(* As a condition, a number is true when it is not 0.                       *)
Holds(e, w) == LET v == ValueMeant(e, w)
               IN  IF Op(e) \in Conditions \/ v \in {Null, Failure} THEN v ELSE v # 0

NearestFrame(e, frames) == SelectSeq(frames, LAMBDA f : MatchingIndices(e, f.columns) # {})[1]
NamedValue(e, f) == f.row[CHOOSE i \in MatchingIndices(e, f.columns) : TRUE]

RowInOf(width, v) ==
    OrOf({AndOf({Relates("eq", v[i], v[k * width + i]) : i \in 1 .. width}) :
             k \in 1 .. (Len(v) \div width) - 1})

OperationMeant(e, v) ==
    CASE Op(e) \in Comparisons -> Compares(Op(e), v[1], v[2])
      [] Op(e) = "between"  -> AndOf({Compares("gte", v[1], v[2]), Compares("lte", v[1], v[3])})
      [] Op(e) = "inlist"   -> OrOf({Relates("eq", v[1], v[i]) : i \in 2 .. Len(v)})
      [] Op(e) = "rowin"    -> RowInOf(Arg(e), v)
      [] Failure \in ToSet(v) -> Failure
      [] Op(e) = "isnull"   -> v[1] = Null
      [] Null \in ToSet(v)  -> Null
      [] Op(e) = "arith"    -> Arithmetic(Arg(e), v[1], v[2])

(* The first branch whose condition holds.                                  *)
RECURSIVE Branches(_, _, _)
Branches(e, i, w) ==
    LET c == Holds(Kid(e, i), w)
    IN  IF i = Len(Kids(e)) THEN ValueMeant(Kid(e, i), w)
        ELSE IF c = Failure THEN Failure
        ELSE IF c = TRUE THEN ValueMeant(Kid(e, i + 1), w) ELSE Branches(e, i + 2, w)

AtMember(row, w) == [w EXCEPT !.frames[1].row = row, !.group = Alone]

AggregateMeant(e, w) ==
    LET counted == IF Arg(e)[3] THEN SelectSeq(w.group.member, LAMBDA row : Holds(Last(Kids(e)), AtMember(row, w)) = TRUE)
                   ELSE w.group.member
    IN  Aggregated(Arg(e)[1], Arg(e)[2], Strict([i \in DOMAIN counted |->
            IF Arg(e)[1] = "countstar" THEN 0 ELSE ValueMeant(Kid(e, 1), AtMember(counted[i], w))]))

Bits(bits) == FoldLeft(LAMBDA n, bit : 2 * n + bit, 0, bits)

Something(rows) == IF rows = Error THEN Failure ELSE rows # << >>

ScalarMeant(e, w) ==
    CASE e \in w.group.all \ w.group.keys -> Null
      [] Op(e) = "col"   -> NamedValue(e, NearestFrame(e, w.frames))
      [] Op(e) = "int"   -> Arg(e)
      [] Op(e) = "bool"  -> Arg(e)
      [] Op(e) = "nul"   -> Null
      [] Op(e) = "and"   -> AndOf({Holds(Kid(e, i), w) : i \in 1..2})
      [] Op(e) = "or"    -> OrOf({Holds(Kid(e, i), w) : i \in 1..2})
      [] Op(e) = "not"   -> NotOf(Holds(Kid(e, 1), w))
      [] Op(e) = "case"  -> Branches(e, 1, w)
      [] Op(e) = "agg"   -> AggregateMeant(e, w)
      [] Op(e) = "grouping" -> Bits([i \in DOMAIN Kids(e) |-> IF Kid(e, i) \in w.group.keys THEN 0 ELSE 1])
      [] Op(e) = "subquery" -> OnlyValue(TableMeant(Arg(e), w).rows)
      [] Op(e) = "exists"   -> Something(TableMeant(Arg(e), w).rows)
      [] Op(e) = "inquery"  -> Member(ValueMeant(Kid(e, 1), w), TableMeant(Arg(e), w).rows)
      [] OTHER -> OperationMeant(e, Strict([i \in DOMAIN Kids(e) |-> ValueMeant(Kid(e, i), w)]))

-----------------------------------------------------------------------------
(* FROM.                                                                    *)
Labelled(names, from) == [i \in DOMAIN names |-> [name |-> names[i], from |-> from]]
NamesIn(columns)      == [i \in DOMAIN columns |-> columns[i].name]

BaseTable(name) == Table(Labelled(ColumnNames[name], {name}), StoredRows(name))
ListTable(rows, w) ==
    Table(Labelled([i \in DOMAIN rows[1] |-> "column" \o ToString(i)], {}),
          Checked(Strict([r \in DOMAIN rows |-> Strict([i \in DOMAIN rows[r] |-> ValueMeant(rows[r][i], w)])])))

AliasedTable(t, source) ==
    IF source.alias = << >> THEN t
    ELSE Table(Labelled([i \in DOMAIN t.columns |-> IF i \in DOMAIN source.columns THEN source.columns[i]
                                                    ELSE t.columns[i].name], {source.alias[1]}), t.rows)

SourceTable(source, w) ==
    AliasedTable(CASE source.kind = "values"  -> ListTable(source.rows, w)
                   [] source.kind = "derived" -> TableMeant(source.query, w)
                   [] source.kind = "table"   -> IF source.name \in DOMAIN w.tables THEN w.tables[source.name]
                                                 ELSE BaseTable(source.name), source)

(* What a row of the left side is joined to.                                *)
RightTable(left, join, row, w) ==
    SourceTable(join.source, IF join.kind \in {"lateral", "leftlateral"} THEN Seeing(left.columns, row, w) ELSE w)

TruthOn(join, columns, row, w) == IF join.on = << >> THEN TRUE ELSE Holds(join.on[1], Seeing(columns, row, w))

JoinMeant(left, join, columns, w) ==
    LET Width    == Len(columns) - Len(left.columns)
        Pair(l, r)  == Keep(TruthOn(join, columns, l \o r, w), l \o r)
        OfLeft(l)   == Each(RightTable(left, join, l, w).rows, LAMBDA r : Pair(l, r))
        OfRight(r)  == Each(left.rows, LAMBDA l : Pair(l, r))
        LeftRows    == Each(left.rows, LAMBDA l : IF join.kind \in {"left", "full", "leftlateral"}
                                                  THEN Unless(OfLeft(l), l \o NullRow(Width)) ELSE OfLeft(l))
        NoLeft(r)   == NullRow(Len(left.columns)) \o r
        Right       == RightTable(left, join, << >>, w).rows
    IN  CASE join.kind = "right" -> Each(Right, LAMBDA r : Unless(OfRight(r), NoLeft(r)))
          [] join.kind = "full"  -> Both(LeftRows, Each(Right, LAMBDA r : Lone(OfRight(r), NoLeft(r))))
          [] OTHER               -> LeftRows

JoinedTable(left, join, w) ==
    LET columns == left.columns \o RightTable(left, join, NullRow(Len(left.columns)), w).columns
    IN  Table(columns, JoinMeant(left, join, columns, w))

FromTable(q, w) ==
    FoldLeft(LAMBDA left, join : JoinedTable(left, join, w), Table(<< >>, <<<< >>>>),
             [i \in DOMAIN q.from |-> [kind |-> "cross", source |-> q.from[i], on |-> << >>]] \o q.joins)

-----------------------------------------------------------------------------
(* GROUP BY: every combination of a prefix of the ROLLUP, a subset of the   *)
(* CUBE and a grouping set, with the fixed keys.                            *)
OneOf(s) == IF s = << >> THEN <<{}>> ELSE s
UnionsOf(s, t) == FlattenSeq(Strict([i \in DOMAIN s |-> [j \in DOMAIN t |-> s[i] \cup t[j]]]))

KeySets(group) ==
    UnionsOf(<<ToSet(group.fixed)>>,
      UnionsOf(OneOf(IF group.rollup = << >> THEN << >>
                     ELSE [n \in 1 .. Len(group.rollup) + 1 |-> {group.rollup[i] : i \in 1 .. n - 1}]),
        UnionsOf(OneOf(IF group.cube = << >> THEN << >> ELSE Ordered(SUBSET ToSet(group.cube))),
                 OneOf([i \in DOMAIN group.sets |-> ToSet(group.sets[i])]))))

GroupWorld(columns, member, keys, all, w) ==
    [Seeing(columns, IF member = << >> THEN NullRow(Len(columns)) ELSE member[1], w)
        EXCEPT !.group = [member |-> member, keys |-> keys, all |-> all]]

(* The groups of the rows by some keys; by none, all rows are one group.    *)
KeyOf(row, columns, keys, w) == Strict([i \in DOMAIN keys |-> ValueMeant(keys[i], Seeing(columns, row, w))])
GroupsBy(columns, rows, keys, all, w) ==
    LET KeyAt(row) == KeyOf(row, columns, Ordered(keys), w)
        found == Firsts(Strict([i \in DOMAIN rows |-> KeyAt(rows[i])]))
    IN  IF keys = {} THEN <<GroupWorld(columns, rows, keys, all, w)>>
        ELSE Strict([k \in DOMAIN found |->
                 GroupWorld(columns, SelectSeq(rows, LAMBDA row : KeyAt(row) = found[k]), keys, all, w)])

GroupsBySets(columns, rows, sets, w) ==
    FlattenSeq(Strict([s \in DOMAIN sets |-> GroupsBy(columns, rows, sets[s], UNION ToSet(sets), w)]))

(* A block aggregates by GROUP BY or by an aggregate of its own, which one   *)
(* in a query inside an expression is not.                                  *)
RECURSIVE HasAggregate(_)
HasAggregate(e) == Op(e) = "agg" \/ \E i \in DOMAIN Kids(e) : HasAggregate(Kid(e, i))
AggregatesIn(clause) == \E i \in DOMAIN clause : HasAggregate(clause[i].e)
BlockAggregates(q) == \/ q.group # << >> \/ AggregatesIn(q.items) \/ AggregatesIn(q.order)
                      \/ \E i \in DOMAIN q.having : HasAggregate(q.having[i])

(* What the select list is evaluated for: the rows, or the groups.          *)
Units(q, columns, rows, w) ==
    IF BlockAggregates(q)
    THEN GroupsBySets(columns, rows, IF q.group = << >> THEN <<{}>> ELSE KeySets(q.group[1]), w)
    ELSE Strict([i \in DOMAIN rows |-> Seeing(columns, rows[i], w)])

-----------------------------------------------------------------------------
(* A position or the name of an output column orders by that column.        *)
OrderValue(e, names, row, w) ==
    LET named == {i \in DOMAIN names : Op(e) = "col" /\ Arg(e) = <<"", names[i]>>}
    IN  IF Op(e) = "int" THEN row[Arg(e)]
        ELSE IF named # {} THEN row[CHOOSE i \in named : TRUE] ELSE ValueMeant(e, w)

OrderedWindow(pairs, q) ==
    LET sorted == SortSeq(pairs, LAMBDA a, b : KeyLess(a[2], b[2], [i \in DOMAIN q.order |->
                                                    <<q.order[i].desc, ~q.order[i].desc>>]))
        start  == IF q.offset = << >> THEN 0 ELSE q.offset[1]
        window == SubSeq(sorted, start + 1,
                         IF q.limit = << >> THEN Len(sorted) ELSE Min({start + q.limit[1], Len(sorted)}))
    IN  Strict([i \in DOMAIN window |-> window[i][1]])

FirstRows(pairs) == LET kept == SelectSeq([i \in DOMAIN pairs |-> i],
                                          LAMBDA i : \A j \in 1 .. i - 1 : pairs[j][1] # pairs[i][1])
                    IN  Strict([i \in DOMAIN kept |-> pairs[kept[i]]])

(* The rows with their order values, ordered and cut.                       *)
Delivered(q, names, pairs) ==
    Table(Labelled(names, {}),
          IF \E i \in DOMAIN pairs : Failure \in ToSet(pairs[i][1]) \cup ToSet(pairs[i][2]) THEN Error
          ELSE OrderedWindow(IF q.distinct THEN FirstRows(pairs) ELSE pairs, q))

OrderValues(q, names, row, w) == Strict([i \in DOMAIN q.order |-> OrderValue(q.order[i].e, names, row, w)])
WithOrder(q, names, row, w) == <<row, OrderValues(q, names, row, w)>>

ItemValues(q, w) == IF q.star THEN w.frames[1].row
                    ELSE Strict([i \in DOMAIN q.items |-> ValueMeant(q.items[i].e, w)])

SelectUnits(q, names, units) ==
    Delivered(q, names, Strict([u \in DOMAIN units |-> WithOrder(q, names, ItemValues(q, units[u]), units[u])]))

KeptBy(condition, units) ==
    SelectSeq(units, LAMBDA u : IF condition = << >> THEN TRUE ELSE Holds(condition[1], u) # FALSE
                                                                  /\ Holds(condition[1], u) # Null)
Failing(condition, units) ==
    condition # << >> /\ \E i \in DOMAIN units : Holds(condition[1], units[i]) = Failure

HavingUnits(q, names, units) ==
    IF Failing(q.having, units) THEN Table(Labelled(names, {}), Error)
    ELSE SelectUnits(q, names, KeptBy(q.having, units))

SelectTable(q, names, from, w) ==
    LET rows == Each(from.rows, LAMBDA row :
                    Keep(IF q.where = << >> THEN TRUE ELSE Holds(q.where[1], Seeing(from.columns, row, w)), row))
    IN  IF Error \in {from.rows, rows} THEN Table(Labelled(names, {}), Error)
        ELSE HavingUnits(q, names, Units(q, from.columns, rows, w))

SetRows(q, left, right) ==
    CASE Error \in {left, right} -> Error
      [] q.kind = "union"        -> IF q.all THEN left \o right ELSE Firsts(left \o right)
      [] q.kind = "intersect"    -> SelectSeq(Firsts(left), LAMBDA row : row \in ToSet(right))
      [] q.kind = "except"       -> SelectSeq(Firsts(left), LAMBDA row : row \notin ToSet(right))

SetTable(q, names, rows, w) ==
    IF rows = Error THEN Table(Labelled(names, {}), Error)
    ELSE Delivered(q, names,
                   Strict([i \in DOMAIN rows |-> WithOrder(q, names, rows[i], w)]))

SetMeant(q, left, right, w) == SetTable(q, NamesIn(left.columns), SetRows(q, left.rows, right.rows), w)

WithMeant(q, w) ==
    IF q.ctes = << >> THEN TableMeant(q.body, w)
    ELSE LET t == TableMeant(q.ctes[1].query, w)
         IN  TableMeant([q EXCEPT !.ctes = Tail(@)],
                        [w EXCEPT !.tables = (q.ctes[1].name :> Table(Labelled(NamesIn(t.columns), {q.ctes[1].name}),
                                                                      t.rows)) @@ @])

Means(kind, x, w) ==
    CASE kind = "value"    -> ScalarMeant(x, w)
      [] x.kind = "with"   -> WithMeant(x, w)
      [] x.kind = "select" -> SelectTable(x, [i \in DOMAIN x.items |-> x.items[i].name], FromTable(x, w), w)
      [] x.kind \in {"union", "intersect", "except"} ->
           SetMeant(x, TableMeant(x.left, w), TableMeant(x.right, w), w)
      [] OTHER             -> SourceTable(x, w)

(* The rows of a statement, in its order.                                   *)
SqlAnswer(q) == TableMeant(q, TopWorld).rows
=============================================================================
