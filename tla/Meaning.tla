------------------------------ MODULE Meaning ------------------------------
(* What a compact query means: the rows that SQL gives for it, each as often *)
(* as it occurs.  This is the reference the compiled query is held against;  *)
(* it shares with the code only the scalar operations on values.             *)
EXTENDS Valuation, TLC

(* A query that raises an error has this one row.                           *)
Error == <<<<Failure>>>>
Checked(rows) == IF \E i \in DOMAIN rows : Failure \in ToSet(rows[i]) THEN Error ELSE rows

(* The rows that each row of a bag contributes.                             *)
Each(rows, F(_)) == IF rows = Error THEN Error
                    ELSE Checked(FlattenSeq(Strict([i \in DOMAIN rows |-> F(rows[i])])))
Both(a, b) == IF Error \in {a, b} THEN Error ELSE a \o b
Keep(truth, row) == IF truth = Failure THEN Error ELSE IF truth = TRUE THEN <<row>> ELSE << >>

NullRow(width) == [i \in 1..width |-> Null]

Firsts(rows) == LET first == SelectSeq([i \in DOMAIN rows |-> i],
                                       LAMBDA i : \A j \in 1 .. i - 1 : rows[j] # rows[i])
                IN  Strict([i \in DOMAIN first |-> rows[first[i]]])

StoredRows(r) == FlattenSeq(Strict([s \in 1 .. Cardinality(Slots(r)) |->
                     [k \in 1 .. Occurs(r, s) |-> [c \in DOMAIN Schema[r] |-> values[<<r, s, c>>]]]]))

(* An aggregate of the arguments of its rows; COUNT star is given a row each. *)
Summed(xs) == FoldLeft(+, 0, xs)
Extreme(xs, least) == CHOOSE x \in ToSet(xs) : \A y \in ToSet(xs) : IF least THEN x <= y ELSE x >= y
Aggregated(agg, distinct, given) ==
    LET known == IF agg = "countstar" THEN given ELSE SelectSeq(given, LAMBDA x : x # Null)
        xs    == IF distinct THEN Firsts(known) ELSE known
    IN  CASE Failure \in ToSet(given)      -> Failure
          [] agg \in {"count", "countstar"} -> Len(xs)
          [] xs = << >>  -> Null
          [] agg = "anyvalue" -> xs[1]
          [] agg = "min" -> Extreme(xs, TRUE)
          [] agg = "max" -> Extreme(xs, FALSE)
          [] agg = "sum" -> Summed(xs)
          [] agg = "avg" -> Summed(xs) \div Len(xs)

(* Sorting by keys <<descending, nulls first>>.                             *)
KeyLess(a, b, specs) ==
    \E i \in DOMAIN specs :
        /\ \A j \in 1 .. i - 1 : a[j] = b[j]
        /\ IF Null \in {a[i], b[i]} THEN a[i] # b[i] /\ (a[i] = Null) = specs[i][2]
           ELSE IF specs[i][1] THEN b[i] < a[i] ELSE a[i] < b[i]

(* The value of a scalar, the row of a row, the rows of a relation.         *)
RECURSIVE Meaning(_, _, _)

MeaningsOf(t, rows, rels) == Strict([i \in DOMAIN Kids(t) |-> Meaning(Kid(t, i), rows, rels)])

Member(x, b) ==
    CASE x = Failure \/ b = Error            -> Failure
      [] b = << >>                           -> FALSE
      [] x # Null /\ <<x>> \in ToSet(b)      -> TRUE
      [] x = Null \/ <<Null>> \in ToSet(b)   -> Null
      [] OTHER                               -> FALSE

OnlyValue(b) == CASE Len(b) = 0 -> Null [] Len(b) = 1 -> b[1][1] [] OTHER -> Failure

ValueOf(t, rows, rels) ==
    LET Of(v) == CASE Op(t) = "row"        -> v
                   [] Op(t) = "field"      -> v[1][Arg(t)]
                   [] Op(t) = "scalarize"  -> OnlyValue(v[1])
                   [] Op(t) = "insubquery" -> Member(v[1], v[2])
                   [] Failure \in ToSet(v) -> Failure
                   [] OTHER                -> Operate(Op(t), Arg(t), v, Null \in ToSet(v))
        Choice(c) == IF c = Failure THEN Failure
                     ELSE Meaning(Kid(t, IF c = TRUE THEN 2 ELSE 3), rows, rels)
    IN  CASE Op(t) = "rowvar" -> rows[Arg(t)[1] + 1]
          [] Op(t) = "case"   -> Choice(Meaning(Kid(t, 1), rows, rels))
          [] IsConstant(t)    -> Eval(t)
          [] OTHER            -> Of(MeaningsOf(t, rows, rels))

(* The lambda that is a child of the term, applied to a row.                *)
Call(t, i, row, rows, rels) == Meaning(Kid(Kid(t, i), 1), <<row>> \o rows, rels)

Unless(b, row) == IF b = << >> THEN <<row>> ELSE b
Lone(b, row)   == IF b = << >> THEN <<row>> ELSE IF b = Error THEN Error ELSE << >>

JoinRows(t, left, right, rows, rels) ==
    LET Matched(l, r) == IF Op(t) = "product" THEN <<l \o r>> ELSE Keep(Call(t, 3, l \o r, rows, rels), l \o r)
        OfLeft(l)  == Each(right, LAMBDA r : Matched(l, r))
        OfRight(r) == Each(left, LAMBDA l : Matched(l, r))
        FromLeft(AndNone(_, _)) ==
            Each(left, LAMBDA l : AndNone(OfLeft(l), l \o NullRow(Len(SchemaOf(Kid(t, 2))))))
        FromRight(AndNone(_, _)) ==
            Each(right, LAMBDA r : AndNone(OfRight(r), NullRow(Len(SchemaOf(Kid(t, 1)))) \o r))
        Inner(b, row) == b
    IN  CASE Op(t) \in {"product", "join"} -> FromLeft(Inner)
          [] Op(t) = "leftjoin"            -> FromLeft(Unless)
          [] Op(t) = "rightjoin"           -> FromRight(Unless)
          [] Op(t) = "fulljoin"            -> Both(FromLeft(Unless), FromRight(Lone))

DependentRows(t, left, rows, rels) ==
    LET Extended(l, inner) == Each(inner, LAMBDA r : <<l \o r>>)
        Alone(l) == l \o NullRow(Len(SchemaOf(t)) - Len(l))
        Of(l, inner) ==
            CASE Op(t) = "depjoin"     -> Extended(l, inner)
              [] Op(t) = "depleftjoin" -> Unless(Extended(l, inner), Alone(l))
              [] inner = Error         -> Error
              [] OTHER -> IF (inner = << >>) = (Op(t) = "antijoin") THEN <<l>> ELSE << >>
    IN  Each(left, LAMBDA l : Of(l, Call(t, 2, l, rows, rels)))

AdmittedBy(t, call, group, rows, rels) ==
    IF call[4] = 0 THEN group
    ELSE SelectSeq(group, LAMBDA row : Call(t, call[4], row, rows, rels) = TRUE)

AggregateOfRows(t, call, group, rows, rels) ==
    Aggregated(call[1], call[2], Strict([j \in DOMAIN group |->
        IF call[3] = 0 THEN 0 ELSE Call(t, call[3], group[j], rows, rels)]))

Aggregates(t, group, rows, rels) ==
    [i \in DOMAIN Arg(t) |->
        AggregateOfRows(t, Arg(t)[i], AdmittedBy(t, Arg(t)[i], group, rows, rels), rows, rels)]

GroupedRows(t, source, keyed, rows, rels) ==
    IF Error \in {source, keyed} THEN Error
    ELSE Each(Firsts(keyed), LAMBDA key :
             <<key \o Aggregates(t, SelectSeq(source, LAMBDA row : Call(t, 2, row, rows, rels) = key),
                                 rows, rels)>>)

FoldedRows(t, source, rows, rels) ==
    CASE Op(t) = "groupfold" ->
           GroupedRows(t, source, Each(source, LAMBDA row : <<Call(t, 2, row, rows, rels)>>), rows, rels)
      [] source = Error      -> Error
      [] OTHER               -> Checked(<<Aggregates(t, source, rows, rels)>>)

OrderedRows(t, source, rows, rels) ==
    LET KeysOf(row) == Strict([k \in DOMAIN Arg(t) |->
                           Call(t, Len(Kids(t)) - Len(Arg(t)) + k, row, rows, rels)])
    IN  IF source = Error THEN Error
        ELSE SortSeq(source, LAMBDA a, b : KeyLess(KeysOf(a), KeysOf(b), Arg(t)))

SliceOf(b, from, count) ==
    IF b = Error THEN Error ELSE SubSeq(b, from + 1, Min({from + count, Len(b)}))

(* A listed bag: its rows are the identities that its body adds up.         *)
ListedRows(body, rows, rels) ==
    CASE Op(body) = "one" -> <<<< >>>>
      [] Op(body) = "add" -> FlattenSeq(Strict([i \in DOMAIN Kids(body) |->
                                 <<Meaning(Kid(Kid(Kid(body, i), 1), 1), rows, rels)>>]))
      [] OTHER            -> <<Meaning(Kid(Kid(body, 1), 1), rows, rels)>>

RowsMeant(t, v, rows, rels) ==
    CASE Op(t) = "filter" -> Each(v, LAMBDA row : Keep(Call(t, 2, row, rows, rels), row))
      [] Op(t) \in {"map", "seqmap"} -> Each(v, LAMBDA row : <<Call(t, 2, row, rows, rels)>>)
      [] Op(t) = "letrel"   -> Meaning(Kid(t, 2), rows, <<v>> \o rels)
      [] Op(t) = "distinct" -> Firsts(v)
      [] Op(t) = "unionall" -> Both(v, Meaning(Kid(t, 2), rows, rels))
      [] Op(t) \in {"product", "join", "leftjoin", "rightjoin", "fulljoin"} ->
           JoinRows(t, v, Meaning(Kid(t, 2), rows, rels), rows, rels)
      [] Op(t) \in {"depjoin", "depleftjoin", "semijoin", "antijoin"} ->
           DependentRows(t, v, rows, rels)
      [] Op(t) \in {"globalfold", "groupfold"} -> FoldedRows(t, v, rows, rels)
      [] Op(t) = "orderby" -> OrderedRows(t, v, rows, rels)
      [] Op(t) = "topk"    ->
           SliceOf(OrderedRows(t, v, rows, rels), Arg(Kid(t, 2)), Arg(Kid(t, 3)))
      [] Op(t) = "forget"  -> v
      [] Op(t) = "take"    -> SliceOf(v, 0, Arg(Kid(t, 1)))
      [] Op(t) = "drop"    -> SliceOf(v, Arg(Kid(t, 1)), Len(v))
      [] Op(t) = "slice"   -> SliceOf(v, Arg(Kid(t, 1)), Arg(Kid(t, 2)))

Meaning(t, rows, rels) ==
    CASE Op(t) = "base"   -> StoredRows(Arg(t))
      [] Op(t) = "empty"  -> << >>
      [] Op(t) = "relvar" -> rels[Arg(t)[1] + 1]
      [] Op(t) = "baglam" -> Checked(ListedRows(Kid(Kid(t, 1), 1), <<<< >>>> \o rows, rels))
      [] Op(t) \in {"take", "drop", "slice"} -> RowsMeant(t, Meaning(Last(Kids(t)), rows, rels), rows, rels)
      [] Op(t) \in CompactOnly \cup {"letrel", "seqmap", "globalfold", "groupfold", "orderby", "forget"} ->
           RowsMeant(t, Meaning(Kid(t, 1), rows, rels), rows, rels)
      [] OTHER            -> ValueOf(t, rows, rels)

(* The rows of a closed query over the stored rows.                         *)
Answer(t) == Meaning(t, << >>, << >>)
SameBag(a, b) == \A row \in ToSet(a) \cup ToSet(b) : Len(Copies(row, a)) = Len(Copies(row, b))
=============================================================================
