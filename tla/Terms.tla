------------------------------- MODULE Terms -------------------------------
(* The checked term arena: terms, their sorts, local canonicalisation, and  *)
(* the binding operations on De Bruijn variables (terms/arena.py,           *)
(* terms/builder.py, terms/binding.py, terms/verify.py).                    *)
(*                                                                          *)
(* A term is <<operator, payload, children>>; structural equality stands    *)
(* for hash-consing.  SQL types are one (INTEGER, with the truth values of  *)
(* TO_BOOLEAN), so a scalar sort is only its nullability and a schema the   *)
(* sequence of the nullabilities of its columns.                            *)
EXTENDS Integers, Sequences, FiniteSets, SequencesExt

CONSTANTS Relation,   \* the names of the base relations
          Schema      \* [Relation -> Seq(BOOLEAN)]: which columns are nullable

ASSUME SchemaAssumption == \A r \in Relation : Schema[r] \in Seq(BOOLEAN)

Op(t)   == t[1]
Arg(t)  == t[2]
Kids(t) == t[3]
Kid(t, i) == t[3][i]

(* A sequence with every element computed once: TLC keeps [i \in S |-> e]   *)
(* unevaluated, and computes e again at every use.                          *)
Strict(s) == s \o << >>

Node(op, arg, kids) == <<op, arg, Strict(kids)>>
Leaf(op) == Node(op, "", << >>)
Zero     == Leaf("zero")
One      == Leaf("one")
RowVar(depth, schema) == Node("rowvar", <<depth, schema>>, << >>)
RelVar(depth, sort)   == Node("relvar", <<depth, sort>>, << >>)

(* The arena sorts the operands of a commutative operator by the age of the *)
(* terms.  Any fixed total order will do; this is the one of CHOOSE.        *)
RECURSIVE Ordered(_)
Ordered(S) == IF S = {} THEN << >>
              ELSE LET x == CHOOSE x \in S : TRUE IN <<x>> \o Ordered(S \ {x})

Copies(x, s) == SelectSeq(s, LAMBDA y : y = x)

CopiesInOrder(order, s) == FlattenSeq([i \in DOMAIN order |-> Copies(order[i], s)])
OrderedBag(s)           == CopiesInOrder(Ordered(ToSet(s)), s)

(* Add and Mul: flat, without identities, absorbed by zero, in order.       *)
Operands(op, kid) == IF Op(kid) = op THEN Kids(kid) ELSE <<kid>>

FlatNode(op, unit, flat) == CASE Len(flat) = 0 -> unit
                              [] Len(flat) = 1 -> flat[1]
                              [] OTHER         -> Node(op, "", OrderedBag(flat))

InternFlat(op, unit, kids) ==
    IF op = "mul" /\ Zero \in ToSet(kids) THEN Zero
    ELSE FlatNode(op, unit, FlattenSeq([i \in DOMAIN kids |->
             IF kids[i] = unit THEN << >> ELSE Operands(op, kids[i])]))

InternAC(op, kids) == InternFlat(op, Leaf(IF op = "add" THEN "zero" ELSE "one"), kids)

(* And3 and Or3: as above, and without duplicates.                          *)
DistinctNode(op, unit, left) == CASE left = {}             -> unit
                                  [] Cardinality(left) = 1 -> CHOOSE x \in left : TRUE
                                  [] OTHER                 -> Node(op, "", Ordered(left))

InternPredicates(op, unit, absorb, kids) ==
    IF absorb \in kids THEN absorb
    ELSE DistinctNode(op, unit, UNION {ToSet(Operands(op, p)) : p \in kids} \ {unit})

InternCommutativePredicate(op, kids) ==
    InternPredicates(op, Leaf(IF op = "and3" THEN "true3" ELSE "false3"),
                     Leaf(IF op = "and3" THEN "false3" ELSE "true3"), ToSet(kids))

RECURSIVE Intern(_, _, _)
Indicators(ps) == [i \in DOMAIN ps |-> Intern("ind", "", <<ps[i]>>)]

Indicator(p) ==
    CASE Op(p) = "true3"                   -> One
      [] Op(p) \in {"false3", "unknown3"}  -> Zero
      [] Op(p) = "and3" -> Intern("mul", "", Indicators(Kids(p)))
      [] Op(p) = "or3"  -> Node("squash", "", <<Intern("add", "", Indicators(Kids(p)))>>)
      [] OTHER          -> Node("ind", "", <<p>>)

InternStrict(op, arg, kids) ==
    CASE op \in {"add", "mul"}  -> InternAC(op, kids)
      [] op \in {"and3", "or3"} -> InternCommutativePredicate(op, kids)
      [] op = "ind"             -> Indicator(kids[1])
      [] OTHER                  -> Node(op, arg, kids)

Intern(op, arg, given) == InternStrict(op, arg, Strict(given))

Rebuilt(t, kids) == IF kids = Kids(t) THEN t ELSE Intern(Op(t), Arg(t), kids)
Rebuild(t, given) == Rebuilt(t, Strict(given))

-----------------------------------------------------------------------------
(* Binders.  A row lambda binds one row in its body, a relational let binds *)
(* one relation in its second child.                                        *)
RowBinders(t, i) == IF Op(t) = "rowlam" THEN 1 ELSE 0
RelBinders(t, i) == IF Op(t) = "letrel" /\ i = 2 THEN 1 ELSE 0

RECURSIVE Shift(_, _, _, _, _)
Shift(t, rows, rels, rowCut, relCut) ==
    IF rows = 0 /\ rels = 0 THEN t
    ELSE CASE Op(t) = "rowvar" ->
                IF Arg(t)[1] < rowCut THEN t ELSE RowVar(Arg(t)[1] + rows, Arg(t)[2])
           [] Op(t) = "relvar" ->
                IF Arg(t)[1] < relCut THEN t ELSE RelVar(Arg(t)[1] + rels, Arg(t)[2])
           [] OTHER -> Rebuild(t, [i \in DOMAIN Kids(t) |->
                           Shift(Kid(t, i), rows, rels,
                                 rowCut + RowBinders(t, i), relCut + RelBinders(t, i))])

(* Beta reduction: the variable of depth `binders` becomes the replacement, *)
(* the variables beyond it lose the binder that goes.                       *)
RECURSIVE Substitute(_, _, _, _)
Substitute(t, by, binders, rels) ==
    CASE Op(t) = "rowvar" ->
           IF Arg(t)[1] = binders THEN Shift(by, binders, rels, 0, 0)
           ELSE IF Arg(t)[1] > binders THEN RowVar(Arg(t)[1] - 1, Arg(t)[2]) ELSE t
      [] Op(t) = "relvar" -> t
      [] OTHER -> Rebuild(t, [i \in DOMAIN Kids(t) |->
                      Substitute(Kid(t, i), by, binders + RowBinders(t, i),
                                 rels + RelBinders(t, i))])

(* The two innermost rows change places: their binders are being swapped.   *)
RECURSIVE SwapRows(_, _)
SwapRows(t, binders) ==
    CASE Op(t) = "rowvar" ->
           IF Arg(t)[1] = binders THEN RowVar(binders + 1, Arg(t)[2])
           ELSE IF Arg(t)[1] = binders + 1 THEN RowVar(binders, Arg(t)[2]) ELSE t
      [] Op(t) = "relvar" -> t
      [] OTHER -> Rebuild(t, [i \in DOMAIN Kids(t) |->
                                  SwapRows(Kid(t, i), binders + RowBinders(t, i))])

(* Does the term mention the row of this depth (or any row outside it)?     *)
RECURSIVE FreeRows(_), FreeRels(_)
FreeRows(t) ==
    IF Op(t) = "rowvar" THEN {Arg(t)[1]}
    ELSE UNION {IF RowBinders(t, i) = 1 THEN {d - 1 : d \in FreeRows(Kid(t, i)) \ {0}}
                ELSE FreeRows(Kid(t, i)) : i \in DOMAIN Kids(t)}
FreeRels(t) ==
    IF Op(t) = "relvar" THEN {Arg(t)[1]}
    ELSE UNION {IF RelBinders(t, i) = 1 THEN {d - 1 : d \in FreeRels(Kid(t, i)) \ {0}}
                ELSE FreeRels(Kid(t, i)) : i \in DOMAIN Kids(t)}

-----------------------------------------------------------------------------
(* Sorts.  A term whose operands do not fit has the sort Bad.               *)
Scalar(nullable) == <<"scalar", nullable>>
Predicate        == <<"predicate">>
Multiplicity     == <<"multiplicity">>
RowSort(schema)  == <<"row", schema>>
BagSort(schema)  == <<"bag", schema>>
SeqSort(schema)  == <<"seq", schema>>
FunctionSort(schema, result) == <<"function", schema, result>>
Bad              == <<"bad">>

Nullable(schema) == [i \in DOMAIN schema |-> TRUE]

OuterJoinSchema(op, left, right) ==
    (IF op \in {"rightjoin", "fulljoin"} THEN Nullable(left) ELSE left)
    \o (IF op \in {"leftjoin", "fulljoin", "depleftjoin"} THEN Nullable(right) ELSE right)

(* A value fits a column unless it may be NULL and the column may not.      *)
Assignable(sort, nullable) == sort[1] = "scalar" /\ (sort[2] => nullable)

IsRelation(sort) == sort[1] \in {"bag", "seq"}

(* What an aggregate returns: only COUNT is never NULL.                     *)
SumIsNeverNull(agg)    == agg \notin {"count", "countstar", "sum"}   \* mutant
AggregateNullable(agg) == agg \notin {"count", "countstar"}

(* A call of a fold or a window is <<aggregate, distinct, argument, filter>>, *)
(* the last two the positions of children (0: none).                        *)
CallsFit(calls, sorts, schema) ==
    \A c \in ToSet(calls) :
        /\ (c[3] = 0) = (c[1] = "countstar")
        /\ c[3] > 0 => /\ sorts[c[3]][1] = "function"
                       /\ sorts[c[3]][2] = schema
                       /\ sorts[c[3]][3][1] = "scalar"
        /\ c[4] > 0 => sorts[c[4]] = FunctionSort(schema, Predicate)

CallSchema(calls) == [i \in DOMAIN calls |-> AggregateNullable(calls[i][1])]

BoundFits(t, sort) == sort = Scalar(FALSE) /\ (Op(t) = "lit" => Arg(t) >= 0)

(* The sort of a node from its operator, payload, children and their sorts, *)
(* kind of term by kind of term.                                            *)
If(condition, sort) == IF condition THEN sort ELSE Bad
AllOf(s, sort)      == \A i \in DOMAIN s : s[i] = sort
AllScalars(s)       == \A i \in DOMAIN s : s[i][1] = "scalar"
KeyedFrom(s, first) == \A i \in first .. Len(s) :
                           s[i][1] = "function" /\ s[i][2] = s[1][2] /\ s[i][3][1] = "scalar"

InferScalar(op, arg, s) ==
    CASE op \in {"lit", "truth"} -> Scalar(FALSE)
      [] op \in {"null", "in"}   -> Scalar(TRUE)
      [] op = "field"     -> If(s[1][1] = "row" /\ arg \in DOMAIN s[1][2], Scalar(s[1][2][arg]))
      [] op = "call"      -> If(AllScalars(s), Scalar(arg[2]))
      [] op = "case"      -> If(s[1] = Predicate /\ AllScalars(Tail(s)), Scalar(s[2][2] \/ s[3][2]))
      [] op = "scalarize" -> If(s[1][1] = "bag" /\ Len(s[1][2]) = 1, Scalar(TRUE))
      [] op = "toboolean" -> If(s[1] = Predicate, Scalar(TRUE))

InferPredicate(op, s) ==
    CASE op \in {"true3", "false3", "unknown3"}   -> Predicate
      [] op \in {"and3", "or3", "not3"}           -> If(AllOf(s, Predicate), Predicate)
      [] op = "insubquery" -> If(s[1][1] = "scalar" /\ s[2][1] = "bag" /\ Len(s[2][2]) = 1, Predicate)
      [] op = "rowid"      -> If(s[1] = s[2] /\ s[1][1] = "row", Predicate)
      [] OTHER             -> If(AllScalars(s), Predicate)

InferRow(op, arg, s) ==
    CASE op = "rowvar" -> RowSort(arg[2])
      [] op = "relvar" -> arg[2]
      [] op = "row"    -> If(Len(s) = Len(arg) /\ \A i \in DOMAIN s : Assignable(s[i], arg[i]),
                             RowSort(arg))
      [] op = "rowlam" -> FunctionSort(arg, s[1])

InferMultiplicity(op, s) ==
    CASE op \in {"zero", "one"} -> Multiplicity
      [] op = "ind" -> If(s[1] = Predicate, Multiplicity)
      [] op = "sum" -> If(s[1][1] = "function" /\ s[1][3] = Multiplicity, Multiplicity)
      [] op = "at"  -> If(s[1][1] = "bag" /\ s[2] = RowSort(s[1][2]), Multiplicity)
      [] OTHER      -> If(AllOf(s, Multiplicity), Multiplicity)

InferBag(op, arg, s) ==
    CASE op = "baglam" -> If(s[1][1] = "function" /\ s[1][3] = Multiplicity, BagSort(s[1][2]))
      [] op = "base"   -> BagSort(Schema[arg])
      [] op = "empty"  -> BagSort(arg)
      [] op = "filter" -> If(s[1][1] = "bag" /\ s[2] = FunctionSort(s[1][2], Predicate), s[1])
      [] op \in {"map", "seqmap"} ->
             If(/\ s[1][1] = (IF op = "map" THEN "bag" ELSE "seq")
                /\ s[2][1] = "function" /\ s[2][2] = s[1][2] /\ s[2][3][1] = "row",
                <<s[1][1], s[2][3][2]>>)
      [] op = "unionall" -> If(s[1][1] = "bag" /\ s[1] = s[2], s[1])
      [] op = "distinct" -> If(s[1][1] = "bag", s[1])

InferJoin(op, s) ==
    LET product == If(s[1][1] = "bag" /\ s[2][1] = "bag", RowSort(s[1][2] \o s[2][2]))
    IN  CASE product = Bad   -> Bad
          [] op = "product"  -> BagSort(product[2])
          [] s[3] # FunctionSort(product[2], Predicate) -> Bad
          [] OTHER           -> BagSort(OuterJoinSchema(op, s[1][2], s[2][2]))

InferFold(op, arg, s) ==
    CASE op = "groupfold"  ->
             If(/\ s[1][1] = "bag" /\ s[2][1] = "function" /\ s[2][2] = s[1][2]
                /\ s[2][3][1] = "row" /\ CallsFit(arg, s, s[1][2]),
                BagSort(s[2][3][2] \o CallSchema(arg)))
      [] op = "globalfold" -> If(s[1][1] = "bag" /\ CallsFit(arg, s, s[1][2]),
                                 BagSort(CallSchema(arg)))

InferOrdered(op, arg, kids, s) ==
    CASE op = "orderby" -> If(s[1][1] = "bag" /\ Len(arg) = Len(s) - 1 /\ KeyedFrom(s, 2),
                              SeqSort(s[1][2]))
      [] op = "topk"    -> If(/\ s[1][1] = "bag" /\ Len(arg) = Len(s) - 3 /\ KeyedFrom(s, 4)
                              /\ \A i \in 2..3 : BoundFits(kids[i], s[i]),
                              SeqSort(s[1][2]))
      [] op = "forget"  -> If(s[1][1] = "seq", BagSort(s[1][2]))
      [] OTHER -> If(/\ Last(s)[1] = "seq"
                     /\ \A i \in 1 .. Len(s) - 1 : BoundFits(kids[i], s[i]), Last(s))

InferDependent(op, s) ==
    IF /\ s[1][1] = "bag" /\ s[2][1] = "function" /\ s[2][2] = s[1][2] /\ s[2][3][1] = "bag"
    THEN IF op \in {"semijoin", "antijoin"} THEN s[1]
         ELSE BagSort(OuterJoinSchema(op, s[1][2], s[2][3][2]))
    ELSE Bad

Infer(op, arg, kids, s) ==
    CASE op \in {"lit", "truth", "null", "in", "field", "call", "case", "scalarize", "toboolean"} ->
             InferScalar(op, arg, s)
      [] op \in {"true3", "false3", "unknown3", "and3", "or3", "not3", "insubquery", "rowid",
                 "topredicate", "eq3", "lt3", "isnotdistinct", "isnull", "isnotnull"} ->
             InferPredicate(op, s)
      [] op \in {"rowvar", "relvar", "row", "rowlam"} -> InferRow(op, arg, s)
      [] op \in {"zero", "one", "add", "mul", "squash", "unot", "ind", "sum", "at"} ->
             InferMultiplicity(op, s)
      [] op \in {"product", "join", "leftjoin", "rightjoin", "fulljoin"} -> InferJoin(op, s)
      [] op \in {"groupfold", "globalfold"} -> InferFold(op, arg, s)
      [] op \in {"orderby", "topk", "take", "drop", "slice", "forget"} -> InferOrdered(op, arg, kids, s)
      [] op = "letrel" -> If(IsRelation(s[1]), s[2])
      [] op \in {"depjoin", "depleftjoin", "semijoin", "antijoin"} -> InferDependent(op, s)
      [] OTHER -> InferBag(op, arg, s)

RECURSIVE SortOf(_)
SortOf(t) ==
    LET s == Strict([i \in DOMAIN Kids(t) |-> SortOf(Kid(t, i))])
    IN  IF Bad \in ToSet(s) THEN Bad ELSE Infer(Op(t), Arg(t), Kids(t), s)

SchemaOf(t) == SortOf(t)[2]

(* Every variable is bound, by a binder of its own sort.                    *)
RECURSIVE Closed(_, _, _)
Closed(t, rows, rels) ==
    CASE Op(t) = "rowvar" -> Arg(t)[1] < Len(rows) /\ rows[Arg(t)[1] + 1] = Arg(t)[2]
      [] Op(t) = "relvar" -> Arg(t)[1] < Len(rels) /\ rels[Arg(t)[1] + 1] = Arg(t)[2]
      [] OTHER -> \A i \in DOMAIN Kids(t) :
             Closed(Kid(t, i),
                    IF RowBinders(t, i) = 1 THEN <<Arg(t)>> \o rows ELSE rows,
                    IF RelBinders(t, i) = 1 THEN <<SortOf(Kid(t, 1))>> \o rels ELSE rels)

(* The operators a U-expression may hold: the others must be lowered away.  *)
CompactOnly == {"empty", "filter", "map", "product", "join", "leftjoin", "rightjoin",
                "fulljoin", "unionall", "distinct", "topk", "depjoin", "depleftjoin",
                "semijoin", "antijoin"}

RECURSIVE Operators(_)
Operators(t) == {Op(t)} \cup UNION {Operators(Kid(t, i)) : i \in DOMAIN Kids(t)}

VerifyUExpr(t) == Closed(t, << >>, << >>) /\ SortOf(t) # Bad /\ Operators(t) \cap CompactOnly = {}
=============================================================================
