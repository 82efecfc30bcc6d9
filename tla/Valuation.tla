----------------------------- MODULE Valuation -----------------------------
(* Partial evaluation of scalar terms over the inputs of an instance: stored *)
(* values, and the open inputs of the candidate rows (instance/valuation.py, *)
(* instance/model.py, instance/aggregates.py, the operations of              *)
(* symbolic/operations.py).                                                 *)
EXTENDS Normalize

CONSTANTS Keys,     \* [Relation -> SUBSET Seq(Nat)]: the columns of each key
          Null,     \* the SQL NULL, and the truth value UNKNOWN
          Failure   \* what evaluating an expression gives that raises a SQL error

VARIABLES values,   \* the value of each input <<relation, slot, column>>;
                    \* column 0 holds the multiplicity of the slot
          open,     \* the inputs left to the solver: those of the candidate rows
          binary    \* the open inputs known to be 0 or 1

Input(name)  == Node("in", name, << >>)
Lit(n)       == Node("lit", n, << >>)
Truth(b)     == Node("truth", b, << >>)
NullTerm     == Leaf("null")
True3        == Leaf("true3")
False3       == Leaf("false3")
TruthTerm(b) == CASE b = Null -> Leaf("unknown3") [] b = TRUE -> True3 [] OTHER -> False3

IsWeight(name) == name[3] = 0
Slots(r)       == {name[2] : name \in {n \in DOMAIN values : n[1] = r}}
Occurs(r, s) == values[<<r, s, 0>>]

ConstantOps  == {"lit", "truth", "null", "true3", "false3", "unknown3"}
PredicateOps == {"true3", "false3", "unknown3", "topredicate", "eq3", "lt3", "isnotdistinct",
                 "isnull", "isnotnull", "insubquery", "and3", "or3", "not3", "rowid"}
IsConstant(t) == Op(t) \in ConstantOps

RECURSIVE Inputs(_)
Inputs(t) == IF Op(t) = "in" THEN {Arg(t)} ELSE UNION {Inputs(Kid(t, i)) : i \in DOMAIN Kids(t)}
IsOpen(t) == Inputs(t) \cap open # {}

-----------------------------------------------------------------------------
(* The value of a term.  Every operand is evaluated, so an error anywhere is *)
(* an error; only CASE leaves the branch it does not take alone.  `opaque`   *)
(* is any function that has no encoding for Z3.                             *)
Arithmetic(op, a, b) == CASE op = "add" -> a + b
                          [] op = "sub" -> a - b
                          [] op = "mul" -> a * b
                          [] op = "div" -> IF b = 0 THEN Failure ELSE a \div b
                          [] op = "opaque" -> (a + b) % 2

Operate(op, arg, v, null) ==
    CASE op = "call" /\ arg[1] = "error"      -> Failure
      [] op = "isnotdistinct"                 -> v[1] = v[2]
      [] op \in {"toboolean", "topredicate"}  -> v[1]
      [] op = "isnull"                        -> null
      [] op = "isnotnull"                     -> ~null
      [] op = "and3" /\ FALSE \in ToSet(v)    -> FALSE
      [] op = "or3" /\ TRUE \in ToSet(v)      -> TRUE
      [] null                                 -> Null
      [] op = "call"                          -> Arithmetic(arg[1], v[1], v[2])
      [] op = "eq3"                           -> v[1] = v[2]
      [] op = "lt3"                           -> v[1] < v[2]
      [] op = "not3"                          -> ~v[1]
      [] op \in {"and3", "or3"}               -> op = "and3"

Constant(op, arg) == CASE op \in {"lit", "truth"}    -> arg
                       [] op \in {"true3", "false3"} -> op = "true3"
                       [] OTHER                      -> Null

ValueOfAll(t, v) == IF Failure \in ToSet(v) THEN Failure
                    ELSE Operate(Op(t), Arg(t), v, Null \in ToSet(v))

RECURSIVE EvalOn(_, _)
ValueOfCase(t, c, v) == IF c = Failure THEN Failure ELSE EvalOn(Kid(t, IF c = TRUE THEN 2 ELSE 3), v)

EvalOn(t, v) == CASE Op(t) \in ConstantOps -> Constant(Op(t), Arg(t))
                  [] Op(t) = "in"          -> v[Arg(t)]
                  [] Op(t) = "case"        -> ValueOfCase(t, EvalOn(Kid(t, 1), v), v)
                  [] OTHER -> ValueOfAll(t, Strict([i \in DOMAIN Kids(t) |-> EvalOn(Kid(t, i), v)]))

Eval(t) == EvalOn(t, values)

(* The value if some inputs took other values.                              *)
Trial(t, taken) == EvalOn(t, taken @@ values)

-----------------------------------------------------------------------------
(* What a candidate row can never hold in a column that is a key by itself: *)
(* the values stored there.                                                 *)
Stored(r) == {s \in Slots(r) : /\ Occurs(r, s) > 0
                               /\ \A n \in open : <<n[1], n[2]>> # <<r, s>>}
(* Mutant: the values of every column, key or not, are excluded.            *)
ExcludedAnywhere(name) == IF name \in open /\ name[3] # 0
                          THEN {values[<<name[1], s, name[3]>>] : s \in Stored(name[1])} \ {Null}
                          ELSE {}

Excluded(name) == IF name \in open /\ name[3] # 0 /\ <<name[3]>> \in Keys[name[1]]
                  THEN {values[<<name[1], s, name[3]>>] : s \in Stored(name[1])} \ {Null}
                  ELSE {}

ExcludedPair(a, b) == Op(a) = "in" /\ Op(b) = "lit" /\ Arg(b) \in Excluded(Arg(a))

(* A term without open inputs becomes its value, unless that is an error.   *)
Valued(t, v) == CASE v = Failure            -> t
                  [] Op(t) \in PredicateOps -> TruthTerm(v)
                  [] v = Null               -> NullTerm
                  [] Op(t) = "toboolean"    -> Truth(v)
                  [] OTHER                  -> Lit(v)

NeverEqual(t) == /\ Op(t) \in {"eq3", "isnotdistinct"}
                 /\ \E i \in 1..2 : ExcludedPair(Kid(t, i), Kid(t, 3 - i))

Fold(t) == CASE IsConstant(t) -> t
             [] ~IsOpen(t)    -> Valued(t, Eval(t))
             [] NeverEqual(t) -> False3
             [] OTHER         -> t

Known(name) == IF name \in open THEN Input(name)
               ELSE IF values[name] = Null THEN NullTerm ELSE Lit(values[name])

(* Every term of an execution is made here: an operator of the arena over   *)
(* its children, or one of the operations named in Derived.                 *)
RECURSIVE Make(_, _, _)

Conj(ps)       == Make("and3", "", ps)
Disj(ps)       == Make("or3", "", ps)
Not(p)         == Make("not3", "", <<p>>)
Equal(a, b)    == Make("eq3", "", <<a, b>>)
Less(a, b)     == Make("lt3", "", <<a, b>>)
IsNullOf(a)    == Make("isnull", "", <<a>>)
Same(a, b)     == Make("same", "", <<a, b>>)
SameRow(a, b)  == Make("samerow", "", <<a, b>>)
ToBoolean(p)   == Make("toboolean", "", <<p>>)
IsTrue(p)      == Make("is", "", <<p, Truth(TRUE)>>)
IsFalse(p)     == Make("is", "", <<p, Truth(FALSE)>>)
IsUnknown(p)   == Make("isunknown", "", <<p>>)
Case(c, a, b)  == Make("choose", "", <<c, a, b>>)
Calc(op, a, b) == Make("call", <<op, FALSE>>, <<a, b>>)
Positive(w)    == Make("positive", "", <<w>>)
AtLeast(w, n)  == Make("atleast", n, <<w>>)
Ind(p)         == Make("indicator", "", <<p>>)
SquashOf(w)    == Make("squashof", "", <<w>>)
UNot(w)        == Make("unotof", "", <<w>>)
Guard(w, a, b) == Make("guard", "", <<w, a, b>>)
Minimum(a, b)  == Make("minimum", "", <<a, b>>)
Maximum(a, b)  == Make("maximum", "", <<a, b>>)
Sub(a, b)      == Make("minus", "", <<a, b>>)
Total(ws)      == Make("total", "", ws)
Mul(a, b)      == Make("times", "", <<a, b>>)
Scale(w, x)    == Make("scale", "", <<w, x>>)
(* Does key a come before key b (`tie` when they are equal)?  How many of   *)
(* `weight` occurrences from `position` on are in the window [lo, hi)?      *)
BeforeTerm(a, b, specs, tie)       == Make("before", <<specs, tie>>, <<a, b>>)
Inside(weight, position, lo, hi) == Make("inside", <<lo, hi>>, <<weight, position>>)

-----------------------------------------------------------------------------
(* Bounds of a multiplicity that hold whatever the open inputs become: the  *)
(* set of the bound, empty when it is not known.  The least difference      *)
(* takes the most away.                                                     *)
NotFlipped(lower) == lower   \* mutant
Opposite(lower) == ~lower

RECURSIVE Bound(_, _)
Best(S, least) == {x \in S : \A y \in S : IF least THEN x <= y ELSE x >= y}
IsMinMax(t, lower) ==
    /\ Op(Kid(t, 1)) = "lt3"
    /\ Kids(Kid(t, 1)) = <<Kid(t, IF lower THEN 3 ELSE 2), Kid(t, IF lower THEN 2 ELSE 3)>>

Computed(op, a, b) == {Arithmetic(op, x, y) : x \in {n \in a : op # "sub" => n >= 0},
                                              y \in {n \in b : op # "sub" => n >= 0}}

BoundOfCall(op, t, lower) ==
    IF op \in {"add", "mul", "sub"}
    THEN Computed(op, Bound(Kid(t, 1), lower),
                  Bound(Kid(t, 2), IF op = "sub" THEN Opposite(lower) ELSE lower))
    ELSE {}

BoundOfCase(a, b, minmax, lower) ==
    IF minmax \/ {} \notin {a, b}
    THEN Best(a \cup b, IF minmax THEN Opposite(lower) ELSE lower) ELSE {}

Bound(t, lower) ==
    CASE Op(t) = "lit"  -> {Arg(t)}
      [] Op(t) = "call" -> BoundOfCall(Arg(t)[1], t, lower)
      [] Op(t) = "case" ->
           BoundOfCase(Bound(Kid(t, 2), lower), Bound(Kid(t, 3), lower), IsMinMax(t, lower), lower)
      [] Op(t) = "in" /\ IsWeight(Arg(t)) ->
           IF lower THEN {0} ELSE IF Arg(t) \in binary THEN {1} ELSE {}
      [] OTHER -> {}

Least(t) == Bound(t, TRUE)
Most(t)  == Bound(t, FALSE)

RECURSIVE IsBinary(_)
IsBinary(t) == CASE Op(t) = "case" -> \A i \in 2..3 : IsBinary(Kid(t, i))
                 [] Op(t) = "lit"  -> Arg(t) \in {0, 1}
                 [] OTHER          -> Op(t) = "in" /\ Arg(t) \in binary

AlwaysPositive(w) == \E n \in Least(w) : n > 0
AtMost(w, n)      == \E m \in Most(w) : m <= n

Paired(s, F(_, _)) ==
    Strict([i \in 1 .. (Len(s) + 1) \div 2 |->
               IF 2 * i <= Len(s) THEN F(s[2 * i - 1], s[2 * i]) ELSE s[2 * i - 1]])

RECURSIVE Balanced(_)
Balanced(s) == IF Len(s) = 1 THEN s[1]
               ELSE Balanced(Paired(s, LAMBDA a, b : Calc("add", a, b)))

TotalOf(ws) == IF ws = << >> THEN Lit(0) ELSE Balanced(ws)

(* A product with a 0/1 factor is a CASE; the right factor is evaluated only *)
(* when the left one is not zero.                                           *)
WeightProduct(a, b, binaryA, binaryB) ==
    CASE binaryB /\ ~binaryA -> Case(Positive(b), a, Lit(0))
      [] binaryA              -> Case(Positive(a), b, Lit(0))
      [] IsOpen(a)            -> Case(Positive(a), Calc("mul", a, b), Lit(0))
      [] OTHER                -> Calc("mul", a, b)

Product(a, b) ==
    CASE Lit(0) \in {a, b} -> Lit(0)
      [] a = Lit(1)        -> b
      [] b = Lit(1)        -> a
      [] OTHER             -> WeightProduct(a, b, IsBinary(a), IsBinary(b))

(* The order of keys as a predicate.  A specification is <<descending,      *)
(* nulls first>>.                                                           *)
NullBefore(a, b, spec) == Conj(<<IsNullOf(IF spec[2] THEN a ELSE b), Not(IsNullOf(IF spec[2] THEN b ELSE a))>>)
Smaller(a, b, spec)    == IsTrue(Less(IF spec[1] THEN b ELSE a, IF spec[1] THEN a ELSE b))

RowBefore(a, b, specs, tie) ==
    IF specs = << >> THEN TruthTerm(tie)
    ELSE Disj(<<Make("cellbefore", specs[1], <<a[1], b[1]>>),
                Conj(<<Same(a[1], b[1]), BeforeTerm(Tail(a), Tail(b), Tail(specs), tie)>>)>>)

NoEdge == -1
Clipped(a, b) == Make("clipped", "", <<a, b>>)
WithinWindow(inside, shifted, lo, hi) ==
    IF hi = NoEdge THEN inside ELSE Clipped(inside, Sub(Lit(hi - lo), shifted))

Derived == {"choose", "same", "samerow", "is", "isunknown", "positive", "atleast", "indicator", "squashof",
            "unotof", "guard", "minimum", "maximum", "minus", "total", "times", "scale", "before",
            "cellbefore", "inside", "clipped"}

Derive(op, n, x) ==
    CASE op = "choose"    -> IF Op(x[1]) = "true3" THEN x[2] ELSE IF IsConstant(x[1]) THEN x[3]
                             ELSE Make("case", "", x)
      [] op = "same"      -> IF x[1] = x[2] THEN True3 ELSE Make("isnotdistinct", "", x)
      [] op = "samerow"   -> Conj([i \in DOMAIN x[1] |-> Same(x[1][i], x[2][i])])
      [] op = "is"        -> Make("isnotdistinct", "", <<ToBoolean(x[1]), x[2]>>)
      [] op = "isunknown" -> IsNullOf(ToBoolean(x[1]))
      [] op = "positive"  -> IF AlwaysPositive(x[1]) THEN True3 ELSE Less(Lit(0), x[1])
      [] op = "atleast"   -> IF AtMost(x[1], n - 1) THEN False3 ELSE Less(Lit(n - 1), x[1])
      [] op = "indicator" -> Case(x[1], Lit(1), Lit(0))
      [] op = "squashof"  -> Ind(Positive(x[1]))
      [] op = "unotof"    -> IF Positive(x[1]) = True3 THEN Lit(0) ELSE Ind(Equal(x[1], Lit(0)))
      [] op = "guard"     -> IF x[1] = Lit(0) THEN x[3] ELSE Case(Positive(x[1]), x[2], x[3])
      [] op = "minimum"   -> Case(Less(x[1], x[2]), x[1], x[2])
      [] op = "maximum"   -> Case(Less(x[1], x[2]), x[2], x[1])
      [] op = "minus"     -> IF x[2] = Lit(0) THEN x[1] ELSE Calc("sub", x[1], x[2])
      [] op = "total"     -> TotalOf(SelectSeq(x, LAMBDA w : w # Lit(0)))
      [] op = "times"     -> Product(x[1], x[2])
      [] op = "scale"     -> IF IsBinary(x[1]) THEN Case(Positive(x[1]), x[2], Lit(0))
                             ELSE Guard(x[1], Calc("mul", x[1], x[2]), Lit(0))
      [] op = "before"    -> RowBefore(x[1], x[2], n[1], n[2])
      [] op = "cellbefore" -> Disj(<<NullBefore(x[1], x[2], n), Smaller(x[1], x[2], n)>>)
      [] op = "clipped"   -> Maximum(Lit(0), Minimum(x[1], x[2]))
      [] op = "inside"    -> WithinWindow(Sub(x[1], Clipped(x[1], Sub(Lit(n[1]), x[2]))),
                                          Maximum(Lit(0), Sub(x[2], Lit(n[1]))), n[1], n[2])

Make(op, arg, given) ==
    IF op \in Derived THEN Derive(op, arg, Strict(given))
    ELSE Fold(IF op \in {"and3", "or3"} THEN InternCommutativePredicate(op, Strict(given))
              ELSE Node(op, arg, given))

-----------------------------------------------------------------------------
(* Aggregates over weighted arguments <<weight, argument>>.                 *)
RECURSIVE Tournament(_, _)
Tournament(xs, least) ==
    IF Len(xs) = 1 THEN xs[1]
    ELSE Tournament(Paired(xs, LAMBDA a, b :
             Case(Disj(<<IsNullOf(b), Conj(<<Not(IsNullOf(a)), IF least THEN Less(a, b) ELSE Less(b, a)>>)>>),
                  a, b)), least)

Weights(inputs) == [i \in DOMAIN inputs |-> inputs[i][1]]

NearArguments(inputs, x, i) ==
    SelectSeq(SubSeq(inputs, 1, i - 1), LAMBDA y : y[2] = x \/ IsOpen(y[2]) \/ IsOpen(x))
SeenAmong(near, x) ==
    Disj([j \in DOMAIN near |-> Conj(<<Positive(near[j][1]), Same(x, near[j][2])>>)])

FirstOccurrences(inputs) ==
    Strict([i \in DOMAIN inputs |->
        <<Ind(Conj(<<Positive(inputs[i][1]),
                     Not(SeenAmong(NearArguments(inputs, inputs[i][2], i), inputs[i][2]))>>)),
          inputs[i][2]>>])

SumTerm(inputs) ==
    IF inputs = << >> THEN Lit(0)
    ELSE Balanced([i \in DOMAIN inputs |->
             Guard(inputs[i][1], Scale(inputs[i][1], inputs[i][2]), Lit(0))])

Divided(agg, sum, count) == IF agg = "sum" THEN sum ELSE Calc("div", sum, count)

(* Any value: the first one of the rows that are there.                     *)
Arbitrary(inputs) ==
    LET there == SelectSeq(inputs, LAMBDA x : Eval(x[1]) \notin {0, Failure})
    IN  IF there = << >> THEN NullTerm ELSE Lit(Eval(there[1][2]))

AggregateOf(agg, inputs, count) ==
    CASE agg \in {"count", "countstar"} -> count
      [] agg = "anyvalue" -> Arbitrary(inputs)
      [] agg \in {"min", "max"} ->
           IF inputs = << >> THEN NullTerm
           ELSE Tournament([i \in DOMAIN inputs |-> Guard(inputs[i][1], inputs[i][2], NullTerm)],
                           agg = "min")
      [] OTHER -> Case(Positive(count), Divided(agg, SumTerm(inputs), count), NullTerm)

(* A NULL argument does not count, nor under DISTINCT a value seen before.  *)
NotNull(given) ==
    Strict([i \in DOMAIN given |-> <<Mul(given[i][1], Ind(Not(IsNullOf(given[i][2])))), given[i][2]>>])

AggregateInputs(agg, inputs) == AggregateOf(agg, inputs, Total(Weights(inputs)))

OnceIf(distinct, inputs) == IF distinct THEN FirstOccurrences(inputs) ELSE inputs

Aggregate(agg, distinct, given) ==
    AggregateInputs(agg, OnceIf(distinct, IF agg = "countstar" THEN given ELSE NotNull(given)))
=============================================================================
