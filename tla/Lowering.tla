------------------------------ MODULE Lowering ------------------------------
(* Translation of compact relational operators into multiplicities          *)
(* (uexpr/lowering.py, uexpr/bag.py, uexpr/scalar.py, uexpr/aggregate.py,   *)
(* uexpr/projection.py and the scopes of terms/builder.py).                 *)
(*                                                                          *)
(* A term under construction is [t, at]: `at` counts the row and relation   *)
(* binders it was built under, and a use below more binders shifts it.  The *)
(* code passes continuations; here a continuation is a record of the kind   *)
(* of its function and of what that function closes over.                   *)
EXTENDS Terms

Resolve(x, scope) == Shift(x.t, scope[1] - x.at[1], scope[2] - x.at[2], 0, 0)

Built(t, scope) == [t |-> t, at |-> scope]

(* The comparison has TLC compute the parts first: terms are deep, and its  *)
(* stack is not.                                                            *)
Build(op, arg, xs, scope) ==
    IF xs = << >> THEN Built(Intern(op, arg, << >>), scope)
    ELSE Built(Intern(op, arg, [i \in DOMAIN xs |-> Resolve(xs[i], scope)]), scope)

UnderRow(scope) == <<scope[1] + 1, scope[2]>>
UnderRel(scope) == <<scope[1], scope[2] + 1>>

Var(schema, scope) == Built(RowVar(0, schema), UnderRow(scope))

Lam(schema, body, scope) ==
    Built(Node("rowlam", schema, <<Resolve(body, UnderRow(scope))>>), scope)

Times(x, y, scope) == Build("mul", "", <<x, y>>, scope)
Plus(x, y, scope)  == Build("add", "", <<x, y>>, scope)
Test(p, scope)     == Build("ind", "", <<p>>, scope)

(* A field of a row built here is the child itself, unless that changes its *)
(* sort.                                                                    *)
ProjectField(row, i, scope) ==
    IF Op(row.t) = "row" /\ SortOf(Kid(row.t, i)) = Scalar(Arg(row.t)[i])
    THEN Built(Kid(row.t, i), row.at)
    ELSE Build("field", i, <<row>>, scope)

Fields(row, width, scope) == [i \in 1..width |-> ProjectField(row, i, scope)]
Nulls(width, scope)       == [i \in 1..width |-> Build("null", "", << >>, scope)]

ConcatRows(left, leftSchema, right, rightSchema, output, scope) ==
    Build("row", output, Fields(left, Len(leftSchema), scope)
                         \o Fields(right, Len(rightSchema), scope), scope)

-----------------------------------------------------------------------------
(* The terms bound to the variables of the query, innermost first.          *)
EmptyEnv == [rows |-> << >>, rels |-> << >>]
BindRow(env, row) == [env EXCEPT !.rows = <<row>> \o @]
BindRel(env, rel) == [env EXCEPT !.rels = <<rel>> \o @]

(* The least scope that contains everything the environment mentions.       *)
EnvScope(env) ==
    LET ats == {x.at : x \in ToSet(env.rows) \cup ToSet(env.rels)}
    IN  <<Max({0} \cup {a[1] : a \in ats}), Max({0} \cup {a[2] : a \in ats})>>

SqlExpr == {"lit", "truth", "null", "field", "rowvar", "call", "case", "scalarize",
            "toboolean", "topredicate", "true3", "false3", "unknown3", "eq3", "lt3",
            "isnotdistinct", "isnull", "isnotnull", "insubquery", "and3", "or3", "not3",
            "row", "rowid", "rowlam"}
Occurrence == (CompactOnly \ {"topk"}) \cup {"base"}

(* The input column that a field of a projection hands on (0: none).        *)
DirectField(t) ==
    IF Op(t) = "field" /\ Op(Kid(t, 1)) = "rowvar" /\ Arg(Kid(t, 1))[1] = 0 THEN Arg(t) ELSE 0

DirectPositions(mapper) ==
    LET body == Kid(mapper, 1)
    IN  CASE Op(body) = "rowvar" /\ Arg(body)[1] = 0 -> [i \in DOMAIN Arg(mapper) |-> i]
          [] Op(body) = "row" -> [i \in DOMAIN Kids(body) |-> DirectField(Kid(body, i))]
          [] OTHER -> <<0>>

(* A mapper that hands on every column, in order and with its sort.         *)
IsIdentityMap(t) ==
    /\ Op(Kid(t, 1)) # "groupfold"
    /\ SchemaOf(Kid(t, 1)) = SchemaOf(t)
    /\ DirectPositions(Kid(t, 2)) = [i \in DOMAIN SchemaOf(t) |-> i]

-----------------------------------------------------------------------------
(* When COUNT(x) is COUNT star: x is a column the rows cannot have as NULL. *)
RECURSIVE ImpliesNonNull(_, _), Admissions(_)
ImpliesNonNull(p, value) ==
    CASE Op(p) = "isnotnull"       -> Kid(p, 1) = value
      [] Op(p) \in {"eq3", "lt3"}  -> value \in ToSet(Kids(p))
      [] Op(p) = "and3" -> \E i \in DOMAIN Kids(p) : ImpliesNonNull(Kid(p, i), value)
      [] Op(p) = "or3"  -> \A i \in DOMAIN Kids(p) : ImpliesNonNull(Kid(p, i), value)
      [] OTHER -> FALSE

Admissions(source) == IF Op(source) = "filter"
                      THEN {Kid(Kid(source, 2), 1)} \cup Admissions(Kid(source, 1)) ELSE {}

ArgumentIsNonNull(fold, call) ==
    LET value  == Kid(Kid(fold, call[3]), 1)
        filter == IF call[4] = 0 THEN {} ELSE {Kid(Kid(fold, call[4]), 1)}
    IN  /\ Op(value) = "field"
        /\ \/ SortOf(value) = Scalar(FALSE)
           \/ \E p \in Admissions(Kid(fold, 1)) \cup filter : ImpliesNonNull(p, value)

CanonicalCount(fold, call) ==
    IF call[1] = "count" /\ ~call[2] /\ ArgumentIsNonNull(fold, call)
    THEN <<"countstar", FALSE, 0, call[4]>> ELSE call

-----------------------------------------------------------------------------
(* One operator goes down a term, another up to the row it has produced.    *)
RECURSIVE Emit(_, _, _, _), Consume(_, _, _)

(* Every term is built in the least scope of its environment.               *)
Translate(t, env)              == Emit(t, [kind |-> "term"], env, EnvScope(env))
TranslateScalar(t, env, scope) == Emit(t, [kind |-> "scalar"], env, scope)
TranslateBag(t, env, scope)    == Emit(t, [kind |-> "bag"], env, scope)

Apply(function, row, env) == Translate(Kid(function, 1), BindRow(env, row))

TranslateLet(t, env, definition, scope) ==
    Built(Node("letrel", "", <<definition,
              Resolve(Translate(Kid(t, 2), BindRel(env, Built(RelVar(0, SortOf(definition)),
                                                              UnderRel(scope)))),
                      UnderRel(scope))>>), scope)

(* ORDER BY of the keys, then a window of it.                               *)
TranslateTopK(arg, parts, scope) ==
    Build("slice", "", <<parts[2], parts[3],
              Build("orderby", arg, <<parts[1]>> \o SubSeq(parts, 4, Len(parts)), scope)>>, scope)

TranslateParts(t, parts, scope) ==
    IF Op(t) = "topk" THEN TranslateTopK(Arg(t), parts, scope) ELSE Build(Op(t), Arg(t), parts, scope)

ScalarParts(t, parts, scope) ==
    IF Op(t) = "field" THEN ProjectField(parts[1], Arg(t), scope) ELSE Build(Op(t), Arg(t), parts, scope)

ScalarTerm(t, env, scope) ==
    CASE Op(t) = "rowvar" -> env.rows[Arg(t)[1] + 1]
      [] Op(t) = "rowlam" -> Lam(Arg(t), Apply(t, Var(Arg(t), scope), env), scope)
      [] Op(t) = "eq3" /\ Kid(t, 1) = Kid(t, 2) /\ SortOf(Kid(t, 1)) = Scalar(FALSE) ->
           Build("true3", "", << >>, scope)
      [] OTHER -> ScalarParts(t, [i \in DOMAIN Kids(t) |->
                      IF Op(Kid(t, i)) \in SqlExpr THEN TranslateScalar(Kid(t, i), env, scope)
                      ELSE Translate(Kid(t, i), env)], scope)

-----------------------------------------------------------------------------
CountRows == [kind |-> "one"]
ToOutput(row) == [kind |-> "output", row |-> row]

(* A continuation at an operator: the row it has already, and what is next. *)
Then(kind, node, env, row, next) ==
    [kind |-> kind, node |-> node, env |-> env, row |-> row, next |-> next]

(* The sum over the rows of a bag-valued term of their multiplicity and of  *)
(* what becomes of each row.                                                *)
Held(squashed, count, scope) == IF squashed THEN Build("squash", "", <<count>>, scope) ELSE count

SumOver(bag, schema, squashed, then, scope) ==
    Build("sum", "",
          <<Lam(schema,
                Times(Held(squashed, Build("at", "", <<bag, Var(schema, scope)>>, UnderRow(scope)),
                           UnderRow(scope)),
                      Consume(then, Var(schema, scope), UnderRow(scope)), UnderRow(scope)), scope)>>, scope)

BagLam(schema, body, scope) == Build("baglam", "", <<Lam(schema, body, scope)>>, scope)

(* A relation as a bag: the multiplicity of every row of its schema.        *)
Occurrences(t, env, output, scope) ==
    IF Op(t) = "distinct"
    THEN Build("squash", "", <<Build("at", "", <<TranslateBag(Kid(t, 1), env, scope), output>>, scope)>>,
               scope)
    ELSE Emit(t, ToOutput(output), env, scope)

BagTerm(t, env, scope) ==
    IF Op(t) = "map" /\ IsIdentityMap(t) THEN Translate(Kid(t, 1), env)
    ELSE BagLam(SchemaOf(t), Occurrences(t, env, Var(SchemaOf(t), scope), UnderRow(scope)), scope)

(* An outer join inside an outer join is first made a bag.                  *)
EmitBoundary(t, then, env, scope) ==
    Emit(t, IF Op(t) \in {"leftjoin", "rightjoin", "fulljoin"}
            THEN [kind |-> "boundary", next |-> then] ELSE then, env, scope)

(* What the operator does with each row that its source produces, as the    *)
(* kind of a continuation, and which child that source is.                  *)
ThenOf(t) == CASE Op(t) \in {"filter", "map"}              -> Op(t)
               [] Op(t) \in {"product", "join"}            -> "left"
               [] Op(t) \in {"leftjoin", "fulljoin"}       -> "preserveleft"
               [] Op(t) = "rightjoin"                      -> "preserveright"
               [] Op(t) \in {"depjoin", "depleftjoin"}     -> "outer"
               [] Op(t) \in {"semijoin", "antijoin"}       -> "exists"

EmitRows(t, then, env, scope) ==
    CASE Op(t) = "empty"    -> Build("zero", "", << >>, scope)
      [] Op(t) = "filter" /\ Op(Kid(Kid(t, 2), 1)) = "true3" -> Emit(Kid(t, 1), then, env, scope)
      [] Op(t) = "unionall" ->
           Plus(Emit(Kid(t, 1), then, env, scope), Emit(Kid(t, 2), then, env, scope), scope)
      [] Op(t) = "fulljoin" ->
           Plus(EmitBoundary(Kid(t, 1), Then("preserveleft", t, env, << >>, then), env, scope),
                EmitBoundary(Kid(t, 2), Then("addright", t, env, << >>, then), env, scope), scope)
      [] Op(t) \in {"leftjoin", "rightjoin"} ->
           EmitBoundary(Kid(t, IF Op(t) = "leftjoin" THEN 1 ELSE 2),
                        Then(ThenOf(t), t, env, << >>, then), env, scope)
      [] Op(t) \in CompactOnly \ {"distinct", "topk"} ->
           Emit(Kid(t, 1), Then(ThenOf(t), t, env, << >>, then), env, scope)
      [] OTHER -> SumOver(CASE Op(t) = "base"     -> Built(t, <<0, 0>>)
                            [] Op(t) = "distinct" -> TranslateBag(Kid(t, 1), env, scope)
                            [] OTHER              -> Translate(t, env),
                          SchemaOf(t), Op(t) = "distinct", then, scope)

-----------------------------------------------------------------------------
LeftSchema(join)  == SchemaOf(Kid(join, 1))
RightSchema(join) == SchemaOf(Kid(join, 2))

Joined(join, left, right, output, scope) ==
    ConcatRows(left, LeftSchema(join), right, RightSchema(join), output, scope)

Matches(k, pair, scope) == Test(Apply(Kid(k.node, 3), pair, k.env), scope)

NullExtended(join, side, row, scope) ==
    Build("row", SchemaOf(join),
          IF side = "left" THEN Fields(row, Len(LeftSchema(join)), scope)
                                \o Nulls(Len(RightSchema(join)), scope)
          ELSE Nulls(Len(LeftSchema(join)), scope) \o Fields(row, Len(RightSchema(join)), scope), scope)

(* Mutant: every row is also extended by NULLs, matched or not.             *)
NeverMatched(count, row, next, scope) == Consume(next, row, scope)
Unmatched(count, row, next, scope) ==
    Times(Build("unot", "", <<count>>, scope), Consume(next, row, scope), scope)

(* The rows of the other side that match this one, or are joined to it.     *)
OtherSide(k, side, kind, row, scope) ==
    EmitBoundary(Kid(k.node, IF side = "left" THEN 2 ELSE 1),
                 Then(kind, k.node, k.env, row, k.next), k.env, scope)

Preserved(k, side, row, scope) ==
    Unmatched(OtherSide(k, side, IF side = "left" THEN "matchingleft" ELSE "matchingright", row, scope),
              NullExtended(k.node, side, row, scope), k.next, scope)

InnerOf(k) == Kid(Kid(k.node, 2), 1)
InnerCount(k, env, scope) == Emit(InnerOf(k), CountRows, env, scope)

(* A row of the left side joined to one of the right.                       *)
PairRow(k, left, right, scope) == Joined(k.node, left, right, SchemaOf(k.node), scope)
OnRow(k, left, right, scope) ==
    Joined(k.node, left, right, LeftSchema(k.node) \o RightSchema(k.node), scope)

JoinPair(k, on, pair, scope) == Times(Matches(k, on, scope), Consume(k.next, pair, scope), scope)

AbsentInner(k, row, inner, scope) ==
    ConcatRows(row, LeftSchema(k.node), Build("row", Nullable(inner), Nulls(Len(inner), scope), scope),
               Nullable(inner), SchemaOf(k.node), scope)

ConsumeOuter(k, row, env, scope) ==
    LET matched == Emit(InnerOf(k), Then("inner", k.node, env, row, k.next), env, scope)
    IN  IF Op(k.node) = "depjoin" THEN matched
        ELSE Plus(matched, Unmatched(Build("squash", "", <<InnerCount(k, env, scope)>>, scope),
                                     AbsentInner(k, row, SchemaOf(InnerOf(k)), scope), k.next, scope), scope)

ConsumeInner(k, row, inner, scope) ==
    Consume(k.next, ConcatRows(k.row, LeftSchema(k.node), row, inner, LeftSchema(k.node) \o inner, scope),
            scope)

Consume(k, row, scope) ==
    LET left  == IF k.kind \in {"matchingright", "joinright"} THEN row ELSE k.row
        right == IF k.kind \in {"matchingright", "joinright"} THEN k.row ELSE row
        side  == IF k.kind = "preserveleft" THEN "left" ELSE "right"
    IN
    CASE k.kind = "one"    -> Build("one", "", << >>, scope)
      [] k.kind = "output" -> Test(Build("rowid", "", <<row, k.row>>, scope), scope)
      [] k.kind = "filter" -> Times(Test(Apply(Kid(k.node, 2), row, k.env), scope),
                                    Consume(k.next, row, scope), scope)
      [] k.kind = "map"    -> Consume(k.next, Apply(Kid(k.node, 2), row, k.env), scope)
      [] k.kind = "left"   ->
           Emit(Kid(k.node, 2), Then("right", k.node, k.env, row, k.next), k.env, scope)
      [] k.kind = "right" /\ Op(k.node) = "product" -> Consume(k.next, PairRow(k, left, right, scope), scope)
      [] k.kind \in {"preserveleft", "preserveright"} ->
           Plus(OtherSide(k, side, IF side = "left" THEN "joinleft" ELSE "joinright", row, scope),
                Preserved(k, side, row, scope), scope)
      [] k.kind = "addright" -> Preserved(k, "right", row, scope)
      [] k.kind \in {"matchingleft", "matchingright"} -> Matches(k, OnRow(k, left, right, scope), scope)
      [] k.kind \in {"right", "joinleft", "joinright"} ->
           JoinPair(k, OnRow(k, left, right, scope), PairRow(k, left, right, scope), scope)
      [] k.kind = "outer"  -> ConsumeOuter(k, row, BindRow(k.env, row), scope)
      [] k.kind = "inner"  -> ConsumeInner(k, row, SchemaOf(InnerOf(k)), scope)
      [] k.kind = "exists" ->
           Times(Build(IF Op(k.node) = "antijoin" THEN "unot" ELSE "squash", "",
                       <<InnerCount(k, BindRow(k.env, row), scope)>>, scope),
                 Consume(k.next, row, scope), scope)

-----------------------------------------------------------------------------
(* A fold reads a projection of its source: the key, then for each call its *)
(* argument and whether its filter admits the row, as 1 or 0.  A reading is *)
(* the number of a call and which part of it is read.                       *)
Argument == 3
Admitting == 4
Readings(calls) == SelectSeq([n \in 1 .. 2 * Len(calls) |-> <<(n + 1) \div 2, 4 - (n % 2)>>],
                             LAMBDA r : calls[r[1]][r[2]] > 0)
ReadBy(t, calls, reading) == Kid(t, calls[reading[1]][reading[2]])

CanonicalCalls(t) == [i \in DOMAIN Arg(t) |-> CanonicalCount(t, Arg(t)[i])]
GroupKeys(t)      == IF Op(t) = "groupfold" THEN SortOf(Kid(t, 2))[3][2] ELSE << >>

ReadSort(t, calls, r) == r[2] = Argument /\ SortOf(ReadBy(t, calls, r))[3][2]
OneOrZero(p, scope)   == Build("case", "", <<p, Build("lit", 1, << >>, scope), Build("lit", 0, << >>, scope)>>, scope)
ReadValue(r, value, scope) == IF r[2] = Argument THEN value ELSE OneOrZero(value, scope)

(* The projected row: its key and what the calls read.                      *)
Projected(t, calls, readings, schema, input, env, scope) ==
    Build("row", schema,
          (IF Op(t) = "groupfold" THEN Fields(Apply(Kid(t, 2), input, env), Len(GroupKeys(t)), scope)
                                  ELSE << >>)
          \o [n \in DOMAIN readings |->
                 ReadValue(readings[n], Apply(ReadBy(t, calls, readings[n]), input, env), scope)], scope)

(* The bag of projected rows, bound under one binder for the output row and *)
(* one for the row of the source.                                           *)
SumOfProjected(source, projected, input, output, scope) ==
    Times(Build("at", "", <<source, input>>, scope),
          Test(Build("rowid", "", <<projected, output>>, scope), scope), scope)

FoldBag(t, calls, readings, schema, env, scope) ==
    BagLam(schema,
           Build("sum", "",
                 <<Lam(SchemaOf(Kid(t, 1)),
                       SumOfProjected(TranslateBag(Kid(t, 1), env, scope),
                                      Projected(t, calls, readings, schema,
                                                Var(SchemaOf(Kid(t, 1)), UnderRow(scope)), env,
                                                UnderRow(UnderRow(scope))),
                                      Var(SchemaOf(Kid(t, 1)), UnderRow(scope)), Var(schema, scope),
                                      UnderRow(UnderRow(scope))), UnderRow(scope))>>, UnderRow(scope)),
           scope)

Reader(r, column, scope) ==
    IF r[2] = Argument THEN column
    ELSE Build("eq3", "", <<column, Build("lit", 1, << >>, scope)>>, scope)

FoldLambdas(keys, readings, schema, row, scope) ==
    (IF keys = << >> THEN << >>
     ELSE <<Lam(schema, Build("row", keys, Fields(row, Len(keys), UnderRow(scope)), UnderRow(scope)), scope)>>)
    \o [n \in DOMAIN readings |->
           Lam(schema, Reader(readings[n], ProjectField(row, Len(keys) + n, UnderRow(scope)),
                              UnderRow(scope)), scope)]

PlaceOf(reading, readings, first) ==
    IF \E n \in DOMAIN readings : readings[n] = reading
    THEN first + (CHOOSE n \in DOMAIN readings : readings[n] = reading) ELSE 0

ReadCall(call, i, readings, first) ==
    <<call[1], call[2], PlaceOf(<<i, Argument>>, readings, first), PlaceOf(<<i, Admitting>>, readings, first)>>

ProjectedFold(t, keys, calls, readings, schema, env, scope) ==
    Build(Op(t), [i \in DOMAIN calls |-> ReadCall(calls[i], i, readings, IF keys = << >> THEN 1 ELSE 2)],
          <<FoldBag(t, calls, readings, schema, env, scope)>>
          \o FoldLambdas(keys, readings, schema, Var(schema, scope), scope), scope)

FoldOver(t, keys, calls, readings, env, scope) ==
    ProjectedFold(t, keys, calls, readings,
                  keys \o [n \in DOMAIN readings |-> ReadSort(t, calls, readings[n])], env, scope)

(* A projection is read as it is.                                           *)
DirectFold(t, env, scope) ==
    Build(Op(t), Arg(t),
          [i \in DOMAIN Kids(t) |-> IF i = 1 THEN TranslateBag(Kid(t, 1), env, scope)
                                    ELSE TranslateScalar(Kid(t, i), env, scope)], scope)

TranslateFold(t, env, scope) ==
    IF Op(Kid(t, 1)) \in {"map", "distinct"} THEN DirectFold(t, env, scope)
    ELSE FoldOver(t, GroupKeys(t), CanonicalCalls(t), Readings(CanonicalCalls(t)), env, scope)

-----------------------------------------------------------------------------
TermOf(t, env, scope) ==
    CASE Op(t) \in SqlExpr    -> TranslateScalar(t, env, scope)
      [] Op(t) = "relvar"     -> env.rels[Arg(t)[1] + 1]
      [] Op(t) = "letrel"     -> TranslateLet(t, env, Resolve(Translate(Kid(t, 1), env), scope), scope)
      [] Op(t) \in Occurrence -> TranslateBag(t, env, scope)
      [] Op(t) \in {"globalfold", "groupfold"} -> TranslateFold(t, env, scope)
      [] OTHER -> TranslateParts(t, [i \in DOMAIN Kids(t) |-> Translate(Kid(t, i), env)], scope)

Emit(t, then, env, scope) ==
    CASE then.kind = "term"     -> TermOf(t, env, scope)
      [] then.kind = "scalar"   -> ScalarTerm(t, env, scope)
      [] then.kind = "bag"      -> BagTerm(t, env, scope)
      [] then.kind = "boundary" -> SumOver(Translate(t, env), SchemaOf(t), FALSE, then.next, scope)
      [] OTHER                  -> EmitRows(t, then, env, scope)

(* The U-expression of a closed compact query, before simplification.       *)
Lower(t) == Resolve(Translate(t, EmptyEnv), <<0, 0>>)
=============================================================================
