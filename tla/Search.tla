------------------------------- MODULE Search -------------------------------
(* The search over constants: predicates become formulas over atoms that    *)
(* restrict one input, and formulas narrow the space of values of each      *)
(* input (smt/csp.py, Space of instance/domain.py).                         *)
EXTENDS Integrity

CONSTANT CaseSplits   \* alternatives that lifting CASE operands may give

(* A formula is Top, Bottom, an atom, or a conjunction or disjunction of     *)
(* formulas; Unsupported is the exception that leaves the fragment.         *)
Top         == <<"true">>
Bottom      == <<"false">>
Unsupported == <<"unsupported">>
Atom(name, op, value) == <<"atom", name, op, value>>

Has(items, f) == \E i \in DOMAIN items : items[i] = f
Reduced(op, items, rest, unit, zero) ==
    CASE Has(items, Unsupported) -> Unsupported
      [] Has(items, zero)        -> zero
      [] rest = << >>            -> unit
      [] Len(rest) = 1           -> rest[1]
      [] OTHER                   -> <<op, rest>>
AndOf(items) == Reduced("and", items, SelectSeq(items, LAMBDA f : f # Top), Top, Bottom)
OrOf(items)  == Reduced("or", items, SelectSeq(items, LAMBDA f : f # Bottom), Bottom, Top)
Decided(b)   == IF b THEN Top ELSE Bottom

-----------------------------------------------------------------------------
(* Normal("formula", p, o): when predicate p has outcome o.                 *)
(* Normal("lifted", t, ""): <<formula, term without CASE>> alternatives of a *)
(* value, none where it is unsupported.  Normal("weight", w, b): when weight *)
(* w is positive (b) or zero.                                               *)
RECURSIVE Normal(_, _, _)
Formula(p, outcome)   == Normal("formula", p, outcome)
Lifted(t)             == Normal("lifted", t, "")
WeightFormula(w, b)   == Normal("weight", w, b)

Outcomes    == <<"true", "false", "unknown">>
Contrary(o) == CASE o = "true" -> "false" [] o = "false" -> "true" [] OTHER -> o
OutcomeOf(v) == CASE v = TRUE -> "true" [] v = FALSE -> "false" [] OTHER -> "unknown"

Selected(c) == Formula(c, "true")
Rejected(c) == OrOf(<<Formula(c, "false"), Formula(c, "unknown")>>)

(* An operand is an input or a constant; anything else is not supported.    *)
Operand(t) == CASE Op(t) = "in"                    -> <<"input", Arg(t)>>
                [] IsOpen(t) \/ Eval(t) = Failure  -> <<"other", Null>>
                [] OTHER                           -> <<"constant", Eval(t)>>
ConstantLast(x, y) == IF x[1] = "constant" THEN <<y, x>> ELSE <<x, y>>

NullOf(x, null) == CASE x[1] = "constant" -> Decided((x[2] = Null) = null)
                     [] x[1] = "input"    -> Atom(x[2], IF null THEN "null" ELSE "notnull", Null)
                     [] OTHER             -> Unsupported

NullFormula(t, null) ==
    CASE Op(t) = "toboolean" /\ null -> Formula(Kid(t, 1), "unknown")
      [] Op(t) = "toboolean"         -> OrOf(<<Formula(Kid(t, 1), "true"), Formula(Kid(t, 1), "false")>>)
      [] OTHER                       -> NullOf(Operand(t), null)

(* Both are made before one is taken.                                       *)
NullTest(null, otherwise) == IF otherwise = Unsupported THEN Unsupported ELSE null

ThatAll(parts, o) == [i \in DOMAIN parts |-> parts[i][o]]
Connective(parts, strong, weak, o) ==
    CASE \E i \in DOMAIN parts : \E k \in ToSet(Outcomes) : parts[i][k] = Unsupported -> Unsupported
      [] o = strong -> AndOf(ThatAll(parts, strong))
      [] o = weak   -> OrOf(ThatAll(parts, weak))
      [] OTHER      -> AndOf(<<OrOf(ThatAll(parts, "unknown"))>>
                             \o [i \in DOMAIN parts |-> OrOf(<<parts[i][strong], parts[i]["unknown"]>>)])
OutcomesOfKids(t) == Strict([i \in DOMAIN Kids(t) |->
                [true    |-> Formula(Kid(t, i), "true"), false |-> Formula(Kid(t, i), "false"),
                 unknown |-> Formula(Kid(t, i), "unknown")]])

(* Two inputs are not distinct: both are NULL, or neither and equal.        *)
BothNotNull(a, b, op) == AndOf(<<Atom(a, "notnull", Null), Atom(b, "notnull", Null), Atom(a, op, b)>>)
SameInputs(a, b, o) ==
    IF o = "true" THEN OrOf(<<AndOf(<<Atom(a, "null", Null), Atom(b, "null", Null)>>), BothNotNull(a, b, "eqvar")>>)
    ELSE OrOf(<<AndOf(<<Atom(a, "null", Null), Atom(b, "notnull", Null)>>),
                AndOf(<<Atom(a, "notnull", Null), Atom(b, "null", Null)>>), BothNotNull(a, b, "nevar")>>)

SameOperands(x, y, o) ==
    CASE "other" \in {x[1], y[1]}             -> Unsupported
      [] y[1] = "input"                       -> SameInputs(x[2], y[2], o)
      [] y[2] = Null                          -> Atom(x[2], IF o = "true" THEN "null" ELSE "notnull", Null)
      [] o = "true"                           -> Atom(x[2], "=", y[2])
      [] OTHER -> OrOf(<<Atom(x[2], "null", Null), Atom(x[2], "!=", y[2])>>)

BooleanIs(p, target, o) ==
    IF o = "true" THEN Formula(p, target)
    ELSE OrOf([i \in 1..2 |-> Formula(p, SelectSeq(Outcomes, LAMBDA k : k # target)[i])])

IsBooleanSide(t, i) == Op(Kid(t, i)) = "toboolean" /\ ~IsOpen(Kid(t, 3 - i))
NotDistinct(t, o) ==
    CASE o = "unknown"       -> Bottom
      [] IsBooleanSide(t, 1) -> BooleanIs(Kid(Kid(t, 1), 1), OutcomeOf(Eval(Kid(t, 2))), o)
      [] IsBooleanSide(t, 2) -> BooleanIs(Kid(Kid(t, 2), 1), OutcomeOf(Eval(Kid(t, 1))), o)
      [] OTHER -> LET xy == ConstantLast(Operand(Kid(t, 1)), Operand(Kid(t, 2)))
                  IN  SameOperands(xy[1], xy[2], o)

Flipped == [op \in {"<", ">", "="} |-> CASE op = "<" -> ">" [] op = ">" -> "<" [] OTHER -> op]
Negated == [op \in {"<", ">", "="} |-> CASE op = "<" -> ">=" [] op = ">" -> "<=" [] OTHER -> "!="]

ComparedInputs(a, b, op, o) ==
    CASE op # "="      -> Unsupported
      [] o = "unknown" -> OrOf(<<Atom(a, "null", Null), Atom(b, "null", Null)>>)
      [] OTHER         -> BothNotNull(a, b, IF o = "true" THEN "eqvar" ELSE "nevar")

Compared(x, y, op, o) ==
    CASE "other" \in {x[1], y[1]} -> Unsupported
      [] y[1] = "input"           -> ComparedInputs(x[2], y[2], op, o)
      [] y[2] = Null              -> Decided(o = "unknown")
      [] o = "unknown"            -> Atom(x[2], "null", Null)
      [] OTHER                    -> Atom(x[2], IF o = "true" THEN op ELSE Negated[op], y[2])

Comparison(x, y, op, o) == IF x[1] = "constant" THEN Compared(y, x, Flipped[op], o) ELSE Compared(x, y, op, o)

(* Multiplicities: not negative, of inputs that are 0 or 1.                 *)
RECURSIVE IsWeightTerm(_)
IsWeightTerm(t) ==
    CASE Op(t) = "lit"  -> Arg(t) >= 0
      [] Op(t) = "in"   -> IsBinary(t)
      [] Op(t) = "case" -> IsWeightTerm(Kid(t, 2)) /\ IsWeightTerm(Kid(t, 3))
      [] Op(t) = "call" -> Arg(t)[1] \in {"add", "mul"} /\ \A i \in DOMAIN Kids(t) : IsWeightTerm(Kid(t, i))
      [] OTHER          -> FALSE

IsPositivity(t) == Op(t) = "lt3" /\ Kid(t, 1) = Lit(0) /\ IsWeightTerm(Kid(t, 2))
IsAbsence(t)    == Op(t) = "eq3" /\ Kid(t, 2) = Lit(0) /\ IsWeightTerm(Kid(t, 1))

FormulaOf(t, o) ==
    CASE ~IsOpen(t)             -> Decided(OutcomeOf(Eval(t)) = o /\ Eval(t) # Failure)
      [] Op(t) = "not3"         -> Formula(Kid(t, 1), Contrary(o))
      [] Op(t) = "and3"         -> Connective(OutcomesOfKids(t), "true", "false", o)
      [] Op(t) = "or3"          -> Connective(OutcomesOfKids(t), "false", "true", o)
      [] Op(t) \in {"isnull", "isnotnull"} ->
           LET null == (Op(t) = "isnull") = (o = "true")
           IN  IF o = "unknown" THEN Bottom
               ELSE NullTest(NullFormula(Kid(t, 1), null), NullFormula(Kid(t, 1), ~null))
      [] Op(t) = "isnotdistinct" -> NotDistinct(t, o)
      [] IsPositivity(t)        -> IF o = "unknown" THEN Bottom ELSE WeightFormula(Kid(t, 2), o = "true")
      [] IsAbsence(t)           -> IF o = "unknown" THEN Bottom ELSE WeightFormula(Kid(t, 1), o # "true")
      [] Op(t) \in {"eq3", "lt3"} ->
           Comparison(Operand(Kid(t, 1)), Operand(Kid(t, 2)), IF Op(t) = "eq3" THEN "=" ELSE "<", o)
      [] OTHER                  -> Unsupported

(* One alternative of each operand, in every way, unless there are too many. *)
Extend(alternatives, options) ==
    FlattenSeq([i \in DOMAIN alternatives |-> [j \in DOMAIN options |->
        <<AndOf(<<alternatives[i][1], options[j][1]>>), Append(alternatives[i][2], options[j][2])>>]])
Within(alternatives) == IF Len(alternatives) > CaseSplits THEN << >> ELSE alternatives
Alternatives(lifted) ==
    FoldLeft(LAMBDA alternatives, options : Within(Extend(alternatives, options)),
             <<<<Top, << >>>>>>, lifted)
LiftedKids(t) == Strict([i \in DOMAIN Kids(t) |-> Lifted(Kid(t, i))])

(* A predicate over CASE operands is decided for each way they turn out.    *)
SplitInto(t, alternatives, o) ==
    IF alternatives = << >> THEN Unsupported
    ELSE OrOf([i \in DOMAIN alternatives |->
             AndOf(<<alternatives[i][1], Formula(Make(Op(t), Arg(t), alternatives[i][2]), o)>>)])
Split(t, lifted, o) ==
    IF \A i \in DOMAIN lifted : Len(lifted[i]) = 1 THEN Unsupported ELSE SplitInto(t, Alternatives(lifted), o)

(* A predicate of one input is tested on the values that are tried.         *)
SingleTest(t, names, o) ==
    IF Cardinality(names) # 1 THEN Unsupported
    ELSE Atom(CHOOSE n \in names : TRUE, "test",
              CASE o = "true" -> IsTrue(t) [] o = "false" -> IsFalse(t) [] OTHER -> IsUnknown(t))

Else(formula, otherwise) == IF formula = Unsupported THEN otherwise ELSE formula

Under(condition, options) ==
    Strict([i \in DOMAIN options |-> <<AndOf(<<condition, options[i][1]>>), options[i][2]>>])
LiftedCase(selected, rejected, then, otherwise) ==
    IF Has(<<selected, rejected>>, Unsupported) \/ << >> \in {then, otherwise} THEN << >>
    ELSE Under(selected, then) \o Under(rejected, otherwise)

LiftedOf(t) ==
    CASE ~IsOpen(t) \/ Op(t) \notin {"case", "call"} -> <<<<Top, t>>>>
      [] Op(t) = "case" -> LiftedCase(Selected(Kid(t, 1)), Rejected(Kid(t, 1)), Lifted(Kid(t, 2)), Lifted(Kid(t, 3)))
      [] OTHER -> LET alternatives == Alternatives(LiftedKids(t))
                  IN  Strict([i \in DOMAIN alternatives |->
                                 <<alternatives[i][1], Make(Op(t), Arg(t), alternatives[i][2])>>])

(* A sum is positive if a part is, a product if all parts are.              *)
WeightOf(t, b) ==
    CASE Op(t) = "lit"  -> Decided((Arg(t) > 0) = b)
      [] Op(t) = "in"   -> Atom(Arg(t), "=", IF b THEN 1 ELSE 0)
      [] Op(t) = "case" -> OrOf(<<AndOf(<<Selected(Kid(t, 1)), WeightFormula(Kid(t, 2), b)>>),
                                  AndOf(<<Rejected(Kid(t, 1)), WeightFormula(Kid(t, 3), b)>>)>>)
      [] OTHER -> LET parts == [i \in DOMAIN Kids(t) |-> WeightFormula(Kid(t, i), b)]
                  IN  IF (Arg(t)[1] = "add") = b THEN OrOf(parts) ELSE AndOf(parts)

Normal(kind, t, o) ==
    CASE kind = "formula" -> Else(FormulaOf(t, o), Else(Split(t, LiftedKids(t), o), SingleTest(t, Inputs(t), o)))
      [] kind = "lifted"  -> LiftedOf(t)
      [] kind = "weight"  -> WeightOf(t, o)
-----------------------------------------------------------------------------
(* The values an input may still take: whether it is NULL ("yes", "no", or  *)
(* "any"), the value it equals, bounds <<value, strict>> (sets of at most   *)
(* one), values it does not take, and tests it has to pass.                 *)
Space(nullable, excluded) ==
    [null |-> "any", nullable |-> nullable, equals |-> {}, lower |-> {}, upper |-> {},
     excluded |-> excluded, tests |-> << >>, ok |-> TRUE]

Contradicted(space) == [space EXCEPT !.ok = FALSE]

(* Does the bound leave less than the one there was?                        *)
Tighter(new, old, op) ==
    old = {} \/ \E b \in old : IF op \in {">", ">="} THEN new > b[1] \/ (new = b[1] /\ op = ">")
                               ELSE new < b[1] \/ (new = b[1] /\ op = "<")

Restricting(space, op, v) ==
    CASE op = "=" /\ space.equals \subseteq {v} -> [space EXCEPT !.equals = {v}]
      [] op = "="  -> Contradicted(space)
      [] op = "!=" -> [space EXCEPT !.excluded = @ \cup {v}]
      [] op \in {">", ">="} /\ Tighter(v, space.lower, op) -> [space EXCEPT !.lower = {<<v, op = ">">>}]
      [] op \in {"<", "<="} /\ Tighter(v, space.upper, op) -> [space EXCEPT !.upper = {<<v, op = "<">>}]
      [] OTHER -> space

Admissible(space, v) ==
    IF v = Null THEN space.null # "no" /\ space.nullable
    ELSE /\ space.null # "yes" /\ v \notin space.excluded /\ space.equals \subseteq {v}
         /\ \A b \in space.lower : v > b[1] \/ (v = b[1] /\ ~b[2])
         /\ \A b \in space.upper : v < b[1] \/ (v = b[1] /\ ~b[2])

LeavesValues(space) ==
    IF space.equals # {} THEN \A v \in space.equals : Admissible(space, v)
    ELSE \A l \in space.lower, u \in space.upper : l[1] < u[1] \/ (l[1] = u[1] /\ ~(l[2] \/ u[2]))

WithValues(space) == IF LeavesValues(space) THEN space ELSE Contradicted(space)

Narrowed(space, op, v) ==
    CASE ~space.ok      -> space
      [] op = "test"    -> IF Has(space.tests, v) THEN space ELSE [space EXCEPT !.tests = Append(@, v)]
      [] op = "null"    -> IF space.null = "no" \/ ~space.nullable THEN Contradicted(space)
                           ELSE [space EXCEPT !.null = "yes"]
      [] space.null = "yes" -> Contradicted(space)
      [] OTHER          -> WithValues(Restricting([space EXCEPT !.null = "no"], op, v))

SpaceOf(name) == Space(~IsWeight(name) /\ Schema[name[1]][name[3]], Excluded(name))

-----------------------------------------------------------------------------
(* A state of the search: the spaces of the inputs met so far, the pairs of *)
(* inputs that are equal or differ, and the disjunctions left to decide.    *)
Start  == [spaces |-> << >>, links |-> {}, choices |-> << >>, ok |-> TRUE]
Failed == [Start EXCEPT !.ok = FALSE]

(* The inputs that belong together with those of S, by links or by sharing  *)
(* a requirement.                                                           *)
RECURSIVE Closure(_, _)
Closure(S, edges) == LET more == S \cup UNION {e \in edges : e \cap S # {}}
                     IN  IF more = S THEN S ELSE Closure(more, edges)

Equalities(links)  == {{l[2], l[3]} : l \in {k \in links : k[1] = "eqvar"}}
LinksAgree(links)  == \A l \in links : l[1] = "nevar" => l[3] \notin Closure({l[2]}, Equalities(links))

WithSpace(s, name, space) == IF space.ok THEN [s EXCEPT !.spaces = (name :> space) @@ @] ELSE Failed
WithLink(s, link) == IF LinksAgree(s.links \cup {link}) THEN [s EXCEPT !.links = @ \cup {link}] ELSE Failed
Met(s, name) == IF name \in DOMAIN s.spaces THEN s.spaces[name] ELSE SpaceOf(name)

(* One formula is applied: atoms narrow, disjunctions wait.                 *)
Applying(s, f) ==
    CASE f = Top      -> s
      [] f = Bottom   -> Failed
      [] f[1] = "or"  -> [s EXCEPT !.choices = Append(@, f[2])]
      [] f[1] = "and" -> s
      [] f[3] \in {"eqvar", "nevar"} -> WithLink(s, <<f[3], f[2], f[4]>>)
      [] OTHER        -> WithSpace(s, f[2], Narrowed(Met(s, f[2]), f[3], f[4]))

RECURSIVE NarrowBy(_, _)
NarrowBy(s, pending) ==
    IF ~s.ok \/ pending = << >> THEN s
    ELSE LET f == Last(pending)
         IN  NarrowBy(Applying(s, f), Front(pending) \o (IF f[1] = "and" THEN f[2] ELSE << >>))

(* Do the spaces guarantee the formula already?                             *)
EqualsOf(s, name) == IF name \in DOMAIN s.spaces THEN s.spaces[name].equals ELSE {}
Holds(op, v, w) == CASE op = "=" -> v = w [] op = "!=" -> v # w [] op = "<"  -> v < w
                     [] op = "<=" -> v <= w [] op = ">" -> v > w [] op = ">=" -> v >= w

AtomEntailed(s, name, op, v) ==
    CASE op = "eqvar" -> {<<"eqvar", name, v>>, <<"eqvar", v, name>>} \cap s.links # {}
      [] op = "nevar" -> \E x \in EqualsOf(s, name), y \in EqualsOf(s, v) : x # y
      [] op = "test" \/ name \notin DOMAIN s.spaces -> FALSE
      [] op \in {"null", "notnull"} -> s.spaces[name].null = IF op = "null" THEN "yes" ELSE "no"
      [] OTHER -> \E x \in EqualsOf(s, name) : Holds(op, x, v)

RECURSIVE Entailed(_, _)
Entailed(s, f) == CASE f \in {Top, Bottom} -> f = Top
                    [] f[1] = "and" -> \A i \in DOMAIN f[2] : Entailed(s, f[2][i])
                    [] f[1] = "or"  -> \E i \in DOMAIN f[2] : Entailed(s, f[2][i])
                    [] OTHER        -> AtomEntailed(s, f[2], f[3], f[4])

(* Disjunctions are dropped if they hold, and lose the options that cannot; *)
(* one with a single option is applied, until nothing changes.              *)
Viable(s, options) == SelectSeq(options, LAMBDA f : NarrowBy([s EXCEPT !.choices = << >>], <<f>>).ok)

RECURSIVE Propagate(_, _, _)
Decide(s, options, viable, rest, changed) ==
    CASE \E i \in DOMAIN options : Entailed(s, options[i]) -> Propagate(s, rest, TRUE)
      [] viable = << >>  -> Failed
      [] Len(viable) = 1 -> Propagate(NarrowBy(s, viable), rest, TRUE)
      [] OTHER -> Propagate([s EXCEPT !.choices = Append(@, viable)], rest,
                            changed \/ Len(viable) < Len(options))

Propagate(s, rest, changed) ==
    CASE ~s.ok -> s
      [] rest # << >> -> Decide(s, Head(rest), Viable(s, Head(rest)), Tail(rest), changed)
      [] changed      -> Propagate([s EXCEPT !.choices = << >>], s.choices, FALSE)
      [] OTHER        -> s

Propagated(s) == Propagate([s EXCEPT !.choices = << >>], s.choices, FALSE)

(* Branching takes the disjunction with the fewest options.                 *)
Fewest(choices) == CHOOSE i \in DOMAIN choices :
                       /\ \A j \in DOMAIN choices : Len(choices[i]) <= Len(choices[j])
                       /\ \A j \in 1 .. i - 1 : Len(choices[i]) < Len(choices[j])
Branches(s) == LET i == Fewest(s.choices)
               IN  [k \in DOMAIN s.choices[i] |-> <<[s EXCEPT !.choices = RemoveAt(@, i)], s.choices[i][k]>>]

-----------------------------------------------------------------------------
(* Values for the inputs of a state without disjunctions, equal ones alike. *)
Beyond(bounds, direction) ==
    FlattenSeq([i \in 1 .. Cardinality(bounds) |->
        LET b == CHOOSE x \in bounds : TRUE
        IN  (IF b[2] THEN << >> ELSE <<b[1]>>) \o <<b[1] + direction>>])

RECURSIVE Literals(_)
Literals(t) == IF Op(t) = "lit" THEN <<Arg(t)>>
               ELSE FlattenSeq([i \in DOMAIN Kids(t) |-> Literals(Kid(t, i))])
Around(constants) == FlattenSeq([i \in DOMAIN constants |->
                                    <<constants[i], constants[i] + 1, constants[i] - 1>>])

FirstFour(s) == SubSeq(s, 1, IF Len(s) < 4 THEN Len(s) ELSE 4)
Tried(space, preferred) ==
    (IF space.equals # {} THEN Ordered(space.equals)
     ELSE <<preferred>> \o Beyond(space.lower, 1) \o Beyond(space.upper, -1) \o <<0, 1, -1, 2, 10, 100>>
          \o [i \in DOMAIN FirstFour(Ordered(space.excluded)) |-> FirstFour(Ordered(space.excluded))[i] + 1])
    \o FlattenSeq([i \in DOMAIN space.tests |-> Around(Literals(space.tests[i]))]) \o <<1, Null>>

Passes(space, members, v) ==
    /\ Admissible(space, v)
    /\ \A i \in DOMAIN space.tests : Trial(space.tests[i], [n \in members |-> v]) = TRUE

(* The atoms that narrow a space to what another one is.                    *)
Marked(op, S)        == [i \in 1 .. Cardinality(S) |-> <<op, Ordered(S)[i]>>]
Bounding(ops, S)     == [i \in 1 .. Cardinality(S) |->
                            LET b == Ordered(S)[i] IN <<IF b[2] THEN ops[1] ELSE ops[2], b[1]>>]
NotNullAtoms(space)  == (IF space.null = "no" THEN <<<<"notnull", Null>>>> ELSE << >>)
                        \o Marked("=", space.equals) \o Marked("!=", space.excluded)
                        \o Bounding(<<">", ">=">>, space.lower) \o Bounding(<<"<", "<=">>, space.upper)
AtomsOf(space) == (IF space.null = "yes" THEN <<<<"null", Null>>>> ELSE NotNullAtoms(space))
                  \o [i \in DOMAIN space.tests |-> <<"test", space.tests[i]>>]

Merged(s, members) ==
    LET all   == Ordered(members)
        atoms == FlattenSeq([i \in DOMAIN all |-> IF all[i] \in DOMAIN s.spaces THEN AtomsOf(s.spaces[all[i]]) ELSE << >>])
    IN  FoldLeft(LAMBDA space, atom : Narrowed(space, atom[1], atom[2]),
                 Space(\A n \in members : SpaceOf(n).nullable, UNION {Excluded(n) : n \in members}), atoms)

(* What the inputs that must differ from these have been given.             *)
Apart(s, members, given) ==
    {given[n] : n \in {m \in DOMAIN given : \E l \in s.links :
        l[1] = "nevar" /\ \E k \in 2..3 : l[k] \in members /\ l[5 - k] = m}} \ {Null}

ToTry(space, members, first, absent) ==
    IF space.null = "yes" THEN <<Null>> ELSE Tried(space, IF first \in absent THEN 0 ELSE values[first])

Give(members, passing, given) ==
    IF passing = << >> THEN [ok |-> FALSE, to |-> given.to]
    ELSE [ok |-> TRUE, to |-> [n \in members |-> passing[1]] @@ given.to]

GiveIn(space, members, first, absent, given) ==
    Give(members, SelectSeq(ToTry(space, members, first, absent), LAMBDA v : Passes(space, members, v)), given)

GiveTo(s, members, first, absent, given) ==
    LET space == Merged(s, members)
    IN  IF ~given.ok \/ ~space.ok THEN [given EXCEPT !.ok = FALSE]
        ELSE GiveIn([space EXCEPT !.excluded = @ \cup Apart(s, members, given.to)], members, first, absent, given)

(* The order of the inputs is that of a set: any will do.                   *)
InputsOf(s) == DOMAIN s.spaces \cup UNION {{l[2], l[3]} : l \in s.links}
Assignment(s, order, absent) ==
    LET given == FoldLeft(LAMBDA g, name : IF name \in DOMAIN g.to THEN g
                              ELSE GiveTo(s, Closure({name}, Equalities(s.links)), name, absent, g),
                          [ok |-> TRUE, to |-> << >>], order)
    IN  [given EXCEPT !.ok = @ /\ \A l \in s.links : l[1] = "nevar" => given.to[l[2]] # given.to[l[3]]]
=============================================================================
