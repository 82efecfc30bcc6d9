----------------------------- MODULE Execution -----------------------------
(* The evaluator of U-expressions: scalars, multiplicities as bindings of   *)
(* rows, relations, folds (instance/machine.py, class Machine).             *)
(*                                                                          *)
(* A site is the path to a decision: positions of children, negative for    *)
(* the columns of a result and the arguments of an aggregate.               *)
EXTENDS Machine

At(site, i) == Append(site, i)

(* A term gives, by its kind, a cell, a row, the bindings of a multiplicity *)
(* or a relation.                                                           *)
RECURSIVE Evaluate(_, _, _, _)

(* The children of a term from the first to the last of them, at its site.  *)
Parts(t, last, env, context, site) ==
    Strict([i \in 1..last |-> Evaluate(Kid(t, i), env, context, At(site, i))])

(* A row lambda applied to a row: a row or a scalar.                        *)
Applied(function, row, env, context, site) ==
    Evaluate(Kid(function, 1), Push(env, row), context, At(site, 1))

WithNotes(result, notes) == With(result.r, result.n \cup notes)
RowOfCells(cells)        == With(Results(cells), NotesOf(cells))

RowOf(t, env, context, site) ==
    IF Op(t) = "rowvar" THEN Done(RowAt(env, Arg(t)[1]))
    ELSE RowOfCells(Parts(t, Len(Kids(t)), env, context, site))

EntryWeights(relation) == Strict([i \in DOMAIN relation.entries |-> relation.entries[i].weight])

(* Nothing there: a decision only for a term that depends on outer rows.    *)
Absence(t, site, outcome, context, covered, condition) ==
    IF FreeRows(t) # {} THEN Noted(site, outcome, context, covered, condition) ELSE {}

(* That there is nothing, as `absent`, or something, as `some`.             *)
AmountNotes(t, site, absent, some, context, total, reached) ==
    Absence(t, site, absent, context, reached /\ Number(total) = 0, Equal(total, Lit(0)))
    \cup Noted(site, some, context, reached /\ Present(total), Positive(total))

(* The first row present, an error when there are two.                      *)
RECURSIVE FirstPresent(_)
FirstPresent(pairs) ==
    IF Len(pairs) = 1 THEN Guard(pairs[1][1], pairs[1][2], NullTerm)
    ELSE FirstPresent(Paired(pairs, LAMBDA a, b : <<Total(<<a[1], b[1]>>), Guard(a[1], a[2], b[2])>>))

FirstCell(es) == IF es = << >> THEN NullTerm
                 ELSE FirstPresent([i \in DOMAIN es |-> <<es[i].weight, es[i].row[1]>>])

TooMany(context, total) == \/ Eval(context) = Failure
                           \/ Present(context) /\ (Eval(total) = Failure \/ Number(total) > 1)

SingleOf(t, context, site, source, total) ==
    With(Case(AtLeast(total, 2), Node("call", <<"error", TRUE>>, << >>), FirstCell(source.r.entries)),
         source.n \cup AmountNotes(t, site, "empty", "nonempty", context, total, Present(context))
                  \cup IF TooMany(context, total) THEN Raise("raise") ELSE {})

ScalarizeOf(t, context, site, source) ==
    SingleOf(t, context, site, source, Total(EntryWeights(source.r)))

InSubqueryOf(needle, source) ==
    With(Disj([i \in DOMAIN source.r.entries |->
                  Conj(<<Positive(source.r.entries[i].weight),
                         Equal(needle.r, source.r.entries[i].row[1])>>)]),
         needle.n \cup source.n)

Combined(t, rs) ==
    CASE Op(t) = "field" -> rs[1][Arg(t)]
      [] Op(t) = "rowid" -> SameRow(rs[1], rs[2])
      [] OTHER           -> Make(IF Op(t) = "case" THEN "choose" ELSE Op(t), Arg(t), rs)

ScalarOfParts(t, parts) == With(Combined(t, Results(parts)), NotesOf(parts))

(* A predicate is a decision wherever it depends on a row.                  *)
Decided(t, site, context, result) ==
    IF Op(t) \in PredicateOps
    THEN WithNotes(result, PredicateNotes(t, site, context, result.r)) ELSE result

ScalarOf(t, env, context, site) ==
    LET Part(i) == Evaluate(Kid(t, i), env, context, At(site, i))
    IN  IF FreeRows(t) = {} /\ ~IsRelational(t) THEN Done(Fold(t))
        ELSE Decided(t, site, context,
                 CASE Op(t) = "scalarize"  -> ScalarizeOf(t, context, site, Part(1))
                   [] Op(t) = "insubquery" -> InSubqueryOf(Part(1), Part(2))
                   [] OTHER -> ScalarOfParts(t, Parts(t, Len(Kids(t)), env, context, site)))

-----------------------------------------------------------------------------
(* bag(row): the weights of the entries equal to the row.                   *)
Comparable(es, row)    == SelectSeq(es, LAMBDA e : OpenCells(row) \/ e.row = row \/ OpenCells(e.row))
WeightOf(near, row)    == Total([i \in DOMAIN near |-> Mul(near[i].weight, Ind(SameRow(near[i].row, row)))])
CountOf(relation, row) ==
    With(<<Plain(WeightOf(Comparable(relation.r.entries, row.r), row.r))>>, relation.n \cup row.n)

BindingsFrom(entries, depth) ==
    Strict([i \in DOMAIN entries |->
        Binding(depth :> entries[i].row, entries[i].weight, entries[i].weight, entries[i].cand)])
EntryBindings(entries, depth, env) ==
    BindingsFrom(SelectSeq(entries, LAMBDA e : Admits(env, e)), depth)

AtOf(t, env, context, site) ==
    LET Part(i) == Evaluate(Kid(t, i), env, context, At(site, i))
        Enumerated(relation) ==
            With(EntryBindings(relation.r.entries, AtVariable(t), env), relation.n)
    IN  IF AtVariable(t) >= 0 /\ RowAt(env, AtVariable(t)) = Unbound
        THEN Enumerated(Part(1)) ELSE CountOf(Part(1), Part(2))

(* A row identity defines a row that is not bound, or is tested.            *)
Definitions(p, env) ==
    SelectSeq(IdentitySides(p),
              LAMBDA s : RowAt(env, s[1]) = Unbound /\ FreeRows(s[2]) \cap FreeIn(env) = {})

IndicatorOf(t, env, context, site) ==
    LET Defining(depth, row) == With(<<Binding(depth :> row.r, Lit(1), Lit(1), 0)>>, row.n)
        Testing(test)        == With(<<Plain(Ind(test.r))>>, test.n)
        Of(defined) ==
            IF defined = << >> THEN Testing(Evaluate(Kid(t, 1), env, context, At(site, 1)))
            ELSE Defining(defined[1][1], Evaluate(defined[1][2], env, context, site \o <<1, 2>>))
    IN  Of(Definitions(Kid(t, 1), env))

(* An equality looked up in the stored rows instead of scanned for: open    *)
(* rows remain, the stored rows passed over are its other outcomes.         *)
StoredCell(e, column) == ~IsOpen(e.row[column]) /\ Eval(e.row[column]) # Failure
StoredAmong(es, column) ==
    {i \in DOMAIN es : StoredCell(es[i], column) /\ Present(es[i].weight)}

ProbeNotes(factor, at, value, skipped, nulls) ==
    (IF value # Null /\ Cardinality(skipped) > Cardinality(nulls)
     THEN {NoteOf(at, "false", TRUE, True3)} ELSE {})
    \cup IF (nulls # {} \/ (value = Null /\ skipped # {})) /\ MayBeUnknown(Kid(factor, 1))
         THEN {NoteOf(at, "unknown", TRUE, True3)} ELSE {}

(* The rows an index finds: stored ones of that value, then the open ones.  *)
Matching(es, column, value) ==
    SelectSeq(es, LAMBDA e : StoredCell(e, column) /\ value # Null /\ Eval(e.row[column]) = value)
    \o SelectSeq(es, LAMBDA e : ~StoredCell(e, column))

Lookup(factor, es, column, value, depth, at, env) ==
    With(<<"found", EntryBindings(Matching(es, column, value), depth, env)>>,
         ProbeNotes(factor, at, value,
             {i \in StoredAmong(es, column) : value = Null \/ Eval(es[i].row[column]) # value},
             {i \in StoredAmong(es, column) : Eval(es[i].row[column]) = Null}))

Scan == Done(<<"scan">>)

Probed(factors, index, probe, env, at, relation, key) ==
    WithNotes(IF IsConstant(key.r)
              THEN Lookup(factors[probe[1]], relation.r.entries, probe[2], Eval(key.r),
                          AtVariable(factors[index]), at, env)
              ELSE Scan, relation.n \cup key.n)

ProbeOf(factors, index, probe, env, context, site) ==
    IF probe = << >> \/ ~IsConstant(context) \/ ~Present(context) THEN Scan
    ELSE Probed(factors, index, probe, env, site \o <<probe[1], 1>>,
                Evaluate(Kid(factors[index], 1), env, context, site \o <<index, 1>>),
                Evaluate(probe[3], env, context, site \o <<probe[1], 1, probe[4]>>))

(* The factors in the order of the plan, each for every binding so far.     *)
Extended(b, found) ==
    With(SelectSeq(Strict([i \in DOMAIN found.r |->
                       Binding(found.r[i].rows @@ b.rows, Mul(b.weight, found.r[i].weight),
                               Mul(b.presence, found.r[i].presence), b.cand + found.r[i].cand)]),
                   LAMBDA x : x.weight # Lit(0)), found.n)

FactorOf(factors, index, probed, env, context, site) ==
    IF probed.r[1] = "found" THEN With(probed.r[2], probed.n)
    ELSE WithNotes(Evaluate(factors[index], env, context, At(site, index)), probed.n)

ProbedFactor(factors, index, probe, env, context, site) ==
    FactorOf(factors, index, ProbeOf(factors, index, probe, env, context, site), env, context, site)

ExtendedBy(factors, index, probe, b, at) ==
    Extended(b, ProbedFactor(factors, index, probe, Bind(at.env, b.rows, b.cand),
                             Mul(at.context, b.weight), at.site))

RECURSIVE ProductFrom(_, _, _, _, _, _)
ProductFrom(factors, plan, probes, p, current, at) ==
    IF p > Len(plan) THEN current
    ELSE ProductFrom(factors, plan, probes, p + 1,
             WithNotes(Flat([i \in DOMAIN current.r |->
                           ExtendedBy(factors, plan[p], probes[p], current.r[i], at)]), current.n), at)

ProductAlong(t, plan, env, context, site) ==
    IF plan = << >> THEN With(<< >>, Raise("unsupported"))
    ELSE ProductFrom(Kids(t), plan,
                     Strict([p \in DOMAIN plan |-> Probe(Kids(t), plan, FreeIn(env), p)]), 1,
                     Done(<<Plain(Lit(1))>>), [env |-> env, context |-> context, site |-> site])

ProductOf(t, env, context, site) ==
    ProductAlong(t, Plan(Kids(t), FreeIn(env)), env, context, site)

PositiveNote(site, context, weight) ==
    Noted(site, "positive", context, Present(context) /\ Present(weight), Positive(weight))

(* One note for each binding whose weight may be positive.                  *)
PositiveNotes(site, context, bs) ==
    UNION {PositiveNote(site, Mul(context, bs[i].presence), bs[i].weight) : i \in DOMAIN bs}

(* A binding of a sum to the rows outside it.                               *)
Outside(b) ==
    [b EXCEPT !.rows = NoRows @@ [d \in {k - 1 : k \in DOMAIN b.rows \ {0}} |-> b.rows[d + 1]]]
Unenumerated(bs) == \E i \in DOMAIN bs : 0 \notin DOMAIN bs[i].rows
WeightsOf(bs)    == Strict([i \in DOMAIN bs |-> bs[i].weight])
Open(t, env)     == FreeRows(t) \cap FreeIn(env) # {}

SumOfBindings(t, env, context, site, inner) ==
    IF Unenumerated(inner.r) THEN With(<< >>, inner.n \cup Raise("unsupported"))
    ELSE With(IF Open(t, env) THEN Strict([i \in DOMAIN inner.r |-> Outside(inner.r[i])])
              ELSE <<Plain(Total(WeightsOf(inner.r)))>>,
              inner.n \cup PositiveNotes(site, context, inner.r))

SumBindings(t, env, context, site) ==
    SumOfBindings(t, env, context, site,
            Evaluate(SumBody(t), Push(env, Unbound), context, site \o <<1, 1>>))

(* The distinct elements of a sequence, in the order they first come.       *)
Distinct(s) == LET first == SelectSeq([i \in DOMAIN s |-> i], LAMBDA i : \A j \in 1 .. i - 1 : s[j] # s[i])
               IN  Strict([i \in DOMAIN first |-> s[first[i]]])

(* Squash over bindings: one binding for each distinct assignment; two with *)
(* open cells may turn out equal.                                           *)
Cells(rows) == FlattenSeq([k \in 1 .. Cardinality(DOMAIN rows) |-> rows[Ordered(DOMAIN rows)[k]]])
Comparing(rows, other) == rows = other \/ OpenCells(Cells(rows)) \/ OpenCells(Cells(other))
Coincide(a, b)  == SameRow(Cells(a), Cells(b))
Among(bs, rows) ==
    Total([i \in DOMAIN bs |->
              CASE bs[i].rows = rows            -> bs[i].weight
                [] Comparing(rows, bs[i].rows)  -> Mul(bs[i].weight, Ind(Coincide(bs[i].rows, rows)))
                [] OTHER                        -> Lit(0)])

(* What an entry of a distinct result needs: none before it is equal.       *)
OnlyIf(earlier, p) == Conj(<<Not(earlier), p>>)

Duplicates(site, context, earlier, total) ==
    Noted(site, "duplicate", context,
          Present(context) /\ Eval(earlier) = FALSE /\ Number(total) > 1,
          OnlyIf(earlier, AtLeast(total, 2)))

DistinctBinding(rows, weight, cand, notes) == With(Binding(rows, weight, weight, cand), notes)

DistinctRow(rows, bs, earlier, total, context, site) ==
    DistinctBinding(rows, Ind(OnlyIf(earlier, Positive(total))),
                    Max({b.cand : b \in {x \in ToSet(bs) : x.rows = rows}}),
                    Duplicates(site, context, earlier, total))

BeforeRows(reps, p) == SelectSeq(SubSeq(reps, 1, p - 1), LAMBDA r : Comparing(reps[p], r))
EqualsOne(before, rows) == Disj([q \in DOMAIN before |-> Coincide(before[q], rows)])

DistinctRows(reps, bs, context, site) ==
    Strict([p \in DOMAIN reps |->
        DistinctRow(reps[p], bs, EqualsOne(BeforeRows(reps, p), reps[p]), Among(bs, reps[p]),
                    context, site)])

DistinctOf(inner, context, site) ==
    WithNotes(RowOfCells(DistinctRows(Distinct(Strict([i \in DOMAIN inner.r |-> inner.r[i].rows])),
                                      inner.r, context, site)), inner.n)

Amount(t, context, site, inner, total) ==
    With(<<Plain(IF Op(t) = "squash" THEN SquashOf(total) ELSE UNot(total))>>,
         inner.n \cup AmountNotes(t, site, "zero", "positive", context, total, Present(context)))

Squashed(t, env, context, site, inner) ==
    CASE ~Open(t, env)    -> Amount(t, context, site, inner, Total(WeightsOf(inner.r)))
      [] Op(t) = "squash" -> DistinctOf(inner, context, site)
      [] OTHER            -> With(<< >>, inner.n \cup Raise("unsupported"))

SquashNotOf(t, env, context, site) ==
    Squashed(t, env, context, site, Evaluate(Kid(t, 1), env, context, At(site, 1)))

AddOf(t, env, context, site) ==
    LET Noting(inner, at) == WithNotes(inner, PositiveNotes(at, context, inner.r))
        Summand(i) == Noting(Evaluate(Kid(t, i), env, context, At(site, i)), At(site, i))
    IN  Flat([i \in DOMAIN Kids(t) |-> Summand(i)])

Multiplicities == {"zero", "one", "at", "ind", "mul", "add", "sum", "squash", "unot"}
Bindings(t, env, context, site) ==
    CASE Op(t) = "zero" -> Done(<<Plain(Lit(0))>>)
      [] Op(t) = "one"  -> Done(<<Plain(Lit(1))>>)
      [] Op(t) = "at"   -> AtOf(t, env, context, site)
      [] Op(t) = "ind"  -> IndicatorOf(t, env, context, site)
      [] Op(t) = "mul"  -> ProductOf(t, env, context, site)
      [] Op(t) = "add"  -> AddOf(t, env, context, site)
      [] Op(t) = "sum"  -> SumBindings(t, env, context, site)
      [] Op(t) \in {"squash", "unot"} -> SquashNotOf(t, env, context, site)

-----------------------------------------------------------------------------
BaseRows(r) ==
    LET Slot(s) == Entry(Strict([c \in DOMAIN Schema[r] |-> Known(<<r, s, c>>)]), Known(<<r, s, 0>>),
                         IF <<r, s, 0>> \in open THEN 1 ELSE 0)
    IN  Bag(Strict([s \in 1 .. Cardinality(Slots(r)) |-> Slot(s)]))

BagRows(inner) ==
    IF Unenumerated(inner.r) THEN With(Bag(<< >>), inner.n \cup Raise("unsupported"))
    ELSE With(Bag(Strict([i \in DOMAIN inner.r |->
                  Entry(inner.r[i].rows[0], inner.r[i].weight, inner.r[i].cand)])), inner.n)

BagLamOf(t, env, context, site) ==
    BagRows(Evaluate(SumBody(t), Push(env, Unbound), context, site \o <<1, 1>>))

(* A row function applied to every entry, where that entry is there.        *)
Mapped(function, entries, env, context, site) ==
    Strict([i \in DOMAIN entries |->
        Applied(function, entries[i].row, env, Mul(context, entries[i].weight), site)])

MappedBy(t, k, entries, env, context, site) ==
    Mapped(Kid(t, k), entries, env, context, At(site, k))

OrderedBy(source, keys, specs) ==
    With(Ordering(source.r.entries,
                  Strict([e \in DOMAIN source.r.entries |->
                             Strict([k \in DOMAIN keys |-> keys[k][e].r])]), specs),
         source.n \cup UNION {NotesOf(keys[k]) : k \in DOMAIN keys})

OrderOf(t, env, context, site, source) ==
    OrderedBy(source, Strict([k \in DOMAIN Arg(t) |->
                          MappedBy(t, k + 1, source.r.entries, env, context, site)]), Arg(t))

WithRows(source, rows) ==
    With(Ordering(Strict([e \in DOMAIN rows |-> [source.r.entries[e] EXCEPT !.row = rows[e].r]]),
                  source.r.keys, source.r.specs), source.n \cup NotesOf(rows))

SeqMapOf(t, env, context, site, source) ==
    WithRows(source, MappedBy(t, 2, source.r.entries, env, context, site))

(* The first position of a window and the first behind it.                  *)
EdgesOf(op, counts) == CASE op = "take"  -> <<0, counts[1]>>
                         [] op = "drop"  -> <<counts[1], NoEdge>>
                         [] op = "slice" -> <<counts[1], counts[1] + counts[2]>>

LimitTo(source, edges)   == WithNotes(Limit(source.r, edges[1], edges[2]), source.n)

WindowOf(t, source) ==
    LimitTo(source, EdgesOf(Op(t), [i \in 1 .. Len(Kids(t)) - 1 |-> Arg(Kid(t, i))]))

LetOf(t, env, context, site, definition) ==
    WithNotes(Evaluate(Kid(t, 2), PushRel(env, definition.r), context, At(site, 2)), definition.n)

-----------------------------------------------------------------------------
(* One row for each distinct key; keys with open cells may turn out equal.  *)
(* The members of a group are pairs <<weight, entry>>.                      *)
MemberWeight(entry, own, key) == IF own = key THEN entry.weight
                                 ELSE Mul(entry.weight, Ind(SameRow(own, key)))

WeighMembers(near, es, keys, key) ==
    Strict([i \in DOMAIN near |-> <<MemberWeight(es[near[i]], keys[near[i]], key), near[i]>>])

MembersOf(es, keys, key) ==
    WeighMembers(SelectSeq([e \in DOMAIN es |-> e],
                           LAMBDA e : keys[e] = key \/ OpenCells(key) \/ OpenCells(keys[e])),
                 es, keys, key)

(* The weighted arguments of the call <<aggregate, distinct, value, filter>>.*)
ArgumentsOf(call, members, applied) ==
    Strict([i \in DOMAIN members |->
        <<IF call[4] = 0 THEN members[i][1]
          ELSE Mul(members[i][1], Ind(applied[call[4]][members[i][2]].r)),
          IF call[3] = 0 THEN NullTerm ELSE applied[call[3]][members[i][2]].r>>])

KeyNotes(site, context, earlier, count, reached) ==
    Noted(site, "group", context, reached /\ Present(count), OnlyIf(earlier, Positive(count)))
    \cup Noted(site, "multiple", context, reached /\ Number(count) > 1,
               OnlyIf(earlier, AtLeast(count, 2)))

GroupNotes(t, site, context, earlier, count) ==
    IF Op(t) = "groupfold"
    THEN KeyNotes(site, context, earlier, count, Present(context) /\ Eval(earlier) = FALSE)
    ELSE AmountNotes(t, site, "empty", "nonempty", context, count, Present(context))

AggregateCells(calls, arguments) ==
    Strict([i \in DOMAIN calls |-> Aggregate(calls[i][1], calls[i][2], arguments[i])])

(* The occurrences of the values of every call that has an argument.        *)
ArgumentNotes(calls, arguments, site, context) ==
    UNION {OccurrenceNotes(At(site, -i), context,
               Strict([m \in DOMAIN arguments[i] |->
                          <<arguments[i][m][1], <<arguments[i][m][2]>>>>]),
               {"null", "duplicate"}) : i \in {j \in DOMAIN calls : calls[j][3] > 0}}

GroupRow(t, key, members, earlier, count, arguments, es, context, site) ==
    With(Entry(key \o AggregateCells(Arg(t), arguments),
               IF Op(t) = "groupfold" THEN Ind(OnlyIf(earlier, Positive(count))) ELSE Lit(1),
               Max({0} \cup {es[m[2]].cand : m \in ToSet(members)})),
         GroupNotes(t, site, context, earlier, count)
         \cup ArgumentNotes(Arg(t), arguments, site, context))

GroupOfMembers(t, key, members, earlier, es, applied, context, site) ==
    GroupRow(t, key, members, earlier, Total([i \in DOMAIN members |-> members[i][1]]),
             Strict([i \in DOMAIN Arg(t) |-> ArgumentsOf(Arg(t)[i], members, applied)]),
             es, context, site)

BeforeKeys(reps, p) ==
    SelectSeq(SubSeq(reps, 1, p - 1), LAMBDA k : OpenCells(k) \/ OpenCells(reps[p]))
EqualsKey(before, key) == Disj([q \in DOMAIN before |-> SameRow(before[q], key)])

GroupsOf(t, reps, keys, es, applied, context, site) ==
    Strict([p \in DOMAIN reps |->
        GroupOfMembers(t, reps[p], MembersOf(es, keys, reps[p]),
                       EqualsKey(BeforeKeys(reps, p), reps[p]), es, applied, context, site)])

BagOfGroups(groups, source, applied) ==
    With(Bag(Results(groups)), source.n \cup NotesOf(groups)
                               \cup UNION {NotesOf(applied[k]) : k \in DOMAIN applied})

GroupedBy(t, keys, source, applied, context, site) ==
    BagOfGroups(GroupsOf(t, IF Op(t) = "groupfold" THEN Distinct(keys) ELSE <<<< >>>>, keys,
                         source.r.entries, applied, context, site), source, applied)

GroupApplied(t, source, applied, context, site) ==
    GroupedBy(t, Strict([e \in DOMAIN source.r.entries |->
                     IF Op(t) = "groupfold" THEN applied[2][e].r ELSE << >>]),
              source, applied, context, site)

(* The lambdas of a fold that are evaluated: the key's, and what calls use. *)
UsedLambdas(t) == (UNION {{c[3], c[4]} : c \in ToSet(Arg(t))} \ {0})
                  \cup IF Op(t) = "groupfold" THEN {2} ELSE {}

GroupOf(t, env, context, site, source) ==
    GroupApplied(t, source, NoRows @@ [k \in UsedLambdas(t) |->
                     MappedBy(t, k, source.r.entries, env, context, site)], context, site)

Relational == {"base", "relvar", "letrel", "baglam", "groupfold", "globalfold", "forget", "orderby",
               "seqmap"} \cup Windowing

(* An operator on one source, or on the last of its children.               *)
OperatorOf(t, env, context, site, source) ==
    CASE Op(t) = "letrel"     -> LetOf(t, env, context, site, source)
      [] Op(t) = "forget"     -> With(Bag(source.r.entries), source.n)
      [] Op(t) = "orderby"    -> OrderOf(t, env, context, site, source)
      [] Op(t) = "seqmap"     -> SeqMapOf(t, env, context, site, source)
      [] Op(t) \in Windowing  -> WindowOf(t, source)
      [] OTHER                -> GroupOf(t, env, context, site, source)

SourceAt(t) == IF Op(t) \in Windowing THEN Len(Kids(t)) ELSE 1

RelationOf(t, env, context, site) ==
    CASE Op(t) = "base"    -> Done(BaseRows(Arg(t)))
      [] Op(t) = "relvar"  -> Done(env.rels[Arg(t)[1] + 1])
      [] Op(t) = "baglam"  -> BagLamOf(t, env, context, site)
      [] OTHER             -> OperatorOf(t, env, context, site,
                                  Evaluate(Kid(t, SourceAt(t)), env, context, At(site, SourceAt(t))))

(* A relation that depends on no outer row is reached whatever reaches it.  *)
Evaluate(t, env, context, site) ==
    CASE Op(t) \in {"row", "rowvar"} -> RowOf(t, env, context, site)
      [] Op(t) \in Multiplicities    -> Bindings(t, env, context, site)
      [] Op(t) \in Relational        ->
           RelationOf(t, env, IF FreeRows(t) = {} THEN Lit(1) ELSE context, site)
      [] OTHER -> ScalarOf(t, env, context, site)

-----------------------------------------------------------------------------
(* The result of a query, with the outcomes of its last projection.         *)
ResultItems(es, c) ==
    Strict([i \in DOMAIN es |-> <<es[i].weight, IF c = 0 THEN es[i].row ELSE <<es[i].row[c]>>>>])

ResultNotes(es, columns) ==
    UNION {OccurrenceNotes(IF c = 0 THEN <<0>> ELSE <<0, -c>>, Lit(1), ResultItems(es, c),
                           IF c = 0 THEN {"duplicate"} ELSE {"null", "duplicate", "distinct"}) : c \in columns}
    \cup IF \E e \in ToSet(es) : Present(e.weight) /\ \E c \in DOMAIN e.row : Eval(e.row[c]) = Failure
         THEN Raise("raise") ELSE {}

Observed(relation, width) ==
    IF Raises(relation.n) THEN relation
    ELSE WithNotes(relation, ResultNotes(relation.r.entries, 0..width))

Run(root) == Observed(Evaluate(root, TopEnv, Lit(1), <<0>>), Len(SchemaOf(root)))
=============================================================================
