------------------------------ MODULE Machine ------------------------------
(* Execution of a U-expression over stored and candidate rows at once       *)
(* (instance/machine.py, instance/relations.py, instance/ordering.py).      *)
(*                                                                          *)
(* Every operator gives what it computes and the notes it leaves, [r, n].   *)
(* A note is a decision reached at a site: its outcome, whether the stored  *)
(* rows reach it, and the condition on the open inputs under which it is    *)
(* reached.  An exception is the note "raise" (a SQL error) or the note     *)
(* "unsupported"; the observer of the code wants every witness.  The caches *)
(* of the code are left out, they only spare work.                          *)
EXTENDS Valuation

CONSTANTS Unbound,   \* what a row variable holds before it is enumerated
          Budget     \* the candidate rows that one binding may depend on

Done(r)        == [r |-> r, n |-> {}]
With(r, n)     == [r |-> r, n |-> n]
Results(rs)    == Strict([i \in DOMAIN rs |-> rs[i].r])
NotesOf(rs)    == UNION {rs[i].n : i \in DOMAIN rs}
Flattened(rs)  == With(FlattenSeq(Results(rs)), NotesOf(rs))
Flat(given)    == Flattened(Strict(given))

NumberOf(v) == IF v = Failure THEN 0 ELSE v
Number(w)   == NumberOf(Eval(w))
Present(w)  == Number(w) > 0

NoteOf(site, outcome, covered, condition) ==
    [site |-> site, outcome |-> outcome, covered |-> covered, condition |-> condition]
(* Mutant: the condition forgets how the decision is reached.               *)
NotedAnywhere(site, outcome, context, covered, condition) ==
    {NoteOf(site, outcome, covered, condition)}
Noted(site, outcome, context, covered, condition) ==
    {NoteOf(site, outcome, covered, Conj(<<Positive(context), condition>>))}
Raise(why) == {NoteOf(<< >>, why, TRUE, True3)}
Raises(n)  == \E x \in n : x.outcome \in {"raise", "unsupported"}

OpenCells(cells) == \E i \in DOMAIN cells : IsOpen(cells[i])

-----------------------------------------------------------------------------
(* Environments, bindings and relations.                                    *)
NoRows  == [d \in {} |-> << >>]
Binding(rows, weight, presence, cand) ==
    [rows |-> rows, weight |-> weight, presence |-> presence, cand |-> cand]
Plain(weight) == Binding(NoRows, weight, Lit(1), 0)
Entry(row, weight, cand) == [row |-> row, weight |-> weight, cand |-> cand]
Bag(entries) == [entries |-> entries, ordered |-> FALSE]
Ordering(entries, keys, specs) ==
    [entries |-> entries, ordered |-> TRUE, keys |-> keys, specs |-> specs]

TopEnv == [rows |-> << >>, rels |-> << >>, cand |-> 0]
Push(env, row)    == [env EXCEPT !.rows = <<row>> \o @]
PushRel(env, rel) == [env EXCEPT !.rels = <<rel>> \o @]
Bind(env, rows, cand) ==
    [env EXCEPT !.rows = [i \in DOMAIN @ |-> IF i - 1 \in DOMAIN rows THEN rows[i - 1] ELSE @[i]],
                !.cand = @ + cand]
RowAt(env, depth) == env.rows[depth + 1]
FreeIn(env)       == {i - 1 : i \in {j \in DOMAIN env.rows : env.rows[j] = Unbound}}
Admits(env, entry) == env.cand + entry.cand <= Budget

-----------------------------------------------------------------------------
(* In which order the factors of a product bind their rows.                 *)
VarDepth(t) == IF Op(t) = "rowvar" THEN Arg(t)[1] ELSE -1

(* The rows a row identity can define, with their definitions.              *)
IdentitySides(p) ==
    IF Op(p) # "rowid" THEN << >>
    ELSE SelectSeq(<<<<VarDepth(Kid(p, 1)), Kid(p, 2)>>, <<VarDepth(Kid(p, 2)), Kid(p, 1)>>>>,
                   LAMBDA s : s[1] >= 0 /\ s[1] \notin FreeRows(s[2]))

(* The equality of a column of a row with something known before that row:  *)
(* <<column, the other side, its position>>, or nothing.                    *)
EquiJoin(factor, variable, unbound) ==
    IF Op(factor) # "ind" \/ Op(Kid(factor, 1)) # "eq3" THEN << >>
    ELSE LET sides == Kids(Kid(factor, 1))
             Fits(i) == /\ Op(sides[i]) = "field" /\ VarDepth(Kid(sides[i], 1)) = variable
                        /\ FreeRows(sides[3 - i]) \cap (unbound \cup {variable}) = {}
         IN  IF Fits(1) THEN <<Arg(sides[1]), sides[2], 2>>
             ELSE IF Fits(2) THEN <<Arg(sides[2]), sides[1], 1>> ELSE << >>

AtVariable(t) == IF Op(t) = "at" THEN VarDepth(Kid(t, 2)) ELSE -1

RECURSIVE CanBind(_, _), Schedule(_, _, _, _)
CanBind(t, unbound) ==
    \/ unbound = {}
    \/ CASE Op(t) = "at"  -> unbound = {AtVariable(t)} /\ FreeRows(Kid(t, 1)) \cap unbound = {}
         [] Op(t) = "ind" -> \E s \in ToSet(IdentitySides(Kid(t, 1))) :
                                 unbound = {s[1]} /\ FreeRows(s[2]) \cap unbound = {}
         [] Op(t) = "mul" -> Schedule(Kids(t), unbound, {}, << >>) # << >>
         [] Op(t) = "add" -> \A i \in DOMAIN Kids(t) : CanBind(Kid(t, i), unbound)
         [] Op(t) = "sum" -> CanBind(SumBody(t), {0} \cup {d + 1 : d \in unbound})
         [] Op(t) = "squash" -> CanBind(Kid(t, 1), unbound)
         [] OTHER -> FALSE

(* Factors with all their rows bound come first; then one that can bind its *)
(* rows, of these one that an equality links to bound rows.                 *)
Schedule(factors, unbound, bound, plan) ==
    LET pending == DOMAIN factors \ ToSet(plan)
        needs(i) == (FreeRows(factors[i]) \cap unbound) \ bound
        ready   == {i \in pending : needs(i) = {}}
        binders == {i \in pending : CanBind(factors[i], needs(i))}
        linked  == {i \in binders : /\ AtVariable(factors[i]) >= 0
                                    /\ \E j \in pending \ {i} :
                                          EquiJoin(factors[j], AtVariable(factors[i]),
                                                   (unbound \ bound) \ {AtVariable(factors[i])}) # << >>}
        next    == Min(IF ready # {} THEN ready ELSE IF linked # {} THEN linked ELSE binders)
    IN  IF pending = {} THEN plan
        ELSE IF ready = {} /\ binders = {} THEN << >>
        ELSE Schedule(factors, unbound, bound \cup needs(next), Append(plan, next))

(* The later equality that each enumerated relation can be looked up by.    *)
Probe(factors, plan, free, p) ==
    LET variable == AtVariable(factors[plan[p]])
        unbound  == free \ UNION {FreeRows(factors[plan[q]]) : q \in 1 .. p - 1}
        later    == {q \in p + 1 .. Len(plan) :
                        EquiJoin(factors[plan[q]], variable, unbound \ {variable}) # << >>}
    IN  IF variable \notin unbound \/ later = {} THEN << >>
        ELSE <<plan[Min(later)]>> \o EquiJoin(factors[plan[Min(later)]], variable, unbound \ {variable})

(* The probed equality goes right behind the relation it probes.            *)
RECURSIVE MoveProbes(_, _, _)
MoveProbes(plan, probes, p) ==
    IF p = 0 THEN plan
    ELSE IF probes[p] = << >> THEN MoveProbes(plan, probes, p - 1)
    ELSE LET rest == SelectSeq(plan, LAMBDA i : i # probes[p][1])
         IN  MoveProbes(SubSeq(rest, 1, p) \o <<probes[p][1]>> \o SubSeq(rest, p + 1, Len(rest)),
                        probes, p - 1)

Plan(factors, free) ==
    LET unbound == UNION {FreeRows(factors[i]) : i \in DOMAIN factors} \cap free
        plan    == Schedule(factors, unbound, {}, << >>)
    IN  MoveProbes(plan, [p \in DOMAIN plan |-> Probe(factors, plan, free, p)], Len(plan))

-----------------------------------------------------------------------------
RECURSIVE MayBeUnknown(_), IsRelational(_)
(* Whether a predicate of a query can be UNKNOWN.                           *)
MayBeUnknown(t) ==
    CASE Op(t) \in {"and3", "or3", "not3"} -> \E i \in DOMAIN Kids(t) : MayBeUnknown(Kid(t, i))
      [] Op(t) \in {"insubquery", "unknown3"} -> TRUE
      [] Op(t) \in {"isnull", "isnotnull", "isnotdistinct", "rowid", "true3", "false3"} -> FALSE
      [] OTHER -> \E i \in DOMAIN Kids(t) : SortOf(Kid(t, i)) = Scalar(TRUE)

IsRelational(t) == Op(t) \in {"scalarize", "insubquery"}
                   \/ \E i \in DOMAIN Kids(t) : IsRelational(Kid(t, i))

OutcomeNotes(t, site, context, p, v, reached) ==
    Noted(site, "true", context, reached /\ v = TRUE, IsTrue(p))
    \cup Noted(site, "false", context, reached /\ v = FALSE, IsFalse(p))
    \cup IF MayBeUnknown(t) THEN Noted(site, "unknown", context, reached /\ v = Null, IsUnknown(p))
         ELSE {}

PredicateNotes(t, site, context, p) ==
    OutcomeNotes(t, site, context, p, Eval(p), Present(context))

(* Outcomes of a column or of whole rows: a NULL, two equal values, two     *)
(* different ones.  The items are <<weight, cells>>; `valid` are those that *)
(* raise nothing, `full` the stored ones without a NULL.                    *)
CellValues(items) ==
    Strict([i \in DOMAIN items |-> Strict([j \in DOMAIN items[i][2] |-> Eval(items[i][2][j])])])

Stable(item) == IsConstant(item[1]) /\ ~OpenCells(item[2])

Occurring(items, context, value, valid, present) ==
    [items |-> items, context |-> context, value |-> value, valid |-> valid,
     symbolic |-> {i \in valid : ~Stable(items[i])},
     full     |-> {i \in present : Null \notin ToSet(value[i])},
     nulls    |-> {i \in present : Null \in ToSet(value[i])}]

ValidAmong(items, context, value, valid) ==
    Occurring(items, context, value, valid,
              {i \in valid : Present(context) /\ Present(items[i][1])})

OccurrencesOf(items, context, value) ==
    ValidAmong(items, context, value, {i \in DOMAIN items : Failure \notin ToSet(value[i])})

(* The outcomes of the stored rows, and the conditions of the others.       *)
StoredOutcomes(o) ==
    (IF o.nulls # {} THEN {"null"} ELSE {})
    \cup (IF \E i \in o.full : \/ Number(o.items[i][1]) > 1
                              \/ \E k \in o.full \ {i} : o.value[i] = o.value[k]
          THEN {"duplicate"} ELSE {})
    \cup (IF \E i, k \in o.full : o.value[i] # o.value[k] THEN {"distinct"} ELSE {})

Complete(cells) == Conj([j \in DOMAIN cells |-> Not(IsNullOf(cells[j]))])
There(o, i)     == Mul(o.context, o.items[i][1])

NullAt(o, i) ==
    Conj(<<Positive(There(o, i)),
           Disj([j \in DOMAIN o.items[i][2] |-> IsNullOf(o.items[i][2][j])])>>)

Repeated(o, i) ==
    Conj(<<Positive(There(o, i)), AtLeast(o.items[i][1], 2), Complete(o.items[i][2])>>)

PairOf(o, i, k, equal, outcome) ==
    Conj(<<Positive(Mul(There(o, i), o.items[k][1])),
           Complete(o.items[i][2] \o o.items[k][2]),
           IF outcome = "duplicate" THEN equal ELSE Not(equal)>>)

Witnesses(o, outcome) ==
    IF outcome = "null" THEN {NullAt(o, i) : i \in o.symbolic}
    ELSE (IF outcome = "duplicate" THEN {Repeated(o, i) : i \in o.symbolic} ELSE {})
         \cup UNION {{PairOf(o, i, k, SameRow(o.items[i][2], o.items[k][2]), outcome) :
                         k \in o.valid \ {i}} : i \in o.symbolic}

NotesAmong(o, site, outcomes) ==
    {NoteOf(site, x, TRUE, True3) : x \in outcomes \cap StoredOutcomes(o)}
    \cup UNION {{NoteOf(site, x, FALSE, c) : c \in Witnesses(o, x)} : x \in outcomes}

OccurrenceNotes(site, context, items, outcomes) ==
    NotesAmong(OccurrencesOf(items, context, CellValues(items)), site, outcomes)

-----------------------------------------------------------------------------
(* Orderings.  A key specification is <<descending, nulls first>>.          *)
Precedes(a, b, spec) ==
    IF a = Null \/ b = Null THEN a # b /\ (a = Null) = spec[2]
    ELSE IF spec[1] THEN a > b ELSE a < b

KeyBefore(a, b, specs) ==
    \E i \in DOMAIN specs : /\ Precedes(a[i], b[i], specs[i])
                            /\ \A j \in 1 .. i - 1 : a[j] = b[j]

(* The positions of the keys in their order, equal keys as they stand.      *)
SortedBy(keys, specs) ==
    LET Before(i, j) == \/ KeyBefore(keys[i], keys[j], specs)
                        \/ ~KeyBefore(keys[j], keys[i], specs) /\ i < j
        place == Strict([i \in DOMAIN keys |->
                     1 + Cardinality({j \in DOMAIN keys \ {i} : Before(j, i)})])
    IN  Strict([p \in DOMAIN keys |-> CHOOSE i \in DOMAIN keys : place[i] = p])

KeyValues(key) == Strict([i \in DOMAIN key |-> Eval(key[i])])
FailingKey(key) == Failure \in ToSet(KeyValues(key))

Movers == Cardinality({n \in open : IsWeight(n)})

(* Entries with a stored key, or there in the stored data, are ranked once. *)
RankedIn(s, e) == ~FailingKey(s.keys[e]) /\ (~OpenCells(s.keys[e]) \/ Present(s.entries[e].weight))

Permuted(listed, place) == Strict([i \in DOMAIN place |-> listed[place[i]]])
InOrder(listed, s) ==
    Permuted(listed, SortedBy(Strict([i \in DOMAIN listed |-> KeyValues(s.keys[listed[i]])]), s.specs))

Positions(s)     == [e \in DOMAIN s.entries |-> e]
RankedEntries(s) == InOrder(SelectSeq(Positions(s), LAMBDA e : RankedIn(s, e)), s)

(* The entries that are not ranked: their keys, with all they weigh.        *)
Weighed(s, members) == Total([i \in DOMAIN members |-> s.entries[members[i]].weight])
HeapsOf(s, others, keys) ==
    Strict([g \in DOMAIN keys |->
        <<keys[g], Weighed(s, SelectSeq(others, LAMBDA e : s.keys[e] = keys[g]))>>])
Heaps(s, others) == HeapsOf(s, others, Ordered({s.keys[e] : e \in ToSet(others)}))

(* A window on the ordering s: the ranked entries, their counts, the heaps. *)
Window(s, lo, hi, order) ==
    [s |-> s, lo |-> lo, hi |-> hi, order |-> order,
     counts |-> Strict([p \in DOMAIN order |-> Number(s.entries[order[p]].weight)]),
     heaps  |-> Heaps(s, SelectSeq(Positions(s), LAMBDA e : e \notin ToSet(order)))]

Rank(w, p) == FoldLeft(+, 0, SubSeq(w.counts, 1, p - 1))
Near(w, rank) == \E edge \in {w.lo, w.hi} \ {NoEdge} : edge - Movers <= rank /\ rank < edge + Movers

(* How much of the heaps comes before the key.                              *)
HeapsBefore(w, heaps, key) ==
    [g \in DOMAIN heaps |-> Mul(heaps[g][2], Ind(BeforeTerm(heaps[g][1], key, w.s.specs, FALSE)))]

(* The position of a ranked entry: its rank, symbolic near an edge.         *)
RankedPosition(w, p) ==
    IF Near(w, Rank(w, p))
    THEN Total([q \in 1 .. p - 1 |-> w.s.entries[w.order[q]].weight]
               \o HeapsBefore(w, w.heaps, w.s.keys[w.order[p]]))
    ELSE Lit(Rank(w, p))

(* The position of an entry behind everything ranked.                       *)
LastPosition(w, e, key) ==
    Total(<<Lit(Rank(w, Len(w.order) + 1))>>
          \o HeapsBefore(w, SelectSeq(w.heaps, LAMBDA h : h[1] # key), key)
          \o <<Weighed(w.s, SelectSeq(Positions(w.s), LAMBDA f : /\ f < e /\ w.s.keys[f] = key
                                                               /\ f \notin ToSet(w.order)))>>)

(* The key of the ranked entry at an edge, as a sequence of at most one.    *)
Spans(w, p, edge) == Rank(w, p) < edge /\ edge <= Rank(w, p) + w.counts[p]
AtEdge(w, edge)   == SelectSeq(Strict([p \in DOMAIN w.order |-> p]), LAMBDA p : Spans(w, p, edge))
EdgeTerm(w, edge, Term(_)) ==
    [i \in DOMAIN AtEdge(w, edge) |-> Term(w.s.keys[w.order[AtEdge(w, edge)[i]]])]

(* An entry that is not ranked is in by comparison with the rows at edges.  *)
BetweenEdges(w, key) ==
    Conj(EdgeTerm(w, w.lo, LAMBDA edge : BeforeTerm(edge, key, w.s.specs, TRUE))
         \o EdgeTerm(w, w.hi, LAMBDA edge : BeforeTerm(key, edge, w.s.specs, FALSE)))

WindowWeight(w, e) ==
    LET weight == w.s.entries[e].weight
    IN  IF e \in ToSet(w.order)
        THEN Inside(weight, RankedPosition(w, CHOOSE p \in DOMAIN w.order : w.order[p] = e), w.lo, w.hi)
        ELSE IF w.lo > 0 /\ AtEdge(w, w.lo) = << >>
             THEN Inside(weight, LastPosition(w, e, w.s.keys[e]), w.lo, w.hi)
             ELSE Mul(weight, Ind(BetweenEdges(w, w.s.keys[e])))

Windowed(w) ==
    With(Ordering(Strict([e \in DOMAIN w.s.entries |->
                      [w.s.entries[e] EXCEPT !.weight = WindowWeight(w, e)]]), w.s.keys, w.s.specs),
         IF \E p \in DOMAIN w.order : Eval(w.s.entries[w.order[p]].weight) = Failure
         THEN Raise("raise") ELSE {})

(* The occurrences at positions lo to hi - 1.                               *)
Limit(s, lo, hi) == Windowed(Window(s, lo, hi, RankedEntries(s)))
=============================================================================
