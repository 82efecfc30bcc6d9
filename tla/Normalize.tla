----------------------------- MODULE Normalize -----------------------------
(* Simplification of U-expressions, the factorized normal form, and the     *)
(* normal form of ordered observations (uexpr/normalize.py, uexpr/order.py). *)
EXTENDS Lowering

(* The row that a row of all its fields, in order, rebuilds; itself if none. *)
IdentityProjection(t) ==
    IF /\ Op(t) = "row" /\ Kids(t) # << >>
       /\ \A i \in DOMAIN Kids(t) : Op(Kid(t, i)) = "field" /\ Arg(Kid(t, i)) = i
                                    /\ Kid(Kid(t, i), 1) = Kid(Kid(t, 1), 1)
       /\ SortOf(Kid(Kid(t, 1), 1)) = RowSort(Arg(t))
    THEN Kid(Kid(t, 1), 1) ELSE t

SumBody(t)   == Kid(Kid(t, 1), 1)
SumSchema(t) == Arg(Kid(t, 1))
SumOf(schema, body) == Node("sum", "", <<Node("rowlam", schema, <<body>>)>>)

(* Mutant: the factors are not shifted past the binder they come under.     *)
HoistUnshifted(t) ==
    LET sums == {i \in DOMAIN Kids(t) : Op(Kid(t, i)) = "sum"}
    IN  IF Op(t) # "mul" \/ sums = {} THEN t
        ELSE LET p == Min(sums)
             IN  SumOf(SumSchema(Kid(t, p)),
                       InternAC("mul", RemoveAt(Kids(t), p) \o <<SumBody(Kid(t, p))>>))

(* X * sum t. Y is sum t. X' * Y, X' shifted past the new binder.           *)
Hoist(t) ==
    LET sums == {i \in DOMAIN Kids(t) : Op(Kid(t, i)) = "sum"}
    IN  IF Op(t) # "mul" \/ sums = {} THEN t
        ELSE LET p == Min(sums)
                 rest == [i \in 1 .. Len(Kids(t)) - 1 |->
                            Shift(Kid(t, IF i < p THEN i ELSE i + 1), 1, 0, 0, 0)]
             IN  SumOf(SumSchema(Kid(t, p)), InternAC("mul", rest \o <<SumBody(Kid(t, p))>>))

-----------------------------------------------------------------------------
(* Ordered observations: takes, drops and slices over one ordering, with at *)
(* most one mapper among them, as one window.                               *)
Windowing == {"take", "drop", "slice"}

RECURSIVE Layers(_)
Layers(t) == IF Op(t) \in Windowing \cup {"seqmap"}
             THEN <<t>> \o Layers(IF Op(t) = "seqmap" THEN Kid(t, 1) ELSE Last(Kids(t)))
             ELSE << >>

OrderedCore(t) == LET layers == Layers(t) IN
    IF layers = << >> THEN t
    ELSE IF Op(Last(layers)) = "seqmap" THEN Kid(Last(layers), 1) ELSE Last(Kids(Last(layers)))

NoEnd == -1
Clip(end, n) == IF end = NoEnd THEN n ELSE Min({n, end})

(* A window [start, end) narrowed by one more operation.                    *)
Narrow(w, t) ==
    CASE Op(t) = "drop" -> [w EXCEPT !.start = Clip(w.end, w.start + Arg(Kid(t, 1)))]
      [] Op(t) = "take" -> [w EXCEPT !.end = Clip(w.end, w.start + Arg(Kid(t, 1)))]
      [] Op(t) = "slice" -> LET start == Clip(w.end, w.start + Arg(Kid(t, 1)))
                            IN  [start |-> start, end |-> Clip(w.end, start + Arg(Kid(t, 2)))]

NormalizeOrder(t) ==
    LET layers  == Layers(t)
        core    == OrderedCore(t)
        mappers == SelectSeq(layers, LAMBDA x : Op(x) = "seqmap")
        windows == SelectSeq(layers, LAMBDA x : Op(x) \in Windowing)
        window  == FoldRight(LAMBDA x, w : Narrow(w, x), windows, [start |-> 0, end |-> NoEnd])
        fetch   == Max({window.end - window.start, 0})
        Lit(n)  == Node("lit", n, << >>)
        held    == CASE window.end # NoEnd ->
                          Node("slice", "", <<Lit(window.start), Lit(fetch), core>>)
                     [] window.start > 0 -> Node("drop", "", <<Lit(window.start), core>>)
                     [] OTHER -> core
    IN  IF /\ Op(core) = "orderby" /\ Len(mappers) <= 1
           /\ \A i \in DOMAIN windows : \A j \in 1 .. Len(Kids(windows[i])) - 1 :
                 Op(Kid(windows[i], j)) = "lit"
        THEN IF mappers = << >> THEN held
             ELSE Node("seqmap", "", <<held, Kid(mappers[1], 2)>>)
        ELSE t

-----------------------------------------------------------------------------
(* The rules for one term whose children are simplified, in turn.           *)
SimplifyIdentity(t) ==
    IF Op(t) = "rowid" THEN Rebuild(t, [i \in 1..2 |-> IdentityProjection(Kid(t, i))]) ELSE t

SimplifyMapper(t) ==
    IF /\ Op(t) = "seqmap" /\ Op(Kid(Kid(t, 2), 1)) = "row"
       /\ Op(IdentityProjection(Kid(Kid(t, 2), 1))) = "rowvar"
    THEN Kid(t, 1) ELSE t

SimplifyOrder(t) == IF Op(t) \in Windowing \cup {"seqmap", "orderby"} THEN NormalizeOrder(t) ELSE t

BetaReduce(t) == IF Op(t) = "at" /\ Op(Kid(t, 1)) = "baglam"
                 THEN Substitute(Kid(Kid(Kid(t, 1), 1), 1), Kid(t, 2), 0, 0) ELSE t

SimplifyTerm(t, kids) ==
    BetaReduce(SimplifyOrder(SimplifyMapper(SimplifyIdentity(Rebuild(t, kids)))))

(* Squashes of a product become one squash, complements one complement.     *)
Gather(t, op, inside) ==
    LET of   == SelectSeq(Kids(t), LAMBDA x : Op(x) = op)
        rest == SelectSeq(Kids(t), LAMBDA x : Op(x) # op)
    IN  InternAC("mul", rest \o
            <<Node(op, "", <<InternAC(inside, [i \in DOMAIN of |-> Kid(of[i], 1)])>>)>>)

HasTwo(t, op) == Cardinality({i \in DOMAIN Kids(t) : Op(Kid(t, i)) = op}) > 1

(* Sums are nested in one order of their schemas, whatever the query's.     *)
SchemaBefore(a, b) == a # b /\ a = CHOOSE s \in {a, b} : TRUE

NormalizeSpnf(t) ==
    CASE Op(t) = "mul" ->
           IF HasTwo(t, "squash") THEN Gather(t, "squash", "mul")
           ELSE IF HasTwo(t, "unot") THEN Gather(t, "unot", "add") ELSE Hoist(t)
      [] Op(t) = "sum" /\ Op(SumBody(t)) = "add" ->
           InternAC("add", [i \in DOMAIN Kids(SumBody(t)) |->
                               SumOf(SumSchema(t), Kid(SumBody(t), i))])
      [] Op(t) = "sum" /\ Op(SumBody(t)) = "sum" /\ SchemaBefore(SumSchema(t), SumSchema(SumBody(t))) ->
           SumOf(SumSchema(SumBody(t)),
                 SumOf(SumSchema(t), SwapRows(SumBody(SumBody(t)), 0)))
      [] OTHER -> t

RECURSIVE Visit(_, _), FixedPoint(_, _)
Visit(t, spnf) ==
    LET kids == Strict([i \in DOMAIN Kids(t) |-> Visit(Kid(t, i), spnf)])
        Factored(here) == IF spnf THEN NormalizeSpnf(here) ELSE Hoist(here)
    IN  IF kids = << >> THEN t ELSE Factored(SimplifyTerm(t, kids))

FixedPoint(t, spnf) ==
    LET next == Visit(t, spnf) IN IF next = t THEN t ELSE FixedPoint(next, spnf)

Simplify(t) == FixedPoint(t, FALSE)
ToEspnf(t)  == FixedPoint(Simplify(t), TRUE)
=============================================================================
