----------------------------- MODULE Integrity -----------------------------
(* The integrity constraints of the catalog as predicates over the inputs of *)
(* slots (instance/constraints.py, the limits of instance/domain.py), beside *)
(* what a consistent database is.  NULLs in a key are distinct.              *)
EXTENDS Valuation

CONSTANTS Declared, \* [Relation -> Seq of declarations]: <<"key", columns>>,
                    \* <<"foreign", columns, parent, columns of it>>,
                    \* <<"check", predicate>>, <<"generated", column, expression>>
          Limits    \* [Relation -> Seq(Nat)]: b if a column stores -b <= x < b,
                    \* 0 if it has no limit

ASSUME DeclaredKeys == \A r \in Relation :
                           Keys[r] = {d[2] : d \in {e \in ToSet(Declared[r]) : e[1] = "key"}}

Names(r, s)  == {<<r, s, c>> : c \in 0 .. Len(Schema[r])}
Fixed(r, s) == Names(r, s) \cap open = {}
OpenSlots(r) == {s \in Slots(r) : ~Fixed(r, s)}

(* The key of a stored row, and how many stored rows have it.               *)
KeyOf(r, s, columns) == [i \in DOMAIN columns |-> values[<<r, s, columns[i]>>]]
StoredCount(r, columns, key) == Cardinality({s \in Stored(r) : KeyOf(r, s, columns) = key})

-----------------------------------------------------------------------------
(* Terms before they are folded.                                            *)
Pred(op, kids)        == Node(op, "", kids)
Never(p)              == Pred("not3", <<p>>)
Cell(r, s, c)         == Input(<<r, s, c>>)
Cells(r, s, columns)  == [i \in DOMAIN columns |-> Cell(r, s, columns[i])]
Presence(r, s)        == Pred("positive", <<Cell(r, s, 0)>>)
NullCells(cells)          == [i \in DOMAIN cells |-> Pred("isnull", <<cells[i]>>)]
NoNulls(cells)        == [i \in DOMAIN cells |-> Never(Pred("isnull", <<cells[i]>>))]
SameCells(cells, other) == [i \in DOMAIN cells |-> Pred("same", <<cells[i], other[i]>>)]

(* A term is made of its children once more, and folded on the way.         *)
RECURSIVE Made(_)
Made(t) == CASE Op(t) = "in"  -> Known(Arg(t))
             [] IsConstant(t) -> t
             [] OTHER -> Make(Op(t), Arg(t), Strict([i \in DOMAIN Kids(t) |-> Made(Kid(t, i))]))

(* A row function of the catalog on the cells of a slot.                    *)
RECURSIVE OnSlot(_, _, _)
OnSlot(t, r, s) == IF Op(t) = "field" THEN Cell(r, s, Arg(t))
                   ELSE Node(Op(t), Arg(t), [i \in DOMAIN Kids(t) |-> OnSlot(Kid(t, i), r, s)])

(* Two rows of a key differ.  Stored keys are compared by value; a candidate *)
(* avoids those of a single column by its domain.                           *)
ByDomain(r, s, columns) == Len(columns) = 1 /\ <<r, s, columns[1]>> \in open
OnlyStored(r, s, columns) == (IF ByDomain(r, s, columns) THEN {} ELSE Slots(r)) \ {s}   \* mutant
Rivals(r, s, columns)   == (IF Fixed(r, s) \/ ByDomain(r, s, columns) THEN OpenSlots(r) ELSE Slots(r)) \ {s}

Conflict(r, s, other, columns) ==
    Pred("and3", <<Presence(r, s), Presence(r, other)>>
                 \o SameCells(Cells(r, s, columns), Cells(r, other, columns)) \o NoNulls(Cells(r, s, columns)))

StoredTwice(r, s, columns) ==
    /\ Fixed(r, s) /\ Null \notin ToSet(KeyOf(r, s, columns))
    /\ StoredCount(r, columns, KeyOf(r, s, columns)) > 1

Unique(r, s, columns) ==
    IF StoredTwice(r, s, columns) THEN <<False3>>
    ELSE LET others == Ordered(Rivals(r, s, columns))
         IN  [i \in DOMAIN others |-> Never(Conflict(r, s, others[i], columns))]

(* A row with a foreign key has a parent, unless a column of it is NULL.    *)
HasStoredParent(r, s, columns, parent, target) ==
    /\ Fixed(r, s)
    /\ \/ Null \in ToSet(KeyOf(r, s, columns))
       \/ StoredCount(parent, target, KeyOf(r, s, columns)) > 0

References(r, s, columns, parent, target) ==
    LET parents == Ordered(IF Fixed(r, s) THEN OpenSlots(parent) ELSE Slots(parent))
    IN  [i \in DOMAIN parents |->
            Pred("and3", <<Presence(parent, parents[i])>>
                         \o SameCells(Cells(r, s, columns), Cells(parent, parents[i], target)))]

ForeignKey(r, s, columns, parent, target) ==
    IF HasStoredParent(r, s, columns, parent, target) THEN True3
    ELSE Pred("or3", <<Never(Presence(r, s))>> \o NullCells(Cells(r, s, columns))
                     \o References(r, s, columns, parent, target))

NotFalse(p)      == Never(Pred("is", <<p, Truth(FALSE)>>))
IfPresent(r, s, p) == Pred("or3", <<Never(Presence(r, s)), p>>)

Declaration(r, s, d) ==
    CASE d[1] = "key"       -> Unique(r, s, d[2])
      [] d[1] = "foreign"   -> <<ForeignKey(r, s, d[2], d[3], d[4])>>
      [] d[1] = "check"     -> <<IfPresent(r, s, NotFalse(OnSlot(d[2], r, s)))>>
      [] d[1] = "generated" -> <<IfPresent(r, s, Pred("same", <<Cell(r, s, d[2]), OnSlot(d[3], r, s)>>))>>

Declarations(r, s) == FlattenSeq([i \in DOMAIN Declared[r] |-> Declaration(r, s, Declared[r][i])])

(* Limits of the columns: a stored row has its values, of a candidate only  *)
(* the cells that a requirement mentions change.                            *)
InLimit(x, limit) == limit = 0 \/ x = Null \/ (-limit <= x /\ x < limit)
Fits(r, s) == \A c \in DOMAIN Limits[r] : InLimit(values[<<r, s, c>>], Limits[r][c])

Storage(r, s, active) ==
    LET columns == SelectSeq([c \in DOMAIN Limits[r] |-> c],
                             LAMBDA c : Limits[r][c] # 0 /\ <<r, s, c>> \in active)
    IN  [i \in DOMAIN columns |->
            Pred("or3", <<Pred("isnull", <<Cell(r, s, columns[i])>>),
                          Pred("and3", <<Never(Pred("lt3", <<Cell(r, s, columns[i]), Lit(-Limits[r][columns[i]])>>)),
                                         Pred("lt3", <<Cell(r, s, columns[i]), Lit(Limits[r][columns[i]])>>)>>)>>)]

(* A candidate row is stored at most once, unless it may repeat to measure  *)
(* how many rows are needed.                                                *)
WeightRange(r, s, bounded) ==
    <<Never(Pred("lt3", <<Cell(r, s, 0), Lit(0)>>))>>
    \o (IF bounded THEN <<Never(Pred("lt3", <<Lit(1), Cell(r, s, 0)>>))>> ELSE << >>)

OfSlot(r, s, active, bounded) ==
    CASE ~Fixed(r, s)    -> WeightRange(r, s, bounded) \o Storage(r, s, active) \o Declarations(r, s)
      [] Occurs(r, s) = 0 -> << >>
      [] Fits(r, s)       -> Declarations(r, s)
      [] OTHER            -> <<False3>>

Constraints(slots, active, bounded) ==
    LET plain == FlattenSeq([i \in DOMAIN slots |-> OfSlot(slots[i][1], slots[i][2], active, bounded)])
    IN  SelectSeq(Strict([i \in DOMAIN plain |-> Made(plain[i])]), LAMBDA t : t # True3)

-----------------------------------------------------------------------------
(* What the backend accepts: the database of the given values is consistent. *)
RowsIn(v, r)           == {s \in Slots(r) : v[<<r, s, 0>>] > 0}
KeyIn(v, r, s, columns) == [i \in DOMAIN columns |-> v[<<r, s, columns[i]>>]]

Respects(v, r, s, d) ==
    CASE d[1] = "key" -> \/ Null \in ToSet(KeyIn(v, r, s, d[2]))
                         \/ \A other \in RowsIn(v, r) \ {s} : KeyIn(v, r, s, d[2]) # KeyIn(v, r, other, d[2])
      [] d[1] = "foreign" -> \/ Null \in ToSet(KeyIn(v, r, s, d[2]))
                             \/ \E parent \in RowsIn(v, d[3]) : KeyIn(v, r, s, d[2]) = KeyIn(v, d[3], parent, d[4])
      [] d[1] = "check"     -> Trial(OnSlot(d[2], r, s), v) \notin {FALSE, Failure}
      [] d[1] = "generated" -> Trial(OnSlot(d[3], r, s), v) = v[<<r, s, d[2]>>]

Consistent(v) ==
    \A r \in Relation : \A s \in RowsIn(v, r) :
        /\ \A c \in DOMAIN Schema[r] : /\ v[<<r, s, c>>] = Null => Schema[r][c]
                                       /\ InLimit(v[<<r, s, c>>], Limits[r][c])
        /\ \A d \in ToSet(Declared[r]) : Respects(v, r, s, d)
=============================================================================
