------------------------------ MODULE ParentsFirst ------------------------------
(***************************************************************************)
(* _parents_first of parseval/db_manager.py: the rows of a table that      *)
(* references itself, ordered round by round. pending, ready and order     *)
(* hold the places of rows in the table, so that equal rows can be told    *)
(* apart; the code removes a row from pending by its value. A table        *)
(* without links is returned as it is, the order of its only round.        *)
(***************************************************************************)
EXTENDS Naturals, Sequences, SequencesExt

CONSTANTS
  Rows,
  Tables,      \* the sequences of rows there are to order
  Links,       \* self-referencing foreign keys
  TargetOf,    \* [Links -> the columns a link references]
  Ref(_, _),   \* row, link: the key it references, Null if a column is NULL
  Key(_, _),   \* row, columns: the row's own key there
  Null

ASSUME TablesAssumption == Tables \subseteq Seq(Rows)
ASSUME LinksAssumption == Links # {}

VARIABLES
  table,
  pending,
  ready,     \* what is left of the round
  placed,    \* <<columns, key>> of the rows placed so far
  order,
  outcome

vars == <<table, pending, ready, placed, order, outcome>>

Init ==
  /\ table \in Tables
  /\ pending = [i \in 1 .. Len(table) |-> i]
  /\ ready = <<>>
  /\ placed = {}
  /\ order = <<>>
  /\ outcome = "working"

Working == outcome = "working"

(* One link of a row: NULL, the row itself, or a row placed before. *)
Resolved(row, link) ==
  \/ Ref(row, link) = Null
  \/ Ref(row, link) = Key(row, TargetOf[link])
  \/ <<TargetOf[link], Ref(row, link)>> \in placed

(* The bug of one link that is enough. *)
ReadyByOne(i) == \E link \in Links : Resolved(table[i], link)

Ready(i) == \A link \in Links : Resolved(table[i], link)

(* The head of the loop: the pending rows that are ready, in their order. *)
Round ==
  /\ Working /\ ready = <<>> /\ pending # <<>>
  /\ \E n \in 0 .. Len(pending) : \E at \in [1 .. n -> 1 .. Len(pending)] :
       /\ \A i, j \in 1 .. n : i < j => at[i] < at[j]
       /\ ToSet(at) = {k \in 1 .. Len(pending) : Ready(pending[k])}
       /\ ready' = [i \in 1 .. n |-> pending[at[i]]]
  /\ outcome' = IF ready' = <<>> THEN "refused" ELSE outcome
  /\ UNCHANGED <<table, pending, placed, order>>

(* The bug of removing every equal row. *)
WithoutEqual(places, row) ==
  LET Other(i) == table[i] # row IN SelectSeq(places, Other)

(* list.remove: the first place that holds an equal row. *)
Without(places, row) ==
  RemoveAt(places, CHOOSE k \in 1 .. Len(places) :
    table[places[k]] = row /\ \A j \in 1 .. k - 1 : table[places[j]] # row)

(* The bug of ordering the keys of rows instead of the rows. *)
PlaceKey ==
  /\ Working /\ ready # <<>>
  /\ LET row == table[Head(ready)] IN
       /\ pending' = Without(pending, row)
       /\ placed' = placed \cup {<<TargetOf[link], Key(row, TargetOf[link])>> : link \in Links}
  /\ \E link \in Links : order' = Append(order, Key(table[Head(ready)], TargetOf[link]))
  /\ ready' = Tail(ready)
  /\ UNCHANGED <<table, outcome>>

Place ==
  /\ Working /\ ready # <<>>
  /\ LET row == table[Head(ready)] IN
       /\ pending' = Without(pending, row)
       /\ placed' = placed \cup {<<TargetOf[link], Key(row, TargetOf[link])>> : link \in Links}
  /\ order' = Append(order, Head(ready))
  /\ ready' = Tail(ready)
  /\ UNCHANGED <<table, outcome>>

(* The bug of one round only. *)
ReturnAtOnce ==
  /\ Working /\ ready = <<>> /\ order # <<>>
  /\ outcome' = "ordered"
  /\ UNCHANGED <<table, pending, ready, placed, order>>

Return ==
  /\ Working /\ ready = <<>> /\ pending = <<>>
  /\ outcome' = "ordered"
  /\ UNCHANGED <<table, pending, ready, placed, order>>

Terminated == ~Working /\ UNCHANGED vars

Next == Round \/ Place \/ Return \/ Terminated

Spec == Init /\ [][Next]_vars

(* One thread runs it. *)
FairSpec == Spec /\ WF_vars(Next)

---------------------------------------------------------------------------------
(* Properties.                                                              *)

TypeOK ==
  /\ table \in Seq(Rows)
  /\ pending \in Seq(1 .. Len(table))
  /\ ready \in Seq(1 .. Len(table))
  /\ order \in Seq(1 .. Len(table))
  /\ outcome \in {"working", "ordered", "refused"}

(* Every row is in order or pending, never in both and never twice, the     *)
(* round's rows are pending, and placed holds the keys of the rows ordered: *)
(* removing rows by value loses and repeats none, however many are equal.   *)
RowsKept ==
  /\ ToSet(order) \cup ToSet(pending) = 1 .. Len(table)
  /\ ToSet(order) \cap ToSet(pending) = {}
  /\ IsInjective(order) /\ IsInjective(pending) /\ IsInjective(ready)
  /\ ToSet(ready) \subseteq ToSet(pending)
  /\ placed = {<<TargetOf[link], Key(table[i], TargetOf[link])>> : link \in Links, i \in ToSet(order)}

(* "Rows of a self-referencing table ordered so a referenced row comes      *)
(* first": every occurrence of a row is placed once, each after a row it    *)
(* references, and ordering is refused only if rows really wait for each    *)
(* other, or for a row that is not there.                                   *)
After(rows, before, i) ==
  \A link \in Links :
    \/ Ref(rows[i], link) = Null
    \/ \E j \in before \cup {i} : Key(rows[j], TargetOf[link]) = Ref(rows[i], link)
Places(rows) == 1 .. Len(rows)

Order == INSTANCE ReferencesFirst WITH
  Inputs <- Tables, Items <- Places, Fits <- After, input <- table
OrdersReferencesFirst == Order!Spec

(* Rows that wait for each other are refused, any others ordered.           *)
EndsRight == <>(outcome = IF Order!Stuck THEN "refused" ELSE "ordered")

=================================================================================
