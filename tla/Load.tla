---------------------------------- MODULE Load ----------------------------------
(***************************************************************************)
(* Connect.load of parseval/db_manager.py: the rows of an instance are     *)
(* inserted in one transaction, relation by relation. The orders of        *)
(* relations and of a relation's rows are those Topological and            *)
(* ParentsFirst implement: both are ReferencesFirst. The backend checks    *)
(* foreign keys row by row, and may fail at any statement.                 *)
(***************************************************************************)
EXTENDS Naturals, Sequences, SequencesExt

CONSTANTS
  Relations,
  Rows,
  Instances    \* see InstancesAssumption

(* What a row needs: for each foreign key that is not NULL, the relation it *)
(* references and the rows there that have the key.                         *)
ASSUME InstancesAssumption ==
  Instances \subseteq
    [references : [Relations -> SUBSET Relations],
     rows : [Relations -> SUBSET Rows],
     needs : [Rows -> SUBSET [to : Relations, rows : SUBSET Rows]]]
ASSUME NeedsAssumption ==
  \A input \in Instances : \A relation \in Relations : \A row \in input.rows[relation] :
    \A need \in input.needs[row] :
      need.to \in input.references[relation] /\ need.rows \subseteq input.rows[need.to]

VARIABLES
  instance,
  relationOrder, relationOutcome,   \* of _foreign_key_order
  at,                               \* the relation being loaded
  rowOrder, rowOutcome,             \* of _parents_first for it
  next,                             \* the row of rowOrder to insert next
  inserted,                         \* rows of the open transaction
  stored,                           \* rows of the database
  outcome

vars == <<instance, relationOrder, relationOutcome, at, rowOrder, rowOutcome, next,
          inserted, stored, outcome>>

AllRows == UNION {instance.rows[relation] : relation \in Relations}

Init ==
  /\ instance \in Instances
  /\ relationOrder = <<>> /\ relationOutcome = "working"
  /\ at = 1
  /\ rowOrder = <<>> /\ rowOutcome = "working"
  /\ next = 1
  /\ inserted = {} /\ stored = {}
  /\ outcome = "working"

---------------------------------------------------------------------------------
(* The two orders.                                                          *)

(* The bug of taking a table's foreign key to itself for a cycle. *)
AfterItself(input, before, relation) == input.references[relation] \subseteq before

AfterReferenced(input, before, relation) ==
  input.references[relation] \ {relation} \subseteq before
EveryRelation(input) == Relations

RelationsFirst == INSTANCE ReferencesFirst WITH
  Inputs <- Instances, Items <- EveryRelation, Fits <- AfterReferenced,
  input <- instance, order <- relationOrder, outcome <- relationOutcome

(* The relation being loaded. *)
Table == <<instance, relationOrder[at]>>

(* The bug of rows in any order. *)
AfterAny(table, before, row) == TRUE

(* Only the foreign keys of a relation to itself order its rows. *)
AfterParents(table, before, row) ==
  \A need \in table[1].needs[row] :
    need.to = table[2] => need.rows \cap (before \cup {row}) # {}
RowsOf(table) == table[1].rows[table[2]]

RowsFirst == INSTANCE ReferencesFirst WITH
  Inputs <- Instances \X Relations, Items <- RowsOf, Fits <- AfterParents,
  input <- Table, order <- rowOrder, outcome <- rowOutcome

---------------------------------------------------------------------------------
Working == outcome = "working"
Loading == Working /\ relationOutcome = "ordered"

(* The bug of rows that are stored one by one. *)
Leave(reason) ==
  /\ outcome' = reason
  /\ inserted' = {}
  /\ stored' = inserted

(* Leaving the transaction by an exception undoes it. *)
Rollback(reason) ==
  /\ outcome' = reason
  /\ inserted' = {}
  /\ UNCHANGED stored

OrderRelations ==
  /\ Working
  /\ RelationsFirst!Place \/ RelationsFirst!Finish
  /\ UNCHANGED <<at, rowOrder, rowOutcome, next, inserted, stored, outcome>>

RefuseRelations ==
  /\ Working
  /\ RelationsFirst!Refuse
  /\ Rollback("cycle")
  /\ UNCHANGED <<at, rowOrder, rowOutcome, next>>

OrderRows ==
  /\ Loading /\ at <= Len(relationOrder)
  /\ UNCHANGED <<relationOrder, relationOutcome, at, next, inserted, stored, outcome>>
  /\ RowsFirst!Place \/ RowsFirst!Finish

RefuseRows ==
  /\ Loading /\ at <= Len(relationOrder)
  /\ UNCHANGED <<relationOrder, relationOutcome, at, next>>
  /\ RowsFirst!Refuse
  /\ Rollback("cycle")

(* The rows of the relation are in order and not all inserted. *)
Inserting == Loading /\ rowOutcome = "ordered" /\ next <= Len(rowOrder)

Accepted(row) ==
  \A need \in instance.needs[row] : need.rows \cap (inserted \cup {row}) # {}

(* One row of the statement; the backend checks its foreign keys. *)
Insert ==
  /\ Inserting
  /\ IF Accepted(rowOrder[next])
     THEN /\ inserted' = inserted \cup {rowOrder[next]}
          /\ next' = next + 1
          /\ UNCHANGED <<stored, outcome>>
     ELSE Rollback("violation") /\ UNCHANGED next
  /\ UNCHANGED <<instance, relationOrder, relationOutcome, at, rowOrder, rowOutcome>>

(* The bug of skipping a relation. *)
TurnTwice ==
  /\ at' = at + 2
  /\ rowOrder' = <<>> /\ rowOutcome' = "working" /\ next' = 1
  /\ UNCHANGED <<instance, relationOrder, relationOutcome, inserted, stored, outcome>>

Turn ==
  /\ at' = at + 1
  /\ rowOrder' = <<>> /\ rowOutcome' = "working" /\ next' = 1
  /\ UNCHANGED <<instance, relationOrder, relationOutcome, inserted, stored, outcome>>

(* The bug of not waiting for the order of the rows. *)
NextUnordered == Loading /\ next > Len(rowOrder) /\ Turn

NextRelation ==
  /\ Loading /\ rowOutcome = "ordered" /\ next > Len(rowOrder)
  /\ Turn

(* A statement, or the commit, fails for another reason. *)
Fail ==
  /\ Inserting \/ (Loading /\ at > Len(relationOrder))
  /\ Rollback("failed")
  /\ UNCHANGED <<instance, relationOrder, relationOutcome, at, rowOrder, rowOutcome, next>>

Commit ==
  /\ Loading /\ at > Len(relationOrder)
  /\ stored' = inserted
  /\ outcome' = "loaded"
  /\ UNCHANGED <<instance, relationOrder, relationOutcome, at, rowOrder, rowOutcome, next,
                 inserted>>

Terminated == ~Working /\ UNCHANGED vars

Next ==
  \/ OrderRelations \/ RefuseRelations
  \/ OrderRows \/ RefuseRows
  \/ Insert \/ NextRelation \/ Fail \/ Commit
  \/ Terminated

Spec == Init /\ [][Next]_vars

(* One thread runs it, and the backend answers. *)
FairSpec == Spec /\ WF_vars(Next)

---------------------------------------------------------------------------------
(* Properties.                                                              *)

TypeOK ==
  /\ relationOrder \in Seq(Relations) /\ relationOutcome \in {"working", "ordered", "refused"}
  /\ at \in 1 .. Len(relationOrder) + 1
  /\ rowOrder \in Seq(Rows) /\ rowOutcome \in {"working", "ordered", "refused"}
  /\ rowOrder # <<>> \/ rowOutcome # "working" => at <= Len(relationOrder)
  /\ next \in 1 .. Len(rowOrder) + 1
  /\ inserted \in SUBSET Rows /\ stored \in SUBSET Rows
  /\ outcome \in {"working", "loaded", "cycle", "violation", "failed"}

(* How far load is: relations and rows are in an order of references, and    *)
(* the transaction holds the rows of the relations before the current one   *)
(* and of the current one up to next.                                       *)
Before(sequence, k) == {sequence[j] : j \in 1 .. k - 1}

RelationsInOrder ==
  /\ \A k \in 1 .. Len(relationOrder) :
       AfterReferenced(instance, Before(relationOrder, k), relationOrder[k])
  /\ relationOutcome = "ordered" => Before(relationOrder, Len(relationOrder) + 1) = Relations

RowsInOrder ==
  /\ \A k \in 1 .. Len(rowOrder) : AfterParents(Table, Before(rowOrder, k), rowOrder[k])
  /\ rowOutcome = "ordered" => Before(rowOrder, Len(rowOrder) + 1) = RowsOf(Table)

Progress ==
  /\ at > 1 \/ rowOrder # <<>> \/ rowOutcome # "working" => relationOutcome = "ordered"
  /\ outcome \in {"working", "loaded"} =>
       inserted = (UNION {instance.rows[relation] : relation \in Before(relationOrder, at)})
                  \cup Before(rowOrder, next)

LoadInvariant == RelationsInOrder /\ RowsInOrder /\ Progress

(* "in one transaction": whatever fails, the database has every row of the  *)
(* instance or none, and all of them only when load returns.                *)
AllOrNothing == stored = IF outcome = "loaded" THEN AllRows ELSE {}

(* Instances are loaded with foreign-key checks on: tables in foreign-key   *)
(* order, rows parents first, so that the backend, which checks each row as *)
(* it arrives, never refuses one of an instance whose keys all have rows.   *)
Consistent ==
  \A row \in AllRows : \A need \in instance.needs[row] : need.rows \cap AllRows # {}
BackendAccepts == Consistent => outcome # "violation"

(* Load ends, and for the right reason: a cycle is reported exactly if      *)
(* relations, or rows of one, wait for each other; consistent instances     *)
(* without one are loaded unless the connection fails.                      *)
RelationCycle ==
  \E waiting \in (SUBSET Relations) \ {{}} : \A relation \in waiting :
    (instance.references[relation] \ {relation}) \cap waiting # {}
RowCycle ==
  \E relation \in Relations : \E waiting \in (SUBSET instance.rows[relation]) \ {{}} :
    \A row \in waiting : \E need \in instance.needs[row] :
      need.to = relation /\ need.rows \subseteq waiting \ {row}
Reasons ==
  IF RelationCycle \/ (RowCycle /\ Consistent) THEN {"cycle", "failed"}
  ELSE IF Consistent THEN {"loaded", "failed"}
  ELSE {"cycle", "violation", "failed"}
EndsRight == <>(outcome \in Reasons)
=================================================================================
