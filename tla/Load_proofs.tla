------------------------------ MODULE Load_proofs ------------------------------
(***************************************************************************)
(* Load stores all rows or none, and the backend refuses no consistent     *)
(* instance, whatever the catalog, the rows and the orders chosen.         *)
(***************************************************************************)
EXTENDS Load, SequenceTheorems, TLAPS

(* What TLC does not need to look up in the set of all instances. *)
Known == instance \in Instances

Inv == Known /\ TypeOK /\ LoadInvariant

LEMMA Elements ==
  ASSUME NEW S, NEW sequence \in Seq(S)
  PROVE  /\ ToSet(sequence) = Before(sequence, Len(sequence) + 1)
         /\ Len(sequence) \in Nat
         /\ Before(sequence, 1) = {}
BY DEF ToSet, Before

(* What Append does to the elements before each place. *)
LEMMA Appended ==
  ASSUME NEW S, NEW sequence \in Seq(S), NEW item \in S
  PROVE  /\ Append(sequence, item) \in Seq(S)
         /\ Append(sequence, item) # <<>>
         /\ Len(Append(sequence, item)) = Len(sequence) + 1
         /\ \A k \in 1 .. Len(sequence) : Append(sequence, item)[k] = sequence[k]
         /\ Append(sequence, item)[Len(sequence) + 1] = item
         /\ \A k \in 1 .. Len(sequence) + 1 :
              Before(Append(sequence, item), k) = Before(sequence, k)
<1>1. /\ Append(sequence, item) \in Seq(S)
      /\ Append(sequence, item) # <<>>
      /\ Len(Append(sequence, item)) = Len(sequence) + 1
      /\ \A k \in 1 .. Len(sequence) : Append(sequence, item)[k] = sequence[k]
      /\ Append(sequence, item)[Len(sequence) + 1] = item
  BY AppendProperties
<1>2. ASSUME NEW k \in 1 .. Len(sequence) + 1
      PROVE  Before(Append(sequence, item), k) = Before(sequence, k)
  <2>1. \A j \in 1 .. k - 1 : Append(sequence, item)[j] = sequence[j]
    BY <1>1
  <2> QED
    BY <2>1 DEF Before
<1> QED
  BY <1>1, <1>2

LEMMA Extended ==
  ASSUME NEW sequence, NEW k \in Nat \ {0}
  PROVE  Before(sequence, k + 1) = Before(sequence, k) \cup {sequence[k]}
BY DEF Before

LEMMA UnionStep ==
  ASSUME NEW f, NEW S, NEW x
  PROVE  UNION {f[y] : y \in S \cup {x}} = (UNION {f[y] : y \in S}) \cup f[x]
OBVIOUS

LEMMA InstanceTypes ==
  ASSUME Known
  PROVE  /\ instance.references \in [Relations -> SUBSET Relations]
         /\ instance.rows \in [Relations -> SUBSET Rows]
         /\ instance.needs \in [Rows -> SUBSET [to : Relations, rows : SUBSET Rows]]
         /\ AllRows \in SUBSET Rows
<1>1. /\ instance.references \in [Relations -> SUBSET Relations]
      /\ instance.rows \in [Relations -> SUBSET Rows]
      /\ instance.needs \in [Rows -> SUBSET [to : Relations, rows : SUBSET Rows]]
  BY InstancesAssumption DEF Known
<1> QED
  BY <1>1 DEF AllRows

LEMMA InstanceKept == Known /\ [Next]_vars => Known' /\ instance' = instance
<1> SUFFICES ASSUME Known, [Next]_vars PROVE instance' = instance
  BY DEF Known
<1>1. RelationsFirst!Place \/ RelationsFirst!Finish \/ RelationsFirst!Refuse => instance' = instance
  BY DEF RelationsFirst!Place, RelationsFirst!Finish, RelationsFirst!Refuse
<1>2. RowsFirst!Place \/ RowsFirst!Finish \/ RowsFirst!Refuse => Table' = Table
  BY DEF RowsFirst!Place, RowsFirst!Finish, RowsFirst!Refuse
<1>3. Table' = Table => instance' = instance
  BY DEF Table
<1> QED
  BY <1>1, <1>2, <1>3 DEF Next, OrderRelations, RefuseRelations, OrderRows, RefuseRows,
     Insert, NextRelation, Turn, Fail, Commit, Terminated, vars

---------------------------------------------------------------------------------
(* Type correctness, action by action.                                      *)

LEMMA OrderRelationsTypes ==
  ASSUME Known, TypeOK, OrderRelations
  PROVE  TypeOK'
<1> USE DEF TypeOK
<1>1. UNCHANGED <<at, rowOrder, rowOutcome, next, inserted, stored, outcome>>
  BY DEF OrderRelations
<1>2. CASE RelationsFirst!Place
  <2>1. PICK relation \in Relations : relationOrder' = Append(relationOrder, relation)
    BY <1>2 DEF RelationsFirst!Place, EveryRelation
  <2>2. /\ relationOrder' \in Seq(Relations)
        /\ Len(relationOrder') = Len(relationOrder) + 1 /\ Len(relationOrder) \in Nat
    BY <2>1, Appended, Elements
  <2> QED
    BY <1>1, <1>2, <2>2 DEF RelationsFirst!Place
<1>3. CASE RelationsFirst!Finish
  BY <1>1, <1>3 DEF RelationsFirst!Finish
<1> QED
  BY <1>2, <1>3 DEF OrderRelations

LEMMA OrderRowsTypes ==
  ASSUME Known, TypeOK, OrderRows
  PROVE  TypeOK'
<1> USE DEF TypeOK
<1>1. UNCHANGED <<relationOrder, relationOutcome, at, next, inserted, stored, outcome>>
  BY DEF OrderRows
<1>2. relationOrder[at] \in Relations
  <2>1. at \in 1 .. Len(relationOrder)
    BY DEF OrderRows
  <2> QED
    BY <2>1
<1>3. CASE RowsFirst!Place
  <2>1. PICK row \in instance.rows[relationOrder[at]] : rowOrder' = Append(rowOrder, row)
    BY <1>3 DEF RowsFirst!Place, RowsOf, Table
  <2>2. row \in Rows
    BY <1>2, InstanceTypes
  <2>3. /\ rowOrder' \in Seq(Rows)
        /\ Len(rowOrder') = Len(rowOrder) + 1 /\ Len(rowOrder) \in Nat
    BY <2>1, <2>2, Appended, Elements
  <2> QED
    BY <1>1, <1>3, <2>3 DEF OrderRows, RowsFirst!Place
<1>4. CASE RowsFirst!Finish
  BY <1>1, <1>4 DEF OrderRows, RowsFirst!Finish
<1> QED
  BY <1>3, <1>4 DEF OrderRows

(* Whatever the catalog and the instance, load's variables keep their types, *)
(* and its places in the two orders stay within them.                       *)
THEOREM TypeCorrect == Spec => []TypeOK
<1>1. Init => Known /\ TypeOK
  BY EmptySeq DEF Init, TypeOK, Known
<1>2. Known /\ TypeOK /\ [Next]_vars => TypeOK'
  <2> SUFFICES ASSUME Known, TypeOK, [Next]_vars PROVE TypeOK'
    OBVIOUS
  <2>1. CASE RefuseRelations
    BY <2>1 DEF RefuseRelations, RelationsFirst!Refuse, Rollback, TypeOK
  <2>2. CASE RefuseRows
    BY <2>2 DEF RefuseRows, RowsFirst!Refuse, Rollback, TypeOK
  <2>3. CASE Insert
    <3>1. next \in 1 .. Len(rowOrder) /\ rowOrder[next] \in Rows
      BY <2>3 DEF Insert, Inserting, TypeOK
    <3> QED
      BY <2>3, <3>1 DEF Insert, Rollback, TypeOK
  <2>4. CASE NextRelation
    <3>1. at \in 1 .. Len(relationOrder)
      BY <2>4 DEF NextRelation, TypeOK
    <3> QED
      BY <2>4, <3>1, EmptySeq DEF NextRelation, Turn, TypeOK
  <2>5. CASE Fail
    BY <2>5 DEF Fail, Rollback, TypeOK
  <2>6. CASE Commit
    BY <2>6 DEF Commit, TypeOK
  <2>7. CASE UNCHANGED vars
    BY <2>7 DEF vars, TypeOK
  <2> QED
    BY <2>1, <2>2, <2>3, <2>4, <2>5, <2>6, <2>7, OrderRelationsTypes, OrderRowsTypes
    DEF Next, Terminated
<1> QED
  BY <1>1, <1>2, InstanceKept, PTL DEF Spec

---------------------------------------------------------------------------------
(* How far load is, action by action.                                       *)

(* While relations are put in order, nothing is loaded yet. *)
LEMMA NothingYet ==
  ASSUME Inv, relationOutcome = "working"
  PROVE  /\ at = 1 /\ next = 1 /\ rowOrder = <<>> /\ rowOutcome = "working"
         /\ Len(rowOrder) = 0
         /\ \A sequence : Before(sequence, 1) = {}
<1>1. at = 1 /\ rowOrder = <<>> /\ rowOutcome = "working"
  BY DEF Inv, TypeOK, LoadInvariant, Progress
<1>2. Len(rowOrder) = 0
  BY <1>1
<1>3. next = 1
  BY <1>2 DEF Inv, TypeOK
<1> QED
  BY <1>1, <1>2, <1>3 DEF Before

LEMMA OrderRelationsKeeps ==
  ASSUME Inv, OrderRelations
  PROVE  LoadInvariant'
<1> DEFINE last == Len(relationOrder)
<1>1. UNCHANGED <<at, rowOrder, rowOutcome, next, inserted, stored, outcome>>
  BY DEF OrderRelations
<1>2. relationOutcome = "working" /\ instance' = instance
  BY DEF OrderRelations, RelationsFirst!Place, RelationsFirst!Finish
<1>3. /\ at = 1 /\ next = 1 /\ rowOrder = <<>> /\ rowOutcome = "working"
      /\ Len(rowOrder) = 0 /\ \A sequence : Before(sequence, 1) = {}
  BY <1>2, NothingYet
<1>4. /\ RelationsFirst!ToSet(relationOrder) = Before(relationOrder, last + 1) /\ last \in Nat
  BY Elements DEF Inv, TypeOK, RelationsFirst!ToSet, ToSet
<1>5. RowsInOrder'
  BY <1>1, <1>3 DEF RowsInOrder
<1>6. Progress'
  BY <1>1, <1>2, <1>3 DEF Inv, LoadInvariant, Progress
<1>7. RelationsInOrder'
  <2>1. CASE RelationsFirst!Place
    <3>1. PICK relation \in Relations :
            /\ AfterReferenced(instance, Before(relationOrder, last + 1), relation)
            /\ relationOrder' = Append(relationOrder, relation)
      BY <1>4, <2>1 DEF RelationsFirst!Place, EveryRelation
    <3>2. /\ Len(relationOrder') = last + 1
          /\ \A k \in 1 .. last : relationOrder'[k] = relationOrder[k]
          /\ relationOrder'[last + 1] = relation
          /\ \A k \in 1 .. last + 1 : Before(relationOrder', k) = Before(relationOrder, k)
      BY <3>1, Appended DEF Inv, TypeOK
    <3>3. ASSUME NEW k \in 1 .. last + 1
          PROVE  AfterReferenced(instance, Before(relationOrder', k), relationOrder'[k])
      <4>1. CASE k = last + 1
        BY <3>1, <3>2, <4>1
      <4>2. CASE k \in 1 .. last
        BY <3>2, <4>2 DEF Inv, LoadInvariant, RelationsInOrder
      <4> QED
        BY <1>4, <4>1, <4>2
    <3> QED
      BY <1>2, <2>1, <3>2, <3>3 DEF RelationsInOrder, RelationsFirst!Place
  <2>2. CASE RelationsFirst!Finish
    BY <1>2, <1>4, <2>2
    DEF RelationsFirst!Finish, EveryRelation, Inv, LoadInvariant, RelationsInOrder
  <2> QED
    BY <2>1, <2>2 DEF OrderRelations
<1> QED
  BY <1>5, <1>6, <1>7 DEF LoadInvariant

LEMMA OrderRowsKeeps ==
  ASSUME Inv, OrderRows
  PROVE  LoadInvariant'
<1> DEFINE last == Len(rowOrder)
<1>1. UNCHANGED <<relationOrder, relationOutcome, at, next, inserted, stored, outcome>>
  BY DEF OrderRows
<1>2. /\ rowOutcome = "working" /\ instance' = instance /\ Table' = Table
      /\ relationOutcome = "ordered"
  BY DEF OrderRows, Loading, RowsFirst!Place, RowsFirst!Finish, Table
<1>3. at \in 1 .. Len(relationOrder) /\ relationOrder[at] \in Relations
  BY DEF OrderRows, Inv, TypeOK
<1>4. RowsFirst!ToSet(rowOrder) = Before(rowOrder, last + 1) /\ last \in Nat
  BY Elements DEF Inv, TypeOK, RowsFirst!ToSet, ToSet
<1>5. RelationsInOrder'
  BY <1>1, <1>2 DEF Inv, LoadInvariant, RelationsInOrder
<1>6. CASE RowsFirst!Place
  <2>1. PICK row \in instance.rows[relationOrder[at]] :
          /\ AfterParents(Table, Before(rowOrder, last + 1), row)
          /\ rowOrder' = Append(rowOrder, row)
    BY <1>4, <1>6 DEF RowsFirst!Place, RowsOf, Table
  <2>2. row \in Rows
    BY <1>3, InstanceTypes DEF Inv
  <2>3. /\ Len(rowOrder') = last + 1
        /\ \A k \in 1 .. last : rowOrder'[k] = rowOrder[k]
        /\ rowOrder'[last + 1] = row
        /\ \A k \in 1 .. last + 1 : Before(rowOrder', k) = Before(rowOrder, k)
    BY <2>1, <2>2, Appended DEF Inv, TypeOK
  <2>4. ASSUME NEW k \in 1 .. last + 1
        PROVE  AfterParents(Table, Before(rowOrder', k), rowOrder'[k])
    <3>1. CASE k = last + 1
      BY <2>1, <2>3, <3>1
    <3>2. CASE k \in 1 .. last
      BY <2>3, <3>2 DEF Inv, LoadInvariant, RowsInOrder
    <3> QED
      BY <1>4, <3>1, <3>2
  <2>5. rowOutcome' = "working"
    BY <1>2, <1>6 DEF RowsFirst!Place
  <2>6. RowsInOrder'
    BY <1>2, <2>3, <2>4, <2>5 DEF RowsInOrder
  <2>7. next \in 1 .. last + 1
    BY DEF Inv, TypeOK
  <2>8. Progress'
    BY <1>1, <1>2, <2>3, <2>7 DEF Inv, LoadInvariant, Progress
  <2> QED
    BY <1>5, <2>6, <2>8 DEF LoadInvariant
<1>7. CASE RowsFirst!Finish
  <2>1. RowsInOrder'
    BY <1>2, <1>4, <1>7
    DEF RowsFirst!Finish, RowsOf, Inv, LoadInvariant, RowsInOrder
  <2>2. Progress'
    BY <1>1, <1>2, <1>7 DEF RowsFirst!Finish, Inv, LoadInvariant, Progress
  <2> QED
    BY <1>5, <2>1, <2>2 DEF LoadInvariant
<1> QED
  BY <1>6, <1>7 DEF OrderRows

LEMMA InsertKeeps ==
  ASSUME Inv, Insert
  PROVE  LoadInvariant'
<1>1. /\ UNCHANGED <<instance, relationOrder, relationOutcome, at, rowOrder, rowOutcome>>
      /\ next \in Nat \ {0}
  BY DEF Insert, Inv, TypeOK
<1>2. RelationsInOrder' /\ RowsInOrder'
  BY <1>1 DEF Inv, LoadInvariant, RelationsInOrder, RowsInOrder, Table
<1>3. CASE Accepted(rowOrder[next])
  <2> DEFINE passed == UNION {instance.rows[relation] : relation \in Before(relationOrder, at)}
  <2>1. inserted = passed \cup Before(rowOrder, next)
    BY DEF Insert, Inserting, Loading, Working, Inv, LoadInvariant, Progress
  <2>2. Before(rowOrder, next + 1) = Before(rowOrder, next) \cup {rowOrder[next]}
    BY <1>1, Extended
  <2>3. inserted' = inserted \cup {rowOrder[next]} /\ next' = next + 1
    BY <1>3 DEF Insert
  <2>4. passed' = passed
    BY <1>1
  <2>5. inserted' = passed' \cup Before(rowOrder', next')
    BY <1>1, <2>1, <2>2, <2>3, <2>4
  <2>6. relationOutcome' = "ordered"
    BY <1>1 DEF Insert, Inserting, Loading
  <2> QED
    BY <1>2, <2>5, <2>6 DEF LoadInvariant, Progress
<1>4. CASE ~Accepted(rowOrder[next])
  BY <1>1, <1>2, <1>4 DEF Insert, Rollback, Inv, LoadInvariant, Progress
<1> QED
  BY <1>3, <1>4

LEMMA NextRelationKeeps ==
  ASSUME Inv, NextRelation
  PROVE  LoadInvariant'
<1>1. /\ UNCHANGED <<instance, relationOrder, relationOutcome, inserted, stored, outcome>>
      /\ at' = at + 1 /\ next' = 1 /\ rowOrder' = <<>> /\ rowOutcome' = "working"
      /\ rowOutcome = "ordered" /\ relationOutcome = "ordered" /\ outcome = "working"
  BY DEF NextRelation, Turn, Loading, Working
<1>2. at \in Nat \ {0} /\ next = Len(rowOrder) + 1
  BY DEF NextRelation, Inv, TypeOK
<1>3. RelationsInOrder'
  BY <1>1 DEF Inv, LoadInvariant, RelationsInOrder
<1>4. RowsInOrder'
  <2>1. Len(rowOrder') = 0
    BY <1>1
  <2> QED
    BY <1>1, <2>1 DEF RowsInOrder
<1>5. inserted = (UNION {instance.rows[relation] : relation \in Before(relationOrder, at)})
                 \cup instance.rows[relationOrder[at]]
  BY <1>1, <1>2 DEF Inv, LoadInvariant, Progress, RowsInOrder, RowsOf, Table
<1>6. Before(relationOrder, at + 1) = Before(relationOrder, at) \cup {relationOrder[at]}
  BY <1>2, Extended
<1>7. inserted = UNION {instance.rows[relation] : relation \in Before(relationOrder, at + 1)}
  BY <1>5, <1>6, UnionStep
<1>8. Before(rowOrder', 1) = {}
  BY DEF Before
<1> QED
  BY <1>1, <1>3, <1>4, <1>7, <1>8 DEF LoadInvariant, Progress

(* Relations and rows are always in an order of references, and the          *)
(* transaction always holds exactly the rows load has passed: the inductive *)
(* invariant of the two theorems below.                                     *)
THEOREM LoadsInOrder == Spec => []LoadInvariant
<1>1. Init => LoadInvariant
  <2> SUFFICES ASSUME Init PROVE LoadInvariant
    OBVIOUS
  <2>1. Len(relationOrder) = 0 /\ Len(rowOrder) = 0 /\ \A sequence : Before(sequence, 1) = {}
    BY DEF Init, Before
  <2> QED
    BY <2>1 DEF Init, LoadInvariant, RelationsInOrder, RowsInOrder, Progress
<1>2. Inv /\ [Next]_vars => LoadInvariant'
  <2> SUFFICES ASSUME Inv, [Next]_vars PROVE LoadInvariant'
    OBVIOUS
  <2> USE DEF Inv, LoadInvariant, RelationsInOrder, RowsInOrder, Progress, Table
  <2>1. CASE RefuseRelations
    <3>1. /\ UNCHANGED <<instance, relationOrder, at, rowOrder, rowOutcome, next>>
          /\ relationOutcome = "working" /\ relationOutcome' = "refused" /\ outcome' = "cycle"
      BY <2>1 DEF RefuseRelations, RelationsFirst!Refuse, Rollback
    <3> QED
      BY <3>1, NothingYet
  <2>2. CASE RefuseRows
    <3>1. UNCHANGED <<relationOrder, relationOutcome, at, next>> /\ outcome' = "cycle"
          /\ relationOutcome = "ordered"
      BY <2>2 DEF RefuseRows, Rollback, Loading
    <3>2. UNCHANGED <<instance, rowOrder>> /\ rowOutcome' = "refused"
      BY <2>2 DEF RefuseRows, RowsFirst!Refuse
    <3> QED
      BY <3>1, <3>2
  <2>3. CASE Fail
    BY <2>3 DEF Fail, Rollback
  <2>4. CASE Commit
    BY <2>4 DEF Commit, Loading, Working
  <2>5. CASE UNCHANGED vars
    BY <2>5 DEF vars
  <2> QED
    BY <2>1, <2>2, <2>3, <2>4, <2>5, OrderRelationsKeeps, OrderRowsKeeps, InsertKeeps,
       NextRelationKeeps DEF Next, Terminated
<1>3. Init => Known
  BY DEF Init, Known
<1> QED
  BY <1>1, <1>2, <1>3, TypeCorrect, InstanceKept, PTL DEF Spec, Inv

---------------------------------------------------------------------------------
(* What follows.                                                            *)

(* The rows of the relations that are passed, and the parents among the      *)
(* relation's own rows, are inserted before a row that references them.     *)
LEMMA ConsistentRowsAreAccepted ==
  ASSUME Inv, Consistent, Inserting
  PROVE  Accepted(rowOrder[next])
<1> DEFINE row == rowOrder[next]
           relation == relationOrder[at]
<1>1. /\ next \in 1 .. Len(rowOrder) /\ rowOrder # <<>> /\ rowOutcome = "ordered"
      /\ outcome = "working" /\ Len(rowOrder) \in Nat
  BY DEF Inserting, Loading, Working, Inv, TypeOK
<1>2. at \in 1 .. Len(relationOrder) /\ relation \in Relations
  BY <1>1 DEF Inv, TypeOK
<1>3. row \in instance.rows[relation]
  <2>1. row \in Before(rowOrder, Len(rowOrder) + 1)
    BY <1>1 DEF Before
  <2> QED
    BY <1>1, <2>1 DEF Inv, LoadInvariant, RowsInOrder, RowsOf, Table
<1>4. row \in AllRows
  BY <1>2, <1>3 DEF AllRows
<1>5. ASSUME NEW need \in instance.needs[row]
      PROVE  need.rows \cap (inserted \cup {row}) # {}
  <2>1. /\ need.to \in instance.references[relation]
        /\ need.rows \subseteq instance.rows[need.to]
        /\ need.rows \cap AllRows # {}
    BY <1>2, <1>3, <1>4, NeedsAssumption DEF Inv, Known, Consistent
  <2>2. CASE need.to = relation
    <3>1. need.rows \cap (Before(rowOrder, next) \cup {row}) # {}
      BY <1>1, <2>2 DEF Inv, LoadInvariant, RowsInOrder, AfterParents, Table
    <3>2. Before(rowOrder, next) \subseteq inserted
      BY <1>1 DEF Inv, LoadInvariant, Progress
    <3> QED
      BY <3>1, <3>2
  <2>3. CASE need.to # relation
    <3>1. need.to \in Before(relationOrder, at)
      BY <1>2, <2>1, <2>3 DEF Inv, LoadInvariant, RelationsInOrder, AfterReferenced
    <3>2. instance.rows[need.to] \subseteq inserted
      BY <1>1, <3>1 DEF Inv, LoadInvariant, Progress
    <3> QED
      BY <2>1, <3>2
  <2> QED
    BY <2>2, <2>3
<1> QED
  BY <1>5 DEF Accepted

(* The backend refuses no row of an instance whose foreign keys all have     *)
(* rows, for every catalog, instance and order that load may take.          *)
THEOREM ConsistentIsAccepted == Spec => []BackendAccepts
<1>1. Init => BackendAccepts
  BY DEF Init, BackendAccepts
<1>2. Inv /\ BackendAccepts /\ [Next]_vars => BackendAccepts'
  <2> SUFFICES ASSUME Inv, BackendAccepts, [Next]_vars, Consistent', outcome' = "violation"
               PROVE  FALSE
    BY DEF BackendAccepts
  <2>1. Consistent
    BY InstanceKept DEF Inv, Consistent, AllRows
  <2>2. outcome # "violation"
    BY <2>1 DEF BackendAccepts
  <2>3. CASE Insert
    BY <2>1, <2>2, <2>3, ConsistentRowsAreAccepted DEF Insert
  <2>4. CASE ~Insert
    BY <2>2, <2>4 DEF Next, OrderRelations, RefuseRelations, OrderRows, RefuseRows,
       Rollback, NextRelation, Turn, Fail, Commit, Terminated, vars
  <2> QED
    BY <2>3, <2>4
<1>3. Init => Known
  BY DEF Init, Known
<1> QED
  BY <1>1, <1>2, <1>3, TypeCorrect, LoadsInOrder, InstanceKept, PTL DEF Spec, Inv

(* The database has all rows of the instance when load has returned and none *)
(* before or when it failed, for every catalog and instance.                *)
THEOREM LoadsAllOrNothing == Spec => []AllOrNothing
<1>1. Init => AllOrNothing
  BY DEF Init, AllOrNothing
<1>2. Inv /\ AllOrNothing /\ [Next]_vars => AllOrNothing'
  <2> SUFFICES ASSUME Inv, AllOrNothing, [Next]_vars PROVE AllOrNothing'
    OBVIOUS
  <2>1. instance' = instance /\ AllRows' = AllRows
    BY InstanceKept DEF Inv, AllRows
  <2>2. CASE Commit
    <3>1. at = Len(relationOrder) + 1 /\ relationOutcome = "ordered" /\ outcome = "working"
          /\ stored' = inserted /\ outcome' = "loaded"
      BY <2>2 DEF Commit, Loading, Working, Inv, TypeOK
    <3>2. rowOrder = <<>> /\ Len(rowOrder) = 0
      BY <3>1 DEF Inv, TypeOK
    <3>3. Before(rowOrder, next) = {}
      BY <3>2 DEF Before, Inv, TypeOK
    <3>4. Before(relationOrder, at) = Relations
      BY <3>1 DEF Inv, LoadInvariant, RelationsInOrder
    <3>5. inserted = AllRows
      BY <3>1, <3>3, <3>4 DEF Inv, LoadInvariant, Progress, AllRows
    <3> QED
      BY <2>1, <3>1, <3>5 DEF AllOrNothing
  <2>3. CASE ~Commit
    BY <2>1, <2>3 DEF AllOrNothing, Next, OrderRelations, RefuseRelations, OrderRows,
       RefuseRows, Rollback, Loading, Working, Insert, Inserting, NextRelation, Turn, Fail,
       Terminated, vars
  <2> QED
    BY <2>2, <2>3
<1>3. Init => Known
  BY DEF Init, Known
<1> QED
  BY <1>1, <1>2, <1>3, TypeCorrect, LoadsInOrder, InstanceKept, PTL DEF Spec, Inv

=================================================================================
