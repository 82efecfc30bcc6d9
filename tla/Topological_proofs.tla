--------------------------- MODULE Topological_proofs ---------------------------
(***************************************************************************)
(* Topological orders any graph whatever, or refuses it for a cycle.       *)
(***************************************************************************)
EXTENDS Topological, SequenceTheorems, TLAPS

Inv == TypeOK /\ SearchInvariant

(* The calls that remain when the last one returns. *)
LEMMA Popped ==
  ASSUME NEW S, NEW seq \in Seq(S), NEW top \in Int, top = Len(seq) - 1, 0 <= top
  PROVE  /\ SubSeq(seq, 1, top) \in Seq(S)
         /\ Len(SubSeq(seq, 1, top)) = top
         /\ \A i \in 1 .. top : SubSeq(seq, 1, top)[i] = seq[i]
OBVIOUS

(* A sequence that is not empty has a last element. *)
LEMMA HasLast ==
  ASSUME NEW S, NEW seq \in Seq(S), seq # <<>>
  PROVE  /\ Len(seq) - 1 \in Int /\ 0 <= Len(seq) - 1
         /\ Len(seq) \in 1 .. Len(seq) /\ seq[Len(seq)] \in S
BY EmptySeq

LEMMA Elements ==
  ASSUME NEW S, NEW seq \in Seq(S)
  PROVE  ToSet(seq) = {seq[i] : i \in 1 .. Len(seq)}
BY DEF ToSet

LEMMA SameElements == Order!ToSet(order) = ToSet(order)
BY DEF Order!ToSet, ToSet

(* Whatever the graph, the variables of _topological keep their types: only  *)
(* nodes are opened, left and ordered.                                      *)
THEOREM TypeCorrect == Spec => []TypeOK
<1>1. Init => TypeOK
  BY DEF Init, TypeOK
<1>2. TypeOK /\ [Next]_vars => TypeOK'
  <2> SUFFICES ASSUME TypeOK, [Next]_vars PROVE TypeOK'
    OBVIOUS
  <2> USE DEF TypeOK, Working
  <2>1. ASSUME NEW n \in Nodes, Root(n) PROVE TypeOK'
    <3>1. Append(path, n) \in Seq(Nodes)
      BY AppendProperties
    <3>2. CASE state[n] = "new"
      <4>1. path' = Append(path, n) /\ state' = [state EXCEPT ![n] = "open"]
        BY <2>1, <3>2 DEF Root, Open
      <4>2. state' \in [Nodes -> {"new", "open", "done"}]
        BY <4>1
      <4>3. path' \in Seq(Nodes)
        BY <4>1, <3>1
      <4>4. UNCHANGED <<edges, todo, order, outcome>> /\ roots' \in SUBSET Nodes
        BY <2>1 DEF Root
      <4> QED
        BY <4>2, <4>3, <4>4
    <3>3. CASE state[n] # "new"
      BY <2>1, <3>3 DEF Root
    <3> QED
      BY <3>2, <3>3
  <2>2. ASSUME NEW n \in Nodes, Follow(n) PROVE TypeOK'
    <3>1. Current \in Nodes /\ Append(path, n) \in Seq(Nodes)
      BY <2>2, HasLast, AppendProperties DEF Follow, Current
    <3>2. todo' = [todo EXCEPT ![Current] = todo[Current] \ {n}]
      BY <2>2 DEF Follow
    <3>3. todo' \in [Nodes -> SUBSET Nodes]
      BY <3>1, <3>2
    <3>4. \/ path' = Append(path, n) /\ state' = [state EXCEPT ![n] = "open"]
          \/ UNCHANGED <<path, state>>
      BY <2>2 DEF Follow, Open
    <3>5. path' \in Seq(Nodes) /\ state' \in [Nodes -> {"new", "open", "done"}]
      BY <3>1, <3>4
    <3>6. UNCHANGED <<edges, roots, order>> /\ outcome' \in {"working", "ordered", "refused"}
      BY <2>2 DEF Follow
    <3> QED
      BY <3>3, <3>5, <3>6
  <2>3. CASE Leave
    <3>1. path # <<>>
      BY <2>3 DEF Leave
    <3>2. Current \in Nodes
      BY <3>1, HasLast DEF Current
    <3>3. path' \in Seq(Nodes)
      <4>1. PICK top \in Int : top = Len(path) - 1 /\ 0 <= top
        BY <3>1, HasLast
      <4> QED
        BY <2>3, <4>1, Popped DEF Leave
    <3>4. order' \in Seq(Nodes)
      BY <2>3, <3>2, AppendProperties DEF Leave
    <3> QED
      BY <2>3, <3>2, <3>3, <3>4 DEF Leave
  <2>4. CASE Return
    BY <2>4 DEF Return
  <2>5. CASE UNCHANGED vars
    BY <2>5 DEF vars
  <2> QED
    BY <2>1, <2>2, <2>3, <2>4, <2>5 DEF Next, Terminated
<1> QED
  BY <1>1, <1>2, PTL DEF Spec

(* A new node that is opened is the last call. *)
LEMMA OpenKeeps ==
  ASSUME TypeOK, OpenOnPath, DoneInOrder, NEW n \in Nodes,
         state[n] = "new", Open(n), order' = order
  PROVE  /\ Len(path) \in Nat /\ Len(path') = Len(path) + 1
         /\ \A i \in 1 .. Len(path) : path'[i] = path[i]
         /\ path'[Len(path) + 1] = n
         /\ OpenOnPath' /\ DoneInOrder'
<1>1. /\ Len(path) \in Nat /\ Len(path') = Len(path) + 1
      /\ \A i \in 1 .. Len(path) : path'[i] = path[i]
      /\ path'[Len(path) + 1] = n
  BY AppendProperties DEF TypeOK, Open
<1>2. \A m \in Nodes : state'[m] = IF m = n THEN "open" ELSE state[m]
  BY DEF TypeOK, Open
<1>3. \A i \in 1 .. Len(path) : path[i] # n
  BY DEF OpenOnPath, TypeOK
<1>4. ASSUME NEW m \in Nodes PROVE (state'[m] = "open" <=> \E i \in 1 .. Len(path') : path'[i] = m)
  <2>1. CASE m = n
    BY <2>1, <1>1, <1>2
  <2>2. CASE m # n
    BY <2>2, <1>1, <1>2 DEF OpenOnPath
  <2> QED
    BY <2>1, <2>2
<1>5. \A i, j \in 1 .. Len(path') : path'[i] = path'[j] => i = j
  BY <1>1, <1>3 DEF OpenOnPath
<1>6. OpenOnPath'
  BY <1>4, <1>5 DEF OpenOnPath
<1>7. DoneInOrder'
  BY <1>2 DEF DoneInOrder
<1> QED
  BY <1>1, <1>6, <1>7

LEMMA RootKeeps ==
  ASSUME Inv, NEW n \in Nodes, Root(n)
  PROVE  SearchInvariant'
<1> USE DEF Inv, SearchInvariant
<1>1. path = <<>> /\ Len(path) = 0 /\ roots' = roots \ {n}
      /\ UNCHANGED <<edges, todo, order, outcome>>
  BY DEF Root
<1>2. CASE state[n] = "new"
  <2>1. Open(n)
    BY <1>2 DEF Root
  <2>2. Len(path') = 1 /\ path'[1] = n /\ OpenOnPath' /\ DoneInOrder'
    BY <1>1, <1>2, <2>1, OpenKeeps
  <2>3. \A m \in Nodes : state'[m] = IF m = n THEN "open" ELSE state[m]
    BY <2>1 DEF TypeOK, Open
  <2>4. Linked'
    BY <2>2 DEF Linked
  <2>5. Passed'
    BY <1>1, <1>2, <2>2 DEF Passed, Visited
  <2>6. Visited'
    BY <1>1, <2>3 DEF Visited
  <2> QED
    BY <2>2, <2>4, <2>5, <2>6
<1>3. CASE state[n] # "new"
  <2>1. UNCHANGED <<path, state>>
    BY <1>3 DEF Root
  <2> QED
    BY <1>1, <1>3, <2>1 DEF OpenOnPath, Linked, DoneInOrder, Passed, Visited
<1> QED
  BY <1>2, <1>3

LEMMA FollowKeeps ==
  ASSUME Inv, NEW n \in Nodes, Follow(n)
  PROVE  SearchInvariant'
<1> USE DEF Inv, SearchInvariant
<1> DEFINE last == Len(path)
<1>1. /\ path # <<>> /\ n \in todo[Current]
      /\ todo' = [todo EXCEPT ![Current] = todo[Current] \ {n}]
      /\ UNCHANGED <<edges, roots, order>>
  BY DEF Follow
<1>2. last \in Nat \ {0} /\ Current = path[last] /\ Current \in Nodes
  BY <1>1, HasLast DEF Current, TypeOK
<1>3. state[Current] = "open"
  BY <1>2 DEF OpenOnPath
<1>4. \A m \in Nodes : todo'[m] = IF m = Current THEN todo[m] \ {n} ELSE todo[m]
  BY <1>1, <1>2 DEF TypeOK
<1>5. \A i \in 1 .. last : path[i] \in Nodes /\ (path[i] = Current <=> i = last)
  BY <1>2 DEF OpenOnPath, TypeOK
<1>6. CASE n # Current /\ state[n] = "new"
  <2>1. Open(n) /\ UNCHANGED outcome
    BY <1>6 DEF Follow
  <2>2. /\ Len(path') = last + 1 /\ path'[last + 1] = n
        /\ \A i \in 1 .. last : path'[i] = path[i]
        /\ OpenOnPath' /\ DoneInOrder'
    BY <1>1, <1>6, <2>1, OpenKeeps
  <2>3. \A m \in Nodes : state'[m] = IF m = n THEN "open" ELSE state[m]
    BY <2>1 DEF TypeOK, Open
  <2>4. n \in edges[Current] /\ todo[n] = edges[n] /\ todo'[n] = edges[n]
    <3>1. todo[n] = edges[n] /\ todo'[n] = edges[n]
      BY <1>4, <1>6 DEF Visited
    <3>2. n \in edges[Current]
      BY <1>1, <1>2 DEF Visited
    <3> QED
      BY <3>1, <3>2
  <2>5. Linked'
    BY <1>1, <1>2, <1>6, <2>2, <2>4 DEF Linked
  <2>6. Passed'
    <3> SUFFICES ASSUME NEW i \in 1 .. last + 1, NEW m \in edges[path'[i]] \ todo'[path'[i]]
                 PROVE  \/ m = path'[i]
                        \/ state'[m] = "done"
                        \/ i < last + 1 /\ path'[i + 1] = m
                        \/ outcome = "refused"
      BY <1>1, <2>1, <2>2 DEF Passed
    <3>1. CASE i = last + 1
      BY <2>2, <2>4, <3>1
    <3>2. CASE i = last
      <4>1. path'[i] = Current /\ path'[i + 1] = n
        BY <1>2, <2>2, <3>2
      <4>2. CASE m = n
        BY <3>2, <4>1, <4>2, <1>2
      <4>3. CASE m # n
        <5>1. m \in edges[Current] \ todo'[Current] /\ path[i] = Current
          BY <1>2, <3>2, <4>1
        <5>2. m \in edges[Current] \ todo[Current] /\ edges[Current] \in SUBSET Nodes
          <6>1. todo'[Current] = todo[Current] \ {n}
            BY <1>2, <1>4
          <6>2. edges[Current] \in SUBSET Nodes
            BY <1>2 DEF TypeOK
          <6> QED
            BY <4>3, <5>1, <6>1, <6>2
        <5>3. m \in edges[path[i]] \ todo[path[i]] /\ m \in Nodes
          BY <5>1, <5>2
        <5>4. m = path[i] \/ state[m] = "done" \/ outcome = "refused"
          BY <1>2, <3>2, <5>3 DEF Passed
        <5> QED
          BY <1>2, <2>3, <3>2, <4>1, <4>3, <5>3, <5>4
      <4> QED
        BY <4>2, <4>3
    <3>3. CASE i < last
      <4>1. path'[i] = path[i] /\ path'[i + 1] = path[i + 1] /\ i \in 1 .. last
        BY <1>2, <2>2, <3>3
      <4>2. m \in edges[path[i]] \ todo[path[i]] /\ m \in Nodes
        <5>1. path[i] \in Nodes /\ path[i] # Current
          BY <1>2, <1>5, <3>3, <4>1
        <5>2. todo'[path[i]] = todo[path[i]] /\ edges[path[i]] \in SUBSET Nodes
          BY <1>4, <5>1 DEF TypeOK
        <5>3. m \in edges[path[i]] \ todo'[path[i]]
          BY <4>1
        <5> QED
          BY <5>2, <5>3
      <4>3. m = path[i] \/ state[m] = "done" \/ path[i + 1] = m \/ outcome = "refused"
        BY <4>1, <4>2 DEF Passed
      <4> QED
        BY <1>2, <1>6, <2>3, <3>3, <4>1, <4>2, <4>3
    <3> QED
      BY <1>2, <3>1, <3>2, <3>3
  <2>7. Visited'
    BY <1>1, <1>3, <1>4, <2>3 DEF Visited
  <2> QED
    BY <2>2, <2>5, <2>6, <2>7
<1>7. CASE ~(n # Current /\ state[n] = "new")
  <2>1. UNCHANGED <<path, state>>
    BY <1>7 DEF Follow
  <2>2. OpenOnPath' /\ Linked' /\ DoneInOrder'
    BY <1>1, <2>1 DEF OpenOnPath, Linked, DoneInOrder
  <2>3. Visited'
    BY <1>1, <1>3, <1>4, <2>1 DEF Visited
  <2>4. n = Current \/ state[n] = "done" \/ outcome' = "refused"
    BY <1>7 DEF Follow, TypeOK
  <2>5. outcome = "refused" => outcome' = "refused"
    BY DEF Follow
  <2>6. Passed'
    <3> SUFFICES ASSUME NEW i \in 1 .. last, NEW m \in edges[path[i]] \ todo'[path[i]]
                 PROVE  \/ m = path[i]
                        \/ state[m] = "done"
                        \/ i < last /\ path[i + 1] = m
                        \/ outcome' = "refused"
      BY <1>1, <2>1 DEF Passed
    <3>1. CASE m \in todo[path[i]]
      BY <1>4, <1>5, <2>4, <3>1
    <3>2. CASE m \notin todo[path[i]]
      BY <2>5, <3>2 DEF Passed
    <3> QED
      BY <3>1, <3>2
  <2> QED
    BY <2>2, <2>3, <2>6
<1> QED
  BY <1>6, <1>7

LEMMA LeaveKeeps ==
  ASSUME Inv, Leave
  PROVE  SearchInvariant'
<1> USE DEF Inv, SearchInvariant
<1>1. /\ path # <<>> /\ todo[Current] = {} /\ outcome = "working"
      /\ UNCHANGED <<edges, roots, todo, outcome>>
  BY DEF Leave, Working
<1>2. PICK top \in Int : top = Len(path) - 1 /\ 0 <= top
  BY <1>1, HasLast DEF TypeOK
<1>3. /\ Len(path') = top /\ \A i \in 1 .. top : path'[i] = path[i]
  BY <1>2, Popped DEF Leave, TypeOK
<1>4. Len(path) = top + 1 /\ Current = path[top + 1] /\ Current \in Nodes
  BY <1>1, <1>2, HasLast DEF Current, TypeOK
<1>5. state[Current] = "open" /\ \A i \in 1 .. top : path[i] # Current
  BY <1>2, <1>4 DEF OpenOnPath
<1>6. \A m \in Nodes : state'[m] = IF m = Current THEN "done" ELSE state[m]
  BY <1>4 DEF Leave, TypeOK
<1>7. /\ Len(order) \in Nat /\ Len(order') = Len(order) + 1
      /\ \A i \in 1 .. Len(order) : order'[i] = order[i]
      /\ order'[Len(order) + 1] = Current
  BY <1>4, AppendProperties DEF Leave, TypeOK
<1>8. OpenOnPath'
  <2>1. ASSUME NEW m \in Nodes PROVE (state'[m] = "open" <=> \E i \in 1 .. top : path[i] = m)
    <3>1. CASE m = Current
      BY <1>5, <1>6, <3>1
    <3>2. CASE m # Current
      BY <1>2, <1>4, <1>6, <3>2 DEF OpenOnPath
    <3> QED
      BY <3>1, <3>2
  <2>2. \A i, j \in 1 .. top : path[i] = path[j] => i = j
    BY <1>2, <1>4 DEF OpenOnPath
  <2> QED
    BY <1>3, <2>1, <2>2 DEF OpenOnPath
<1>9. Linked'
  BY <1>1, <1>2, <1>3, <1>4 DEF Linked
<1>10. DoneInOrder'
  <2>1. ASSUME NEW m \in Nodes
        PROVE  (state'[m] = "done" <=> \E i \in 1 .. Len(order) + 1 : order'[i] = m)
    <3>1. CASE m = Current
      BY <1>6, <1>7, <3>1
    <3>2. CASE m # Current
      BY <1>6, <1>7, <3>2 DEF DoneInOrder
    <3> QED
      BY <3>1, <3>2
  <2>2. \A i \in 1 .. Len(order) : order[i] # Current
    BY <1>4, <1>5 DEF DoneInOrder
  <2>3. \A i, j \in 1 .. Len(order) + 1 : order'[i] = order'[j] => i = j
    BY <1>7, <2>2 DEF DoneInOrder
  <2> QED
    BY <1>7, <2>1, <2>3 DEF DoneInOrder
<1>11. Passed'
  <2> SUFFICES ASSUME NEW i \in 1 .. top, NEW m \in edges[path[i]] \ todo[path[i]]
               PROVE  m = path[i] \/ state'[m] = "done" \/ (i < top /\ path[i + 1] = m)
    <3>1. top \in Nat
      BY <1>2
    <3>2. \A i \in 1 .. top : i < top => path'[i + 1] = path[i + 1]
      BY <1>3, <3>1
    <3> QED
      BY <1>1, <1>3, <3>2 DEF Passed
  <2>1. i \in 1 .. Len(path) /\ path[i] \in Nodes
    BY <1>2, <1>4 DEF TypeOK
  <2>2. m \in Nodes
    BY <2>1 DEF TypeOK
  <2>3. m = path[i] \/ state[m] = "done" \/ path[i + 1] = m
    BY <1>1, <2>1 DEF Passed
  <2>4. CASE state[m] = "done"
    BY <1>6, <2>2, <2>4
  <2>5. CASE path[i + 1] = m
    BY <1>2, <1>4, <1>6, <2>2, <2>5
  <2> QED
    BY <2>3, <2>4, <2>5
<1>12. Visited'
  BY <1>1, <1>4, <1>5, <1>6 DEF Visited
<1> QED
  BY <1>8, <1>9, <1>10, <1>11, <1>12

(* At every step of the search of any graph the marks of visit say where the *)
(* search is: the inductive invariant of the refinement below.              *)
THEOREM SearchIsWhereItsMarksSay == Spec => []SearchInvariant
<1>1. Init => SearchInvariant
  BY EmptySeq DEF Init, SearchInvariant, OpenOnPath, Linked, DoneInOrder, Passed, Visited
<1>2. Inv /\ [Next]_vars => SearchInvariant'
  <2> SUFFICES ASSUME Inv, [Next]_vars PROVE SearchInvariant'
    OBVIOUS
  <2>1. CASE Return
    BY <2>1 DEF Inv, Return, SearchInvariant, OpenOnPath, Linked, DoneInOrder, Passed,
       Visited, Working
  <2>2. CASE UNCHANGED vars
    BY <2>2 DEF vars, Inv, SearchInvariant, OpenOnPath, Linked, DoneInOrder, Passed, Visited
  <2> QED
    BY <2>1, <2>2, RootKeeps, FollowKeeps, LeaveKeeps DEF Next, Terminated
<1> QED
  BY <1>1, <1>2, TypeCorrect, PTL DEF Spec, Inv

---------------------------------------------------------------------------------
(* The refinement of ReferencesFirst.                                       *)

LEMMA LeavePlaces ==
  ASSUME Inv, Leave
  PROVE  Order!Place
<1>1. path # <<>> /\ todo[Current] = {} /\ outcome = "working"
      /\ order' = Append(order, Current) /\ UNCHANGED <<edges, outcome>>
  BY DEF Leave, Working
<1>2. Current \in Nodes /\ Len(path) \in 1 .. Len(path) /\ Current = path[Len(path)]
  BY <1>1, HasLast DEF Current, Inv, TypeOK
<1>3. state[Current] = "open"
  BY <1>2 DEF Inv, SearchInvariant, OpenOnPath
<1>4. ToSet(order) = {order[i] : i \in 1 .. Len(order)}
  BY Elements DEF Inv, TypeOK
<1>5. Current \in EveryNode(edges) \ ToSet(order)
  BY <1>2, <1>3, <1>4 DEF EveryNode, Inv, SearchInvariant, DoneInOrder
<1>6. ASSUME NEW n \in edges[Current], n # Current PROVE n \in ToSet(order)
  <2>1. n \in Nodes
    BY <1>2 DEF Inv, TypeOK
  <2>2. state[n] = "done"
    BY <1>1, <1>2, <1>6 DEF Inv, SearchInvariant, Passed
  <2> QED
    BY <1>4, <2>1, <2>2 DEF Inv, SearchInvariant, DoneInOrder
<1>7. After(edges, ToSet(order), Current)
  BY <1>6 DEF After
<1> QED
  BY <1>1, <1>5, <1>7, SameElements DEF Order!Place

LEMMA ReturnFinishes ==
  ASSUME Inv, Return
  PROVE  Order!Finish
<1>1. path = <<>> /\ Len(path) = 0 /\ roots = {} /\ outcome = "working"
      /\ outcome' = "ordered" /\ UNCHANGED <<edges, order>>
  BY DEF Return, Working
<1>2. \A n \in Nodes : state[n] = "done"
  BY <1>1 DEF Inv, TypeOK, SearchInvariant, OpenOnPath, Visited
<1>3. ToSet(order) = {order[i] : i \in 1 .. Len(order)}
  BY Elements DEF Inv, TypeOK
<1>4. ToSet(order) = Nodes
  BY <1>2, <1>3 DEF Inv, TypeOK, SearchInvariant, DoneInOrder
<1> QED
  BY <1>1, <1>4, SameElements DEF Order!Finish, EveryNode

(* The calls from the open node on wait for each other. *)
LEMMA CycleIsStuck ==
  ASSUME Inv, NEW n \in Nodes, Follow(n), n # Current, state[n] = "open"
  PROVE  Order!Stuck
<1>1. path # <<>> /\ n \in todo[Current]
  BY DEF Follow
<1>2. Len(path) \in Nat \ {0} /\ Current = path[Len(path)] /\ Current \in Nodes
  BY <1>1, HasLast DEF Current, Inv, TypeOK
<1>3. n \in edges[Current]
  BY <1>1, <1>2 DEF Inv, SearchInvariant, Visited
<1>4. PICK first \in 1 .. Len(path) : path[first] = n
  BY DEF Inv, SearchInvariant, OpenOnPath
<1> DEFINE waiting == {path[i] : i \in first .. Len(path)}
<1>5. \A i \in first .. Len(path) : path[i] \in Nodes
  BY <1>2, <1>4 DEF Inv, TypeOK
<1>6. waiting \in (SUBSET Nodes) \ {{}}
  <2>1. n \in waiting
    BY <1>2, <1>4
  <2> QED
    BY <1>5, <2>1
<1>7. ASSUME NEW i \in first .. Len(path)
      PROVE  \E m \in waiting : m \in edges[path[i]] /\ m # path[i]
  <2>1. CASE i = Len(path)
    BY <1>2, <1>3, <1>4, <2>1
  <2>2. CASE i < Len(path)
    <3>1. i \in 1 .. Len(path) - 1 /\ i + 1 \in first .. Len(path)
      BY <1>2, <1>4, <2>2
    <3>2. path[i + 1] \in edges[path[i]] /\ path[i + 1] # path[i]
      BY <3>1 DEF Inv, SearchInvariant, Linked
    <3> QED
      BY <3>1, <3>2
  <2> QED
    BY <1>2, <2>1, <2>2
<1>8. \A item \in waiting : ~After(edges, Nodes \ waiting, item)
  BY <1>7 DEF After
<1> QED
  BY <1>6, <1>8 DEF Order!Stuck, EveryNode

(* _topological keeps the promise of ReferencesFirst for every graph: a     *)
(* return of visit places a node, the return of the outer loop finishes, an *)
(* open node is a refusal, every other step is a stutter.                   *)
THEOREM OrdersEveryGraph == Spec => OrdersReferencesFirst
<1>1. Init => Order!Init
  BY DEF Init, Order!Init
<1>2. Inv /\ [Next]_vars => [Order!Next]_<<edges, order, outcome>>
  <2> SUFFICES ASSUME Inv, [Next]_vars
               PROVE  [Order!Next]_<<edges, order, outcome>>
    OBVIOUS
  <2>1. ASSUME NEW n \in Nodes, Root(n) PROVE UNCHANGED <<edges, order, outcome>>
    BY <2>1 DEF Root
  <2>2. ASSUME NEW n \in Nodes, Follow(n)
        PROVE  UNCHANGED <<edges, order, outcome>> \/ Order!Refuse
    <3>1. UNCHANGED <<edges, order>> /\ outcome = "working"
      BY <2>2 DEF Follow, Working
    <3>2. CASE n # Current /\ state[n] = "open"
      BY <2>2, <3>1, <3>2, CycleIsStuck DEF Follow, Order!Refuse
    <3>3. CASE ~(n # Current /\ state[n] = "open")
      BY <2>2, <3>1, <3>3 DEF Follow
    <3> QED
      BY <3>2, <3>3
  <2>3. CASE UNCHANGED vars
    BY <2>3 DEF vars
  <2> QED
    BY <2>1, <2>2, <2>3, LeavePlaces, ReturnFinishes DEF Next, Terminated, Order!Next
<1> QED
  BY <1>1, <1>2, TypeCorrect, SearchIsWhereItsMarksSay, PTL
  DEF Spec, Inv, OrdersReferencesFirst, Order!Spec, Order!orderVars

=================================================================================
