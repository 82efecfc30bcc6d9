------------------------------ MODULE Topological ------------------------------
(***************************************************************************)
(* _topological of parseval/db_manager.py: a depth-first search over the   *)
(* foreign keys among tables, step by step. path is the stack of visit's   *)
(* calls, whose nodes are the path argument followed by the node. Which    *)
(* node a loop takes next is a choice: edges holds sets, which Python      *)
(* iterates in no fixed order.                                             *)
(***************************************************************************)
EXTENDS Naturals, Sequences, SequencesExt

CONSTANT Nodes

VARIABLES
  edges,     \* [Nodes -> the nodes a node points to]
  roots,     \* nodes the outer loop has yet to visit
  path,      \* open calls of visit, outermost first
  todo,      \* [Nodes -> what the loop of a node's call has yet to visit]
  state,     \* [Nodes -> "new", "open", "done"]
  order,
  outcome

vars == <<edges, roots, path, todo, state, order, outcome>>

Init ==
  /\ edges \in [Nodes -> SUBSET Nodes]
  /\ roots = Nodes
  /\ path = <<>>
  /\ todo = edges
  /\ state = [n \in Nodes |-> "new"]
  /\ order = <<>>
  /\ outcome = "working"

Working == outcome = "working"
Current == path[Len(path)]

(* visit of a new node. *)
Open(n) ==
  /\ path' = Append(path, n)
  /\ state' = [state EXCEPT ![n] = "open"]

(* The outer loop; no call is open, so no node is. *)
Root(n) ==
  /\ Working /\ path = <<>>
  /\ n \in roots
  /\ roots' = roots \ {n}
  /\ IF state[n] = "new" THEN Open(n) ELSE UNCHANGED <<path, state>>
  /\ UNCHANGED <<edges, todo, order, outcome>>

(* The bug of not looking for open nodes. *)
FollowUnseen(n) ==
  /\ Working /\ path # <<>>
  /\ n \in todo[Current]
  /\ todo' = [todo EXCEPT ![Current] = @ \ {n}]
  /\ IF n # Current /\ state[n] = "new" THEN Open(n) ELSE UNCHANGED <<path, state>>
  /\ UNCHANGED <<edges, roots, order, outcome>>

(* The inner loop: the node itself and what is done are skipped; an open    *)
(* node closes a cycle.                                                     *)
Follow(n) ==
  /\ Working /\ path # <<>>
  /\ n \in todo[Current]
  /\ todo' = [todo EXCEPT ![Current] = @ \ {n}]
  /\ IF n # Current /\ state[n] = "new" THEN Open(n) ELSE UNCHANGED <<path, state>>
  /\ outcome' = IF n # Current /\ state[n] = "open" THEN "refused" ELSE outcome
  /\ UNCHANGED <<edges, roots, order>>

(* The bug of leaving a node open. *)
LeaveOpen ==
  /\ Working /\ path # <<>>
  /\ todo[Current] = {}
  /\ path' = SubSeq(path, 1, Len(path) - 1)
  /\ order' = Append(order, Current)
  /\ UNCHANGED <<edges, roots, todo, state, outcome>>

Leave ==
  /\ Working /\ path # <<>>
  /\ todo[Current] = {}
  /\ path' = SubSeq(path, 1, Len(path) - 1)
  /\ state' = [state EXCEPT ![Current] = "done"]
  /\ order' = Append(order, Current)
  /\ UNCHANGED <<edges, roots, todo, outcome>>

(* The bug of searching from one node only. *)
ReturnEarly ==
  /\ Working /\ path = <<>> /\ roots # Nodes
  /\ outcome' = "ordered"
  /\ UNCHANGED <<edges, roots, path, todo, state, order>>

Return ==
  /\ Working /\ path = <<>> /\ roots = {}
  /\ outcome' = "ordered"
  /\ UNCHANGED <<edges, roots, path, todo, state, order>>

Terminated == outcome # "working" /\ UNCHANGED vars

Next == (\E n \in Nodes : Root(n) \/ Follow(n)) \/ Leave \/ Return \/ Terminated

Spec == Init /\ [][Next]_vars

(* One thread runs it. *)
FairSpec == Spec /\ WF_vars(Next)

---------------------------------------------------------------------------------
(* Properties.                                                              *)

TypeOK ==
  /\ edges \in [Nodes -> SUBSET Nodes]
  /\ roots \in SUBSET Nodes
  /\ path \in Seq(Nodes)
  /\ todo \in [Nodes -> SUBSET Nodes]
  /\ state \in [Nodes -> {"new", "open", "done"}]
  /\ order \in Seq(Nodes)
  /\ outcome \in {"working", "ordered", "refused"}

(* The search is where its marks say: the open nodes are the calls on the   *)
(* stack, each reached from the one before it, the done nodes are those     *)
(* ordered, what an open node's loop has passed is done or is the next call,*)
(* and a new node waits for the outer loop or another's, untouched.         *)
OpenOnPath ==
  /\ \A n \in Nodes : state[n] = "open" <=> \E i \in 1 .. Len(path) : path[i] = n
  /\ \A i, j \in 1 .. Len(path) : path[i] = path[j] => i = j

Linked ==
  \A i \in 1 .. Len(path) - 1 :
    path[i + 1] \in edges[path[i]] /\ path[i + 1] # path[i]

DoneInOrder ==
  /\ \A n \in Nodes : state[n] = "done" <=> \E i \in 1 .. Len(order) : order[i] = n
  /\ \A i, j \in 1 .. Len(order) : order[i] = order[j] => i = j

Passed ==
  \A i \in 1 .. Len(path) : \A n \in edges[path[i]] \ todo[path[i]] :
    \/ n = path[i]
    \/ state[n] = "done"
    \/ i < Len(path) /\ path[i + 1] = n
    \/ outcome = "refused"

Visited ==
  /\ \A n \in Nodes \ roots : state[n] # "new"
  /\ \A n \in Nodes : todo[n] \subseteq edges[n] /\ (state[n] = "new" => todo[n] = edges[n])

SearchInvariant == OpenOnPath /\ Linked /\ DoneInOrder /\ Passed /\ Visited

(* _topological: "Nodes with every node they point to first; a cycle cannot *)
(* be ordered". Every node is placed once and after all it points to, the   *)
(* result is complete, and only a real cycle is refused.                    *)
After(graph, placed, n) == graph[n] \ {n} \subseteq placed
EveryNode(graph) == Nodes

Order == INSTANCE ReferencesFirst WITH
  Inputs <- [Nodes -> SUBSET Nodes], Items <- EveryNode, Fits <- After,
  input <- edges
OrdersReferencesFirst == Order!Spec

(* A cycle is never overlooked, and the search ends. *)
Cyclic ==
  \E waiting \in (SUBSET Nodes) \ {{}} : \A n \in waiting : (edges[n] \ {n}) \cap waiting # {}
EndsRight == <>(outcome = IF Cyclic THEN "refused" ELSE "ordered")

=================================================================================
