---------------------------- MODULE ReferencesFirst ----------------------------
(***************************************************************************)
(* What ordering by references promises (parseval/db_manager.py): items    *)
(* are placed one by one, each once and after everything it refers to, a   *)
(* reference to itself aside, until all of them are; or ordering is        *)
(* refused, and then some of them really wait for each other.              *)
(***************************************************************************)
EXTENDS Sequences, SequencesExt

CONSTANTS
  Inputs,          \* what there is to order
  Items(_),        \* the items of an input
  Fits(_, _, _)    \* input, items placed before, item: it may come next

VARIABLES input, order, outcome

orderVars == <<input, order, outcome>>

Init ==
  /\ input \in Inputs
  /\ order = <<>>
  /\ outcome = "working"

Place ==
  /\ outcome = "working"
  /\ \E item \in Items(input) \ ToSet(order) :
       Fits(input, ToSet(order), item) /\ order' = Append(order, item)
  /\ UNCHANGED <<input, outcome>>

Finish ==
  /\ outcome = "working"
  /\ ToSet(order) = Items(input)
  /\ outcome' = "ordered"
  /\ UNCHANGED <<input, order>>

(* Some items cannot come next even after all the others. *)
Stuck ==
  \E waiting \in (SUBSET Items(input)) \ {{}} :
    \A item \in waiting : ~Fits(input, Items(input) \ waiting, item)

Refuse ==
  /\ outcome = "working"
  /\ Stuck
  /\ outcome' = "refused"
  /\ UNCHANGED <<input, order>>

Next == Place \/ Finish \/ Refuse

Spec == Init /\ [][Next]_orderVars

=================================================================================
