---------------------------- MODULE ComponentSearch ----------------------------
(***************************************************************************)
(* How solve comes to the answers that SolverAnswers allows, over any      *)
(* language of predicates: a component is searched (search, smt/csp.py),   *)
(* and where that decides nothing Z3 is asked (_z3, smt/solve.py), with    *)
(* preferences that are released as they prove too many.                   *)
(***************************************************************************)
EXTENDS SolverAnswers, Integers

VARIABLES
  preferred,       \* <<input, most>>: an input had rather be no more than that
  phase,           \* what happens to the component: "next" when there is none
  component,       \* the component that is solved
  untried,         \* the values that options of the search still admit
  inconclusive,    \* whether a failure of the search proved nothing
  kept             \* the preferences Z3 has to keep

solving    == <<phase, component, untried, inconclusive, kept>>
searchVars == <<answerVars, preferred, solving>>

(* What solves a component, among the values its inputs may be given.       *)
Solutions(requirements) == {a \in Assignments(InputsOf(requirements)) : MeetsAll(a, requirements)}

---------------------------------------------------------------------------------
Idle ==
  /\ phase = "next"
  /\ component = {}
  /\ untried = {}
  /\ inconclusive = FALSE
  /\ kept = {}

SearchInit == Init /\ Idle

(* A component fails, and with it everything.                               *)
FailWith(answer) == Fail(answer) /\ Idle' /\ UNCHANGED preferred

(* The values of a component replace what there was (values.update).        *)
Updated(to) ==
  [name \in DOMAIN to \cup DOMAIN found |-> IF name \in DOMAIN to THEN to[name] ELSE found[name]]

Solved(to) ==
  /\ found' = Updated(to)
  /\ waiting' = waiting \ {component}
  /\ Idle'
  /\ UNCHANGED <<question, preferred, pc, given, seen, status>>

(* The values a step gives to inputs of the component.                      *)
Given == [name \in DOMAIN found' \cap InputsOf(component) |-> found'[name]]

(* Before the components and after them.                                    *)
Around ==
  /\ phase = "next"
  /\ Close \/ Closed \/ Split \/ Contradict \/ Answer
  /\ UNCHANGED <<preferred, solving>>

---------------------------------------------------------------------------------
(* The search.  Its formula admits every solution, and may be contradictory *)
(* as it stands.                                                            *)
Turn(to) ==
  /\ pc = "solve"
  /\ phase = "next"
  /\ phase' = to
  /\ component' \in waiting
  /\ inconclusive' = FALSE
  /\ kept' = {}
  /\ UNCHANGED <<answerVars, preferred>>

Enter ==
  /\ Turn("search")
  /\ Solutions(component') \subseteq untried'
  /\ untried' \subseteq Assignments(InputsOf(component'))

Contradictory ==
  /\ pc = "solve"
  /\ phase = "next"
  /\ FailWith("unsat")
  /\ \E p \in waiting : Solutions(p) = {}

(* Outside its fragment, or with too much to normalize, there is none.      *)
Skip == Turn("encode") /\ untried' = {}

(* Narrowing, propagating and branching lose no solution.                   *)
Narrow ==
  /\ phase = "search"
  /\ untried' \subseteq untried
  /\ untried \cap Solutions(component) \subseteq untried'
  /\ UNCHANGED <<answerVars, preferred, phase, component, inconclusive, kept>>

(* Values are picked and tried.  That they fail proves nothing of the rest. *)
Miss ==
  /\ phase = "search"
  /\ untried' \subseteq untried
  /\ inconclusive' = TRUE
  /\ UNCHANGED <<answerVars, preferred, phase, component, kept>>

Hit ==
  /\ phase = "search"
  /\ Solved(Given)
  /\ MeetsAll(Given, component)

(* Only a search that has seen every option proves that there is nothing.   *)
Exhausted ==
  /\ phase = "search"
  /\ untried = {}
  /\ ~inconclusive
  /\ FailWith("unsat")

Abandon ==
  /\ phase = "search"
  /\ phase' = "encode"
  /\ untried' = {}
  /\ inconclusive' = FALSE
  /\ UNCHANGED <<answerVars, preferred, component, kept>>

---------------------------------------------------------------------------------
(* Z3.  A requirement stands for its alternatives that can be encoded.      *)
KnownOf(r) == {t \in Alternatives(r) : Known(t)}
KnownInputs(requirements) == UNION {UNION {Mentions(t) : t \in KnownOf(r)} : r \in requirements}
MeetsKnown(a, requirements) == \A r \in requirements : \E t \in KnownOf(r) : IsMet(a, t)

Models == {a \in Assignments(KnownInputs(component)) : MeetsKnown(a, component)}
Keeps(a, preferences) == \A p \in preferences : a[p[1]] <= p[2]
Preferences == {p \in preferred : p[1] \in KnownInputs(component)}
CanKeep == \E a \in Models : Keeps(a, Preferences)

Unsupported ==
  /\ phase = "encode"
  /\ \E r \in component : KnownOf(r) = {}
  /\ FailWith("unsupported")

Encode ==
  /\ phase = "encode"
  /\ \A r \in component : KnownOf(r) # {}
  /\ phase' = "check"
  /\ kept' = Preferences
  /\ UNCHANGED <<answerVars, preferred, component, untried, inconclusive>>

CheckSat ==
  /\ phase = "check"
  /\ Solved(Given)
  /\ DOMAIN Given = KnownInputs(component)
  /\ MeetsKnown(Given, component)
  /\ Keeps(Given, kept)

(* A core is any set of preferences that no model keeps; all of it is       *)
(* released.                                                                *)
Release ==
  /\ phase = "check"
  /\ kept' \subseteq kept /\ kept' # kept
  /\ \A a \in Models : ~Keeps(a, kept \ kept')
  /\ UNCHANGED <<answerVars, preferred, phase, component, untried, inconclusive>>

CheckUnsat ==
  /\ phase = "check"
  /\ FailWith("unsat")
  /\ Models = {}

(* Its time is over: it starts anew, or gives up.                           *)
Restart ==
  /\ phase = "check"
  /\ kept' = Preferences
  /\ UNCHANGED <<answerVars, preferred, phase, component, untried, inconclusive>>

CheckUnknown == phase = "check" /\ FailWith("unknown")

SearchNext ==
  \/ Around
  \/ Enter \/ Contradictory \/ Skip \/ Narrow \/ Miss \/ Hit \/ Exhausted \/ Abandon
  \/ Unsupported \/ Encode \/ CheckSat \/ Release \/ CheckUnsat \/ Restart \/ CheckUnknown

SearchSpec == SearchInit /\ [][SearchNext]_searchVars

---------------------------------------------------------------------------------
(* Properties.                                                              *)

(* The values that Z3 gives keep all preferences (the absent inputs "prefer *)
(* zero", solve.py:56-59) if any values can, although whole cores are       *)
(* released and attempts start anew.                                        *)
KeptIfPossible == [][CheckSat => (CanKeep => Keeps(Given, Preferences))]_searchVars
=================================================================================
