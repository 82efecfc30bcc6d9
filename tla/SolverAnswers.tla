----------------------------- MODULE SolverAnswers -----------------------------
(***************************************************************************)
(* What solve promises of its answers (smt/solve.py, its docstring), over  *)
(* any language of predicates: requirements, of each of which one          *)
(* alternative has to be TRUE, are closed under the integrity of           *)
(* the rows they mention and split into components that share no input;    *)
(* each component is solved by itself, by a search or a solver that is     *)
(* right when it decides; the first that fails is the answer, and it       *)
(* leaves nothing of the components solved before.                         *)
(***************************************************************************)
CONSTANTS
  Alternatives(_), \* the predicates of a requirement, one of which has to be TRUE
  Mentions(_),     \* the open inputs of a predicate
  IsTrue(_, _),    \* predicate, values of its inputs: whether it is TRUE
  Known(_)         \* whether the solver can encode a predicate

VARIABLES
  present,         \* the value each input has now
  possible,        \* the values each open input may be given
  pc,
  given,           \* the requirements: those asked for, then those of the closure too
  seen,            \* the inputs the closure has been asked about
  waiting,         \* the components that are not solved yet
  found,           \* the values of the components solved so far
  status

question == <<present, possible>>
answerVars == <<question, pc, given, seen, waiting, found, status>>

Inputs(r) == UNION {Mentions(t) : t \in Alternatives(r)}
InputsOf(requirements) == UNION {Inputs(r) : r \in requirements}

(* A predicate is met by some values if it is TRUE when the inputs they do  *)
(* not mention keep what they have.                                         *)
ValueOf(a, name) == IF name \in DOMAIN a THEN a[name] ELSE present[name]
IsMet(a, t) == IsTrue(t, [name \in Mentions(t) |-> ValueOf(a, name)])
Meets(a, r) == \E t \in Alternatives(r) : IsMet(a, t)
MeetsAll(a, requirements) == \A r \in requirements : Meets(a, r)

Assignments(names) ==
  {a \in [names -> UNION {possible[name] : name \in names}] :
     \A name \in names : a[name] \in possible[name]}

---------------------------------------------------------------------------------
Init ==
  /\ pc = "close"
  /\ seen = {}
  /\ waiting = {}
  /\ found = <<>>
  /\ status = "none"

(* A failure leaves nothing of the components solved before it. *)
Fail(answer) ==
  /\ pc' = "done"
  /\ status' = answer
  /\ found' = <<>>
  /\ UNCHANGED <<question, given, seen, waiting>>

(* The closure is asked about the inputs that are new, and may answer with   *)
(* requirements that mention more.                                           *)
Close ==
  /\ pc = "close"
  /\ InputsOf(given) \ seen # {}
  /\ seen' = seen \cup InputsOf(given)
  /\ given \subseteq given'
  /\ UNCHANGED <<question, pc, waiting, found, status>>

Closed ==
  /\ pc = "close"
  /\ InputsOf(given) \subseteq seen
  /\ pc' = "split"
  /\ UNCHANGED <<question, given, seen, waiting, found, status>>

(* The requirements with inputs, in parts that share none, none of which    *)
(* could be split further.                                                  *)
Connected(part) ==
  \A some \in (SUBSET InputsOf(part)) \ {{}, InputsOf(part)} :
    \E r \in part : Inputs(r) \cap some # {} /\ ~(Inputs(r) \subseteq some)

Decomposes(parts, requirements) ==
  /\ UNION parts = {r \in requirements : Inputs(r) # {}}
  /\ \A part \in parts : part # {} /\ Connected(part)
  /\ \A one, other \in parts : one # other => InputsOf(one) \cap InputsOf(other) = {}

Ground(requirements) == {r \in requirements : Inputs(r) = {}}

Split ==
  /\ pc = "split"
  /\ pc' = "solve"
  /\ MeetsAll(<<>>, Ground(given))
  /\ Decomposes(waiting', given)
  /\ UNCHANGED <<question, given, seen, found, status>>

Contradict ==
  /\ pc = "split"
  /\ Fail("unsat")
  /\ ~MeetsAll(<<>>, Ground(given))

(* Values for inputs of one component join those found before.              *)
Joins(part) ==
  /\ DOMAIN found \subseteq DOMAIN found'
  /\ DOMAIN found' \subseteq DOMAIN found \cup InputsOf(part)
  /\ found' = [name \in DOMAIN found' |-> IF name \in DOMAIN found THEN found[name] ELSE found'[name]]

Solve ==
  /\ pc = "solve"
  /\ \E part \in waiting :
       waiting' = waiting \ {part} /\ Joins(part) /\ MeetsAll(found', part)
  /\ UNCHANGED <<question, pc, given, seen, status>>

Answer ==
  /\ pc = "solve"
  /\ waiting = {}
  /\ pc' = "done"
  /\ status' = "sat"
  /\ UNCHANGED <<question, given, seen, waiting, found>>

(* No values of its inputs meet it, unless an alternative was left out.     *)
Encodable(r) == \A t \in Alternatives(r) : Known(t)
Refutable(part) ==
  (\A r \in part : Encodable(r)) => \A a \in Assignments(InputsOf(part)) : ~MeetsAll(a, part)

Refute ==
  /\ pc = "solve"
  /\ Fail("unsat")
  /\ \E part \in waiting : Refutable(part)

GiveUp ==
  /\ pc = "solve"
  /\ waiting # {}
  /\ \E answer \in {"unknown", "unsupported"} : Fail(answer)

Next == Close \/ Closed \/ Split \/ Contradict \/ Solve \/ Answer \/ Refute \/ GiveUp

Spec == Init /\ [][Next]_answerVars

---------------------------------------------------------------------------------
(* Properties.                                                              *)

(* SAT: "open input values making one predicate of every requirement TRUE", *)
(* although no component was solved together with another one. Every input  *)
(* that is mentioned has had its closure, and no other one gets a value.    *)
SatMeetsAll ==
  status = "sat" =>
    MeetsAll(found, given) /\ DOMAIN found \subseteq InputsOf(given) /\ InputsOf(given) \subseteq seen

(* UNSAT: no values of the open inputs meet all requirements, although only *)
(* one component was looked at.                                             *)
UnsatRefutesAll == status = "unsat" => Refutable(given)

(* No answer but SAT comes with values: half a solution is none.            *)
FailureLeavesNothing == pc = "done" /\ status # "sat" => found = <<>>
=================================================================================
