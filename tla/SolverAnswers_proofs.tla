--------------------------- MODULE SolverAnswers_proofs ---------------------------
(***************************************************************************)
(* Whatever the language of predicates and the inputs, solving the         *)
(* components one by one solves all requirements: SAT meets them all, and  *)
(* UNSAT refutes them.  Searching a component and asking Z3 solves it.     *)
(***************************************************************************)
EXTENDS ComponentSearch, TLAPS

(* An answer comes last, and values with the first component. *)
Answered ==
  /\ pc \in {"close", "split", "solve", "done"}
  /\ pc # "done" => status = "none"
  /\ pc \in {"close", "split"} => found = <<>>

(* The closure has been asked about every input there is a value for. *)
Mentioned ==
  /\ DOMAIN found \subseteq InputsOf(given)
  /\ pc # "close" => InputsOf(given) \subseteq seen

(* The components left share no input. *)
Apart ==
  pc = "solve" =>
    /\ \A part \in waiting : part \subseteq given
    /\ \A one, other \in waiting : one # other => InputsOf(one) \cap InputsOf(other) = {}

(* A requirement of none of them is met, and shares no input with them. *)
Settled ==
  pc = "solve" =>
    \A r \in given : (\A part \in waiting : r \notin part) =>
      Meets(found, r) /\ \A part \in waiting : Inputs(r) \cap InputsOf(part) = {}

AnswerInvariant ==
  Answered /\ Mentioned /\ Apart /\ Settled /\ SatMeetsAll /\ UnsatRefutesAll /\ FailureLeavesNothing

----------------------------------------------------------------------------------
(* Values.                                                                  *)

(* Values that agree on the inputs of a requirement meet it alike. *)
LEMMA MeetsIsLocal ==
  ASSUME NEW a, NEW b, NEW r, \A name \in Inputs(r) : ValueOf(a, name) = ValueOf(b, name)
  PROVE  Meets(a, r) <=> Meets(b, r)
<1>1. ASSUME NEW t \in Alternatives(r) PROVE IsMet(a, t) <=> IsMet(b, t)
  <2>1. \A name \in Mentions(t) : ValueOf(a, name) = ValueOf(b, name)
    BY DEF Inputs
  <2>2. [name \in Mentions(t) |-> ValueOf(a, name)] = [name \in Mentions(t) |-> ValueOf(b, name)]
    BY <2>1
  <2> QED
    BY <2>2 DEF IsMet
<1> QED
  BY <1>1 DEF Meets

(* What meets more requirements meets fewer with the values of their inputs. *)
LEMMA Restriction ==
  ASSUME NEW requirements, NEW part \in SUBSET requirements,
         NEW a \in Assignments(InputsOf(requirements)), MeetsAll(a, requirements)
  PROVE  \E b \in Assignments(InputsOf(part)) : MeetsAll(b, part)
<1> DEFINE b == [name \in InputsOf(part) |-> a[name]]
<1>1. InputsOf(part) \subseteq InputsOf(requirements)
  BY DEF InputsOf
<1>2. DOMAIN a = InputsOf(requirements) /\ \A name \in InputsOf(requirements) : a[name] \in possible[name]
  BY DEF Assignments
<1>3. b \in Assignments(InputsOf(part))
  BY <1>1, <1>2 DEF Assignments
<1>4. ASSUME NEW r \in part PROVE Meets(b, r)
  <2>1. Inputs(r) \subseteq InputsOf(part)
    BY DEF InputsOf
  <2>2. \A name \in Inputs(r) : ValueOf(a, name) = ValueOf(b, name)
    BY <1>1, <1>2, <2>1 DEF ValueOf
  <2>3. Meets(a, r)
    BY DEF MeetsAll
  <2> QED
    BY <2>2, <2>3, MeetsIsLocal
<1> QED
  BY <1>3, <1>4 DEF MeetsAll

(* A part that is refuted refutes all requirements. *)
LEMMA PartRefutes ==
  ASSUME NEW part \in SUBSET given, Refutable(part)
  PROVE  Refutable(given)
<1>1. SUFFICES ASSUME \A r \in given : Encodable(r)
               PROVE  \A a \in Assignments(InputsOf(given)) : ~MeetsAll(a, given)
  BY DEF Refutable
<1>2. \A b \in Assignments(InputsOf(part)) : ~MeetsAll(b, part)
  BY <1>1 DEF Refutable
<1> QED
  BY <1>2, Restriction

----------------------------------------------------------------------------------
(* The steps.                                                               *)

(* The components are apart, and what is in none has no inputs and is met. *)
LEMMA SplitKeeps ==
  ASSUME AnswerInvariant, Split
  PROVE  AnswerInvariant'
<1> USE DEF Split, AnswerInvariant, question
<1>1. pc' = "solve" /\ status' = "none" /\ found' = <<>> /\ found = <<>>
  BY DEF Answered
<1>2. Answered' /\ Mentioned'
  BY <1>1 DEF Answered, Mentioned
<1>3. Apart'
  BY DEF Apart, Decomposes
<1>4. ASSUME NEW r \in given, \A part \in waiting' : r \notin part
      PROVE  Meets(found, r) /\ \A part \in waiting' : Inputs(r) \cap InputsOf(part) = {}
  <2>1. Inputs(r) = {}
    BY <1>4 DEF Decomposes
  <2> QED
    BY <1>1, <2>1 DEF MeetsAll, Ground
<1>5. Settled'
  BY <1>1, <1>4 DEF Settled, Meets, IsMet, ValueOf
<1> QED
  BY <1>1, <1>2, <1>3, <1>5 DEF SatMeetsAll, UnsatRefutesAll, FailureLeavesNothing

(* Values of one component leave the requirements met before as they are.   *)
LEMMA SolveKeeps ==
  ASSUME AnswerInvariant, Solve
  PROVE  AnswerInvariant'
<1> USE DEF Solve, AnswerInvariant, question
<1>1. PICK solved \in waiting : Joins(solved) /\ MeetsAll(found', solved) /\ waiting' = waiting \ {solved}
  OBVIOUS
<1>2. pc = "solve" /\ pc' = "solve" /\ status' = "none"
  BY DEF Answered
<1>3. solved \subseteq given /\ InputsOf(solved) \subseteq InputsOf(given)
  BY <1>2 DEF Apart, InputsOf
<1>4. Answered' /\ Mentioned'
  BY <1>1, <1>2, <1>3 DEF Answered, Mentioned, Joins
<1>5. Apart'
  BY <1>1 DEF Apart
<1>6. ASSUME NEW name, name \notin InputsOf(solved)
      PROVE  ValueOf(found, name) = ValueOf(found, name)'
  BY <1>1, <1>6 DEF Joins, ValueOf
<1>7. ASSUME NEW r \in given, \A part \in waiting' : r \notin part
      PROVE  Meets(found, r)' /\ \A part \in waiting' : Inputs(r) \cap InputsOf(part) = {}
  <2>1. CASE r \in solved
    <3>1. Meets(found, r)'
      BY <1>1, <2>1 DEF MeetsAll, Meets, IsMet, ValueOf
    <3>2. Inputs(r) \subseteq InputsOf(solved)
      BY <2>1 DEF InputsOf
    <3>3. \A part \in waiting' : InputsOf(part) \cap InputsOf(solved) = {}
      BY <1>1, <1>2 DEF Apart
    <3> QED
      BY <3>1, <3>2, <3>3
  <2>2. CASE r \notin solved
    <3>1. Meets(found, r) /\ \A part \in waiting : Inputs(r) \cap InputsOf(part) = {}
      BY <1>1, <1>2, <1>7, <2>2 DEF Settled
    <3>2. \A name \in Inputs(r) : ValueOf(found, name) = ValueOf(found, name)'
      BY <1>1, <1>6, <3>1
    <3>3. \A name \in Inputs(r) : ValueOf(found, name) = ValueOf(found', name)
      BY <3>2 DEF ValueOf
    <3>4. Meets(found', r)
      BY <3>1, <3>3, MeetsIsLocal
    <3>5. Meets(found, r)'
      BY <3>4 DEF Meets, IsMet, ValueOf
    <3> QED
      BY <1>1, <3>1, <3>5
  <2> QED
    BY <2>1, <2>2
<1>8. Settled'
  BY <1>7 DEF Settled
<1> QED
  BY <1>2, <1>4, <1>5, <1>8 DEF SatMeetsAll, UnsatRefutesAll, FailureLeavesNothing

(* With no component left, every requirement is met. *)
LEMMA AnswerKeeps ==
  ASSUME AnswerInvariant, Answer
  PROVE  AnswerInvariant'
<1> USE DEF Answer, AnswerInvariant, question
<1>1. Answered' /\ Mentioned' /\ Apart' /\ Settled'
  BY DEF Answered, Mentioned, Apart, Settled
<1>2. MeetsAll(found, given)
  BY DEF Settled, MeetsAll
<1>3. SatMeetsAll'
  BY <1>2 DEF SatMeetsAll, Mentioned, MeetsAll, Meets, IsMet, ValueOf
<1> QED
  BY <1>1, <1>3 DEF UnsatRefutesAll, FailureLeavesNothing

(* A failure keeps the requirements and has no values. *)
LEMMA FailKeeps ==
  ASSUME AnswerInvariant, pc # "close",
         NEW answer \in {"unsat", "unknown", "unsupported"}, Fail(answer),
         answer = "unsat" => Refutable(given)
  PROVE  AnswerInvariant'
<1> USE DEF Fail, AnswerInvariant, question
<1>1. pc' = "done" /\ status' = answer /\ found' = <<>> /\ given' = given /\ possible' = possible
      /\ present' = present /\ waiting' = waiting /\ seen' = seen
  OBVIOUS
<1>2. DOMAIN found' = {}
  BY <1>1
<1>3. InputsOf(given) \subseteq seen
  BY DEF Mentioned
<1>4. UnsatRefutesAll'
  BY <1>1 DEF UnsatRefutesAll, Refutable, Assignments, MeetsAll, Meets, IsMet, ValueOf
<1> QED
  BY <1>1, <1>2, <1>3, <1>4 DEF Answered, Mentioned, Apart, Settled, SatMeetsAll, FailureLeavesNothing

(* A requirement without inputs holds for all values or for none. *)
LEMMA ContradictKeeps ==
  ASSUME AnswerInvariant, Contradict
  PROVE  AnswerInvariant'
<1>1. PICK r \in Ground(given) : ~Meets(<<>>, r)
  BY DEF Contradict, MeetsAll
<1>2. ASSUME NEW a PROVE ~MeetsAll(a, given)
  <2>1. r \in given /\ Inputs(r) = {}
    BY DEF Ground
  <2>2. ~Meets(a, r)
    BY <1>1, <2>1, MeetsIsLocal
  <2> QED
    BY <2>1, <2>2 DEF MeetsAll
<1>3. Refutable(given)
  BY <1>2 DEF Refutable
<1> QED
  BY <1>3, FailKeeps DEF Contradict

(* UNSAT of a component is UNSAT of all. *)
LEMMA RefuteKeeps ==
  ASSUME AnswerInvariant, Refute
  PROVE  AnswerInvariant'
<1>1. PICK part \in waiting : Refutable(part)
  BY DEF Refute
<1>2. part \subseteq given
  BY DEF Refute, AnswerInvariant, Apart
<1>3. Refutable(given)
  BY <1>1, <1>2, PartRefutes
<1> QED
  BY <1>3, FailKeeps DEF Refute

(* The invariant, for any question. *)
LEMMA StepKeeps ==
  ASSUME AnswerInvariant, [Next]_answerVars
  PROVE  AnswerInvariant'
<1>1. CASE Close
  <2>1. pc' = "close" /\ status' = "none" /\ found' = <<>> /\ DOMAIN found' = {}
    BY <1>1 DEF Close, AnswerInvariant, Answered
  <2> QED
    BY <2>1 DEF AnswerInvariant, Answered, Mentioned, Apart, Settled,
                SatMeetsAll, UnsatRefutesAll, FailureLeavesNothing
<1>2. CASE Closed
  <2>1. pc' = "split" /\ status' = "none" /\ found' = <<>> /\ DOMAIN found' = {}
        /\ InputsOf(given') \subseteq seen'
    BY <1>2 DEF Closed, AnswerInvariant, Answered
  <2> QED
    BY <2>1 DEF AnswerInvariant, Answered, Mentioned, Apart, Settled,
                SatMeetsAll, UnsatRefutesAll, FailureLeavesNothing
<1>3. CASE Split
  BY <1>3, SplitKeeps
<1>4. CASE Contradict
  BY <1>4, ContradictKeeps
<1>5. CASE Solve
  BY <1>5, SolveKeeps
<1>6. CASE Answer
  BY <1>6, AnswerKeeps
<1>7. CASE Refute
  BY <1>7, RefuteKeeps
<1>8. CASE GiveUp
  BY <1>8, FailKeeps DEF GiveUp
<1>9. CASE UNCHANGED answerVars
  BY <1>9 DEF answerVars, question, AnswerInvariant, Answered, Mentioned, Apart, Settled,
              SatMeetsAll, UnsatRefutesAll, FailureLeavesNothing, Refutable, Assignments,
              MeetsAll, Meets, IsMet, ValueOf
<1> QED
  BY <1>1, <1>2, <1>3, <1>4, <1>5, <1>6, <1>7, <1>8, <1>9 DEF Next

(* Nothing is answered at first. *)
LEMMA StartsRight == Init => AnswerInvariant
<1> SUFFICES ASSUME Init PROVE AnswerInvariant
  OBVIOUS
<1>1. DOMAIN found = {}
  BY DEF Init
<1> QED
  BY <1>1 DEF Init, AnswerInvariant, Answered, Mentioned, Apart, Settled,
              SatMeetsAll, UnsatRefutesAll, FailureLeavesNothing

LEMMA AnswersAreRight == Spec => []AnswerInvariant
<1>1. AnswerInvariant /\ [Next]_answerVars => AnswerInvariant'
  BY StepKeeps
<1> QED
  BY <1>1, StartsRight, PTL DEF Spec

(* SAT comes with values that meet every requirement, although components   *)
(* were solved one by one (solve, smt/solve.py:69-87).                      *)
THEOREM SatMeetsEverything == Spec => []SatMeetsAll
<1>1. AnswerInvariant => SatMeetsAll
  BY DEF AnswerInvariant
<1> QED
  BY <1>1, AnswersAreRight, PTL

(* UNSAT of one component, or of a requirement without inputs, refutes the  *)
(* whole question (smt/solve.py:71-78).                                     *)
THEOREM UnsatRefutesEverything == Spec => []UnsatRefutesAll
<1>1. AnswerInvariant => UnsatRefutesAll
  BY DEF AnswerInvariant
<1> QED
  BY <1>1, AnswersAreRight, PTL

(* A component that fails leaves no values of those solved before it        *)
(* (smt/solve.py:84-85).                                                    *)
THEOREM NoHalfSolution == Spec => []FailureLeavesNothing
<1>1. AnswerInvariant => FailureLeavesNothing
  BY DEF AnswerInvariant
<1> QED
  BY <1>1, AnswersAreRight, PTL

----------------------------------------------------------------------------------
(* Searching a component, and asking Z3.                                    *)

(* The component is one of those left. *)
InComponent ==
  /\ phase \in {"next", "search", "encode", "check"}
  /\ phase # "next" => pc = "solve" /\ component \in waiting

(* What the search has left admits every solution, until it gives one up. *)
Admits == phase = "search" /\ ~inconclusive => Solutions(component) \subseteq untried

(* No component that is left has values already. *)
Fresh == pc = "solve" => \A p \in waiting : DOMAIN found \cap InputsOf(p) = {}

(* While some model keeps every preference there is, none is released. *)
KeepsAll == phase = "check" => kept \subseteq Preferences /\ (CanKeep => kept = Preferences)

SearchInvariant == AnswerInvariant /\ InComponent /\ Admits /\ Fresh /\ KeepsAll

----------------------------------------------------------------------------------
(* Every step of the search is one that SolverAnswers allows.               *)

(* Values of a component that has none meet it among those found before. *)
LEMMA SolvedSolves ==
  ASSUME InComponent, Fresh, phase # "next", Solved(Given), MeetsAll(Given, component)
  PROVE  Solve
<1> DEFINE a == Given
<1>1. pc = "solve" /\ component \in waiting
  BY DEF InComponent
<1>2. found' = Updated(a) /\ waiting' = waiting \ {component}
      /\ UNCHANGED <<question, pc, given, seen, status>>
  BY DEF Solved
<1>3. DOMAIN a \subseteq InputsOf(component) /\ DOMAIN found \cap InputsOf(component) = {}
  BY <1>1 DEF Given, Fresh
<1>4. DOMAIN found' = DOMAIN a \cup DOMAIN found
  BY <1>2 DEF Updated
<1>5. Joins(component)
  <2>1. \A name \in DOMAIN found : found'[name] = found[name]
    BY <1>2, <1>3 DEF Updated
  <2>2. found' = [name \in DOMAIN found' |-> found'[name]]
    BY <1>2 DEF Updated
  <2>3. found' = [name \in DOMAIN found' |-> IF name \in DOMAIN found THEN found[name] ELSE found'[name]]
    BY <2>1, <2>2
  <2> QED
    BY <1>3, <1>4, <2>3 DEF Joins
<1>6. ASSUME NEW name \in InputsOf(component) PROVE ValueOf(found', name) = ValueOf(a, name)
  BY <1>2, <1>3, <1>4 DEF ValueOf, Updated
<1>7. ASSUME NEW r \in component PROVE Meets(found', r)
  <2>1. Inputs(r) \subseteq InputsOf(component)
    BY DEF InputsOf
  <2>2. \A name \in Inputs(r) : ValueOf(found', name) = ValueOf(a, name)
    BY <1>6, <2>1
  <2> QED
    BY <2>2, MeetsIsLocal DEF MeetsAll
<1>8. MeetsAll(found', component)
  BY <1>7 DEF MeetsAll
<1> QED
  BY <1>1, <1>2, <1>5, <1>8 DEF Solve

(* What is met with alternatives that are known is met. *)
LEMMA KnownMeets ==
  ASSUME NEW a, NEW requirements, MeetsKnown(a, requirements)
  PROVE  MeetsAll(a, requirements)
BY DEF MeetsKnown, MeetsAll, Meets, KnownOf

(* A component without models has no solutions, if all alternatives are known. *)
LEMMA NoModels ==
  ASSUME Models = {}
  PROVE  Refutable(component)
<1> SUFFICES ASSUME \A r \in component : Encodable(r),
                    NEW a \in Assignments(InputsOf(component)), MeetsAll(a, component)
             PROVE  FALSE
  BY DEF Refutable
<1>1. \A r \in component : KnownOf(r) = Alternatives(r)
  BY DEF KnownOf, Encodable
<1>2. KnownInputs(component) = InputsOf(component)
  BY <1>1 DEF KnownInputs, InputsOf, Inputs
<1>3. MeetsKnown(a, component)
  BY <1>1 DEF MeetsKnown, MeetsAll, Meets
<1> QED
  BY <1>2, <1>3 DEF Models

(* Without solutions a component is refuted. *)
LEMMA NoSolutions ==
  ASSUME NEW p, Solutions(p) = {}
  PROVE  Refutable(p)
BY DEF Solutions, Refutable

(* Each step keeps the answer as it was, or is a step of SolverAnswers. *)
LEMMA StepAnswers ==
  ASSUME SearchInvariant, [SearchNext]_searchVars
  PROVE  [Next]_answerVars
<1> USE DEF SearchInvariant
<1>1. CASE Around
  BY <1>1 DEF Around, Next
<1>2. CASE Contradictory
  BY <1>2, NoSolutions DEF Contradictory, FailWith, Refute, Next
<1>3. CASE Hit
  BY <1>3, SolvedSolves DEF Hit, Next
<1>4. CASE Exhausted
  <2>1. component \in waiting /\ pc = "solve"
    BY <1>4 DEF Exhausted, InComponent
  <2>2. Solutions(component) = {}
    BY <1>4 DEF Exhausted, Admits
  <2> QED
    BY <1>4, <2>1, <2>2, NoSolutions DEF Exhausted, FailWith, Refute, Next
<1>5. CASE CheckSat
  BY <1>5, SolvedSolves, KnownMeets DEF CheckSat, Next
<1>6. CASE CheckUnsat
  <2>1. component \in waiting /\ pc = "solve"
    BY <1>6 DEF CheckUnsat, InComponent
  <2> QED
    BY <1>6, <2>1, NoModels DEF CheckUnsat, FailWith, Refute, Next
<1>7. CASE Unsupported \/ CheckUnknown
  <2>1. component \in waiting /\ pc = "solve"
    BY <1>7 DEF Unsupported, CheckUnknown, InComponent
  <2> QED
    BY <1>7, <2>1 DEF Unsupported, CheckUnknown, FailWith, GiveUp, Next
<1>8. CASE Enter \/ Skip \/ Narrow \/ Miss \/ Abandon \/ Encode \/ Release \/ Restart
  BY <1>8 DEF Enter, Skip, Turn, Narrow, Miss, Abandon, Encode, Release, Restart
<1>9. CASE UNCHANGED searchVars
  BY <1>9 DEF searchVars
<1> QED
  BY <1>1, <1>2, <1>3, <1>4, <1>5, <1>6, <1>7, <1>8, <1>9 DEF SearchNext

----------------------------------------------------------------------------------
(* The invariant.                                                           *)

(* A step that leaves the component is not in one. *)
LEMMA LeavesComponent ==
  ASSUME phase' = "next"
  PROVE  InComponent' /\ Admits' /\ KeepsAll'
BY DEF InComponent, Admits, KeepsAll

(* The step is in a component that is left, or in none. *)
LEMMA ComponentKept ==
  ASSUME SearchInvariant, [SearchNext]_searchVars
  PROVE  InComponent'
<1> USE DEF SearchInvariant
<1>1. CASE Around
  BY <1>1, LeavesComponent DEF Around, solving
<1>2. CASE Contradictory \/ Exhausted \/ Unsupported \/ CheckUnsat \/ CheckUnknown
  BY <1>2, LeavesComponent DEF Contradictory, Exhausted, Unsupported, CheckUnsat, CheckUnknown, FailWith, Idle
<1>3. CASE Hit \/ CheckSat
  BY <1>3, LeavesComponent DEF Hit, CheckSat, Solved, Idle
<1>4. CASE Enter \/ Skip
  BY <1>4 DEF Enter, Skip, Turn, answerVars, InComponent
<1>5. CASE Narrow \/ Miss \/ Abandon \/ Encode \/ Release \/ Restart
  BY <1>5 DEF Narrow, Miss, Abandon, Encode, Release, Restart, answerVars, InComponent
<1>6. CASE UNCHANGED searchVars
  BY <1>6 DEF searchVars, solving, answerVars, InComponent
<1> QED
  BY <1>1, <1>2, <1>3, <1>4, <1>5, <1>6 DEF SearchNext

(* What solves a component depends on the question alone. *)
LEMMA SameSolutions ==
  ASSUME UNCHANGED <<question, component>>
  PROVE  Solutions(component)' = Solutions(component)
BY DEF Solutions, Assignments, InputsOf, Inputs, MeetsAll, Meets, IsMet, ValueOf, question

(* The search loses no solution unless it says so. *)
LEMMA AdmitsKept ==
  ASSUME SearchInvariant, [SearchNext]_searchVars
  PROVE  Admits'
<1> USE DEF SearchInvariant
<1>1. CASE Around
  BY <1>1, LeavesComponent DEF Around, solving
<1>2. CASE Contradictory \/ Exhausted \/ Unsupported \/ CheckUnsat \/ CheckUnknown
  BY <1>2, LeavesComponent DEF Contradictory, Exhausted, Unsupported, CheckUnsat, CheckUnknown, FailWith, Idle
<1>3. CASE Hit \/ CheckSat
  BY <1>3, LeavesComponent DEF Hit, CheckSat, Solved, Idle
<1>4. CASE Enter
  BY <1>4 DEF Enter, Turn, Admits, Solutions, Assignments, InputsOf, Inputs, MeetsAll, Meets, IsMet,
              ValueOf, question, answerVars
<1>5. CASE Narrow
  <2>1. Solutions(component)' = Solutions(component)
    BY <1>5, SameSolutions DEF Narrow, answerVars
  <2> QED
    BY <1>5, <2>1 DEF Narrow, Admits
<1>6. CASE Miss
  BY <1>6 DEF Miss, Admits
<1>7. CASE Skip \/ Abandon \/ Encode \/ Release \/ Restart
  BY <1>7 DEF Skip, Turn, Abandon, Encode, Release, Restart, Admits
<1>8. CASE UNCHANGED searchVars
  <2>1. Solutions(component)' = Solutions(component)
    BY <1>8, SameSolutions DEF searchVars, answerVars, solving
  <2> QED
    BY <1>8, <2>1 DEF searchVars, solving, Admits
<1> QED
  BY <1>1, <1>2, <1>3, <1>4, <1>5, <1>6, <1>7, <1>8 DEF SearchNext

(* Values are those of components that are not left. *)
LEMMA FreshKept ==
  ASSUME SearchInvariant, [Next]_answerVars
  PROVE  Fresh'
<1> USE DEF SearchInvariant
<1>1. CASE Close \/ Closed \/ Contradict \/ Answer \/ Refute \/ GiveUp
  BY <1>1 DEF Close, Closed, Contradict, Answer, Refute, GiveUp, Fail, Fresh
<1>2. CASE Split
  <2>1. DOMAIN found' = {}
    BY <1>2 DEF Split, AnswerInvariant, Answered
  <2> QED
    BY <2>1 DEF Fresh
<1>3. CASE Solve
  <2>1. PICK solved \in waiting : Joins(solved) /\ waiting' = waiting \ {solved}
    BY <1>3 DEF Solve
  <2>2. DOMAIN found' \subseteq DOMAIN found \cup InputsOf(solved)
    BY <2>1 DEF Joins
  <2>3. ASSUME NEW p \in waiting' PROVE DOMAIN found' \cap InputsOf(p) = {}
    <3>1. p \in waiting /\ p # solved
      BY <2>1, <2>3
    <3>2. InputsOf(p) \cap InputsOf(solved) = {} /\ DOMAIN found \cap InputsOf(p) = {}
      BY <1>3, <3>1 DEF Solve, AnswerInvariant, Apart, Fresh
    <3> QED
      BY <2>2, <3>2
  <2> QED
    BY <2>3 DEF Fresh, InputsOf, Inputs
<1>4. CASE UNCHANGED answerVars
  BY <1>4 DEF answerVars, Fresh
<1> QED
  BY <1>1, <1>2, <1>3, <1>4 DEF Next

(* What is preferred of a component, and whether it can be kept, too. *)
LEMMA SamePreferences ==
  ASSUME UNCHANGED <<question, preferred, component>>
  PROVE  UNCHANGED <<Preferences, CanKeep>>
BY DEF CanKeep, Preferences, Models, Keeps, MeetsKnown, Assignments, KnownInputs, KnownOf, IsMet,
       ValueOf, question

(* A core that no model keeps is not among preferences that one does. *)
LEMMA KeepsAllKept ==
  ASSUME SearchInvariant, [SearchNext]_searchVars
  PROVE  KeepsAll'
<1> USE DEF SearchInvariant
<1>1. CASE Around
  BY <1>1, LeavesComponent DEF Around, solving
<1>2. CASE Contradictory \/ Exhausted \/ Unsupported \/ CheckUnsat \/ CheckUnknown
  BY <1>2, LeavesComponent DEF Contradictory, Exhausted, Unsupported, CheckUnsat, CheckUnknown, FailWith, Idle
<1>3. CASE Hit \/ CheckSat
  BY <1>3, LeavesComponent DEF Hit, CheckSat, Solved, Idle
<1>4. CASE Enter \/ Skip \/ Narrow \/ Miss \/ Abandon
  BY <1>4 DEF Enter, Skip, Turn, Narrow, Miss, Abandon, KeepsAll
<1>5. CASE Encode \/ Restart
  BY <1>5 DEF Encode, Restart, KeepsAll, Preferences
<1>6. CASE Release
  <2>1. kept' \subseteq Preferences
    BY <1>6 DEF Release, KeepsAll
  <2>2. ~CanKeep
    BY <1>6 DEF Release, KeepsAll, CanKeep, Keeps
  <2>3. UNCHANGED <<Preferences, CanKeep>>
    BY <1>6, SamePreferences DEF Release, answerVars
  <2> QED
    BY <2>1, <2>2, <2>3 DEF KeepsAll
<1>7. CASE UNCHANGED searchVars
  <2>1. UNCHANGED <<Preferences, CanKeep>>
    BY <1>7, SamePreferences DEF searchVars, answerVars, solving
  <2> QED
    BY <1>7, <2>1 DEF searchVars, solving, KeepsAll
<1> QED
  BY <1>1, <1>2, <1>3, <1>4, <1>5, <1>6, <1>7 DEF SearchNext

(* The invariant of the search, for any question. *)
LEMMA SearchIsRight == SearchSpec => []SearchInvariant
<1>1. SearchInit => SearchInvariant
  <2> SUFFICES ASSUME SearchInit PROVE SearchInvariant
    OBVIOUS
  <2> QED
    BY StartsRight DEF SearchInit, Init, Idle, SearchInvariant, InComponent, Admits, Fresh, KeepsAll
<1>2. SearchInvariant /\ [SearchNext]_searchVars => SearchInvariant'
  <2> SUFFICES ASSUME SearchInvariant, [SearchNext]_searchVars PROVE SearchInvariant'
    OBVIOUS
  <2>1. [Next]_answerVars
    BY StepAnswers
  <2>2. AnswerInvariant'
    BY <2>1, StepKeeps DEF SearchInvariant
  <2> QED
    BY <2>1, <2>2, ComponentKept, AdmitsKept, FreshKept, KeepsAllKept DEF SearchInvariant
<1> QED
  BY <1>1, <1>2, PTL DEF SearchSpec

(* Searching a component and asking Z3 gives no answer but those that       *)
(* SolverAnswers allows: what is found of a component meets it, although    *)
(* what was found before was not looked at (csp.py:430-434, solve.py:162),  *)
(* and UNSAT of a search (csp.py:454-458) or of a check without preferences *)
(* in its core (solve.py:186-191) refutes the component.                    *)
THEOREM SearchImplementsAnswers == SearchSpec => Spec
<1>1. SearchInit => Init
  BY DEF SearchInit
<1>2. SearchInvariant /\ [SearchNext]_searchVars => [Next]_answerVars
  BY StepAnswers
<1> QED
  BY <1>1, <1>2, SearchIsRight, PTL DEF SearchSpec, Spec

(* The values that Z3 gives keep every preference if some values can, so    *)
(* absent rows stay absent where they may (_check_minimal,                  *)
(* smt/solve.py:170-193).                                                   *)
THEOREM AbsentIfPossible == SearchSpec => KeptIfPossible
<1>1. SearchInvariant /\ CheckSat => (CanKeep => Keeps(Given, Preferences))
  BY DEF SearchInvariant, KeepsAll, CheckSat
<1>2. SearchInvariant => [CheckSat => (CanKeep => Keeps(Given, Preferences))]_searchVars
  BY <1>1
<1> QED
  BY <1>2, SearchIsRight, PTL DEF KeptIfPossible

=================================================================================
