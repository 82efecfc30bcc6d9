--------------------------- MODULE Generation_proofs ---------------------------
(***************************************************************************)
(* Theorems about Session for every query, schema, set of rows, solver and *)
(* bound that Generation's assumptions allow: its types, the invariant that*)
(* ties an attempt to the version it was made on, that a productive        *)
(* database never loses a covered outcome, what a solver that decides      *)
(* leaves uncovered, that every step gets on, and that Session implements  *)
(* DatabaseVersions.                                                       *)
(***************************************************************************)
EXTENDS Generation, WellFoundedInduction, FiniteSetTheorems, TLAPS

(* Min, as _next uses it, is an element of the set. *)
LEMMA LeastOfNaturals ==
  ASSUME NEW S \in SUBSET Nat, S # {}
  PROVE  Min(S) \in S
<1>. DEFINE Less == {pair \in Nat \X Nat : pair[1] < pair[2]}
<1>1. IsWellFoundedOn(Less, Nat)
  BY NatLessThanWellFounded DEF OpToRel
<1>2. PICK x \in S : \A y \in S : <<y, x>> \notin Less
  <2>. HIDE DEF Less
  <2>. QED  BY <1>1, WFMin, Zenon
<1>3. \A y \in S : x <= y
  <2>. TAKE y \in S
  <2>. <<y, x>> \notin Less /\ <<y, x>> \in Nat \X Nat
    BY <1>2
  <2>. QED  OBVIOUS
<1>. QED
  BY <1>3 DEF Min

(* An execution of stored and candidate rows is a round. *)
LEMMA ExecuteType ==
  ASSUME NEW p, NEW db \in Databases, NEW open \in Counts
  PROVE  /\ Execute(p, db, open) \in Round
         /\ Execute(p, db, open).db = db
         /\ Execute(p, db, open).open = open
BY DEF Execute, Round, Budgets, NoBudget, BUDGET, MAX_BUDGET

(* Pending targets are outcomes the version does not cover. *)
LEMMA PendingType ==
  Pending \subseteq Outcomes \ Covered(problem, current.db)
BY DEF Pending, Uncovered

(* What a solve answers can be appended to a database. *)
LEMMA ModelsType ==
  ASSUME NEW round, NEW o
  PROVE  /\ Models(round, o, Strict(round)) \subseteq Additions
         /\ Models(round, o, Relaxed(round)) \subseteq Additions
BY DEF Models, Strict, Relaxed

(* Replay executes a database. *)
LEMMA FollowingType ==
  ASSUME TypeOK
  PROVE  /\ Following \in Round
         /\ Following.db = Plus(work.db, answer)
         /\ Following.open = candidates
<1>1. Plus(work.db, answer) \in Databases
  BY DatabasesGrow DEF TypeOK, Round
<1>. QED
  BY <1>1, ExecuteType DEF Following, TypeOK

LEMMA TypeInit == Init => TypeOK
<1>. SUFFICES ASSUME Init PROVE TypeOK
  OBVIOUS
<1>1. NoDemand \in Counts /\ [r \in Relations |-> 1] \in Counts
  BY BoundsAreCounts DEF NoDemand, Counts
<1>2. NoRows \in Additions
  BY BoundsAreCounts DEF NoRows, Additions
<1>3. PICK db \in Seeds(problem) :
        /\ current = [db |-> db, open |-> NoDemand, budget |-> NoBudget]
        /\ pc = IF db = Empty THEN "open" ELSE "seed"
  BY DEF Init
<1>4. current \in Round
  BY <1>1, <1>3, SeedsAreDatabases DEF Init, Round, Budgets
<1>. QED
  BY <1>1, <1>2, <1>3, <1>4, OutcomesAreNumbered, DatabasesGrow
  DEF Init, TypeOK, Steps, Solving, Stopped

LEMMA TypeStep == TypeOK /\ [Next]_vars => TypeOK'
<1>. SUFFICES ASSUME TypeOK, [Next]_vars PROVE TypeOK'
  OBVIOUS
<1>. USE DEF TypeOK, Goto, At
<1>1. CASE OfferSeed
  BY <1>1 DEF OfferSeed, Offer, Steps, Stopped, Round
<1>2. CASE OfferVersion
  BY <1>2 DEF OfferVersion, Offer, Steps, Stopped, Round
<1>3. CASE Open
  <2>1. current' \in Round
    BY <1>3, ExecuteType DEF Open, Round
  <2>. QED  BY <1>3, <2>1 DEF Open, Steps
<1>4. CASE Raise
  BY <1>4 DEF Raise, Steps, Stopped
<1>5. CASE Choose
  <2>1. target' \in Outcomes
    <3>1. Min(Pending) \in Pending
      BY <1>5, PendingType, LeastOfNaturals, OutcomesAreNumbered DEF Choose
    <3>. QED  BY <1>5, <3>1, PendingType, OutcomesAreNumbered DEF Choose
  <2>2. demand' \in Counts
    BY <1>5, BoundsAreCounts DEF Choose, NoDemand, Counts
  <2>. QED  BY <1>5, <2>1, <2>2 DEF Choose, Steps, Solving
<1>6. CASE Widen
  <2>1. current' \in Round
    BY <1>6 DEF Widen, Round, Budgets
  <2>. QED  BY <1>6, <2>1 DEF Widen
<1>7. CASE Finish
  BY <1>7 DEF Finish, Steps, Stopped
<1>8. CASE TimeLimit
  BY <1>8 DEF TimeLimit, Steps, Stopped
<1>9. CASE SolveSat
  <2>1. answer' \in Additions
    BY <1>9, ModelsType DEF SolveSat
  <2>. QED  BY <1>9, <2>1 DEF SolveSat, Steps
<1>10. CASE SolveUnsat
  BY <1>10 DEF SolveUnsat, Steps, Solving
<1>11. CASE GiveUp
  BY <1>11 DEF GiveUp, Steps
<1>12. CASE Accept
  BY <1>12, FollowingType DEF Accept, Steps
<1>13. CASE Reject
  BY <1>13 DEF Reject, Steps
<1>14. CASE Measure
  <2>1. demand' \in Counts
    BY <1>14 DEF Measure
  <2>2. candidates' \in Counts
    BY <1>14, <2>1 DEF Measure, Counts
  <2>. QED  BY <1>14, <2>1, <2>2 DEF Measure, Steps
<1>15. CASE NoRepetition
  BY <1>15 DEF NoRepetition, Steps
<1>16. CASE Distinct
  BY <1>16 DEF Distinct, Steps
<1>17. CASE NoFurtherRow
  BY <1>17 DEF NoFurtherRow, Steps
<1>18. CASE Regrow
  <2>1. work' \in Round
    BY <1>18 DEF Regrow, Round
  <2>. QED  BY <1>18, <2>1 DEF Regrow, Steps, Solving
<1>19. CASE Terminated \/ UNCHANGED vars
  BY <1>19 DEF Terminated, vars
<1>. QED
  BY <1>1, <1>2, <1>3, <1>4, <1>5, <1>6, <1>7, <1>8, <1>9, <1>10, <1>11, <1>12,
     <1>13, <1>14, <1>15, <1>16, <1>17, <1>18, <1>19 DEF Next

(* The session's variables keep their types. *)
THEOREM TypeCorrect == Spec => []TypeOK
BY TypeInit, TypeStep, PTL DEF Spec

---------------------------------------------------------------------------------
(***************************************************************************)
(* The inductive invariant. AttemptOnVersion is what makes Accept sound:   *)
(* replay is compared with the rows the attempt started from (work), and   *)
(* the result replaces the version (current).                              *)
(***************************************************************************)
Inv == TypeOK /\ AttemptOnVersion

LEMMA InvInit == Init => Inv
<1>. SUFFICES ASSUME Init PROVE AttemptOnVersion
  BY TypeInit DEF Inv
<1>1. PICK db \in Seeds(problem) :
        /\ current = [db |-> db, open |-> NoDemand, budget |-> NoBudget]
        /\ pc = IF db = Empty THEN "open" ELSE "seed"
  BY DEF Init
<1>. QED
  BY <1>1 DEF Init, AttemptOnVersion, SameVersion, Grown, Pursues, Seen,
              Attempting, Solving, NoDemand

(* Candidate rows are only ever added. *)
LEMMA CandidatesGrow ==
  ASSUME TypeOK, TypeOK', [Next]_vars, NEW r \in Relations
  PROVE  candidates[r] <= candidates'[r]
<1>1. candidates[r] \in Nat /\ candidates'[r] \in Nat
  BY BoundsAreCounts DEF TypeOK, Counts
<1>2. CASE Measure
  <2>. demand'[r] \in Nat
    BY BoundsAreCounts DEF TypeOK, Counts
  <2>. QED  BY <1>1, <1>2 DEF Measure
<1>3. CASE Distinct
  BY <1>1, <1>3 DEF Distinct, OneMore
<1>4. CASE ~Measure /\ ~Distinct
  <2>. candidates' = candidates
    BY <1>4 DEF Next, vars, OfferSeed, OfferVersion, Offer, Open, Raise, Choose,
       Widen, Finish, TimeLimit, SolveSat, SolveUnsat, GiveUp, Accept, Reject,
       NoRepetition, NoFurtherRow, Regrow, Terminated
  <2>. QED  BY <1>1
<1>. QED
  BY <1>2, <1>3, <1>4

(* Steps within an attempt that keep its round. *)
LEMMA SameRound ==
  ASSUME TypeOK, TypeOK', AttemptOnVersion, [Next]_vars,
         UNCHANGED <<problem, current, work, target, shown>>,
         pc' \in Attempting => pc \in Attempting,
         pc \in {"seed", "offer"} <=> pc' \in {"seed", "offer"}
  PROVE  AttemptOnVersion'
<1>1. \A r \in Relations : candidates[r] <= candidates'[r]
  BY CandidatesGrow
<1>2. \A r \in Relations : /\ current.open[r] \in Nat /\ work.open[r] \in Nat
                           /\ candidates[r] \in Nat /\ candidates'[r] \in Nat
  BY BoundsAreCounts DEF TypeOK, Round, Counts
<1>3. Grown'
  BY <1>1, <1>2 DEF AttemptOnVersion, Grown
<1>. QED
  BY <1>3 DEF AttemptOnVersion, SameVersion, Pursues, Seen

LEMMA InvStep == Inv /\ [Next]_vars => Inv'
<1>. SUFFICES ASSUME TypeOK, AttemptOnVersion, [Next]_vars PROVE AttemptOnVersion'
  BY TypeStep DEF Inv
<1>. TypeOK'
  BY TypeStep
<1>. USE DEF Goto, At
<1>0. \A r \in Relations : /\ current.open[r] \in Nat /\ work.open[r] \in Nat
                           /\ candidates[r] \in Nat
  BY BoundsAreCounts DEF TypeOK, Round, Counts
<1>1. CASE OfferSeed \/ OfferVersion
  BY <1>1 DEF OfferSeed, OfferVersion, Offer, AttemptOnVersion, SameVersion, Grown,
              Pursues, Seen, Attempting, Solving
<1>2. CASE Open
  <2>1. current'.db = current.db /\ current'.open = candidates
    BY <1>2, ExecuteType DEF Open, TypeOK, Round
  <2>. QED
    BY <1>0, <1>2, <2>1 DEF Open, AttemptOnVersion, SameVersion, Grown, Pursues, Seen,
                       Attempting, Solving
<1>3. CASE Choose
  <2>1. target' \notin Covered(problem, current.db)
    <3>1. Min(Pending) \in Pending
      BY <1>3, PendingType, LeastOfNaturals, OutcomesAreNumbered DEF Choose
    <3>. QED  BY <1>3, <3>1, PendingType DEF Choose
  <2>. QED
    BY <1>3, <2>1 DEF Choose, AttemptOnVersion, SameVersion, Grown, Pursues, Seen
<1>4. CASE Widen
  <2>1. current'.db = current.db /\ current'.open = current.open
    BY <1>4 DEF Widen, TypeOK, Round
  <2>. QED
    BY <1>4, <2>1 DEF Widen, AttemptOnVersion, SameVersion, Grown, Pursues, Seen,
                      Attempting, Solving
<1>5. CASE Accept
  <2>1. current'.db = Plus(work.db, answer) /\ current'.open = candidates
    BY <1>5, FollowingType DEF Accept
  <2>2. target \in Covered(problem, current'.db)
    BY <1>5, FollowingType DEF Accept
  <2>3. current'.db # current.db
    BY <1>5, <2>2 DEF Accept, AttemptOnVersion, SameVersion, Pursues, Attempting
  <2>. QED
    BY <1>0, <1>5, <2>1, <2>3 DEF Accept, AttemptOnVersion, SameVersion, Grown,
                             Pursues, Seen, Attempting, Solving
<1>6. CASE Regrow
  <2>1. work'.db = work.db /\ work'.budget = work.budget /\ work'.open = candidates
    BY <1>6 DEF Regrow, TypeOK, Round
  <2>. QED
    BY <1>0, <1>6, <2>1 DEF Regrow, AttemptOnVersion, SameVersion, Grown, Pursues, Seen,
                       Attempting
<1>7. CASE Raise \/ Finish \/ TimeLimit
  BY <1>7, SameRound DEF Raise, Finish, TimeLimit, Executing, Attempting, Solving
<1>8. CASE SolveSat \/ SolveUnsat \/ GiveUp \/ Reject
  BY <1>8, SameRound DEF SolveSat, SolveUnsat, GiveUp, Reject, Attempting, Solving
<1>9. CASE Measure \/ NoRepetition \/ Distinct \/ NoFurtherRow
  BY <1>9, SameRound DEF Measure, NoRepetition, Distinct, NoFurtherRow, Attempting, Solving
<1>10. CASE Terminated \/ UNCHANGED vars
  BY <1>10, SameRound DEF Terminated, vars
<1>. QED
  BY <1>1, <1>2, <1>3, <1>4, <1>5, <1>6, <1>7, <1>8, <1>9, <1>10 DEF Next

LEMMA InvCorrect == Spec => []Inv
BY InvInit, InvStep, PTL DEF Spec

(* An attempt is made on the latest version the caller has seen, within its *)
(* budget, for an outcome that version does not cover.                      *)
THEOREM AttemptsAreOnVersion == Spec => []AttemptOnVersion
BY InvCorrect, PTL DEF Inv

---------------------------------------------------------------------------------
(* What a version does to the one before it. *)
LEMMA AcceptGrows ==
  ASSUME Inv, Accept
  PROVE  /\ current'.db = Plus(current.db, answer) /\ answer \in Additions
         /\ current'.db \in Databases
         /\ target \in Covered(problem, current'.db) \ Covered(problem, current.db)
         /\ OUTPUT \in Covered(problem, current.db) =>
              Covered(problem, current.db) \subseteq Covered(problem, current'.db)
         /\ shown = current.db
<1>1. work.db = current.db /\ target \notin Covered(problem, current.db)
      /\ shown = current.db
  BY DEF Accept, At, Inv, AttemptOnVersion, SameVersion, Pursues, Seen, Attempting
<1>2. current' = Following /\ Following.db = Plus(work.db, answer)
      /\ Following \in Round
  BY FollowingType DEF Accept, Inv
<1>3. OUTPUT \in Covered(problem, work.db) =>
        Covered(problem, work.db) \subseteq Covered(problem, Following.db)
  BY DEF Accept, Lost
<1>. QED
  BY <1>1, <1>2, <1>3 DEF Accept, Inv, TypeOK, Round

(* Every other step keeps the accepted rows. *)
LEMMA OthersKeepRows ==
  ASSUME Inv, [Next]_vars, ~Accept
  PROVE  UNCHANGED current.db
<1>1. CASE Open
  BY <1>1, ExecuteType DEF Open, Inv, TypeOK, Round
<1>2. CASE Widen
  BY <1>2 DEF Widen, Inv, TypeOK, Round
<1>3. CASE ~Open /\ ~Widen
  BY <1>3 DEF Next, vars, OfferSeed, OfferVersion, Offer, Raise, Choose, Finish,
     TimeLimit, SolveSat, SolveUnsat, GiveUp, Reject, Measure, NoRepetition,
     Distinct, NoFurtherRow, Regrow, Terminated
<1>. QED
  BY <1>1, <1>2, <1>3

LEMMA ProblemFixed == [Next]_vars => UNCHANGED problem
BY DEF Next, vars, OfferSeed, OfferVersion, Offer, Open, Raise, Choose, Widen,
   Finish, TimeLimit, SolveSat, SolveUnsat, GiveUp, Accept, Reject, Measure,
   NoRepetition, Distinct, NoFurtherRow, Regrow, Terminated

LEMMA KeepsStep ==
  ASSUME Inv, [Next]_vars, OUTPUT \in Covered(problem, current.db)
  PROVE  Covered(problem, current.db) \subseteq Covered(problem, current.db)'
<1>1. CASE Accept
  BY <1>1, AcceptGrows, ProblemFixed
<1>2. CASE ~Accept
  BY <1>2, OthersKeepRows, ProblemFixed
<1>. QED
  BY <1>1, <1>2

(* Once the output is productive, no covered outcome is ever given up,      *)
(* whatever the solver answers and wherever the session is interrupted.     *)
THEOREM CoverageKept == Spec => KeepsCovered
<1>1. Inv /\ [Next]_vars =>
        [(OUTPUT \in Covered(problem, current.db)) =>
           Covered(problem, current.db) \subseteq Covered(problem, current.db)']_vars
  BY KeepsStep
<1>. QED
  BY <1>1, InvCorrect, PTL DEF Spec, KeepsCovered

---------------------------------------------------------------------------------
(***************************************************************************)
(* What generation gives up when the solver always decides. A target stays *)
(* in tried until a version is accepted or the budget widens, so what is   *)
(* known of it when its attempt ends has to survive every later attempt on *)
(* that version: Judged. It is gathered in the course of the attempt, from *)
(* rounds that only ever have more candidate rows: Pursuit.                *)
(***************************************************************************)
Pursued == IF pc \in Attempting THEN {target} ELSE {}

(* The first round has candidate rows and the budget the output asks for,   *)
(* and an attempt starts with the version's round and only adds to it.      *)
Prepared ==
  /\ \A r \in Relations : candidates[r] >= 1
  /\ pc \in {"seed", "open"} => tried = {}
  /\ pc \notin {"seed", "open"} =>
       /\ \A r \in Relations : current.open[r] >= 1
       /\ current.budget = NoBudget <=> OUTPUT \notin Covered(problem, current.db)
  /\ pc \in {"first", "all"} => work = current
  /\ pc \in Attempting => \A r \in Relations : current.open[r] <= work.open[r]

Judged == \A o \in tried \ Pursued : OutOfReach(o) /\ GrowthSpent(o)

Pursuit ==
  /\ pc = "replay" => Meets(work, target, answer)
  /\ pc \in {"measure", "distinct", "grow", "again"} => OutOfReach(target)
  /\ pc = "distinct" =>
       target \in Capped(problem) \/ ~\E copies \in Relaxed(work) : Meets(work, target, copies)

(* The loop of run ends when no target is left. *)
Over == pc = "done" => Pending = {} /\ current.budget # BUDGET

Reasons == Decides => Prepared /\ Judged /\ Pursuit /\ Over

(* What a solve answers depends on the rows and the budget of a round alone. *)
LEMMA MeetsByVersion ==
  ASSUME NEW first, NEW second, first.db = second.db, first.budget = second.budget,
         NEW o, NEW added
  PROVE  /\ Meets(first, o, added) <=> Meets(second, o, added)
         /\ HasConditions(first, o) <=> HasConditions(second, o)
BY DEF Meets, HasConditions

LEMMA NoConditions ==
  ASSUME NEW round, NEW o, ~HasConditions(round, o), NEW added \in Additions
  PROVE  ~Meets(round, o, added)
BY DEF Meets, HasConditions

(* With more candidate rows, no relaxed solution is lost. *)
LEMMA RelaxedGrows ==
  ASSUME NEW first, NEW second, first.db = second.db,
         \A r \in Relations : /\ first.open[r] \in Nat /\ second.open[r] \in Nat
                              /\ first.open[r] <= second.open[r]
  PROVE  Relaxed(first) \subseteq Relaxed(second)
<1>. SUFFICES ASSUME NEW added \in Relaxed(first), NEW r \in Relations
              PROVE  AtMost(Present(added) \cap Of(r), second.open[r])
  BY DEF Relaxed
<1>1. AtMost(Present(added) \cap Of(r), first.open[r])
  BY DEF Relaxed
<1>2. Cardinality(Present(added) \cap Of(r)) \in Nat
  BY <1>1, FS_CardinalityType DEF AtMost
<1>. QED
  BY <1>1, <1>2 DEF AtMost

(* A solver that decides: its models are the rows that meet the target. *)
LEMMA ExactModels ==
  ASSUME Decides, NEW round, NEW o, NEW allowed
  PROVE  Models(round, o, allowed) = {added \in allowed : Meets(round, o, added)}
BY DEF Decides, Models

(* What was found of a target is still true while the version stays. *)
LEMMA JudgementStays ==
  ASSUME TypeOK, TypeOK', UNCHANGED <<problem, current>>,
         \A r \in Relations : candidates[r] <= candidates'[r], NEW o
  PROVE  /\ OutOfReach(o) => OutOfReach(o)'
         /\ GrowthSpent(o) => GrowthSpent(o)'
<1>1. OutOfReach(o) => OutOfReach(o)'
  BY DEF OutOfReach, Reaches, Strict, Meets
<1>2. ASSUME GrowthSpent(o) PROVE GrowthSpent(o)'
  <2>1. CASE o \in Capped(problem)
    BY <2>1 DEF GrowthSpent
  <2>2. CASE ~Reaches(o, Relaxed(Beside(Further(o))))
    <3>. (~Reaches(o, Relaxed(Beside(Further(o)))))'
      BY <2>2 DEF Reaches, Relaxed, Beside, Further, Meets
    <3>. QED  BY DEF GrowthSpent
  <2>3. CASE Reaches(o, {copies \in Relaxed(Beside(candidates)) : Granted(copies)})
    <3>1. PICK copies \in Relaxed(Beside(candidates)) :
            Granted(copies) /\ Meets(current, o, copies)
      BY <2>3 DEF Reaches
    <3>2. \A r \in Relations : candidates[r] \in Nat /\ candidates'[r] \in Nat
      BY BoundsAreCounts DEF TypeOK, Counts
    <3>3. copies \in Relaxed(Beside(candidates))'
      <4>. DEFINE wider == [current EXCEPT !.open = candidates']
      <4>1. Relaxed(Beside(candidates)) \subseteq Relaxed(wider)
        <5>1. /\ Beside(candidates).db = wider.db
              /\ Beside(candidates).open = candidates /\ wider.open = candidates'
          BY DEF Beside, TypeOK, Round
        <5>. HIDE DEF wider
        <5>. QED  BY <3>2, <5>1, RelaxedGrows
      <4>2. Relaxed(wider) = Relaxed(Beside(candidates))'
        BY DEF Relaxed, Beside
      <4>. QED  BY <3>1, <4>1, <4>2
    <3>4. Granted(copies)'
      <4>1. Demand(copies)' = Demand(copies)
        BY DEF Demand
      <4>2. \A r \in Relations : Demand(copies)[r] \in Nat
        BY <3>1, BoundsAreCounts DEF Granted, Counts
      <4>. QED  BY <3>1, <3>2, <4>1, <4>2 DEF Granted
    <3>5. Meets(current, o, copies)'
      BY <3>1 DEF Meets
    <3>. QED  BY <3>3, <3>4, <3>5 DEF GrowthSpent, Reaches
  <2>. QED  BY <1>2, <2>1, <2>2, <2>3 DEF GrowthSpent
<1>. QED  BY <1>1, <1>2

LEMMA ReasonsInit == Init => Reasons
<1>. SUFFICES ASSUME Init PROVE Reasons
  OBVIOUS
<1>1. pc \in {"seed", "open"} /\ candidates = [r \in Relations |-> 1] /\ tried = {}
  BY DEF Init
<1>. QED
  BY <1>1 DEF Reasons, Prepared, Judged, Pursuit, Over, Attempting, Solving

(* The numbers of candidate rows that the steps compare. *)
LEMMA RowCounts ==
  ASSUME TypeOK
  PROVE  \A r \in Relations : /\ current.open[r] \in Nat /\ work.open[r] \in Nat
                              /\ candidates[r] \in Nat
BY BoundsAreCounts DEF TypeOK, Round, Counts

(* Steps that leave the version and the targets tried on it alone. *)
LEMMA JudgedStays ==
  ASSUME TypeOK, TypeOK', [Next]_vars, Decides, UNCHANGED <<problem, current>>,
         Judged,
         \A o \in (tried \ Pursued)' :
           o \in tried \ Pursued \/ (OutOfReach(o) /\ GrowthSpent(o))
  PROVE  Judged'
<1>. SUFFICES ASSUME NEW o \in (tried \ Pursued)' PROVE (OutOfReach(o) /\ GrowthSpent(o))'
  BY DEF Judged
<1>1. OutOfReach(o) /\ GrowthSpent(o)
  BY DEF Judged
<1>2. \A r \in Relations : candidates[r] <= candidates'[r]
  BY CandidatesGrow
<1>. QED
  BY <1>1, <1>2, JudgementStays

(* The conditions a round has, and what follows when it has none. *)
LEMMA NothingMeets ==
  ASSUME Inv, pc \in Attempting, NEW added \in Additions, ~HasConditions(work, target)
  PROVE  ~Meets(current, target, added)
BY NoConditions, MeetsByVersion DEF Inv, AttemptOnVersion, SameVersion

(* A solution of an attempt is accepted: what the solver says its rows      *)
(* reach, executing them shows.                                             *)
LEMMA SolutionsReplay ==
  ASSUME Inv, Decides, Meets(work, target, answer)
  PROVE  target \in Covered(problem, Following.db) /\ Lost = {}
<1>1. Following.db = Plus(work.db, answer)
  BY FollowingType DEF Inv
<1>2. \A o \in Outcomes \ Covered(problem, Plus(work.db, answer)) :
        Bindings(problem, o, work.db, answer) = {}
  BY ReplaysAgree DEF Decides, Inv, TypeOK, Round
<1>3. target \in Covered(problem, Following.db)
  BY <1>1, <1>2 DEF Meets, Inv, TypeOK
<1>4. OUTPUT \in Covered(problem, work.db) =>
        Covered(problem, work.db) \subseteq Covered(problem, Following.db)
  <2>. SUFFICES ASSUME OUTPUT \in Covered(problem, work.db),
                       NEW c \in Covered(problem, work.db)
                PROVE  c \in Covered(problem, Following.db)
    OBVIOUS
  <2>1. c \in Outcomes
    BY DEF Covered
  <2>2. Bindings(problem, c, work.db, answer) # {}
    BY DEF Meets
  <2>. QED  BY <1>1, <1>2, <2>1, <2>2
<1>. QED  BY <1>3, <1>4 DEF Lost

---------------------------------------------------------------------------------
(* The steps that change the version, its budget or what was tried on it. *)

LEMMA OpenReasons ==
  ASSUME Inv, Inv', Reasons, Decides, Open
  PROVE  Prepared' /\ Judged' /\ Pursuit'
<1>1. current' = Execute(problem, current.db, candidates) /\ pc' = "choose"
      /\ UNCHANGED <<problem, candidates, tried>>
  BY DEF Open, Goto
<1>2. tried' = {} /\ \A r \in Relations : candidates[r] >= 1
  BY <1>1 DEF Open, At, Reasons, Prepared
<1>3. /\ current'.db = current.db /\ current'.open = candidates
      /\ current'.budget = IF OUTPUT \in Covered(problem, current.db) THEN BUDGET ELSE NoBudget
  BY <1>1 DEF Execute
<1>4. Covered(problem, current.db)' = Covered(problem, current.db)
  BY <1>1, <1>3 DEF Covered
<1>5. Prepared'
  BY <1>1, <1>2, <1>3, <1>4 DEF Prepared, Attempting, Solving, BUDGET, NoBudget
<1>. QED
  BY <1>1, <1>2, <1>5 DEF Judged, Pursuit

LEMMA AcceptReasons ==
  ASSUME Inv, Inv', Reasons, Decides, Accept
  PROVE  Prepared' /\ Judged' /\ Pursuit'
<1>1. current' = Following /\ pc' = "offer" /\ tried' = {}
      /\ UNCHANGED <<problem, candidates>>
  BY DEF Accept, Goto
<1>2. \A r \in Relations : candidates[r] >= 1
  BY DEF Reasons, Prepared
<1>3. current'.open = candidates /\ current'.db = Following.db
      /\ current'.budget = IF OUTPUT \in Covered(problem, Following.db)
                           THEN BUDGET ELSE NoBudget
  BY <1>1, FollowingType DEF Following, Execute, Inv
<1>4. Covered(problem, current.db)' = Covered(problem, Following.db)
  BY <1>1, <1>3 DEF Covered
<1>5. Prepared'
  BY <1>1, <1>2, <1>3, <1>4 DEF Prepared, Attempting, Solving, BUDGET, NoBudget
<1>. QED
  BY <1>1, <1>5 DEF Judged, Pursuit

LEMMA WidenReasons ==
  ASSUME Inv, Inv', Reasons, Decides, Widen
  PROVE  Prepared' /\ Judged' /\ Pursuit'
<1>1. pc = "choose" /\ pc' = "choose" /\ tried' = {} /\ UNCHANGED <<problem, candidates>>
  BY DEF Widen, At
<1>2. current.budget = BUDGET /\ current'.budget = MAX_BUDGET /\ current'.db = current.db
      /\ current'.open = current.open
  BY DEF Widen, Inv, TypeOK, Round
<1>3. Covered(problem, current.db)' = Covered(problem, current.db)
  BY <1>1, <1>2 DEF Covered
<1>4. Prepared'
  BY <1>1, <1>2, <1>3 DEF Reasons, Prepared, Attempting, Solving, BUDGET, MAX_BUDGET, NoBudget
<1>. QED
  BY <1>1, <1>4 DEF Judged, Pursuit

LEMMA ChooseReasons ==
  ASSUME Inv, Inv', Reasons, Decides, [Next]_vars, Choose
  PROVE  Prepared' /\ Judged' /\ Pursuit'
<1>1. pc = "choose" /\ pc' = "first" /\ work' = current /\ tried' = tried \cup {target'}
      /\ UNCHANGED <<problem, current, candidates>>
  BY DEF Choose, At, Goto
<1>2. Prepared'
  <2>1. Covered(problem, current.db)' = Covered(problem, current.db)
    BY <1>1 DEF Covered
  <2>2. \A r \in Relations : current.open[r] <= current.open[r]
    BY RowCounts DEF Inv
  <2>. QED
    BY <1>1, <2>1, <2>2 DEF Reasons, Prepared
<1>3. Judged'
  <2>1. (tried \ Pursued)' \subseteq tried \ Pursued
    BY <1>1 DEF Pursued, Attempting, Solving
  <2>. QED
    BY <1>1, <2>1, JudgedStays DEF Inv, Reasons
<1>. QED
  BY <1>1, <1>2, <1>3 DEF Pursuit

---------------------------------------------------------------------------------
(* The steps of an attempt. *)

(* The rounds of an attempt only get more candidate rows. *)
LEMMA PreparedStays ==
  ASSUME Inv, Inv', Reasons, Decides, [Next]_vars, UNCHANGED <<problem, current, tried>>,
         pc \notin {"seed", "open"}, pc' \notin {"seed", "open"},
         pc' \in {"first", "all"} => pc \in {"first", "all"} /\ work' = work,
         pc' \in Attempting =>
           pc \in Attempting /\ \A r \in Relations : work.open[r] <= work'.open[r]
  PROVE  Prepared'
<1>1. \A r \in Relations : /\ current.open[r] \in Nat /\ work.open[r] \in Nat
                           /\ candidates[r] \in Nat
                           /\ work'.open[r] \in Nat /\ candidates'[r] \in Nat
                           /\ candidates[r] <= candidates'[r]
  BY RowCounts, CandidatesGrow, BoundsAreCounts DEF Inv, TypeOK, Round, Counts
<1>2. Covered(problem, current.db)' = Covered(problem, current.db)
  BY DEF Covered
<1>3. \A r \in Relations : candidates'[r] >= 1
  BY <1>1 DEF Reasons, Prepared
<1>4. pc' \in Attempting => \A r \in Relations : current'.open[r] <= work'.open[r]
  BY <1>1 DEF Reasons, Prepared
<1>. QED
  BY <1>2, <1>3, <1>4 DEF Reasons, Prepared

(* A step within an attempt. *)
LEMMA GoesOn ==
  ASSUME Inv, Inv', Reasons, Decides, [Next]_vars,
         UNCHANGED <<problem, current, target, tried>>,
         pc \in Attempting, pc' \in Attempting,
         pc' \in {"first", "all"} => pc \in {"first", "all"} /\ work' = work,
         \A r \in Relations : work.open[r] <= work'.open[r]
  PROVE  Prepared' /\ Judged'
<1>1. pc \notin {"seed", "open"} /\ pc' \notin {"seed", "open"}
  BY DEF Attempting, Solving
<1>2. Prepared'
  BY <1>1, PreparedStays
<1>3. Judged'
  <2>1. (tried \ Pursued)' = tried \ Pursued
    BY DEF Pursued
  <2>. QED  BY <2>1, JudgedStays DEF Inv, Reasons
<1>. QED  BY <1>2, <1>3

(* A step that ends an attempt without a version. *)
LEMMA EndsForReason ==
  ASSUME Inv, Inv', Reasons, Decides, [Next]_vars,
         UNCHANGED <<problem, current, work, target, tried>>,
         pc \in Attempting, pc' = "choose", OutOfReach(target), GrowthSpent(target)
  PROVE  Prepared' /\ Judged' /\ Pursuit'
<1>1. pc \notin {"seed", "open"} /\ pc' \notin Attempting
  BY DEF Attempting, Solving
<1>2. Prepared'
  BY <1>1, PreparedStays
<1>3. Judged'
  <2>1. \A o \in (tried \ Pursued)' : o = target \/ o \in tried \ Pursued
    BY DEF Pursued
  <2>. QED  BY <2>1, JudgedStays DEF Inv, Reasons
<1>4. Pursuit'
  BY DEF Pursuit
<1>. QED  BY <1>2, <1>3, <1>4

LEMMA SolveSatReasons ==
  ASSUME Inv, Inv', Reasons, Decides, [Next]_vars, SolveSat
  PROVE  Prepared' /\ Judged' /\ Pursuit'
<1>1. pc \in Attempting /\ pc' = "replay" /\ pc' \in Attempting
      /\ UNCHANGED <<problem, current, work, target, tried>>
  BY DEF SolveSat, Goto, Attempting
<1>2. Prepared' /\ Judged'
  BY <1>1, GoesOn, RowCounts DEF Inv
<1>3. Meets(work, target, answer')
  BY ExactModels DEF SolveSat
<1>4. Meets(work, target, answer)'
  BY <1>1, <1>3 DEF Meets, Covered
<1>5. Pursuit'
  BY <1>1, <1>4 DEF Pursuit
<1>. QED  BY <1>2, <1>5

(* The conditions of an attempt are all solved on the version's own round   *)
(* before its demand is measured: at once, or after those that were kept.   *)
LEMMA SolveUnsatReasons ==
  ASSUME Inv, Inv', Reasons, Decides, [Next]_vars, SolveUnsat
  PROVE  Prepared' /\ Judged' /\ Pursuit'
<1>1. /\ pc \in Attempting /\ pc' \in {"all", "measure"} /\ pc' \in Attempting
      /\ pc' = "all" => pc = "first"
      /\ UNCHANGED <<problem, current, work, target, candidates, tried>>
  BY DEF SolveUnsat, At, Goto, Attempting, Solving
<1>2. Prepared' /\ Judged'
  BY <1>1, GoesOn, RowCounts DEF Inv
<1>3. pc' = "measure" => OutOfReach(target)
  <2>. SUFFICES ASSUME pc' = "measure", NEW added \in Strict(current)
                PROVE  ~Meets(current, target, added)
    BY DEF OutOfReach, Reaches
  <2>. added \in Additions
    BY DEF Strict
  <2>1. CASE ~HasConditions(work, target)
    BY <1>1, <2>1, NothingMeets
  <2>2. CASE At("again")
    BY <2>2 DEF At, Reasons, Pursuit, OutOfReach, Reaches
  <2>3. CASE pc \in {"first", "all"} /\ HasConditions(work, target)
    <3>1. work = current
      BY <2>3 DEF Reasons, Prepared
    <3>2. ~Missed(target, At("all"))
      BY <2>3 DEF SolveUnsat, Missed, Decides, At, Goto
    <3>3. Models(work, target, Strict(work)) = {}
      BY <2>3, <3>2 DEF SolveUnsat
    <3>. QED  BY <3>1, <3>3, ExactModels
  <2>. QED  BY <2>1, <2>2, <2>3 DEF SolveUnsat, Solving, At
<1>4. OutOfReach(target) => OutOfReach(target)'
  <2>1. \A r \in Relations : candidates[r] <= candidates'[r]
    BY CandidatesGrow DEF Inv
  <2>2. target' = target
    BY <1>1
  <2>. QED  BY <1>1, <2>2 DEF OutOfReach, Reaches, Strict, Meets, Covered
<1>5. Pursuit'
  BY <1>1, <1>3, <1>4 DEF Pursuit
<1>. QED  BY <1>2, <1>5

(* A step within an attempt after its demand is measured. *)
LEMMA StaysOutOfReach ==
  ASSUME UNCHANGED <<problem, current, target>>, OutOfReach(target)
  PROVE  OutOfReach(target)'
BY DEF OutOfReach, Reaches, Strict, Meets, Covered

LEMMA MeasureReasons ==
  ASSUME Inv, Inv', Reasons, Decides, [Next]_vars, Measure
  PROVE  Prepared' /\ Judged' /\ Pursuit'
<1>1. pc = "measure" /\ pc \in Attempting /\ pc' \in {"choose", "grow"}
      /\ UNCHANGED <<problem, current, work, target, tried>>
  BY DEF Measure, At, Goto, Attempting
<1>2. OutOfReach(target)
  BY <1>1 DEF Reasons, Pursuit
<1>3. CASE pc' = "grow"
  <2>1. Prepared' /\ Judged'
    BY <1>1, <1>3, GoesOn, RowCounts DEF Inv, Attempting
  <2>. QED  BY <1>1, <1>2, <1>3, <2>1, StaysOutOfReach DEF Pursuit
<1>4. CASE pc' = "choose"
  <2>1. PICK copies \in Models(work, target, Relaxed(work)) :
          Demand(copies) \in Counts /\ demand' = Demand(copies)
    BY DEF Measure
  <2>2. copies \in Relaxed(work) /\ Meets(work, target, copies)
    BY <2>1, ExactModels
  <2>3. \A r \in Relations : Demand(copies)[r] <= candidates[r]
    <3>. SUFFICES ASSUME NEW r \in Relations PROVE Demand(copies)[r] <= candidates[r]
      OBVIOUS
    <3>1. candidates' = candidates
      BY <1>4 DEF Measure, Goto
    <3>2. demand'[r] > candidates[r] => candidates[r] = demand'[r]
      BY <3>1 DEF Measure
    <3>3. demand'[r] \in Nat /\ candidates[r] \in Nat
      BY <2>1, RowCounts, BoundsAreCounts DEF Inv, Counts
    <3>. QED  BY <2>1, <3>2, <3>3
  <2>4. copies \in Relaxed(Beside(candidates))
    <3>1. work.db = current.db
      BY <1>1 DEF Inv, AttemptOnVersion, SameVersion
    <3>2. Beside(candidates).db = current.db /\ Beside(candidates).open = candidates
      BY DEF Beside, Inv, TypeOK, Round
    <3>3. \A r \in Relations : work.open[r] <= candidates[r]
      BY <1>1 DEF Inv, AttemptOnVersion, Grown
    <3>4. Relaxed(work) \subseteq Relaxed(Beside(candidates))
      BY <3>1, <3>2, <3>3, RowCounts, RelaxedGrows DEF Inv
    <3>. QED  BY <2>2, <3>4
  <2>5. Meets(current, target, copies)
    BY <1>1, <2>2, MeetsByVersion DEF Inv, AttemptOnVersion, SameVersion
  <2>6. GrowthSpent(target)
    BY <2>1, <2>3, <2>4, <2>5 DEF GrowthSpent, Reaches, Granted
  <2>. QED  BY <1>1, <1>2, <1>4, <2>6, EndsForReason
<1>. QED  BY <1>1, <1>3, <1>4

LEMMA NoRepetitionReasons ==
  ASSUME Inv, Inv', Reasons, Decides, [Next]_vars, NoRepetition
  PROVE  Prepared' /\ Judged' /\ Pursuit'
<1>1. pc = "measure" /\ pc \in Attempting /\ pc' = "distinct" /\ pc' \in Attempting
      /\ UNCHANGED <<problem, current, work, target, tried>>
  BY DEF NoRepetition, At, Goto, Attempting
<1>2. OutOfReach(target)'
  BY <1>1, StaysOutOfReach DEF Reasons, Pursuit
<1>3. Prepared' /\ Judged'
  BY <1>1, GoesOn, RowCounts DEF Inv
<1>4. target \in Capped(problem) \/ ~\E copies \in Relaxed(work) : Meets(work, target, copies)
  <2>1. CASE ~HasConditions(work, target)
    BY <2>1, NoConditions DEF Relaxed
  <2>2. CASE Missed(target, FALSE)
    BY <2>2 DEF Missed, Decides
  <2>3. CASE Models(work, target, Relaxed(work)) = {}
    BY <2>3, ExactModels
  <2>. QED  BY <2>1, <2>2, <2>3 DEF NoRepetition
<1>5. (target \in Capped(problem) \/
       ~\E copies \in Relaxed(work) : Meets(work, target, copies))'
  BY <1>1, <1>4 DEF Relaxed, Meets, Covered
<1>6. Pursuit'
  BY <1>1, <1>2, <1>5 DEF Pursuit
<1>. QED  BY <1>3, <1>6

LEMMA DistinctReasons ==
  ASSUME Inv, Inv', Reasons, Decides, [Next]_vars, Distinct
  PROVE  Prepared' /\ Judged' /\ Pursuit'
<1>1. pc = "distinct" /\ pc \in Attempting /\ pc' = "grow" /\ pc' \in Attempting
      /\ UNCHANGED <<problem, current, work, target, tried>>
  BY DEF Distinct, At, Goto, Attempting
<1>2. OutOfReach(target)'
  BY <1>1, StaysOutOfReach DEF Reasons, Pursuit
<1>3. Prepared' /\ Judged'
  BY <1>1, GoesOn, RowCounts DEF Inv
<1>4. Pursuit'
  BY <1>1, <1>2 DEF Pursuit
<1>. QED  BY <1>3, <1>4

(* One row more in every relation the target involves was asked for beside  *)
(* the rows the session has grown to, which are at least the version's.     *)
LEMMA NoFurtherRowReasons ==
  ASSUME Inv, Inv', Reasons, Decides, [Next]_vars, NoFurtherRow
  PROVE  Prepared' /\ Judged' /\ Pursuit'
<1>1. pc = "distinct" /\ pc \in Attempting /\ pc' = "choose"
      /\ UNCHANGED <<problem, current, work, target, tried>>
  BY DEF NoFurtherRow, At, Goto, Attempting
<1>2. OutOfReach(target)
  BY <1>1 DEF Reasons, Pursuit
<1>3. work.db = current.db /\ work.budget = current.budget
  BY <1>1 DEF Inv, AttemptOnVersion, SameVersion
<1>. DEFINE further == Beside(Further(target))
<1>4. further.db = current.db /\ further.open = Further(target)
  BY DEF Beside, Inv, TypeOK, Round
<1>5. ASSUME target \notin Capped(problem), NEW copies \in Relaxed(further)
      PROVE  ~Meets(current, target, copies)
  <2>1. CASE ~HasConditions(work, target)
    BY <1>1, <1>5, <2>1, NothingMeets DEF Relaxed
  <2>2. CASE HasConditions(work, target) /\ Involved = {}
    <3>1. \A r \in Relations : Further(target)[r] = current.open[r]
      BY <2>2, RowCounts DEF Further, Involved, Inv
    <3>2. \A r \in Relations : current.open[r] <= work.open[r]
      BY <1>1 DEF Reasons, Prepared
    <3>3. Relaxed(further) \subseteq Relaxed(work)
      <4>. HIDE DEF further
      <4>. QED  BY <1>3, <1>4, <3>1, <3>2, RowCounts, RelaxedGrows DEF Inv
    <3>4. ~Meets(work, target, copies)
      BY <1>1, <1>5, <3>3 DEF Reasons, Pursuit
    <3>. QED  BY <1>3, <3>4, MeetsByVersion
  <2>3. CASE HasConditions(work, target) /\ Involved # {}
    <3>. DEFINE wider == [work EXCEPT !.open = OneMore]
    <3>1. wider.db = work.db /\ wider.open = OneMore /\ wider.budget = work.budget
      BY DEF Inv, TypeOK, Round
    <3>2. WithOneMore = {}
      BY <1>5, <2>3 DEF NoFurtherRow, Missed, Decides
    <3>3. Models(wider, target, Relaxed(wider)) = {}
      BY <3>2 DEF WithOneMore
    <3>. HIDE DEF wider
    <3>4. \A r \in Relations :
            /\ Further(target)[r] \in Nat /\ OneMore[r] \in Nat
            /\ Further(target)[r] <= OneMore[r]
      BY <2>3, RowCounts DEF Further, OneMore, Involved, Inv, AttemptOnVersion, Grown
    <3>5. Relaxed(further) \subseteq Relaxed(wider)
      <4>. HIDE DEF further
      <4>. QED  BY <1>3, <1>4, <3>1, <3>4, RelaxedGrows
    <3>6. ~Meets(wider, target, copies)
      BY <1>5, <3>3, <3>5, ExactModels
    <3>. QED  BY <1>3, <3>1, <3>6, MeetsByVersion
  <2>. QED  BY <2>1, <2>2, <2>3
<1>6. GrowthSpent(target)
  BY <1>5 DEF GrowthSpent, Reaches
<1>. QED
  BY <1>1, <1>2, <1>6, EndsForReason

LEMMA RegrowReasons ==
  ASSUME Inv, Inv', Reasons, Decides, [Next]_vars, Regrow
  PROVE  Prepared' /\ Judged' /\ Pursuit'
<1>1. pc = "grow" /\ pc \in Attempting /\ pc' = "again" /\ pc' \in Attempting
      /\ UNCHANGED <<problem, current, target, tried>>
  BY DEF Regrow, At, Goto, Attempting, Solving
<1>2. OutOfReach(target)'
  BY <1>1, StaysOutOfReach DEF Reasons, Pursuit
<1>3. work'.open = candidates
  BY DEF Regrow, Inv, TypeOK, Round
<1>4. \A r \in Relations : work.open[r] <= work'.open[r]
  BY <1>1, <1>3 DEF Inv, AttemptOnVersion, Grown
<1>5. Prepared' /\ Judged'
  BY <1>1, <1>4, GoesOn
<1>6. Pursuit'
  BY <1>1, <1>2 DEF Pursuit
<1>. QED  BY <1>5, <1>6

(* The steps outside of attempts, and those that a solver that decides and  *)
(* a caller who waits rule out.                                             *)
LEMMA OtherReasons ==
  ASSUME Inv, Inv', Reasons, Decides, [Next]_vars,
         \/ OfferSeed \/ OfferVersion \/ Raise \/ Finish \/ TimeLimit
         \/ GiveUp \/ Reject \/ Terminated \/ UNCHANGED vars
  PROVE  Prepared' /\ Judged' /\ Pursuit'
<1>. USE DEF At, Goto
<1>1. CASE OfferSeed
  <2>1. pc = "seed" /\ pc' = "open" /\ UNCHANGED <<problem, current, candidates, tried>>
    BY <1>1 DEF OfferSeed, Offer, Decides
  <2>. QED
    BY <2>1 DEF Reasons, Prepared, Judged, Pursuit, Attempting, Solving
<1>2. CASE OfferVersion \/ Finish
  <2>1. pc \in {"offer", "choose"} /\ pc' \in {"choose", "done"}
        /\ UNCHANGED <<problem, current, candidates, tried>>
    BY <1>2 DEF OfferVersion, Offer, Finish, Decides
  <2>2. pc \notin {"seed", "open"} /\ pc' \notin {"seed", "open"}
        /\ pc \notin Attempting /\ pc' \notin Attempting
    BY <2>1 DEF Attempting, Solving
  <2>3. Prepared'
    BY <2>1, <2>2, PreparedStays DEF Attempting, Solving
  <2>4. (tried \ Pursued)' = tried \ Pursued
    BY <2>1, <2>2 DEF Pursued
  <2>5. Judged'
    BY <2>1, <2>4, JudgedStays DEF Inv, Reasons
  <2>. QED  BY <2>1, <2>3, <2>5 DEF Pursuit
<1>3. CASE Reject
  BY <1>3, SolutionsReplay DEF Reject, Decides, Reasons, Pursuit
<1>4. CASE Raise \/ TimeLimit \/ GiveUp
  BY <1>4 DEF Raise, TimeLimit, GiveUp, Decides
<1>5. CASE Terminated \/ UNCHANGED vars
  <2>1. UNCHANGED vars
    BY <1>5 DEF Terminated
  <2>2. Prepared'
    BY <2>1 DEF Reasons, Prepared, vars, Covered
  <2>3. (tried \ Pursued)' = tried \ Pursued
    BY <2>1 DEF Pursued, vars
  <2>4. Judged'
    BY <2>1, <2>3, JudgedStays DEF Inv, Reasons, vars
  <2>5. Pursuit'
    BY <2>1 DEF Reasons, Pursuit, vars, OutOfReach, Reaches, Strict, Relaxed, Meets, Covered
  <2>. QED  BY <2>2, <2>4, <2>5
<1>. QED
  BY <1>1, <1>2, <1>3, <1>4, <1>5

LEMMA OverStep ==
  ASSUME Reasons, Decides, [Next]_vars
  PROVE  Over'
<1>. USE DEF At, Goto
<1>1. CASE Finish
  <2>1. Pending = {} /\ current.budget # BUDGET /\ UNCHANGED <<problem, current, tried>>
    BY <1>1 DEF Finish
  <2>2. Pending' = Pending
    BY <2>1 DEF Pending, Uncovered, HasConditions, Covered
  <2>. QED  BY <2>1, <2>2 DEF Over
<1>2. CASE Terminated \/ UNCHANGED vars
  BY <1>2 DEF Terminated, vars, Reasons, Over, Pending, Uncovered, HasConditions, Covered
<1>3. CASE Raise \/ TimeLimit \/ GiveUp
  BY <1>3 DEF Raise, TimeLimit, GiveUp, Decides
<1>4. CASE OfferSeed \/ OfferVersion
  BY <1>4 DEF OfferSeed, OfferVersion, Offer, Decides, Over
<1>5. CASE Open \/ Choose \/ Widen \/ SolveSat \/ SolveUnsat \/ Accept \/ Reject
  BY <1>5 DEF Open, Choose, Widen, SolveSat, SolveUnsat, Accept, Reject, Over
<1>6. CASE Measure \/ NoRepetition \/ Distinct \/ NoFurtherRow \/ Regrow
  BY <1>6 DEF Measure, NoRepetition, Distinct, NoFurtherRow, Regrow, Over
<1>. QED
  BY <1>1, <1>2, <1>3, <1>4, <1>5, <1>6 DEF Next

LEMMA ReasonsStep == Inv /\ Reasons /\ [Next]_vars => Reasons'
<1>. SUFFICES ASSUME Inv, Reasons, [Next]_vars, Decides
              PROVE  Prepared' /\ Judged' /\ Pursuit' /\ Over'
  BY ProblemFixed DEF Reasons, Decides
<1>1. Inv'
  BY InvStep
<1>2. Prepared' /\ Judged' /\ Pursuit'
  BY <1>1, OpenReasons, AcceptReasons, WidenReasons, ChooseReasons, SolveSatReasons,
     SolveUnsatReasons, MeasureReasons, NoRepetitionReasons, DistinctReasons,
     NoFurtherRowReasons, RegrowReasons, OtherReasons DEF Next
<1>. QED  BY <1>2, OverStep

LEMMA ReasonsSuffice == Inv /\ Reasons => GivenUpWithReason
<1>. SUFFICES ASSUME Inv, Reasons, pc = "done", Decides
              PROVE  /\ current.budget = Widest.budget
                     /\ \A r \in Relations : current.open[r] >= 1
                     /\ \A o \in Outcomes \ Covered(problem, current.db) :
                          OutOfReach(o) /\ GrowthSpent(o)
  BY DEF GivenUpWithReason
<1>1. current.budget = Widest.budget
  BY DEF Reasons, Prepared, Over, Widest, Inv, TypeOK, Round, Budgets
<1>2. \A r \in Relations : current.open[r] >= 1
  BY DEF Reasons, Prepared
<1>3. ASSUME NEW o \in Outcomes \ Covered(problem, current.db)
      PROVE  OutOfReach(o) /\ GrowthSpent(o)
  <2>1. CASE HasConditions(current, o)
    <3>1. o \in tried
      BY <1>3, <2>1 DEF Reasons, Over, Pending, Uncovered
    <3>2. Pursued = {}
      BY DEF Pursued, Attempting, Solving
    <3>. QED  BY <3>1, <3>2 DEF Reasons, Judged
  <2>2. CASE ~HasConditions(current, o)
    BY <2>2, NoConditions DEF OutOfReach, GrowthSpent, Reaches, Strict, Relaxed
  <2>. QED  BY <2>1, <2>2
<1>. QED  BY <1>1, <1>2, <1>3

(* When the solver always decides and nobody interrupts the session, every  *)
(* target it gives up is out of reach of the last round, within the widest  *)
(* budget, and growing the instance was tried and could not help: for every *)
(* query, schema and number of candidate rows.                              *)
THEOREM GivesUpWithReason == Spec => []GivenUpWithReason
<1>1. Inv /\ Reasons /\ [Next]_vars => (Inv /\ Reasons)'
  BY InvStep, ReasonsStep
<1>. QED
  BY <1>1, InvInit, ReasonsInit, ReasonsSuffice, PTL DEF Spec

---------------------------------------------------------------------------------
(***************************************************************************)
(* Why generation ends: a lemma for each way of getting on. The budget can  *)
(* only be widened twice because the first execution finds none set.       *)
(***************************************************************************)
Unopened == pc \in {"seed", "open"} => current.budget = NoBudget

LEMMA UnopenedStep == Inv /\ Unopened /\ [Next]_vars => Unopened'
<1>. SUFFICES ASSUME Unopened, [Next]_vars PROVE Unopened'
  OBVIOUS
<1>. USE DEF At, Goto, Unopened
<1>1. CASE OfferSeed \/ OfferVersion \/ Raise \/ Finish \/ TimeLimit
  BY <1>1 DEF OfferSeed, OfferVersion, Offer, Raise, Finish, TimeLimit
<1>2. CASE Open \/ Choose \/ Widen \/ SolveSat \/ SolveUnsat \/ GiveUp \/ Accept \/ Reject
  BY <1>2 DEF Open, Choose, Widen, SolveSat, SolveUnsat, GiveUp, Accept, Reject
<1>3. CASE Measure \/ NoRepetition \/ Distinct \/ NoFurtherRow \/ Regrow
  BY <1>3 DEF Measure, NoRepetition, Distinct, NoFurtherRow, Regrow
<1>4. CASE Terminated \/ UNCHANGED vars
  BY <1>4 DEF Terminated, vars
<1>. QED
  BY <1>1, <1>2, <1>3, <1>4 DEF Next

(* The steps that only move on. *)
LEMMA ComesCloser ==
  ASSUME UNCHANGED <<current, tried, candidates>>, Place[pc] < Place[pc']
  PROVE  Onward
BY DEF Onward

LEMMA AcceptOnward ==
  ASSUME Inv, Accept
  PROVE  Onward
<1>1. /\ target \in Covered(problem, current'.db) \ Covering
      /\ Productive => Covering \subseteq Covered(problem, current'.db)
  BY AcceptGrows DEF Covering, Productive
<1>2. Covering' = Covered(problem, current'.db)
  BY DEF Accept, Covering, Covered
<1>3. CASE Productive'
  BY <1>1, <1>2, <1>3 DEF Onward, CoversMore
<1>4. CASE ~Productive'
  <2>. current'.db # current.db
    BY <1>1 DEF Covering
  <2>. QED  BY <1>4 DEF Onward, Unproductive
<1>. QED  BY <1>3, <1>4

LEMMA OpenOnward ==
  ASSUME Inv, Unopened, Open
  PROVE  Onward
<1>1. /\ pc = "open" /\ pc' = "choose" /\ UNCHANGED <<tried, candidates>>
      /\ current.budget = NoBudget
  BY DEF Open, At, Goto, Unopened
<1>2. current'.db = current.db /\ current'.budget \in {NoBudget, BUDGET}
  BY DEF Open, Execute
<1>3. Place[pc] < Place[pc']
  BY <1>1 DEF Place
<1>. QED
  BY <1>1, <1>2, <1>3 DEF Onward, Widens

LEMMA WidenOnward ==
  ASSUME Inv, Widen
  PROVE  Onward
<1>. current'.db = current.db /\ current.budget = BUDGET /\ current'.budget = MAX_BUDGET
  BY DEF Widen, Inv, TypeOK, Round
<1>. QED
  BY DEF Onward, Widens

LEMMA ChooseOnward ==
  ASSUME Inv, Choose
  PROVE  Onward
<1>1. Min(Pending) \in Pending
  BY PendingType, LeastOfNaturals, OutcomesAreNumbered DEF Choose
<1>2. target' \in Pending /\ tried' = tried \cup {target'} /\ UNCHANGED current
  BY <1>1 DEF Choose
<1>3. target' \notin tried
  BY <1>2 DEF Pending
<1>. QED
  BY <1>2, <1>3 DEF Onward, TriesMore

(* Growth to a demand that exceeds the candidate rows, or by a row. *)
LEMMA GrowthOnward ==
  ASSUME Inv, Inv', [Next]_vars, Measure \/ Distinct
  PROVE  Onward
<1>1. \A r \in Relations : candidates[r] <= candidates'[r]
  BY CandidatesGrow DEF Inv
<1>2. UNCHANGED <<current, tried>>
  BY DEF Measure, Distinct
<1>3. CASE candidates' # candidates
  BY <1>1, <1>2, <1>3 DEF Onward, HasMoreRows
<1>4. CASE candidates' = candidates /\ Measure
  <2>. pc = "measure" /\ pc' = "choose"
    BY <1>4 DEF Measure, At, Goto
  <2>. Place[pc] < Place[pc']
    BY DEF Place
  <2>. QED  BY <1>2, <1>4, ComesCloser
<1>5. CASE candidates' = candidates /\ Distinct
  <2>1. PICK r \in Involved : r \in Relations
    BY <1>5, InvolvedAreRelations DEF Distinct, Involved, Inv, TypeOK
  <2>2. candidates'[r] = candidates[r] + 1
    BY <1>5, <2>1 DEF Distinct, OneMore
  <2>3. candidates[r] \in Nat
    BY <2>1, RowCounts DEF Inv
  <2>. QED  BY <1>5, <2>2, <2>3
<1>. QED  BY <1>3, <1>4, <1>5

LEMMA OtherOnward ==
  ASSUME Inv,
         \/ OfferSeed \/ OfferVersion \/ Raise \/ Finish \/ TimeLimit
         \/ SolveSat \/ SolveUnsat \/ GiveUp \/ Reject
         \/ NoRepetition \/ NoFurtherRow \/ Regrow
  PROVE  Onward
<1>. USE DEF At, Goto
<1>1. UNCHANGED <<current, tried, candidates>>
  BY DEF OfferSeed, OfferVersion, Offer, Raise, Finish, TimeLimit, SolveSat,
     SolveUnsat, GiveUp, Reject, NoRepetition, NoFurtherRow, Regrow
<1>2. CASE OfferSeed \/ OfferVersion
  <2>1. /\ pc \in {"seed", "offer"} /\ pc' \in {"open", "choose", "done"}
        /\ pc = "offer" => pc' # "open"
    BY <1>2 DEF OfferSeed, OfferVersion, Offer
  <2>2. Place[pc] < Place[pc']
    BY <2>1 DEF Place
  <2>. QED  BY <1>1, <2>2, ComesCloser
<1>3. CASE Raise \/ Finish \/ TimeLimit
  <2>1. pc \in Steps \ Stopped /\ pc' \in Stopped
    BY <1>3 DEF Raise, Finish, TimeLimit, Executing, Steps, Stopped, Solving
  <2>2. Place[pc] < Place[pc']
    BY <2>1 DEF Place, Steps, Stopped, Solving
  <2>. QED  BY <1>1, <2>2, ComesCloser
<1>4. CASE SolveSat \/ SolveUnsat
  <2>1. /\ pc \in Solving /\ pc' \in {"all", "measure", "replay"}
        /\ pc' = "all" => pc = "first"
    BY <1>4 DEF SolveSat, SolveUnsat
  <2>2. Place[pc] < Place[pc']
    BY <2>1 DEF Place, Solving
  <2>. QED  BY <1>1, <2>2, ComesCloser
<1>5. CASE GiveUp \/ Reject \/ NoFurtherRow
  <2>1. pc \in Solving \cup {"measure", "distinct", "replay"} /\ pc' = "choose"
    BY <1>5 DEF GiveUp, Reject, NoFurtherRow
  <2>2. Place[pc] < Place[pc']
    BY <2>1 DEF Place, Solving
  <2>. QED  BY <1>1, <2>2, ComesCloser
<1>6. CASE NoRepetition \/ Regrow
  <2>1. <<pc, pc'>> \in {<<"measure", "distinct">>, <<"grow", "again">>}
    BY <1>6 DEF NoRepetition, Regrow
  <2>2. Place[pc] < Place[pc']
    BY <2>1 DEF Place
  <2>. QED  BY <1>1, <2>2, ComesCloser
<1>. QED
  BY <1>2, <1>3, <1>4, <1>5, <1>6

LEMMA OnwardStep == Inv /\ Unopened /\ [Next]_vars => [Onward]_vars
<1>. SUFFICES ASSUME Inv, Unopened, [Next]_vars, ~UNCHANGED vars PROVE Onward
  OBVIOUS
<1>1. Inv'
  BY InvStep
<1>. QED
  BY <1>1, AcceptOnward, OpenOnward, WidenOnward, ChooseOnward, GrowthOnward,
     OtherOnward DEF Next, Terminated

(* Whatever the query, the solver and the schema, every step brings         *)
(* generation nearer to its end, but for versions without output.           *)
THEOREM EveryStepAdvances == Spec => Advances
<1>1. Init => Unopened
  BY DEF Init, Unopened
<1>. QED
  BY <1>1, UnopenedStep, OnwardStep, InvCorrect, PTL DEF Spec, Advances

---------------------------------------------------------------------------------
(* Session implements DatabaseVersions: Accept grows the database, offering *)
(* shows it, the steps that end the session stop, all others stutter.       *)
LEMMA RefinementInit == Init => Versions!Init
BY DEF Init, Versions!Init, Stopped

LEMMA OfferShows ==
  ASSUME Inv, OfferSeed \/ OfferVersion
  PROVE  Versions!Show
<1>1. shown # current.db /\ pc \notin Stopped
  BY DEF OfferSeed, OfferVersion, Offer, At, Inv, AttemptOnVersion, Seen, Stopped
<1>2. shown' = current.db /\ UNCHANGED <<problem, current>>
  BY DEF OfferSeed, OfferVersion, Offer
<1>3. (pc \in Stopped)' \in BOOLEAN
  OBVIOUS
<1>. QED
  BY <1>1, <1>2, <1>3 DEF Versions!Show

LEMMA AcceptIsGrow ==
  ASSUME Inv, Accept
  PROVE  Versions!Grow
<1>1. ~(pc \in Stopped) /\ UNCHANGED <<problem, shown, pc \in Stopped>>
  BY DEF Accept, At, Goto, Stopped
<1>2. \E added \in Additions : current'.db = Plus(current.db, added)
  BY AcceptGrows
<1>. QED
  BY <1>1, <1>2, AcceptGrows DEF Versions!Grow, Versions!Productive

LEMMA EndStops ==
  ASSUME Inv, Raise \/ Finish \/ TimeLimit
  PROVE  Versions!Stop
<1>1. pc \notin Stopped \cup {"seed", "offer"}
  BY DEF Raise, Finish, TimeLimit, Executing, At, Solving, Stopped
<1>2. shown = current.db
  BY <1>1 DEF Inv, AttemptOnVersion, Seen
<1>3. (pc \in Stopped)' = TRUE /\ UNCHANGED <<problem, current, shown>>
  BY DEF Raise, Finish, TimeLimit, Goto, Stopped
<1>. QED
  BY <1>1, <1>2, <1>3 DEF Versions!Stop

LEMMA OthersStutter ==
  ASSUME Inv, [Next]_vars,
         ~(OfferSeed \/ OfferVersion \/ Accept \/ Raise \/ Finish \/ TimeLimit)
  PROVE  UNCHANGED Versions!versionVars
<1>1. UNCHANGED <<problem, shown>>
  BY DEF Next, vars, Open, Choose, Widen, SolveSat, SolveUnsat, GiveUp, Reject,
     Measure, NoRepetition, Distinct, NoFurtherRow, Regrow, Terminated
<1>2. UNCHANGED current.db
  BY OthersKeepRows
<1>3. UNCHANGED (pc \in Stopped)
  <2>. USE DEF At, Goto, Stopped, Solving
  <2>1. CASE Open \/ Choose \/ SolveSat \/ SolveUnsat \/ GiveUp \/ Reject
    <3>. ~(pc \in Stopped) /\ ~(pc' \in Stopped)
      BY <2>1 DEF Open, Choose, SolveSat, SolveUnsat, GiveUp, Reject
    <3>. QED  OBVIOUS
  <2>2. CASE Measure
    <3>. pc = "measure" /\ pc' \in {"choose", "grow"}
      BY <2>2 DEF Measure
    <3>. QED  OBVIOUS
  <2>3. CASE NoRepetition \/ Distinct \/ NoFurtherRow \/ Regrow
    <3>. ~(pc \in Stopped) /\ ~(pc' \in Stopped)
      BY <2>3 DEF NoRepetition, Distinct, NoFurtherRow, Regrow
    <3>. QED  OBVIOUS
  <2>4. CASE Widen \/ Terminated \/ UNCHANGED vars
    BY <2>4 DEF Widen, Terminated, vars
  <2>. QED  BY <2>1, <2>2, <2>3, <2>4 DEF Next
<1>. QED
  BY <1>1, <1>2, <1>3 DEF Versions!versionVars

LEMMA RefinementStep == Inv /\ [Next]_vars => [Versions!Next]_(Versions!versionVars)
<1>. SUFFICES ASSUME Inv, [Next]_vars
              PROVE  Versions!Next \/ UNCHANGED Versions!versionVars
  OBVIOUS
<1>. QED
  BY OfferShows, AcceptIsGrow, EndStops, OthersStutter DEF Versions!Next

(* Generation keeps what docs/generator.md promises about versions.         *)
THEOREM GrowsDatabaseByVersions == Spec => GrowsByVersions
BY RefinementInit, RefinementStep, InvCorrect, PTL
DEF Spec, GrowsByVersions, Versions!Spec
=================================================================================
