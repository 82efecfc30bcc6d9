------------------------------- MODULE Generation -------------------------------
(***************************************************************************)
(* Session of parseval/generator/generate.py: the loop that grows one      *)
(* database until its execution covers the query's outcomes.               *)
(*                                                                         *)
(* A database is the bag of its stored rows as far as the query can tell   *)
(* bags apart; what execution finds on it is the constant Bindings. Rows   *)
(* of multiplicity zero ("candidate rows", the solver's unknowns) are      *)
(* counted per relation. The solver and the machine are outside this       *)
(* module: Bindings says what they report of stored and appended rows, and *)
(* Solver how far their answers can be relied on.                          *)
(***************************************************************************)
EXTENDS Naturals, FiniteSets, FiniteSetsExt, Functions

CONSTANTS
  Problems,             \* queries, each over its schema
  Relations,            \* the relations of the schemas
  Rows,                 \* the rows a table can hold, told apart by value
  Home,                 \* [Rows -> Relations]
  Databases,            \* stored rows, as far as a query tells them apart
  Empty,                \* the database without rows
  Plus(_, _),           \* a database and the bag of rows appended to it
  Seeds(_),             \* what speculation may hand over for a problem
  Outcomes,             \* targets, numbered in site order
  OUTPUT,               \* the query's output is productive
  Bindings(_, _, _, _), \* problem, outcome, database, added rows: the numbers
                        \* of added rows combined by bindings that reach it
  Storable(_, _, _),    \* problem, database, new rows: keys new, parents there
  Keyed(_),             \* the rows whose relation has a key
  Owes(_),              \* pairs of relations: a key of the first lies in a
                        \* foreign key leading (transitively) to the second
  Involves(_, _),       \* relations whose candidate rows a target mentions
  Capped(_),            \* targets with more conditions than WITNESSES
  Solver(_),            \* how a problem is solved: "exact", "timed" or "loose"
  Interrupted(_),       \* whether the deadline passes or the caller stops
  MaxCopies,            \* bound: copies of one row in a solution
  MaxOpen               \* bound: candidate rows of a relation

Additions == [Rows -> 0 .. MaxCopies]
NoRows == [row \in Rows |-> 0]
Counts == [Relations -> 0 .. MaxOpen]

ASSUME BoundsAreCounts == MaxCopies \in Nat /\ MaxOpen \in Nat \ {0}
ASSUME OutcomesAreNumbered == Outcomes \subseteq Nat /\ OUTPUT \in Outcomes
ASSUME HomesAreRelations == Home \in [Rows -> Relations]
ASSUME DatabasesGrow ==
  /\ Empty \in Databases
  /\ \A db \in Databases, added \in Additions : Plus(db, added) \in Databases
ASSUME SeedsAreDatabases == \A p \in Problems : Seeds(p) \subseteq Databases
ASSUME SolverIsRated == \A p \in Problems : Solver(p) \in {"exact", "timed", "loose"}
ASSUME InvolvedAreRelations ==
  \A p \in Problems, o \in Outcomes : Involves(p, o) \subseteq Relations
ASSUME InterruptedIsBoolean == \A p \in Problems : Interrupted(p) \in BOOLEAN

(* The outcomes stored rows alone produce (Coverage.covered); stored rows   *)
(* decide it concretely under any budget.                                   *)
Covered(p, db) == {o \in Outcomes : Bindings(p, o, db, NoRows) # {}}

(* A speculated database is productive, or it is empty. *)
ASSUME SeedsAreProductive ==
  \A p \in Problems : \A db \in Seeds(p) \ {Empty} : OUTPUT \in Covered(p, db)

(* What an exact solution says its rows reach, executing them shows. *)
ASSUME ReplaysAgree ==
  \A p \in {q \in Problems : Solver(q) = "exact"}, db \in Databases, added \in Additions :
    LET covered == Covered(p, Plus(db, added))
    IN  \A o \in Outcomes \ covered : Bindings(p, o, db, added) = {}

---------------------------------------------------------------------------------
(* Candidate rows per binding; 0 stands for None, no bound. *)
BUDGET == 1
MAX_BUDGET == 2
NoBudget == 0
Budgets == {NoBudget, BUDGET, MAX_BUDGET}

(* One execution: the stored rows, the candidate rows beside them, and the  *)
(* budget of candidate rows a binding may combine.                          *)
Round == [db : Databases, open : Counts, budget : Budgets]

VARIABLES
  problem,     \* the query and its schema
  pc,          \* where the session is
  current,     \* run: the round of the latest accepted version
  work,        \* attempt: the round the target is solved in
  target,      \* the outcome being solved
  answer,      \* the rows the solver's model stores
  demand,      \* _grow: candidate rows per relation the target was measured to need
  candidates,  \* self.candidates
  tried,       \* outcomes tried on this version within this budget
  shown,       \* the database on_instance received last
  timedOut     \* GenerationResult.timed_out

vars == <<problem, pc, current, work, target, answer, demand, candidates,
          tried, shown, timedOut>>

(* seed: the speculated rows wait for the caller; open: first execution;    *)
(* choose: run's loop; first, all, again: _attempt with the kept            *)
(* conditions, with all of them, after growing; replay: execution of a      *)
(* solution; measure, distinct, grow: _grow; offer: an accepted version     *)
(* waits for the caller.                                                    *)
Solving == {"first", "all", "again"}
Stopped == {"done", "raised"}
Steps == Solving \cup Stopped \cup
         {"seed", "open", "choose", "replay", "measure", "distinct", "grow", "offer"}

NoDemand == [r \in Relations |-> 0]

Init ==
  /\ problem \in Problems
  /\ \E db \in Seeds(problem) :
       /\ current = [db |-> db, open |-> NoDemand, budget |-> NoBudget]
       /\ pc = IF db = Empty THEN "open" ELSE "seed"
  /\ work = current
  /\ target = OUTPUT
  /\ answer = NoRows
  /\ demand = NoDemand
  /\ candidates = [r \in Relations |-> 1]
  /\ tried = {}
  /\ shown = Empty
  /\ timedOut = FALSE

---------------------------------------------------------------------------------
(* Execution.                                                               *)

(* execute without a budget argument: bounded once the output is productive *)
Execute(p, db, open) ==
  [db |-> db, open |-> open,
   budget |-> IF OUTPUT \in Covered(p, db) THEN BUDGET ELSE NoBudget]

Fits(width, budget) == width > 0 /\ (budget = NoBudget \/ width <= budget)

(* Some binding within the budget reaches the outcome through candidate rows. *)
HasConditions(round, o) ==
  \E added \in Additions :
    \E width \in Bindings(problem, o, round.db, added) : Fits(width, round.budget)

(* Coverage.uncovered. An outcome reached only by bindings that cannot change *)
(* it has no condition, and trying it changes nothing.                        *)
Uncovered(round) ==
  {o \in Outcomes \ Covered(problem, round.db) : o = OUTPUT \/ HasConditions(round, o)}

---------------------------------------------------------------------------------
(* What a solve may answer.                                                 *)

(* requirements: the target by candidate rows within the budget and, once   *)
(* the output is productive, every covered outcome as stored rows show it.  *)
Meets(round, o, added) ==
  /\ \E width \in Bindings(problem, o, round.db, added) : Fits(width, round.budget)
  /\ OUTPUT \in Covered(problem, round.db) =>
       \A c \in Covered(problem, round.db) : 0 \in Bindings(problem, c, round.db, added)

Of(r) == {row \in Rows : Home[row] = r}
Present(added) == {row \in Rows : added[row] > 0}

(* A candidate row is stored at most once. *)
Strict(round) ==
  {added \in Additions :
     /\ \A r \in Relations : SumFunctionOnSet(added, Of(r)) <= round.open[r]
     /\ \A row \in Keyed(problem) : added[row] <= 1
     /\ Storable(problem, round.db, Present(added))}

AtMost(rows, n) == IsFiniteSet(rows) /\ Cardinality(rows) <= n

(* Integrity(bounded=False): a candidate row may repeat. *)
Relaxed(round) ==
  {added \in Additions :
     /\ \A r \in Relations : AtMost(Present(added) \cap Of(r), round.open[r])
     /\ Storable(problem, round.db, Present(added))}

(* The models of a solve over the allowed rows. A loose encoding may answer *)
(* with rows that replay then refuses, and may miss models.                 *)
Models(round, o, allowed) ==
  IF Solver(problem) = "loose" THEN allowed ELSE {added \in allowed : Meets(round, o, added)}

(* UNSAT with models left: a loose encoding, or all kept conditions of a    *)
(* capped target infeasible where another one is not.                       *)
Missed(o, every) == Solver(problem) = "loose" \/ (o \in Capped(problem) /\ ~every)

---------------------------------------------------------------------------------
(* run.                                                                     *)

At(step) == pc = step
Goto(step) == pc' = step

(* on_instance receives a version; a true value stops generation. *)
Offer(step, after) ==
  /\ At(step)
  /\ shown' = current.db
  /\ Goto(after) \/ (Interrupted(problem) /\ Goto("done"))
  /\ UNCHANGED <<problem, current, work, target, answer, demand, candidates,
                 tried, timedOut>>

OfferSeed == Offer("seed", "open")
OfferVersion == Offer("offer", "choose")

(* The first execution, of the seed with its candidate rows. *)
Open ==
  /\ At("open")
  /\ current' = Execute(problem, current.db, candidates)
  /\ Goto("choose")
  /\ UNCHANGED <<problem, work, target, answer, demand, candidates, tried,
                 shown, timedOut>>

Pending == Uncovered(current) \ tried

(* Where a round is executed. *)
Executing ==
  \/ pc \in {"open", "all", "replay", "measure", "distinct", "grow"}
  \/ At("choose") /\ Pending = {} /\ current.budget = BUDGET

(* An execution meets something the machine does not support, or the query  *)
(* fails on the stored rows: generate raises, or returns no database.       *)
Raise ==
  /\ Executing
  /\ Solver(problem) = "loose"
  /\ Goto("raised")
  /\ UNCHANGED <<problem, current, work, target, answer, demand, candidates,
                 tried, shown, timedOut>>

(* The bug of forgetting what was tried. *)
ChooseForgetful ==
  /\ At("choose")
  /\ Pending # {}
  /\ target' = IF OUTPUT \in Pending THEN OUTPUT ELSE Min(Pending)
  /\ work' = current
  /\ demand' = NoDemand
  /\ Goto("first")
  /\ UNCHANGED <<problem, current, answer, candidates, tried, shown, timedOut>>

(* _next: the output first, then site order. *)
Choose ==
  /\ At("choose")
  /\ Pending # {}
  /\ target' = IF OUTPUT \in Pending THEN OUTPUT ELSE Min(Pending)
  /\ tried' = tried \cup {target'}
  /\ work' = current
  /\ demand' = NoDemand
  /\ Goto("first")
  /\ UNCHANGED <<problem, current, answer, candidates, shown, timedOut>>

(* Nothing left within BUDGET: the same rows are executed within MAX_BUDGET. *)
Widen ==
  /\ At("choose")
  /\ Pending = {}
  /\ current.budget = BUDGET
  /\ current' = [current EXCEPT !.budget = MAX_BUDGET]
  /\ tried' = {}
  /\ UNCHANGED <<problem, pc, work, target, answer, demand, candidates, shown,
                 timedOut>>

(* The bug of ending without widening. *)
FinishNarrow ==
  /\ At("choose")
  /\ Pending = {}
  /\ Goto("done")
  /\ UNCHANGED <<problem, current, work, target, answer, demand, candidates,
                 tried, shown, timedOut>>

Finish ==
  /\ At("choose")
  /\ Pending = {}
  /\ current.budget # BUDGET
  /\ Goto("done")
  /\ UNCHANGED <<problem, current, work, target, answer, demand, candidates,
                 tried, shown, timedOut>>

(* TimeLimit, raised where a round is executed or a solve is started: the   *)
(* latest accepted version is returned.                                     *)
TimeLimit ==
  /\ Interrupted(problem)
  /\ Executing \/ pc \in Solving
  /\ timedOut' = TRUE
  /\ Goto("done")
  /\ UNCHANGED <<problem, current, work, target, answer, demand, candidates,
                 tried, shown>>

---------------------------------------------------------------------------------
(* attempt and _attempt.                                                    *)

SolveSat ==
  /\ pc \in Solving
  /\ HasConditions(work, target)
  /\ answer' \in Models(work, target, Strict(work))
  /\ Goto("replay")
  /\ UNCHANGED <<problem, current, work, target, demand, candidates, tried,
                 shown, timedOut>>

(* The bug of giving a target up without measuring its demand. *)
UnsatIsFinal ==
  /\ pc \in Solving
  /\ \/ ~HasConditions(work, target)
     \/ Missed(target, At("all"))
     \/ Models(work, target, Strict(work)) = {}
  /\ Goto("choose")
  /\ UNCHANGED <<problem, current, work, target, answer, demand, candidates,
                 tried, shown, timedOut>>

(* UNSAT: a capped target is solved once more with all its conditions, then *)
(* its demand for rows is measured.                                         *)
SolveUnsat ==
  /\ pc \in Solving
  /\ \/ ~HasConditions(work, target)
     \/ Missed(target, At("all"))
     \/ Models(work, target, Strict(work)) = {}
  /\ Goto(IF At("first") /\ target \in Capped(problem) /\ HasConditions(work, target)
          THEN "all" ELSE "measure")
  /\ UNCHANGED <<problem, current, work, target, answer, demand, candidates,
                 tried, shown, timedOut>>

(* UNKNOWN or UNSUPPORTED, of _attempt, of _grow's relaxed solve and of     *)
(* _distinct's: the target is given up.                                     *)
GiveUp ==
  /\ pc \in Solving \cup {"measure", "distinct"}
  /\ HasConditions(work, target)
  /\ Solver(problem) # "exact"
  /\ Goto("choose")
  /\ UNCHANGED <<problem, current, work, target, answer, demand, candidates,
                 tried, shown, timedOut>>

(* The solution's rows are stored; with_candidates brings every relation    *)
(* back to self.candidates rows of multiplicity zero.                       *)
Following == Execute(problem, Plus(work.db, answer), candidates)

(* The bug of never looking at what replay lost. *)
NothingLost == {}

Lost ==
  IF OUTPUT \in Covered(problem, work.db)
  THEN Covered(problem, work.db) \ Covered(problem, Following.db) ELSE {}

(* The bug of going on without offering the version. *)
AcceptSilently ==
  /\ At("replay")
  /\ target \in Covered(problem, Following.db)
  /\ Lost = {}
  /\ current' = Following
  /\ tried' = {}
  /\ Goto("choose")
  /\ UNCHANGED <<problem, work, target, answer, demand, candidates, shown, timedOut>>

Accept ==
  /\ At("replay")
  /\ target \in Covered(problem, Following.db)
  /\ Lost = {}
  /\ current' = Following
  /\ tried' = {}
  /\ Goto("offer")
  /\ UNCHANGED <<problem, work, target, answer, demand, candidates, shown, timedOut>>

(* Replay misses the target, loses an outcome, or fails. *)
Reject ==
  /\ At("replay")
  /\ \/ target \notin Covered(problem, Following.db)
     \/ Lost # {}
     \/ Solver(problem) = "loose"
  /\ Goto("choose")
  /\ UNCHANGED <<problem, current, work, target, answer, demand, candidates,
                 tried, shown, timedOut>>

---------------------------------------------------------------------------------
(* _grow and _distinct.                                                     *)

(* Copies of a relation's rows in the relaxed model; a relation whose rows  *)
(* are referenced by keyed rows needs as many rows as those.                *)
Demand(copies) ==
  [r \in Relations |->
     Max({SumFunctionOnSet(copies, Of(s)) :
            s \in {r} \cup {s \in Relations : <<s, r>> \in Owes(problem)}})]

(* SAT with repetition: relations grow to their demand, or nothing grows    *)
(* and the target is given up.                                              *)
Measure ==
  /\ At("measure")
  /\ HasConditions(work, target)
  /\ \E copies \in Models(work, target, Relaxed(work)) :
       /\ Demand(copies) \in Counts
       /\ demand' = Demand(copies)
  /\ candidates' = [r \in Relations |->
       IF demand'[r] > candidates[r] THEN demand'[r] ELSE candidates[r]]
  /\ Goto(IF candidates' = candidates THEN "choose" ELSE "grow")
  /\ UNCHANGED <<problem, current, work, target, answer, tried, shown, timedOut>>

(* Repetition does not help, or no binding reaches the target. *)
NoRepetition ==
  /\ At("measure")
  /\ \/ ~HasConditions(work, target)
     \/ Missed(target, FALSE)
     \/ Models(work, target, Relaxed(work)) = {}
  /\ Goto("distinct")
  /\ UNCHANGED <<problem, current, work, target, answer, demand, candidates,
                 tried, shown, timedOut>>

Involved == IF HasConditions(work, target) THEN Involves(problem, target) ELSE {}
OneMore == [r \in Relations |-> candidates[r] + (IF r \in Involved THEN 1 ELSE 0)]
WithOneMore == Models([work EXCEPT !.open = OneMore], target,
                      Relaxed([work EXCEPT !.open = OneMore]))

(* One more row in every relation the target involves makes it satisfiable. *)
Distinct ==
  /\ At("distinct")
  /\ Involved # {}
  /\ OneMore \in Counts
  /\ WithOneMore # {}
  /\ candidates' = OneMore
  /\ Goto("grow")
  /\ UNCHANGED <<problem, current, work, target, answer, demand, tried, shown,
                 timedOut>>

NoFurtherRow ==
  /\ At("distinct")
  /\ \/ Involved = {}
     \/ Missed(target, FALSE)
     \/ WithOneMore = {}
  /\ Goto("choose")
  /\ UNCHANGED <<problem, current, work, target, answer, demand, candidates,
                 tried, shown, timedOut>>

(* The bug of executing again without the attempt's budget. *)
RegrowAnew ==
  /\ At("grow")
  /\ work' = Execute(problem, work.db, candidates)
  /\ Goto("again")
  /\ UNCHANGED <<problem, current, target, answer, demand, candidates, tried,
                 shown, timedOut>>

(* The attempt's rows are executed again beside the grown candidate rows. *)
Regrow ==
  /\ At("grow")
  /\ work' = [work EXCEPT !.open = candidates]
  /\ Goto("again")
  /\ UNCHANGED <<problem, current, target, answer, demand, candidates, tried,
                 shown, timedOut>>

Terminated == pc \in Stopped /\ UNCHANGED vars

Next ==
  \/ OfferSeed \/ OfferVersion \/ Open \/ Raise
  \/ Choose \/ Widen \/ Finish \/ TimeLimit
  \/ SolveSat \/ SolveUnsat \/ GiveUp \/ Accept \/ Reject
  \/ Measure \/ NoRepetition \/ Distinct \/ NoFurtherRow \/ Regrow
  \/ Terminated

Spec == Init /\ [][Next]_vars

(* One thread runs the session and every solver call is bounded by          *)
(* timeout_ms, so a step that can be taken is taken.                        *)
FairSpec == Spec /\ WF_vars(Next)

---------------------------------------------------------------------------------
(* Properties.                                                              *)

TypeOK ==
  /\ problem \in Problems
  /\ pc \in Steps
  /\ current \in Round
  /\ work \in Round
  /\ target \in Outcomes
  /\ answer \in Additions
  /\ demand \in Counts
  /\ candidates \in Counts
  /\ tried \in SUBSET Outcomes
  /\ shown \in Databases
  /\ timedOut \in BOOLEAN

Attempting == Solving \cup {"replay", "measure", "distinct", "grow"}

(* An attempt works on the rows and the budget of the accepted version,     *)
(* however often it executes it again, never has more candidate rows than   *)
(* the session has grown to, and pursues an outcome that version does not   *)
(* cover. The caller has seen every version that is solved, widened or      *)
(* returned, and is never shown one twice.                                  *)
SameVersion ==
  pc \in Attempting => work.db = current.db /\ work.budget = current.budget

Grown ==
  \A r \in Relations :
    /\ current.open[r] <= candidates[r]
    /\ pc \in Attempting => work.open[r] <= candidates[r]

Pursues == pc \in Attempting => target \notin Covered(problem, work.db)

Seen == shown = current.db <=> pc \notin {"seed", "offer"}

AttemptOnVersion == SameVersion /\ Grown /\ Pursues /\ Seen

(* Session.run grows databases the way docs/generator.md promises: rows are *)
(* only appended, each version covers a new outcome and, once productive,   *)
(* loses none, and the caller has received the result, whatever the solver  *)
(* answers and wherever the deadline or the caller stops it.                *)
Versions == INSTANCE DatabaseVersions WITH
  version <- current.db, over <- pc \in Stopped
GrowsByVersions == Versions!Spec

(* Once the output is productive, no step of the session gives up an        *)
(* outcome that stored rows cover.                                          *)
KeepsCovered ==
  [][(OUTPUT \in Covered(problem, current.db)) =>
       Covered(problem, current.db) \subseteq Covered(problem, current.db)']_vars

(* Why generation ends, for any solver: every step covers more, or widens   *)
(* the budget of the same rows, or tries another target within it, or grows *)
(* the candidate rows for it, or comes closer to the choice of the next.    *)
(* Nothing counted before is undone by what counts less: tried starts anew  *)
(* only with a version or a budget. The exception are versions without      *)
(* output, which lose covered outcomes (run's "tried = following, set()").  *)
Covering == Covered(problem, current.db)
Productive == OUTPUT \in Covering

CoversMore ==
  /\ Productive'
  /\ Productive => Covering \subseteq Covering' /\ Covering # Covering'
Unproductive == ~Productive' /\ current'.db # current.db

Widens == <<current.budget, current'.budget>> \in
            {<<NoBudget, BUDGET>>, <<BUDGET, MAX_BUDGET>>}
TriesMore == tried \subseteq tried' /\ tried # tried'
HasMoreRows ==
  /\ \A r \in Relations : candidates[r] <= candidates'[r]
  /\ candidates # candidates'

Place == [seed |-> 1, open |-> 2, offer |-> 3, first |-> 4, all |-> 5, grow |-> 6,
          again |-> 7, replay |-> 8, measure |-> 9, distinct |-> 10, choose |-> 11,
          raised |-> 12, done |-> 13]

Onward ==
  \/ CoversMore
  \/ Unproductive
  \/ /\ UNCHANGED current.db
     /\ \/ Widens
        \/ UNCHANGED current.budget /\ TriesMore
        \/ UNCHANGED <<current.budget, tried>> /\ HasMoreRows
        \/ UNCHANGED <<current.budget, tried, candidates>> /\ Place[pc] < Place[pc']

Advances == [][Onward]_vars

(* Whether the solver always decides and nothing interrupts it. *)
Decides == Solver(problem) = "exact" /\ ~Interrupted(problem)

(* Then generation ends only when no bag of   *)
(* rows, of any size, would cover a further outcome within MAX_BUDGET       *)
(* candidate rows per binding (any number, for a first output) and keep the *)
(* covered ones: BUDGET, what was tried, retries and growth leave nothing   *)
(* behind.                                                                  *)
Widest ==
  [current EXCEPT
     !.open = [r \in Relations |-> MaxOpen],
     !.budget = IF OUTPUT \in Covered(problem, current.db) THEN MAX_BUDGET ELSE NoBudget]

Exhausted ==
  pc = "done" /\ Decides =>
    \A o \in Outcomes \ Covered(problem, current.db) :
      \A added \in Strict(Widest) : ~Meets(Widest, o, added)

(* Whatever the query, a target is only given up for a reason (run, _grow): *)
(* the rows of the last round, at least one more in each relation and as    *)
(* many per binding as there may be, do not reach it; and repeating rows    *)
(* does not either, even with one more of each relation it involves, or     *)
(* asks for no more rows than the session already has. The last is weaker   *)
(* than DemandMet, which does not hold. All the conditions of a capped      *)
(* target are only solved before growth.                                    *)
Reaches(o, allowed) == \E added \in allowed : Meets(current, o, added)
Beside(open) == [current EXCEPT !.open = open]
Further(o) ==
  [r \in Relations |-> current.open[r] + (IF r \in Involves(problem, o) THEN 1 ELSE 0)]
Granted(copies) ==
  Demand(copies) \in Counts /\ \A r \in Relations : Demand(copies)[r] <= candidates[r]

OutOfReach(o) == ~Reaches(o, Strict(current))
GrowthSpent(o) ==
  \/ o \in Capped(problem)
  \/ ~Reaches(o, Relaxed(Beside(Further(o))))
  \/ Reaches(o, {copies \in Relaxed(Beside(candidates)) : Granted(copies)})

GivenUpWithReason ==
  pc = "done" /\ Decides =>
    /\ current.budget = Widest.budget
    /\ \A r \in Relations : current.open[r] >= 1
    /\ \A o \in Outcomes \ Covered(problem, current.db) : OutOfReach(o) /\ GrowthSpent(o)

(* Generation ends (docs/generator.md: "a version only follows a solve that *)
(* covers a new outcome, so generation ends without row or attempt limits").*)
Ends == <>(pc \in Stopped)

(* A target whose demand for rows was measured is not given up in a round   *)
(* that has fewer candidate rows (docs/generator.md: "Relations whose       *)
(* demand exceeds their candidate rows grow and the target is solved        *)
(* again").                                                                 *)
DemandMet ==
  [][At("measure") /\ Goto("choose") =>
       \A r \in Relations : demand'[r] <= work.open[r]]_vars

=================================================================================
