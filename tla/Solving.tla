------------------------------ MODULE Solving ------------------------------
(* Open inputs that make one alternative of every requirement true: the     *)
(* requirements are closed under integrity and split into components, each  *)
(* searched over constants and handed to Z3 when that decides nothing       *)
(* (smt/solve.py, `search` of smt/csp.py, the callers in                    *)
(* generator/generate.py).  Z3 is any solver whose answers are right and    *)
(* which may give up.                                                       *)
EXTENDS Search

CONSTANTS Problems,    \* what is asked: see Ask
          Domain,      \* the values that Z3's models take, by relation and column
          Multiplicities,     \* the multiplicities they take
          MaxBranches, \* options the search tries (BRANCHES)
          Restarts,    \* attempts Z3 has (RESTARTS)
          MaxExponent  \* a repeated row prefers at most 2^0 .. 2^MaxExponent

VARIABLES problem,      \* the problem that is solved
          pc,           \* what happens next
          groups,       \* the requirements, each a sequence of alternatives
          seen,         \* the inputs whose rows have their integrity required
          waiting,      \* the components left, sequences of requirements
          state,        \* the state the search is in
          agenda,       \* options the search has not tried: <<state, formula>>
          left,         \* options it may still try
          inconclusive, \* whether a failure of the search proved nothing
          kept,         \* the preferences <<weight, most>> Z3 has to keep
          restart,      \* attempts Z3 has made
          found,        \* the values of the components solved so far
          status        \* "sat", "unsat", "unknown" or "unsupported" at the end

searching == <<state, agenda, left, inconclusive>>
checking  == <<kept, restart>>
given     == <<problem, values, open, binary>>
vars      == <<given, pc, groups, seen, waiting, searching, checking, found, status>>

-----------------------------------------------------------------------------
(* A problem has a mode: an "attempt" at a target; "growth", which measures *)
(* how often the candidate rows are needed; or a "further" row tried.  Only *)
(* an attempt takes candidate rows for present at most once.                *)
Bounded(p)   == p.mode = "attempt"
Closing(p)   == {n \in p.open : IsWeight(n) /\ Bounded(p)}
Alone(terms) == [i \in DOMAIN terms |-> <<terms[i]>>]
Ask(p)       == Strict([i \in DOMAIN p.asked |-> Strict([j \in DOMAIN p.asked[i] |-> Made(p.asked[i][j])])])

Init == /\ problem \in Problems
        /\ values = problem.values /\ open = problem.open /\ binary = Closing(problem)
        /\ groups = Ask(problem)
        /\ pc = "close" /\ seen = {} /\ waiting = << >>
        /\ state = Start /\ agenda = << >> /\ left = 0 /\ inconclusive = FALSE
        /\ kept = {} /\ restart = 0
        /\ found = << >> /\ status = "none"

Answer(s) == pc' = "done" /\ status' = s

(* A failure leaves nothing of the components solved before it.             *)
Fail(s) == Answer(s) /\ found' = << >>

InputsOfGroup(g) == UNION {Inputs(g[i]) : i \in DOMAIN g}
Mentioned        == UNION {InputsOfGroup(groups[i]) : i \in DOMAIN groups} \ seen
OwnersOf(names)  == Ordered({<<n[1], n[2]>> : n \in names})

(* The integrity of the rows of the inputs that are new may mention more.   *)
Close ==
    /\ pc = "close"
    /\ IF Mentioned = {} THEN pc' = "split" /\ UNCHANGED <<groups, seen>>
       ELSE /\ seen' = seen \cup Mentioned
            /\ groups' = groups \o Alone(Constraints(OwnersOf(Mentioned), seen \cup Mentioned, Bounded(problem)))
            /\ pc' = pc
    /\ UNCHANGED <<given, waiting, searching, checking, found, status>>

(* Requirements that share an input, through others too, belong together.   *)
OpenGroups == SelectSeq(groups, LAMBDA g : InputsOfGroup(g) # {})
Untrue(g)  == InputsOfGroup(g) = {} /\ True3 \notin ToSet(g)
Lonely     == {InputsOfGroup(g) : g \in ToSet(OpenGroups)}   \* mutant
Parts      == LET edges == {InputsOfGroup(g) : g \in ToSet(OpenGroups)}
              IN  {Closure(e, edges) : e \in edges}
PartOf(g, part) == InputsOfGroup(g) \subseteq part
Components == LET parts == Ordered(Parts)
              IN  [i \in DOMAIN parts |-> SelectSeq(OpenGroups, LAMBDA g : PartOf(g, parts[i]))]

Decompose ==
    /\ pc = "split"
    /\ IF \E i \in DOMAIN groups : Untrue(groups[i]) THEN Fail("unsat") /\ UNCHANGED waiting
       ELSE waiting' = Components /\ pc' = "next" /\ UNCHANGED <<found, status>>
    /\ UNCHANGED <<given, groups, seen, searching, checking>>

component == Head(waiting)
AllInputs(c) == UNION {InputsOfGroup(g) : g \in ToSet(c)}

SolvedAlone(to) == found' = to /\ waiting' = Tail(waiting) /\ pc' = "next" /\ UNCHANGED status   \* mutant
Solved(to) == found' = to @@ found /\ waiting' = Tail(waiting) /\ pc' = "next" /\ UNCHANGED status

Finish == /\ pc = "next" /\ waiting = << >> /\ Answer("sat")
          /\ UNCHANGED <<given, groups, seen, waiting, searching, checking, found>>
-----------------------------------------------------------------------------
(* The search over constants.                                               *)
Required(c) == AndOf(Strict([i \in DOMAIN c |-> OrOf(Strict([j \in DOMAIN c[i] |-> Formula(c[i][j], "true")]))]))

(* To Z3, with every preference there is: absent rows stay absent, rows     *)
(* occur as seldom as possible.                                             *)
ToSolver == pc' = "encode" /\ UNCHANGED <<found, status, waiting, checking>>

Entered(formula, s) ==
    IF s.ok THEN /\ state' = s /\ left' = MaxBranches /\ agenda' = << >> /\ inconclusive' = FALSE
                 /\ pc' = "visit" /\ UNCHANGED <<found, status>>
    ELSE Fail("unsat") /\ UNCHANGED searching

BeginSearch ==
    /\ pc = "next" /\ waiting # << >> /\ problem.mode # "growth"
    /\ LET formula == Required(component)
       IN  formula # Unsupported /\ Entered(formula, NarrowBy(Start, <<formula>>))
    /\ UNCHANGED <<given, groups, seen, waiting, checking>>

(* A row that repeats is not for the search, nor is what its fragment lacks; *)
(* and normalizing may take too many steps (NORMALIZED).                    *)
SkipSearch ==
    /\ pc = "next" /\ waiting # << >>
    /\ ToSolver
    /\ UNCHANGED <<given, groups, seen, searching>>

(* A state without disjunctions has values picked, and they are tried.      *)
AbsentNow(p)    == {n \in p.open : IsWeight(n) /\ Bounded(p)}
InOrder(s)      == LET all == Ordered(InputsOf(s)) IN {all, Reverse(all)}
Verified(c, to) == \A i \in DOMAIN c : \E j \in DOMAIN c[i] : Trial(c[i][j], to) = TRUE

Pick(s) ==
    \E order \in InOrder(s) :
        LET picked == Assignment(s, order, AbsentNow(problem))
        IN  IF picked.ok /\ Verified(component, picked.to)
            THEN Solved(picked.to) /\ UNCHANGED inconclusive
            ELSE inconclusive' = TRUE /\ pc' = "backtrack" /\ UNCHANGED <<found, waiting, status>>

Explore ==
    /\ pc = "visit"
    /\ LET s == Propagated(state)
       IN  CASE ~s.ok             -> pc' = "backtrack" /\ UNCHANGED <<agenda, inconclusive, found, waiting, status>>
             [] s.choices = << >> -> Pick(s) /\ UNCHANGED agenda
             [] OTHER             -> /\ agenda' = Branches(s) \o agenda /\ pc' = "backtrack"
                                     /\ UNCHANGED <<inconclusive, found, waiting, status>>
    /\ UNCHANGED <<given, groups, seen, state, left, checking>>

(* Only a search that has seen every option proves that there is nothing.   *)
ProvesAnyway(gaveUp) == TRUE   \* mutant
Proves(gaveUp) == ~gaveUp
GiveUp == IF Proves(inconclusive \/ agenda # << >>) THEN Fail("unsat") /\ UNCHANGED <<waiting, checking>>
          ELSE ToSolver

Branch ==
    /\ pc = "backtrack"
    /\ IF agenda = << >> \/ left = 0 THEN GiveUp /\ UNCHANGED searching
       ELSE LET s == NarrowBy(agenda[1][1], <<agenda[1][2]>>)
            IN  /\ agenda' = Tail(agenda) /\ left' = left - 1
                /\ IF s.ok THEN state' = s /\ pc' = "visit" ELSE UNCHANGED <<state, pc>>
                /\ UNCHANGED <<inconclusive, found, status, waiting, checking>>
    /\ UNCHANGED <<given, groups, seen>>
-----------------------------------------------------------------------------
(* Z3.  An alternative with a function that it does not know is left out.   *)
RECURSIVE Encodable(_)
Encodable(t) == ~(Op(t) = "call" /\ Arg(t)[1] = "opaque") /\ \A i \in DOMAIN Kids(t) : Encodable(Kid(t, i))
Encoded(g)    == SelectSeq(g, Encodable)
EncodedAll(c) == [i \in DOMAIN c |-> Encoded(c[i])]

Preferences(names) ==
    IF problem.mode = "growth" THEN {<<n, 2^e>> : n \in {m \in names : IsWeight(m)}, e \in 0 .. MaxExponent}
    ELSE {<<n, 0>> : n \in names \cap AbsentNow(problem)}
AllPreferences == Preferences(AllInputs(EncodedAll(component)))

Encode ==
    /\ pc = "encode"
    /\ IF \E i \in DOMAIN component : Encoded(component[i]) = << >>
       THEN Fail("unsupported") /\ UNCHANGED checking
       ELSE kept' = AllPreferences /\ restart' = 1 /\ pc' = "check" /\ UNCHANGED <<found, status>>
    /\ UNCHANGED <<given, groups, seen, waiting, searching>>

(* The models of the constraints, and those that keep preferences.          *)
Of(n)      == IF IsWeight(n) THEN Multiplicities
              ELSE (Domain[n[1]][n[3]] \ Excluded(n)) \cup (IF Schema[n[1]][n[3]] THEN {Null} ELSE {})
Valuations(names) == FoldSet(LAMBDA n, ms : {(n :> x) @@ m : x \in Of(n), m \in ms}, {<< >>}, names)
ModelsOf(c)       == {m \in Valuations(AllInputs(c)) : Verified(c, m)}
Keeps(m, preferences) == \A p \in preferences : m[p[1]] <= p[2]

CheckSat ==
    /\ pc = "check"
    /\ \E m \in ModelsOf(EncodedAll(component)) : Keeps(m, kept) /\ Solved(m)
    /\ UNCHANGED <<given, groups, seen, searching, checking>>

(* A core is any set of preferences that no model keeps; all of it is       *)
(* released.                                                                *)
CoresOf(models) == {core \in SUBSET kept : \A m \in models : ~Keeps(m, core)}
CheckUnsat ==
    /\ pc = "check"
    /\ \E core \in CoresOf(ModelsOf(EncodedAll(component))) :
           IF core = {} THEN Fail("unsat") /\ UNCHANGED kept
           ELSE kept' = kept \ core /\ UNCHANGED <<pc, found, status>>
    /\ UNCHANGED <<given, groups, seen, waiting, searching, restart>>

(* Its share of the time is over: the next attempt starts anew.             *)
SameAttempt(n) == n   \* mutant
NextAttempt(n) == n + 1
CheckUnknown ==
    /\ pc = "check"
    /\ IF restart < Restarts THEN kept' = AllPreferences /\ restart' = NextAttempt(restart) /\ UNCHANGED <<pc, found, status>>
       ELSE Fail("unknown") /\ UNCHANGED checking
    /\ UNCHANGED <<given, groups, seen, waiting, searching>>

(* An answer stands.                                                        *)
Done == pc = "done" /\ UNCHANGED vars

Step == Close \/ Decompose \/ Finish \/ BeginSearch \/ SkipSearch \/ Explore \/ Branch
        \/ Encode \/ CheckSat \/ CheckUnsat \/ CheckUnknown
Next == Step \/ Done

(* Weak fairness of Step, spelt out: there is a step until there is an      *)
(* answer (no state is a deadlock), and steps that change something, which  *)
(* Done does not, are taken until then.                                     *)
Fairness == []<>(pc = "done") \/ []<><<TRUE>>_vars

Spec == Init /\ [][Next]_vars /\ Fairness
-----------------------------------------------------------------------------
(* What solving is for, said of the terms as they were asked.               *)
AssignmentsOf(names, most) ==
    {a \in Valuations(names) : \A n \in names : IsWeight(n) => a[n] <= most}
MostCopies == IF Bounded(problem) THEN 1 ELSE CHOOSE n \in Multiplicities : \A m \in Multiplicities : m <= n

RECURSIVE Assigned(_, _)
Assigned(t, a) ==
    IF Op(t) = "in"
    THEN IF Arg(t) \notin DOMAIN a THEN t ELSE IF a[Arg(t)] = Null THEN NullTerm ELSE Lit(a[Arg(t)])
    ELSE Node(Op(t), Arg(t), [i \in DOMAIN Kids(t) |-> Assigned(Kid(t, i), a)])

Answers(a) == /\ Consistent(a @@ values)
              /\ \A i \in DOMAIN problem.asked : \E j \in DOMAIN problem.asked[i] :
                     Made(Assigned(problem.asked[i][j], a)) = True3
AnyAnswers(assignments) == \E a \in assignments : Answers(a)

(* The constraints of all the rows hold exactly for the values that the     *)
(* backend would accept (instance/constraints.py:1-15); absent rows keep to *)
(* the limits of their columns as well.                                     *)
Storable(a) == \A n \in DOMAIN a : ~IsWeight(n) => InLimit(a[n], Limits[n[1]][n[3]])
IntegrityExact ==
    pc = "close" /\ seen = {} /\ Bounded(problem) =>
        LET slots == Ordered({<<n[1], n[2]>> : n \in DOMAIN values})
            all   == Constraints(slots, open, TRUE)
        IN  \A a \in AssignmentsOf(open, 1) :
                (\A i \in DOMAIN all : Trial(all[i], a) = TRUE) = (Consistent(a @@ values) /\ Storable(a))

(* UNSAT is a proof: no values of the open inputs make what is asked true   *)
(* in a consistent database (csp.py:349-353), unless Z3 could not encode an *)
(* alternative.                                                             *)
UnsatIsProved ==
    status = "unsat" /\ (\A g \in ToSet(groups) : Encoded(g) = g) =>
        ~AnyAnswers(AssignmentsOf(open, MostCopies))

(* SAT comes with values that make everything that is asked true in a       *)
(* consistent database, though components are solved one by one, and rows   *)
(* that nothing mentions keep what they hold.                               *)
SolutionsHold ==
    /\ status = "sat" => AnyAnswers({[n \in open |-> IF n \in DOMAIN found THEN found[n] ELSE values[n]]})
    /\ status = "sat" /\ Bounded(problem) => \A n \in DOMAIN found : IsWeight(n) => found[n] <= 1

(* The values of the inputs that a formula, and a state of the search,      *)
(* admit.                                                                   *)
SatisfiesAtom(op, name, v, a) ==
    CASE op = "eqvar" -> a[name] = a[v]
      [] op = "nevar" -> a[name] # a[v]
      [] op = "test"  -> Trial(v, (name :> a[name])) = TRUE
      [] op = "null"  -> a[name] = Null
      [] OTHER        -> a[name] # Null /\ (op = "notnull" \/ Holds(op, a[name], v))

RECURSIVE Satisfies(_, _)
Satisfies(f, a) == CASE f \in {Top, Bottom} -> f = Top
                    [] f[1] = "and" -> \A i \in DOMAIN f[2] : Satisfies(f[2][i], a)
                    [] f[1] = "or"  -> \E i \in DOMAIN f[2] : Satisfies(f[2][i], a)
                    [] OTHER        -> SatisfiesAtom(f[3], f[2], f[4], a)

Reaches(s, a) ==
    /\ \A n \in DOMAIN s.spaces : Passes(s.spaces[n], {n}, a[n])
    /\ \A l \in s.links : SatisfiesAtom(l[1], l[2], l[3], a)
    /\ \A i \in DOMAIN s.choices : \E j \in DOMAIN s.choices[i] : Satisfies(s.choices[i][j], a)

Possible(n)  == IF IsWeight(n) THEN {x \in Of(n) : x <= MostCopies} ELSE Of(n)
Untried(searched) ==
    {a \in AssignmentsOf(AllInputs(searched), MostCopies) :
        \/ pc = "visit" /\ Reaches(state, a)
        \/ \E i \in DOMAIN agenda : Reaches(agenda[i][1], a) /\ Satisfies(agenda[i][2], a)}

(* The components are solved one by one, by the search or by Z3: each of    *)
(* them is connected and apart from the others, the values of one are kept  *)
(* while the next is solved ("Requirements are split into components that   *)
(* share no input", solve.py:55-59); the search loses no solution until a   *)
(* value it picks fails, and says UNSAT when it has none left; preferences  *)
(* are released by a core, and a failure leaves nothing.                    *)
TrueOf(t, a) == EvalOn(t, a) = TRUE
InSearch     == pc \in {"visit", "backtrack"}
Promise == INSTANCE ComponentSearch WITH
    Alternatives <- ToSet, Mentions <- Inputs, IsTrue <- TrueOf, Known <- Encodable,
    present <- values, possible <- [n \in open |-> Possible(n)], preferred <- Preferences(open),
    given <- ToSet(groups), waiting <- {ToSet(c) : c \in ToSet(waiting)},
    pc <- IF pc \in {"close", "split", "done"} THEN pc ELSE "solve",
    phase <- CASE InSearch -> "search" [] pc \in {"encode", "check"} -> pc [] OTHER -> "next",
    component <- IF InSearch \/ pc \in {"encode", "check"} THEN ToSet(component) ELSE {},
    untried <- IF InSearch THEN Untried(component) ELSE {},
    inconclusive <- InSearch /\ inconclusive,
    kept <- IF pc = "check" THEN kept ELSE {}
AnswersAsPromised == Promise!SearchSpec

(* Solving comes to an answer, whatever cores Z3 gives and however often    *)
(* its time is over.                                                        *)
SolvingEnds == <>(pc = "done")
=============================================================================
