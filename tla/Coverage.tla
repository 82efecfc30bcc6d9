-------------------------------- MODULE Coverage --------------------------------
(***************************************************************************)
(* Coverage and Recorder of parseval/generator/coverage.py: which outcomes *)
(* one execution reaches and covers, and which of their conditions are     *)
(* kept for solving, at most limit per outcome.                            *)
(*                                                                         *)
(* The machine reports an outcome whenever a binding reaches a decision.   *)
(* The condition of a report holds exactly when the binding has that       *)
(* outcome: it is TRUE, or holds on the current values, if stored rows     *)
(* cover it, and FALSE, or does not hold, if they do not.                  *)
(***************************************************************************)
EXTENDS Naturals, FiniteSets

CONSTANTS
  Targets,         \* outcomes of decisions
  Holding,         \* conditions over open inputs that hold on the current values
  Failing,         \* conditions over open inputs that do not
  LIMIT            \* conditions kept per outcome (WITNESSES)

ASSUME LimitIsPositive == LIMIT \in Nat \ {0}
ASSUME ConditionsAreDecided ==
  Holding \cap Failing = {} /\ {"TRUE", "FALSE"} \cap (Holding \cup Failing) = {}

VARIABLES
  every,           \* the outcome whose conditions are all kept, if any
  reached, covered, stable,       \* sets of outcomes
  witnesses,       \* [Targets -> conditions that keep a covered outcome covered]
  candidates,      \* [Targets -> conditions that would cover an outcome]
  reports          \* history: <<outcome, covered, condition>> of every report

vars == <<every, reached, covered, stable, witnesses, candidates, reports>>

Init ==
  /\ every \in SUBSET Targets /\ Cardinality(every) <= 1
  /\ reached = {} /\ covered = {} /\ stable = {}
  /\ witnesses = [t \in Targets |-> {}]
  /\ candidates = [t \in Targets |-> {}]
  /\ reports = {}

Uncovered == reached \ covered

(* wants: whether another candidate condition is worth building. *)
Wants(t, isCovered) ==
  /\ ~isCovered /\ t \notin covered
  /\ t \in every \/ Cardinality(candidates[t]) < LIMIT

(* The bug of counting one too many. *)
FullAbove(t, kept) == t \notin every /\ Cardinality(kept[t]) > LIMIT

Full(t, kept) == t \notin every /\ Cardinality(kept[t]) >= LIMIT

(* The bug of keeping the witnesses of an outcome that became stable. *)
KeepStable(t, condition) ==
  /\ stable' = IF condition = "TRUE" THEN stable \cup {t} ELSE stable
  /\ witnesses' = IF condition = "TRUE" \/ Full(t, witnesses) THEN witnesses
                  ELSE [witnesses EXCEPT ![t] = @ \cup {condition}]

(* A condition that is TRUE makes the outcome stable, another one is kept   *)
(* while there is room; what comes after the last one kept is not looked at.*)
KeepWitness(t, condition) ==
  IF Full(t, witnesses) THEN UNCHANGED <<stable, witnesses>>
  ELSE IF condition = "TRUE"
       THEN /\ stable' = stable \cup {t}
            /\ witnesses' = [witnesses EXCEPT ![t] = {}]
       ELSE /\ witnesses' = [witnesses EXCEPT ![t] = @ \cup {condition}]
            /\ UNCHANGED stable

(* The bug of keeping constant conditions. *)
KeepConstant(t, condition) ==
  candidates' = IF Full(t, candidates) THEN candidates
                ELSE [candidates EXCEPT ![t] = @ \cup {condition}]

KeepCandidate(t, condition) ==
  candidates' = IF Full(t, candidates) \/ condition = "FALSE" THEN candidates
                ELSE [candidates EXCEPT ![t] = @ \cup {condition}]

Report(t, isCovered, condition) ==
  /\ reached' = reached \cup {t}
  /\ reports' = reports \cup {<<t, isCovered, condition>>}
  /\ UNCHANGED every

(* observe of an outcome stored rows produce. *)
Cover(t, condition) ==
  /\ Report(t, TRUE, condition)
  /\ IF t \in stable
     THEN UNCHANGED <<covered, stable, witnesses>>
     ELSE covered' = covered \cup {t} /\ KeepWitness(t, condition)
  /\ UNCHANGED candidates

(* observe of an outcome a binding reaches but stored rows do not produce. *)
Miss(t, condition) ==
  /\ Report(t, FALSE, condition)
  /\ IF t \in stable THEN UNCHANGED candidates ELSE KeepCandidate(t, condition)
  /\ UNCHANGED <<covered, stable, witnesses>>

(* _occurrences asks before it builds a condition over candidate rows. *)
Offer(t, condition) == Wants(t, FALSE) /\ Miss(t, condition)

Next ==
  \E t \in Targets :
    \/ \E condition \in Holding \cup {"TRUE"} : Cover(t, condition)
    \/ \E condition \in Failing \cup {"FALSE"} : Miss(t, condition) \/ Offer(t, condition)

Spec == Init /\ [][Next]_vars

---------------------------------------------------------------------------------
(* Properties.                                                              *)

TypeOK ==
  /\ every \in SUBSET Targets
  /\ reached \in SUBSET Targets /\ covered \in SUBSET Targets /\ stable \in SUBSET Targets
  /\ witnesses \in [Targets -> SUBSET Holding]
  /\ candidates \in [Targets -> SUBSET Failing]
  /\ reports \in SUBSET (Targets \X BOOLEAN \X (Holding \cup Failing \cup {"TRUE", "FALSE"}))

(* Session.requirements looks up the witnesses of every covered outcome     *)
(* that is not stable, and asks for one of them: there always is one, it    *)
(* holds on the stored rows, and stable outcomes leave none behind.         *)
CoveredCanBeKept ==
  /\ stable \subseteq covered /\ covered \subseteq reached
  /\ \A t \in covered : witnesses[t] = {} <=> t \in stable
  /\ \A t \in Targets : witnesses[t] \subseteq Holding /\ (t \notin covered => witnesses[t] = {})

(* What a report said of a condition of an outcome stored rows miss. *)
Missing(t) == {condition \in Failing : <<t, FALSE, condition>> \in reports}

(* An uncovered outcome some binding can reach keeps a condition, up to the *)
(* limit all of them, and all for the outcome named by every: neither       *)
(* constants nor repetitions crowd one out ("bindings that cannot reach the *)
(* outcome do not crowd out those that can").                               *)
NotCrowdedOut ==
  \A t \in Uncovered :
    /\ candidates[t] \subseteq Missing(t)
    /\ IF t \in every \/ Cardinality(Missing(t)) <= LIMIT
       THEN candidates[t] = Missing(t)
       ELSE Cardinality(candidates[t]) = LIMIT

=================================================================================
