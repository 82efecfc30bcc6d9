---------------------------- MODULE Coverage_proofs ----------------------------
(***************************************************************************)
(* Theorems about Recorder for every number of outcomes and conditions and *)
(* every limit: its types, that a covered outcome always has what keeps it *)
(* covered, and that no condition is crowded out.                          *)
(***************************************************************************)
EXTENDS Coverage, FiniteSetTheorems, TLAPS

LEMMA TypeInit == Init => TypeOK
BY DEF Init, TypeOK

LEMMA TypeReport ==
  ASSUME TypeOK, NEW t \in Targets, NEW isCovered \in BOOLEAN,
         NEW condition \in Holding \cup Failing \cup {"TRUE", "FALSE"},
         Report(t, isCovered, condition)
  PROVE  /\ every' \in SUBSET Targets /\ reached' \in SUBSET Targets
         /\ reports' \in
              SUBSET (Targets \X BOOLEAN \X (Holding \cup Failing \cup {"TRUE", "FALSE"}))
<1>1. <<t, isCovered, condition>> \in
        Targets \X BOOLEAN \X (Holding \cup Failing \cup {"TRUE", "FALSE"})
  OBVIOUS
<1>2. every' = every /\ reached' = reached \cup {t}
      /\ reports' = reports \cup {<<t, isCovered, condition>>}
  BY DEF Report
<1>. QED
  BY <1>1, <1>2, Zenon DEF TypeOK

LEMMA TypeStep == TypeOK /\ [Next]_vars => TypeOK'
<1>. SUFFICES ASSUME TypeOK, [Next]_vars PROVE TypeOK'
  OBVIOUS
<1>1. ASSUME NEW t \in Targets, NEW condition \in Holding \cup {"TRUE"}, Cover(t, condition)
      PROVE  TypeOK'
  <2>1. Report(t, TRUE, condition)
    BY <1>1 DEF Cover
  <2>2. candidates' = candidates
    BY <1>1 DEF Cover
  <2>3. stable' \in SUBSET Targets /\ covered' \in SUBSET Targets
    BY <1>1 DEF Cover, KeepWitness, TypeOK
  <2>4. witnesses' \in [Targets -> SUBSET Holding]
    BY <1>1 DEF Cover, KeepWitness, TypeOK
  <2>. QED  BY <2>1, <2>2, <2>3, <2>4, TypeReport DEF TypeOK
<1>2. ASSUME NEW t \in Targets, NEW condition \in Failing \cup {"FALSE"}, Miss(t, condition)
      PROVE  TypeOK'
  <2>1. Report(t, FALSE, condition)
    BY <1>2 DEF Miss
  <2>2. UNCHANGED <<covered, stable, witnesses>>
    BY <1>2 DEF Miss
  <2>3. candidates' \in [Targets -> SUBSET Failing]
    BY <1>2 DEF Miss, KeepCandidate, TypeOK
  <2>. QED  BY <2>1, <2>2, <2>3, TypeReport DEF TypeOK
<1>3. CASE UNCHANGED vars
  BY <1>3 DEF vars, TypeOK
<1>. QED
  BY <1>1, <1>2, <1>3 DEF Next, Offer

(* The recorder's variables keep their types: what it keeps are conditions  *)
(* over open inputs, witnesses that hold and candidates that do not.        *)
THEOREM TypeCorrect == Spec => []TypeOK
BY TypeInit, TypeStep, PTL DEF Spec

---------------------------------------------------------------------------------
(* An outcome without room keeps a condition. *)
LEMMA FullIsNotEmpty ==
  ASSUME NEW t, NEW kept, Full(t, kept)
  PROVE  kept[t] # {}
BY LimitIsPositive, FS_EmptySet DEF Full

LEMMA KeptInit == Init => CoveredCanBeKept
BY DEF Init, CoveredCanBeKept

LEMMA KeptStep == TypeOK /\ CoveredCanBeKept /\ [Next]_vars => CoveredCanBeKept'
<1>. SUFFICES ASSUME TypeOK, CoveredCanBeKept, [Next]_vars PROVE CoveredCanBeKept'
  OBVIOUS
<1>. USE DEF TypeOK, CoveredCanBeKept
<1>1. ASSUME NEW t \in Targets, NEW condition \in Holding \cup {"TRUE"}, Cover(t, condition)
      PROVE  CoveredCanBeKept'
  <2>1. CASE t \in stable
    BY <1>1, <2>1 DEF Cover, Report
  <2>2. CASE t \notin stable /\ Full(t, witnesses)
    <3>. witnesses[t] # {}
      BY <2>2, FullIsNotEmpty
    <3>. QED  BY <1>1, <2>2 DEF Cover, Report, KeepWitness
  <2>3. CASE t \notin stable /\ ~Full(t, witnesses)
    BY <1>1, <2>3, ConditionsAreDecided DEF Cover, Report, KeepWitness
  <2>. QED  BY <2>1, <2>2, <2>3
<1>2. ASSUME NEW t \in Targets, NEW condition \in Failing \cup {"FALSE"}, Miss(t, condition)
      PROVE  CoveredCanBeKept'
  BY <1>2 DEF Miss, Report
<1>3. CASE UNCHANGED vars
  BY <1>3 DEF vars
<1>. QED
  BY <1>1, <1>2, <1>3 DEF Next, Offer

(* Every covered outcome is stable or has a witness to ask for.             *)
THEOREM CoverageCanBeKept == Spec => []CoveredCanBeKept
BY TypeInit, TypeStep, KeptInit, KeptStep, PTL DEF Spec

---------------------------------------------------------------------------------
(***************************************************************************)
(* NotCrowdedOut, strengthened to outcomes not reported yet and to finite  *)
(* sets, whose cardinalities can be compared.                              *)
(***************************************************************************)
Kept(t) ==
  /\ IsFiniteSet(Missing(t))
  /\ candidates[t] \subseteq Missing(t)
  /\ IF t \in every \/ Cardinality(Missing(t)) <= LIMIT
     THEN candidates[t] = Missing(t)
     ELSE Cardinality(candidates[t]) = LIMIT

NoneCrowdedOut == \A t \in Targets \ covered : Kept(t)

LEMMA CrowdInit == Init => NoneCrowdedOut
<1>. SUFFICES ASSUME Init, NEW t \in Targets PROVE Kept(t)
  BY DEF NoneCrowdedOut
<1>1. Missing(t) = {} /\ candidates[t] = {}
  BY DEF Init, Missing
<1>2. IsFiniteSet({}) /\ Cardinality({}) = 0 /\ 0 <= LIMIT
  BY FS_EmptySet, LimitIsPositive
<1>. QED
  BY <1>1, <1>2 DEF Kept

(* Another condition of an uncovered outcome. *)
LEMMA CrowdMiss ==
  ASSUME TypeOK, NEW t \in Targets, NEW condition \in Failing, condition \notin Missing(t),
         Kept(t), KeepCandidate(t, condition), UNCHANGED every,
         reports' = reports \cup {<<t, FALSE, condition>>}
  PROVE  Kept(t)'
<1>1. Missing(t)' = Missing(t) \cup {condition}
  BY DEF Missing
<1>2. /\ IsFiniteSet(Missing(t)) /\ Cardinality(Missing(t)) \in Nat
      /\ IsFiniteSet(candidates[t]) /\ Cardinality(candidates[t]) \in Nat
  BY FS_CardinalityType, FS_Subset DEF Kept
<1>3. /\ IsFiniteSet(Missing(t)')
      /\ Cardinality(Missing(t)') = Cardinality(Missing(t)) + 1
  BY <1>1, <1>2, FS_AddElement
<1>4. condition # "FALSE"
  BY ConditionsAreDecided
<1>5. CASE Full(t, candidates)
  <2>1. candidates' = candidates
    BY <1>5 DEF KeepCandidate
  <2>2. Cardinality(Missing(t)') > LIMIT /\ Cardinality(candidates[t]) = LIMIT /\ t \notin every
    BY <1>2, <1>3, <1>5, LimitIsPositive DEF Full, Kept
  <2>. QED  BY <1>1, <1>2, <1>3, <2>1, <2>2, LimitIsPositive DEF Kept
<1>6. CASE ~Full(t, candidates)
  <2>1. candidates'[t] = candidates[t] \cup {condition}
    BY <1>4, <1>6 DEF KeepCandidate, TypeOK
  <2>2. candidates[t] = Missing(t)
    BY <1>2, <1>6, LimitIsPositive DEF Full, Kept
  <2>3. t \in every \/ Cardinality(Missing(t)') <= LIMIT
    BY <1>2, <1>3, <1>6, <2>2, LimitIsPositive DEF Full
  <2>. QED  BY <1>1, <1>3, <2>1, <2>2, <2>3 DEF Kept
<1>. QED
  BY <1>5, <1>6

(* A report that says nothing new of an outcome. *)
LEMMA CrowdSame ==
  ASSUME TypeOK, NEW t \in Targets, Kept(t), UNCHANGED every,
         Missing(t)' = Missing(t), candidates'[t] = candidates[t]
  PROVE  Kept(t)'
BY DEF Kept

LEMMA CrowdStep ==
  TypeOK /\ CoveredCanBeKept /\ NoneCrowdedOut /\ [Next]_vars => NoneCrowdedOut'
<1>. SUFFICES ASSUME TypeOK, CoveredCanBeKept, NoneCrowdedOut, [Next]_vars,
                     NEW u \in Targets \ covered'
              PROVE  Kept(u)'
  BY DEF NoneCrowdedOut
<1>1. ASSUME NEW t \in Targets, NEW condition \in Holding \cup {"TRUE"}, Cover(t, condition)
      PROVE  Kept(u)'
  <2>1. u \notin covered /\ UNCHANGED <<every, candidates>>
    BY <1>1 DEF Cover, Report
  <2>2. Missing(u)' = Missing(u)
    BY <1>1 DEF Cover, Report, Missing
  <2>. QED  BY <2>1, <2>2, CrowdSame DEF NoneCrowdedOut
<1>2. ASSUME NEW t \in Targets, NEW condition \in Failing \cup {"FALSE"}, Miss(t, condition)
      PROVE  Kept(u)'
  <2>1. /\ u \notin covered /\ Kept(u) /\ u \notin stable /\ UNCHANGED every
        /\ reports' = reports \cup {<<t, FALSE, condition>>}
    BY <1>2 DEF Miss, Report, NoneCrowdedOut, CoveredCanBeKept
  <2>2. CASE u # t
    <3>1. Missing(u)' = Missing(u)
      BY <2>1, <2>2 DEF Missing
    <3>2. candidates'[u] = candidates[u]
      BY <1>2, <2>2 DEF Miss, KeepCandidate, TypeOK
    <3>. QED  BY <2>1, <3>1, <3>2, CrowdSame
  <2>3. CASE u = t /\ (condition = "FALSE" \/ condition \in Missing(t))
    <3>1. Missing(u)' = Missing(u)
      BY <2>1, <2>3, ConditionsAreDecided DEF Missing
    <3>2. candidates'[u] = candidates[u]
      <4>1. CASE condition = "FALSE" \/ Full(t, candidates)
        BY <1>2, <2>1, <2>3, <4>1 DEF Miss, KeepCandidate
      <4>2. CASE condition \in Missing(t) /\ ~Full(t, candidates)
        <5>1. IsFiniteSet(Missing(t)) /\ Cardinality(Missing(t)) \in Nat
              /\ Cardinality(candidates[t]) \in Nat
          BY <2>1, <2>3, FS_CardinalityType, FS_Subset DEF Kept
        <5>2. candidates[t] = Missing(t)
          BY <2>1, <2>3, <4>2, <5>1, LimitIsPositive DEF Full, Kept
        <5>. QED  BY <1>2, <2>1, <2>3, <4>2, <5>2 DEF Miss, KeepCandidate, TypeOK
      <4>. QED  BY <2>3, <4>1, <4>2
    <3>. QED  BY <2>1, <3>1, <3>2, CrowdSame
  <2>4. CASE u = t /\ condition \in Failing /\ condition \notin Missing(t)
    <3>1. KeepCandidate(t, condition)
      BY <1>2, <2>1, <2>4 DEF Miss
    <3>. QED  BY <2>1, <2>4, <3>1, CrowdMiss
  <2>. QED  BY <2>2, <2>3, <2>4
<1>3. CASE UNCHANGED vars
  BY <1>3, CrowdSame DEF vars, Missing, NoneCrowdedOut
<1>. QED
  BY <1>1, <1>2, <1>3 DEF Next, Offer

(* No condition that could cover an outcome is crowded out.                 *)
THEOREM ConditionsNotCrowdedOut == Spec => []NotCrowdedOut
<1>1. TypeOK /\ CoveredCanBeKept /\ NoneCrowdedOut => NotCrowdedOut
  BY DEF NoneCrowdedOut, NotCrowdedOut, Kept, Uncovered, TypeOK
<1>. QED
  BY <1>1, TypeInit, TypeStep, KeptInit, KeptStep, CrowdInit, CrowdStep, PTL DEF Spec
=================================================================================
