----------------------------- MODULE Disprove_proofs -----------------------------
(***************************************************************************)
(* Whatever the backend answers, the databases generation offers and where *)
(* it is stopped: the verdicts of disprove are earned, and no scratch      *)
(* database outlives its check.                                            *)
(***************************************************************************)
EXTENDS Disprove, SequenceTheorems, TLAPS

(* A scratch database exists from load to the comparison of the results. *)
Scratched ==
  scratch = IF pc \in {"query", "compare"} THEN {checking} ELSE {}

(* The first database telling the queries apart is the one checked last:    *)
(* nothing but the verdict comes after it.                                  *)
Reported ==
  /\ counterexample = None => apart = {}
  /\ counterexample # None =>
       apart = {counterexample} /\ checking = counterexample /\ Told /\ pc \in {"judge", "done"}
  /\ pc = "judge" /\ counterexample # None => Generated
  /\ pc # "done" => verdict = None
  /\ pc = "done" /\ verdict # "SYNTAX_ERROR" => (verdict = "NEQ" <=> counterexample # None)

(* Where the callback of generation is called and where it is stopped. *)
InGeneration ==
  /\ pc = "parse" => index = 0
  /\ pc \in {"generate", "judge"} => index > 0
  /\ pc \in {"prepare", "query", "compare"} /\ index > 0 =>
       checking = version /\ shown # version
  /\ pc = "judge" => shown = version
  /\ shown # Empty => version # Empty

(* Between two checks the results are those of the database shown last. *)
ResultsOfShown ==
  pc \in {"generate", "judge"} /\ shown # Empty =>
    /\ checking = shown
    /\ Told => counterexample # None
    /\ ~Told /\ SomeRows /\ None \notin ToSet(results) => <<index, checking>> \in agreed

(* The queries whose databases have all been checked. *)
Judged == 1 .. (IF pc = "begin" \/ verdict = "EQ" THEN index ELSE index - 1)

HasEvidence(q) == \E db \in Databases \ {Empty} : <<q, db>> \in agreed

(* Without doubts, each of them agreed on a database with rows. *)
NoDoubts ==
  /\ doubts = {} => \A q \in Judged : HasEvidence(q)
  /\ verdict = "EQ" => doubts = {} /\ index = 2 /\ pc = "done"

VerdictInvariant == Scratched /\ Reported /\ InGeneration /\ ResultsOfShown /\ NoDoubts

Inv == TypeOK /\ VerdictInvariant

---------------------------------------------------------------------------------
(* Types.                                                                   *)

(* One more element after one. *)
LEMMA Second ==
  ASSUME NEW S, NEW seq \in [1 .. 1 -> S], NEW elt \in S
  PROVE  Append(seq, elt) \in [1 .. 2 -> S] /\ Len(Append(seq, elt)) = 2
<1>1. seq \in Seq(S)
  BY SeqDef
<1>2. Len(seq) = 1
  BY <1>1, LenProperties
<1>3. Append(seq, elt) \in Seq(S) /\ Len(Append(seq, elt)) = Len(seq) + 1
  BY Zenon, <1>1, AppendProperties
<1>4. Len(Append(seq, elt)) = 2
  BY <1>2, <1>3
<1>5. Append(seq, elt) \in [1 .. Len(Append(seq, elt)) -> S]
  BY Zenon, <1>3, LenProperties
<1> QED
  BY <1>4, <1>5

(* One more result of a check. *)
LEMMA OneMoreResult ==
  ASSUME NEW result \in Results,
         partial \in {<<>>} \cup [1 .. 1 -> Results]
  PROVE  /\ Append(partial, result) \in [1 .. 1 -> Results] \cup [1 .. 2 -> Results]
         /\ Len(Append(partial, result)) = 2 =>
              Append(partial, result) \in [1 .. 2 -> Results]
         /\ Len(Append(partial, result)) # 2 =>
              Append(partial, result) \in [1 .. 1 -> Results]
<1>1. CASE partial = <<>>
  <2>1. Append(partial, result) = <<result>>
    BY <1>1
  <2> QED
    BY <2>1
<1>2. CASE partial \in [1 .. 1 -> Results]
  BY <1>2, Second
<1> QED
  BY <1>1, <1>2

(* A check is running its queries with less than two results. *)
Running == pc = "query" => partial \in {<<>>} \cup [1 .. 1 -> Results]

LEMMA TypeInit == Init => TypeOK /\ Running
<1> SUFFICES ASSUME Init PROVE TypeOK /\ Running
  OBVIOUS
<1>1. version \in Databases /\ shown \in Databases /\ checking \in Databases
  BY DatabasesGrow DEF Init
<1>2. results \in [1 .. 2 -> Results]
  BY DEF Init, Results
<1>3. ordered \in BOOLEAN /\ setSemantics \in BOOLEAN /\ over \in BOOLEAN /\ late \in BOOLEAN
  BY Zenon DEF Init
<1> QED
  BY <1>1, <1>2, <1>3 DEF Init, TypeOK, Running

LEMMA TypeStep == TypeOK /\ Running /\ [Next]_vars => TypeOK' /\ Running'
<1> SUFFICES ASSUME TypeOK, Running, [Next]_vars PROVE TypeOK' /\ Running'
  OBVIOUS
<1> USE DEF TypeOK, Running, generation, query, history, Goto
<1>1. CASE Parse
  BY <1>1, DatabasesGrow DEF Parse, Return, Check, Verdicts
<1>2. CASE Prepare
  BY <1>2 DEF Prepare
<1>3. CASE Run
  <2>1. PICK result \in Results :
          partial' = Append(partial, result) /\ late' = (late \/ result = None)
    BY <1>3 DEF Run
  <2>2. late' \in BOOLEAN
    BY Zenon, <2>1
  <2>3. partial \in {<<>>} \cup [1 .. 1 -> Results]
    BY <1>3 DEF Run
  <2>4. partial' \in [1 .. 1 -> Results] \cup [1 .. 2 -> Results]
    BY <2>1, <2>3, OneMoreResult
  <2>5. \/ Len(partial') = 2 /\ results' = partial' /\ pc' = "compare"
        \/ Len(partial') # 2 /\ UNCHANGED <<results, pc>>
    BY <1>3 DEF Run
  <2>6. results' \in [1 .. 2 -> Results]
    BY <2>1, <2>3, <2>5, OneMoreResult
  <2>7. Running'
    BY <2>1, <2>3, <2>5, OneMoreResult
  <2>8. UNCHANGED <<query, generation, scratch, checking, counterexample, doubts, verdict,
                    apart, agreed>>
    BY <1>3 DEF Run
  <2>9. pc' \in {"query", "compare"}
    BY <1>3, <2>5 DEF Run
  <2> QED
    BY <2>2, <2>4, <2>6, <2>7, <2>8, <2>9
<1>4. CASE Refuse
  BY <1>4 DEF Refuse
<1>5. ASSUME Drop PROVE /\ scratch' \subseteq Databases /\ apart' \subseteq Databases
                        /\ counterexample' \in Databases \cup {None}
                        /\ agreed' \subseteq (0 .. 2) \X Databases
  <2>1. counterexample' \in Databases \cup {None}
    BY <1>5 DEF Drop, Found
  <2>2. agreed' \subseteq (0 .. 2) \X Databases
    BY <1>5 DEF Drop
  <2> QED
    BY <1>5, <2>1, <2>2 DEF Drop
<1>6. CASE CompareEmpty
  BY <1>5, <1>6 DEF CompareEmpty, Return, Verdicts
<1>7. CASE CompareVersion
  <2>1. shown' = version /\ version' = version
    BY <1>7 DEF CompareVersion, V!Show
  <2>2. over' \in BOOLEAN
    BY <1>7 DEF CompareVersion, V!Show
  <2>3. ended' \in {ended, "complete"} /\ pc' \in {"judge", "generate"}
    BY <1>7 DEF CompareVersion
  <2>4. UNCHANGED <<query, index, checking, partial, results, doubts, verdict, late>>
    BY <1>7 DEF CompareVersion
  <2>5. Drop
    BY <1>7 DEF CompareVersion
  <2> QED
    BY <1>5, <2>1, <2>2, <2>3, <2>4, <2>5
<1>8. CASE Begin
  <2>1. index' \in 1 .. 2 /\ version' \in Databases
    BY <1>8, SeedsAreDatabases DEF Begin, Queries
  <2>2. shown' \in Databases /\ over' \in BOOLEAN
    BY <1>8, DatabasesGrow DEF Begin
  <2> QED
    BY <1>8, <2>1, <2>2 DEF Begin
<1>9. CASE Offer
  BY <1>9 DEF Offer, Check
<1>10. CASE Grow
  <2>1. version' \in Databases /\ UNCHANGED <<shown, over>>
    BY <1>10, DatabasesGrow DEF Grow, V!Grow
  <2> QED
    BY <1>10, <2>1 DEF Grow
<1>11. CASE Stop
  <2>1. over' \in BOOLEAN /\ UNCHANGED <<version, shown>>
    BY <1>11 DEF Stop, V!Stop
  <2> QED
    BY <1>11, <2>1 DEF Stop
<1>12. CASE Judge
  <2>1. Doubt \subseteq {"UNKNOWN", "TIMEOUT"}
    BY DEF Doubt
  <2>2. doubts' \subseteq {"UNKNOWN", "TIMEOUT"}
    BY <1>12, <2>1 DEF Judge
  <2>3. verdict' \in Verdicts \cup {None} /\ pc' \in {"done", "begin"}
    BY <1>12 DEF Judge, Return, Verdicts
  <2>4. UNCHANGED <<query, generation, scratch, checking, partial, results,
                    counterexample, history>>
    BY <1>12 DEF Judge
  <2> QED
    BY <2>2, <2>3, <2>4
<1>13. CASE Conclude
  BY <1>13 DEF Conclude, Return, Verdicts
<1>14. CASE UNCHANGED vars
  BY <1>14 DEF vars
<1> QED
  BY <1>1, <1>2, <1>3, <1>4, <1>6, <1>7, <1>8, <1>9, <1>10, <1>11, <1>12, <1>13, <1>14
  DEF Next, Terminated

(* The variables of disprove keep their types, for any databases and any     *)
(* answers of the backend: a check has at most two results, and results has *)
(* one for each query.                                                      *)
THEOREM TypeCorrect == Spec => []TypeOK
<1>1. Init => TypeOK /\ Running
  BY TypeInit
<1>2. TypeOK /\ Running /\ [Next]_vars => TypeOK' /\ Running'
  BY TypeStep
<1> QED
  BY <1>1, <1>2, PTL DEF Spec

---------------------------------------------------------------------------------
(* Verdicts.                                                                *)

(* Results compare alike until one of them changes. *)
LEMMA SameResults ==
  ASSUME results' = results, UNCHANGED query
  PROVE  (Told' <=> Told) /\ (SomeRows' <=> SomeRows)
BY DEF Told, Differ, SomeRows, query

(* Evidence is never withdrawn. *)
LEMMA EvidenceStays ==
  ASSUME agreed \subseteq agreed', NEW q, HasEvidence(q)
  PROVE  \E db \in Databases \ {Empty} : <<q, db>> \in agreed'
BY DEF HasEvidence

LEMMA VerdictInit == Init => VerdictInvariant
<1> SUFFICES ASSUME Init PROVE VerdictInvariant
  OBVIOUS
<1>1. Scratched /\ Reported /\ InGeneration /\ ResultsOfShown
  BY NoneIsNothing DEF Init, Scratched, Reported, InGeneration, ResultsOfShown
<1>2. verdict # "EQ" /\ pc = "parse" /\ index = 0
  BY NoneIsNothing DEF Init, Verdicts
<1>3. Judged = 1 .. -1
  BY <1>2 DEF Judged
<1>4. NoDoubts
  BY <1>2, <1>3 DEF NoDoubts
<1> QED
  BY <1>1, <1>4 DEF VerdictInvariant

(* A check leads from the callback, or from the empty database, to its      *)
(* comparison, and reports nothing before.                                  *)
LEMMA ChecksKeep ==
  ASSUME Inv, Parse \/ Prepare \/ Run \/ Refuse \/ Offer
  PROVE  VerdictInvariant'
<1> USE DEF Inv, VerdictInvariant, generation, query, history
<1>1. UNCHANGED <<index, version, shown, counterexample, doubts, apart, agreed>>
  BY DEF Parse, Prepare, Run, Refuse, Offer
<1>2. /\ pc \in {"parse", "prepare", "query", "generate"} /\ pc # "done"
      /\ counterexample = None /\ apart = {} /\ verdict = None
  BY DEF Parse, Prepare, Run, Refuse, Offer, Reported
<1>3. \/ pc' \in {"prepare", "query", "compare", "raised"} /\ verdict' = verdict
      \/ pc' = "done" /\ verdict' = "SYNTAX_ERROR"
  BY <1>2 DEF Parse, Prepare, Run, Refuse, Offer, Check, Return, Goto
<1>4. Scratched'
  BY <1>2 DEF Scratched, Parse, Prepare, Run, Refuse, Offer, Check, Return, Goto
<1>5. Reported'
  BY <1>1, <1>2, <1>3, NoneIsNothing DEF Reported, Verdicts
<1>6. InGeneration'
  <2>1. pc' \in {"prepare", "query", "compare"} /\ index > 0 =>
          checking' = version /\ shown # version
    BY <1>2 DEF InGeneration, Parse, Prepare, Run, Refuse, Offer, Check, Return, Goto
  <2> QED
    BY <1>1, <1>3, <2>1 DEF InGeneration
<1>7. ResultsOfShown'
  BY <1>3 DEF ResultsOfShown
<1>8. NoDoubts'
  <2>1. pc # "begin" /\ pc' # "begin" /\ verdict # "EQ" /\ verdict' # "EQ"
    BY <1>2, <1>3, NoneIsNothing DEF Verdicts
  <2>2. Judged' = Judged
    BY <1>1, <2>1 DEF Judged
  <2> QED
    BY <1>1, <2>1, <2>2 DEF NoDoubts, HasEvidence
<1> QED
  BY <1>4, <1>5, <1>6, <1>7, <1>8

(* Generation is begun, makes versions and is stopped between two checks. *)
LEMMA GenerationKeeps ==
  ASSUME Inv, Begin \/ Grow \/ Stop
  PROVE  VerdictInvariant'
<1> USE DEF Inv, VerdictInvariant, generation, query, history
<1>1. /\ UNCHANGED <<scratch, checking, results, counterexample, doubts, verdict, apart, agreed>>
      /\ UNCHANGED query
  BY DEF Begin, Grow, Stop
<1>2. pc \in {"begin", "generate"} /\ pc' \in {"generate", "judge"}
  BY DEF Begin, Grow, Stop, Goto
<1>3. counterexample = None /\ apart = {} /\ verdict = None
  BY <1>2 DEF Reported
<1>4. Scratched'
  BY <1>1, <1>2 DEF Scratched
<1>5. Reported'
  BY <1>1, <1>2, <1>3 DEF Reported
<1>6. InGeneration'
  <2>1. CASE Begin
    BY <2>1 DEF Begin, Goto, InGeneration, TypeOK
  <2>2. CASE Grow
    <3>1. /\ shown' = shown /\ shown = version /\ index' = index /\ pc' = pc
          /\ \E added \in Additions : version' = Plus(version, added)
      BY <2>2 DEF Grow, V!Grow
    <3>2. shown # Empty => version' # Empty
      BY <3>1, DatabasesGrow DEF TypeOK
    <3> QED
      BY <2>2, <3>1, <3>2 DEF Grow, InGeneration
  <2>3. CASE Stop
    BY <2>3 DEF Stop, V!Stop, Goto, InGeneration
  <2> QED
    BY <2>1, <2>2, <2>3
<1>7. ResultsOfShown'
  <2>1. CASE Begin
    BY <2>1 DEF Begin, ResultsOfShown
  <2>2. CASE Grow \/ Stop
    <3>1. shown' = shown /\ index' = index /\ pc = "generate"
      BY <2>2 DEF Grow, Stop, V!Grow, V!Stop
    <3> QED
      BY <1>1, <3>1, SameResults DEF ResultsOfShown
  <2> QED
    BY <2>1, <2>2
<1>8. NoDoubts'
  <2>1. verdict # "EQ" /\ verdict' # "EQ" /\ pc' # "begin"
    BY <1>1, <1>2, <1>3, NoneIsNothing DEF Verdicts
  <2>2. Judged' = Judged
    BY <2>1 DEF Judged, Begin, Grow, Stop, V!Grow, V!Stop, TypeOK
  <2> QED
    BY <1>1, <2>1, <2>2 DEF NoDoubts, HasEvidence
<1> QED
  BY <1>4, <1>5, <1>6, <1>7, <1>8

(* A comparison drops the database, and reports it if it tells the queries  *)
(* apart.                                                                   *)
LEMMA DropReports ==
  ASSUME Inv, pc = "compare", Drop, UNCHANGED <<checking, results>>, UNCHANGED query
  PROVE  /\ scratch' = {}
         /\ Told => counterexample' = checking /\ apart' = {checking} /\ Told'
         /\ ~Told => counterexample' = None /\ apart' = {} /\ ~Told'
         /\ agreed \subseteq agreed'
         /\ ~Told /\ SomeRows /\ None \notin ToSet(results) => <<index, checking>> \in agreed'
<1> USE DEF Inv, VerdictInvariant
<1>1. scratch = {checking} /\ counterexample = None /\ apart = {}
  BY DEF Scratched, Reported
<1>2. Told' <=> Told
  BY SameResults
<1> QED
  BY <1>1, <1>2 DEF Drop, Found

LEMMA CompareEmptyKeeps ==
  ASSUME Inv, CompareEmpty
  PROVE  VerdictInvariant'
<1> USE DEF Inv, VerdictInvariant, generation, query, history
<1>1. /\ pc = "compare" /\ index = 0 /\ Drop
      /\ UNCHANGED query /\ UNCHANGED <<generation, checking, results, doubts>>
  BY DEF CompareEmpty
<1>2. /\ scratch' = {}
      /\ Told => counterexample' = checking /\ apart' = {checking} /\ Told'
      /\ ~Told => counterexample' = None /\ apart' = {} /\ ~Told'
  BY <1>1, DropReports
<1>3. \/ pc' = "done" /\ verdict' = "SYNTAX_ERROR"
      \/ pc' = "done" /\ verdict' = "NEQ" /\ Told
      \/ pc' = "done" /\ verdict' = "UNKNOWN" /\ ~Told
      \/ pc' = "begin" /\ verdict' = verdict /\ ~Told
  BY DEF CompareEmpty, Return, Goto
<1>4. checking # None /\ verdict = None
  BY <1>1, NoneIsNothing DEF TypeOK, Reported
<1>5. Scratched'
  BY <1>2, <1>3 DEF Scratched
<1>6. Reported'
  BY <1>1, <1>2, <1>3, <1>4, NoneIsNothing DEF Reported, Verdicts
<1>7. InGeneration' /\ ResultsOfShown'
  BY <1>1, <1>3 DEF InGeneration, ResultsOfShown
<1>8. NoDoubts'
  <2>1. verdict' # "EQ" /\ index' = 0
    BY <1>1, <1>3, <1>4, NoneIsNothing DEF Verdicts
  <2>2. Judged' = {}
    BY <2>1 DEF Judged
  <2> QED
    BY <2>1, <2>2 DEF NoDoubts
<1> QED
  BY <1>5, <1>6, <1>7, <1>8

LEMMA CompareVersionKeeps ==
  ASSUME Inv, CompareVersion
  PROVE  VerdictInvariant'
<1> USE DEF Inv, VerdictInvariant, generation, query, history
<1>1. /\ pc = "compare" /\ index > 0 /\ Drop
      /\ UNCHANGED query /\ UNCHANGED <<index, checking, results, doubts, verdict>>
  BY DEF CompareVersion
<1>2. /\ scratch' = {}
      /\ Told => counterexample' = checking /\ apart' = {checking} /\ Told'
      /\ ~Told => counterexample' = None /\ apart' = {} /\ ~Told'
      /\ agreed \subseteq agreed'
      /\ ~Told /\ SomeRows /\ None \notin ToSet(results) => <<index, checking>> \in agreed'
  BY <1>1, DropReports
<1>3. /\ shown' = version /\ version' = version /\ checking = version /\ shown # version
      /\ version # Empty
  BY <1>1 DEF CompareVersion, V!Show, InGeneration
<1>4. \/ Told /\ pc' = "judge" /\ ended' = "complete"
      \/ ~Told /\ pc' = "generate"
  BY DEF CompareVersion, Halt, Goto
<1>5. checking # None /\ verdict = None
  BY <1>1, NoneIsNothing DEF TypeOK, Reported
<1>6. Scratched'
  BY <1>2, <1>4 DEF Scratched
<1>7. Reported'
  <2>1. pc' = "judge" => Generated'
    BY <1>3, <1>4 DEF Generated
  <2> QED
    BY <1>1, <1>2, <1>4, <1>5, <2>1 DEF Reported
<1>8. InGeneration'
  BY <1>1, <1>3, <1>4 DEF InGeneration
<1>9. ResultsOfShown'
  <2>1. (Told' <=> Told) /\ (SomeRows' <=> SomeRows)
    BY <1>1, SameResults
  <2> QED
    BY <1>1, <1>2, <1>3, <1>5, <2>1 DEF ResultsOfShown
<1>10. NoDoubts'
  <2>1. verdict # "EQ" /\ verdict' # "EQ"
    BY <1>1, <1>5, NoneIsNothing DEF Verdicts
  <2>2. Judged' = Judged
    BY <1>1, <1>4, <2>1 DEF Judged
  <2> QED
    BY <1>1, <1>2, <2>1, <2>2, EvidenceStays DEF NoDoubts, HasEvidence
<1> QED
  BY <1>6, <1>7, <1>8, <1>9, <1>10

(* No doubt about a query means that its last database is evidence. *)
LEMMA NoDoubtIsEvidence ==
  ASSUME Inv, pc = "judge", counterexample = None, Doubt = {}
  PROVE  HasEvidence(index)
<1> USE DEF Inv, VerdictInvariant
<1>1. Generated /\ None \notin ToSet(results) /\ SomeRows
  BY DEF Doubt
<1>2. shown = version /\ version # Empty /\ shown \in Databases
  BY <1>1 DEF Generated, InGeneration, TypeOK
<1>3. <<index, shown>> \in agreed
  BY <1>1, <1>2 DEF ResultsOfShown
<1> QED
  BY <1>2, <1>3 DEF HasEvidence

LEMMA JudgeKeeps ==
  ASSUME Inv, Judge
  PROVE  VerdictInvariant'
<1> USE DEF Inv, VerdictInvariant, generation, query, history
<1>1. /\ pc = "judge" /\ index > 0 /\ index \in 0 .. 2
      /\ UNCHANGED query
      /\ UNCHANGED <<index, version, shown, ended, scratch, checking, results,
                     counterexample, apart, agreed>>
  BY DEF Judge, InGeneration, TypeOK
<1>2. \/ /\ counterexample # None /\ pc' = "done" /\ verdict' = "NEQ"
         /\ doubts' = doubts
      \/ /\ counterexample = None /\ pc' = "begin" /\ verdict' = verdict
         /\ doubts' = doubts \cup Doubt
  BY <1>1 DEF Judge, Return, Goto, Reported
<1>3. verdict = None /\ (Told' <=> Told)
  BY <1>1, SameResults DEF Reported
<1>4. Scratched'
  BY <1>1, <1>2 DEF Scratched
<1>5. Reported'
  BY <1>1, <1>2, <1>3 DEF Reported
<1>6. InGeneration' /\ ResultsOfShown'
  BY <1>1, <1>2 DEF InGeneration, ResultsOfShown
<1>7. NoDoubts'
  <2>1. verdict' # "EQ" /\ verdict # "EQ"
    BY <1>2, <1>3, NoneIsNothing DEF Verdicts
  <2>2. Judged = 1 .. index - 1
    BY <1>1, <2>1 DEF Judged
  <2>3. CASE pc' = "done"
    BY <1>1, <1>2, <2>1, <2>2, <2>3 DEF NoDoubts, Judged, HasEvidence
  <2>4. CASE pc' = "begin"
    <3>1. Judged' = Judged \cup {index}
      BY <1>1, <2>2, <2>4 DEF Judged
    <3>2. doubts' = {} => doubts = {} /\ HasEvidence(index)
      BY <1>1, <1>2, <2>4, NoDoubtIsEvidence
    <3>3. doubts' = {} => \A q \in Judged' : HasEvidence(q)
      BY <3>1, <3>2 DEF NoDoubts
    <3> QED
      BY <1>1, <2>1, <3>3 DEF NoDoubts, HasEvidence
  <2> QED
    BY <1>2, <2>3, <2>4
<1> QED
  BY <1>4, <1>5, <1>6, <1>7

LEMMA ConcludeKeeps ==
  ASSUME Inv, Conclude
  PROVE  VerdictInvariant'
<1> USE DEF Inv, VerdictInvariant, generation, query, history
<1>1. /\ pc = "begin" /\ index = 2 /\ pc' = "done"
      /\ UNCHANGED query
      /\ UNCHANGED <<index, version, shown, scratch, checking, results, counterexample,
                     doubts, apart, agreed>>
      /\ verdict' \in {"EQ", "TIMEOUT", "UNKNOWN"} /\ (verdict' = "EQ" => doubts = {})
  BY DEF Conclude, Return, Goto
<1>2. counterexample = None /\ verdict = None
  BY <1>1 DEF Reported
<1>3. Scratched' /\ InGeneration' /\ ResultsOfShown'
  BY <1>1 DEF Scratched, InGeneration, ResultsOfShown
<1>4. Reported'
  BY <1>1, <1>2 DEF Reported
<1>5. NoDoubts'
  <2>1. Judged = 1 .. 2 /\ Judged' \subseteq 1 .. 2
    BY <1>1 DEF Judged
  <2> QED
    BY <1>1, <2>1 DEF NoDoubts, HasEvidence
<1> QED
  BY <1>3, <1>4, <1>5

(* Scratch databases, reports, generation and doubts are where the code      *)
(* expects them: the inductive invariant of the theorems below.             *)
THEOREM VerdictsFollow == Spec => []VerdictInvariant
<1>1. Init => VerdictInvariant
  BY VerdictInit
<1>2. TypeOK /\ VerdictInvariant /\ [Next]_vars => VerdictInvariant'
  <2> SUFFICES ASSUME Inv, [Next]_vars PROVE VerdictInvariant'
    BY DEF Inv
  <2>1. CASE UNCHANGED vars
    BY <2>1, SameResults DEF Inv, VerdictInvariant, vars, generation, query, history,
       Scratched, Reported, Generated, InGeneration, ResultsOfShown, NoDoubts, Judged,
       HasEvidence
  <2> QED
    BY <2>1, ChecksKeep, GenerationKeeps, CompareEmptyKeeps, CompareVersionKeeps,
       JudgeKeeps, ConcludeKeeps DEF Next, Terminated
<1> QED
  BY <1>1, <1>2, TypeCorrect, PTL DEF Spec

(* A scratch database is gone before anything else happens, also when the    *)
(* backend refuses what is loaded into it.                                  *)
THEOREM ScratchIsDropped == Spec => []NoScratchLeft
<1>1. VerdictInvariant => NoScratchLeft
  BY DEF VerdictInvariant, Scratched, NoScratchLeft
<1> QED
  BY <1>1, VerdictsFollow, PTL

(* NEQ comes with the one database that told the queries apart and with the  *)
(* results on it, and no such database goes unreported.                     *)
THEOREM NeqIsWitnessed == Spec => []Witnessed
<1>1. VerdictInvariant => Witnessed
  <2> SUFFICES ASSUME VerdictInvariant PROVE Witnessed
    OBVIOUS
  <2>1. apart # {} <=> counterexample # None
    BY DEF VerdictInvariant, Reported
  <2> QED
    BY <2>1 DEF VerdictInvariant, Reported, Witnessed
<1> QED
  BY <1>1, VerdictsFollow, PTL

(* EQ is never the answer without a database with rows for each query, on    *)
(* which both queries ran to the end, agreed, and returned a row.           *)
THEOREM EqIsEarned == Spec => []EqEarned
<1>1. VerdictInvariant => EqEarned
  <2> SUFFICES ASSUME VerdictInvariant, verdict = "EQ"
               PROVE  apart = {} /\ \A q \in Queries : HasEvidence(q)
    BY DEF EqEarned, HasEvidence
  <2>1. doubts = {} /\ index = 2 /\ pc = "done"
    BY DEF VerdictInvariant, NoDoubts
  <2>2. Judged = Queries
    BY <2>1 DEF Judged, Queries
  <2> QED
    BY <2>1, <2>2 DEF VerdictInvariant, NoDoubts, Reported
<1> QED
  BY <1>1, VerdictsFollow, PTL

(* "the first database telling them apart ends the search": nothing is       *)
(* checked or overwritten after it, only the verdict is given.              *)
THEOREM SearchEndsAtFirst == Spec => EndsAtFirst
<1>1. VerdictInvariant /\ [Next]_vars
      => [apart # {} => UNCHANGED <<scratch, checking, results, counterexample>>]_vars
  <2> SUFFICES ASSUME VerdictInvariant, Next, apart # {}
               PROVE  UNCHANGED <<scratch, checking, results, counterexample>>
    OBVIOUS
  <2>1. pc \in {"judge", "done"}
    BY DEF VerdictInvariant, Reported
  <2> QED
    BY <2>1 DEF Next, Parse, Prepare, Run, Refuse, CompareEmpty, CompareVersion, Begin,
       Offer, Grow, Stop, Judge, Conclude, Terminated, vars
<1> QED
  BY <1>1, VerdictsFollow, PTL DEF Spec, EndsAtFirst

=================================================================================
