-------------------------------- MODULE Disprove --------------------------------
(***************************************************************************)
(* disprove, differ and _run of parseval/main.py, with the scratch         *)
(* databases of parseval/db_manager.py: two queries are run on the empty   *)
(* database and on every version generation offers for each of them, until *)
(* their results differ.                                                   *)
(*                                                                         *)
(* Generation is DatabaseVersions, which Generation implements: on_instance*)
(* is the check below. What the backend answers is chosen run by run.      *)
(***************************************************************************)
EXTENDS Naturals, Sequences, SequencesExt

CONSTANTS
  Databases, Empty, Seeds(_), Additions, Plus(_, _), Covered(_, _), OUTPUT,
                 \* of DatabaseVersions, for the queries 1 and 2
  Lists,         \* the rows a query may return, as lists
  Failed,        \* the backend's error message
  None           \* no result: the query ran out of time; no database

Queries == {1, 2}
Results == Lists \cup {Failed, None}
Verdicts == {"EQ", "NEQ", "UNKNOWN", "SYNTAX_ERROR", "TIMEOUT"}

ASSUME FailureIsNoList == Failed \notin Lists
ASSUME NoneIsNothing ==
  None # Failed /\ None \notin Lists /\ None \notin Databases /\ None \notin Verdicts
ASSUME SeedsAreDatabases == \A q \in Queries : Seeds(q) \subseteq Databases
ASSUME DatabasesGrow ==
  /\ Empty \in Databases
  /\ \A db \in Databases, added \in Additions :
       Plus(db, added) \in Databases /\ (db # Empty => Plus(db, added) # Empty)

VARIABLES
  pc,
  parsed,          \* sqlglot: "single" statements, "several", or "unparsed"
  ordered,         \* both queries order their output
  setSemantics,
  index,           \* the query databases are generated for; 0: none yet
  version, shown, over,   \* generation for that query, see DatabaseVersions
  ended,           \* how it ended
  scratch,         \* scratch databases that exist
  checking,        \* the database of the latest check
  partial,         \* results of a check so far
  results,         \* results of the latest check
  counterexample,
  doubts,          \* the verdicts of the doubts
  verdict,
  apart,           \* history: the databases on which the results differed
  agreed,          \* history: each query's databases on which they agreed
  late             \* history: a query of some check ran out of time

generation == <<index, version, shown, over, ended>>
query == <<parsed, ordered, setSemantics>>
history == <<apart, agreed, late>>
vars == <<pc, query, generation, scratch, checking, partial, results,
          counterexample, doubts, verdict, history>>

V == INSTANCE DatabaseVersions WITH Problems <- Queries, problem <- index

Init ==
  /\ pc = "parse"
  /\ parsed \in {"single", "several", "unparsed"}
  /\ ordered \in BOOLEAN /\ (ordered => parsed = "single")
  /\ setSemantics \in BOOLEAN
  /\ index = 0 /\ version = Empty /\ shown = Empty /\ over = FALSE /\ ended = None
  /\ scratch = {} /\ checking = Empty
  /\ partial = <<>> /\ results = <<None, None>>
  /\ counterexample = None /\ doubts = {} /\ verdict = None
  /\ apart = {} /\ agreed = {} /\ late = FALSE

---------------------------------------------------------------------------------
(* differ.                                                                  *)

Copies(list, row) == Len(SelectSeq(list, LAMBDA x : x = row))
SameBag(first, second) ==
  \A row \in ToSet(first) \cup ToSet(second) : Copies(first, row) = Copies(second, row)

Differ(first, second) ==
  /\ None \notin {first, second}
  /\ IF Failed \in {first, second} THEN first # second
     ELSE IF setSemantics THEN ToSet(first) # ToSet(second)
     ELSE IF ordered THEN first # second
     ELSE ~SameBag(first, second)

---------------------------------------------------------------------------------
(* check: a scratch database is made, loaded, queried and dropped.          *)

Goto(step) == pc' = step

Return(v) == verdict' = v /\ Goto("done")

Check(db) ==
  /\ checking' = db
  /\ Goto("prepare")

(* A query that is not one statement is not run. *)
Parse ==
  /\ pc = "parse"
  /\ IF parsed = "several"
     THEN Return("SYNTAX_ERROR") /\ UNCHANGED checking
     ELSE Check(Empty) /\ UNCHANGED verdict
  /\ UNCHANGED <<query, generation, scratch, partial, results, counterexample,
                 doubts, history>>

(* The bug of keeping the results of the check before. *)
PrepareStale ==
  /\ pc = "prepare"
  /\ scratch' = scratch \cup {checking}
  /\ Goto("query")
  /\ UNCHANGED <<query, generation, checking, partial, results, counterexample,
                 doubts, verdict, history>>

Prepare ==
  /\ pc = "prepare"
  /\ scratch' = scratch \cup {checking}
  /\ partial' = <<>>
  /\ Goto("query")
  /\ UNCHANGED <<query, generation, checking, results, counterexample, doubts,
                 verdict, history>>

(* _run, for one query after the other; a tuple of both replaces results. *)
Run ==
  /\ pc = "query"
  /\ \E result \in Results :
       /\ partial' = Append(partial, result)
       /\ late' = (late \/ result = None)
  /\ IF Len(partial') = 2 THEN results' = partial' /\ Goto("compare")
                          ELSE UNCHANGED <<results, pc>>
  /\ UNCHANGED <<query, generation, scratch, checking, counterexample, doubts,
                 verdict, apart, agreed>>

(* The schema or the rows are refused, or the server fails: the error leaves*)
(* disprove, and scratch drops its database (or, as a bug, does not).       *)
RefuseLeaking ==
  /\ pc = "query" /\ partial = <<>>
  /\ Goto("raised")
  /\ UNCHANGED <<query, generation, scratch, checking, partial, results,
                 counterexample, doubts, verdict, history>>

Refuse ==
  /\ pc = "query" /\ partial = <<>>
  /\ scratch' = scratch \ {checking}
  /\ Goto("raised")
  /\ UNCHANGED <<query, generation, checking, partial, results, counterexample,
                 doubts, verdict, history>>

Told == Differ(results[1], results[2])

(* The bug of remembering the first database instead of the one checked. *)
FoundVersion == IF Told THEN shown ELSE counterexample

Found == IF Told THEN checking ELSE counterexample

(* The bug of a callback without a value. *)
Unheard == FALSE

(* The value of the callback, which ends generation. *)
Halt == Told

SomeRows == \E result \in ToSet(results) \cap Lists : result # <<>>

Drop ==
  /\ scratch' = scratch \ {checking}
  /\ counterexample' = Found
  /\ apart' = IF Told THEN apart \cup {checking} ELSE apart
  /\ agreed' = IF ~Told /\ SomeRows /\ None \notin ToSet(results)
               THEN agreed \cup {<<index, checking>>} ELSE agreed

(* The empty database also shows whether the backend accepts both queries. *)
CompareEmpty ==
  /\ pc = "compare"
  /\ index = 0
  /\ Drop
  /\ \/ Failed \in ToSet(results) /\ Return("SYNTAX_ERROR")
     \/ Failed \notin ToSet(results) /\ Told /\ Return("NEQ")
     \/ Failed \notin ToSet(results) /\ ~Told /\ parsed = "unparsed" /\ Return("UNKNOWN")
     \/ /\ Failed \notin ToSet(results) /\ ~Told /\ parsed = "single"
        /\ Goto("begin") /\ UNCHANGED verdict
  /\ UNCHANGED <<query, generation, checking, partial, results, doubts, late>>

CompareVersion ==
  /\ pc = "compare"
  /\ index > 0
  /\ Drop
  /\ V!Show /\ over' = Halt
  /\ ended' = IF Halt THEN "complete" ELSE ended
  /\ Goto(IF Halt THEN "judge" ELSE "generate")
  /\ UNCHANGED <<query, index, checking, partial, results, doubts, verdict, late>>

---------------------------------------------------------------------------------
(* The loop over both queries.                                              *)

Begin ==
  /\ pc = "begin"
  /\ index < 2
  /\ index' = index + 1
  /\ version' \in Seeds(index')
  /\ shown' = Empty /\ over' = FALSE /\ ended' = None
  /\ Goto("generate")
  /\ UNCHANGED <<query, scratch, checking, partial, results, counterexample,
                 doubts, verdict, history>>

Offer ==
  /\ pc = "generate"
  /\ shown # version
  /\ Check(version)
  /\ UNCHANGED <<query, generation, scratch, partial, results, counterexample,
                 doubts, verdict, history>>

Grow ==
  /\ pc = "generate"
  /\ V!Grow
  /\ UNCHANGED <<pc, query, index, ended, scratch, checking, partial, results,
                 counterexample, doubts, verdict, history>>

(* Nothing is left to cover, the time limit passes, the query turns out to  *)
(* be unsupported, or an error leaves generate.                             *)
Stop ==
  /\ pc = "generate"
  /\ V!Stop
  /\ ended' \in {"complete", "timed_out", "unsupported", "raised"}
  /\ Goto("judge")
  /\ UNCHANGED <<query, index, scratch, checking, partial, results,
                 counterexample, doubts, verdict, history>>

Generated == ended \in {"complete", "timed_out"} /\ version # Empty

(* The bug of taking agreement without rows for evidence. *)
DoubtTimeouts ==
  IF ~Generated
  THEN {IF ended = "timed_out" THEN "TIMEOUT" ELSE "UNKNOWN"}
  ELSE IF None \in ToSet(results) \/ ended = "timed_out" THEN {"TIMEOUT"} ELSE {}

Doubt ==
  IF ~Generated
  THEN {IF ended = "timed_out" THEN "TIMEOUT" ELSE "UNKNOWN"}
  ELSE IF None \in ToSet(results) \/ ended = "timed_out" THEN {"TIMEOUT"}
  ELSE IF SomeRows THEN {} ELSE {"UNKNOWN"}

Judge ==
  /\ pc = "judge"
  /\ IF Generated /\ counterexample # None
     THEN Return("NEQ") /\ UNCHANGED doubts
     ELSE doubts' = doubts \cup Doubt /\ Goto("begin") /\ UNCHANGED verdict
  /\ UNCHANGED <<query, generation, scratch, checking, partial, results,
                 counterexample, history>>

Conclude ==
  /\ pc = "begin"
  /\ index = 2
  /\ Return(IF doubts = {} THEN "EQ"
            ELSE IF "TIMEOUT" \in doubts THEN "TIMEOUT" ELSE "UNKNOWN")
  /\ UNCHANGED <<query, generation, scratch, checking, partial, results,
                 counterexample, doubts, history>>

Terminated == pc \in {"done", "raised"} /\ UNCHANGED vars

Next ==
  \/ Parse \/ Prepare \/ Run \/ Refuse \/ CompareEmpty \/ CompareVersion
  \/ Begin \/ Offer \/ Grow \/ Stop \/ Judge \/ Conclude \/ Terminated

Spec == Init /\ [][Next]_vars

---------------------------------------------------------------------------------
(* Properties.                                                              *)

TypeOK ==
  /\ pc \in {"parse", "prepare", "query", "compare", "begin", "generate", "judge",
            "done", "raised"}
  /\ parsed \in {"single", "several", "unparsed"}
  /\ ordered \in BOOLEAN /\ setSemantics \in BOOLEAN
  /\ over \in BOOLEAN /\ late \in BOOLEAN
  /\ index \in 0 .. 2
  /\ {version, shown, checking} \cup scratch \cup apart \subseteq Databases
  /\ ended \in {None, "complete", "timed_out", "unsupported", "raised"}
  /\ partial \in {<<>>} \cup [1 .. 1 -> Results] \cup [1 .. 2 -> Results]
  /\ results \in [1 .. 2 -> Results]
  /\ counterexample \in Databases \cup {None}
  /\ doubts \subseteq {"UNKNOWN", "TIMEOUT"}
  /\ verdict \in Verdicts \cup {None}
  /\ agreed \subseteq (0 .. 2) \X Databases

(* RunResult: for NEQ, the database telling the queries apart and the       *)
(* result of each query on it. The callback overwrites both at every check, *)
(* yet what is returned belongs together, and no database that told the     *)
(* queries apart goes unreported, unless the backend rejects a query.       *)
Witnessed ==
  /\ counterexample # None =>
       apart = {counterexample} /\ checking = counterexample /\ Told
  /\ pc = "done" /\ verdict # "SYNTAX_ERROR" => (verdict = "NEQ" <=> apart # {})

(* "the first database telling them apart ends the search"                  *)
EndsAtFirst ==
  [][apart # {} => UNCHANGED <<scratch, checking, results, counterexample>>]_vars

(* EQ is evidence: each query has a database with rows on which both ran to *)
(* the end, agreed, and one of them returned a row, and none told them      *)
(* apart.                                                                   *)
EqEarned ==
  verdict = "EQ" =>
    /\ apart = {}
    /\ \A q \in Queries : \E db \in Databases \ {Empty} : <<q, db>> \in agreed

(* A scratch database is dropped before anything else happens, also when    *)
(* the backend refuses the schema or the rows.                              *)
NoScratchLeft ==
  pc \notin {"query", "compare"} => scratch = {}

(* disprove's docstring: "TIMEOUT: no database did, and generation or a     *)
(* query ran out of time", "EQ otherwise".                                  *)
EqWithoutTimeout == verdict = "EQ" => ~late

=================================================================================
