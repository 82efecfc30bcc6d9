---------------------------- MODULE DatabaseVersions ----------------------------
(***************************************************************************)
(* What generation promises about the databases it returns, whatever the   *)
(* solver answers and wherever it is stopped (docs/generator.md, "Concolic *)
(* generation"): one database grows version by version; a version only     *)
(* appends rows to the one before it and covers an outcome that one did    *)
(* not; once the query's output is productive no covered outcome is lost;  *)
(* every version with rows is shown to the caller before the next one is   *)
(* made, and the one shown last is the result, if the query is supported.  *)
(***************************************************************************)
CONSTANTS
  Problems,        \* queries, each over its schema
  Databases,       \* stored rows, as far as a query can tell them apart
  Empty,           \* the database without rows
  Seeds(_),        \* the databases speculation may hand over for a problem
  Additions,       \* the rows one solve may append
  Plus(_, _),      \* a database and the rows appended to it
  Covered(_, _),   \* the outcomes a problem's query covers on a database
  OUTPUT           \* the outcome of a productive query

VARIABLES
  problem,         \* the problem being solved; never changes
  version,         \* the latest accepted database
  shown,           \* the database last handed to the caller (Empty: none)
  over             \* whether generation has ended

versionVars == <<problem, version, shown, over>>

Init ==
  /\ problem \in Problems
  /\ version \in Seeds(problem)
  /\ shown = Empty
  /\ over = FALSE

(* The caller receives the latest version, and may end generation there. *)
Show ==
  /\ ~over
  /\ shown # version
  /\ shown' = version
  /\ over' \in BOOLEAN
  /\ UNCHANGED <<problem, version>>

Productive == OUTPUT \in Covered(problem, version)

(* A version follows only one the caller has seen. *)
Grow ==
  /\ ~over
  /\ shown = version
  /\ \E added \in Additions : version' = Plus(version, added)
  /\ Covered(problem, version') \ Covered(problem, version) # {}
  /\ Productive => Covered(problem, version) \subseteq Covered(problem, version')
  /\ UNCHANGED <<problem, shown, over>>

Stop ==
  /\ ~over
  /\ shown = version
  /\ over' = TRUE
  /\ UNCHANGED <<problem, version, shown>>

Next == Show \/ Grow \/ Stop

Spec == Init /\ [][Next]_versionVars

=================================================================================
