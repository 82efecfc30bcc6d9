------------------------------- MODULE MCCoverage -------------------------------
(***************************************************************************)
(* Outcomes do not share conditions, so one outcome, which may be the one  *)
(* all of whose conditions are kept, and one condition of each kind more   *)
(* than are kept, show every case.                                         *)
(***************************************************************************)
EXTENDS Coverage

MCHolding == {"h1", "h2", "h3"}
MCFailing == {"f1", "f2", "f3"}
=================================================================================
