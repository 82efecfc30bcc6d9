------------------------------- MODULE MCDisprove -------------------------------
(***************************************************************************)
(* Databases of up to three rows; a version of n rows covers n outcomes.   *)
(* Results of up to two rows, so that lists, bags and sets differ.         *)
(***************************************************************************)
EXTENDS Disprove

MCDatabases == 0 .. 2
MCSeeds(q) == {0, q}
MCAdditions == {1, 2}
MCPlus(db, added) == IF db + added <= 2 THEN db + added ELSE 2
MCCovered(q, db) == 0 .. db - 1
MCLists == {<<>>, <<"x">>, <<"x", "x">>, <<"x", "y">>, <<"y", "x">>}
=================================================================================
