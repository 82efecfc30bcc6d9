------------------------------ MODULE MCGeneration ------------------------------
(***************************************************************************)
(* Small queries for Generation. Relation R holds rows a and b, relation S *)
(* holds c and d; the problems are                                         *)
(*                                                                         *)
(*   groups   SELECT g FROM R GROUP BY g HAVING COUNT( * ) >= 3            *)
(*            0 output, 1 HAVING is false, 2 two output rows               *)
(*   average  SELECT x FROM R WHERE x > (SELECT AVG(x) FROM R), a < b      *)
(*            0 output, 1 the predicate is false, 2 a duplicate output row *)
(*   join     SELECT 1 FROM S JOIN R, where c references a and d           *)
(*            references b by keys that are foreign keys                   *)
(*            0 output, 1 two output rows, 2 a duplicate key of S          *)
(*   keyed    SELECT x FROM R, S has a key                                 *)
(*            0 output, 1 a duplicate key of S, 2 (SELECT COUNT( * )       *)
(*            FROM S) >= 2 is true                                         *)
(*   parity   SELECT x FROM R WHERE (SELECT COUNT( * ) FROM R) % 2 = 0 OR  *)
(*            (SELECT COUNT( * ) FROM R) % 2 = 1                           *)
(*            0 output, 1 the first predicate is true, 2 the second        *)
(*                                                                         *)
(* The last one is given to a solver that may be wrong, and stopped at any  *)
(* time; the only row there is for it is a.                                *)
(*                                                                         *)
(* None of them tells counts from 3 up apart except by parity, so a stored *)
(* row is counted up to 4.                                                 *)
(***************************************************************************)
EXTENDS Generation

Loosely == {"parity"}
MCSolver(p) == IF p \in Loosely THEN "loose" ELSE "exact"
MCInterrupted(p) == p \in Loosely

MCRelations == {"R", "S"}
MCRows == {"a", "b", "c", "d"}
MCHome == [row \in MCRows |-> IF row \in {"a", "b"} THEN "R" ELSE "S"]
MCDatabases == [MCRows -> 0 .. 4]
MCEmpty == [row \in MCRows |-> 0]
MCOutcomes == 0 .. 2

Counted(n) == IF n <= 4 THEN n ELSE 3 + ((n - 3) % 2)
MCPlus(db, added) == [row \in MCRows |-> Counted(db[row] + added[row])]

MCKeyed(p) == CASE p = "join" -> MCRows
                [] p = "keyed" -> {"c", "d"}
                [] OTHER -> {}
MCOwes(p) == IF p = "join" THEN {<<"S", "R">>} ELSE {}

Parent == [row \in {"c", "d"} |-> IF row = "c" THEN "a" ELSE "b"]

(* Rows of a relation the query does not read are never asked for. *)
MCStorable(p, db, new) ==
  /\ p \in Loosely => new \subseteq {"a"}
  /\ p \notin {"join", "keyed"} => new \subseteq {"a", "b"}
  /\ \A row \in new \cap MCKeyed(p) : db[row] = 0
  /\ p = "join" =>
       \A row \in new \cap {"c", "d"} : Parent[row] \in new \/ db[Parent[row]] > 0

(* Binding i of an outcome holds on a bag of rows. *)
Groups(o, i, bag) ==
  \/ o = 0 /\ i \in {"a", "b"} /\ bag[i] >= 3
  \/ o = 1 /\ i \in {"a", "b"} /\ bag[i] \in 1 .. 2
  \/ o = 2 /\ i = "a" /\ bag["a"] >= 3 /\ bag["b"] >= 3

Average(o, i, bag) ==
  \/ o = 0 /\ i = "b" /\ bag["a"] >= 1 /\ bag["b"] >= 1
  \/ o = 1 /\ i = "a" /\ bag["a"] + bag["b"] >= 1
  \/ o = 2 /\ i = "b" /\ bag["a"] >= 1 /\ bag["b"] >= 2

Join(o, i, bag) ==
  \/ o = 0 /\ i \in {"c", "d"} /\ bag[i] >= 1 /\ bag[Parent[i]] >= 1
  \/ o = 1 /\ i = "c" /\ \A row \in MCRows : bag[row] >= 1
  \/ o = 2 /\ i \in {"c", "d"} /\ bag[i] >= 2

KeyedRows(o, i, bag) ==
  \/ o = 0 /\ i \in {"a", "b"} /\ bag[i] >= 1
  \/ o = 1 /\ i \in {"c", "d"} /\ bag[i] >= 2
  \/ o = 2 /\ i = "c" /\ bag["c"] + bag["d"] >= 2

Parity(o, i, bag) ==
  /\ i = "a" /\ bag["a"] + bag["b"] >= 1
  /\ o > 0 => (bag["a"] + bag["b"]) % 2 = o - 1

Shows(p, o, i, bag) ==
  \/ p = "groups" /\ Groups(o, i, bag)
  \/ p = "average" /\ Average(o, i, bag)
  \/ p = "join" /\ Join(o, i, bag)
  \/ p = "keyed" /\ KeyedRows(o, i, bag)
  \/ p = "parity" /\ Parity(o, i, bag)

(* Candidate rows a binding combines: an output row of the join needs its   *)
(* row of S and its row of R, and two output rows the larger of both.       *)
Joined(db, row) == Cardinality({r \in {row, Parent[row]} : db[r] = 0})
Width(p, o, i, db) ==
  CASE p = "join" /\ o = 0 -> Joined(db, i)
    [] p = "join" /\ o = 1 -> Max({Joined(db, "c"), Joined(db, "d")})
    [] OTHER -> 1

MCBindings(p, o, db, added) ==
  {IF Shows(p, o, i, db) THEN 0 ELSE Width(p, o, i, db) :
     i \in {i \in MCRows : Shows(p, o, i, MCPlus(db, added))}}

MCInvolves(p, o) ==
  {r \in MCRelations :
     \/ p = "join" /\ (o # 2 \/ r = "S")
     \/ p = "keyed" /\ (o = 0 <=> r = "R")
     \/ p \in {"groups", "average", "parity"} /\ r = "R"}

(* Speculation hands over nothing, or few rows that make output. *)
MCSeeds(p) ==
  {MCEmpty} \cup
  {db \in [MCRows -> 0 .. 1] \cup {[MCEmpty EXCEPT !["a"] = 3]} :
     /\ MCStorable(p, MCEmpty, {row \in MCRows : db[row] > 0})
     /\ \E i \in MCRows : Shows(p, 0, i, db)}

MCCapped(p) == IF p \in Loosely THEN {0} ELSE {}

=================================================================================
