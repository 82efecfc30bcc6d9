----------------------------- MODULE MCParentsFirst -----------------------------
(***************************************************************************)
(* Tables of up to MaxRows rows with two foreign keys to themselves: boss  *)
(* references ids, peer the names that the rows without an id share, so    *)
(* equal rows occur.                                                       *)
(***************************************************************************)
EXTENDS ParentsFirst

CONSTANT MaxRows

MCRows == [id : {1, 2, Null}, boss : {1, 2, Null}, peer : {1, Null}]

Keyed(rows) ==
  \A i, j \in 1 .. Len(rows) : i # j => rows[i].id = Null \/ rows[i].id # rows[j].id
MCTables == UNION {{rows \in [1 .. n -> MCRows] : Keyed(rows)} : n \in 0 .. MaxRows}

MCLinks == {"boss", "peer"}
MCTargetOf == [link \in MCLinks |-> IF link = "boss" THEN "id" ELSE "name"]
MCRef(row, link) == row[link]
MCKey(row, column) ==
  IF column = "id" THEN row.id ELSE IF row.id = Null THEN 1 ELSE Null
=================================================================================
