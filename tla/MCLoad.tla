--------------------------------- MODULE MCLoad ---------------------------------
(***************************************************************************)
(* Two relations, with or without a foreign key between them, each way, and *)
(* to themselves; two rows and one row; every way in which a row may       *)
(* reference rows: NULL, one of them, or one that is not there.            *)
(***************************************************************************)
EXTENDS Load

MCRelations == {"a", "b"}
MCRows == {"a1", "a2", "b1"}
MCRowsOf == [relation \in MCRelations |-> IF relation = "a" THEN {"a1", "a2"} ELSE {"b1"}]

References == [MCRelations -> SUBSET MCRelations]

(* One choice for each foreign key of a row. *)
RowNeeds(to) == {{}} \cup {{[to |-> to, rows |-> {row}]} : row \in MCRowsOf[to]}
               \cup {{[to |-> to, rows |-> {}]}}
NeedsOf(references, row) ==
  LET home == IF row = "b1" THEN "b" ELSE "a"
      Wants == [references[home] -> UNION {RowNeeds(to) : to \in references[home]}]
  IN {UNION {wants[to] : to \in references[home]} :
        wants \in {w \in Wants : \A to \in references[home] : w[to] \in RowNeeds(to)}}

MCInstances ==
  UNION {{[references |-> references, rows |-> MCRowsOf,
           needs |-> "a1" :> one @@ "a2" :> two @@ "b1" :> three] :
            one \in NeedsOf(references, "a1"), two \in NeedsOf(references, "a2"),
            three \in NeedsOf(references, "b1")} : references \in References}
=================================================================================
