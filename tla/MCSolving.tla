----------------------------- MODULE MCSolving -----------------------------
(* Requirements over R(a key, b with a CHECK), S(c REFERENCES R, d; (c, d)  *)
(* a key) and G(g, h generated), with a stored row of R and of S and one or *)
(* two candidate rows of each relation a requirement is about.              *)
EXTENDS Solving

MCRelation == {"R", "S", "G"}
MCSchema   == [r \in MCRelation |-> CASE r = "R" -> <<FALSE, TRUE>>
                                      [] r = "S" -> <<TRUE, TRUE>>
                                      [] r = "G" -> <<FALSE, TRUE>>]
MCKeys     == [r \in MCRelation |-> CASE r = "R" -> {<<1>>} [] r = "S" -> {<<1, 2>>} [] OTHER -> {}]
MCDomain   == [r \in MCRelation |-> IF r = "R" THEN <<1..3, 1..2>> ELSE <<1..2, 1..2>>]
MCCopies   == 0..3

(* Columns of the row a declaration is about.                               *)
Column(c)  == Node("field", c, << >>)
Call(op, x, y) == Node("call", <<op, FALSE>>, <<x, y>>)
MCDeclared == [r \in MCRelation |->
    CASE r = "R" -> <<<<"key", <<1>>>>, <<"check", Pred("lt3", <<Column(2), Lit(3)>>)>>>>
      [] r = "S" -> <<<<"key", <<1, 2>>>>, <<"foreign", <<1>>, "R", <<1>>>>>>
      [] r = "G" -> <<<<"generated", 2, Call("sub", Lit(3), Column(1))>>>>]
MCLimits   == [r \in MCRelation |-> IF r = "S" THEN <<0, 2>> ELSE <<0, 0>>]

(* Rows: the first slots are stored.                                        *)
Row(r, s, copies, x, y) == (<<r, s, 0>> :> copies) @@ (<<r, s, 1>> :> x) @@ (<<r, s, 2>> :> y)
Stored2   == Row("R", 1, 1, 1, 2) @@ Row("S", 1, 1, 1, 1)
Candidate(r, s) == Row(r, s, 0, 2, 1)
Opening(slots) == UNION {{<<p[1], p[2], c>> : c \in 0..2} : p \in slots}

Ask3(mode, slots, asked) ==
    [mode |-> mode, asked |-> asked, open |-> Opening(slots),
     values |-> FoldSet(LAMBDA p, v : v @@ Candidate(p[1], p[2]), Stored2, slots)]
Attempt(slots, asked) == Ask3("attempt", slots, asked)

R2 == <<"R", 2>>
R3 == <<"R", 3>>
S2 == <<"S", 2>>
S3 == <<"S", 3>>
G1 == <<"G", 1>>
Of2(p, c) == Cell(p[1], p[2], c)
There(p)  == Pred("positive", <<Of2(p, 0)>>)
EqP(x, y) == Pred("eq3", <<x, y>>)
LtP(x, y) == Pred("lt3", <<x, y>>)
All(ps)   == Pred("and3", ps)
Some(ps)  == Pred("or3", ps)
IsP(p)    == Pred("is", <<p, Truth(TRUE)>>)
One1(p)   == <<<<p>>>>
TimesOf(x, y)  == Pred("times", <<x, y>>)
Indicate(p)  == Pred("indicator", <<p>>)
Choose1(c, x, y) == Pred("choose", <<c, x, y>>)

JoinedRows == Pred("positive", <<TimesOf(TimesOf(Of2(R2, 0), Of2(S2, 0)), Indicate(EqP(Of2(R2, 1), Of2(S2, 1))))>>)

Both(p)    == All(<<There(R2), There(R3), p>>)
OnR2(p)    == Attempt({R2}, One1(All(<<There(R2), p>>)))
OnBoth(p)  == Attempt({R2, R3}, One1(Both(p)))
BOf(p)     == Of2(p, 2)
Occurring  == Pred("total", <<Of2(R2, 0), Of2(R3, 0)>>)
SameC(p, q) == Pred("isnotdistinct", <<Of2(p, 1), Of2(q, 1)>>)
SameB(p, q) == Pred("isnotdistinct", <<BOf(p), BOf(q)>>)

(* One input: NULL, NOT, tests that have a value that is tried, one that is  *)
(* not, and none, a stored key, a CHECK, an error.                          *)
OneInput ==
    {OnR2(p) : p \in {Pred("isnull", <<BOf(R2)>>), Never(EqP(BOf(R2), Lit(1))), Pred("isnull", <<Of2(R2, 1)>>),
                      EqP(Call("mul", BOf(R2), BOf(R2)), Lit(2)), EqP(Call("mul", BOf(R2), BOf(R2)), Lit(1)),
                      EqP(Call("mul", Of2(R2, 1), Of2(R2, 1)), Lit(9)),
                      EqP(Of2(R2, 1), Lit(1)), LtP(Lit(2), BOf(R2)), EqP(Call("opaque", BOf(R2), Lit(1)), Lit(0)),
                      EqP(Call("div", Lit(1), Call("sub", BOf(R2), Lit(1))), Lit(1)),
                      EqP(Of2(<<"R", 1>>, 1), Lit(2)),
                      Some(<<EqP(BOf(R2), Lit(1)), LtP(BOf(R2), NullTerm)>>)}}

(* Two inputs: order (not for the search), equal and unequal inputs, CASE,  *)
(* a function Z3 does not know.                                             *)
TwoInputs ==
    {OnBoth(p) : p \in {LtP(BOf(R2), BOf(R3)), EqP(Of2(R2, 1), Of2(R3, 1)),
                        All(<<SameB(R2, R3), Never(EqP(BOf(R2), Lit(2)))>>),
                        All(<<Never(SameB(R2, R3)), Pred("isnotnull", <<BOf(R3)>>)>>),
                        All(<<EqP(BOf(R2), BOf(R3)), EqP(BOf(R2), Lit(1)), EqP(BOf(R3), Lit(2))>>)}}
    \cup {OnR2(EqP(Choose1(EqP(BOf(R2), Lit(1)), Of2(R2, 1), BOf(R2)), Lit(2))),
          OnR2(EqP(Call("opaque", Of2(R2, 1), BOf(R2)), Lit(0))),
          Attempt({R2}, <<<<There(R2)>>, <<EqP(Call("opaque", Of2(R2, 1), BOf(R2)), Lit(0)), EqP(BOf(R2), Lit(1))>>>>),
          Attempt({R2}, <<<<There(R2)>>, <<EqP(Call("opaque", Of2(R2, 1), BOf(R2)), Lit(0)), EqP(Of2(R2, 1), Lit(1))>>>>)}

(* Several requirements: apart, with alternatives, and with more options    *)
(* than the search tries.                                                   *)
IsOneOf(p, n) == Some(<<EqP(BOf(p), Lit(1)), All(<<EqP(BOf(p), Lit(2)), EqP(BOf(p), Lit(n))>>)>>)
Several ==
    {Attempt({R2, R3}, <<<<There(R2)>>, <<There(R3)>>>>),
     Attempt({R2, R3}, One1(EqP(Occurring, Lit(0)))),
     Attempt({R2, R3}, <<<<There(R2), There(R3)>>, <<Never(There(R2)), EqP(BOf(R3), Lit(2))>>>>),
     Attempt({R2, R3}, <<<<Both(Never(EqP(BOf(R2), BOf(R3))))>>, <<IsOneOf(R2, 2)>>, <<IsOneOf(R3, 2)>>>>),
     Attempt({R2, R3}, <<<<Both(Never(EqP(BOf(R2), BOf(R3))))>>, <<IsOneOf(R2, 1)>>, <<IsOneOf(R3, 1)>>>>),
     Attempt({R2, S2}, One1(JoinedRows)), Attempt({G1, R2}, <<<<There(G1)>>, <<There(R2)>>>>)}

(* Foreign keys, keys of two columns, limits, generated columns.            *)
Tables ==
    {Attempt({S2}, One1(All(<<There(S2), p>>))) : p \in {LtP(Lit(1), Of2(S2, 1)), EqP(Of2(S2, 2), Lit(2)),
                                                         All(<<EqP(Of2(S2, 1), Lit(1)), EqP(Of2(S2, 2), Lit(1))>>)}}
    \cup {Attempt({G1}, One1(All(<<There(G1), EqP(Of2(G1, 2), x)>>))) : x \in {Of2(G1, 1), Lit(2)}}
    \cup {Attempt({S2, S3}, One1(All(<<There(S2), There(S3), p>>))) :
              p \in {All(<<EqP(Of2(S2, 1), Of2(S3, 1)), EqP(Of2(S2, 2), Of2(S3, 2))>>),
                     All(<<SameC(S2, S3), EqP(Of2(S2, 2), Lit(1)), EqP(Of2(S3, 2), Lit(1))>>)}}
    \cup {Attempt({S2, R2}, One1(All(<<There(S2), LtP(Lit(1), Of2(S2, 1))>>)))}

(* How many rows are needed, and whether a further one helps.               *)
Repeated ==
    {Ask3(mode, {R2, R3}, One1(Node("atleast", n, <<Occurring>>))) : mode \in {"growth", "further"}, n \in {2, 3}}
    \cup {Ask3("growth", {S2}, One1(All(<<Node("atleast", 2, <<Of2(S2, 0)>>), EqP(Of2(S2, 2), Lit(1))>>))),
          Ask3("growth", {R2}, One1(All(<<There(R2), EqP(Of2(R2, 1), Lit(1))>>)))}

MCProblems == OneInput \cup TwoInputs \cup Several \cup Tables \cup Repeated
=============================================================================
