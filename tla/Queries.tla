------------------------------ MODULE Queries ------------------------------
(* The way of one statement through the two compilers, execution over       *)
(* stored and candidate rows, a solution for the candidate rows, and         *)
(* execution of the completed instance (parser/api.py, uexpr/lowering.py     *)
(* compile, generator/generate.py execute, instance/machine.py run).        *)
EXTENDS Execution, SqlMeaning

CONSTANTS Statements, \* SQL statements, qualified
          Instances,  \* stored rows: the values of their inputs
          Domain      \* the values a solution may give to a cell

VARIABLES pc,      \* written, parsed or refused, compiled, populated, executed, solved, replayed
          sql,     \* the statement
          query,   \* the compact query of it
          uexpr,   \* the U-expression of the query
          run,     \* the execution that leaves the candidate rows open
          replay   \* the execution of the solved instance

vars == <<values, open, binary, pc, sql, query, uexpr, run, replay>>

None == With(Bag(<< >>), {})

Init == /\ pc = "written"
        /\ sql \in Statements
        /\ query = Zero /\ uexpr = Zero
        /\ values = << >> /\ open = {} /\ binary = {}
        /\ run = None /\ replay = None

Parse == /\ pc = "written"
         /\ query' = Compiled(sql)
         /\ pc' = IF Accepted(query') THEN "parsed" ELSE "refused"
         /\ UNCHANGED <<values, open, binary, sql, uexpr, run, replay>>

(* The generator executes the simplified form; to_espnf is the other form.  *)
Formed(form, t) == IF form = "espnf" THEN ToEspnf(t) ELSE Simplify(t)

Compile(form) ==
    /\ pc = "parsed"
    /\ uexpr' = Formed(form, Lower(query))
    /\ pc' = "compiled"
    /\ UNCHANGED <<values, open, binary, sql, query, run, replay>>

(* Every relation keeps a row of multiplicity 0, a candidate.  A new one is *)
(* filled with values that no cell holds.                                   *)
Unused(taken) == LET n == Cardinality(taken)
                 IN  CHOOSE x \in n + 1 .. 2 * n + 1 :
                         x \notin taken /\ \A y \in n + 1 .. x - 1 : y \in taken

WithCandidates(stored) ==
    LET LastSlot(r)  == Cardinality({n \in DOMAIN stored : n[1] = r /\ IsWeight(n)})
        missing   == {r \in Relation : \A s \in 1 .. LastSlot(r) : stored[<<r, s, 0>>] # 0}
        order     == Ordered(missing)
        cells     == FlattenSeq([i \in DOMAIN order |->
                         [c \in DOMAIN Schema[order[i]] |-> <<order[i], LastSlot(order[i]) + 1, c>>]])
        Taken(v)  == {v[n] : n \in {m \in DOMAIN v : ~IsWeight(m)}} \ {Null}
    IN  FoldLeft(LAMBDA v, name : (name :> Unused(Taken(v))) @@ v, stored, cells)
        @@ [name \in {<<r, LastSlot(r) + 1, 0>> : r \in missing} |-> 0]

OpenIn(v) == {n \in DOMAIN v : v[<<n[1], n[2], 0>>] = 0}

Populate(stored) ==
    /\ pc = "compiled"
    /\ values' = WithCandidates(stored)
    /\ open' = OpenIn(values')
    /\ binary' = {n \in open' : IsWeight(n)}
    /\ pc' = "populated"
    /\ UNCHANGED <<sql, query, uexpr, run, replay>>

Execute == /\ pc = "populated"
           /\ run' = Run(uexpr)
           /\ pc' = "executed"
           /\ UNCHANGED <<values, open, binary, sql, query, uexpr, replay>>

(* The solver gives any values to the candidate rows that it makes present, *)
(* to a cell no NULL its column does not take and no key that is stored;    *)
(* the others stay candidates.                                              *)
Admitted(name) == IF IsWeight(name) THEN {1}
                  ELSE IF Schema[name[1]][name[3]] THEN Domain \cup {Null}
                  ELSE (Domain \cup {values[name]}) \ Excluded(name)

Solve(solution) ==
    /\ pc = "executed" /\ ~Raises(run.n)
    /\ values' = WithCandidates(solution @@ values)
    /\ open' = OpenIn(values')
    /\ binary' = {n \in open' : IsWeight(n)}
    /\ pc' = "solved"
    /\ UNCHANGED <<sql, query, uexpr, run, replay>>

RECURSIVE Bases(_)
Bases(t) == IF Op(t) = "base" THEN {Arg(t)} ELSE UNION {Bases(Kid(t, i)) : i \in DOMAIN Kids(t)}

Chosen(present) == {n \in open : n[1] \in present}
Solutions == UNION {{s \in [Chosen(p) -> UNION {Admitted(n) : n \in Chosen(p)}] :
                        \A n \in Chosen(p) : s[n] \in Admitted(n)} : p \in SUBSET Bases(query)}

Replay == /\ pc = "solved"
          /\ replay' = Run(uexpr)
          /\ pc' = "replayed"
          /\ UNCHANGED <<values, open, binary, sql, query, uexpr, run>>

Next == \/ Parse
        \/ \E form \in {"simplified", "espnf"} : Compile(form)
        \/ \E stored \in Instances : Populate(stored)
        \/ Execute
        \/ \E solution \in Solutions : Solve(solution)
        \/ Replay

Spec == Init /\ [][Next]_vars

-----------------------------------------------------------------------------
(* The rows of a relation under the values of the moment.                   *)
RowsOf(relation) ==
    FlattenSeq(Strict([e \in DOMAIN relation.entries |->
        LET entry == relation.entries[e]
            cells == Strict([c \in DOMAIN entry.row |-> Eval(entry.row[c])])
        IN  [k \in 1 .. Number(entry.weight) |-> cells]]))

Replayed == pc = "replayed" /\ ~Raises(replay.n)

(* The compact query has the rows of the statement, as often and, where it  *)
(* orders them, in the order of the statement; it fails when that fails.    *)
(* No statement is refused but a block with groups and an EXISTS beyond its *)
(* WHERE, whose columns the compiler looks for in the block                 *)
(* (analysis.py:145, 174).                                                  *)
Answers(rows, meant) == IF SortOf(query)[1] = "seq" THEN rows = meant
                        ELSE (rows = Error) = (meant = Error) /\ SameBag(rows, meant)
ExistsBeyondWhere(q) == q.kind = "select" /\ CollectIn(Roots(q), {"exists"}, {}) # << >>
CompilesTheQuery ==
    /\ pc = "refused"   => ExistsBeyondWhere(sql) /\ RequiresAggregation(sql)
    /\ pc = "populated" => Answers(Answer(query), SqlAnswer(sql))

(* Lowering and both normal forms keep the sort of the query, bind every    *)
(* variable and leave no compact operator.                                  *)
FormsAreSound == pc = "compiled" => VerifyUExpr(uexpr) /\ SortOf(uexpr) = SortOf(query)

(* Executing the compiled query gives the rows that the query means.        *)
MeansTheQuery == Replayed /\ Answer(query) # Error => SameBag(RowsOf(replay.r), Answer(query))

(* A fold that takes any value of a group takes a present one, a constant:  *)
(* what is open does not show in it.                                        *)
RECURSIVE TakesAnyValue(_)
TakesAnyValue(t) == \/ /\ Op(t) \in {"groupfold", "globalfold"}
                       /\ \E i \in DOMAIN Arg(t) : Arg(t)[i][1] = "anyvalue"
                    \/ \E i \in DOMAIN Kids(t) : TakesAnyValue(Kid(t, i))

ReplayedOpen == Replayed /\ ~TakesAnyValue(query)

(* The result computed with the candidate rows open is, for any values they *)
(* are given, the result computed with those values.                        *)
SymbolicAgrees == ReplayedOpen => SameBag(RowsOf(run.r), RowsOf(replay.r))

(* A solution of an uncovered decision's condition makes the execution reach it.       *)
ConditionsReplay ==
    ReplayedOpen => \A x \in run.n : ~x.covered /\ Eval(x.condition) = TRUE =>
                    \E y \in replay.n : y.site = x.site /\ y.outcome = x.outcome /\ y.covered

(* Bounds of a multiplicity, and its being 0 or 1, hold for all values.     *)
BoundsHold ==
    Replayed => \A e \in DOMAIN run.r.entries :
        LET w == run.r.entries[e].weight
        IN  /\ \A n \in Least(w) : n <= Eval(w)
            /\ \A n \in Most(w)  : Eval(w) <= n
            /\ IsBinary(w) => Eval(w) \in {0, 1}

(* A column that is declared not to be NULL never is.                       *)
NullabilityHolds ==
    Replayed => \A i \in DOMAIN RowsOf(replay.r) : \A c \in DOMAIN SchemaOf(query) :
                    RowsOf(replay.r)[i][c] = Null => SchemaOf(query)[c]
=============================================================================
