# A verification of ParSEval

ParSEval (`src/src/parseval`) looks for a database on which two SQL queries
give different results. `disprove` runs both queries on the empty database and
on every version of the databases that *concolic generation* grows for each of
them: a database is executed by a symbolic machine, the outcomes of the query's
decisions that no stored row covers become targets, a solver is asked for rows
that cover one, and the new database replaces the old one if executing it shows
that it does and that nothing covered was lost.

This directory models that loop, the compilers and the machine below it and the
solving beside it in TLA+, checks small instances with TLC, and proves the
properties that matter most with TLAPS.
Paths below are relative to `src/src/parseval`.

## The system

| Component | State | Operations | Talks to | Hard part | Correct if |
| --- | --- | --- | --- | --- | --- |
| Concolic generation, `generator/generate.py` | `Session.candidates`, `deadline`; in `run`: the accepted `Round`, `tried`, attempts | `run`, `attempt`, `_attempt`, `_grow`, `_distinct`, `execute`, `with_candidates` | machine, solver, integrity, speculation; calls the caller back with each version | a loop with three nested retries, several of whose variables are reset at different places; a deadline raised anywhere; answers of the solver that execution refutes; a caller that stops it | versions only grow, never lose coverage, all reach the caller; nothing coverable is left; it ends |
| Coverage, `generator/coverage.py` | `reached`, `covered`, `stable`, `witnesses`, `candidates` per execution | `observe`, `wants` | fed by the machine, read by generation | reports come in any order and number, a bounded number is kept | covered outcomes can be asked for again; feasible conditions are not crowded out |
| `disprove`, `main.py` | `counterexample`, `results`, `doubts` | `check` (a callback of generation), `differ`, `_run` | generation, backend | results are overwritten at every check, and two checks later decide the verdict | a verdict agrees with what the databases showed |
| Database manager, `db_manager.py` | scratch databases; one SQLite connection, its progress handler and a timer thread per statement | `scratch`, `execute`, `_deadline`, `load`, `create_tables` | backend drivers, `threading.Timer` | the timer's thread against the next statement; failures between creation and drop; order of tables and rows under foreign keys | statements end; limits only hit their own statement; no database is left behind; an instance is loaded whole and never refused for its order |
| Integrity, `instance/constraints.py`, `instance/domain.py` | caches per execution | `constraints` | generation, solver | nulls, text collation, stored against candidate rows | constraints hold exactly for rows that can be stored |
| Solver dispatch, `smt/solve.py` | requirements, inputs whose integrity is required, values found so far, preferences kept | `solve`, `_components`, `_z3`, `_check_minimal` | integrity, CSP, Z3 | closure that mentions new inputs, components solved one by one, restarts | SAT values satisfy every requirement in a consistent database; UNSAT only if none do |
| CSP, `smt/csp.py` | space per input, links, pending disjunctions | `search`, `Normalizer` | instance domains | giving up against contradiction | UNSAT only for contradictions |
| Z3 translation, `smt/translate.py` | translator tables | `holds`, `domain`, `model` | Z3 | SQL semantics in Z3 theories | equisatisfiable; replay catches the rest |
| Machine, `instance/machine.py`, `instance/relations.py`, `instance/ordering.py` | caches per execution | `run` | recorder, valuation | concrete and symbolic values side by side; lookups that skip rows | the result is the query's, now and for every solution |
| Valuation, `instance/valuation.py`, `symbolic/` | values of the inputs, which are open | `node`, `evaluate`, `trial`, bounds | machine, integrity, search | three-valued logic, folding before the solver decides | simplified terms have the values of the plain ones |
| Speculation, `speculate/speculate.py` | sampled rows | `speculate` | instance, `evaluate` | repair of conflicting requirements | a productive database or an empty one |
| Terms, `terms/`; lowering and normal forms, `uexpr/` | interning arena | `make`, shift, substitute; `compile`, `to_espnf` | each other | depth of binders | terms are well sorted; normal forms mean the same |
| Query compiler, `parser/` | scopes while it compiles | `compile` of each clause | terms | names, scopes and hidden columns | the compact query has the rows of the statement |
| Catalog and DDL, `catalog.py`, `parser/ddl.py` | declarations | `from_ddl` | all | | |

Everything runs in one thread except the timers of SQLite statements. Nothing
is persistent: a crash loses the session. So the hazards of this code are not
crashes of nodes but protocols between callbacks, retries and their resets,
unreliable answers, deadlines, bounded memory, and one real race. They are
listed, each at its line, under `hazards` of `PROJECT.json`.

## Modules

| Module | Models | State and actions |
| --- | --- | --- |
| `DatabaseVersions` | what generation promises its caller (`docs/generator.md`) | `version`, `shown`, `over`; `Show`, `Grow`, `Stop` |
| `Generation` | `Session` | see below |
| `MCGeneration` | five small queries over two relations | definitions for TLC |
| `Generation_proofs` | theorems about `Generation` | |
| `Disprove` | `disprove`, `check`, `differ`, `_run`, scratch databases | composes `DatabaseVersions` in place of generation |
| `MCDisprove` | results and databases for `Disprove` | definitions for TLC |
| `Disprove_proofs` | theorems about `Disprove` | |
| `StatementTimeout` | `Connect.execute` and `_deadline` on SQLite, thread by thread | |
| `StatementTimeout_proofs` | theorems about `StatementTimeout` | |
| `Coverage` | `Recorder.observe` and `wants` | |
| `MCCoverage` | conditions for `Coverage` | definitions for TLC |
| `Coverage_proofs` | theorems about `Coverage` | |
| `ReferencesFirst` | what ordering by references promises: `_topological`, `_parents_first` | `input`, `order`, `outcome`; `Place`, `Finish`, `Refuse` |
| `Topological` | `_topological`, step by step | implements `ReferencesFirst` over nodes |
| `Topological_proofs` | theorems about `Topological` | |
| `ParentsFirst` | `_parents_first`, round by round | implements `ReferencesFirst` over the rows of a table |
| `MCParentsFirst` | tables with two foreign keys to themselves | definitions for TLC |
| `ParentsFirst_proofs` | theorems about `ParentsFirst` | |
| `Load` | `Connect.load` | composes `ReferencesFirst` twice, for relations and for the rows of one |
| `MCLoad` | two relations, all ways to reference | definitions for TLC |
| `Load_proofs` | theorems about `Load` | |
| `Terms` | the arena: sorts, interning with its local canonicalisation, binders, verification | operators |
| `Lowering` | compact queries to U-expressions, `uexpr/` | operators |
| `Normalize` | `simplify`, `to_espnf`, the normal form of orders | operators |
| `Valuation` | inputs, evaluation, partial evaluation, bounds, aggregates | `values`, `open`, `binary` |
| `Machine` | bindings, relations, joins, windows of orderings, notes | operators |
| `Execution` | `Machine.run`, term by term | operators |
| `Compiler` | SQL statements to compact queries, `parser/` | operators |
| `Meaning` | what a compact query means | the reference, for TLC |
| `SqlMeaning` | what a SQL statement means, by its names | the reference, for TLC |
| `Queries` | a statement's way through both compilers, execution, solution and execution again | composes the modules from `Terms` on |
| `MCQueries` | 56 statements over two relations | definitions for TLC |
| `Integrity` | `Integrity.constraints`, beside what a consistent database is | operators |
| `Search` | `Normalizer`, propagation, `_assign`, `Space` | operators |
| `SolverAnswers` | what `solve` promises of its answers, over any language of requirements | `given`, `waiting`, `found`, `status`; `Close`, `Split`, `Solve`, `Refute` |
| `ComponentSearch` | how `solve` solves a component, over any language of predicates: the search, then Z3 with preferences | extends `SolverAnswers` with `component`, `phase`, `untried`, `inconclusive`, `kept`; `Enter`, `Narrow`, `Miss`, `Hit`, `Exhausted`, `Encode`, `CheckSat`, `Release`, ... |
| `SolverAnswers_proofs` | theorems about `SolverAnswers` and `ComponentSearch` | |
| `Solving` | `solve` with `_components`, `_z3`, `_check_minimal` and the loop of `search` | composes `Integrity` and `Search`, implements `ComponentSearch` |
| `MCSolving` | 42 problems over three relations | definitions for TLC |

`Compiler` and `Normalize` extend `Lowering`, which extends `Terms`;
`Normalize`, `Valuation`, `Machine`, `Execution` extend each other in this
order; `Queries` extends `Execution` and `SqlMeaning`; `Integrity`, `Search`,
`Solving` extend `Valuation` in this order.

### Generation

`pc` is the place in the code. `current` is `run`'s round (database, candidate
rows beside it, budget), `work` the round `attempt` works in, `candidates` is
`self.candidates`, `tried` and `target` are `run`'s.

| Action | Code |
| --- | --- |
| `OfferSeed`, `OfferVersion` | the calls of `on_instance`, which may end generation |
| `Open` | the first execution |
| `Choose`, `Widen`, `Finish` | the head of the loop: `_next`, the widening to `MAX_BUDGET`, the break |
| `SolveSat`, `SolveUnsat`, `GiveUp` | `_attempt` up to the solver's status, with `attempt`'s second solve of capped targets |
| `Accept`, `Reject` | replay of the solution |
| `Measure`, `NoRepetition` | `_grow`: the relaxed solve and the demand |
| `Distinct`, `NoFurtherRow` | `_distinct` |
| `Regrow` | execution beside the grown candidate rows |
| `TimeLimit`, `Raise` | the deadline; an execution error |

A database is a bag of stored rows as far as a query can tell bags apart, so
it is finite although generation has no row limit. The query is the constant
`Bindings(problem, outcome, database, added)`: the numbers of added rows that
bindings reaching the outcome combine, 0 if stored rows do it. Covered outcomes,
conditions and budgets are defined from it, as the machine does from one
execution. Cell values, labels, terms and provider values are left out.

`Solver(problem)` says how much of the solver's answers is relied on. `exact`:
SAT with rows that do what was asked, UNSAT only if there are none. `timed`: may
also give up. `loose`: any rows that can be stored, UNSAT and UNKNOWN at will,
and execution may fail. The refinement, coverage and attempt properties hold for
all three; `Exhausted` is about an exact one.

### Queries

A statement passes `Parse` (the query compiler, which may refuse it), `Compile` (lowering and one of
the two normal forms), `Populate` (stored rows, and a candidate row in each
relation whose rows all occur, as `with_candidates` does), `Execute`, `Solve`
(any values the domains admit for the candidate rows made present, new
candidates beside them) and `Replay`. An execution leaves a result, a relation
of symbolic entries, and the notes of the decisions it reached: site, outcome,
whether stored rows reach it, the condition under which open inputs do.

A term is `<<operator, payload, children>>`; equality of terms stands for
hash-consing. The code's continuations, under which a term is built below
binders, are records of what they close over, and every term carries the scope
it was built in (`Lowering`). SQL statements are qualified, as the external
qualifier leaves them. There is one SQL type, INTEGER with truth values, so a
sort is a nullability.

The references are written from SQL and not from the code: `SqlMeaning` gives
the rows of a statement by names and never builds a term; `Meaning` gives the
rows of a compact query. With the code they share the operations on values, and
`SqlMeaning` how a name matches a column. Whether a block aggregates is decided
anew by `SqlMeaning` (`BlockAggregates`), because the compiler's own answer looks
into the query of an EXISTS (`Collect`, see the observations below).

### Solving

`solve` is one call of generation: an `attempt` at a target, the measure of how
often rows are needed (`growth`), or a `further` distinct row tried.

| Action | Code |
| --- | --- |
| `Close` | the loop of `solve` that adds the integrity of the rows whose inputs are new |
| `Decompose`, `Finish` | `_components`; the answer when none is left |
| `BeginSearch`, `SkipSearch` | `search` is entered, or not: growth, a term outside its fragment, too many steps of normalising |
| `Explore`, `Branch` | a state is propagated, then picked from or split; the next option within `BRANCHES` |
| `Encode` | `_z3`: alternatives Z3 has, the preferences |
| `CheckSat`, `CheckUnsat`, `CheckUnknown` | `_check_minimal`: a model; a core, all of which is released; time over, the next restart |
| `Done` | the answer stands |

Z3 and its encoding are external: any solver that answers with a model of the
constraints over the values of the run, with any core that no model keeps, or
not at all. The search is exact: `Normalizer` to formulas over atoms,
`NarrowBy` and `Propagated` over spaces, `Assignment` for `_assign`, in both
orders of a set of inputs.

`SolverAnswers` has of this what the answers rest on: a requirement is a set of
alternatives, each with inputs and TRUE or not of their values, and whoever solves
a component is right when it decides. `ComponentSearch` says how that comes about.
The formula of a component, spaces, links and pending disjunctions are one set,
`untried`: the values that the state being visited and the options not yet taken
still admit. Narrowing, propagating and branching may make it smaller but lose no
solution (`Narrow`); a value that is picked and fails takes what it stood for out
of `untried` and sets `inconclusive` (`Miss`); UNSAT takes an empty `untried` and
no such failure (`Exhausted`); the search may stop at any point (`Abandon`, for
`BRANCHES`). Z3 answers with a model of the known alternatives that keeps `kept`,
or a core that no model keeps. `Solving` maps its groups to `given`, its queue of
components, whose head is the one being solved, to `waiting` and `component`, its state
and `agenda` to the assignments that satisfy them as formulas (`Reaches`,
`Satisfies`), and each place within the search or Z3 to a `phase`.

### Disprove

One action per call that a backend, a callback or generation can interrupt:
`Prepare` (scratch database), `Run` (each query), `CompareEmpty` or
`CompareVersion` (`differ`, drop, the callback's value), `Offer`, `Grow`, `Stop`
(generation, through `DatabaseVersions`), `Judge`, `Conclude`. `Refuse` is a
backend that refuses the schema or the rows. What a query returns is chosen at each run: rows,
the backend's error, or nothing in time. `apart`, `agreed` and `late` are history.

### StatementTimeout

The main thread runs `N` statements on one connection (a scratch database in
memory keeps one, `_engine`): `Begin` (the PRAGMA of `begin`), `Enter` (handler,
event, timer), `Start` (the statement itself: the limit already runs, and an
interrupt that came before is forgotten), `End` or `Stop`, `SetDone`, `Cancel`,
`Clear`, `Report` (`_run`).
Each timer's thread has `Expire`, then `Look` and `Interrupt` for the two halves
of `done.is_set() or raw.interrupt()`. SQLite and `threading.Timer` are
external, modelled from their use: an interrupt stops what runs, or nothing.

### Coverage

`Cover` and `Miss` are `observe` of a covered and of an uncovered outcome;
`Offer` is the machine asking `wants` first. A condition is TRUE, FALSE or one
of the open ones, which hold on the current values exactly when stored rows
cover the outcome (`Valuation` evaluates them so).

### Topological, ParentsFirst and Load

`Topological` keeps the recursion of `visit` as a stack: `Root` is the outer
loop, `Follow` one turn of the inner loop, which opens a node, skips it or finds
a cycle, `Leave` the end of a call, `Return` the end of the search. `todo`
and `roots` hold what the two loops have left; they iterate over sets, so the
next node is a choice. The caller's names, which the code quotes in the message
of a cycle, are left out.

`ParentsFirst` has `Round` (the rows that are ready, or the report that none
is), `Place` (one row of the round) and `Return`. A row is a place in the table
and not its value, because `pending.remove(row)` removes by value and the
question is whether equal rows survive that. Keys and references are the
constants `Key` and `Ref`; a reference with a NULL column is `Null`. The rows of
a round are a list comprehension over `pending`; `Round` says which sequence that
is (the ready ones, in their order), a form that can be reasoned about.

`Load` is one transaction: `OrderRelations` and `OrderRows` follow the abstract
`ReferencesFirst`, which the two modules above implement, `Insert` is one row of
an `executemany`, which a backend that checks foreign keys may refuse,
`NextRelation` the loop, `Commit` the end, and `RefuseRelations`, `RefuseRows`
and `Fail` the ways out by an exception, each of which undoes the transaction.

## What is checked

| Run | Shows |
| --- | --- |
| `Generation` | Generation ends (`Ends`) and, where the solver decides, only when no bag of rows would cover anything further within the widest budget and keep what is covered (`Exhausted`); what it gives up it gives up for a reason (`GivenUpWithReason`). With a solver that does anything, a deadline and a caller that stops anywhere as well: an attempt belongs to the accepted version (`AttemptOnVersion`), every step gets on (`Advances`), and `Generation` implements `DatabaseVersions` (`GrowsByVersions`, refinement mapping `version <- current.db`, `over <- pc \in Stopped`). |
| `Disprove` | Counterexample, results and verdict belong together (`Witnessed`); the first difference ends the search (`EndsAtFirst`); EQ rests on a database with rows per query on which both ran, agreed and returned rows (`EqEarned`); no scratch database outlives its check (`NoScratchLeft`). |
| `StatementTimeout` | A hanging statement ends, and so does one that waits outside bytecode, unless its timer fired before it started (`EveryStatementEnds`); only a statement that was still running at its limit can disturb a later one (`OnlyOverrunsDisturb`). |
| `Coverage` | Covered outcomes have witnesses (`CoveredCanBeKept`), conditions are not crowded out (`NotCrowdedOut`). |
| `Topological` | For every graph, each node is placed once, after all it points to, and only a real cycle is refused (`OrdersReferencesFirst`, with `SearchInvariant` relating stack, marks and loops); a cycle is never overlooked and the search ends (`EndsRight`). |
| `ParentsFirst` | Rounds lose and repeat no row, however many are equal (`RowsKept`); each comes after a row it references, only rows that wait for each other are refused (`OrdersReferencesFirst`), and it ends so (`EndsRight`). |
| `Load` | Whatever fails, all rows are stored or none (`AllOrNothing`); foreign-key checks refuse no consistent instance (`BackendAccepts`, by `LoadInvariant`); load ends, for the right reason (`EndsRight`). |
| `Queries` | The compact query has the rows of the statement, and none is refused but a grouping with an EXISTS beyond its WHERE (`CompilesTheQuery`); lowering and both normal forms bind every variable and keep the sort (`FormsAreSound`); executing them gives the rows the query means (`MeansTheQuery`). What the first execution said with the candidate rows open holds of every solution: the result (`SymbolicAgrees`), the decisions reached (`ConditionsReplay`), bounds of multiplicities (`BoundsHold`), and no NULL in a column that takes none (`NullabilityHolds`). |
| `Solving` | The constraints of the rows hold exactly for databases a backend would take (`IntegrityExact`); UNSAT is a proof (`UnsatIsProved`); SAT comes with values that make everything asked true in a consistent database (`SolutionsHold`); there is an answer, whatever cores Z3 gives (`SolvingEnds`). `Solving` implements `ComponentSearch` (`AnswersAsPromised`), and so `SolverAnswers`: each component is connected, apart from the others and solved by itself, what is found of one is kept while the next is solved, propagating and branching lose no solution, and a restart begins with all preferences. |

Three runs show where the code does not do what its documentation says; each is
a finding of `PROJECT.json` and a counterexample of TLC:

| Run | Disagreement |
| --- | --- |
| `GenerationStaleDemand` | `_grow` compares a target's demand with `self.candidates`, not with the rows of its round. When a failed attempt for another target has grown them, nothing grows and the target is given up, although the rows it needs would be there after executing again (`generator/generate.py:337`). |
| `DisproveTimeout` | A query out of time on any version but the last is forgotten, and the verdict can be EQ instead of TIMEOUT (`main.py:149`). |
| `StatementTimeoutRace` | A timer that looked at `done` just before it was set interrupts the next statement, which is reported as failing (`db_manager.py:119`). |

Observations met while modelling that have no run:

- Until there is output a version may lose outcomes, and `tried` is emptied at
  every version, so outcomes that exclude each other can be covered in turn
  forever; only `time_limit_s` ends that (`generator/generate.py:400`). The
  problems of the run `Generation` have none, or `Ends` would not hold.
- "At most once per database version" (`generator/generate.py:56`) is once per
  version and budget, because widening the budget empties `tried`
  (`generator/generate.py:433`).
- An outcome whose TRUE condition is reported after `WITNESSES` others is not
  recognised as stable (`generator/coverage.py:104`, `116`); that costs solving
  time only, since `CoveredCanBeKept` holds all the same.
- `_z3` leaves alternatives out that it cannot encode and still reports UNSAT
  when the others have no model (`smt/solve.py:131-141`); `UnsatIsProved`
  excludes these problems. Another alternative is only lost for the target of
  the moment.
- `_check_minimal` keeps "as many preferences as the constraints allow"
  (`smt/solve.py:171`), but releases a whole core at a time; "within twice the
  least" (`smt/solve.py:144`) rests on Z3's cores being small.
- `_foreign` looks stored parents up by the row's own text, while `_stored`
  counts keys as the backend tells text apart (`instance/constraints.py:184`).
- The limits of a column hold for absent candidate rows too
  (`instance/constraints.py:99`); `IntegrityExact` says so.
- An expanded star over a grouping takes the ordinals of the source, whose
  columns the grouping has in another order (`parser/query/projections.py:120`):
  columns come out swapped. The statements of the run have a star over tables.
- "The timer also interrupts a statement waiting outside it"
  (`db_manager.py:117-118`) is so only if the timer fires after the statement has
  started. It is armed before (`db_manager.py:121`, `91`), and an interrupt while
  nothing runs does nothing in SQLite: a statement that then waits has nothing left
  that ends it. `EveryStatementEnds` excepts this; the progress handler ends every
  statement that does not wait.
- `_collect_aggregates`, `_collect_grouping_calls` and `visit_bare` stop at
  subquery nodes (`parser/query/analysis.py:127`, `173`, `204`), but EXISTS holds its
  query without one. In the select list, HAVING or ORDER BY, the columns of an
  EXISTS in a grouping block are looked for in the block, and the statement is
  refused (`SELECT COUNT(*) FROM R HAVING EXISTS (SELECT c FROM S)`); an aggregate in
  it turns a block without groups into a grouping, so that `SELECT a, CASE WHEN EXISTS
  (SELECT COUNT(*) FROM S) THEN 1 ELSE 0 END FROM R` has one row and not one per row of
  R. The run has statements that are refused; the last one is not in it, since
  `CompilesTheQuery` would not hold. The query of an IN is a subquery node.
- A summation whose body has become Zero binds no row, and its execution reports
  an unsupported query instead of an empty result (`instance/machine.py:725`).

### Bounds

- `MCGeneration`: two relations of two distinct rows each and five queries, one
  per mechanism: grouping with HAVING (demand by repetition), a comparison with
  an average (a further distinct row), a join over keys that are foreign keys
  (budget, parents' demand), a keyed table (growth by a failing target, for
  `GenerationStaleDemand`), and the parity of a count, which goes to the loose
  solver with deadline and stopping caller. No query tells counts from 3 up
  apart except by parity, so a stored row counts to 4. `MaxOpen` = 4 candidate
  rows and `MaxCopies` = 3 repetitions are enough for every demand of the exact
  problems (HAVING COUNT(*) >= 3 for both groups needs 6 rows, of which a round
  adds 3). In the loose problem they only limit how much a solver that answers
  at will can ask for.
- `MCDisprove`: three databases, results of up to two rows, so that comparison
  as sets, bags and lists differ; all orders of failures and timeouts.
- `StatementTimeout`: three statements, so that an old timer can meet the
  statement after the next; two for the race.
- `MCCoverage`: one outcome (outcomes share no state), three open conditions of
  each kind against a limit of two, every order of reports.
- `Topological`: all 512 graphs over three nodes, with loops, in every order of
  iteration: cycles of each length, and chains deep enough that an open node is
  neither the first nor the last of the path.
- `MCParentsFirst`: tables of up to `MaxRows` = 3 rows with two links. Rows
  without an id share a name, so there are equal rows, rows that others
  reference only by one of them, rows that reference themselves, cycles, and
  references to nothing.
- `MCLoad`: two relations with foreign keys in every direction, two rows and
  one; each foreign key of a row is NULL, a reference to any row, or dangling.
  Two relations show the order among relations, two rows the order within one.
- `MCQueries`: R(a key, b nullable) and S(c nullable), and 56 statements, one or
  more per clause that the compiler knows: predicates with NULL, the joins and a
  join above an outer join, LATERAL, correlated and nested subqueries, IN, WITH,
  EXISTS and subqueries in the select list, HAVING and ORDER BY,
  aggregates with DISTINCT and FILTER, ROLLUP, CUBE, GROUPING SETS and GROUPING,
  bare columns, ORDER BY with LIMIT and OFFSET, set operations, VALUES. Three
  instances: no rows; equal rows in S; a NULL in each relation. Stored rows meet
  one candidate row per relation (`Budget` = 3 is then no limit), whose cells a
  solution takes from `Domain` = {1, 2}, NULL and the fresh value it had.
  `ConditionsReplay` is about notes that are not covered yet, and it and
  `SymbolicAgrees` about queries without an any-value fold, which takes a value
  of the rows present.
- `MCSolving`: R(a key, b with CHECK b < 3), S(c references R.a, d limited, (c, d)
  a key), G(g, h generated as 3 - g), a stored row of R and of S, and one or two
  candidate rows of the relations asked about. R.a takes 1 to 3, the others 1
  and 2, a multiplicity 0 to 3. `MaxBranches` = 3, `CaseSplits` = 4,
  `Restarts` = 2, `MaxExponent` = 1 are the code's 256, 16, 4 and 30, so small
  that problems of this size reach them: giving up, and every restart, happens.
  The search may take values outside the domain, which is why its solutions are
  checked by evaluating them. What `UnsatIsProved` rules out are the assignments
  over the domain.

### Fairness

`Generation.FairSpec` is weak fairness of the whole step: one thread runs the
session and every call of the solver is bounded by `timeout_ms`. In
`StatementTimeout` the main thread and each timer are scheduled and time
passes, but a statement need not end by itself: `End` and `Wait` have no
fairness. `Topological`, `ParentsFirst` and `Load` have weak fairness of the
whole step: one thread runs them, and a backend answers or fails. `Solving`
has the same for `Step`, written as `[]<>(pc = "done") \/ []<><<TRUE>>_vars`:
until there is an answer some step is possible (TLC checks that no state is a
deadlock), and `Done` is the only step that changes nothing. The code justifies
it, since every call of Z3 has a timeout. The other specifications are safety
only. `Queries` may stop where an execution raised, after a refusal, and after
the replay.

## What is proved

`Generation_proofs`, for all schemas, queries, solvers, bounds and seeds:
`TypeCorrect`, `AttemptsAreOnVersion`, `CoverageKept`,
`GrowsDatabaseByVersions`, `GivesUpWithReason` and `EveryStepAdvances`. The
inductive invariant of the first four is
`TypeOK /\ AttemptOnVersion`, whose parts are: an attempt's round has the
accepted version's rows and budget (`SameVersion`), no round has more candidate
rows than the session (`Grown`), the target is not covered (`Pursues`), and the
caller has seen the version except while it is being offered (`Seen`).
`KeepsCovered` alone is not inductive: `Accept` compares the new database with
the attempt's, and only `SameVersion` says that this is the accepted one.
The refinement needs `Pursues` (a version covers something new) and `Seen` (the
abstract `Grow` and `Stop` require that the caller was shown the version). Each
step is mapped to `Show`, `Grow`, `Stop` or a stutter by a lemma of its own.

`GivesUpWithReason` is what holds of every query in place of `Exhausted`, given a
solver that decides and a session that nobody interrupts: no rows that the last
round has room for, within the widest budget, reach an outcome left uncovered;
and repeating rows, even with one more of each relation it involves, does not
reach it either, or asks for no more rows than the session already has. A target
is given up long before the end, so `Reasons` says of every target tried so far
what is known of it (`Judged`), and of the one being tried what has been found
(`Pursuit`). That outlives later attempts because they leave the version alone
and only add candidate rows (`JudgementStays`), and it is about the version's own
round because the first solves are made there and growth only adds to it
(`Prepared`). `RelaxedGrows` carries a relaxed answer from the attempt's round to
another with more or fewer rows; `SolutionsReplay` rules out that a solution is
rejected. Capped targets are excepted from the part on growth: their conditions
are all solved before it, and only the kept ones after (`generate.py:288`).

`EveryStepAdvances` orders what may change: coverage, budget, targets tried,
candidate rows, place in the code. A step moves one of them on and leaves those
before it alone, so from the first version with output on, a run has as many
steps as these orders allow. `Ends` adds only that steps are taken. A version
without output is the exception, and the reason why `Ends` is not a theorem.

`Coverage_proofs`, for all outcomes, conditions and limits: `TypeCorrect`,
`CoverageCanBeKept` and `ConditionsNotCrowdedOut`. The last is strengthened by
finiteness of the kept sets and by what is kept while there is room.

`Topological_proofs`, for all sets of nodes, finite or not: `TypeCorrect`,
`SearchIsWhereItsMarksSay` and `OrdersEveryGraph`, the refinement of
`ReferencesFirst`. That a node is placed after all it points to is not
inductive: when a call ends, every edge has been passed, and one has to know
that what was passed is done (`Passed`), which holds because an open node is on
the stack (`OpenOnPath`) and a call returns only to the one that follows it
there. `LeavePlaces` and `ReturnFinishes` map the steps; `CycleIsStuck` shows
from `Linked` that the stack from an open node to the top is a set of nodes
each of which waits for another.

`Load_proofs`, for all catalogs, instances and orders chosen: `TypeCorrect`,
`LoadsInOrder`, `LoadsAllOrNothing` and `ConsistentIsAccepted`. `LoadInvariant`
says how far load is: both orders are orders of references, and the transaction
holds the rows of the relations before the current one and those of the current
one before `next`. From it, the rows that a row needs are in the transaction
when it is inserted: those of other relations because their relation came
before, those of its own because they did. The orders are those of
`ReferencesFirst`; that `_topological` produces one is `OrdersEveryGraph`, that
`_parents_first` does is `OrdersEveryTable`.

`ParentsFirst_proofs`, for all tables, links and keys: `TypeCorrect`,
`RemovalKeepsRows` and `OrdersEveryTable`, the refinement of `ReferencesFirst`.
`pending.remove(row)` removes the first row that is equal, so it has to be shown
that this is the row whose turn it is (`RemovesItsOwn`). That is so because
`pending` and `ready` keep the order of the table (`InOrder`), and because equal
rows are ready together (`EqualTogether`): the first pending one that is equal
is then a ready one, and the first of the ready ones is the head. That the row is
placed after a row it references needs `StillReady`: what was placed since the
round began took no row's turn. `RoundRefines` shows that when no row is ready the
pending rows are a set each of which waits.

`Disprove_proofs`, for all databases, ways to grow them and results of queries,
and every way generation may end: `TypeCorrect`, `ScratchIsDropped`,
`NeqIsWitnessed`, `EqIsEarned` and `SearchEndsAtFirst`. They follow from
`VerdictInvariant` (`VerdictsFollow`), because the callback overwrites what the
verdict is made of: between checks, `results` are those of the database shown
last (`ResultsOfShown`); a counterexample is the one database that told the
queries apart, and only the verdict comes after it (`Reported`); without doubts
every query judged so far has a database with rows on which they agreed
(`NoDoubts`, which reads `results` long after the check that wrote them, so it
needs `ResultsOfShown` and `InGeneration`); a scratch database exists exactly
from load to comparison (`Scratched`).

`StatementTimeout_proofs`, for any number of statements: `TypeCorrect` and
`DisturbedByOverruns`. A statement can be stopped by a timer of any earlier one,
so the invariant follows the blame from thread to thread: a timer exists only for
a statement that entered its limit's block (`Started`); it expires, and goes on
to interrupt, only for one that overran (`Expired`); and where an interrupt is
pending, or has hit, either the current statement is late itself or an earlier
one overran (`Interrupted`, `Stopped`).

`SolverAnswers_proofs`, for any requirements, closure, and search or solver that is
right when it decides one component: `SatMeetsEverything`,
`UnsatRefutesEverything` and `NoHalfSolution`, the argument why components may be
solved one by one. A requirement is met or not by the values of its own inputs, so
the invariant says that a requirement which is in no component still waiting is met
by what was found so far (`Settled`), that the components share no inputs (`Apart`),
so values for the next one leave it met (`MeetsIsLocal`, `SolveKeeps`), and that
until components are formed nothing was found (`Answered`). In the other direction,
values that met all requirements would, restricted to the inputs of the component
that has none, meet that one (`Restriction`, `PartRefutes`). The language of
predicates is a constant, so the theorems hold whatever terms there are;
`Solving`, whose predicates are terms, implements the module through
`ComponentSearch`.

`SearchImplementsAnswers`, in the same module: every step of `ComponentSearch` is
one that `SolverAnswers` allows, or a stutter (`StepAnswers`). The search and Z3
look at a component as if nothing had been found yet, and the values they come to
are laid over those of other components; that they meet the component there needs
`Fresh`, that no component left has values already, which needs `Apart`. That an
exhausted search refutes needs `Admits`: until a picked value fails, every solution
is among the values still admitted. That a check without models refutes needs the
known alternatives to be all there are (`NoModels`), as `Refutable` says.
`AbsentIfPossible` is what holds of the preferences for every choice of cores
(`KeptIfPossible`): if some model keeps them all, none is released (`KeepsAll`), so
Z3's values keep them. "As many preferences as the constraints allow" is more than
that, and more than the code ensures (see above).

Assumptions are those named in the modules: outcomes are numbered, a relation's
rows have a home, appended rows lead to databases and a database with rows stays
one, a speculated database is empty or productive, what a solution of a solver
that decides says its rows reach is reached when they are executed, a target
involves relations of the schema, the limit is positive, a row
needs rows only of relations that its own references, a table that is ordered
has a link, an error is no list of rows and None nothing else; TLC evaluates
each in the runs.

Model-checked only:

- `Ends`, `EveryStatementEnds`, `SolvingEnds` and each `EndsRight`, because TLAPS
  does not prove liveness under fairness.
- `Exhausted`. It is not a consequence of the loop for every query: what a stale
  comparison of demands gives up (`GenerationStaleDemand`) may be coverable, so
  it holds for queries whose demands do not meet that, with an exact solver and
  bounds large enough for every demand. What the loop does ensure for every
  query is `GivesUpWithReason`.
- The properties of `Queries` and `Solving`. Their terms are trees that RECURSIVE
  operators walk: what these compute for every term is an induction over data,
  which the installed provers cannot instantiate. That `Solving` implements
  `ComponentSearch` therefore rests on TLC, for the problems of `MCSolving`; that
  this implements `SolverAnswers`, and what follows from it, is proved.
  `IntegrityExact` is about terms alone.

## What is not modelled

- Parsing, qualification and syntax normalisation: an external library's.
  Of the compiler: window functions, type inference and casts, LIKE, text, dates
  and decimals, USING and NATURAL joins, predicates over BOOLEAN columns.
- Of the machine: window functions and nested windows over known positions,
  STDDEV and its kin, the caches, and the deadline, which `Generation` has.
- Of solving: text, its collation and LIKE, NULLS NOT DISTINCT, limits of text
  and decimals, time shares and seeds. How many steps normalising takes
  (`NORMALIZED`) is a choice (`SkipSearch`).
- The encoding into Z3 (`smt/translate.py`): its theories of strings, reals and
  dates are out of TLC's reach; `Solving` takes it with Z3 as one external solver,
  and `Generation` does not rely on its answers.
- Speculation: which row its repair loop changes and to what depends on samples and
  hints. `Generation` takes any database that is empty or has output (`Seeds`).
- The catalog and DDL: one pass that builds declarations. Creation order is
  `Topological`; that names are folded before it, and that two tables of one name in
  two schemas are one node (`db_manager.py:225`), is not modelled.
- The PostgreSQL and MySQL statement limits are the servers'. `instantiate_db` is
  one call of `generate` followed by one load. `Sites` numbers paths, which the
  model uses as they are. The benchmark scripts are drivers.

## Plan

1. Done: `DatabaseVersions`, `Generation`, `Disprove` (composed with
   `DatabaseVersions`), `StatementTimeout`, `Coverage`, with proofs for
   `Generation` and `Coverage`.
2. Done: `ReferencesFirst`, `Topological`, `ParentsFirst`, `Load` (composed with
   `ReferencesFirst`), with proofs for `Topological` and `Load`.
3. Done: `Terms`, `Lowering`, `Normalize`, `Valuation`, `Machine`, `Execution`,
   `Compiler`, with the references `Meaning` and `SqlMeaning`, in `Queries`.
4. Done: `Integrity`, `Search`, `Solving`.
5. Done: the safety invariants of `Disprove`, `OnlyOverrunsDisturb`,
   `OrdersReferencesFirst` of `ParentsFirst`; `SolverAnswers` and what
   follows from it, `ComponentSearch`, which implements it, and `Solving`, which
   implements that; what generation gives up and why it
   ends (`GivenUpWithReason`, `Advances`).
6. The folding of names in `_creation_order`; window functions.
