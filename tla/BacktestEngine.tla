---------------------------- MODULE BacktestEngine ----------------------------
(***************************************************************************)
(* backtest/engine.py, and the loop of run_backtest_task in                *)
(* backtest/main.py that runs it for one symbol after the other.           *)
(*                                                                         *)
(* A row is its index.  Returns, costs and the measures computed of them   *)
(* are left out: kept are which return a decision earns, what is counted,  *)
(* and how often the random generator was drawn from.                      *)
(*                                                                         *)
(* Operators named Mutant... are slips of the definition that follows them *)
(* and are used by no definition.                                          *)
(***************************************************************************)
EXTENDS Integers

CONSTANTS NTested, \* symbols of a report
          MaxBars  \* bound on the rows of a symbol

ASSUME EngineAssumption == NTested \in Nat /\ MaxBars \in Nat

VARIABLES task,   \* run_backtest_task: the symbol it is at, how many have
                  \* measures, were answered {} and were passed over (the
                  \* code keeps a list of the first two, none of the third)
          engine, \* BacktestEngine: whether it has a seed, draws from its rng
          run,    \* one call of run
          earned  \* the latest return: its row, and the one it was decided on

engineVars == <<task, engine, run, earned>>

EngineTypes ==
    /\ task \in [pc : {"idle", "next", "running", "completed", "failed"},
                 symbol : 1 .. NTested + 1, scored : Nat, blank : Nat, skipped : Nat]
    /\ engine \in [seeded : BOOLEAN, random : BOOLEAN, rng : Nat]
    /\ run \in [rows : Nat, bar : Nat, position : {-1, 0, 1},
                changes : Nat, units : Nat, carries : Nat]
    /\ earned \in [row : Int, decided : Int]

NoTask == [pc |-> "idle", symbol |-> 1, scored |-> 0, blank |-> 0, skipped |-> 0]
NewRun(n) == [rows |-> n, bar |-> 0, position |-> 0, changes |-> 0, units |-> 0, carries |-> 0]
NoEarned  == [row |-> -1, decided |-> -1]

EngineInit ==
    /\ task = NoTask
    /\ engine = [seeded |-> FALSE, random |-> FALSE, rng |-> 0]
    /\ run = NewRun(0)
    /\ earned = NoEarned

-----------------------------------------------------------------------------
\* The policy is one that draws from the engine's generator (make_random_policy)
\* or one that does not.
StartTask(seeded, random) ==
    /\ task.pc = "idle"
    /\ task' = [task EXCEPT !.pc = "next"]
    /\ engine' = [seeded |-> seeded, random |-> random, rng |-> 0]
    /\ UNCHANGED <<run, earned>>

\* The symbol has fewer than 22 rows, and the report does not tell.
SkipSymbol ==
    /\ task.pc = "next" /\ task.symbol <= NTested
    /\ task' = [task EXCEPT !.symbol = @ + 1, !.skipped = @ + 1]
    /\ UNCHANGED <<engine, run, earned>>

\* The generator is left as the run before left it.
MutantBeginRun(n) ==
    /\ task.pc = "next" /\ task.symbol <= NTested
    /\ run' = NewRun(n)
    /\ task' = IF n < 2
               THEN [task EXCEPT !.symbol = @ + 1, !.blank = @ + 1]
               ELSE [task EXCEPT !.pc = "running"]
    /\ earned' = NoEarned
    /\ UNCHANGED engine

\* run, up to its loop: n rows are left once the incomplete ones are dropped.
BeginRun(n) ==
    /\ task.pc = "next" /\ task.symbol <= NTested
    /\ engine' = IF engine.seeded THEN [engine EXCEPT !.rng = 0] ELSE engine
    /\ run' = NewRun(n)
    /\ task' = IF n < 2
               THEN [task EXCEPT !.symbol = @ + 1, !.blank = @ + 1]
               ELSE [task EXCEPT !.pc = "running"]
    /\ earned' = NoEarned

Distance(a, b) == IF a < b THEN b - a ELSE a - b

\* Every trade is one unit.
MutantCount(r, new) ==
    [r EXCEPT !.bar = @ + 1, !.position = new,
              !.changes = IF new # r.position THEN @ + 1 ELSE @,
              !.units = IF new # r.position THEN @ + 1 ELSE @,
              !.carries = IF new = r.position THEN @ + 1 ELSE @]

Count(r, new) ==
    [r EXCEPT !.bar = @ + 1, !.position = new,
              !.changes = IF new # r.position THEN @ + 1 ELSE @,
              !.units = @ + Distance(new, r.position),
              !.carries = IF new = r.position THEN @ + 1 ELSE @]

\* The action is the position.
MutantDecidePosition(action) ==
    /\ task.pc = "running" /\ run.bar < run.rows - 1
    /\ engine' = IF engine.random THEN [engine EXCEPT !.rng = @ + 1] ELSE engine
    /\ run' = Count(run, action)
    /\ earned' = [row |-> run.bar + 1, decided |-> run.bar]
    /\ UNCHANGED task

\* A decision earns the return of the row it is decided on.
MutantDecide(action) ==
    /\ task.pc = "running" /\ run.bar < run.rows - 1
    /\ engine' = IF engine.random THEN [engine EXCEPT !.rng = @ + 1] ELSE engine
    /\ run' = Count(run, action - 1)
    /\ earned' = [row |-> run.bar, decided |-> run.bar]
    /\ UNCHANGED task

\* One bar: the policy sees the row and what it decides earns the next return.
Decide(action) ==
    /\ task.pc = "running" /\ run.bar < run.rows - 1
    /\ engine' = IF engine.random THEN [engine EXCEPT !.rng = @ + 1] ELSE engine
    /\ run' = Count(run, action - 1)
    /\ earned' = [row |-> run.bar + 1, decided |-> run.bar]
    /\ UNCHANGED task

EndRun ==
    /\ task.pc = "running" /\ run.bar = run.rows - 1
    /\ task' = [task EXCEPT !.pc = "next", !.symbol = @ + 1, !.scored = @ + 1]
    /\ UNCHANGED <<engine, run, earned>>

\* The policy raises or answers something else than an action, or a time
\* occurs twice: the whole report fails.
RunRaises ==
    /\ task.pc = "running"
    /\ task' = [task EXCEPT !.pc = "failed"]
    /\ UNCHANGED <<engine, run, earned>>

\* The measures are averaged over the symbols that were not passed over; of a
\* symbol that was answered {} they are missing, which raises.
Aggregate ==
    /\ task.pc = "next" /\ task.symbol = NTested + 1
    /\ task' = [task EXCEPT !.pc = IF task.scored > 0 /\ task.blank = 0
                                   THEN "completed" ELSE "failed"]
    /\ UNCHANGED <<engine, run, earned>>

EndTask ==
    /\ task.pc \in {"completed", "failed"}
    /\ task' = NoTask
    /\ engine' = [seeded |-> FALSE, random |-> FALSE, rng |-> 0]
    /\ run' = NewRun(0)
    /\ earned' = NoEarned

EngineStep ==
    \/ \E seeded, random \in BOOLEAN : StartTask(seeded, random)
    \/ SkipSymbol \/ EndRun \/ RunRaises \/ Aggregate \/ EndTask
    \/ \E n \in 0 .. MaxBars : BeginRun(n)
    \/ \E action \in 0 .. 2 : Decide(action)

-----------------------------------------------------------------------------
(* Properties                                                              *)

\* What is earned was decided on the row before.
TestedWithoutLookAhead == run.bar > 0 => earned.decided = earned.row - 1 /\ earned.row < run.rows

\* totalPositionChanges, totalTradeUnits and the bars that carry cost is
\* charged on agree with each other and with the position they lead to.
BooksBalance ==
    /\ run.changes + run.carries = run.bar
    /\ run.changes <= run.units /\ run.units <= 2 * run.changes
    /\ run.position <= run.units /\ -run.position <= run.units
    /\ (run.units - run.position) % 2 = 0
    /\ task.pc = "running" => run.bar < run.rows

\* With a seed, a policy that draws from the generator draws the same at the
\* same bar of every run, whichever symbols were run before.
Reproducible ==
    task.pc = "running" /\ engine.seeded /\ engine.random => engine.rng = run.bar
=============================================================================
