------------------------------- MODULE Episodes -------------------------------
(***************************************************************************)
(* What a policy is trained in (TradingEnv) and what it is tested in       *)
(* (BacktestEngine): two accounts of how a decision is paid, kept by two   *)
(* services.  They share no state, so that one at a time shows all that    *)
(* each can do.                                                            *)
(***************************************************************************)
EXTENDS TradingEnv, BacktestEngine

vars == <<envVars, engineVars>>

TypeOK == EnvTypes /\ EngineTypes

Init == EnvInit /\ EngineInit

Next ==
    \/ task.pc = "idle" /\ EnvStep /\ UNCHANGED engineVars
    \/ episode.pc = "none" /\ EngineStep /\ UNCHANGED envVars

Spec == Init /\ [][Next]_vars

-----------------------------------------------------------------------------
(* Properties                                                              *)

\* Neither account pays a decision with a return that was known when it was
\* taken.  A decision is paid with the second return after it in training, and
\* with the first in a backtest.
NoLookAhead == TrainedWithoutLookAhead /\ TestedWithoutLookAhead
=============================================================================
