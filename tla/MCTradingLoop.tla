---------------------------- MODULE MCTradingLoop ----------------------------
(* TradingLoop on a small instance for TLC. *)
EXTENDS TradingLoop
=============================================================================
