----------------------------- MODULE MCMarketData -----------------------------
(* MarketData on a small instance for TLC: a file that is longer than what *)
(* is expected of its table, so that --resume may skip it half loaded, and *)
(* one that is not.                                                        *)
(* Symbols and requests are interchangeable, and no property is a liveness *)
(* property.                                                               *)
EXTENDS MarketData, TLC

MCSize     == <<2, 1>>
MCExpected == <<1, 1>>

Symmetry == Permutations(Symbols) \cup Permutations(Requests)
=============================================================================
