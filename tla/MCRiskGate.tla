----------------------------- MODULE MCRiskGate -----------------------------
(* RiskGate on a small instance for TLC: cron runs are interchangeable.     *)
EXTENDS RiskGate, TLC

CONSTANTS r1, r2

MCSymmetry == Permutations({r1, r2})
=============================================================================
