------------------------------ MODULE MCOrders ------------------------------
(* Orders on a small instance for TLC: the slots and the broker's order ids *)
(* are interchangeable.                                                     *)
EXTENDS Orders, TLC

CONSTANTS s1, s2, s3, c1, c2, i1, i2

MCSymmetry ==
    Permutations({s1, s2, s3}) \cup Permutations({c1, c2}) \cup Permutations({i1, i2})
=============================================================================
