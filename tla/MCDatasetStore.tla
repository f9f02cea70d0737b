---------------------------- MODULE MCDatasetStore ----------------------------
(* DatasetStore on a small instance for TLC: one split and three of them,  *)
(* training on the least and on nearly all of the dates.  The requests are *)
(* interchangeable, and no property is a liveness property.                *)
EXTENDS DatasetStore, TLC

MCConfigs == {[splits |-> 1, num |-> 7, den |-> 10], [splits |-> 2, num |-> 9, den |-> 10]}

Symmetry == Permutations(Requests)
=============================================================================
