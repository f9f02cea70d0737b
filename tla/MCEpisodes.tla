------------------------------ MODULE MCEpisodes ------------------------------
(* Episodes on a small instance for TLC: rows enough for a held-out        *)
(* portion that is longer than an episode, and for one that is not.        *)
EXTENDS Episodes

MCRatios == {[num |-> 1, den |-> 1], [num |-> 1, den |-> 2], [num |-> 3, den |-> 4]}
=============================================================================
