--------------------------- MODULE MCTrafficStats ---------------------------
(* A small instance of TrafficStats.                                       *)
EXTENDS TrafficStats, TLC

(* Host threads are interchangeable.                                       *)
CallerSymmetry == Permutations(Callers)
=============================================================================
