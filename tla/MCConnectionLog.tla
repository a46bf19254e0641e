-------------------------- MODULE MCConnectionLog --------------------------
(* A small instance of ConnectionLog.                                      *)
EXTENDS ConnectionLog, TLC

(* Connection ids are interchangeable.                                     *)
LogSymmetry == Permutations(Ids)
=============================================================================
