---------------------------- MODULE MCCInterface ----------------------------
(* Two threads of the host call the C interface of one runtime with two    *)
(* handles; one call into Xray may panic.                                  *)
EXTENDS CInterface, TLC
MCControllers == Runtimes \X (1..MaxHandle)
MCSymmetry == Permutations(Insts) \cup Permutations(Threads)
=============================================================================
