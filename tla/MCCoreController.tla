-------------------------- MODULE MCCoreController --------------------------
(* Small instances of CoreController.                                      *)
EXTENDS CoreController, TLC

(* Instance identities are interchangeable.                                *)
InstSymmetry == Permutations(Insts)
=============================================================================
