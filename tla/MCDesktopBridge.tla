--------------------------- MODULE MCDesktopBridge ---------------------------
(* Small instances of DesktopBridge.                                       *)
EXTENDS DesktopBridge, TLC

(* Every handle of every runtime is a controller.                          *)
MCControllers == Runtimes \X (1..MaxHandle)

(* Instance identities, host threads and runtimes are interchangeable.     *)
MCSymmetry == Permutations(Insts) \cup Permutations(Threads) \cup Permutations(Runtimes)
=============================================================================
