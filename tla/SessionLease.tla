---------------------------- MODULE SessionLease ----------------------------
(***************************************************************************)
(* What the desktop bridge promises about core sessions, whatever threads, *)
(* runtimes and handles are involved: at any time there is at most one     *)
(* session in the process; while it lasts its owner, the TUN descriptor it *)
(* sees and the asset directory it reads stay what they were when it       *)
(* began; and the next one begins only after it has ended.                 *)
(***************************************************************************)
CONSTANTS
  Owners,       \* who may own a session
  Descriptors,  \* the descriptors a session may see, "none" included
  Assets,       \* the asset directories
  NoSession

VARIABLE session

leaseVars == session

LeaseInit == session = NoSession

Begin(o, fd, dir) ==
  /\ session = NoSession
  /\ session' = [owner |-> o, fd |-> fd, assets |-> dir]

End ==
  /\ session # NoSession
  /\ session' = NoSession

LeaseNext ==
  \/ \E o \in Owners, fd \in Descriptors, dir \in Assets : Begin(o, fd, dir)
  \/ End

LeaseSpec == LeaseInit /\ [][LeaseNext]_leaseVars
=============================================================================
