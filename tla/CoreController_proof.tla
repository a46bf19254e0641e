------------------------ MODULE CoreController_proof ------------------------
(***************************************************************************)
(* The controllers are type-correct and never leave a stale TUN descriptor *)
(* published, for every number of controllers, probes and descriptors; and *)
(* the GC pause that their starts share is correct for any overlap.        *)
(***************************************************************************)
EXTENDS CoreController, FiniteSetTheorems, TLAPS

USE NoInstNotInst, NoFdNotFd

(* Every step of the process keeps its state well typed.                   *)
LEMMA TypeInit == CoreInit => CoreTypeOK
BY SteadyPercentNat
DEF CoreInit, CoreTypeOK, Phases, ProbePcs, Handlers, GC!GcInit, GC!GcTypeOK

LEMMA TypeNext == CoreTypeOK /\ [CoreNext]_coreVars => CoreTypeOK'
<1> SUFFICES ASSUME CoreTypeOK, [CoreNext]_coreVars PROVE CoreTypeOK' OBVIOUS
<1> USE DEF CoreTypeOK, Phases, ProbePcs, Handlers, GC!GcTypeOK, Goto, callVars, fieldVars,
            logVars, fdVars, instVars, probeVars, gcVars, XrayHandler, SessionHandler
<1>1. ASSUME NEW fd \in Fds, OpenFd(fd) PROVE CoreTypeOK'
  BY <1>1 DEF OpenFd
<1>2. ASSUME NEW fd \in Fds, CloseFd(fd) PROVE CoreTypeOK'
  BY <1>2 DEF CloseFd
<1>3. ASSUME NEW c \in Controllers, NEW fd \in Fds \cup {NoFd}, StartLoop(c, fd)
      PROVE  CoreTypeOK'
  BY <1>3 DEF StartLoop, GC!pauseGCForStartup, GC!GcOff
<1>4. ASSUME NEW c \in Controllers, StopLoop(c) PROVE CoreTypeOK'
  BY <1>4 DEF StopLoop
<1>5. ASSUME NEW c \in Controllers, CallStep(c) PROVE CoreTypeOK'
  <2>1. CASE LoadJSONConfig(c)  BY <2>1 DEF LoadJSONConfig
  <2>2. CASE PublishTunFd(c)    BY <2>2 DEF PublishTunFd
  <2>3. CASE CoreNew(c)         BY <2>3 DEF CoreNew
  <2>4. CASE InstallStore(c)    BY <2>4 DEF InstallStore
  <2>5. CASE InstallRegister(c) BY <2>5 DEF InstallRegister
  <2>6. CASE ServerStart(c)
    <3>1. isRunning' \in [Controllers -> BOOLEAN]
      BY <2>6, Zenon DEF ServerStart
    <3> QED BY <2>6, <3>1 DEF ServerStart
  <2>7. CASE CloseServer(c)     BY <2>7 DEF CloseServer
  <2>8. CASE ForgetLoad(c)      BY <2>8 DEF ForgetLoad
  <2>9. CASE ForgetStore(c)     BY <2>9 DEF ForgetStore
  <2>10. CASE Unpublish(c)      BY <2>10 DEF Unpublish
  <2>11. CASE Return(c)         BY <2>11 DEF Return, GC!Restore, GC!gcVars
  <2> QED BY <1>5, <2>1, <2>2, <2>3, <2>4, <2>5, <2>6, <2>7, <2>8, <2>9, <2>10, <2>11
          DEF CallStep
<1>6. ASSUME NEW p \in Probes, ProbeStep(p) PROVE CoreTypeOK'
  <2>1. CASE ProbeNew(p)        BY <2>1 DEF ProbeNew
  <2>2. CASE RestoreLoad(p)     BY <2>2 DEF RestoreLoad
  <2>3. CASE RestoreRegister(p) BY <2>3 DEF RestoreRegister
  <2>4. CASE ProbeStart(p)      BY <2>4 DEF ProbeStart
  <2>5. CASE ProbeClose(p)      BY <2>5 DEF ProbeClose
  <2> QED BY <1>6, <2>1, <2>2, <2>3, <2>4, <2>5 DEF ProbeStep
<1>7. CASE UNCHANGED coreVars
  BY <1>7 DEF coreVars
<1> QED BY <1>1, <1>2, <1>3, <1>4, <1>5, <1>6, <1>7 DEF CoreNext, HostStep

(* The controllers, the probes and the process-wide state keep their types.*)
THEOREM CoreTypeCorrect == CoreSpec => []CoreTypeOK
BY TypeInit, TypeNext, PTL DEF CoreSpec

-----------------------------------------------------------------------------
(* The phase of a call tells which call it is and what isRunning says.     *)
LEMMA PhaseNext == CoreTypeOK /\ PhaseTellsCall /\ [CoreNext]_coreVars => PhaseTellsCall'
<1> SUFFICES ASSUME CoreTypeOK, PhaseTellsCall, [CoreNext]_coreVars PROVE PhaseTellsCall'
  OBVIOUS
<1>t. /\ op \in [Controllers -> {"none", "start", "stop"}]
      /\ phase \in [Controllers -> Phases]
      /\ isRunning \in [Controllers -> BOOLEAN]
  BY DEF CoreTypeOK
<1> USE <1>t DEF PhaseTellsCall, Phases, Goto, callVars, fieldVars
<1>1. ASSUME NEW c \in Controllers, NEW fd \in Fds \cup {NoFd}, StartLoop(c, fd)
      PROVE  PhaseTellsCall'
  BY <1>1 DEF StartLoop
<1>2. ASSUME NEW c \in Controllers, StopLoop(c) PROVE PhaseTellsCall'
  BY <1>2 DEF StopLoop
<1>3. ASSUME NEW c \in Controllers, CallStep(c) PROVE PhaseTellsCall'
  BY <1>3
  DEF CallStep, LoadJSONConfig, PublishTunFd, CoreNew, InstallStore, InstallRegister,
      ServerStart, CloseServer, ForgetLoad, ForgetStore, Unpublish, Return
<1>4. CASE HostStep \/ \E p \in Probes : ProbeStep(p)
  <2>1. UNCHANGED <<op, phase, isRunning>>
    BY <1>4
    DEF HostStep, OpenFd, CloseFd, ProbeStep, ProbeNew, RestoreLoad, RestoreRegister,
        ProbeStart, ProbeClose
  <2> QED BY <2>1
<1>5. CASE UNCHANGED coreVars
  BY <1>5 DEF coreVars
<1> QED BY <1>1, <1>2, <1>3, <1>4, <1>5 DEF CoreNext

-----------------------------------------------------------------------------
(* The descriptor invariant holds initially ...                            *)
LEMMA FdInit == CoreInit => FdInv
BY TypeInit DEF CoreInit, FdInv, PhaseTellsCall, BorrowedFds, NotPublished, PublishedFdIsLive

(* ... and every step keeps it.  The interesting steps are the ones that   *)
(* write the environment, and the return of a call, which hands its        *)
(* descriptor back.                                                        *)
LEMMA FdNext == FdInv /\ [CoreNext]_coreVars => FdInv'
<1> SUFFICES ASSUME FdInv, [CoreNext]_coreVars PROVE FdInv' OBVIOUS
<1>0. CoreTypeOK' /\ PhaseTellsCall' BY TypeNext, PhaseNext DEF FdInv
<1> DEFINE Rest == BorrowedFds /\ NotPublished /\ PublishedFdIsLive
<1> SUFFICES Rest' BY <1>0 DEF FdInv
<1>t. /\ op \in [Controllers -> {"none", "start", "stop"}]
      /\ phase \in [Controllers -> Phases]
      /\ lentFd \in [Controllers -> Fds \cup {NoFd}]
      /\ isRunning \in [Controllers -> BOOLEAN]
      /\ PhaseTellsCall /\ Rest
  BY DEF FdInv, CoreTypeOK
<1> USE <1>t DEF PhaseTellsCall, BorrowedFds, NotPublished, PublishedFdIsLive, Phases,
                 Goto, callVars, fieldVars, fdVars
<1>1. ASSUME NEW fd \in Fds, OpenFd(fd) PROVE Rest'
  BY <1>1 DEF OpenFd
<1>2. ASSUME NEW fd \in Fds, CloseFd(fd) PROVE Rest'
  BY <1>2 DEF CloseFd
<1>3. ASSUME NEW c \in Controllers, NEW fd \in Fds \cup {NoFd}, StartLoop(c, fd)
      PROVE  Rest'
  BY <1>3 DEF StartLoop
<1>4. ASSUME NEW c \in Controllers, StopLoop(c) PROVE Rest'
  BY <1>4 DEF StopLoop
<1>5. ASSUME NEW c \in Controllers, CallStep(c) PROVE Rest'
  <2>1. CASE LoadJSONConfig(c)  BY <2>1 DEF LoadJSONConfig
  <2>2. CASE PublishTunFd(c)    BY <2>2 DEF PublishTunFd
  <2>3. CASE CoreNew(c)         BY <2>3 DEF CoreNew
  <2>4. CASE InstallStore(c)    BY <2>4 DEF InstallStore
  <2>5. CASE InstallRegister(c) BY <2>5 DEF InstallRegister
  <2>6. CASE ServerStart(c)     BY <2>6 DEF ServerStart
  <2>7. CASE CloseServer(c)     BY <2>7 DEF CloseServer
  <2>8. CASE ForgetLoad(c)      BY <2>8 DEF ForgetLoad
  <2>9. CASE ForgetStore(c)     BY <2>9 DEF ForgetStore
  <2>10. CASE Unpublish(c)      BY <2>10 DEF Unpublish
  <2>11. CASE Return(c)         BY <2>11 DEF Return
  <2> QED BY <1>5, <2>1, <2>2, <2>3, <2>4, <2>5, <2>6, <2>7, <2>8, <2>9, <2>10, <2>11
          DEF CallStep
<1>6. ASSUME NEW p \in Probes, ProbeStep(p) PROVE Rest'
  <2>1. UNCHANGED <<callVars, fieldVars, fdVars>>
    BY <1>6 DEF ProbeStep, ProbeNew, RestoreLoad, RestoreRegister, ProbeStart, ProbeClose
  <2> QED BY <2>1
<1>7. CASE UNCHANGED coreVars
  BY <1>7 DEF coreVars
<1> QED BY <1>1, <1>2, <1>3, <1>4, <1>5, <1>6, <1>7 DEF CoreNext, HostStep

(* With any number of controllers starting, failing and stopping at the    *)
(* same time, the descriptor in the environment is open and borrowed.      *)
THEOREM NeverStaleFd == CoreSpec => []PublishedFdIsLive
<1>1. FdInv => PublishedFdIsLive BY DEF FdInv
<1> QED BY <1>1, FdInit, FdNext, PTL DEF CoreSpec

-----------------------------------------------------------------------------
(* The ownership invariant holds initially ...                             *)
LEMMA OwnerInit == CoreInit => OwnerInv
BY TypeInit
DEF CoreInit, OwnerInv, PhaseTellsCall, OneOwner, CallOwnsServer, FieldsDuringCalls,
    ForgottenInTime, NoInstanceLeak, ActiveLogIsLive

(* ... and every step keeps it.                                            *)
LEMMA OwnerNext == OwnerInv /\ [CoreNext]_coreVars => OwnerInv'
<1> SUFFICES ASSUME OwnerInv, [CoreNext]_coreVars PROVE OwnerInv' OBVIOUS
<1>0. CoreTypeOK' /\ PhaseTellsCall' BY TypeNext, PhaseNext DEF OwnerInv
<1> DEFINE Rest == /\ OneOwner /\ CallOwnsServer /\ FieldsDuringCalls
                   /\ ForgottenInTime /\ NoInstanceLeak /\ ActiveLogIsLive
<1> SUFFICES Rest' BY <1>0 DEF OwnerInv
<1>t. CoreTypeOK /\ PhaseTellsCall /\ Rest
  BY DEF OwnerInv
<1> USE <1>t DEF CoreTypeOK, PhaseTellsCall, OneOwner, CallOwnsServer, FieldsDuringCalls,
                 ForgottenInTime, NoInstanceLeak, ActiveLogIsLive, Phases, ProbePcs,
                 Goto, callVars, fieldVars, logVars, fdVars, instVars, probeVars
<1>1. ASSUME NEW fd \in Fds, OpenFd(fd) PROVE Rest'
  BY <1>1 DEF OpenFd
<1>2. ASSUME NEW fd \in Fds, CloseFd(fd) PROVE Rest'
  BY <1>2 DEF CloseFd
<1>3. ASSUME NEW c \in Controllers, NEW fd \in Fds \cup {NoFd}, StartLoop(c, fd)
      PROVE  Rest'
  BY <1>3 DEF StartLoop
<1>4. ASSUME NEW c \in Controllers, StopLoop(c) PROVE Rest'
  BY <1>4 DEF StopLoop
<1>5. ASSUME NEW c \in Controllers, CallStep(c) PROVE Rest'
  <2>1. CASE LoadJSONConfig(c)
    <3>1. FieldsDuringCalls' /\ CallOwnsServer'
      BY <2>1 DEF LoadJSONConfig
    <3>2. OneOwner' /\ ForgottenInTime'
      BY <2>1 DEF LoadJSONConfig
    <3>3. NoInstanceLeak' /\ ActiveLogIsLive'
      BY <2>1 DEF LoadJSONConfig
    <3> QED BY <3>1, <3>2, <3>3
  <2>2. CASE PublishTunFd(c)    BY <2>2 DEF PublishTunFd
  <2>3. CASE CoreNew(c)
    <3>1. FieldsDuringCalls' /\ CallOwnsServer'
      BY <2>3 DEF CoreNew, InUse
    <3>2. OneOwner' /\ ForgottenInTime'
      BY <2>3 DEF CoreNew, InUse
    <3>3. NoInstanceLeak' /\ ActiveLogIsLive'
      BY <2>3 DEF CoreNew, InUse
    <3> QED BY <3>1, <3>2, <3>3
  <2>4. CASE InstallStore(c)    BY <2>4 DEF InstallStore
  <2>5. CASE InstallRegister(c) BY <2>5 DEF InstallRegister
  <2>6. CASE ServerStart(c)
    <3>1. FieldsDuringCalls' /\ CallOwnsServer'
      BY <2>6 DEF ServerStart
    <3>2. OneOwner' /\ ForgottenInTime'
      BY <2>6 DEF ServerStart
    <3>3. NoInstanceLeak'
      BY <2>6 DEF ServerStart
    <3>4. ActiveLogIsLive'
      BY <2>6 DEF ServerStart
    <3> QED BY <3>1, <3>2, <3>3, <3>4
  <2>7. CASE CloseServer(c)
    <3>1. FieldsDuringCalls' /\ CallOwnsServer'
      BY <2>7 DEF CloseServer
    <3>2. OneOwner' /\ ForgottenInTime'
      BY <2>7 DEF CloseServer
    <3>3. NoInstanceLeak' /\ ActiveLogIsLive'
      BY <2>7 DEF CloseServer
    <3> QED BY <3>1, <3>2, <3>3
  <2>8. CASE ForgetLoad(c)      BY <2>8 DEF ForgetLoad
  <2>9. CASE ForgetStore(c)     BY <2>9 DEF ForgetStore
  <2>10. CASE Unpublish(c)
    <3>1. FieldsDuringCalls' /\ CallOwnsServer'
      BY <2>10 DEF Unpublish
    <3>2. OneOwner' /\ ForgottenInTime'
      BY <2>10 DEF Unpublish
    <3>3. server[c] \notin alive /\ instance[c] \notin alive
      BY <2>10 DEF Unpublish
    <3>4. NoInstanceLeak'
      BY <2>10, <3>3 DEF Unpublish
    <3>5. ActiveLogIsLive'
      BY <2>10 DEF Unpublish
    <3> QED BY <3>1, <3>2, <3>4, <3>5
  <2>11. CASE Return(c)
    <3>1. FieldsDuringCalls' /\ CallOwnsServer'
      BY <2>11 DEF Return
    <3>2. OneOwner' /\ ForgottenInTime'
      BY <2>11 DEF Return
    <3>3. NoInstanceLeak'
      <4>1. server[c] \in alive => instance[c] = server[c] /\ isRunning[c]
        BY <2>11 DEF Return
      <4>2. ASSUME NEW i \in alive
            PROVE  \/ \E d \in Controllers : instance[d] = i /\ isRunning[d]
                   \/ \E d \in Controllers \ {c} : server[d] = i /\ op[d] # "none"
                   \/ \E p \in Probes : probeInst[p] = i
        BY <4>1
      <4> QED BY <2>11, <4>2 DEF Return
    <3>4. ActiveLogIsLive'
      BY <2>11 DEF Return
    <3> QED BY <3>1, <3>2, <3>3, <3>4
  <2> QED BY <1>5, <2>1, <2>2, <2>3, <2>4, <2>5, <2>6, <2>7, <2>8, <2>9, <2>10, <2>11
          DEF CallStep
<1>6. ASSUME NEW p \in Probes, ProbeStep(p) PROVE Rest'
  <2>1. CASE ProbeNew(p)
    <3>1. FieldsDuringCalls'
      BY <2>1 DEF ProbeNew, InUse
    <3>2. CallOwnsServer' /\ ForgottenInTime'
      BY <2>1 DEF ProbeNew, InUse
    <3>3. OneOwner'
      <4>1. CASE UNCHANGED <<probeInst, probePc>>
        BY <2>1, <4>1 DEF ProbeNew
      <4>2. CASE \E i \in Insts : /\ ~InUse(i)
                                  /\ probeInst' = [probeInst EXCEPT ![p] = i]
                                  /\ probePc' = [probePc EXCEPT ![p] = "load"]
        BY <2>1, <4>2 DEF ProbeNew, InUse
      <4> QED BY <2>1, <4>1, <4>2 DEF ProbeNew
    <3>4. NoInstanceLeak' /\ ActiveLogIsLive'
      BY <2>1 DEF ProbeNew, InUse
    <3> QED BY <3>1, <3>2, <3>3, <3>4
  <2>2. CASE RestoreLoad(p)     BY <2>2 DEF RestoreLoad
  <2>3. CASE RestoreRegister(p) BY <2>3 DEF RestoreRegister
  <2>4. CASE ProbeStart(p)      BY <2>4 DEF ProbeStart
  <2>5. CASE ProbeClose(p)      BY <2>5 DEF ProbeClose
  <2> QED BY <1>6, <2>1, <2>2, <2>3, <2>4, <2>5 DEF ProbeStep
<1>7. CASE UNCHANGED coreVars
  BY <1>7 DEF coreVars
<1> QED BY <1>1, <1>2, <1>3, <1>4, <1>5, <1>6, <1>7 DEF CoreNext, HostStep

(* Whatever fails and whatever overlaps, every Xray instance that was not  *)
(* closed has an owner that will close it.                                 *)
THEOREM NoLeak == CoreSpec => []NoInstanceLeak
<1>1. OwnerInv => NoInstanceLeak BY DEF OwnerInv
<1> QED BY <1>1, OwnerInit, OwnerNext, PTL DEF CoreSpec

(* Whenever c.mu is free, the fields of a controller agree with each other *)
(* and with what the host was told.                                        *)
THEOREM FieldsConsistent == CoreSpec => []FieldsAgree
<1>1. OwnerInv => FieldsAgree
  BY DEF OwnerInv, FieldsAgree, FieldsDuringCalls, CallOwnsServer, PhaseTellsCall
<1> QED BY <1>1, OwnerInit, OwnerNext, PTL DEF CoreSpec

(* The remembered connection log never outlives its session.               *)
THEOREM ActiveLogLive == CoreSpec => []ActiveLogIsLive
<1>1. OwnerInv => ActiveLogIsLive BY DEF OwnerInv
<1> QED BY <1>1, OwnerInit, OwnerNext, PTL DEF CoreSpec

-----------------------------------------------------------------------------
(* The GC pause on its own, for any overlapping starts of the controllers. *)

LEMMA GcCounts == ASSUME NEW S PROVE GC!Cardinality(S) = Cardinality(S)
BY DEF GC!Cardinality, Cardinality

LEMMA GcArmedFinite == IsFiniteSet(GC!GcArmed)
BY ControllersFinite, FS_Subset DEF GC!GcArmed

(* Arming a closure that was not armed adds one holder.                    *)
LEMMA ArmCounts ==
  ASSUME GC!GcTypeOK, NEW s \in Controllers, restore[s] # "armed",
         restore' = [restore EXCEPT ![s] = "armed"]
  PROVE  /\ GC!GcArmed' = GC!GcArmed \cup {s}
         /\ Cardinality(GC!GcArmed') = Cardinality(GC!GcArmed) + 1
<1>1. GC!GcArmed' = GC!GcArmed \cup {s}
  BY DEF GC!GcArmed, GC!GcTypeOK
<1>2. s \notin GC!GcArmed
  BY DEF GC!GcArmed
<1> QED BY <1>1, <1>2, GcArmedFinite, FS_AddElement

(* Firing an armed closure removes one holder.                             *)
LEMMA DisarmCounts ==
  ASSUME GC!GcTypeOK, NEW s \in Controllers, restore[s] = "armed",
         restore' = [restore EXCEPT ![s] = "done"]
  PROVE  /\ GC!GcArmed' = GC!GcArmed \ {s}
         /\ Cardinality(GC!GcArmed') = Cardinality(GC!GcArmed) - 1
<1>1. GC!GcArmed' = GC!GcArmed \ {s}
  BY DEF GC!GcArmed, GC!GcTypeOK
<1>2. s \in GC!GcArmed
  BY DEF GC!GcArmed
<1> QED BY <1>1, <1>2, GcArmedFinite, FS_RemoveElement

(* No armed closure means a count of zero, and conversely.                 *)
LEMMA ArmedCount ==
  /\ Cardinality(GC!GcArmed) \in Nat
  /\ Cardinality(GC!GcArmed) = 0 <=> GC!GcArmed = {}
BY GcArmedFinite, FS_CardinalityType, FS_EmptySet

(* The holder count is the number of armed closures.                       *)
LEMMA HoldersAreArmed ==
  ASSUME GC!GcInv
  PROVE  gcPauseHolders = Cardinality(GC!GcArmed)
BY GcCounts DEF GC!GcInv

(* The invariant holds initially.                                          *)
LEMMA GcInvInit == GC!GcInit => GC!GcInv
<1> SUFFICES ASSUME GC!GcInit PROVE GC!GcInv OBVIOUS
<1>1. GC!GcArmed = {} BY DEF GC!GcInit, GC!GcArmed
<1>2. Cardinality(GC!GcArmed) = 0 BY <1>1, FS_EmptySet
<1>3. GC!Cardinality(GC!GcArmed) = 0 BY <1>2, GcCounts
<1> QED
  BY <1>1, <1>3, SteadyPercentNat
  DEF GC!GcInit, GC!GcInv, GC!GcTypeOK, GC!GcOffWhileStarting, GC!GcSteadyWhenQuiet

(* Both operations, and stuttering, preserve the invariant.                *)
LEMMA GcInvNext == GC!GcInv /\ [GC!GcNext]_gcVars => GC!GcInv'
<1> SUFFICES ASSUME GC!GcInv, [GC!GcNext]_gcVars PROVE GC!GcInv' OBVIOUS
<1>0. SteadyPercent \in Nat /\ gcPauseHolders = Cardinality(GC!GcArmed)
  BY SteadyPercentNat, HoldersAreArmed
<1> USE <1>0 DEF GC!GcInv, GC!GcOffWhileStarting, GC!GcSteadyWhenQuiet, GC!GcOff
<1>c. GC!Cardinality(GC!GcArmed') = Cardinality(GC!GcArmed')
  BY GcCounts
<1>1. ASSUME NEW s \in Controllers, GC!pauseGCForStartup(s) PROVE GC!GcInv'
  <2>1. /\ GC!GcArmed' = GC!GcArmed \cup {s}
        /\ Cardinality(GC!GcArmed') = Cardinality(GC!GcArmed) + 1
    BY <1>1, ArmCounts DEF GC!pauseGCForStartup
  <2>2. GC!GcTypeOK'
    BY <1>1 DEF GC!pauseGCForStartup, GC!GcTypeOK
  <2>3. gcPausePrevious' = SteadyPercent /\ gcPercent' = -1
    BY <1>1, ArmedCount DEF GC!pauseGCForStartup, GC!GcTypeOK
  <2> QED BY <1>1, <1>c, <2>1, <2>2, <2>3 DEF GC!pauseGCForStartup
<1>2. ASSUME NEW s \in Controllers, GC!Restore(s) PROVE GC!GcInv'
  <2>1. CASE restore[s] = "armed"
    <3>1. /\ GC!GcArmed' = GC!GcArmed \ {s}
          /\ Cardinality(GC!GcArmed') = Cardinality(GC!GcArmed) - 1
      BY <1>2, <2>1, DisarmCounts DEF GC!Restore
    <3>2. GC!GcTypeOK'
      BY <1>2, <2>1 DEF GC!Restore, GC!GcTypeOK
    <3>3. IsFiniteSet(GC!GcArmed')
      BY <3>1, GcArmedFinite, FS_Subset
    <3>4. GC!GcArmed' = {} <=> gcPauseHolders' = 0
      BY <1>2, <2>1, <3>1, <3>3, FS_EmptySet DEF GC!Restore
    <3>5. gcPausePrevious = SteadyPercent /\ gcPercent = -1
      BY <2>1 DEF GC!GcArmed
    <3> QED BY <1>2, <1>c, <2>1, <3>1, <3>2, <3>4, <3>5 DEF GC!Restore
  <2>2. CASE restore[s] # "armed"
    BY <1>2, <2>2 DEF GC!Restore, GC!gcVars, GC!GcTypeOK, GC!GcArmed
  <2> QED BY <2>1, <2>2
<1>3. CASE UNCHANGED gcVars
  BY <1>3 DEF gcVars, GC!GcTypeOK, GC!GcArmed
<1> QED BY <1>1, <1>2, <1>3 DEF GC!GcNext

(* However many starts overlap and however often their restore closures    *)
(* are called, the holder count is the number of starts under way and the  *)
(* saved percentage is the steady one (the inductive invariant).           *)
THEOREM GcPauseInvariant == GC!GcSpec => []GC!GcInv
<1> QED BY GcInvInit, GcInvNext, PTL DEF GC!GcSpec, GC!gcVars, gcVars

(* The collector stays off while any start is under way.                   *)
THEOREM GcStaysOff == GC!GcSpec => []GC!GcOffWhileStarting
<1>1. GC!GcInv => GC!GcOffWhileStarting BY DEF GC!GcInv
<1> QED BY <1>1, GcPauseInvariant, PTL

(* After the last start the collector is back at the steady percentage.    *)
THEOREM GcComesBack == GC!GcSpec => []GC!GcSteadyWhenQuiet
<1>1. GC!GcInv => GC!GcSteadyWhenQuiet BY DEF GC!GcInv
<1> QED BY <1>1, GcPauseInvariant, PTL

-----------------------------------------------------------------------------
(* The controllers' use of the pause.                                      *)

(* Every step of a call is a step of the GC pause or leaves it alone.      *)
LEMMA GcStep == [CoreNext]_coreVars => [GC!GcNext]_gcVars
<1> SUFFICES ASSUME [CoreNext]_coreVars PROVE [GC!GcNext]_gcVars OBVIOUS
<1>1. ASSUME NEW c \in Controllers, NEW fd \in Fds \cup {NoFd}, StartLoop(c, fd)
      PROVE  GC!GcNext
  BY <1>1 DEF StartLoop, GC!GcNext
<1>2. ASSUME NEW c \in Controllers, Return(c) PROVE [GC!GcNext]_gcVars
  BY <1>2 DEF Return, GC!GcNext
<1>3. CASE /\ ~\E c \in Controllers, fd \in Fds \cup {NoFd} : StartLoop(c, fd)
           /\ ~\E c \in Controllers : Return(c)
  <2>1. UNCHANGED gcVars
    BY <1>3
    DEF CoreNext, HostStep, OpenFd, CloseFd, StopLoop, CallStep, LoadJSONConfig, PublishTunFd,
        CoreNew, InstallStore, InstallRegister, ServerStart, CloseServer, ForgetLoad,
        ForgetStore, Unpublish, ProbeStep, ProbeNew, RestoreLoad, RestoreRegister, ProbeStart,
        ProbeClose, coreVars
  <2> QED BY <2>1
<1> QED BY <1>1, <1>2, <1>3

(* A start holds the pause from its first step to its last.                *)
LEMMA GcHeldNext == GcHeldByStarts /\ [CoreNext]_coreVars => GcHeldByStarts'
<1> SUFFICES ASSUME GcHeldByStarts, [CoreNext]_coreVars PROVE GcHeldByStarts' OBVIOUS
<1>0. CoreTypeOK' /\ PhaseTellsCall' BY TypeNext, PhaseNext DEF GcHeldByStarts
<1> DEFINE Rest == \A c \in Controllers : op[c] = "start" <=> restore[c] = "armed"
<1> SUFFICES Rest' BY <1>0 DEF GcHeldByStarts
<1>t. /\ op \in [Controllers -> {"none", "start", "stop"}]
      /\ phase \in [Controllers -> Phases]
      /\ isRunning \in [Controllers -> BOOLEAN]
      /\ restore \in [Controllers -> {"none", "armed", "done"}]
      /\ PhaseTellsCall /\ Rest
  BY DEF GcHeldByStarts, CoreTypeOK, GC!GcTypeOK
<1> USE <1>t DEF PhaseTellsCall, Phases, Goto, callVars, fieldVars, gcVars
<1>1. ASSUME NEW c \in Controllers, NEW fd \in Fds \cup {NoFd}, StartLoop(c, fd)
      PROVE  Rest'
  BY <1>1 DEF StartLoop, GC!pauseGCForStartup
<1>2. ASSUME NEW c \in Controllers, StopLoop(c) PROVE Rest'
  BY <1>2 DEF StopLoop
<1>3. ASSUME NEW c \in Controllers, Return(c) PROVE Rest'
  BY <1>3 DEF Return, GC!Restore
<1>4. ASSUME NEW c \in Controllers, CallStep(c), ~Return(c) PROVE Rest'
  BY <1>4
  DEF CallStep, LoadJSONConfig, PublishTunFd, CoreNew, InstallStore, InstallRegister,
      ServerStart, CloseServer, ForgetLoad, ForgetStore, Unpublish
<1>5. CASE HostStep \/ \E p \in Probes : ProbeStep(p)
  <2>1. UNCHANGED <<op, phase, isRunning, restore>>
    BY <1>5
    DEF HostStep, OpenFd, CloseFd, ProbeStep, ProbeNew, RestoreLoad, RestoreRegister,
        ProbeStart, ProbeClose
  <2> QED BY <2>1
<1>6. CASE UNCHANGED coreVars
  BY <1>6 DEF coreVars
<1> QED BY <1>1, <1>2, <1>3, <1>4, <1>5, <1>6 DEF CoreNext

(* With the count of the pause it means that starts decide about the GC.   *)
LEMMA GcHeldMeansOff == GcHeldByStarts /\ GC!GcInv => GcFollowsStarts
BY SteadyPercentNat
DEF GcHeldByStarts, GC!GcInv, GC!GcOffWhileStarting, GC!GcSteadyWhenQuiet, GC!GcArmed,
    GC!GcOff, GcFollowsStarts

(* The collector is off exactly while some start is under way.             *)
THEOREM GcOffExactlyDuringStarts == CoreSpec => []GcFollowsStarts
<1>1. CoreInit => GcHeldByStarts /\ GC!GcInv
  <2>1. CoreInit => GcHeldByStarts
    BY TypeInit DEF CoreInit, GcHeldByStarts, PhaseTellsCall, GC!GcInit
  <2>2. CoreInit => GC!GcInit
    BY DEF CoreInit
  <2> QED BY <2>1, <2>2, GcInvInit
<1>2. GC!GcInv /\ [CoreNext]_coreVars => GC!GcInv'
  BY GcStep, GcInvNext
<1>3. GcHeldByStarts /\ GC!GcInv => GcFollowsStarts
  BY GcHeldMeansOff
<1> QED BY <1>1, <1>2, <1>3, GcHeldNext, PTL DEF CoreSpec
=============================================================================
