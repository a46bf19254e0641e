------------------------ MODULE DesktopBridge_proof ------------------------
(***************************************************************************)
(* The desktop bridge keeps one session per process, for every number of   *)
(* runtimes, handles, threads and probes; and what the C interface on top  *)
(* of it keeps although a call into Xray may panic: one session, an        *)
(* accurate lease, the garbage collector, and a recent last error.         *)
(***************************************************************************)
EXTENDS CInterface, CoreController_proof

(* A call that is being made has a controller of the model as its target.  *)
LEMMA CallTarget ==
  ASSUME CallsUnderLock, NEW t \in Threads, call[t].pc # "idle"
  PROVE  At(t) \in Controllers /\ call[t].r \in Runtimes /\ call[t].h \in Handles
BY ControllersAreHandles DEF CallsUnderLock, At

(* Whatever the bridge does, the controllers behave as CoreController says.*)
LEMMA BridgeStepIsCoreStep == CallsUnderLock /\ [BridgeNext]_vars => [CoreNext]_coreVars
<1> SUFFICES ASSUME CallsUnderLock, [BridgeNext]_vars PROVE [CoreNext]_coreVars OBVIOUS
<1>1. ASSUME NEW t \in Threads, NEW fd \in Fds \cup {NoFd}, StartEnter(t, fd) PROVE CoreNext
  BY <1>1, CallTarget DEF StartEnter, Waiting, CoreNext
<1>2. ASSUME NEW t \in Threads, StopEnter(t) PROVE CoreNext
  BY <1>2, CallTarget DEF StopEnter, Waiting, CoreNext
<1>3. CASE CoreStep
  BY <1>3 DEF CoreStep, CoreNext
<1>4. ASSUME NEW t \in Threads, BridgeStep(t) PROVE [CoreNext]_coreVars
  BY <1>1, <1>2, <1>4
  DEF BridgeStep, InitializeAssets, StartRefused, StartLeave, StopLeave, StopIdle, IsRunning,
      MeasureDelay, MeasureDelayEnd
<1>5. CASE UNCHANGED vars
  BY <1>5 DEF vars
<1> QED BY <1>3, <1>4, <1>5 DEF BridgeNext, CreateController, Invoke

(* What a step of a call inside the core does to the controllers: it moves *)
(* only its own, and when a stop returns, its session is over.             *)
LEMMA CallStepEffect ==
  ASSUME CoreTypeOK, PhaseTellsCall, NEW c \in Controllers, CallStep(c)
  PROVE  /\ op[c] # "none"
         /\ op'[c] \in {op[c], "none"}
         /\ op[c] = "stop" /\ op'[c] = "none" => ~isRunning'[c]
         /\ \A d \in Controllers : d # c => op'[d] = op[d] /\ isRunning'[d] = isRunning[d]
<1> USE DEF CoreTypeOK, PhaseTellsCall, Phases, Goto, fieldVars
<1>1. CASE Return(c)
  BY <1>1 DEF Return
<1>2. CASE ~Return(c)
  BY <1>2
  DEF CallStep, LoadJSONConfig, PublishTunFd, CoreNew, InstallStore, InstallRegister,
      ServerStart, CloseServer, ForgetLoad, ForgetStore, Unpublish
<1> QED BY <1>1, <1>2

(* Host and probe steps do not touch the controllers' calls.               *)
LEMMA OtherStepEffect ==
  HostStep \/ (\E p \in Probes : ProbeStep(p)) => UNCHANGED <<op, isRunning>>
BY DEF HostStep, OpenFd, CloseFd, ProbeStep, ProbeNew, RestoreLoad, RestoreRegister, ProbeStart,
       ProbeClose, callVars, fieldVars

(* The lease invariant holds initially.                                    *)
LEMMA LeaseInit == BridgeInit => LeaseInv
BY TypeInit, ControllersAreHandles, MaxHandleNat, NoRuntimeNotRuntime, NoThreadNotThread
DEF BridgeInit, CoreInit, LeaseInv, PhaseTellsCall, BridgeTypeOK, CallsUnderLock, BusyUnderLock,
    LeaseOfOthers, LeaseOfCall, BusyIsKnown, AssetsAgree, Busy, NoCall, Calls, CallKinds,
    LeaseCalls, Handles, NoHandle

(* The bridge keeps its state well typed.                                  *)
LEMMA BridgeTypeNext ==
  BridgeTypeOK /\ CallsUnderLock /\ [BridgeNext]_vars => BridgeTypeOK'
<1> SUFFICES ASSUME BridgeTypeOK, CallsUnderLock, [BridgeNext]_vars PROVE BridgeTypeOK' OBVIOUS
<1> USE MaxHandleNat
    DEF BridgeTypeOK, Calls, NoCall, CallKinds, LeaseCalls, NoHandle, Handles, leaseState,
        assetState, handleState, bridgeVars, Done, EnterCore
<1>1. CASE CoreStep BY <1>1 DEF CoreStep
<1>2. ASSUME NEW r \in Runtimes, CreateController(r) PROVE BridgeTypeOK'
  BY <1>2 DEF CreateController
<1>3. ASSUME NEW t \in Threads, NEW kind \in CallKinds, NEW r \in Runtimes, NEW h \in Handles,
             Invoke(t, kind, r, h)
      PROVE  BridgeTypeOK'
  BY <1>3 DEF Invoke
<1>4. ASSUME NEW t \in Threads, BridgeStep(t) PROVE BridgeTypeOK'
  <2> USE CallTarget DEF Waiting, InCore
  <2>1. ASSUME NEW dir \in Dirs, InitializeAssets(t, dir) PROVE BridgeTypeOK'
    BY <2>1 DEF InitializeAssets
  <2>2. ASSUME NEW fd \in Fds \cup {NoFd}, StartEnter(t, fd) PROVE BridgeTypeOK'
    BY <2>2 DEF StartEnter
  <2>3. CASE StartRefused(t)    BY <2>3 DEF StartRefused
  <2>4. CASE StartLeave(t)      BY <2>4 DEF StartLeave
  <2>5. CASE StopEnter(t)       BY <2>5 DEF StopEnter
  <2>6. CASE StopLeave(t)       BY <2>6 DEF StopLeave, ReleaseLease
  <2>7. CASE StopIdle(t)
    <3>1. CASE Known(t)         BY <2>7, <3>1 DEF StopIdle, ReleaseLease
    <3>2. CASE ~Known(t)        BY <2>7, <3>2 DEF StopIdle
    <3> QED BY <3>1, <3>2
  <2>8. CASE IsRunning(t)       BY <2>8 DEF IsRunning, ReleaseLease
  <2>9. CASE MeasureDelay(t)    BY <2>9 DEF MeasureDelay
  <2>10. CASE MeasureDelayEnd(t) BY <2>10 DEF MeasureDelayEnd
  <2> QED BY <1>4, <2>1, <2>2, <2>3, <2>4, <2>5, <2>6, <2>7, <2>8, <2>9, <2>10 DEF BridgeStep
<1>5. CASE UNCHANGED vars BY <1>5 DEF vars
<1> QED BY <1>1, <1>2, <1>3, <1>4, <1>5 DEF BridgeNext

(* A thread that holds no lock is not in the core, and a thread that waits *)
(* finds no controller busy once the lock is free.                         *)
LEMMA LockFree ==
  ASSUME LeaseInv, procLock = NoThread
  PROVE  /\ \A c \in Controllers : ~InCoreNow(c) /\ op[c] = "none"
         /\ \A t \in Threads : call[t].pc # "core"
BY NoThreadNotThread DEF LeaseInv, BusyUnderLock, InCoreNow, CallsUnderLock

(* A thread outside the core that goes on to another call, or finishes     *)
(* one, disturbs no call that is in the core.                              *)
LEMMA CallMoves ==
  ASSUME LeaseInv, NEW t \in Threads, NEW x \in Calls,
         call[t].pc # "core", x.pc # "core",
         x.pc # "idle" => x.r \in Runtimes /\ x.h \in Handles,
         call' = [call EXCEPT ![t] = x], UNCHANGED <<procLock, op, isRunning>>
  PROVE  /\ CallsUnderLock' /\ BusyUnderLock'
         /\ \A c \in Controllers : InCoreNow(c)' <=> InCoreNow(c)
         /\ \A u \in Threads : procLock = u => call'[u] = call[u]
<1>1. procLock # t /\ call \in [Threads -> Calls]
  BY DEF LeaseInv, CallsUnderLock, BridgeTypeOK
<1>2. \A u \in Threads : u # t => call'[u] = call[u]
  BY <1>1
<1>3. CallsUnderLock'
  BY <1>1, <1>2 DEF LeaseInv, CallsUnderLock, At
<1>4. \A c \in Controllers : InCoreNow(c)' <=> InCoreNow(c)
  BY <1>1, <1>2 DEF InCoreNow, At
<1>5. BusyUnderLock'
  BY <1>4 DEF LeaseInv, BusyUnderLock
<1> QED BY <1>1, <1>2, <1>3, <1>4, <1>5

(* With the lock free, releasing the lease for a controller that does not  *)
(* run changes nothing: it is not the holder.                              *)
LEMMA ReleaseOfIdle ==
  ASSUME LeaseInv, procLock = NoThread, NEW t \in Threads, call[t].pc = "wait",
         ~isRunning[At(t)], ReleaseLease(call[t].r, call[t].h)
  PROVE  UNCHANGED leaseState
<1>1. At(t) \in Controllers /\ call[t].r \in Runtimes
  BY CallTarget DEF LeaseInv
<1>2. /\ ~(activeRuntime = call[t].r /\ activeHandle = call[t].h)
      /\ active[call[t].r] # call[t].h
  BY <1>1, LockFree DEF LeaseInv, LeaseOfOthers, At
<1>3. active \in [Runtimes -> Nat]
  BY DEF LeaseInv, BridgeTypeOK
<1> QED BY <1>1, <1>2, <1>3 DEF ReleaseLease, leaseState

(* Every step keeps the lease invariant.                                   *)
LEMMA LeaseNext == LeaseInv /\ [BridgeNext]_vars => LeaseInv'
<1> SUFFICES ASSUME LeaseInv, [BridgeNext]_vars PROVE LeaseInv' OBVIOUS
<1>0. CoreTypeOK' /\ PhaseTellsCall' /\ BridgeTypeOK'
  BY BridgeStepIsCoreStep, TypeNext, PhaseNext, BridgeTypeNext DEF LeaseInv
<1> DEFINE Rest == /\ CallsUnderLock /\ BusyUnderLock /\ LeaseOfOthers /\ LeaseOfCall
                   /\ BusyIsKnown /\ AssetsAgree
<1> SUFFICES Rest' BY <1>0 DEF LeaseInv
<1>t. CoreTypeOK /\ PhaseTellsCall /\ BridgeTypeOK /\ Rest
  BY DEF LeaseInv
<1>c. /\ op \in [Controllers -> {"none", "start", "stop"}]
      /\ isRunning \in [Controllers -> BOOLEAN]
      /\ op' \in [Controllers -> {"none", "start", "stop"}]
      /\ isRunning' \in [Controllers -> BOOLEAN]
  BY <1>t, <1>0 DEF CoreTypeOK
<1> USE <1>c, NoThreadNotThread, NoRuntimeNotRuntime
<1> USE DEF leaseState, assetState, handleState, bridgeVars, Done, EnterCore, At, Busy, InCoreNow

<1>1. CASE CoreStep
  <2>1. UNCHANGED bridgeVars BY <1>1 DEF CoreStep
  <2>2. ASSUME NEW c \in Controllers, CallStep(c) PROVE Rest'
    <3>1. /\ op[c] # "none"
          /\ op'[c] \in {op[c], "none"}
          /\ op[c] = "stop" /\ op'[c] = "none" => ~isRunning'[c]
          /\ \A d \in Controllers : d # c => op'[d] = op[d] /\ isRunning'[d] = isRunning[d]
      BY <1>t, <2>2, CallStepEffect
    <3>2. CallsUnderLock'
      BY <1>t, <2>1, <3>1, ControllersAreHandles DEF CallsUnderLock
    <3>3. BusyUnderLock'
      BY <1>t, <2>1, <3>1 DEF BusyUnderLock
    <3>4. InCoreNow(c)
      BY <1>t, <3>1 DEF BusyUnderLock
    <3>5. LeaseOfOthers'
      BY <1>t, <2>1, <3>1, <3>4 DEF LeaseOfOthers
    <3>6. LeaseOfCall'
      BY <1>t, <2>1, <3>1, <3>4 DEF LeaseOfCall, CallsUnderLock
    <3>7. BusyIsKnown' /\ AssetsAgree'
      BY <1>t, <2>1, <3>1 DEF BusyIsKnown, AssetsAgree
    <3> QED BY <3>2, <3>3, <3>5, <3>6, <3>7
  <2>3. CASE HostStep \/ \E p \in Probes : ProbeStep(p)
    BY <1>t, <2>1, <2>3, OtherStepEffect
    DEF CallsUnderLock, BusyUnderLock, LeaseOfOthers, LeaseOfCall, BusyIsKnown, AssetsAgree
  <2> QED BY <1>1, <2>2, <2>3 DEF CoreStep

<1>2. ASSUME NEW r \in Runtimes, CreateController(r) PROVE Rest'
  <2>1. UNCHANGED <<op, isRunning>>
    BY <1>2 DEF CreateController, coreVars, callVars, fieldVars
  <2> QED
    BY <1>t, <1>2, <2>1
    DEF CreateController, BridgeTypeOK, CallsUnderLock, BusyUnderLock, LeaseOfOthers, LeaseOfCall,
        BusyIsKnown, AssetsAgree
<1>u. CASE UNCHANGED vars
  BY <1>t, <1>u
  DEF vars, coreVars, callVars, fieldVars, CallsUnderLock, BusyUnderLock, LeaseOfOthers,
      LeaseOfCall, BusyIsKnown, AssetsAgree

<1>3. ASSUME NEW t \in Threads, NEW kind \in CallKinds, NEW r \in Runtimes, NEW h \in Handles,
             Invoke(t, kind, r, h)
      PROVE  Rest'
  <2>1. UNCHANGED <<op, isRunning, leaseState, assetState, handleState>>
    BY <1>3 DEF Invoke, coreVars, callVars, fieldVars
  <2> DEFINE x == [kind |-> kind, pc |-> "wait", r |-> r, h |-> h]
  <2>2. x \in Calls /\ call[t].pc # "core"
    BY <1>3, MaxHandleNat DEF Invoke, NoCall, Calls, Handles
  <2>3. /\ CallsUnderLock' /\ BusyUnderLock'
        /\ \A c \in Controllers : InCoreNow(c)' <=> InCoreNow(c)
        /\ \A u \in Threads : procLock = u => call'[u] = call[u]
    BY <1>3, <2>1, <2>2, CallMoves DEF Invoke
  <2> QED
    BY <1>t, <1>3, <2>1, <2>3
    DEF Invoke, LeaseOfOthers, LeaseOfCall, BusyIsKnown, AssetsAgree

<1>4. ASSUME NEW t \in Threads, BridgeStep(t) PROVE Rest'
  <2>n. NoCall \in Calls /\ NoCall.pc = "idle"
    BY DEF NoCall, Calls, NoHandle
  <2>d. ASSUME call[t].pc # "core", Done(t), UNCHANGED <<procLock, op, isRunning>>
        PROVE  /\ CallsUnderLock' /\ BusyUnderLock'
               /\ \A c \in Controllers : InCoreNow(c)' <=> InCoreNow(c)
               /\ \A u \in Threads : procLock = u => call'[u] = call[u]
    BY <2>d, <2>n, CallMoves
  <2>1. ASSUME NEW dir \in Dirs, InitializeAssets(t, dir) PROVE Rest'
    <3>1. /\ procLock = NoThread /\ call[t].pc = "wait" /\ Done(t)
          /\ UNCHANGED <<procLock, op, isRunning, leaseState, handleState>>
      BY <2>1 DEF InitializeAssets, Waiting, coreVars, callVars, fieldVars
    <3>2. /\ CallsUnderLock' /\ BusyUnderLock'
          /\ \A c \in Controllers : InCoreNow(c)' <=> InCoreNow(c)
          /\ \A u \in Threads : procLock = u => call'[u] = call[u]
      BY <2>d, <3>1
    <3>3. LeaseOfOthers' /\ LeaseOfCall'
      BY <1>t, <3>1, <3>2 DEF LeaseOfOthers, LeaseOfCall
    <3>4. activeRuntime = NoRuntime => \A c \in Controllers : ~Busy(c)
      BY <1>t, <3>1, LockFree, ControllersAreHandles DEF LeaseOfOthers
    <3>5. AssetsAgree'
      <4>1. call[t].r \in Runtimes /\ assetDir \in [Runtimes -> Dirs \cup {NoDir}] /\ AssetsAgree
        BY <1>t, <3>1, CallTarget DEF BridgeTypeOK
      <4>2. CASE activeRuntime = NoRuntime
        BY <2>1, <4>1, <4>2 DEF InitializeAssets, AssetsAgree
      <4>3. CASE activeRuntime # NoRuntime
        BY <2>1, <4>1, <4>3 DEF InitializeAssets, AssetsAgree, assetState
      <4> QED BY <4>2, <4>3
    <3>6. BusyIsKnown'
      BY <1>t, <2>1, <3>1, <3>4 DEF InitializeAssets, BusyIsKnown
    <3> QED BY <3>2, <3>3, <3>5, <3>6
  <2>3. CASE StartRefused(t) \/ MeasureDelayEnd(t)
    <3>1. /\ call[t].pc # "core" /\ Done(t)
          /\ UNCHANGED <<procLock, op, isRunning, leaseState, assetState, handleState>>
      BY <2>3 DEF StartRefused, MeasureDelayEnd, Waiting, coreVars, callVars, fieldVars
    <3>2. /\ CallsUnderLock' /\ BusyUnderLock'
          /\ \A c \in Controllers : InCoreNow(c)' <=> InCoreNow(c)
          /\ \A u \in Threads : procLock = u => call'[u] = call[u]
      BY <2>d, <3>1
    <3> QED BY <1>t, <3>1, <3>2 DEF LeaseOfOthers, LeaseOfCall, BusyIsKnown, AssetsAgree
  <2>9. CASE MeasureDelay(t)
    <3>1. /\ call[t].pc = "wait"
          /\ UNCHANGED <<procLock, op, isRunning, leaseState, assetState, handleState>>
      BY <2>9 DEF MeasureDelay, coreVars, callVars, fieldVars
    <3>2. PICK x \in Calls : /\ call' = [call EXCEPT ![t] = x]
                             /\ x.pc # "core"
                             /\ x.pc # "idle" => x.r \in Runtimes /\ x.h \in Handles
      <4>1. CASE Done(t) BY <2>n, <4>1
      <4>2. CASE call' = [call EXCEPT ![t].pc = "probing"]
        <5> DEFINE x == [call[t] EXCEPT !.pc = "probing"]
        <5>1. x \in Calls /\ call' = [call EXCEPT ![t] = x] /\ x.pc = "probing"
              /\ x.r = call[t].r /\ x.h = call[t].h
          BY <1>t, <4>2 DEF BridgeTypeOK, Calls
        <5>2. x.r \in Runtimes /\ x.h \in Handles
          BY <1>t, <3>1, <5>1, CallTarget
        <5> QED BY <5>1, <5>2
      <4> QED BY <2>9, <4>1, <4>2 DEF MeasureDelay
    <3>3. /\ CallsUnderLock' /\ BusyUnderLock'
          /\ \A c \in Controllers : InCoreNow(c)' <=> InCoreNow(c)
          /\ \A u \in Threads : procLock = u => call'[u] = call[u]
      BY <3>1, <3>2, CallMoves
    <3> QED BY <1>t, <3>1, <3>3 DEF LeaseOfOthers, LeaseOfCall, BusyIsKnown, AssetsAgree
  <2>8. CASE IsRunning(t)
    <3>1. /\ procLock = NoThread /\ call[t].pc = "wait" /\ Done(t)
          /\ UNCHANGED <<procLock, op, isRunning, assetState, handleState>>
      BY <2>8 DEF IsRunning, Waiting, coreVars, callVars, fieldVars
    <3>2. /\ CallsUnderLock' /\ BusyUnderLock'
          /\ \A c \in Controllers : InCoreNow(c)' <=> InCoreNow(c)
          /\ \A u \in Threads : procLock = u => call'[u] = call[u]
      BY <2>d, <3>1
    <3>3. UNCHANGED leaseState
      BY <2>8, <3>1, ReleaseOfIdle DEF IsRunning
    <3> QED BY <1>t, <3>1, <3>2, <3>3 DEF LeaseOfOthers, LeaseOfCall, BusyIsKnown, AssetsAgree
  <2>7. CASE StopIdle(t)
    <3>1. /\ procLock = NoThread /\ call[t].pc = "wait" /\ Done(t)
          /\ UNCHANGED <<procLock, op, isRunning, assetState>>
      BY <2>7 DEF StopIdle, Waiting, coreVars, callVars, fieldVars
    <3>2. /\ CallsUnderLock' /\ BusyUnderLock'
          /\ \A c \in Controllers : InCoreNow(c)' <=> InCoreNow(c)
          /\ \A u \in Threads : procLock = u => call'[u] = call[u]
      BY <2>d, <3>1
    <3>3. UNCHANGED leaseState
      BY <2>7, <3>1, ReleaseOfIdle DEF StopIdle
    <3>4. LeaseOfOthers' /\ LeaseOfCall' /\ AssetsAgree'
      BY <1>t, <3>1, <3>2, <3>3 DEF LeaseOfOthers, LeaseOfCall, AssetsAgree
    <3>5. \A c \in Controllers : Busy(c) /\ c[2] \in controllers[c[1]]
                                 => c[2] \in controllers'[c[1]]
      <4>1. At(t) \in Controllers /\ call[t].r \in Runtimes
        BY <1>t, <3>1, CallTarget
      <4>2. Known(t) => ~Busy(At(t))
        BY <2>7, <3>1, <4>1, LockFree DEF StopIdle
      <4>3. controllers \in [Runtimes -> SUBSET Handles]
        BY <1>t DEF BridgeTypeOK
      <4> QED BY <2>7, <4>1, <4>2, <4>3, ControllersAreHandles DEF StopIdle
    <3>6. BusyIsKnown'
      BY <1>t, <3>1, <3>5 DEF BusyIsKnown
    <3> QED BY <3>2, <3>4, <3>6
  <2>e. ASSUME procLock = NoThread, EnterCore(t), call[t].pc = "wait",
               \/ call[t].kind = "start" /\ op'[At(t)] = "start"
               \/ call[t].kind \in {"stop", "destroy"} /\ op'[At(t)] = "stop",
               \A c \in Controllers : c # At(t) => op'[c] = op[c]
        PROVE  /\ CallsUnderLock' /\ BusyUnderLock'
               /\ \A c \in Controllers : InCoreNow(c)' <=> c = At(t)
               /\ call'[t].r = call[t].r /\ call'[t].h = call[t].h
               /\ call'[t].kind = call[t].kind
    <3>1. \A c \in Controllers : op[c] = "none"
      BY <2>e, LockFree
    <3>2. /\ call'[t].r = call[t].r /\ call'[t].h = call[t].h /\ call'[t].kind = call[t].kind
          /\ call'[t].pc = "core"
          /\ \A u \in Threads : u # t => call'[u] = call[u] /\ call[u].pc # "core"
      BY <1>t, <2>e, LockFree DEF BridgeTypeOK, Calls
    <3>3. At(t)' = At(t)
      BY <3>2
    <3>4. CallsUnderLock'
      BY <1>t, <2>e, <3>2, <3>3 DEF CallsUnderLock
    <3>5. \A c \in Controllers : InCoreNow(c)' <=> c = At(t)
      BY <2>e, <3>3
    <3>6. BusyUnderLock'
      BY <2>e, <3>1, <3>5 DEF BusyUnderLock
    <3> QED BY <3>2, <3>4, <3>5, <3>6
  <2>2. ASSUME NEW fd \in Fds \cup {NoFd}, StartEnter(t, fd) PROVE Rest'
    <3>0. MayStart(t) /\ StartLoop(At(t), fd)
      BY <2>2 DEF StartEnter
    <3>1. /\ procLock = NoThread /\ call[t].pc = "wait" /\ call[t].kind = "start"
          /\ EnterCore(t)
          /\ UNCHANGED <<leaseState, assetState, handleState>>
      BY <2>2 DEF StartEnter, Waiting
    <3>2. At(t) \in Controllers /\ call[t].r \in Runtimes /\ call[t].h \in Handles
      BY <1>t, <3>1, CallTarget
    <3>3. /\ op'[At(t)] = "start" /\ isRunning' = isRunning
          /\ \A c \in Controllers : c # At(t) => op'[c] = op[c]
      BY <3>0, <3>2 DEF StartLoop
    <3>4. /\ CallsUnderLock' /\ BusyUnderLock'
          /\ \A c \in Controllers : InCoreNow(c)' <=> c = At(t)
          /\ call'[t].r = call[t].r /\ call'[t].h = call[t].h
          /\ call'[t].kind = call[t].kind
      BY <2>e, <3>1, <3>3
    <3>5. LeaseOfOthers'
      BY <1>t, <3>1, <3>3, <3>4, LockFree DEF LeaseOfOthers
    <3>6. activeRuntime = NoRuntime /\ active[call[t].r] # call[t].h
      BY <1>t, <3>0, <3>1, <3>2, LockFree DEF LeaseOfOthers, MayStart
    <3>7. LeaseOfCall'
      BY <3>1, <3>4, <3>6 DEF LeaseOfCall
    <3>8. BusyIsKnown'
      <4>1. /\ call[t].h \in controllers[call[t].r] /\ assetRuntime = call[t].r
            /\ assetEnv # NoDir /\ assetDir[call[t].r] = assetEnv
        BY <1>t, <3>0, <3>2 DEF MayStart, Known, AssetsAgree
      <4>2. \A c \in Controllers : Busy(c)' => Busy(c) \/ c = At(t)
        BY <3>3
      <4> QED BY <1>t, <3>1, <4>1, <4>2 DEF BusyIsKnown
    <3>9. AssetsAgree'
      BY <1>t, <3>1 DEF AssetsAgree
    <3> QED BY <3>4, <3>5, <3>7, <3>8, <3>9
  <2>5. CASE StopEnter(t)
    <3>1. /\ procLock = NoThread /\ call[t].pc = "wait" /\ call[t].kind \in {"stop", "destroy"}
          /\ EnterCore(t) /\ StopLoop(At(t))
          /\ UNCHANGED <<leaseState, assetState, handleState>>
      BY <2>5 DEF StopEnter, Waiting
    <3>2. At(t) \in Controllers /\ call[t].r \in Runtimes /\ call[t].h \in Handles
      BY <1>t, <3>1, CallTarget
    <3>3. /\ op'[At(t)] = "stop" /\ isRunning' = isRunning /\ isRunning[At(t)]
          /\ \A c \in Controllers : c # At(t) => op'[c] = op[c]
      BY <3>1, <3>2 DEF StopLoop, fieldVars
    <3>4. /\ CallsUnderLock' /\ BusyUnderLock'
          /\ \A c \in Controllers : InCoreNow(c)' <=> c = At(t)
          /\ call'[t].r = call[t].r /\ call'[t].h = call[t].h
          /\ call'[t].kind = call[t].kind
      BY <2>e, <3>1, <3>3
    <3>5. LeaseOfOthers'
      BY <1>t, <3>1, <3>3, <3>4, LockFree DEF LeaseOfOthers
    <3>6. /\ activeRuntime = call[t].r /\ activeHandle = call[t].h
          /\ active[call[t].r] = call[t].h
      <4>1. ~InCoreNow(At(t))
        BY <3>1, LockFree, NoThreadNotThread DEF InCoreNow
      <4> QED BY <1>t, <3>1, <3>2, <3>3, <4>1 DEF LeaseOfOthers
    <3>7. LeaseOfCall'
      BY <3>1, <3>3, <3>4, <3>6 DEF LeaseOfCall
    <3>8. BusyIsKnown' /\ AssetsAgree'
      BY <1>t, <3>1, <3>2, <3>3 DEF BusyIsKnown, AssetsAgree
    <3> QED BY <3>4, <3>5, <3>7, <3>8
  <2>l. ASSUME call[t].pc = "core", Done(t), procLock' = NoThread,
               UNCHANGED <<op, isRunning>>, op[At(t)] = "none"
        PROVE  CallsUnderLock' /\ BusyUnderLock' /\ LeaseOfCall' /\ procLock = t
    <3>1. procLock = t /\ \A u \in Threads : u # t => call[u].pc # "core"
      BY <1>t, <2>l DEF CallsUnderLock
    <3>2. call'[t].pc = "idle" /\ \A u \in Threads : u # t => call'[u] = call[u]
      BY <1>t, <2>l, <2>n DEF BridgeTypeOK
    <3>3. CallsUnderLock'
      BY <1>t, <2>l, <3>1, <3>2 DEF CallsUnderLock
    <3>4. BusyUnderLock'
      BY <1>t, <2>l, <3>1 DEF BusyUnderLock
    <3>5. LeaseOfCall'
      BY <2>l DEF LeaseOfCall
    <3> QED BY <3>1, <3>3, <3>4, <3>5
  <2>4. CASE StartLeave(t)
    <3>1. /\ call[t].pc = "core" /\ call[t].kind = "start" /\ op[At(t)] = "none"
          /\ Done(t) /\ procLock' = NoThread
          /\ UNCHANGED <<op, isRunning, assetState, handleState>>
      BY <2>4 DEF StartLeave, InCore, coreVars, callVars, fieldVars
    <3>2. CallsUnderLock' /\ BusyUnderLock' /\ LeaseOfCall' /\ procLock = t
      BY <2>l, <3>1
    <3>3. At(t) \in Controllers /\ call[t].r \in Runtimes /\ call[t].h \in Handles
      BY <1>t, <3>1, CallTarget
    <3>4. \A c \in Controllers : c # At(t) =>
            /\ ~isRunning[c] /\ active[c[1]] # c[2]
      BY <1>t, <3>1, <3>2, <3>3, ControllersAreHandles DEF LeaseOfOthers, LeaseOfCall
    <3>5. LeaseOfOthers'
      <4>1. active \in [Runtimes -> Nat]
        BY <1>t DEF BridgeTypeOK
      <4>2. activeRuntime = NoRuntime /\ active[call[t].r] # call[t].h
        BY <1>t, <3>1, <3>2 DEF LeaseOfCall
      <4>3. CASE isRunning[At(t)]
        BY <2>4, <3>1, <3>3, <3>4, <4>1, <4>3, ControllersAreHandles
        DEF StartLeave, LeaseOfOthers
      <4>4. CASE ~isRunning[At(t)]
        BY <2>4, <3>1, <3>3, <3>4, <4>2, <4>4, ControllersAreHandles
        DEF StartLeave, LeaseOfOthers
      <4> QED BY <4>3, <4>4
    <3>6. BusyIsKnown' /\ AssetsAgree'
      BY <1>t, <3>1 DEF BusyIsKnown, AssetsAgree
    <3> QED BY <3>2, <3>5, <3>6
  <2>6. CASE StopLeave(t)
    <3>1. /\ call[t].pc = "core" /\ call[t].kind # "start" /\ op[At(t)] = "none"
          /\ Done(t) /\ procLock' = NoThread /\ ReleaseLease(call[t].r, call[t].h)
          /\ UNCHANGED <<op, isRunning, assetState>>
      BY <2>6 DEF StopLeave, InCore, coreVars, callVars, fieldVars
    <3>2. CallsUnderLock' /\ BusyUnderLock' /\ LeaseOfCall' /\ procLock = t
      BY <2>l, <3>1
    <3>3. At(t) \in Controllers /\ call[t].r \in Runtimes /\ call[t].h \in Handles
      BY <1>t, <3>1, CallTarget
    <3>4. activeRuntime = call[t].r /\ activeHandle = call[t].h /\ ~isRunning[At(t)]
      BY <1>t, <3>1, <3>2 DEF LeaseOfCall
    <3>5. \A c \in Controllers : ~isRunning[c] /\ (c # At(t) => active[c[1]] # c[2])
      BY <1>t, <3>2, <3>3, <3>4, ControllersAreHandles DEF LeaseOfOthers
    <3>6. LeaseOfOthers'
      <4>1. active \in [Runtimes -> Nat]
        BY <1>t DEF BridgeTypeOK
      <4> QED BY <3>1, <3>3, <3>4, <3>5, <4>1, ControllersAreHandles, MaxHandleNat
              DEF ReleaseLease, LeaseOfOthers, NoHandle, Handles
    <3>7. \A c \in Controllers : ~Busy(c)'
      BY <1>t, <3>1, <3>2, <3>5 DEF BusyUnderLock
    <3>8. BusyIsKnown' /\ AssetsAgree'
      BY <1>t, <3>1, <3>7 DEF BusyIsKnown, AssetsAgree
    <3> QED BY <3>2, <3>6, <3>8
  <2> QED BY <1>4, <2>1, <2>2, <2>3, <2>4, <2>5, <2>6, <2>7, <2>8, <2>9 DEF BridgeStep
<1> QED BY <1>1, <1>2, <1>u, <1>3, <1>4 DEF BridgeNext

(* The invariant leaves room for one busy controller: the one whose call   *)
(* is in the core, or else the one that has the lease.                     *)
LEMMA OneBusy == LeaseInv => OneSession
<1> SUFFICES ASSUME LeaseInv, NEW c \in Controllers, NEW d \in Controllers, Busy(c), Busy(d)
             PROVE  c = d
  BY DEF OneSession
<1>1. CASE procLock = NoThread
  BY <1>1, LockFree, ControllersAreHandles DEF LeaseInv, LeaseOfOthers, Busy
<1>2. CASE procLock # NoThread
  <2>1. PICK t \in Threads : procLock = t
    BY <1>2 DEF LeaseInv, BridgeTypeOK
  <2>2. ASSUME NEW e \in Controllers, e # At(t) PROVE ~Busy(e)
    <3>1. ~InCoreNow(e)
      BY <2>1, <2>2 DEF InCoreNow
    <3>2. op[e] = "none"
      BY <3>1 DEF LeaseInv, BusyUnderLock
    <3>3. isRunning[e] => activeRuntime = e[1] /\ activeHandle = e[2]
      BY <3>1 DEF LeaseInv, LeaseOfOthers
    <3>4. activeRuntime = NoRuntime \/ <<activeRuntime, activeHandle>> = At(t)
      BY <2>1 DEF LeaseInv, LeaseOfCall, At
    <3>5. e[1] \in Runtimes /\ e = <<e[1], e[2]>>
      BY ControllersAreHandles
    <3>6. ~isRunning[e]
      BY <2>2, <3>3, <3>4, <3>5, NoRuntimeNotRuntime
    <3> QED BY <3>2, <3>6 DEF Busy
  <2> QED BY <2>2
<1> QED BY <1>1, <1>2

(* At any time at most one controller, of any runtime, is running or has a *)
(* start or stop under way, whatever the host's threads call.              *)
THEOREM AtMostOneSession == BridgeSpec => []OneSession
<1> QED BY OneBusy, LeaseInit, LeaseNext, PTL DEF BridgeSpec

(* Between calls the lease names exactly the controller that runs.         *)
THEOREM LeaseIsAccurate == BridgeSpec => []LeaseMatchesSession
<1>1. LeaseInv => LeaseMatchesSession
  BY LockFree, ControllersAreHandles DEF LeaseInv, LeaseOfOthers, LeaseMatchesSession
<1> QED BY <1>1, LeaseInit, LeaseNext, PTL DEF BridgeSpec

(* A session can always be looked up by the handle that owns it.           *)
THEOREM SessionKeepsHandle == BridgeSpec => []NoOrphanSession
<1>1. LeaseInv => NoOrphanSession
  BY ControllersAreHandles DEF LeaseInv, BusyIsKnown, NoOrphanSession, Busy
<1> QED BY <1>1, LeaseInit, LeaseNext, PTL DEF BridgeSpec

(* The assets of a session are never replaced under it.                    *)
THEOREM AssetsStayWithSession == BridgeSpec => []SessionAssets
<1>1. LeaseInv => SessionAssets
  BY ControllersAreHandles DEF LeaseInv, BusyIsKnown, SessionAssets, Busy
<1> QED BY <1>1, LeaseInit, LeaseNext, PTL DEF BridgeSpec

(* The bridge drives the controllers only as CoreController allows, so all *)
(* that is proved of them holds under the bridge.                          *)
THEOREM BridgeRunsCore == BridgeSpec => CoreSpec
<1>1. BridgeInit => CoreInit BY DEF BridgeInit
<1>2. LeaseInv /\ [BridgeNext]_vars => [CoreNext]_coreVars
  BY BridgeStepIsCoreStep DEF LeaseInv
<1> QED BY <1>1, <1>2, LeaseInit, LeaseNext, PTL DEF BridgeSpec, CoreSpec

-----------------------------------------------------------------------------
(* While a call is in the core, every other controller is at rest.         *)
LEMMA OthersAtRest ==
  ASSUME LeaseInv, NEW c \in Controllers, op[c] # "none" \/ isRunning[c]
  PROVE  \A d \in Controllers : d # c => op[d] = "none" /\ phase[d] = "idle" /\ ~isRunning[d]
<1>1. \A d \in Controllers : d # c => ~Busy(d)
  BY OneBusy DEF OneSession, Busy
<1> QED BY <1>1 DEF Busy, LeaseInv, PhaseTellsCall

(* The session's view of the process-wide state holds initially ...        *)
LEMMA SessionInit == BridgeInit => SessionInv
BY LeaseInit, OwnerInit
DEF BridgeInit, CoreInit, SessionInv, OwnProcessState, OwnDescriptor

(* ... and every step keeps it.                                            *)
LEMMA SessionNext == SessionInv /\ [BridgeNext]_vars => SessionInv'
<1> SUFFICES ASSUME SessionInv, [BridgeNext]_vars PROVE SessionInv' OBVIOUS
<1>0. LeaseInv' /\ OwnerInv' /\ [CoreNext]_coreVars
  BY LeaseNext, OwnerNext, BridgeStepIsCoreStep DEF SessionInv, LeaseInv
<1> DEFINE Rest == OwnProcessState /\ OwnDescriptor
<1> SUFFICES Rest' BY <1>0 DEF SessionInv
<1>t. /\ CoreTypeOK /\ PhaseTellsCall /\ OneOwner /\ CallOwnsServer /\ FieldsDuringCalls
      /\ Rest
  BY DEF SessionInv, OwnerInv
<1>o. ASSUME NEW c \in Controllers, op[c] # "none" \/ isRunning[c]
      PROVE  \A d \in Controllers :
               d # c => op[d] = "none" /\ phase[d] = "idle" /\ ~isRunning[d]
  BY <1>o, OthersAtRest DEF SessionInv
<1> USE <1>t DEF CoreTypeOK, Phases, OwnProcessState, OwnDescriptor, Goto, callVars, fieldVars,
                 logVars, fdVars, instVars, probeVars
<1>1. CASE HostStep
  BY <1>1 DEF HostStep, OpenFd, CloseFd
<1>2. ASSUME NEW c \in Controllers, NEW fd \in Fds \cup {NoFd}, StartLoop(c, fd)
      PROVE  Rest'
  BY <1>2 DEF StartLoop
<1>3. ASSUME NEW c \in Controllers, StopLoop(c) PROVE Rest'
  BY <1>3 DEF StopLoop
<1>4. ASSUME NEW c \in Controllers, CallStep(c) PROVE Rest'
  <2>o. \A d \in Controllers : d # c => op[d] = "none" /\ phase[d] = "idle" /\ ~isRunning[d]
    BY <1>4, <1>o, CallStepEffect
  <2> USE DEF PhaseTellsCall, CallOwnsServer, FieldsDuringCalls
  <2>1. CASE LoadJSONConfig(c)  BY <2>1 DEF LoadJSONConfig
  <2>2. CASE PublishTunFd(c)    BY <2>2, <2>o DEF PublishTunFd
  <2>3. CASE CoreNew(c)         BY <2>3, <2>o DEF CoreNew, InUse
  <2>4. CASE InstallStore(c)    BY <2>4, <2>o DEF InstallStore
  <2>5. CASE InstallRegister(c) BY <2>5, <2>o DEF InstallRegister
  <2>6. CASE ServerStart(c)     BY <2>6, <2>o DEF ServerStart
  <2>7. CASE CloseServer(c)     BY <2>7, <2>o DEF CloseServer
  <2>8. CASE ForgetLoad(c)      BY <2>8, <2>o DEF ForgetLoad
  <2>9. CASE ForgetStore(c)     BY <2>9, <2>o DEF ForgetStore
  <2>10. CASE Unpublish(c)      BY <2>10, <2>o DEF Unpublish
  <2>11. CASE Return(c)         BY <2>11, <2>o DEF Return
  <2> QED BY <1>4, <2>1, <2>2, <2>3, <2>4, <2>5, <2>6, <2>7, <2>8, <2>9, <2>10, <2>11
          DEF CallStep
<1>5. ASSUME NEW p \in Probes, ProbeStep(p) PROVE Rest'
  <2> USE DEF OneOwner, CallOwnsServer
  <2>1. CASE ProbeNew(p)
    <3>1. \A i \in Insts : seenFd'[i] # seenFd[i] =>
            \A c \in Controllers : i # server[c] /\ i # instance[c]
      BY <2>1 DEF ProbeNew, InUse
    <3>2. \A c \in Controllers : instance[c] \in alive' => instance[c] \in alive
      BY <2>1 DEF ProbeNew, InUse
    <3>3. OwnProcessState'
      BY <2>1, <3>1 DEF ProbeNew
    <3>4. OwnDescriptor'
      BY <2>1, <3>1, <3>2 DEF ProbeNew
    <3> QED BY <3>3, <3>4
  <2>2. CASE RestoreLoad(p)     BY <2>2 DEF RestoreLoad
  <2>3. CASE RestoreRegister(p) BY <2>3 DEF RestoreRegister
  <2>4. CASE ProbeStart(p)      BY <2>4 DEF ProbeStart
  <2>5. CASE ProbeClose(p)
    <3>1. \A i \in Insts : seenFd'[i] # seenFd[i] =>
            \A c \in Controllers : i # server[c] /\ i # instance[c]
      <4>1. \A i \in Insts : seenFd'[i] # seenFd[i] => i = probeInst[p]
        BY <2>5 DEF ProbeClose
      <4>2. probeInst[p] # NoInst =>
              \A c \in Controllers : probeInst[p] # server[c] /\ probeInst[p] # instance[c]
        OBVIOUS
      <4> QED BY <4>1, <4>2, NoInstNotInst
    <3>u. UNCHANGED <<phase, isRunning, instance, server, lentFd, tunFdEnv, activeConnectionLog>>
      BY <2>5 DEF ProbeClose
    <3>s. \A c \in Controllers : phase[c] \in {"install", "register", "boot"} =>
            seenFd'[server[c]] = seenFd[server[c]]
      BY <3>1
    <3>2. OwnProcessState'
      BY <3>u, <3>s
    <3>3. OwnDescriptor'
      BY <2>5, <3>1 DEF ProbeClose
    <3> QED BY <3>2, <3>3
  <2> QED BY <1>5, <2>1, <2>2, <2>3, <2>4, <2>5 DEF ProbeStep
<1>6. CASE UNCHANGED coreVars
  BY <1>6 DEF coreVars
<1> QED BY <1>0, <1>1, <1>2, <1>3, <1>4, <1>5, <1>6 DEF CoreNext

(* A session sees the descriptor that its own start was given.             *)
THEOREM SessionSeesOwnFd == BridgeSpec => []OwnDescriptor
<1>1. SessionInv => OwnDescriptor BY DEF SessionInv
<1> QED BY <1>1, SessionInit, SessionNext, PTL DEF BridgeSpec

(* The remembered log handler is the running session's.                    *)
THEOREM SessionLogStays == BridgeSpec => []SessionLogRemembered
<1>1. SessionInv => SessionLogRemembered
  BY DEF SessionInv, LeaseInv, PhaseTellsCall, OwnProcessState, SessionLogRemembered
<1> QED BY <1>1, SessionInit, SessionNext, PTL DEF BridgeSpec

-----------------------------------------------------------------------------
(* The abstract session is the live controller's, or there is none.        *)
LiveSession ==
  /\ \A c \in Controllers : Live(c) =>
       SessionNow = [owner |-> c, fd |-> seenFd[instance[c]], assets |-> assetEnv]
  /\ (\A c \in Controllers : ~Live(c)) => SessionNow = NoSession

(* The choice in SessionNow is no choice: at most one controller is live.  *)
LEMMA SessionValue == LeaseInv => LiveSession
<1> SUFFICES ASSUME LeaseInv PROVE LiveSession OBVIOUS
<1>1. \A c, d \in Controllers : Live(c) /\ Live(d) => c = d
  BY OneBusy DEF OneSession, Busy, Live
<1>2. ASSUME NEW c \in Controllers, Live(c)
      PROVE  SessionNow = [owner |-> c, fd |-> seenFd[instance[c]], assets |-> assetEnv]
  <2>1. (CHOOSE d \in Controllers : Live(d)) = c
    BY <1>1, <1>2
  <2> QED BY <1>2, <2>1 DEF SessionNow
<1>3. (\A c \in Controllers : ~Live(c)) => SessionNow = NoSession
  BY DEF SessionNow
<1> QED BY <1>2, <1>3 DEF LiveSession

(* Every step of the bridge begins the session, ends it, or leaves it as   *)
(* it is.                                                                  *)
LEMMA LeaseStep == SessionInv /\ [BridgeNext]_vars => [Lease!LeaseNext]_Lease!leaseVars
<1> SUFFICES ASSUME SessionInv, [BridgeNext]_vars
             PROVE  Lease!LeaseNext \/ SessionNow' = SessionNow
  BY DEF Lease!leaseVars
<1>0. SessionInv' /\ LeaseInv /\ [CoreNext]_coreVars
  BY SessionNext, BridgeStepIsCoreStep DEF SessionInv, LeaseInv
<1>v. LiveSession
  BY <1>0, SessionValue
<1>w. LiveSession'
  <2>1. (LeaseInv => LiveSession)' BY SessionValue, PTL
  <2> QED BY <1>0, <2>1 DEF SessionInv
<1>s. ASSUME \A c \in Controllers : Live(c)' <=> Live(c),
             \A c \in Controllers : Live(c) =>
               seenFd'[instance'[c]] = seenFd[instance[c]] /\ assetEnv' = assetEnv
      PROVE  SessionNow' = SessionNow
  BY <1>s, <1>v, <1>w DEF LiveSession
<1>t. /\ CoreTypeOK /\ PhaseTellsCall /\ OneOwner /\ CallOwnsServer /\ FieldsDuringCalls
      /\ OwnProcessState /\ BridgeTypeOK
  BY DEF SessionInv, OwnerInv, LeaseInv
<1>o. ASSUME NEW c \in Controllers, op[c] # "none" \/ isRunning[c]
      PROVE  \A d \in Controllers :
               d # c => op[d] = "none" /\ phase[d] = "idle" /\ ~isRunning[d]
  BY <1>o, OthersAtRest DEF SessionInv
<1> USE NoInstNotInst, NoFdNotFd DEF Live

<1>1. CASE CoreStep
  <2>e. UNCHANGED assetEnv
    BY <1>1 DEF CoreStep, bridgeVars, assetState
  <2>1. ASSUME NEW c \in Controllers, ServerStart(c), isRunning' # isRunning
        PROVE  Lease!LeaseNext
    <3>1. /\ phase[c] = "boot" /\ op[c] = "start" /\ server[c] \in alive
      BY <1>t, <2>1 DEF ServerStart, PhaseTellsCall, CallOwnsServer
    <3>2. \A d \in Controllers : ~Live(d)
      BY <1>t, <1>o, <3>1 DEF PhaseTellsCall
    <3>3. isRunning'[c] /\ instance'[c] = server[c] /\ UNCHANGED <<alive, seenFd>>
      BY <1>t, <2>1 DEF ServerStart, CoreTypeOK, instVars
    <3>4. Live(c)' /\ seenFd[server[c]] \in Fds \cup {NoFd}
      BY <1>t, <3>1, <3>3 DEF CoreTypeOK
    <3>5. assetEnv \in Dirs
      BY <1>t, <1>0, <3>1 DEF SessionInv, LeaseInv, BusyIsKnown, Busy, BridgeTypeOK
    <3>6. SessionNow = NoSession
      BY <1>v, <3>2 DEF LiveSession
    <3>7. SessionNow' = [owner |-> c, fd |-> seenFd[server[c]], assets |-> assetEnv]
      BY <1>w, <2>e, <3>3, <3>4 DEF LiveSession
    <3> QED BY <3>4, <3>5, <3>6, <3>7 DEF Lease!LeaseNext, Lease!Begin
  <2>2. ASSUME NEW c \in Controllers, CloseServer(c), isRunning[c]
        PROVE  Lease!LeaseNext
    <3>1. /\ phase[c] = "close" /\ op[c] = "stop" /\ server[c] = instance[c]
          /\ server[c] \in alive /\ instance[c] \in Insts
      BY <1>t, <2>2
      DEF CloseServer, PhaseTellsCall, CallOwnsServer, FieldsDuringCalls, CoreTypeOK
    <3>2. \A d \in Controllers : ~Live(d)'
      BY <1>o, <2>2, <3>1 DEF CloseServer, fieldVars
    <3>3. SessionNow' = NoSession
      BY <1>w, <3>2 DEF LiveSession
    <3>4. SessionNow = [owner |-> c, fd |-> seenFd[instance[c]], assets |-> assetEnv]
      BY <1>v, <2>2, <3>1 DEF LiveSession
    <3>5. SessionNow # NoSession
      <4>1. assetEnv \in Dirs
        BY <1>t, <1>0, <2>2 DEF SessionInv, LeaseInv, BusyIsKnown, Busy, BridgeTypeOK
      <4>2. seenFd[instance[c]] \in Fds \cup {NoFd}
        BY <1>t, <3>1 DEF CoreTypeOK
      <4> QED BY <3>4, <4>1, <4>2, NoSessionNotSession
    <3> QED BY <3>3, <3>5 DEF Lease!LeaseNext, Lease!End
  <2>3. ASSUME \A c \in Controllers : ~isRunning[c], UNCHANGED isRunning
        PROVE  SessionNow' = SessionNow
    BY <1>s, <2>3
  <2>4. ASSUME UNCHANGED <<isRunning, instance, alive, seenFd>>
        PROVE  SessionNow' = SessionNow
    BY <1>s, <2>e, <2>4
  <2>5. ASSUME NEW c \in Controllers, CallStep(c)
        PROVE  Lease!LeaseNext \/ SessionNow' = SessionNow
    <3>o. \A d \in Controllers : d # c => ~isRunning[d]
      BY <1>t, <1>o, <2>5, CallStepEffect
    <3>1. CASE CoreNew(c)
      BY <1>t, <2>3, <3>o, <3>1 DEF CoreNew, PhaseTellsCall, fieldVars
    <3>2. CASE ServerStart(c)
      <4>1. CASE isRunning' # isRunning
        BY <2>1, <3>2, <4>1
      <4>2. CASE isRunning' = isRunning
        <5>1. UNCHANGED <<instance, alive, seenFd>>
          BY <1>t, <3>2, <4>2 DEF ServerStart, PhaseTellsCall, CoreTypeOK, instVars
        <5> QED BY <2>4, <4>2, <5>1
      <4> QED BY <4>1, <4>2
    <3>3. CASE CloseServer(c)
      BY <2>2, <2>3, <3>o, <3>3 DEF CloseServer, fieldVars
    <3>4. CASE Unpublish(c)
      <4>1. \A d \in Controllers : ~Live(d)
        BY <1>t, <3>o, <3>4
        DEF Unpublish, PhaseTellsCall, CallOwnsServer, FieldsDuringCalls, CoreTypeOK
      <4>2. \A d \in Controllers : ~Live(d)'
        BY <1>t, <3>o, <3>4 DEF Unpublish, CoreTypeOK
      <4> QED BY <1>s, <4>1, <4>2
    <3>5. CASE \/ LoadJSONConfig(c) \/ PublishTunFd(c) \/ InstallStore(c) \/ InstallRegister(c)
               \/ ForgetLoad(c) \/ ForgetStore(c) \/ Return(c)
      BY <2>4, <3>5
      DEF LoadJSONConfig, PublishTunFd, InstallStore, InstallRegister, ForgetLoad, ForgetStore,
          Return, fieldVars, instVars
    <3> QED BY <2>5, <3>1, <3>2, <3>3, <3>4, <3>5 DEF CallStep
  <2>6. ASSUME NEW p \in Probes, ProbeStep(p) PROVE SessionNow' = SessionNow
    <3>1. CASE ProbeNew(p)
      <4>1. /\ UNCHANGED <<isRunning, instance>>
            /\ \A c \in Controllers : instance[c] \in alive' <=> instance[c] \in alive
        BY <3>1 DEF ProbeNew, InUse, fieldVars, instVars
      <4>2. \A c \in Controllers : instance[c] \in Insts =>
              seenFd'[instance[c]] = seenFd[instance[c]]
        BY <1>t, <3>1 DEF ProbeNew, InUse, CoreTypeOK, instVars
      <4> QED BY <1>s, <1>t, <2>e, <4>1, <4>2 DEF CoreTypeOK
    <3>2. CASE ProbeClose(p)
      <4>1. \A c \in Controllers : instance[c] \in Insts => instance[c] # probeInst[p]
        BY <1>t DEF OneOwner
      <4>2. UNCHANGED <<isRunning, instance>>
        BY <3>2 DEF ProbeClose, fieldVars
      <4>3. \A c \in Controllers : instance[c] \in Insts =>
              /\ instance[c] \in alive' <=> instance[c] \in alive
              /\ seenFd'[instance[c]] = seenFd[instance[c]]
        BY <1>t, <3>2, <4>1 DEF ProbeClose, CoreTypeOK
      <4>4. alive \subseteq Insts /\ alive' \subseteq Insts
        BY <1>t, <3>2 DEF ProbeClose, CoreTypeOK
      <4> QED BY <1>s, <2>e, <4>2, <4>3, <4>4
    <3>3. CASE RestoreLoad(p) \/ RestoreRegister(p) \/ ProbeStart(p)
      BY <2>4, <3>3 DEF RestoreLoad, RestoreRegister, ProbeStart, fieldVars, instVars
    <3> QED BY <2>6, <3>1, <3>2, <3>3 DEF ProbeStep
  <2>7. CASE HostStep
    BY <2>4, <2>7 DEF HostStep, OpenFd, CloseFd, fieldVars, instVars
  <2> QED BY <1>1, <2>5, <2>6, <2>7 DEF CoreStep

<1>2. ASSUME UNCHANGED <<isRunning, instance, alive, seenFd, assetEnv>>
      PROVE  SessionNow' = SessionNow
  BY <1>s, <1>2
<1>3. ASSUME NEW t \in Threads, NEW dir \in Dirs, InitializeAssets(t, dir)
      PROVE  SessionNow' = SessionNow
  <2>1. UNCHANGED <<isRunning, instance, alive, seenFd>>
    BY <1>3 DEF InitializeAssets, coreVars, fieldVars, instVars
  <2>2. CASE activeRuntime = NoRuntime
    <3>1. \A c \in Controllers : ~isRunning[c]
      BY <1>0, <1>3, <2>2, LockFree, ControllersAreHandles, NoRuntimeNotRuntime
      DEF InitializeAssets, Waiting, LeaseInv, LeaseOfOthers
    <3> QED BY <1>s, <2>1, <3>1
  <2>3. CASE activeRuntime # NoRuntime
    BY <1>2, <1>3, <2>1, <2>3 DEF InitializeAssets, assetState
  <2> QED BY <2>2, <2>3
<1>4. ASSUME NEW t \in Threads, BridgeStep(t) PROVE SessionNow' = SessionNow
  <2>1. ASSUME NEW fd \in Fds \cup {NoFd}, StartEnter(t, fd) PROVE SessionNow' = SessionNow
    BY <1>2, <2>1 DEF StartEnter, StartLoop, assetState, instVars
  <2>2. CASE StopEnter(t)
    BY <1>2, <2>2 DEF StopEnter, StopLoop, assetState, fieldVars, instVars
  <2>3. CASE UNCHANGED <<coreVars, assetState>>
    BY <1>2, <2>3 DEF coreVars, fieldVars, instVars, assetState
  <2> QED BY <1>3, <1>4, <2>1, <2>2, <2>3
          DEF BridgeStep, StartRefused, StartLeave, StopLeave, StopIdle, IsRunning,
              MeasureDelay, MeasureDelayEnd
<1>5. CASE UNCHANGED <<coreVars, assetState>>
  BY <1>2, <1>5 DEF coreVars, fieldVars, instVars, assetState
<1> QED BY <1>1, <1>4, <1>5 DEF BridgeNext, CreateController, Invoke, vars, bridgeVars

(* The bridge implements the abstract session lease: one session at a time *)
(* in the process, with an owner, a descriptor and assets that stay fixed  *)
(* while it lasts.                                                         *)
THEOREM BridgeImplementsLease == BridgeSpec => ImplementsLease
<1>1. BridgeInit => Lease!LeaseInit
  BY DEF BridgeInit, CoreInit, Lease!LeaseInit, SessionNow, Live
<1> QED BY <1>1, SessionInit, SessionNext, LeaseStep, PTL
        DEF BridgeSpec, ImplementsLease, Lease!LeaseSpec

-----------------------------------------------------------------------------
(* The C interface.                                                        *)

(* A step of the C interface is a step of the bridge, unless it recovers a *)
(* panic.                                                                  *)
LEMMA StepOrRecover ==
  ASSUME [CNext]_cVars
  PROVE  [BridgeNext]_vars \/ \E t \in Threads : Recover(t)
<1>1. CASE CoreStep
  BY <1>1 DEF BridgeNext
<1>2. ASSUME NEW t \in Threads, NEW kind \in CallKinds, NEW r \in Runtimes, NEW h \in Handles,
             Export(t, kind, r, h)
      PROVE  BridgeNext
  BY <1>2 DEF Export, BridgeNext
<1>3. ASSUME NEW t \in Threads, ActionStep(t) PROVE BridgeNext
  BY <1>3 DEF ActionStep, BridgeNext
<1>4. ASSUME NEW t \in Threads, NEW r \in Runtimes, Create(t, r) PROVE BridgeNext
  BY <1>4 DEF Create, BridgeNext
<1>5. ASSUME NEW t \in Threads, ExportElsewhere(t) \/ Report(t) \/ CreateClears(t)
      PROVE  UNCHANGED vars
  BY <1>5 DEF ExportElsewhere, Report, CreateClears
<1>6. CASE UNCHANGED cVars
  BY <1>6 DEF cVars
<1> QED BY <1>1, <1>2, <1>3, <1>4, <1>5, <1>6 DEF CNext

(* What unwinding the core does to a controller: its call is over, and it  *)
(* runs exactly if it did.                                                 *)
LEMMA UnwindEffect ==
  ASSUME CoreTypeOK, PhaseTellsCall, NEW c \in Controllers, UnwindCore(c)
  PROVE  /\ CoreTypeOK' /\ PhaseTellsCall'
         /\ op[c] # "none" /\ op' = [op EXCEPT ![c] = "none"]
         /\ phase' = [phase EXCEPT ![c] = "idle"]
         /\ UNCHANGED isRunning
<1> USE DEF UnwindCore, Goto, fieldVars
<1>1. op' = [op EXCEPT ![c] = "none"] /\ phase' = [phase EXCEPT ![c] = "idle"] /\ UNCHANGED isRunning
  OBVIOUS
<1>2. op[c] # "none"
  BY DEF PhaseTellsCall, InXray
<1>3. logHandler' \in Handlers
  BY DEF CoreTypeOK, Handlers, XrayHandler
<1>4. GC!GcTypeOK'
  <2>1. CASE op[c] = "start"
    BY <2>1 DEF GC!Restore, GC!GcTypeOK, CoreTypeOK, GC!gcVars
  <2>2. CASE op[c] # "start"
    BY <2>2 DEF GC!GcTypeOK, CoreTypeOK, gcVars
  <2> QED BY <2>1, <2>2
<1>5. CoreTypeOK'
  BY <1>1, <1>3, <1>4 DEF CoreTypeOK, Phases, fdVars, instVars, probeVars
<1>6. PhaseTellsCall'
  BY <1>1, <1>2 DEF CoreTypeOK, PhaseTellsCall, InXray
<1> QED BY <1>1, <1>2, <1>5, <1>6

(* Steps without a panic set isRunning only when a start has succeeded.    *)
LEMMA StartNotYetRunningNext ==
  CoreTypeOK /\ PhaseTellsCall /\ StartNotYetRunning /\ [CoreNext]_coreVars => StartNotYetRunning'
<1> SUFFICES ASSUME CoreTypeOK, PhaseTellsCall, StartNotYetRunning, [CoreNext]_coreVars
             PROVE  StartNotYetRunning'
  OBVIOUS
<1>t. /\ op \in [Controllers -> {"none", "start", "stop"}]
      /\ phase \in [Controllers -> Phases]
      /\ isRunning \in [Controllers -> BOOLEAN]
  BY DEF CoreTypeOK
<1> USE <1>t DEF StartNotYetRunning, PhaseTellsCall, Phases, Goto, callVars, fieldVars
<1>1. ASSUME NEW c \in Controllers, NEW fd \in Fds \cup {NoFd}, StartLoop(c, fd)
      PROVE  StartNotYetRunning'
  BY <1>1 DEF StartLoop
<1>2. ASSUME NEW c \in Controllers, StopLoop(c) PROVE StartNotYetRunning'
  BY <1>2 DEF StopLoop
<1>3. ASSUME NEW c \in Controllers, CallStep(c) PROVE StartNotYetRunning'
  BY <1>3
  DEF CallStep, LoadJSONConfig, PublishTunFd, CoreNew, InstallStore, InstallRegister,
      ServerStart, CloseServer, ForgetLoad, ForgetStore, Unpublish, Return
<1>4. CASE HostStep \/ \E p \in Probes : ProbeStep(p)
  <2>1. UNCHANGED <<op, phase, isRunning>>
    BY <1>4
    DEF HostStep, OpenFd, CloseFd, ProbeStep, ProbeNew, RestoreLoad, RestoreRegister,
        ProbeStart, ProbeClose
  <2> QED BY <2>1
<1>5. CASE UNCHANGED coreVars
  BY <1>5 DEF coreVars
<1> QED BY <1>1, <1>2, <1>3, <1>4, <1>5 DEF CoreNext

(* A recovered panic keeps the lease invariant: a start had not taken the  *)
(* lease and does not run, a stop had not given it back and still runs.    *)
LEMMA RecoverKeepsLease ==
  ASSUME PanicInv, NEW t \in Threads, Recover(t)
  PROVE  PanicInv'
<1>a. /\ CoreTypeOK /\ PhaseTellsCall /\ BridgeTypeOK
      /\ CallsUnderLock /\ BusyUnderLock /\ LeaseOfOthers /\ LeaseOfCall
      /\ BusyIsKnown /\ AssetsAgree /\ StartNotYetRunning
  BY DEF PanicInv, LeaseInv
<1>b. /\ call[t].pc = "core" /\ UnwindCore(At(t))
      /\ procLock' = NoThread /\ call' = [call EXCEPT ![t] = NoCall]
      /\ UNCHANGED <<activeRuntime, activeHandle, active, assetState, handleState>>
  BY DEF Recover, Done, leaseState
<1>c. At(t) \in Controllers /\ call[t].r \in Runtimes /\ call[t].h \in Handles /\ procLock = t
  BY <1>a, <1>b, CallTarget DEF CallsUnderLock
<1>d. /\ CoreTypeOK' /\ PhaseTellsCall'
      /\ op[At(t)] # "none" /\ op' = [op EXCEPT ![At(t)] = "none"]
      /\ phase' = [phase EXCEPT ![At(t)] = "idle"] /\ UNCHANGED isRunning
  BY <1>a, <1>b, <1>c, UnwindEffect
<1>e. /\ op \in [Controllers -> {"none", "start", "stop"}]
      /\ phase \in [Controllers -> Phases]
      /\ isRunning \in [Controllers -> BOOLEAN]
      /\ call \in [Threads -> Calls] /\ active \in [Runtimes -> Nat]
  BY <1>a DEF CoreTypeOK, BridgeTypeOK
<1>f. /\ call'[t] = NoCall
      /\ \A u \in Threads : u # t => call'[u] = call[u] /\ call[u].pc # "core"
  BY <1>a, <1>b, <1>c, <1>e DEF CallsUnderLock
<1>1. BridgeTypeOK'
  BY <1>a, <1>b, <1>e
  DEF BridgeTypeOK, assetState, handleState, Calls, NoCall, CallKinds, LeaseCalls, NoHandle, Handles
<1>2. CallsUnderLock'
  BY <1>a, <1>b, <1>f, NoThreadNotThread DEF CallsUnderLock, NoCall
<1>3. \A c \in Controllers : c # At(t) => ~InCoreNow(c)
  BY <1>c DEF InCoreNow
<1>4. \A c \in Controllers : ~InCoreNow(c)'
  BY <1>b, NoThreadNotThread DEF InCoreNow
<1>5. BusyUnderLock'
  BY <1>a, <1>d, <1>e, <1>3 DEF BusyUnderLock
<1>6. /\ isRunning[At(t)] <=> activeRuntime = call[t].r /\ activeHandle = call[t].h
      /\ isRunning[At(t)] <=> active[call[t].r] = call[t].h
  <2>1. CASE call[t].kind = "start"
    <3>1. op[At(t)] = "start" /\ phase[At(t)] # "return"
      BY <1>a, <1>b, <1>c, <1>d, <2>1 DEF CallsUnderLock, UnwindCore, InXray
    <3>2. ~isRunning[At(t)]
      BY <1>a, <1>c, <3>1 DEF StartNotYetRunning
    <3> QED BY <1>a, <1>c, <2>1, <3>2, NoRuntimeNotRuntime DEF LeaseOfCall
  <2>2. CASE call[t].kind # "start"
    <3>1. op[At(t)] = "stop" /\ phase[At(t)] # "return"
      BY <1>a, <1>b, <1>c, <1>d, <2>2 DEF CallsUnderLock, UnwindCore, InXray
    <3>2. isRunning[At(t)]
      BY <1>a, <1>c, <3>1 DEF PhaseTellsCall
    <3> QED BY <1>a, <1>c, <2>2, <3>2 DEF LeaseOfCall
  <2> QED BY <2>1, <2>2
<1>7. LeaseOfOthers'
  BY <1>a, <1>b, <1>d, <1>3, <1>6 DEF LeaseOfOthers, At
<1>8. LeaseOfCall'
  BY <1>b, NoThreadNotThread DEF LeaseOfCall
<1>9. BusyIsKnown' /\ AssetsAgree'
  BY <1>a, <1>b, <1>c, <1>d, <1>e DEF BusyIsKnown, AssetsAgree, Busy, assetState, handleState
<1>10. StartNotYetRunning'
  BY <1>a, <1>c, <1>d, <1>e DEF StartNotYetRunning
<1> QED BY <1>1, <1>2, <1>5, <1>7, <1>8, <1>9, <1>10, <1>d DEF PanicInv, LeaseInv

(* The invariant holds initially, and every step of the C interface keeps  *)
(* it.                                                                     *)
LEMMA PanicInit == CInit => PanicInv
BY LeaseInit DEF CInit, BridgeInit, CoreInit, PanicInv, StartNotYetRunning

LEMMA PanicNext == PanicInv /\ [CNext]_cVars => PanicInv'
<1> SUFFICES ASSUME PanicInv, [CNext]_cVars PROVE PanicInv' OBVIOUS
<1>1. CASE [BridgeNext]_vars
  <2>1. LeaseInv'
    BY <1>1, LeaseNext DEF PanicInv
  <2>2. [CoreNext]_coreVars
    BY <1>1, BridgeStepIsCoreStep DEF PanicInv, LeaseInv
  <2>3. StartNotYetRunning'
    BY <2>2, StartNotYetRunningNext DEF PanicInv, LeaseInv
  <2> QED BY <2>1, <2>3 DEF PanicInv
<1>2. ASSUME NEW t \in Threads, Recover(t) PROVE PanicInv'
  BY <1>2, RecoverKeepsLease
<1> QED BY <1>1, <1>2, StepOrRecover

(* With any number of recovered panics, at most one controller of the      *)
(* process runs or has a start or stop under way.                          *)
THEOREM OneSessionDespitePanics == CSpec => []OneSession
<1>1. PanicInv => OneSession
  BY OneBusy DEF PanicInv
<1> QED BY <1>1, PanicInit, PanicNext, PTL DEF CSpec

(* Between calls the lease still names exactly the controller that runs,   *)
(* so a host can start again after a start that panicked, and stop again   *)
(* after a stop that did.                                                  *)
THEOREM LeaseSurvivesPanics == CSpec => []LeaseMatchesSession
<1>1. PanicInv => LeaseMatchesSession
  BY LockFree, ControllersAreHandles DEF PanicInv, LeaseInv, LeaseOfOthers, LeaseMatchesSession
<1> QED BY <1>1, PanicInit, PanicNext, PTL DEF CSpec

(* A recovered panic resumes the collector, and only a start's does.       *)
LEMMA RecoverKeepsGc ==
  ASSUME GcHeldByStarts, NEW c \in Controllers, UnwindCore(c)
  PROVE  GcHeldByStarts' /\ [GC!GcNext]_gcVars
<1>1. CoreTypeOK' /\ PhaseTellsCall' /\ op' = [op EXCEPT ![c] = "none"] /\ op[c] # "none"
  BY UnwindEffect DEF GcHeldByStarts
<1>2. /\ op \in [Controllers -> {"none", "start", "stop"}]
      /\ restore \in [Controllers -> {"none", "armed", "done"}]
      /\ \A d \in Controllers : op[d] = "start" <=> restore[d] = "armed"
  BY DEF GcHeldByStarts, CoreTypeOK, GC!GcTypeOK
<1>3. CASE op[c] = "start"
  <2>1. GC!Restore(c) /\ restore' = [restore EXCEPT ![c] = "done"]
    BY <1>2, <1>3 DEF UnwindCore, GC!Restore
  <2> QED BY <1>1, <1>2, <2>1 DEF GcHeldByStarts, GC!GcNext
<1>4. CASE op[c] # "start"
  <2>1. UNCHANGED gcVars
    BY <1>4 DEF UnwindCore
  <2> QED BY <1>1, <1>2, <1>4, <2>1 DEF GcHeldByStarts, gcVars
<1> QED BY <1>3, <1>4

(* The collector is off exactly while some start is under way, also when   *)
(* starts end in a panic.                                                  *)
THEOREM GcSurvivesPanics == CSpec => []GcFollowsStarts
<1> DEFINE Inv == PanicInv /\ GcHeldByStarts /\ GC!GcInv
<1>1. CInit => Inv
  <2>1. CInit => GcHeldByStarts
    BY TypeInit DEF CInit, BridgeInit, CoreInit, GcHeldByStarts, PhaseTellsCall, GC!GcInit
  <2>2. CInit => GC!GcInit
    BY DEF CInit, BridgeInit, CoreInit
  <2> QED BY <2>1, <2>2, PanicInit, GcInvInit
<1>2. Inv /\ [CNext]_cVars => Inv'
  <2> SUFFICES ASSUME Inv, [CNext]_cVars PROVE Inv' OBVIOUS
  <2>1. GcHeldByStarts' /\ [GC!GcNext]_gcVars
    <3>1. CASE [BridgeNext]_vars
      <4>1. [CoreNext]_coreVars
        BY <3>1, BridgeStepIsCoreStep DEF PanicInv, LeaseInv
      <4> QED BY <4>1, GcHeldNext, GcStep
    <3>2. ASSUME NEW t \in Threads, Recover(t) PROVE GcHeldByStarts' /\ [GC!GcNext]_gcVars
      <4>1. At(t) \in Controllers /\ UnwindCore(At(t))
        BY <3>2, CallTarget DEF PanicInv, LeaseInv, Recover
      <4> QED BY <4>1, RecoverKeepsGc
    <3> QED BY <3>1, <3>2, StepOrRecover
  <2>2. GC!GcInv'
    BY <2>1, GcInvNext
  <2> QED BY <2>1, <2>2, PanicNext
<1>3. Inv => GcFollowsStarts
  BY GcHeldMeansOff
<1> QED BY <1>1, <1>2, <1>3, PTL DEF CSpec

(* A step of the bridge is of no thread or of one, and changes the call of *)
(* that one alone.                                                         *)
LEMMA BridgeStepOfOne ==
  ASSUME BridgeTypeOK, NEW t \in Threads, BridgeStep(t)
  PROVE  /\ call[t] # NoCall
         /\ \A u \in Threads : u # t => call'[u] = call[u]
         /\ call'[t] = NoCall \/ call'[t].kind = call[t].kind
<1>1. call \in [Threads -> Calls]
  BY DEF BridgeTypeOK
<1>2. call[t].pc # "idle"
  BY DEF BridgeStep, InitializeAssets, StartEnter, StartRefused, StartLeave, StopEnter, StopLeave,
         StopIdle, IsRunning, MeasureDelay, MeasureDelayEnd, Waiting, InCore
<1>3. call' = [call EXCEPT ![t] = NoCall] \/ \E pc : call' = [call EXCEPT ![t].pc = pc]
  BY <1>1 DEF BridgeStep, InitializeAssets, StartEnter, StartRefused, StartLeave, StopEnter,
         StopLeave, StopIdle, IsRunning, MeasureDelay, MeasureDelayEnd, Done, EnterCore
<1>4. call[t] \in Calls
  BY <1>1
<1> QED BY <1>1, <1>2, <1>3, <1>4 DEF NoCall, Calls

(* Every call that is under way is one of the operations, so that an       *)
(* action that ends has succeeded or failed.                               *)
CallsNamed == \A t \in Threads : call[t] = NoCall \/ call[t].kind \in CallKinds

LEMMA CallsNamedNext == PanicInv /\ CallsNamed /\ [CNext]_cVars => CallsNamed'
<1> SUFFICES ASSUME PanicInv, CallsNamed, [CNext]_cVars PROVE CallsNamed' OBVIOUS
<1>t. BridgeTypeOK /\ call \in [Threads -> Calls]
  BY DEF PanicInv, LeaseInv, BridgeTypeOK
<1>1. ASSUME NEW t \in Threads, NEW kind \in CallKinds, NEW r \in Runtimes, NEW h \in Handles,
             Export(t, kind, r, h)
      PROVE  CallsNamed'
  <2>1. call' = [call EXCEPT ![t] = [kind |-> kind, pc |-> "wait", r |-> r, h |-> h]]
    BY <1>1 DEF Export, Invoke
  <2> QED BY <1>t, <2>1 DEF CallsNamed
<1>2. ASSUME NEW t \in Threads, ActionStep(t) PROVE CallsNamed'
  <2>1. /\ call[t] # NoCall /\ \A u \in Threads : u # t => call'[u] = call[u]
        /\ call'[t] = NoCall \/ call'[t].kind = call[t].kind
    BY <1>t, <1>2, BridgeStepOfOne DEF ActionStep
  <2> QED BY <2>1 DEF CallsNamed
<1>3. ASSUME NEW t \in Threads, Recover(t) PROVE CallsNamed'
  <2>1. call' = [call EXCEPT ![t] = NoCall]
    BY <1>3 DEF Recover, Done
  <2> QED BY <1>t, <2>1 DEF CallsNamed
<1>4. CASE UNCHANGED call
  BY <1>4 DEF CallsNamed
<1> QED BY <1>1, <1>2, <1>3, <1>4
    DEF CNext, CoreStep, ExportElsewhere, Report, CreateClears, Create, CreateController, cVars,
        vars, bridgeVars

LEMMA OutcomesOfCalls ==
  ASSUME CallsNamed, NEW t \in Threads, call[t] # NoCall,
         NEW outcome \in Outcomes(t)
  PROVE  outcome \in {"ok", "failed"}
<1>1. call[t].kind \in CallKinds
  BY DEF CallsNamed
<1> QED BY <1>1 DEF Outcomes, OkIf, CallKinds, LeaseCalls

(* The inductive strengthening of LastErrorIsRecent.  It holds from the    *)
(* report of a call on, and with the report, whoever is in a call and was  *)
(* not then has begun it since.                                            *)
Reported(t) == result[t] # "none" /\ report[t] \in {"none", "create"}

Recent(t) ==
  /\ \A u \in Threads : u # t /\ u \notin since[t] => Ready(u)
  /\ result[t] = "failed" /\ since[t] = {} => lastError = t
  /\ result[t] = "failed" => lastError \in {t, NoThread} \cup since[t]
  /\ result[t] = "ok" => lastError \in {NoThread} \cup since[t]

ReportInv ==
  /\ report \in [Threads -> {"none", "ok", "failed", "create"}]
  /\ result \in [Threads -> {"none", "ok", "failed"}]
  /\ since \in [Threads -> SUBSET Threads]
  /\ \A t \in Threads :
       /\ report[t] \in {"ok", "failed"} => result[t] = report[t]
       /\ call[t] # NoCall => result[t] = "none" /\ report[t] = "none"
       /\ Reported(t) => Recent(t)

LEMMA ReportInit == CInit => ReportInv
BY DEF CInit, BridgeInit, ReportInv, Reported

(* A call that ends before its report, by an error, a success or a panic.  *)
LEMMA EndsKeepsReports ==
  ASSUME ReportInv, NEW t \in Threads, NEW outcome \in {"ok", "failed"}, Ends(t, outcome),
         call[t] # NoCall, call'[t] = NoCall, UNCHANGED lastError,
         \A u \in Threads : u # t => call'[u] = call[u]
  PROVE  ReportInv'
<1>1. /\ report' = [report EXCEPT ![t] = outcome] /\ result' = [result EXCEPT ![t] = outcome]
      /\ UNCHANGED since
  BY DEF Ends
<1>2. /\ report'[t] = outcome /\ result'[t] = outcome
      /\ \A u \in Threads : u # t =>
           report'[u] = report[u] /\ result'[u] = result[u] /\ (Ready(u) <=> Ready(u)')
      /\ ~Ready(t)
  BY <1>1 DEF ReportInv, Ready
<1>3. ASSUME NEW u \in Threads, u # t, Reported(u)' PROVE Recent(u)'
  <2>1. Reported(u) /\ Recent(u)
    BY <1>2, <1>3 DEF Reported, ReportInv
  <2> QED BY <1>1, <1>2, <1>3, <2>1 DEF Recent
<1>4. ~Reported(t)'
  BY <1>2 DEF Reported
<1>5. ASSUME NEW u \in Threads
      PROVE  /\ report'[u] \in {"ok", "failed"} => result'[u] = report'[u]
             /\ call'[u] # NoCall => result'[u] = "none" /\ report'[u] = "none"
  <2>1. CASE u = t
    BY <1>2, <2>1
  <2>2. CASE u # t
    BY <1>2, <2>2 DEF ReportInv
  <2> QED BY <2>1, <2>2
<1>6. /\ report' \in [Threads -> {"none", "ok", "failed", "create"}]
      /\ result' \in [Threads -> {"none", "ok", "failed"}]
      /\ since' \in [Threads -> SUBSET Threads]
  BY <1>1 DEF ReportInv
<1> QED BY <1>3, <1>4, <1>5, <1>6 DEF ReportInv

(* A call that begins with that outcome, reported already or not at all.   *)
LEMMA BeginsKeepsReports ==
  ASSUME ReportInv, NEW t \in Threads, Ready(t), NEW outcome \in {"none", "ok", "failed"},
         NEW others \in SUBSET Threads, Begins(t, outcome, others),
         NEW told \in {"none", "ok", "failed", "create"}, report' = [report EXCEPT ![t] = told],
         told \in {"ok", "failed"} => outcome = told,
         call'[t] # NoCall => outcome = "none" /\ told = "none",
         told = "create" => outcome = "ok" /\ others = OthersInCall(t),
         told = "none" => outcome = "none",
         \A u \in Threads : u # t => call'[u] = call[u],
         told = "create" => lastError' = NoThread,
         told # "create" => lastError' = lastError
  PROVE  ReportInv'
<1>1. /\ result' = [result EXCEPT ![t] = outcome]
      /\ since' = [u \in Threads |-> IF u = t THEN others
                                     ELSE IF result[u] = "none" THEN {} ELSE since[u] \cup {t}]
  BY DEF Begins
<1>2. /\ report'[t] = told /\ result'[t] = outcome /\ since'[t] = others
      /\ \A u \in Threads : u # t =>
           report'[u] = report[u] /\ result'[u] = result[u] /\ (Ready(u) <=> Ready(u)')
  BY <1>1 DEF ReportInv, Ready
<1>3. ASSUME NEW u \in Threads, u # t, Reported(u)' PROVE Recent(u)'
  <2>1. Reported(u) /\ Recent(u) /\ result[u] # "none"
    BY <1>2, <1>3 DEF Reported, ReportInv
  <2>2. since'[u] = since[u] \cup {t}
    BY <1>1, <1>3, <2>1
  <2> QED BY <1>2, <1>3, <2>1, <2>2 DEF Recent
<1>4. ASSUME Reported(t)' PROVE Recent(t)'
  <2>1. told = "create"
    BY <1>2, <1>4 DEF Reported
  <2>2. \A u \in Threads : u # t /\ u \notin since'[t] => Ready(u)'
    BY <1>2, <2>1 DEF OthersInCall
  <2> QED BY <1>2, <2>1, <2>2 DEF Recent
<1>5. ASSUME NEW u \in Threads
      PROVE  /\ report'[u] \in {"ok", "failed"} => result'[u] = report'[u]
             /\ call'[u] # NoCall => result'[u] = "none" /\ report'[u] = "none"
  <2>1. CASE u = t
    BY <1>2, <2>1
  <2>2. CASE u # t
    BY <1>2, <2>2 DEF ReportInv
  <2> QED BY <2>1, <2>2
<1>6. /\ report' \in [Threads -> {"none", "ok", "failed", "create"}]
      /\ result' \in [Threads -> {"none", "ok", "failed"}]
      /\ since' \in [Threads -> SUBSET Threads]
  BY <1>1 DEF ReportInv
<1> QED BY <1>3, <1>4, <1>5, <1>6 DEF ReportInv

(* The report of a call is new to it and to all that overlap it.           *)
LEMMA ReportKeepsReports ==
  ASSUME ReportInv, NEW t \in Threads, Report(t)
  PROVE  ReportInv'
<1>1. /\ report[t] \in {"ok", "failed"} /\ result[t] = report[t] /\ call[t] = NoCall
      /\ report' = [report EXCEPT ![t] = "none"]
      /\ since' = [since EXCEPT ![t] = OthersInCall(t)]
      /\ call' = call /\ result' = result
      /\ lastError' = IF report[t] = "failed" THEN t ELSE NoThread
  BY DEF Report, ReportInv, vars, bridgeVars
<1>2. /\ report'[t] = "none" /\ since'[t] = OthersInCall(t)
      /\ \A u \in Threads : u # t =>
           report'[u] = report[u] /\ since'[u] = since[u] /\ (Ready(u) <=> Ready(u)')
      /\ ~Ready(t)
  BY <1>1 DEF ReportInv, Ready
<1>3. ASSUME NEW u \in Threads, u # t, Reported(u)' PROVE Recent(u)'
  <2>1. Reported(u) /\ Recent(u)
    BY <1>1, <1>2, <1>3 DEF Reported, ReportInv
  <2>2. t \in since[u]
    BY <1>2, <1>3, <2>1 DEF Recent
  <2>3. \A v \in Threads : v # u /\ v \notin since'[u] => Ready(v)'
    BY <1>2, <1>3, <2>1, <2>2 DEF Recent
  <2> QED BY <1>1, <1>2, <1>3, <2>2, <2>3 DEF Recent
<1>4. Recent(t)'
  <2>1. \A u \in Threads : u # t /\ u \notin since'[t] => Ready(u)'
    BY <1>2 DEF OthersInCall
  <2> QED BY <1>1, <1>2, <2>1 DEF Recent
<1>5. ASSUME NEW u \in Threads
      PROVE  /\ report'[u] \in {"ok", "failed"} => result'[u] = report'[u]
             /\ call'[u] # NoCall => result'[u] = "none" /\ report'[u] = "none"
  <2>1. CASE u = t
    BY <1>1, <1>2, <2>1
  <2>2. CASE u # t
    BY <1>1, <1>2, <2>2 DEF ReportInv
  <2> QED BY <2>1, <2>2
<1>6. /\ report' \in [Threads -> {"none", "ok", "failed", "create"}]
      /\ result' \in [Threads -> {"none", "ok", "failed"}]
      /\ since' \in [Threads -> SUBSET Threads]
  BY <1>1 DEF ReportInv, OthersInCall
<1> QED BY <1>3, <1>4, <1>5, <1>6 DEF ReportInv

(* Steps that leave the reports alone, and may end the creation of a       *)
(* controller or take a call further.                                      *)
LEMMA QuietKeepsReports ==
  ASSUME ReportInv, UNCHANGED <<lastError, resultVars>>,
         report' \in [Threads -> {"none", "ok", "failed", "create"}],
         \A t \in Threads :
           /\ report'[t] = report[t] \/ (report[t] = "create" /\ report'[t] = "none")
           /\ call'[t] = call[t] \/ (call[t] # NoCall /\ call'[t] # NoCall)
  PROVE  ReportInv'
<1>1. \A t \in Threads : Ready(t) => Ready(t)'
  BY DEF Ready
<1>2. ASSUME NEW t \in Threads, Reported(t)' PROVE Recent(t)'
  <2>1. Reported(t) /\ Recent(t)
    BY <1>2 DEF Reported, ReportInv, resultVars
  <2> QED BY <1>1, <2>1 DEF Recent, resultVars
<1>3. ASSUME NEW t \in Threads
      PROVE  /\ report'[t] \in {"ok", "failed"} => result'[t] = report'[t]
             /\ call'[t] # NoCall => result'[t] = "none" /\ report'[t] = "none"
  BY DEF ReportInv, resultVars
<1> QED BY <1>2, <1>3 DEF ReportInv, resultVars

LEMMA NothingHappens ==
  ASSUME ReportInv, call' = call, report' = report, UNCHANGED <<lastError, resultVars>>
  PROVE  ReportInv'
<1>1. /\ report' \in [Threads -> {"none", "ok", "failed", "create"}]
      /\ \A t \in Threads : report'[t] = report[t] /\ call'[t] = call[t]
  BY DEF ReportInv
<1> QED BY <1>1, QuietKeepsReports

LEMMA ReportNext == PanicInv /\ CallsNamed /\ ReportInv /\ [CNext]_cVars => ReportInv'
<1> SUFFICES ASSUME PanicInv, CallsNamed, ReportInv, [CNext]_cVars PROVE ReportInv' OBVIOUS
<1>t. /\ BridgeTypeOK /\ CallsUnderLock /\ call \in [Threads -> Calls]
      /\ report \in [Threads -> {"none", "ok", "failed", "create"}]
  BY DEF PanicInv, LeaseInv, BridgeTypeOK, ReportInv
<1>1. CASE CoreStep /\ UNCHANGED <<errorVars, resultVars>>
  BY <1>1, NothingHappens DEF CoreStep, bridgeVars, errorVars
<1>2. ASSUME NEW t \in Threads, NEW kind \in CallKinds, NEW r \in Runtimes, NEW h \in Handles,
             Export(t, kind, r, h)
      PROVE  ReportInv'
  <2>1. /\ Ready(t) /\ Begins(t, "none", {}) /\ UNCHANGED errorVars
        /\ \A u \in Threads : u # t => call'[u] = call[u]
    BY <1>t, <1>2 DEF Export, Invoke
  <2>2. report' = [report EXCEPT ![t] = "none"] /\ UNCHANGED lastError
    BY <1>t, <2>1 DEF Ready, errorVars
  <2>3. {} \in SUBSET Threads
    OBVIOUS
  <2> QED BY <2>1, <2>2, <2>3, BeginsKeepsReports
<1>3. ASSUME NEW t \in Threads, ExportElsewhere(t) PROVE ReportInv'
  <2>1. PICK outcome \in {"ok", "failed"} :
          report' = [report EXCEPT ![t] = outcome] /\ Begins(t, outcome, {})
    BY <1>3 DEF ExportElsewhere
  <2>2. Ready(t) /\ call' = call /\ UNCHANGED lastError /\ call'[t] = NoCall
    BY <1>3 DEF ExportElsewhere, vars, bridgeVars, Ready
  <2>3. {} \in SUBSET Threads
    OBVIOUS
  <2>4. \A u \in Threads : u # t => call'[u] = call[u]
    BY <2>2
  <2> QED BY <2>1, <2>2, <2>3, <2>4, BeginsKeepsReports
<1>4. ASSUME NEW t \in Threads, ActionStep(t) PROVE ReportInv'
  <2>1. call[t] # NoCall /\ (\A u \in Threads : u # t => call'[u] = call[u]) /\ UNCHANGED lastError
    BY <1>t, <1>4, BridgeStepOfOne DEF ActionStep
  <2>2. CASE call'[t] = NoCall
    <3>1. PICK outcome \in Outcomes(t) : Ends(t, outcome)
      BY <1>4, <2>2 DEF ActionStep
    <3>2. outcome \in {"ok", "failed"}
      BY <2>1, OutcomesOfCalls
    <3> QED BY <2>1, <2>2, <3>1, <3>2, EndsKeepsReports
  <2>3. CASE call'[t] # NoCall
    <3>1. UNCHANGED <<report, resultVars>>
      BY <1>4, <2>3 DEF ActionStep
    <3>2. report' \in [Threads -> {"none", "ok", "failed", "create"}]
      BY <1>t, <3>1
    <3>3. \A u \in Threads :
            /\ report'[u] = report[u]
            /\ call'[u] = call[u] \/ (call[u] # NoCall /\ call'[u] # NoCall)
      BY <2>1, <2>3, <3>1
    <3>4. UNCHANGED <<lastError, resultVars>>
      BY <2>1, <3>1
    <3> QED BY <3>2, <3>3, <3>4, QuietKeepsReports
  <2> QED BY <2>2, <2>3
<1>5. ASSUME NEW t \in Threads, Report(t) PROVE ReportInv'
  BY <1>5, ReportKeepsReports
<1>6. ASSUME NEW t \in Threads, CreateClears(t) PROVE ReportInv'
  <2>1. /\ Ready(t) /\ Begins(t, "ok", OthersInCall(t)) /\ call' = call /\ call'[t] = NoCall
        /\ report' = [report EXCEPT ![t] = "create"] /\ lastError' = NoThread
    BY <1>6 DEF CreateClears, vars, bridgeVars, Ready
  <2>2. OthersInCall(t) \in SUBSET Threads
    BY DEF OthersInCall
  <2> QED BY <2>1, <2>2, BeginsKeepsReports
<1>7. ASSUME NEW t \in Threads, NEW r \in Runtimes, Create(t, r) PROVE ReportInv'
  <2>1. /\ report[t] = "create" /\ report' = [report EXCEPT ![t] = "none"]
        /\ call' = call /\ UNCHANGED <<lastError, resultVars>>
    BY <1>7 DEF Create, CreateController
  <2>2. report' \in [Threads -> {"none", "ok", "failed", "create"}]
    BY <1>t, <2>1
  <2>3. \A u \in Threads :
          /\ report'[u] = report[u] \/ (report[u] = "create" /\ report'[u] = "none")
          /\ call'[u] = call[u]
    BY <1>t, <2>1
  <2> QED BY <2>1, <2>2, <2>3, QuietKeepsReports
<1>8. ASSUME NEW t \in Threads, Recover(t) PROVE ReportInv'
  <2>1. call[t] # NoCall /\ call' = [call EXCEPT ![t] = NoCall]
    BY <1>8 DEF Recover, Done, NoCall
  <2>2. Ends(t, "failed") /\ UNCHANGED lastError
    BY <1>8 DEF Recover
  <2> QED BY <1>t, <2>1, <2>2, EndsKeepsReports
<1>9. CASE UNCHANGED cVars
  BY <1>9, NothingHappens DEF cVars, vars, bridgeVars, errorVars
<1> QED BY <1>1, <1>2, <1>3, <1>4, <1>5, <1>6, <1>7, <1>8, <1>9 DEF CNext

(* main.go:337: for any number of threads and runtimes, and whatever       *)
(* panics, a thread that asks for the last error after its own call reads  *)
(* no message of a call that had ended before, and a failure's message is  *)
(* lost only to a call that overlaps or follows it.                        *)
THEOREM LastErrorStaysRecent == CSpec => []LastErrorIsRecent
<1>1. ReportInv => LastErrorIsRecent
  BY DEF ReportInv, Reported, Recent, Ready, LastErrorIsRecent
<1>2. CInit => CallsNamed
  BY DEF CInit, BridgeInit, CallsNamed
<1> QED BY <1>1, <1>2, ReportInit, ReportNext, CallsNamedNext, PanicInit, PanicNext, PTL DEF CSpec
=============================================================================
