---------------------------- MODULE DesktopBridge ----------------------------
(***************************************************************************)
(* The desktop bridge (desktop/bridge/bridge.go): runtimes that hand out   *)
(* controller handles, and the process-wide lease that lets one controller *)
(* at a time run a core session.  Host threads call the bridge; a call     *)
(* that needs the lease holds coreProcessState and then r.mu from its      *)
(* first check to its return, the core's own steps (CoreController)        *)
(* included.  The calls that take only r.mu hold it for one look-up, so    *)
(* r.mu is held across steps only by the thread that holds the process     *)
(* lock, and both locks are represented by procLock.                       *)
(***************************************************************************)
EXTENDS CoreController

CONSTANTS
  Runtimes, NoRuntime,
  MaxHandle,          \* bound on the handles one runtime gives out
  Threads, NoThread,  \* host threads
  Dirs, NoDir,        \* asset directories that exist
  NoSession           \* the abstract lease when nobody has it

Handles == 1..MaxHandle
NoHandle == 0

ASSUME MaxHandleNat == MaxHandle \in Nat
ASSUME ControllersAreHandles == Controllers = Runtimes \X Handles
ASSUME NoRuntimeNotRuntime == NoRuntime \notin Runtimes
ASSUME NoThreadNotThread == NoThread \notin Threads
ASSUME NoDirNotDir == NoDir \notin Dirs
ASSUME NoSessionNotSession ==
  NoSession \notin [owner : Controllers, fd : Fds \cup {NoFd}, assets : Dirs]

VARIABLES
  \* coreProcessState
  procLock,                     \* the thread that holds the process lock
  assetRuntime, assetDirectory,
  activeRuntime, activeHandle,  \* the lease
  \* per runtime
  controllers, nextHandle, active, assetDir,
  assetEnv,                     \* the asset directory in the environment
  call                          \* per thread, the call it is making

leaseState == <<activeRuntime, activeHandle, active>>
assetState == <<assetRuntime, assetDirectory, assetDir, assetEnv>>
handleState == <<controllers, nextHandle>>
bridgeVars == <<procLock, leaseState, assetState, handleState, call>>
vars == <<coreVars, bridgeVars>>

LeaseCalls == {"start", "stop", "destroy"}
CallKinds == LeaseCalls \cup {"initializeAssets", "isRunning", "measureDelay"}

\* "wait": for the lock; "core": in StartLoop or StopLoop with the lock held;
\* "probing": measuring the delay through a session, without any lock.
Calls == [kind : CallKinds \cup {"none"}, pc : {"idle", "wait", "core", "probing"},
          r : Runtimes \cup {NoRuntime}, h : Nat]
NoCall == [kind |-> "none", pc |-> "idle", r |-> NoRuntime, h |-> NoHandle]

At(t) == <<call[t].r, call[t].h>>
Known(t) == call[t].h \in controllers[call[t].r]
Waiting(t, kind) == call[t].kind = kind /\ call[t].pc = "wait" /\ procLock = NoThread
InCore(t, kind) == call[t].kind = kind /\ call[t].pc = "core" /\ op[At(t)] = "none"
Done(t) == call' = [call EXCEPT ![t] = NoCall]
EnterCoreUnlocked(t) == UNCHANGED procLock /\ call' = [call EXCEPT ![t].pc = "core"]
EnterCore(t) == procLock' = t /\ call' = [call EXCEPT ![t].pc = "core"]

BridgeTypeOK ==
  /\ procLock \in Threads \cup {NoThread}
  /\ assetRuntime \in Runtimes \cup {NoRuntime}
  /\ assetDirectory \in Dirs \cup {NoDir}
  /\ activeRuntime \in Runtimes \cup {NoRuntime}
  /\ activeHandle \in Nat
  /\ controllers \in [Runtimes -> SUBSET Handles]
  /\ nextHandle \in [Runtimes -> Nat]
  /\ active \in [Runtimes -> Nat]
  /\ assetDir \in [Runtimes -> Dirs \cup {NoDir}]
  /\ assetEnv \in Dirs \cup {NoDir}
  /\ call \in [Threads -> Calls]

BridgeInit ==
  /\ CoreInit
  /\ procLock = NoThread
  /\ assetRuntime = NoRuntime /\ assetDirectory = NoDir
  /\ activeRuntime = NoRuntime /\ activeHandle = NoHandle
  /\ controllers = [r \in Runtimes |-> {}]
  /\ nextHandle = [r \in Runtimes |-> 0]
  /\ active = [r \in Runtimes |-> NoHandle]
  /\ assetDir = [r \in Runtimes |-> NoDir]
  /\ assetEnv = NoDir
  /\ call = [t \in Threads |-> NoCall]

-----------------------------------------------------------------------------
\* A thread calls the bridge, with any handle, known or not.
Invoke(t, kind, r, h) ==
  /\ call[t] = NoCall
  /\ call' = [call EXCEPT ![t] = [kind |-> kind, pc |-> "wait", r |-> r, h |-> h]]
  /\ UNCHANGED <<coreVars, procLock, leaseState, assetState, handleState>>

\* The runtime lock alone: free unless a call of this runtime is in the core.
RuntimeLockFree(r) == \A t \in Threads : procLock = t => call[t].r # r

CreateController(r) ==
  /\ RuntimeLockFree(r)
  /\ nextHandle[r] < MaxHandle
  /\ nextHandle' = [nextHandle EXCEPT ![r] = @ + 1]
  /\ controllers' = [controllers EXCEPT ![r] = @ \cup {nextHandle[r] + 1}]
  /\ UNCHANGED <<coreVars, procLock, leaseState, assetState, call>>

\* normalizeAssetDirectory has accepted dir; InitCoreEnv publishes it.
InitializeAssetsAnyTime(t, dir) ==
  /\ Waiting(t, "initializeAssets")
  /\ assetEnv' = dir
  /\ assetDir' = [assetDir EXCEPT ![call[t].r] = dir]
  /\ assetRuntime' = call[t].r
  /\ assetDirectory' = dir
  /\ Done(t)
  /\ UNCHANGED <<coreVars, procLock, leaseState, handleState>>

InitializeAssets(t, dir) ==
  /\ Waiting(t, "initializeAssets")
  /\ IF activeRuntime = NoRuntime
       THEN /\ assetEnv' = dir
            /\ assetDir' = [assetDir EXCEPT ![call[t].r] = dir]
            /\ assetRuntime' = call[t].r
            /\ assetDirectory' = dir
       ELSE UNCHANGED assetState
  /\ Done(t)
  /\ UNCHANGED <<coreVars, procLock, leaseState, handleState>>

-----------------------------------------------------------------------------
\* The checks of Start, in its order; a start that fails one is refused.
MayStart(t) ==
  /\ assetRuntime = call[t].r /\ assetDirectory # NoDir
  /\ Known(t)
  /\ activeRuntime # NoRuntime => activeRuntime = call[t].r /\ activeHandle = call[t].h
  /\ active[call[t].r] \in {NoHandle, call[t].h}
  /\ ~isRunning[At(t)]

StartEnter(t, fd) ==
  /\ Waiting(t, "start") /\ MayStart(t)
  /\ StartLoop(At(t), fd)
  /\ EnterCore(t)
  /\ UNCHANGED <<leaseState, assetState, handleState>>

StartRefused(t) ==
  /\ Waiting(t, "start") /\ ~MayStart(t)
  /\ Done(t)
  /\ UNCHANGED <<coreVars, procLock, leaseState, assetState, handleState>>

\* StartLoop has returned: the lease is taken only if it succeeded.
StartLeaveWithoutProcessLease(t) ==
  /\ InCore(t, "start")
  /\ active' = [active EXCEPT ![call[t].r] = IF isRunning[At(t)] THEN call[t].h ELSE @]
  /\ procLock' = NoThread
  /\ Done(t)
  /\ UNCHANGED <<coreVars, activeRuntime, activeHandle, assetState, handleState>>

StartLeave(t) ==
  /\ InCore(t, "start")
  /\ IF isRunning[At(t)]
       THEN /\ active' = [active EXCEPT ![call[t].r] = call[t].h]
            /\ activeRuntime' = call[t].r
            /\ activeHandle' = call[t].h
       ELSE UNCHANGED leaseState
  /\ procLock' = NoThread
  /\ Done(t)
  /\ UNCHANGED <<coreVars, assetState, handleState>>

-----------------------------------------------------------------------------
\* "if r.active == handle ..." and clearProcessActiveLocked.
ReleaseLease(r, h) ==
  /\ active' = [active EXCEPT ![r] = IF @ = h THEN NoHandle ELSE @]
  /\ IF activeRuntime = r /\ activeHandle = h
       THEN activeRuntime' = NoRuntime /\ activeHandle' = NoHandle
       ELSE UNCHANGED <<activeRuntime, activeHandle>>

\* Stop and DestroyController of a running session enter StopLoop ...
StopEnter(t) ==
  /\ Waiting(t, "stop") \/ Waiting(t, "destroy")
  /\ Known(t)
  /\ StopLoop(At(t))
  /\ EnterCore(t)
  /\ UNCHANGED <<leaseState, assetState, handleState>>

\* ... and, whether or not Close reported an error, release the lease after it.
StopLeave(t) ==
  /\ InCore(t, "stop") \/ InCore(t, "destroy")
  /\ ReleaseLease(call[t].r, call[t].h)
  /\ controllers' = [controllers EXCEPT ![call[t].r] =
                       IF call[t].kind = "destroy" THEN @ \ {call[t].h} ELSE @]
  /\ procLock' = NoThread
  /\ Done(t)
  /\ UNCHANGED <<coreVars, assetState, nextHandle>>

\* With no session of that controller there is nothing to stop.
StopIdle(t) ==
  /\ Waiting(t, "stop") \/ Waiting(t, "destroy")
  /\ IF Known(t)
       THEN /\ ~isRunning[At(t)]
            /\ ReleaseLease(call[t].r, call[t].h)
            /\ controllers' = [controllers EXCEPT ![call[t].r] =
                                 IF call[t].kind = "destroy" THEN @ \ {call[t].h} ELSE @]
       ELSE UNCHANGED <<leaseState, controllers>>
  /\ Done(t)
  /\ UNCHANGED <<coreVars, procLock, assetState, nextHandle>>

\* IsRunning repairs a lease whose controller is not running.
IsRunning(t) ==
  /\ Waiting(t, "isRunning")
  /\ IF Known(t) /\ ~isRunning[At(t)]
       THEN ReleaseLease(call[t].r, call[t].h)
       ELSE UNCHANGED leaseState
  /\ Done(t)
  /\ UNCHANGED <<coreVars, procLock, assetState, handleState>>

-----------------------------------------------------------------------------
\* MeasureDelay looks the controller up under r.mu, reads its instance under
\* c.mu and probes through it with neither lock.
MeasureDelayUnderTheLock(t) ==
  /\ call[t].kind = "measureDelay" /\ call[t].pc = "wait"
  /\ procLock = NoThread
  /\ IF Known(t) /\ instance[At(t)] # NoInst
       THEN call' = [call EXCEPT ![t].pc = "probing"] /\ procLock' = t
       ELSE Done(t) /\ UNCHANGED procLock
  /\ UNCHANGED <<coreVars, leaseState, assetState, handleState>>

MeasureDelay(t) ==
  /\ call[t].kind = "measureDelay" /\ call[t].pc = "wait"
  /\ RuntimeLockFree(call[t].r)
  /\ IF Known(t) /\ instance[At(t)] # NoInst
       THEN call' = [call EXCEPT ![t].pc = "probing"]
       ELSE Done(t)
  /\ UNCHANGED <<coreVars, procLock, leaseState, assetState, handleState>>

MeasureDelayEnd(t) ==
  /\ call[t].pc = "probing"
  /\ Done(t)
  /\ UNCHANGED <<coreVars, procLock, leaseState, assetState, handleState>>

-----------------------------------------------------------------------------
\* Steps of the core and of the host that take no bridge lock.
CoreStep ==
  /\ \/ HostStep
     \/ \E c \in Controllers : CallStep(c)
     \/ \E p \in Probes : ProbeStep(p)
  /\ UNCHANGED bridgeVars

BridgeStep(t) ==
  \/ \E dir \in Dirs : InitializeAssets(t, dir)
  \/ \E fd \in Fds \cup {NoFd} : StartEnter(t, fd)
  \/ StartRefused(t) \/ StartLeave(t)
  \/ StopEnter(t) \/ StopLeave(t) \/ StopIdle(t)
  \/ IsRunning(t)
  \/ MeasureDelay(t) \/ MeasureDelayEnd(t)

BridgeNext ==
  \/ CoreStep
  \/ \E r \in Runtimes : CreateController(r)
  \/ \E t \in Threads :
       \/ \E kind \in CallKinds, r \in Runtimes, h \in Handles : Invoke(t, kind, r, h)
       \/ BridgeStep(t)

BridgeSpec == BridgeInit /\ [][BridgeNext]_vars

(* The core's own steps and the bookkeeping after them take bounded time;  *)
(* Go's mutex hands itself to a waiter that has waited long enough (strong *)
(* fairness).  Nothing is assumed about new calls, probes or the end of a  *)
(* delay measurement.                                                      *)
Fairness ==
  /\ \A c \in Controllers : WF_vars(CallStep(c) /\ UNCHANGED bridgeVars)
  /\ \A t \in Threads :
       /\ WF_vars(StartLeave(t) \/ StopLeave(t))
       /\ SF_vars(StopEnter(t) \/ StopIdle(t))

FairBridgeSpec == BridgeSpec /\ Fairness

-----------------------------------------------------------------------------
Busy(c) == isRunning[c] \/ op[c] # "none"

(* bridge.go:51 "exactly one may run a core instance at any time": no two  *)
(* controllers, of one runtime or of two, ever have a session, a start or  *)
(* a stop at the same time.                                                *)
OneSession == \A c, d \in Controllers : Busy(c) /\ Busy(d) => c = d

(* When no call holds the process lock, the lease names exactly the        *)
(* controller that runs, in the process state and in its runtime, so that  *)
(* no start is refused because of a session that is gone.                  *)
LeaseMatchesSession ==
  procLock = NoThread =>
    \A r \in Runtimes, h \in Handles :
      /\ isRunning[<<r, h>>] <=> activeRuntime = r /\ activeHandle = h
      /\ isRunning[<<r, h>>] <=> active[r] = h

(* A session never loses its handle: the controller of a session can still *)
(* be looked up, so the host can stop it.                                  *)
NoOrphanSession ==
  procLock = NoThread =>
    \A r \in Runtimes, h \in Handles : isRunning[<<r, h>>] => h \in controllers[r]

(* While a session runs, the process environment holds the asset directory *)
(* that its own runtime registered, and the runtime knows it.              *)
SessionAssets ==
  \A r \in Runtimes, h \in Handles :
    Busy(<<r, h>>) => assetRuntime = r /\ assetEnv # NoDir /\ assetDir[r] = assetEnv

(* The inductive strengthening of the four properties above.  The locks    *)
(* are held exactly by a call that is in the core, only such a call has a  *)
(* controller busy, and only that controller may be out of step with the   *)
(* lease: a start found the lease free, a stop found it its own.           *)
CallsUnderLock ==
  \A t \in Threads :
    /\ call[t].pc = "core" <=> procLock = t
    /\ call[t].pc # "idle" => call[t].r \in Runtimes /\ call[t].h \in Handles
    /\ procLock = t =>
         \/ call[t].kind = "start" /\ op[At(t)] \in {"none", "start"}
         \/ call[t].kind \in {"stop", "destroy"} /\ op[At(t)] \in {"none", "stop"}

InCoreNow(c) == \E t \in Threads : procLock = t /\ At(t) = c

BusyUnderLock == \A c \in Controllers : op[c] # "none" => InCoreNow(c)

LeaseOfOthers ==
  \A c \in Controllers : ~InCoreNow(c) =>
    /\ isRunning[c] <=> activeRuntime = c[1] /\ activeHandle = c[2]
    /\ isRunning[c] <=> active[c[1]] = c[2]

LeaseOfCall ==
  \A t \in Threads : procLock = t =>
    /\ call[t].kind = "start" =>
         activeRuntime = NoRuntime /\ active[call[t].r] # call[t].h
    /\ call[t].kind # "start" =>
         /\ activeRuntime = call[t].r /\ activeHandle = call[t].h
         /\ active[call[t].r] = call[t].h
         /\ op[At(t)] = "none" => ~isRunning[At(t)]

BusyIsKnown ==
  \A c \in Controllers : Busy(c) =>
    /\ c[2] \in controllers[c[1]]
    /\ assetRuntime = c[1] /\ assetEnv # NoDir /\ assetDir[c[1]] = assetEnv

AssetsAgree ==
  /\ assetDirectory = assetEnv
  /\ assetRuntime # NoRuntime => assetDir[assetRuntime] = assetEnv

LeaseInv ==
  /\ CoreTypeOK /\ PhaseTellsCall /\ BridgeTypeOK
  /\ CallsUnderLock /\ BusyUnderLock /\ LeaseOfOthers /\ LeaseOfCall
  /\ BusyIsKnown /\ AssetsAgree

(* A session sees the TUN descriptor that its own start was given, never   *)
(* one that another controller or a failed start published.                *)
OwnDescriptor ==
  \A c \in Controllers :
    isRunning[c] /\ instance[c] \in alive => seenFd[instance[c]] = lentFd[c]

(* Between calls, the remembered log handler is the running session's: no  *)
(* late clearConnectionLog of an earlier session wipes it.                 *)
SessionLogRemembered ==
  \A c \in Controllers :
    op[c] = "none" => activeConnectionLog = instance[c] \/ ~isRunning[c]

(* The inductive strengthening of the two properties above: with one       *)
(* controller busy at a time, nobody else writes the environment between   *)
(* its PublishTunFd and its core.New, or the remembered handler after its  *)
(* InstallStore.                                                           *)
OwnProcessState ==
  \A c \in Controllers :
    /\ phase[c] = "new" => tunFdEnv = lentFd[c]
    /\ phase[c] \in {"install", "register", "boot"} => seenFd[server[c]] = lentFd[c]
    /\ phase[c] \in {"register", "boot"} => activeConnectionLog = server[c]
    /\ isRunning[c] /\ phase[c] \in {"idle", "return"} => activeConnectionLog = instance[c]

SessionInv == LeaseInv /\ OwnerInv /\ OwnProcessState /\ OwnDescriptor

(* The bridge implements the abstract session lease.  A session lasts from *)
(* the successful server.Start to the Close of its instance.               *)
Live(c) == isRunning[c] /\ instance[c] \in alive

SessionNow ==
  IF \E c \in Controllers : Live(c)
    THEN LET c == CHOOSE c \in Controllers : Live(c)
         IN  [owner |-> c, fd |-> seenFd[instance[c]], assets |-> assetEnv]
    ELSE NoSession

Lease == INSTANCE SessionLease WITH
           Owners <- Controllers, Descriptors <- Fds \cup {NoFd},
           Assets <- Dirs, NoSession <- NoSession, session <- SessionNow

ImplementsLease == Lease!LeaseSpec

(* bridge.go:258-261: Stop stays responsive while a delay measurement is   *)
(* in flight, even one that never ends: every Stop and every Destroy       *)
(* eventually returns.                                                     *)
StopReturns ==
  \A t \in Threads : call[t].kind \in {"stop", "destroy"} ~> call[t].kind = "none"
=============================================================================
