--------------------------- MODULE CoreController ---------------------------
(***************************************************************************)
(* Core controllers (skipicore.go) and the process-wide state they share:  *)
(* the TUN descriptor in the environment, Xray's global log handler, the   *)
(* pointer to the active connection log (connection_log.go) and the GC     *)
(* pause (GcPause).  Every controller has its own mutex; nothing here      *)
(* serialises one controller with another or with the isolated test        *)
(* instances ("probes") of MeasureOutboundDelay, MeasureOutboundDownload   *)
(* and FastSelectBestOutbound.  StartLoop and StopLoop run under c.mu and  *)
(* are cut into one step per access to shared state; c.mu is held exactly  *)
(* while op[c] # "none".                                                   *)
(***************************************************************************)
EXTENDS Integers, FiniteSets

CONSTANTS
  Controllers,     \* the CoreController objects of the process
  Probes,          \* calls that run an isolated test instance
  Insts,           \* identities of Xray instances, reused once nothing refers to them
  Fds,             \* TUN descriptors of the host
  NoInst, NoFd,    \* a nil instance pointer; no descriptor (tunFd <= 0, variable unset)
  SteadyPercent,   \* GOGC in steady state
  ProbeNewMayFail  \* whether core.New may reject the configuration of a probe

ASSUME ControllersFinite == IsFiniteSet(Controllers)
ASSUME SteadyPercentNat == SteadyPercent \in Nat
ASSUME NoInstNotInst == NoInst \notin Insts
ASSUME NoFdNotFd == NoFd \notin Fds
ASSUME ProbeNewMayFailBoolean == ProbeNewMayFail \in BOOLEAN

VARIABLES
  \* per controller: the call that holds c.mu, where it is, and the fields
  op, phase,       \* "none", "start" or "stop"; the step of that call
  lentFd,          \* the descriptor the host passed to the call or session
  server,          \* the local variable of StartLoop / StopLoop
  isRunning, instance, connLog, statsManager,
  hostView,        \* what the callbacks last told the host: "down" or "up"
  \* process-wide
  tunFdEnv,        \* the environment variables tunFdKey and v2rayTunFdKey
  activeConnectionLog, \* the session whose handler is remembered
  logHandler,      \* Xray's registered handler: whose, and which kind
  openFds,         \* the descriptors that are open
  alive,           \* instances constructed and not closed
  seenFd,          \* per live instance, the descriptor that its core.New found published
  \* per probe
  probePc, probeInst, probeSaw,
  \* GC pause
  gcPauseHolders, gcPausePrevious, gcPercent, restore

GC == INSTANCE GcPause WITH Starts <- Controllers

callVars == <<op, phase, lentFd, server>>
fieldVars == <<isRunning, instance, connLog, statsManager, hostView>>
logVars == <<activeConnectionLog, logHandler>>
fdVars == <<tunFdEnv, openFds>>
instVars == <<alive, seenFd>>
probeVars == <<probePc, probeInst, probeSaw>>
gcVars == <<gcPauseHolders, gcPausePrevious, gcPercent, restore>>
coreVars == <<callVars, fieldVars, logVars, fdVars, instVars, probeVars, gcVars>>

Phases == {"idle", "load", "publish", "new", "install", "register", "boot",
           "close", "forget", "forgetStore", "unpublish", "return"}
ProbePcs == {"idle", "load", "reregister", "start", "measure"}

\* "xray": the log app of an instance, registered by core.New; "session": the
\* connectionLogHandler in front of it; "none": nothing registered yet.
Handlers == [kind : {"none", "xray", "session"}, inst : Insts \cup {NoInst}]

CoreTypeOK ==
  /\ op \in [Controllers -> {"none", "start", "stop"}]
  /\ phase \in [Controllers -> Phases]
  /\ lentFd \in [Controllers -> Fds \cup {NoFd}]
  /\ server \in [Controllers -> Insts \cup {NoInst}]
  /\ isRunning \in [Controllers -> BOOLEAN]
  /\ instance \in [Controllers -> Insts \cup {NoInst}]
  /\ connLog \in [Controllers -> Insts \cup {NoInst}]
  /\ statsManager \in [Controllers -> Insts \cup {NoInst}]
  /\ hostView \in [Controllers -> {"down", "up"}]
  /\ tunFdEnv \in Fds \cup {NoFd}
  /\ openFds \subseteq Fds
  /\ activeConnectionLog \in Insts \cup {NoInst}
  /\ logHandler \in Handlers
  /\ alive \subseteq Insts
  /\ seenFd \in [Insts -> Fds \cup {NoFd}]
  /\ probePc \in [Probes -> ProbePcs]
  /\ probeInst \in [Probes -> Insts \cup {NoInst}]
  /\ probeSaw \in [Probes -> Insts \cup {NoInst}]
  /\ GC!GcTypeOK

CoreInit ==
  /\ op = [c \in Controllers |-> "none"]
  /\ phase = [c \in Controllers |-> "idle"]
  /\ lentFd = [c \in Controllers |-> NoFd]
  /\ server = [c \in Controllers |-> NoInst]
  /\ isRunning = [c \in Controllers |-> FALSE]
  /\ instance = [c \in Controllers |-> NoInst]
  /\ connLog = [c \in Controllers |-> NoInst]
  /\ statsManager = [c \in Controllers |-> NoInst]
  /\ hostView = [c \in Controllers |-> "down"]
  /\ tunFdEnv = NoFd
  /\ openFds = {}
  /\ activeConnectionLog = NoInst
  /\ logHandler = [kind |-> "none", inst |-> NoInst]
  /\ alive = {}
  /\ seenFd = [i \in Insts |-> NoFd]
  /\ probePc = [p \in Probes |-> "idle"]
  /\ probeInst = [p \in Probes |-> NoInst]
  /\ probeSaw = [p \in Probes |-> NoInst]
  /\ GC!GcInit

\* An identity is free when nothing in the process refers to that instance.
InUse(i) ==
  \/ i \in alive \cup {activeConnectionLog, logHandler.inst}
  \/ \E c \in Controllers : i \in {server[c], instance[c], connLog[c], statsManager[c]}
  \/ \E p \in Probes : i \in {probeInst[p], probeSaw[p]}

XrayHandler(i) == [kind |-> "xray", inst |-> i]
SessionHandler(i) == [kind |-> "session", inst |-> i]

Goto(c, p) == phase' = [phase EXCEPT ![c] = p]

-----------------------------------------------------------------------------
(* The host opens TUN descriptors and lends them to a start; it closes a   *)
(* descriptor only while no call and no session has it.                    *)
OpenFd(fd) ==
  /\ fd \notin openFds
  /\ openFds' = openFds \cup {fd}
  /\ UNCHANGED <<callVars, fieldVars, logVars, tunFdEnv, instVars, probeVars, gcVars>>

CloseFd(fd) ==
  /\ fd \in openFds
  /\ \A c \in Controllers : lentFd[c] # fd
  /\ openFds' = openFds \ {fd}
  /\ UNCHANGED <<callVars, fieldVars, logVars, tunFdEnv, instVars, probeVars, gcVars>>

-----------------------------------------------------------------------------
(***************************************************************************)
(* StartLoop.  A start of a running controller is refused and changes      *)
(* nothing.                                                                *)
(***************************************************************************)
StartLoop(c, fd) ==
  /\ op[c] = "none" /\ ~isRunning[c]
  /\ fd # NoFd => fd \in openFds /\ \A d \in Controllers : lentFd[d] # fd
  /\ op' = [op EXCEPT ![c] = "start"]
  /\ Goto(c, "load")
  /\ lentFd' = [lentFd EXCEPT ![c] = fd]
  /\ statsManager' = [statsManager EXCEPT ![c] = NoInst]
  /\ GC!pauseGCForStartup(c)
  /\ UNCHANGED <<server, isRunning, instance, connLog, hostView, logVars, fdVars,
                 instVars, probeVars>>

LoadJSONConfig(c) ==
  /\ phase[c] = "load"
  /\ Goto(c, "publish") \/ Goto(c, "return")   \* accepted, or rejected
  /\ UNCHANGED <<op, lentFd, server, fieldVars, logVars, fdVars, instVars, probeVars, gcVars>>

\* A start without a descriptor unsets the variables.
PublishTunFd(c) ==
  /\ phase[c] = "publish"
  /\ tunFdEnv' = lentFd[c]
  /\ Goto(c, "new")
  /\ UNCHANGED <<op, lentFd, server, fieldVars, logVars, openFds, instVars, probeVars, gcVars>>

\* core.New reads the environment and registers the log app of the new
\* instance; one that fails may have registered a handler before it failed.
FailedNewWithoutCleanup(c) ==
  /\ phase[c] = "new"
  /\ \/ \E i \in Insts :
          /\ ~InUse(i)
          /\ alive' = alive \cup {i}
          /\ seenFd' = [seenFd EXCEPT ![i] = tunFdEnv]
          /\ logHandler' = XrayHandler(i)
          /\ server' = [server EXCEPT ![c] = i]
          /\ Goto(c, "install")
     \/ /\ logHandler' \in {logHandler, XrayHandler(NoInst)}
        /\ Goto(c, "return")
        /\ UNCHANGED <<server, instVars>>
  /\ UNCHANGED <<op, lentFd, fieldVars, activeConnectionLog, fdVars, probeVars, gcVars>>

CoreNew(c) ==
  /\ phase[c] = "new"
  /\ \/ \E i \in Insts :
          /\ ~InUse(i)
          /\ alive' = alive \cup {i}
          /\ seenFd' = [seenFd EXCEPT ![i] = tunFdEnv]
          /\ logHandler' = XrayHandler(i)
          /\ server' = [server EXCEPT ![c] = i]
          /\ Goto(c, "install")
     \/ /\ logHandler' \in {logHandler, XrayHandler(NoInst)}
        /\ Goto(c, "unpublish")
        /\ UNCHANGED <<server, instVars>>
  /\ UNCHANGED <<op, lentFd, fieldVars, activeConnectionLog, fdVars, probeVars, gcVars>>

\* installConnectionLog: Store, then RegisterHandler.
InstallWithoutStore(c) ==
  /\ phase[c] = "install"
  /\ Goto(c, "register")
  /\ UNCHANGED <<op, lentFd, server, fieldVars, logVars, fdVars, instVars, probeVars, gcVars>>

InstallStore(c) ==
  /\ phase[c] = "install"
  /\ activeConnectionLog' = server[c]
  /\ Goto(c, "register")
  /\ UNCHANGED <<op, lentFd, server, fieldVars, logHandler, fdVars, instVars, probeVars, gcVars>>

\* The statistics manager is there only if the configuration asks for it.
InstallRegister(c) ==
  /\ phase[c] = "register"
  /\ logHandler' = SessionHandler(server[c])
  /\ \E m \in {server[c], NoInst} : statsManager' = [statsManager EXCEPT ![c] = m]
  /\ Goto(c, "boot")
  /\ UNCHANGED <<op, lentFd, server, isRunning, instance, connLog, hostView,
                 activeConnectionLog, fdVars, instVars, probeVars, gcVars>>

\* server.Start, then the fields and the callbacks, still under c.mu.
FailedStartWithoutClose(c) ==
  /\ phase[c] = "boot"
  /\ \/ /\ instance' = [instance EXCEPT ![c] = server[c]]
        /\ connLog' = [connLog EXCEPT ![c] = server[c]]
        /\ isRunning' = [isRunning EXCEPT ![c] = TRUE]
        /\ hostView' = [hostView EXCEPT ![c] = "up"]
        /\ Goto(c, "return")
     \/ /\ Goto(c, "forget")
        /\ UNCHANGED <<instance, connLog, isRunning, hostView>>
  /\ UNCHANGED <<op, lentFd, server, statsManager, logVars, fdVars, instVars, probeVars, gcVars>>

ServerStart(c) ==
  /\ phase[c] = "boot"
  /\ \/ /\ instance' = [instance EXCEPT ![c] = server[c]]
        /\ connLog' = [connLog EXCEPT ![c] = server[c]]
        /\ isRunning' = [isRunning EXCEPT ![c] = TRUE]
        /\ hostView' = [hostView EXCEPT ![c] = "up"]
        /\ Goto(c, "return")
     \/ /\ Goto(c, "close")
        /\ UNCHANGED <<instance, connLog, isRunning, hostView>>
  /\ UNCHANGED <<op, lentFd, server, statsManager, logVars, fdVars, instVars, probeVars, gcVars>>

(***************************************************************************)
(* StopLoop, and the roll-back of a start whose server.Start failed: both  *)
(* close the instance, forget the connection log and clear the descriptor. *)
(* The result of Close is returned to the caller and changes nothing else. *)
(***************************************************************************)
StopLoop(c) ==
  /\ op[c] = "none" /\ isRunning[c] /\ instance[c] # NoInst
  /\ op' = [op EXCEPT ![c] = "stop"]
  /\ server' = [server EXCEPT ![c] = instance[c]]
  /\ Goto(c, "close")
  /\ UNCHANGED <<lentFd, fieldVars, logVars, fdVars, instVars, probeVars, gcVars>>

CloseServer(c) ==
  /\ phase[c] = "close"
  /\ alive' = alive \ {server[c]}
  /\ seenFd' = [seenFd EXCEPT ![server[c]] = NoFd]
  /\ Goto(c, "forget")
  /\ UNCHANGED <<op, lentFd, server, fieldVars, logVars, fdVars, probeVars, gcVars>>

\* clearConnectionLog: Load and compare, then Store(nil).
ForgetOnlyOnStop(c) ==
  /\ phase[c] = "forget"
  /\ Goto(c, IF op[c] = "stop" /\ activeConnectionLog = server[c]
               THEN "forgetStore" ELSE "unpublish")
  /\ UNCHANGED <<op, lentFd, server, fieldVars, logVars, fdVars, instVars, probeVars, gcVars>>

ForgetLoad(c) ==
  /\ phase[c] = "forget"
  /\ Goto(c, IF activeConnectionLog = server[c] THEN "forgetStore" ELSE "unpublish")
  /\ UNCHANGED <<op, lentFd, server, fieldVars, logVars, fdVars, instVars, probeVars, gcVars>>

ForgetStore(c) ==
  /\ phase[c] = "forgetStore"
  /\ activeConnectionLog' = NoInst
  /\ Goto(c, "unpublish")
  /\ UNCHANGED <<op, lentFd, server, fieldVars, logHandler, fdVars, instVars, probeVars, gcVars>>

\* clearTunFdEnv, the fields reset under c.mu and, after a stop, the callbacks.
UnpublishForgettingInstance(c) ==
  /\ phase[c] = "unpublish"
  /\ tunFdEnv' = NoFd
  /\ server' = [server EXCEPT ![c] = NoInst]
  /\ connLog' = [connLog EXCEPT ![c] = NoInst]
  /\ statsManager' = [statsManager EXCEPT ![c] = NoInst]
  /\ isRunning' = [isRunning EXCEPT ![c] = FALSE]
  /\ hostView' = [hostView EXCEPT ![c] = IF op[c] = "stop" THEN "down" ELSE @]
  /\ Goto(c, "return")
  /\ UNCHANGED <<op, lentFd, instance, logVars, openFds, instVars, probeVars, gcVars>>

Unpublish(c) ==
  /\ phase[c] = "unpublish"
  /\ tunFdEnv' = NoFd
  /\ server' = [server EXCEPT ![c] = NoInst]
  /\ instance' = [instance EXCEPT ![c] = NoInst]
  /\ connLog' = [connLog EXCEPT ![c] = NoInst]
  /\ statsManager' = [statsManager EXCEPT ![c] = NoInst]
  /\ isRunning' = [isRunning EXCEPT ![c] = FALSE]
  /\ hostView' = [hostView EXCEPT ![c] = IF op[c] = "stop" THEN "down" ELSE @]
  /\ Goto(c, "return")
  /\ UNCHANGED <<op, lentFd, logVars, openFds, instVars, probeVars, gcVars>>

\* The deferred calls: a start resumes the GC, then c.mu is released.
ReturnWithoutResume(c) ==
  /\ phase[c] = "return"
  /\ op' = [op EXCEPT ![c] = "none"]
  /\ Goto(c, "idle")
  /\ server' = [server EXCEPT ![c] = NoInst]
  /\ lentFd' = [lentFd EXCEPT ![c] = IF isRunning[c] THEN @ ELSE NoFd]
  /\ IF isRunning[c] /\ op[c] = "start" THEN GC!Restore(c) ELSE UNCHANGED gcVars
  /\ UNCHANGED <<fieldVars, logVars, fdVars, instVars, probeVars>>

ReturnResumesAtOnce(c) ==
  /\ phase[c] = "return"
  /\ op' = [op EXCEPT ![c] = "none"]
  /\ Goto(c, "idle")
  /\ server' = [server EXCEPT ![c] = NoInst]
  /\ lentFd' = [lentFd EXCEPT ![c] = IF isRunning[c] THEN @ ELSE NoFd]
  /\ IF op[c] = "start"
       THEN /\ gcPercent' = gcPausePrevious
            /\ gcPauseHolders' = gcPauseHolders - 1
            /\ restore' = [restore EXCEPT ![c] = "done"]
            /\ UNCHANGED gcPausePrevious
       ELSE UNCHANGED gcVars
  /\ UNCHANGED <<fieldVars, logVars, fdVars, instVars, probeVars>>

Return(c) ==
  /\ phase[c] = "return"
  /\ op' = [op EXCEPT ![c] = "none"]
  /\ Goto(c, "idle")
  /\ server' = [server EXCEPT ![c] = NoInst]
  /\ lentFd' = [lentFd EXCEPT ![c] = IF isRunning[c] THEN @ ELSE NoFd]
  /\ IF op[c] = "start" THEN GC!Restore(c) ELSE UNCHANGED gcVars
  /\ UNCHANGED <<fieldVars, logVars, fdVars, instVars, probeVars>>

\* Everything a call does between taking and releasing c.mu.
CallStep(c) ==
  \/ LoadJSONConfig(c) \/ PublishTunFd(c) \/ CoreNew(c)
  \/ InstallStore(c) \/ InstallRegister(c) \/ ServerStart(c)
  \/ CloseServer(c) \/ ForgetLoad(c) \/ ForgetStore(c) \/ Unpublish(c)
  \/ Return(c)

-----------------------------------------------------------------------------
(***************************************************************************)
(* Probes: startOutboundTestInstance (and the same steps in                *)
(* FastSelectBestOutbound), the measurement, and the deferred Close.       *)
(***************************************************************************)
ProbeNew(p) ==
  /\ probePc[p] = "idle"
  /\ \/ \E i \in Insts :
          /\ ~InUse(i)
          /\ alive' = alive \cup {i}
          /\ seenFd' = [seenFd EXCEPT ![i] = tunFdEnv]
          /\ logHandler' = XrayHandler(i)
          /\ probeInst' = [probeInst EXCEPT ![p] = i]
          /\ probePc' = [probePc EXCEPT ![p] = "load"]
     \/ /\ ProbeNewMayFail
        /\ logHandler' \in {logHandler, XrayHandler(NoInst)}
        \* and it returns before restoreConnectionLog
        /\ UNCHANGED <<instVars, probeInst, probePc>>
  /\ UNCHANGED <<callVars, fieldVars, activeConnectionLog, fdVars, probeSaw, gcVars>>

\* restoreConnectionLog: Load, then RegisterHandler if it was not nil.
RestoreLoad(p) ==
  /\ probePc[p] = "load"
  /\ probeSaw' = [probeSaw EXCEPT ![p] = activeConnectionLog]
  /\ probePc' = [probePc EXCEPT ![p] =
                   IF activeConnectionLog = NoInst THEN "start" ELSE "reregister"]
  /\ UNCHANGED <<callVars, fieldVars, logVars, fdVars, instVars, probeInst, gcVars>>

RestoreRegister(p) ==
  /\ probePc[p] = "reregister"
  /\ logHandler' = SessionHandler(probeSaw[p])
  /\ probeSaw' = [probeSaw EXCEPT ![p] = NoInst]
  /\ probePc' = [probePc EXCEPT ![p] = "start"]
  /\ UNCHANGED <<callVars, fieldVars, activeConnectionLog, fdVars, instVars, probeInst, gcVars>>

\* server.Start of the test instance.
ProbeStart(p) ==
  /\ probePc[p] = "start"
  /\ probePc' = [probePc EXCEPT ![p] = "measure"]
  /\ UNCHANGED <<callVars, fieldVars, logVars, fdVars, instVars, probeInst, probeSaw, gcVars>>

\* server.Close, after a failed Start or deferred to the end of the measurement.
ProbeClose(p) ==
  /\ probePc[p] \in {"start", "measure"}
  /\ alive' = alive \ {probeInst[p]}
  /\ probeInst' = [probeInst EXCEPT ![p] = NoInst]
  /\ probePc' = [probePc EXCEPT ![p] = "idle"]
  /\ seenFd' = [seenFd EXCEPT ![probeInst[p]] = NoFd]
  /\ UNCHANGED <<callVars, fieldVars, logVars, fdVars, probeSaw, gcVars>>

ProbeStep(p) ==
  ProbeNew(p) \/ RestoreLoad(p) \/ RestoreRegister(p) \/ ProbeStart(p) \/ ProbeClose(p)

-----------------------------------------------------------------------------
HostStep == \E fd \in Fds : OpenFd(fd) \/ CloseFd(fd)

CoreNext ==
  \/ HostStep
  \/ \E c \in Controllers :
       \/ \E fd \in Fds \cup {NoFd} : StartLoop(c, fd)
       \/ StopLoop(c)
       \/ CallStep(c)
  \/ \E p \in Probes : ProbeStep(p)

CoreSpec == CoreInit /\ [][CoreNext]_coreVars

-----------------------------------------------------------------------------
(* The published descriptor is never stale: however starts fail, sessions  *)
(* stop and controllers overlap, the environment names only a descriptor   *)
(* that a running session or an unfinished start still borrows, so the     *)
(* host has not closed it, and no instance created later (a probe, a       *)
(* URL-test racer) observes a closed one.                                  *)
PublishedFdIsLive ==
  tunFdEnv # NoFd =>
    /\ tunFdEnv \in openFds
    /\ \E c \in Controllers : lentFd[c] = tunFdEnv /\ (isRunning[c] \/ op[c] = "start")

(* The inductive strengthening of PublishedFdIsLive.  The phase of a call  *)
(* tells which call it is; a borrowed descriptor is open and has a single  *)
(* borrower; a call that has yet to publish its descriptor, or that failed *)
(* and is about to hand it back, does not have it in the environment.      *)
PhaseTellsCall ==
  \A c \in Controllers :
    /\ phase[c] = "idle" <=> op[c] = "none"
    /\ phase[c] \in {"load", "publish", "new", "install", "register", "boot"}
         => op[c] = "start" /\ ~isRunning[c]
    /\ op[c] = "stop" => (isRunning[c] <=> phase[c] # "return")

BorrowedFds ==
  /\ \A c \in Controllers : lentFd[c] # NoFd => lentFd[c] \in openFds
  /\ \A c, d \in Controllers : lentFd[c] # NoFd /\ lentFd[c] = lentFd[d] => c = d
  /\ \A c \in Controllers : op[c] = "none" /\ ~isRunning[c] => lentFd[c] = NoFd

NotPublished ==
  \A c \in Controllers :
    \/ phase[c] \in {"load", "publish"}
    \/ phase[c] = "return" /\ ~isRunning[c]
    => tunFdEnv = NoFd \/ tunFdEnv # lentFd[c]

FdInv == CoreTypeOK /\ PhaseTellsCall /\ BorrowedFds /\ NotPublished /\ PublishedFdIsLive

(* No Xray instance leaks: each one that was constructed and not closed    *)
(* belongs to a running session, to a call that is still under way or to a *)
(* probe, even though Xray does not roll back a Start that failed.         *)
NoInstanceLeak ==
  \A i \in alive :
    \/ \E c \in Controllers : instance[c] = i /\ isRunning[c]
    \/ \E c \in Controllers : server[c] = i /\ op[c] # "none"
    \/ \E p \in Probes : probeInst[p] = i

(* Whenever c.mu is free the fields of a controller tell one story: it is  *)
(* running exactly if it has an instance that is alive, that instance's    *)
(* connection log, no other session's statistics, and the host was told so.*)
FieldsAgree ==
  \A c \in Controllers : op[c] = "none" =>
    /\ isRunning[c] <=> instance[c] # NoInst
    /\ isRunning[c] <=> hostView[c] = "up"
    /\ connLog[c] = instance[c]
    /\ statsManager[c] \in {NoInst, instance[c]}
    /\ isRunning[c] => instance[c] \in alive

(* The remembered handler is never one of a finished session: it belongs   *)
(* to a session that is running, starting or about to be forgotten.        *)
ActiveLogIsLive ==
  activeConnectionLog # NoInst =>
    \E c \in Controllers : activeConnectionLog \in {server[c], instance[c]}

(* The inductive strengthening of NoInstanceLeak, FieldsAgree and          *)
(* ActiveLogIsLive: an instance has one owner; how far a call has come     *)
(* tells what its local variable holds and whether that is still alive;    *)
(* the fields agree while a call is under way, too; and clearConnectionLog *)
(* has done its work before the session's pointers are dropped.            *)
OneOwner ==
  /\ \A c \in Controllers, p \in Probes :
       probeInst[p] # NoInst => probeInst[p] \notin {server[c], instance[c]}
  /\ \A c, d \in Controllers : c # d =>
       \A i \in {server[c], instance[c]} : i # NoInst => i \notin {server[d], instance[d]}
  /\ \A p, q \in Probes : probeInst[p] # NoInst /\ probeInst[p] = probeInst[q] => p = q
  /\ \A p \in Probes : probePc[p] = "idle" => probeInst[p] = NoInst

CallOwnsServer ==
  \A c \in Controllers :
    /\ phase[c] \in {"idle", "load", "publish", "new"} => server[c] = NoInst
    /\ phase[c] \in {"install", "register", "boot", "close"} => server[c] \in alive
    /\ phase[c] \in {"forget", "forgetStore", "unpublish"} => server[c] \notin alive
    /\ op[c] = "stop" \/ phase[c] = "return" => server[c] = instance[c]

FieldsDuringCalls ==
  \A c \in Controllers :
    /\ isRunning[c] <=> instance[c] # NoInst
    /\ isRunning[c] <=> hostView[c] = "up"
    /\ connLog[c] = instance[c]
    /\ statsManager[c] \in {NoInst, instance[c], server[c]}
    /\ isRunning[c] /\ phase[c] \in {"idle", "return"} => instance[c] \in alive
    /\ op[c] = "start" /\ isRunning[c] => phase[c] = "return"

ForgottenInTime ==
  \A c \in Controllers :
    phase[c] = "unpublish" /\ activeConnectionLog # NoInst =>
      activeConnectionLog \notin {server[c], instance[c]}

OwnerInv ==
  /\ CoreTypeOK /\ PhaseTellsCall
  /\ OneOwner /\ CallOwnsServer /\ FieldsDuringCalls /\ ForgottenInTime
  /\ NoInstanceLeak /\ ActiveLogIsLive

(* The collector is off exactly while some StartLoop is under way, on each *)
(* of its return paths, with any number of starts overlapping, and has its *)
(* steady percentage otherwise.                                            *)
GcFollowsStarts ==
  gcPercent = IF \E c \in Controllers : op[c] = "start" THEN GC!GcOff ELSE SteadyPercent

(* Its inductive strengthening: a start holds the pause for exactly as     *)
(* long as the call lasts.                                                 *)
GcHeldByStarts ==
  /\ CoreTypeOK /\ PhaseTellsCall
  /\ \A c \in Controllers : op[c] = "start" <=> restore[c] = "armed"

(* connection_log.go:173 "a probe must put it back with                    *)
(* restoreConnectionLog": once every probe has finished and no start or    *)
(* stop is under way, the registered handler is the running session's.     *)
LogHandlerRestored ==
  \A c \in Controllers :
    /\ isRunning[c]
    /\ \A d \in Controllers : op[d] = "none"
    /\ \A p \in Probes : probePc[p] = "idle"
    => logHandler = SessionHandler(instance[c])
=============================================================================
