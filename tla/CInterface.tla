----------------------------- MODULE CInterface -----------------------------
(***************************************************************************)
(* The C interface of the desktop library (cmd/skipicore-desktop/main.go). *)
(* Every export runs its action inside a wrapper (cError, cString, cInt32, *)
(* cInt64) that recovers a panic and, after the action has released the    *)
(* bridge's locks, sets or clears the one last error of the process.  A    *)
(* panic inside Xray unwinds StartLoop or StopLoop and the bridge: their   *)
(* deferred calls run (the collector is resumed, c.mu, r.mu and the        *)
(* process lock are released), the statements after the call into Xray do  *)
(* not.  The strings that the host owns are not modelled; a message is the *)
(* thread whose call failed.                                               *)
(***************************************************************************)
EXTENDS DesktopBridge

CONSTANT MaxPanics   \* bound on the panics of one behaviour

ASSUME MaxPanicsNat == MaxPanics \in Nat

VARIABLES
  panics,            \* how many there were
  report,            \* per thread, the outcome its wrapper has yet to report
  lastError,         \* desktopErrors.message, NoThread for the empty string
  \* history of each thread
  result,            \* how its last call ended, "none" before that
  since              \* the other threads that were in a call when that call reported,
                     \* or have begun one since

errorVars == <<report, lastError>>
resultVars == <<result, since>>
cVars == <<vars, panics, errorVars, resultVars>>

CInit ==
  /\ BridgeInit
  /\ panics = 0
  /\ report = [t \in Threads |-> "none"]
  /\ lastError = NoThread
  /\ result = [t \in Threads |-> "none"]
  /\ since = [t \in Threads |-> {}]

-----------------------------------------------------------------------------
\* The phases in which a call is inside Xray.
InXray == {"load", "new", "boot", "close"}

\* Unwinding the core: a core.New that panics may have registered its handler.
UnwindWithoutResume(c) ==
  /\ phase[c] \in InXray
  /\ op' = [op EXCEPT ![c] = "none"]
  /\ Goto(c, "idle")
  /\ server' = [server EXCEPT ![c] = NoInst]
  /\ lentFd' = [lentFd EXCEPT ![c] = IF isRunning[c] THEN @ ELSE NoFd]
  /\ logHandler' \in {logHandler} \cup (IF phase[c] = "new" THEN {XrayHandler(NoInst)} ELSE {})
  /\ UNCHANGED <<fieldVars, activeConnectionLog, fdVars, instVars, probeVars, gcVars>>

UnwindCore(c) ==
  /\ phase[c] \in InXray
  /\ op' = [op EXCEPT ![c] = "none"]
  /\ Goto(c, "idle")
  /\ server' = [server EXCEPT ![c] = NoInst]
  /\ lentFd' = [lentFd EXCEPT ![c] = IF isRunning[c] THEN @ ELSE NoFd]
  /\ IF op[c] = "start" THEN GC!Restore(c) ELSE UNCHANGED gcVars
  /\ logHandler' \in {logHandler} \cup (IF phase[c] = "new" THEN {XrayHandler(NoInst)} ELSE {})
  /\ UNCHANGED <<fieldVars, activeConnectionLog, fdVars, instVars, probeVars>>

\* The action of a thread's export has ended, and its wrapper has yet to report.
Ends(t, outcome) ==
  /\ report' = [report EXCEPT ![t] = outcome]
  /\ result' = [result EXCEPT ![t] = outcome]
  /\ UNCHANGED since

\* The wrapper recovers, and the host sees a failed call.  The lease is as
\* the call found it: a start takes it, and a stop gives it back, only after
\* the core has returned.
RecoverReleasingLease(t) ==
  /\ call[t].pc = "core"
  /\ UnwindCore(At(t))
  /\ ReleaseLease(call[t].r, call[t].h)
  /\ procLock' = NoThread
  /\ Done(t)
  /\ Ends(t, "failed")
  /\ UNCHANGED <<assetState, handleState, lastError>>

Recover(t) ==
  /\ call[t].pc = "core"
  /\ UnwindCore(At(t))
  /\ procLock' = NoThread
  /\ Done(t)
  /\ Ends(t, "failed")
  /\ UNCHANGED <<leaseState, assetState, handleState, lastError>>

-----------------------------------------------------------------------------
\* A thread makes one call at a time, its wrapper included.
Ready(t) == call[t] = NoCall /\ report[t] = "none"

OthersInCall(t) == {u \in Threads \ {t} : ~Ready(u)}

\* History of a call that begins, for itself and for those that have ended.
Begins(t, outcome, others) ==
  /\ result' = [result EXCEPT ![t] = outcome]
  /\ since' = [u \in Threads |-> IF u = t THEN others
                                ELSE IF result[u] = "none" THEN {} ELSE since[u] \cup {t}]

Export(t, kind, r, h) ==
  /\ Ready(t)
  /\ Invoke(t, kind, r, h)
  /\ Begins(t, "none", {})
  /\ UNCHANGED errorVars

\* An export that fails on its arguments (requiredCString), or whose action
\* is not one of the bridge's locks: probes, TUN, AmneziaWG, notifications.
ExportElsewhere(t) ==
  /\ Ready(t)
  /\ \E outcome \in {"ok", "failed"} :
       report' = [report EXCEPT ![t] = outcome] /\ Begins(t, outcome, {})
  /\ UNCHANGED <<vars, lastError>>

\* What the action of the export returns when its call of the bridge ends.
OkIf(cond) == {IF cond THEN "ok" ELSE "failed"}

Outcomes(t) ==
  CASE call[t].kind = "initializeAssets" -> OkIf(activeRuntime = NoRuntime)
    [] call[t].kind = "start" -> OkIf(call[t].pc = "core" /\ isRunning[At(t)])
    [] call[t].kind \in {"stop", "destroy"} ->
         IF call[t].pc = "core" THEN {"ok", "failed"} ELSE OkIf(Known(t))
    [] call[t].kind = "isRunning" -> OkIf(Known(t))
    [] call[t].kind = "measureDelay" ->
         IF call[t].pc = "probing" THEN {"ok", "failed"} ELSE {"failed"}

ActionStep(t) ==
  /\ BridgeStep(t)
  /\ IF call'[t] = NoCall
       THEN \E outcome \in Outcomes(t) : Ends(t, outcome)
       ELSE UNCHANGED <<report, resultVars>>
  /\ UNCHANGED lastError

\* setLastError or clearLastError, and the return to the host.
ReportOnlyFailures(t) ==
  /\ report[t] \in {"ok", "failed"}
  /\ lastError' = IF report[t] = "failed" THEN t ELSE lastError
  /\ report' = [report EXCEPT ![t] = "none"]
  /\ since' = [since EXCEPT ![t] = OthersInCall(t)]
  /\ UNCHANGED <<vars, result>>

Report(t) ==
  /\ report[t] \in {"ok", "failed"}
  /\ lastError' = IF report[t] = "failed" THEN t ELSE NoThread
  /\ report' = [report EXCEPT ![t] = "none"]
  /\ since' = [since EXCEPT ![t] = OthersInCall(t)]
  /\ UNCHANGED <<vars, result>>

\* SkipiCoreDesktopCreateController clears first and creates afterwards.
\* The handles of the pending calls count against the bound.
Creating == {t \in Threads : report[t] = "create"}

CreateClears(t) ==
  /\ Ready(t)
  /\ \A r \in Runtimes : nextHandle[r] + Cardinality(Creating) < MaxHandle
  /\ lastError' = NoThread
  /\ report' = [report EXCEPT ![t] = "create"]
  /\ Begins(t, "ok", OthersInCall(t))
  /\ UNCHANGED vars

Create(t, r) ==
  /\ report[t] = "create"
  /\ CreateController(r)
  /\ report' = [report EXCEPT ![t] = "none"]
  /\ UNCHANGED <<lastError, resultVars>>

CNext ==
  \/ /\ \/ CoreStep /\ UNCHANGED <<errorVars, resultVars>>
        \/ \E t \in Threads :
             \/ \E kind \in CallKinds, r \in Runtimes, h \in Handles : Export(t, kind, r, h)
             \/ ExportElsewhere(t) \/ ActionStep(t) \/ Report(t)
             \/ CreateClears(t) \/ \E r \in Runtimes : Create(t, r)
     /\ UNCHANGED panics
  \/ /\ panics < MaxPanics /\ panics' = panics + 1
     /\ \E t \in Threads : Recover(t)

CSpec == CInit /\ [][CNext]_cVars

-----------------------------------------------------------------------------
(* main.go:337 "a diagnostic string for the last failed C ABI call".  The  *)
(* last error is one for all threads, and calls report after the bridge    *)
(* has released its locks, in any order.  Still, a thread that asks after  *)
(* its own call never reads the message of a call of another thread that   *)
(* had ended when its own reported, nor, after a success, one of its own:  *)
(* a failure, by an error or by a recovered panic, leaves its message, a   *)
(* success none, until a call that overlaps or follows it reports.         *)
LastErrorIsRecent ==
  \A t \in Threads : Ready(t) =>
    /\ result[t] = "failed" /\ since[t] = {} => lastError = t
    /\ result[t] = "failed" => lastError \in {t, NoThread} \cup since[t]
    /\ result[t] = "ok" => lastError \in {NoThread} \cup since[t]

(* What the lease invariant of the bridge needs besides itself to survive  *)
(* a panic: a start that unwinds has not set isRunning yet.                *)
StartNotYetRunning ==
  \A c \in Controllers : op[c] = "start" /\ phase[c] # "return" => ~isRunning[c]

PanicInv == LeaseInv /\ StartNotYetRunning
=============================================================================
