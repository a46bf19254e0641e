------------------------------ MODULE GcPause ------------------------------
(***************************************************************************)
(* The start-up GC pause of runtime_tuning.go: while a core start parses   *)
(* its configuration the periodic collector is switched off, and the last  *)
(* concurrent start to finish switches it back to the percentage that the  *)
(* first one found.  A "start" is a slot that may be used again and again: *)
(* each use is one call of pauseGCForStartup together with the restore     *)
(* closure that the call returned.                                         *)
(***************************************************************************)
EXTENDS Integers, FiniteSets

CONSTANTS
  Starts,        \* the core starts that may run concurrently
  SteadyPercent  \* GOGC in steady state (init() in skipicore.go: 50 or SKIPI_GOGC)

\* What the theorems suppose of them, as CoreController assumes it of its own constants.
GcConstants == IsFiniteSet(Starts) /\ SteadyPercent \in Nat

VARIABLES
  gcPauseHolders,   \* number of starts that hold the pause
  gcPausePrevious,  \* the percentage found by the first holder
  gcPercent,        \* the runtime's GC percentage; -1 is "off"
  restore           \* per start, its restore closure: "none", "armed" or "done" (sync.Once)

gcVars == <<gcPauseHolders, gcPausePrevious, gcPercent, restore>>

GcOff == -1
GcArmed == {s \in Starts : restore[s] = "armed"}

GcTypeOK ==
  /\ gcPauseHolders \in Int
  /\ gcPausePrevious \in Int
  /\ gcPercent \in Int
  /\ restore \in [Starts -> {"none", "armed", "done"}]

GcInit ==
  /\ gcPauseHolders = 0
  /\ gcPausePrevious = 0
  /\ gcPercent = SteadyPercent
  /\ restore = [s \in Starts |-> "none"]

(***************************************************************************)
(* pauseGCForStartup: only the first holder saves the percentage.          *)
(***************************************************************************)
pauseGCForStartup(s) ==
  /\ restore[s] # "armed"
  /\ IF gcPauseHolders = 0
       THEN gcPausePrevious' = gcPercent /\ gcPercent' = GcOff
       ELSE UNCHANGED <<gcPausePrevious, gcPercent>>
  /\ gcPauseHolders' = gcPauseHolders + 1
  /\ restore' = [restore EXCEPT ![s] = "armed"]

(***************************************************************************)
(* The returned closure.  once.Do makes a second call a no-op.             *)
(***************************************************************************)
Restore(s) ==
  /\ restore[s] # "none"
  /\ IF restore[s] = "armed"
       THEN /\ gcPauseHolders' = gcPauseHolders - 1
            /\ gcPercent' = IF gcPauseHolders' = 0 THEN gcPausePrevious ELSE gcPercent
            /\ restore' = [restore EXCEPT ![s] = "done"]
            /\ UNCHANGED gcPausePrevious
       ELSE UNCHANGED gcVars

GcNext == \E s \in Starts : pauseGCForStartup(s) \/ Restore(s)

GcSpec == GcInit /\ [][GcNext]_gcVars

-----------------------------------------------------------------------------
(* While a core start is still between its pause and its restore, the      *)
(* collector is off, whatever the other starts restore (and restore again) *)
(* in the meantime.                                                        *)
GcOffWhileStarting == GcArmed # {} => gcPercent = GcOff

(* When no start holds the pause, the collector runs with the steady-state *)
(* percentage: no interleaving of starts leaves GC off for good, or takes  *)
(* "off" for the percentage to go back to.                                 *)
GcSteadyWhenQuiet == GcArmed = {} => gcPercent = SteadyPercent

(* The inductive strengthening: the counter counts the armed closures, and *)
(* the saved percentage is the steady one while any of them is armed.      *)
GcInv ==
  /\ GcTypeOK
  /\ gcPauseHolders = Cardinality(GcArmed)
  /\ GcArmed # {} => gcPausePrevious = SteadyPercent
  /\ GcOffWhileStarting
  /\ GcSteadyWhenQuiet
=============================================================================
