----------------------- MODULE OutboundDownload_proof -----------------------
(***************************************************************************)
(* Proofs about OutboundDownload, for any calls, ids, cancelling threads   *)
(* and limit.  The budget is kept whatever the host does with ids; that a  *)
(* cancel reaches the running call is proved for hosts that never reuse    *)
(* the id of an unfinished call.                                           *)
(***************************************************************************)
EXTENDS OutboundDownload, TLAPS

LEMMA BudgetInit == DownloadInit => BudgetInv
<1> USE ByteLimitPos DEF DownloadInit
<1>1. DownloadInit => DownloadTypeOK
  BY DEF DownloadTypeOK, Pcs, NoCancel
<1>2. DownloadInit => HardBudget /\ BudgetSoFar
  BY DEF HardBudget, BudgetSoFar
<1> QED BY <1>1, <1>2 DEF BudgetInv

(* Every step keeps the budget: the read of a byte is the only one that    *)
(* counts, and it stops at the accepted limit.                             *)
LEMMA BudgetNext == BudgetInv /\ [DownloadNext]_vars => BudgetInv'
<1> SUFFICES ASSUME BudgetInv, [DownloadNext]_vars PROVE BudgetInv'
  OBVIOUS
<1> USE ByteLimitPos
        DEF BudgetInv, DownloadTypeOK, HardBudget, BudgetSoFar, ValidBytes, Pcs, Goto, EndsWith
<1>1. ASSUME NEW k \in Calls, NEW i \in Ids \cup {NoId}, NEW n \in 0..ByteLimit + 1, Begin(k, i, n)
      PROVE  BudgetInv'
  BY <1>1 DEF Begin
<1>2. ASSUME NEW k \in Calls, StartInstance(k) PROVE BudgetInv'
  BY <1>2 DEF StartInstance, cancelVars
<1>3. ASSUME NEW k \in Calls, Register(k) PROVE BudgetInv'
  BY <1>3 DEF Register, cancelVars
<1>4. ASSUME NEW k \in Calls, Request(k) \/ ContextDone(k) PROVE BudgetInv'
  BY <1>4 DEF Request, ContextDone, cancelVars, Running
<1>5. ASSUME NEW k \in Calls, Read(k) PROVE BudgetInv'
  BY <1>5 DEF Read, cancelVars
<1>6. ASSUME NEW k \in Calls, BodyEnds(k) PROVE BudgetInv'
  BY <1>6 DEF BodyEnds, cancelVars
<1>7. ASSUME NEW k \in Calls, Timeout(k) PROVE BudgetInv'
  BY <1>7 DEF Timeout, cancelVars
<1>8. ASSUME NEW k \in Calls, Unregister(k) PROVE BudgetInv'
  BY <1>8 DEF Unregister, cancelVars
<1>9. ASSUME NEW k \in Calls, Release(k) PROVE BudgetInv'
  BY <1>9 DEF Release, cancelVars
<1>10. ASSUME NEW t \in Cancellers, NEW i \in Ids, CancelLoad(t, i) PROVE BudgetInv'
  BY <1>10 DEF CancelLoad, callVars, Running, Started
<1>11. ASSUME NEW t \in Cancellers, CancelCall(t) PROVE BudgetInv'
  BY <1>11 DEF CancelCall, NoCancel
<1>12. CASE UNCHANGED vars
  BY <1>12 DEF vars, callVars, cancelVars
<1> QED BY <1>1, <1>2, <1>3, <1>4, <1>5, <1>6, <1>7, <1>8, <1>9, <1>10, <1>11, <1>12
         DEF DownloadNext, CallStep

LEMMA CancelInit == DownloadInit => CancelInv
BY NoIdNotId DEF DownloadInit, CancelInv, IdsApart, MapHoldsRunning, CancelsAreAimed,
   CancelStopsRunning, Running, NoCancel

(* A step that changes neither ids nor the map, and starts nothing, keeps  *)
(* every running call under its id and every cancel aimed at it.           *)
LEMMA CancelNext ==
  ASSUME DownloadTypeOK, CancelInv, DistinctIds, [DownloadNext]_vars
  PROVE  CancelInv'
<1> USE NoIdNotId, NoCallNotCall
        DEF DownloadTypeOK, CancelInv, IdsApart, MapHoldsRunning, CancelsAreAimed,
            CancelStopsRunning, Running, PastStart, Goto, EndsWith
<1>1. ASSUME NEW k \in Calls, NEW i \in Ids \cup {NoId}, NEW n \in 0..ByteLimit + 1, Begin(k, i, n)
      PROVE  CancelInv'
  BY <1>1 DEF Begin
<1>2. ASSUME NEW k \in Calls, StartInstance(k) PROVE CancelInv'
  BY <1>2 DEF StartInstance, cancelVars
<1>3. ASSUME NEW k \in Calls, Register(k) PROVE CancelInv'
  BY <1>3 DEF Register, cancelVars
<1>4. ASSUME NEW k \in Calls, Request(k) \/ ContextDone(k) PROVE CancelInv'
  BY <1>4 DEF Request, ContextDone, cancelVars
<1>5. ASSUME NEW k \in Calls, Read(k) PROVE CancelInv'
  BY <1>5 DEF Read, cancelVars
<1>6. ASSUME NEW k \in Calls, BodyEnds(k) PROVE CancelInv'
  BY <1>6 DEF BodyEnds, cancelVars
<1>7. ASSUME NEW k \in Calls, Timeout(k) PROVE CancelInv'
  BY <1>7 DEF Timeout, cancelVars
<1>8. ASSUME NEW k \in Calls, Unregister(k) PROVE CancelInv'
  BY <1>8 DEF Unregister, cancelVars
<1>9. ASSUME NEW k \in Calls, Release(k) PROVE CancelInv'
  BY <1>9 DEF Release, cancelVars
<1>10. ASSUME NEW t \in Cancellers, NEW i \in Ids, CancelLoad(t, i) PROVE CancelInv'
  BY <1>10 DEF CancelLoad, callVars, Started
<1>11. ASSUME NEW t \in Cancellers, CancelCall(t) PROVE CancelInv'
  BY <1>11 DEF CancelCall, NoCancel
<1>12. CASE UNCHANGED vars
  BY <1>12 DEF vars, callVars, cancelVars
<1> QED BY <1>1, <1>2, <1>3, <1>4, <1>5, <1>6, <1>7, <1>8, <1>9, <1>10, <1>11, <1>12
         DEF DownloadNext, CallStep

(* skipicore.go:717: no call reads more than it asked for or than the      *)
(* limit, and success means exactly as much as was asked for.              *)
THEOREM BudgetIsHard == DownloadSpec => []DownloadInv
<1>1. BudgetInv => DownloadInv
  BY DEF BudgetInv, DownloadInv
<1> QED BY BudgetInit, BudgetNext, <1>1, PTL DEF DownloadSpec

(* skipicore.go:538, 588: a cancel that has returned has stopped the call  *)
(* that was running under its id, however the two interleave, when the     *)
(* host keeps the ids of unfinished calls apart.                           *)
THEOREM CancelReachesRunning ==
  ASSUME DistinctIds PROVE DownloadSpec => []CancelStopsRunning
<1>1. DownloadTypeOK /\ CancelInv /\ [DownloadNext]_vars => CancelInv'
  BY CancelNext
<1>2. DownloadInv => DownloadTypeOK
  BY DEF DownloadInv
<1>3. CancelInv => CancelStopsRunning
  BY DEF CancelInv
<1> QED BY CancelInit, BudgetIsHard, <1>1, <1>2, <1>3, PTL DEF DownloadSpec
=============================================================================
