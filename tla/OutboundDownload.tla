-------------------------- MODULE OutboundDownload --------------------------
(***************************************************************************)
(* MeasureOutboundDownload and CancelOutboundDownload (skipicore.go).      *)
(* Calls run concurrently; each downloads through a test instance of its   *)
(* own, under a context with a timeout.  A call with a request id stores   *)
(* the cancel function of its context in a process-wide map, after its     *)
(* instance has started, and deletes the entry of that id when it returns. *)
(***************************************************************************)
EXTENDS Integers

CONSTANTS
  Calls, NoCall,
  Ids, NoId,      \* request ids; the empty one
  Cancellers,     \* host threads that cancel
  ByteLimit,      \* maxOutboundDownloadBytes
  DistinctIds     \* whether the host never reuses the id of an unfinished call

ASSUME NoCallNotCall == NoCall \notin Calls
ASSUME NoIdNotId == NoId \notin Ids
ASSUME ByteLimitPos == ByteLimit \in Nat \ {0}
ASSUME DistinctIdsBoolean == DistinctIds \in BOOLEAN

VARIABLES
  pc,        \* per call, where it is
  id,        \* per call, its request id
  maxBytes,  \* per call, the bytes it asks for
  bytes,     \* per call, the bytes it has read
  ctx,       \* per call, its context: "none", "live", "cancelled", "expired"
  result,    \* per call, what it returned: "none", "ok" or "error"
  outboundDownloadCancels,  \* request id -> the call whose cancel function is stored
  canceller, \* per thread, the id it cancels and the cancel function it has loaded
  asked      \* history: the calls that a finished cancel of their id found started,
             \* and those that it found running

callVars == <<pc, id, maxBytes, bytes, ctx, result>>
cancelVars == <<canceller, asked>>
vars == <<callVars, outboundDownloadCancels, cancelVars>>

Pcs == {"idle", "starting", "register", "request", "body", "unregister", "release"}
Running(k) == pc[k] \in {"request", "body"}
Started(k) == Running(k) \/ pc[k] \in {"starting", "register"}

DownloadTypeOK ==
  /\ pc \in [Calls -> Pcs]
  /\ id \in [Calls -> Ids \cup {NoId}]
  /\ maxBytes \in [Calls -> 0..ByteLimit + 1]
  /\ bytes \in [Calls -> 0..ByteLimit]
  /\ ctx \in [Calls -> {"none", "live", "cancelled", "expired"}]
  /\ result \in [Calls -> {"none", "ok", "error"}]
  /\ outboundDownloadCancels \in [Ids -> Calls \cup {NoCall}]
  /\ canceller \in [Cancellers -> [id : Ids \cup {NoId}, loaded : Calls \cup {NoCall},
                                   started : SUBSET Calls, running : SUBSET Calls]]
  /\ asked \in [started : SUBSET Calls, running : SUBSET Calls]

NoCancel == [id |-> NoId, loaded |-> NoCall, started |-> {}, running |-> {}]

DownloadInit ==
  /\ pc = [k \in Calls |-> "idle"]
  /\ id = [k \in Calls |-> NoId]
  /\ maxBytes = [k \in Calls |-> 0]
  /\ bytes = [k \in Calls |-> 0]
  /\ ctx = [k \in Calls |-> "none"]
  /\ result = [k \in Calls |-> "none"]
  /\ outboundDownloadCancels = [i \in Ids |-> NoCall]
  /\ canceller = [t \in Cancellers |-> NoCancel]
  /\ asked = [started |-> {}, running |-> {}]

Goto(k, p) == pc' = [pc EXCEPT ![k] = p]

\* The measurement is over, with result res; the deferred calls follow.
EndsWith(k, res) ==
  /\ result' = [result EXCEPT ![k] = res]
  /\ Goto(k, "unregister")

-----------------------------------------------------------------------------
\* The call and its checks.  The call is a new one: its history starts afresh.
ValidBytes(n) == n > 0 /\ n <= ByteLimit

\* Other arguments (timeout, URL) may be refused as well.
Begin(k, i, n) ==
  /\ pc[k] = "idle"
  /\ DistinctIds /\ i # NoId => \A j \in Calls : pc[j] # "idle" => id[j] # i
  /\ \A t \in Cancellers : canceller[t].loaded # k /\ k \notin canceller[t].started
  /\ maxBytes' = [maxBytes EXCEPT ![k] = n]
  /\ bytes' = [bytes EXCEPT ![k] = 0]
  /\ asked' = [started |-> asked.started \ {k}, running |-> asked.running \ {k}]
  /\ \/ /\ ValidBytes(n)
        /\ id' = [id EXCEPT ![k] = i]
        /\ result' = [result EXCEPT ![k] = "none"]
        /\ Goto(k, "starting")
     \/ /\ id' = [id EXCEPT ![k] = NoId]
        /\ result' = [result EXCEPT ![k] = "error"]
        /\ UNCHANGED pc
  /\ UNCHANGED <<ctx, outboundDownloadCancels, canceller>>

\* startOutboundTestInstance, and the context with its timeout.
StartInstance(k) ==
  /\ pc[k] = "starting"
  /\ \/ /\ ctx' = [ctx EXCEPT ![k] = "live"]
        /\ Goto(k, "register")
        /\ UNCHANGED <<id, result>>
     \/ /\ result' = [result EXCEPT ![k] = "error"]
        /\ id' = [id EXCEPT ![k] = NoId]
        /\ Goto(k, "idle")
        /\ UNCHANGED ctx
  /\ UNCHANGED <<maxBytes, bytes, outboundDownloadCancels, cancelVars>>

\* Store, if there is a request id.
RegisterOnlyEmptyId(k) ==
  /\ pc[k] = "register"
  /\ Goto(k, "request")
  /\ UNCHANGED <<id, maxBytes, bytes, ctx, result, outboundDownloadCancels, cancelVars>>

Register(k) ==
  /\ pc[k] = "register"
  /\ outboundDownloadCancels' =
       [i \in Ids |-> IF i = id[k] THEN k ELSE outboundDownloadCancels[i]]
  /\ Goto(k, "request")
  /\ UNCHANGED <<id, maxBytes, bytes, ctx, result, cancelVars>>

\* client.Do: a good status, or a bad one or an error.
Request(k) ==
  /\ pc[k] = "request"
  /\ \/ Goto(k, "body") /\ UNCHANGED result
     \/ EndsWith(k, "error")
  /\ UNCHANGED <<id, maxBytes, bytes, ctx, outboundDownloadCancels, cancelVars>>

\* io.CopyN reads exactly maxBytes, unless the body ends or fails before.
Read(k) ==
  /\ pc[k] = "body" /\ bytes[k] < maxBytes[k]
  /\ bytes' = [bytes EXCEPT ![k] = @ + 1]
  /\ UNCHANGED <<pc, id, maxBytes, ctx, result, outboundDownloadCancels, cancelVars>>

BodyEndsEitherWay(k) ==
  /\ pc[k] = "body"
  /\ EndsWith(k, "ok") \/ EndsWith(k, "error")
  /\ UNCHANGED <<id, maxBytes, bytes, ctx, outboundDownloadCancels, cancelVars>>

BodyEnds(k) ==
  /\ pc[k] = "body"
  /\ EndsWith(k, IF bytes[k] = maxBytes[k] THEN "ok" ELSE "error")
  /\ UNCHANGED <<id, maxBytes, bytes, ctx, outboundDownloadCancels, cancelVars>>

\* A request under a context that is over fails.
RequestWithoutContext(k) ==
  /\ Running(k) /\ ctx[k] = "cancelled"
  /\ EndsWith(k, "error")
  /\ UNCHANGED <<id, maxBytes, bytes, ctx, outboundDownloadCancels, cancelVars>>

ContextDone(k) ==
  /\ Running(k) /\ ctx[k] \in {"cancelled", "expired"}
  /\ EndsWith(k, "error")
  /\ UNCHANGED <<id, maxBytes, bytes, ctx, outboundDownloadCancels, cancelVars>>

Timeout(k) ==
  /\ ctx[k] = "live"
  /\ ctx' = [ctx EXCEPT ![k] = "expired"]
  /\ UNCHANGED <<pc, id, maxBytes, bytes, result, outboundDownloadCancels, cancelVars>>

\* The deferred calls: Delete by request id, whoever stored the entry ...
Unregister(k) ==
  /\ pc[k] = "unregister"
  /\ outboundDownloadCancels' =
       [i \in Ids |-> IF i = id[k] THEN NoCall ELSE outboundDownloadCancels[i]]
  /\ Goto(k, "release")
  /\ UNCHANGED <<id, maxBytes, bytes, ctx, result, cancelVars>>

\* ... then cancel and Close.
Release(k) ==
  /\ pc[k] = "release"
  /\ ctx' = [ctx EXCEPT ![k] = "none"]
  /\ id' = [id EXCEPT ![k] = NoId]
  /\ Goto(k, "idle")
  /\ UNCHANGED <<maxBytes, bytes, result, outboundDownloadCancels, cancelVars>>

-----------------------------------------------------------------------------
\* CancelOutboundDownload: Load, then call what was stored.
CancelLoad(t, i) ==
  /\ canceller[t] = NoCancel
  /\ canceller' = [canceller EXCEPT ![t] =
       [id |-> i, loaded |-> outboundDownloadCancels[i],
        started |-> {k \in Calls : Started(k) /\ id[k] = i},
        running |-> {k \in Calls : Running(k) /\ id[k] = i}]]
  /\ UNCHANGED <<callVars, outboundDownloadCancels, asked>>

CancelCall(t) ==
  /\ canceller[t].id # NoId
  /\ ctx' = [k \in Calls |->
               IF k = canceller[t].loaded /\ ctx[k] = "live" THEN "cancelled" ELSE ctx[k]]
  /\ asked' = [started |-> asked.started \cup {k \in canceller[t].started : pc[k] # "idle"},
               running |-> asked.running \cup {k \in canceller[t].running : pc[k] # "idle"}]
  /\ canceller' = [canceller EXCEPT ![t] = NoCancel]
  /\ UNCHANGED <<pc, id, maxBytes, bytes, result, outboundDownloadCancels>>

-----------------------------------------------------------------------------
CallStep(k) ==
  \/ StartInstance(k) \/ Register(k) \/ Request(k)
  \/ Read(k) \/ BodyEnds(k) \/ ContextDone(k)
  \/ Unregister(k) \/ Release(k)

DownloadNext ==
  \/ \E k \in Calls :
       \/ \E i \in Ids \cup {NoId}, n \in 0..ByteLimit + 1 : Begin(k, i, n)
       \/ CallStep(k) \/ Timeout(k)
  \/ \E t \in Cancellers : (\E i \in Ids : CancelLoad(t, i)) \/ CancelCall(t)

DownloadSpec == DownloadInit /\ [][DownloadNext]_vars

(* Starting an instance and the deferred calls take bounded time, timers   *)
(* fire and a request under a context that is over returns.  The server    *)
(* may stall for ever: nothing is assumed about Request, Read or BodyEnds. *)
DownloadFairness ==
  \A k \in Calls :
    WF_vars(StartInstance(k) \/ Register(k) \/ ContextDone(k) \/ Unregister(k) \/ Release(k))
      /\ WF_vars(Timeout(k))

FairDownloadSpec == DownloadSpec /\ DownloadFairness

-----------------------------------------------------------------------------
(* skipicore.go:717 "test size is a hard network budget": no call reads    *)
(* more than it asked for or more than the limit, and one that reports     *)
(* success has read exactly that much.                                     *)
HardBudget ==
  \A k \in Calls :
    /\ bytes[k] <= maxBytes[k]
    /\ bytes[k] > 0 => maxBytes[k] <= ByteLimit
    /\ result[k] = "ok" => bytes[k] = maxBytes[k] /\ bytes[k] > 0

(* The state is well typed and the budget is kept: bytes that were read    *)
(* are counted only against a limit that was accepted.                     *)
DownloadInv == DownloadTypeOK /\ HardBudget

(* skipicore.go:538 "requestID [...] allows CancelOutboundDownload to stop *)
(* a running request": once a cancel has returned, no request with that id *)
(* that was running when it was called still has a live context.           *)
CancelStopsRunning == \A k \in asked.running : ctx[k] # "live"

(* skipicore.go:588 "CancelOutboundDownload cancels an isolated download   *)
(* test previously started with the same requestID": the same for every    *)
(* call that had begun, whether or not it had reached the download.        *)
CancelStopsStarted == \A k \in asked.started : ctx[k] # "live"

(* Every call returns, even if the server stalls for ever.                 *)
CallsReturn == \A k \in Calls : pc[k] # "idle" ~> pc[k] = "idle"

-----------------------------------------------------------------------------
(* The inductive invariants of the proofs.                                 *)

(* Bytes are read only after the limit was accepted and before a result.   *)
BudgetSoFar ==
  \A k \in Calls :
    /\ pc[k] # "idle" => ValidBytes(maxBytes[k])
    /\ pc[k] \in {"starting", "register", "request", "body"} => result[k] = "none"

(* A host that never reuses the id of an unfinished call keeps ids apart.  *)
IdsApart ==
  \A k \in Calls :
    /\ pc[k] = "idle" => id[k] = NoId
    /\ id[k] # NoId => \A j \in Calls \ {k} : id[j] # id[k]

(* The cancel function of a running call is under its id.                  *)
MapHoldsRunning ==
  \A k \in Calls : Running(k) /\ id[k] # NoId => outboundDownloadCancels[id[k]] = k

(* A cancel that found a call running has loaded its cancel function, and  *)
(* the call does not begin again before the cancel is over.                *)
PastStart(k) == pc[k] \in {"request", "body", "unregister", "release", "idle"}

CancelsAreAimed ==
  /\ \A t \in Cancellers : \A k \in canceller[t].running :
       canceller[t].loaded = k /\ k \in canceller[t].started /\ PastStart(k)
  /\ \A k \in asked.running : PastStart(k)

BudgetInv == DownloadTypeOK /\ HardBudget /\ BudgetSoFar
CancelInv == IdsApart /\ MapHoldsRunning /\ CancelsAreAimed /\ CancelStopsRunning
=============================================================================
