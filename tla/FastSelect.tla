----------------------------- MODULE FastSelect -----------------------------
(***************************************************************************)
(* FastSelectBestOutbound (skipicore.go): one goroutine per candidate      *)
(* probes through its outbound and sends the outcome to a channel with     *)
(* room for all of them; the caller's loop collects outcomes and returns   *)
(* early on a fast answer, on enough answers or when the deadline passes.  *)
(* Candidates are known by their position in the list.                     *)
(***************************************************************************)
EXTENDS Integers, Sequences, FiniteSets

CONSTANTS
  MaxCandidates,  \* bound on the length of the list
  Latencies,      \* the latencies that probes measure, in milliseconds
  FastEnough      \* 350 ms: a first answer below it ends the race

ASSUME MaxCandidatesPos == MaxCandidates \in Nat \ {0}
ASSUME LatenciesNat == Latencies \subseteq Nat
ASSUME FastEnoughNat == FastEnough \in Nat

Positions == 1..MaxCandidates
NoTag == 0
Failed == -1

VARIABLES
  candidates,   \* how many candidates the list has
  pc,           \* of the caller: "setup", "loop" or "returned"
  ctx,          \* "none", "live" or "done"
  probe,        \* per position: "none", "running" or "ended"
  resultCh,     \* the outcomes in the channel
  received, fastestTag, lowestLatency,  \* the variables of the loop
  result,       \* the position that was returned
  \* history
  heard         \* the outcomes that the loop took from the channel

loopVars == <<received, fastestTag, lowestLatency, heard>>
vars == <<candidates, pc, ctx, probe, resultCh, loopVars, result>>

Outcomes == [tag : Positions, latency : Latencies \cup {Failed}]

SelectTypeOK ==
  /\ candidates \in Positions
  /\ pc \in {"setup", "loop", "returned"}
  /\ ctx \in {"none", "live", "done"}
  /\ probe \in [Positions -> {"none", "running", "ended"}]
  /\ resultCh \in Seq(Outcomes)
  /\ received \in 0..candidates
  /\ fastestTag \in Positions \cup {NoTag}
  /\ lowestLatency \in Latencies \cup {Failed}
  /\ result \in IF pc = "returned" THEN 1..candidates ELSE {NoTag}
  /\ heard \subseteq Outcomes

SelectInit ==
  /\ candidates \in Positions
  /\ pc = "setup"
  /\ ctx = "none"
  /\ probe = [i \in Positions |-> "none"]
  /\ resultCh = <<>>
  /\ received = 0 /\ fastestTag = NoTag /\ lowestLatency = Failed
  /\ result = NoTag
  /\ heard = {}

-----------------------------------------------------------------------------
\* The answer, or the first candidate if none answered; cancel is deferred.
AnswerOrFirst(tag) == IF tag = NoTag THEN 1 ELSE tag

ReturnTag(tag) ==
  /\ pc' = "returned"
  /\ result' = AnswerOrFirst(tag)
  /\ ctx' = "done"

\* A single candidate, a configuration that is rejected and an instance that
\* does not start end the call with the first candidate.
SetupReturns ==
  /\ pc = "setup"
  /\ ReturnTag(NoTag)
  /\ UNCHANGED <<candidates, probe, resultCh, loopVars>>

Launch ==
  /\ pc = "setup" /\ candidates > 1
  /\ pc' = "loop"
  /\ ctx' = "live"
  /\ probe' = [i \in Positions |-> IF i <= candidates THEN "running" ELSE "none"]
  /\ UNCHANGED <<candidates, resultCh, loopVars, result>>

\* A probe ends: it sends its latency or, also when the deadline has passed,
\* a failure.  A send waits for room in the channel.
RoomForOne == 1

RoomInChannel == candidates

ProbeEnds(i, latency) ==
  /\ probe[i] = "running"
  /\ Len(resultCh) < RoomInChannel
  /\ resultCh' = Append(resultCh, [tag |-> i, latency |-> latency])
  /\ probe' = [probe EXCEPT ![i] = "ended"]
  /\ UNCHANGED <<candidates, pc, ctx, loopVars, result>>

ContextWithoutDeadline ==
  /\ ctx = "live" /\ pc = "returned"
  /\ ctx' = "done"
  /\ UNCHANGED <<candidates, pc, probe, resultCh, loopVars, result>>

DeadlinePasses ==
  /\ ctx = "live"
  /\ ctx' = "done"
  /\ UNCHANGED <<candidates, pc, probe, resultCh, loopVars, result>>

\* One turn of the loop that takes an outcome from the channel.
LastAnswerWins(latency) == latency # Failed

Better(latency) ==
  latency # Failed /\ (fastestTag = NoTag \/ latency < lowestLatency)

Receive ==
  LET res == Head(resultCh)
      quick == res.latency # Failed /\ fastestTag = NoTag /\ res.latency < FastEnough
      enough == received + 1 >= (candidates + 1) \div 2 \/ received + 1 >= 3
  IN /\ pc = "loop" /\ resultCh # <<>>
     /\ resultCh' = Tail(resultCh)
     /\ received' = received + 1
     /\ heard' = heard \cup {res}
     /\ IF Better(res.latency)
          THEN fastestTag' = res.tag /\ lowestLatency' = res.latency
          ELSE UNCHANGED <<fastestTag, lowestLatency>>
     /\ IF quick \/ (fastestTag' # NoTag /\ enough) \/ received + 1 = candidates
          THEN ReturnTag(fastestTag')
          ELSE UNCHANGED <<pc, result, ctx>>
     /\ UNCHANGED <<candidates, probe>>

\* One that finds the context done; select may choose it although outcomes wait.
Deadline ==
  /\ pc = "loop" /\ ctx = "done"
  /\ ReturnTag(fastestTag)
  /\ UNCHANGED <<candidates, probe, resultCh, loopVars>>

-----------------------------------------------------------------------------
SelectNext ==
  \/ SetupReturns \/ Launch
  \/ \E i \in Positions, latency \in Latencies \cup {Failed} : ProbeEnds(i, latency)
  \/ DeadlinePasses
  \/ Receive \/ Deadline

(* The deadline is a timer, requests under its context end, and the loop   *)
(* is not suspended for ever.                                              *)
SelectFairness ==
  /\ WF_vars(SetupReturns \/ Launch)
  /\ WF_vars(DeadlinePasses)
  /\ WF_vars(Receive \/ Deadline)
  /\ \A i \in Positions : WF_vars(ctx = "done" /\ ProbeEnds(i, Failed))

SelectSpec == SelectInit /\ [][SelectNext]_vars
FairSelectSpec == SelectSpec /\ SelectFairness

-----------------------------------------------------------------------------
(* The tag that is returned is the best of what the loop has heard, and    *)
(* the first candidate is returned only if the loop has heard no answer.   *)
BestOfHeard ==
  pc = "returned" =>
    \/ \E best \in heard : /\ best.tag = result /\ best.latency # Failed
                           /\ \A res \in heard : res.latency # Failed => best.latency <= res.latency
    \/ result = 1 /\ \A res \in heard : res.latency = Failed

(* The state is well typed, a call that has returned named a candidate,    *)
(* and it was the best of those it heard.                                  *)
SelectInv == SelectTypeOK /\ BestOfHeard

(* The inductive strengthening of BestOfHeard: what the loop's variables   *)
(* say of the outcomes it has heard, and that a turn is left to take.      *)
LoopRemembers ==
  /\ pc = "loop" => received < candidates
  /\ pc = "returned" => result = AnswerOrFirst(fastestTag)
  /\ fastestTag = NoTag => \A res \in heard : res.latency = Failed
  /\ fastestTag # NoTag =>
       /\ lowestLatency # Failed
       /\ [tag |-> fastestTag, latency |-> lowestLatency] \in heard
       /\ \A res \in heard : res.latency # Failed => lowestLatency <= res.latency

(* Every outcome is of a probe that was launched for a candidate, and each *)
(* probe that has ended has sent one.                                      *)
Ended == {i \in Positions : probe[i] = "ended"}

OutcomesOfProbes ==
  /\ \A i \in Positions : probe[i] # "none" => i <= candidates /\ pc # "setup"
  /\ pc = "setup" =>
       resultCh = <<>> /\ received = 0 /\ ctx = "none" /\ heard = {} /\ fastestTag = NoTag
  /\ \A k \in 1..Len(resultCh) : resultCh[k].tag <= candidates
  /\ \A res \in heard : res.tag <= candidates
  /\ received + Len(resultCh) = Cardinality(Ended)

(* No probe ever finds the channel full, and so none is left behind        *)
(* blocked when the caller has returned.                                   *)
ChannelHasRoom == \A i \in Positions : probe[i] = "running" => Len(resultCh) < RoomInChannel

(* The call returns, whatever the probes do: its deadline passes.          *)
CallReturns == <>(pc = "returned")

(* No probe goroutine is left blocked on the channel, even after an early  *)
(* return.                                                                 *)
NoProbeLeft == <>[](\A i \in Positions : probe[i] # "running")
=============================================================================
