---------------------------- MODULE TrafficStats ----------------------------
(***************************************************************************)
(* Traffic statistics of one controller (skipicore.go): connections add to *)
(* Xray's counters at any time, while QueryTrafficStats and the legacy     *)
(* QueryAllOutboundTrafficStats, one at a time under c.mu, move them       *)
(* counter by counter into the totals of the session.                      *)
(***************************************************************************)
EXTENDS Integers

CONSTANTS
  Counters,    \* names that isTrafficStatCounter accepts
  Outbound,    \* those of outbounds, which the legacy query reports
  Others,      \* names that it does not accept: users, malformed names
  Callers,     \* host threads
  NoCaller,
  MaxTraffic   \* bound on the traffic of one counter in a session

ASSUME OutboundCounters == Outbound \subseteq Counters
ASSUME OthersApart == Others \cap Counters = {}
ASSUME NoCallerNotCaller == NoCaller \notin Callers
ASSUME MaxTrafficNat == MaxTraffic \in Nat

Names == Counters \cup Others
Zero == [n \in Counters |-> 0]

VARIABLES
  statsManager, \* whether the running session has a statistics manager
  counter,      \* Xray's counters
  totals,       \* trafficStatsTotals; a name that is missing counts 0
  holder,       \* the caller whose query holds c.mu
  query,        \* which query that is: "totals" or "legacy"
  todo,         \* the counters that its VisitCounters has yet to visit
  deltas,       \* what its drain has moved so far
  \* history
  through,      \* the traffic of the session so far
  before,       \* that traffic when the query took c.mu
  answer,       \* per caller, the last totals of the session it was given
  legacy        \* what the legacy queries of the session reported, all together

sessionVars == <<statsManager, counter, totals>>
queryVars == <<holder, query, todo, deltas, before>>
answerVars == <<answer, legacy>>
vars == <<sessionVars, queryVars, answerVars, through>>

StatsTypeOK ==
  /\ statsManager \in BOOLEAN
  /\ counter \in [Names -> Nat]
  /\ totals \in [Counters -> Nat]
  /\ holder \in Callers \cup {NoCaller}
  /\ query \in {"none", "totals", "legacy"}
  /\ todo \subseteq Names
  /\ deltas \in [Counters -> Nat]
  /\ through \in [Counters -> Nat]
  /\ before \in [Counters -> Nat]
  /\ answer \in [Callers -> [Counters -> Nat]]
  /\ legacy \in [Counters -> Nat]

StatsInit ==
  /\ statsManager = FALSE
  /\ counter = [n \in Names |-> 0]
  /\ totals = Zero
  /\ holder = NoCaller /\ query = "none"
  /\ todo = {}
  /\ deltas = Zero
  /\ through = Zero
  /\ before = Zero
  /\ answer = [k \in Callers |-> Zero]
  /\ legacy = Zero

-----------------------------------------------------------------------------
\* StartLoop of a configuration with statistics, and StopLoop.
StartLoop ==
  /\ holder = NoCaller /\ ~statsManager
  /\ statsManager' = TRUE
  /\ totals' = Zero
  /\ UNCHANGED <<counter, queryVars, answerVars, through>>

StopLoop ==
  /\ holder = NoCaller /\ statsManager
  /\ statsManager' = FALSE
  /\ totals' = Zero
  \* a later session has counters, and a history, of its own
  /\ counter' = [n \in Names |-> 0]
  /\ through' = Zero
  /\ answer' = [k \in Callers |-> Zero]
  /\ legacy' = Zero
  /\ UNCHANGED queryVars

\* A connection of the session counts its traffic.
Transfer(n) ==
  /\ statsManager
  /\ counter[n] < MaxTraffic
  /\ n \in Counters => through[n] < MaxTraffic
  /\ counter' = [counter EXCEPT ![n] = @ + 1]
  /\ through' = [m \in Counters |-> IF m = n THEN through[m] + 1 ELSE through[m]]
  /\ UNCHANGED <<statsManager, totals, queryVars, answerVars>>

-----------------------------------------------------------------------------
\* A query takes c.mu and starts its drain; without a manager there is none.
QueryWithoutDrain(k, kind) ==
  /\ holder = NoCaller
  /\ holder' = k /\ query' = kind
  /\ todo' = IF statsManager /\ kind = "legacy" THEN Names ELSE {}
  /\ deltas' = Zero
  /\ before' = through
  /\ UNCHANGED <<sessionVars, answerVars, through>>

Query(k, kind) ==
  /\ holder = NoCaller
  /\ holder' = k /\ query' = kind
  /\ todo' = IF statsManager THEN Names ELSE {}
  /\ deltas' = Zero
  /\ before' = through
  /\ UNCHANGED <<sessionVars, answerVars, through>>

\* The function that drainTrafficStatsLocked gives to VisitCounters: Set(0)
\* swaps the counter, so that no transfer is lost between reading and reset.
VisitForgettingEarlierDrains(n) ==
  /\ n \in todo
  /\ todo' = todo \ {n}
  /\ IF n \in Counters /\ counter[n] > 0
       THEN /\ counter' = [counter EXCEPT ![n] = 0]
            /\ totals' = [totals EXCEPT ![n] = counter[n]]
            /\ deltas' = [deltas EXCEPT ![n] = counter[n]]
       ELSE UNCHANGED <<counter, totals, deltas>>
  /\ UNCHANGED <<statsManager, holder, query, before, answerVars, through>>

Visit(n) ==
  /\ n \in todo
  /\ todo' = todo \ {n}
  /\ IF n \in Counters /\ counter[n] > 0
       THEN /\ counter' = [counter EXCEPT ![n] = 0]
            /\ totals' = [totals EXCEPT ![n] = @ + counter[n]]
            /\ deltas' = [deltas EXCEPT ![n] = counter[n]]
       ELSE UNCHANGED <<counter, totals, deltas>>
  /\ UNCHANGED <<statsManager, holder, query, before, answerVars, through>>

\* The answer: the totals, or for the legacy query what this drain moved.
AnswerDeltas ==
  /\ holder # NoCaller /\ todo = {}
  /\ IF query = "totals"
       THEN answer' = [answer EXCEPT ![holder] = deltas] /\ UNCHANGED legacy
       ELSE /\ legacy' = [n \in Counters |-> IF n \in Outbound THEN legacy[n] + deltas[n] ELSE 0]
            /\ UNCHANGED answer
  /\ holder' = NoCaller /\ query' = "none"
  /\ deltas' = Zero /\ before' = Zero
  /\ UNCHANGED <<sessionVars, todo, through>>

Answer ==
  /\ holder # NoCaller /\ todo = {}
  /\ IF query = "totals"
       THEN answer' = [answer EXCEPT ![holder] = totals] /\ UNCHANGED legacy
       ELSE /\ legacy' = [n \in Counters |-> IF n \in Outbound THEN legacy[n] + deltas[n] ELSE 0]
            /\ UNCHANGED answer
  /\ holder' = NoCaller /\ query' = "none"
  /\ deltas' = Zero /\ before' = Zero
  /\ UNCHANGED <<sessionVars, todo, through>>

-----------------------------------------------------------------------------
StatsNext ==
  \/ StartLoop \/ StopLoop
  \/ \E n \in Names : Transfer(n) \/ Visit(n)
  \/ \E k \in Callers, kind \in {"totals", "legacy"} : Query(k, kind)
  \/ Answer

StatsSpec == StatsInit /\ [][StatsNext]_vars

-----------------------------------------------------------------------------
(* No byte is lost or counted twice while drains and connections overlap:  *)
(* what has been drained and what is still in a counter make up the        *)
(* traffic of the session.                                                 *)
Conserved == \A n \in Counters : totals[n] + counter[n] = through[n]

(* The legacy query never reports a byte twice, and nothing that has not   *)
(* been drained, whoever else queries in between.                          *)
LegacyReportsOnce ==
  \A n \in Counters : legacy[n] + (IF query = "legacy" THEN deltas[n] ELSE 0) <= totals[n]

(* A snapshot of the totals is current: it has every byte that had passed  *)
(* when the query took the lock and none that had not when it returned.    *)
AnswersAreCurrent ==
  [][\A k \in Callers, n \in Counters :
       holder = k /\ query = "totals" /\ holder' = NoCaller =>
         before[n] <= answer'[k][n] /\ answer'[k][n] <= through[n]]_vars

(* skipicore.go:333 "every call receives the same totals [...] rather than *)
(* stealing a delta from another consumer": an answer is never below one   *)
(* that any caller has had in the session.                                 *)
NobodySteals ==
  [][\A k, j \in Callers, n \in Counters :
       holder = k /\ query = "totals" /\ holder' = NoCaller =>
         answer[j][n] <= answer'[k][n]]_vars

(* The inductive invariant behind them: a counter that the query has       *)
(* visited has left in the totals what had passed before the query, and    *)
(* answers and earlier traffic are bounded by the totals and the traffic.  *)
QueryUnderLock ==
  /\ query = "none" <=> holder = NoCaller
  /\ holder = NoCaller => todo = {}

DrainedSoFar ==
  \A n \in Counters :
    /\ ~statsManager => through[n] = 0
    /\ before[n] <= through[n]
    /\ holder # NoCaller /\ n \notin todo => before[n] <= totals[n]
    /\ n \in todo => deltas[n] = 0
    /\ holder = NoCaller => deltas[n] = 0 /\ before[n] = 0
    /\ \A k \in Callers : answer[k][n] <= totals[n]

StatsInv == StatsTypeOK /\ Conserved /\ LegacyReportsOnce /\ QueryUnderLock /\ DrainedSoFar
=============================================================================
