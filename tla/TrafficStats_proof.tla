------------------------- MODULE TrafficStats_proof -------------------------
(***************************************************************************)
(* Proofs about TrafficStats, for any counters, callers and traffic.       *)
(***************************************************************************)
EXTENDS TrafficStats, TLAPS

LEMMA StatsInitially == StatsInit => StatsInv
<1> SUFFICES ASSUME StatsInit PROVE StatsInv
  OBVIOUS
<1>a. ASSUME NEW n \in Counters
      PROVE  /\ totals[n] + counter[n] = through[n]
             /\ legacy[n] + (IF query = "legacy" THEN deltas[n] ELSE 0) <= totals[n]
             /\ through[n] = 0 /\ deltas[n] = 0 /\ before[n] = 0
             /\ before[n] <= through[n] /\ before[n] <= totals[n]
  BY <1>a DEF StatsInit, Zero, Names
<1>b. ASSUME NEW n \in Counters, NEW k \in Callers PROVE answer[k][n] <= totals[n]
  BY <1>b DEF StatsInit, Zero
<1>1. StatsTypeOK
  BY DEF StatsInit, Zero, StatsTypeOK
<1>2. Conserved /\ LegacyReportsOnce
  BY <1>a, Zenon DEF Conserved, LegacyReportsOnce
<1>3. DrainedSoFar
  BY <1>a, <1>b, Zenon DEF DrainedSoFar
<1>4. QueryUnderLock
  BY DEF StatsInit, QueryUnderLock
<1> QED BY <1>1, <1>2, <1>3, <1>4 DEF StatsInv

LEMMA StatsStep == StatsInv /\ [StatsNext]_vars => StatsInv'
<1> SUFFICES ASSUME StatsInv, [StatsNext]_vars PROVE StatsInv'
  OBVIOUS
<1> USE OutboundCounters, OthersApart, NoCallerNotCaller DEF StatsInv
<1>1. CASE StartLoop
  <2>a. \A n \in Counters : counter[n] \in Nat /\ totals[n] = 0 /\ counter[n] = 0
    BY <1>1 DEF StartLoop, StatsTypeOK, Conserved, DrainedSoFar, Names
  <2>b. totals' = totals /\ UNCHANGED <<counter, queryVars, answerVars, through>>
    BY <1>1, <2>a DEF StartLoop, StatsTypeOK, Zero
  <2>1. StatsTypeOK'
    BY <1>1, <2>b DEF StartLoop, StatsTypeOK, queryVars, answerVars
  <2>2. Conserved' /\ LegacyReportsOnce'
    BY <2>b DEF Conserved, LegacyReportsOnce, queryVars, answerVars
  <2>3. DrainedSoFar'
    BY <1>1, <2>b DEF StartLoop, DrainedSoFar, queryVars, answerVars
  <2>4. QueryUnderLock'
    BY <2>b DEF QueryUnderLock, queryVars
  <2> QED BY <2>1, <2>2, <2>3, <2>4
<1>2. CASE StopLoop
  <2>a. ASSUME NEW n \in Counters
        PROVE  /\ totals'[n] = 0 /\ counter'[n] = 0 /\ through'[n] = 0 /\ legacy'[n] = 0
               /\ \A k \in Callers : answer'[k][n] = 0
               /\ deltas'[n] = 0 /\ before'[n] = 0
    BY <1>2, <2>a DEF StopLoop, DrainedSoFar, queryVars, Zero, Names
  <2>b. holder = NoCaller /\ UNCHANGED <<holder, query, todo, deltas, before>>
    BY <1>2 DEF StopLoop, queryVars
  <2>1. StatsTypeOK'
    BY <1>2 DEF StopLoop, queryVars, StatsTypeOK, Zero
  <2>2. Conserved' /\ LegacyReportsOnce'
    BY <2>a DEF Conserved, LegacyReportsOnce
  <2>3. DrainedSoFar'
    BY <2>a, <2>b DEF DrainedSoFar
  <2>4. QueryUnderLock'
    BY <2>b DEF QueryUnderLock
  <2> QED BY <2>1, <2>2, <2>3, <2>4
<1>3. ASSUME NEW n \in Names, Transfer(n) PROVE StatsInv'
  <2>1. StatsTypeOK'
    BY <1>3 DEF Transfer, queryVars, answerVars, StatsTypeOK, Zero, Names
  <2>2. Conserved'
    BY <1>3 DEF Transfer, queryVars, answerVars, StatsTypeOK, Conserved, Zero, Names
  <2>3. LegacyReportsOnce'
    BY <1>3 DEF Transfer, queryVars, answerVars, StatsTypeOK, LegacyReportsOnce, QueryUnderLock, DrainedSoFar,
        Zero, Names
  <2>4. DrainedSoFar'
    BY <1>3 DEF Transfer, queryVars, answerVars, StatsTypeOK, Conserved, DrainedSoFar, Zero, Names
  <2>5. QueryUnderLock'
    BY <1>3 DEF Transfer, queryVars, QueryUnderLock
  <2> QED BY <2>1, <2>2, <2>3, <2>4, <2>5
<1>4. ASSUME NEW n \in Names, Visit(n) PROVE StatsInv'
  <2>1. StatsTypeOK'
    BY <1>4 DEF Visit, answerVars, StatsTypeOK, Zero, Names
  <2>2. Conserved'
    BY <1>4 DEF Visit, answerVars, StatsTypeOK, Conserved, Zero, Names
  <2>3. LegacyReportsOnce'
    BY <1>4 DEF Visit, answerVars, StatsTypeOK, LegacyReportsOnce, QueryUnderLock, DrainedSoFar,
        Zero, Names
  <2>4. DrainedSoFar'
    <3> SUFFICES ASSUME NEW m \in Counters
                 PROVE  /\ ~statsManager' => through'[m] = 0
                        /\ before'[m] <= through'[m]
                        /\ holder' # NoCaller /\ m \notin todo' => before'[m] <= totals'[m]
                        /\ m \in todo' => deltas'[m] = 0
                        /\ holder' = NoCaller => deltas'[m] = 0 /\ before'[m] = 0
                        /\ \A k \in Callers : answer'[k][m] <= totals'[m]
      BY DEF DrainedSoFar
    <3>1. CASE m # n
      BY <1>4, <3>1 DEF Visit, answerVars, StatsTypeOK, DrainedSoFar
    <3>2. CASE m = n
      <4>1. /\ totals[m] \in Nat /\ counter[m] \in Nat /\ through[m] \in Nat /\ before[m] \in Nat
            /\ totals[m] + counter[m] = through[m] /\ before[m] <= through[m]
            /\ \A k \in Callers : answer[k][m] \in Nat /\ answer[k][m] <= totals[m]
        BY DEF StatsTypeOK, Conserved, DrainedSoFar, Names
      <4>2. totals'[m] = totals[m] + counter[m] /\ m \notin todo'
        BY <1>4, <3>2, <4>1 DEF Visit, StatsTypeOK
      <4>3. UNCHANGED <<statsManager, holder, before, answer, through>>
        BY <1>4 DEF Visit, answerVars
      <4>4. holder # NoCaller
        BY <1>4 DEF Visit, QueryUnderLock
      <4> QED BY <4>1, <4>2, <4>3, <4>4 DEF DrainedSoFar
    <3> QED BY <3>1, <3>2
  <2>5. QueryUnderLock'
    BY <1>4 DEF Visit, QueryUnderLock
  <2> QED BY <2>1, <2>2, <2>3, <2>4, <2>5
<1>5. ASSUME NEW k \in Callers, NEW kind \in {"totals", "legacy"}, Query(k, kind)
      PROVE  StatsInv'
  <2>1. StatsTypeOK'
    BY <1>5 DEF Query, sessionVars, answerVars, StatsTypeOK, Zero, Names
  <2>2. Conserved'
    BY <1>5 DEF Query, sessionVars, answerVars, StatsTypeOK, Conserved, Zero, Names
  <2>3. LegacyReportsOnce'
    BY <1>5 DEF Query, sessionVars, answerVars, StatsTypeOK, LegacyReportsOnce, QueryUnderLock, DrainedSoFar,
        Zero, Names
  <2>4. DrainedSoFar'
    BY <1>5 DEF Query, sessionVars, answerVars, StatsTypeOK, Conserved, DrainedSoFar, Zero, Names
  <2>5. QueryUnderLock'
    BY <1>5 DEF Query, sessionVars, answerVars, QueryUnderLock
  <2> QED BY <2>1, <2>2, <2>3, <2>4, <2>5
<1>6. CASE Answer
  <2>1. StatsTypeOK'
    BY <1>6 DEF Answer, sessionVars, StatsTypeOK, Zero, Names
  <2>2. Conserved'
    BY <1>6 DEF Answer, sessionVars, StatsTypeOK, Conserved, Zero, Names
  <2>3. LegacyReportsOnce'
    BY <1>6 DEF Answer, sessionVars, StatsTypeOK, LegacyReportsOnce, QueryUnderLock, DrainedSoFar,
        Zero, Names
  <2>4. DrainedSoFar'
    BY <1>6 DEF Answer, sessionVars, StatsTypeOK, Conserved, DrainedSoFar, Zero, Names
  <2>5. QueryUnderLock'
    BY <1>6 DEF Answer, QueryUnderLock
  <2> QED BY <2>1, <2>2, <2>3, <2>4, <2>5
<1>7. CASE UNCHANGED vars
  BY <1>7
  DEF vars, sessionVars, queryVars, answerVars, StatsTypeOK, Conserved, LegacyReportsOnce,
      QueryUnderLock, DrainedSoFar
<1> QED BY <1>1, <1>2, <1>3, <1>4, <1>5, <1>6, <1>7 DEF StatsNext

(* The inductive invariant of the statistics holds in every behaviour.     *)
THEOREM StatsInvariant == StatsSpec => []StatsInv
  BY StatsInitially, StatsStep, PTL DEF StatsSpec

(* Drains and connections together lose and double nothing.                *)
THEOREM NothingLost == StatsSpec => []Conserved
<1>1. StatsInv => Conserved
  BY DEF StatsInv
<1> QED BY <1>1, StatsInvariant, PTL

(* Legacy queries report no byte twice, whoever else queries in between.   *)
THEOREM LegacyOnce == StatsSpec => []LegacyReportsOnce
<1>1. StatsInv => LegacyReportsOnce
  BY DEF StatsInv
<1> QED BY <1>1, StatsInvariant, PTL

(* What a query answers, read off the inductive invariant in the state in  *)
(* which it answers.                                                       *)
LEMMA AnswerBounds ==
  ASSUME StatsInv, [StatsNext]_vars, NEW k \in Callers, NEW n \in Counters,
         holder = k, query = "totals", holder' = NoCaller
  PROVE  /\ before[n] <= answer'[k][n]
         /\ answer'[k][n] <= through[n]
         /\ \A j \in Callers : answer[j][n] <= answer'[k][n]
<1>1. Answer
  BY NoCallerNotCaller
  DEF StatsNext, StartLoop, StopLoop, Transfer, Visit, Query, vars, queryVars
<1>2. answer'[k] = totals /\ todo = {} /\ holder # NoCaller
  BY <1>1 DEF Answer, StatsInv, StatsTypeOK
<1>3. totals[n] \in Nat /\ counter[n] \in Nat /\ totals[n] + counter[n] = through[n]
  BY DEF StatsInv, StatsTypeOK, Conserved, Names
<1> QED BY <1>2, <1>3 DEF StatsInv, StatsTypeOK, DrainedSoFar

(* Every snapshot of the totals is current.                                *)
THEOREM SnapshotsAreCurrent == StatsSpec => AnswersAreCurrent
<1>1. StatsInv /\ [StatsNext]_vars =>
        [\A k \in Callers, n \in Counters :
           holder = k /\ query = "totals" /\ holder' = NoCaller =>
             before[n] <= answer'[k][n] /\ answer'[k][n] <= through[n]]_vars
  BY AnswerBounds
<1> QED BY <1>1, StatsInvariant, PTL DEF StatsSpec, AnswersAreCurrent

(* No consumer of the totals steals from another one.                      *)
THEOREM ConsumersDoNotSteal == StatsSpec => NobodySteals
<1>1. StatsInv /\ [StatsNext]_vars =>
        [\A k, j \in Callers, n \in Counters :
           holder = k /\ query = "totals" /\ holder' = NoCaller =>
             answer[j][n] <= answer'[k][n]]_vars
  BY AnswerBounds
<1> QED BY <1>1, StatsInvariant, PTL DEF StatsSpec, NobodySteals
=============================================================================
