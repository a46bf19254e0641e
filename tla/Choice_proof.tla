---------------------------- MODULE Choice_proof ----------------------------
(***************************************************************************)
(* The two selections by a loop that keeps the best so far.  FastSelect    *)
(* returns the fastest of the answers that it heard, and no probe blocks;  *)
(* InterfaceChoice finds the best usable row, and never the tunnel.        *)
(***************************************************************************)
EXTENDS FastSelect, InterfaceChoice, FiniteSetTheorems, SequenceTheorems, TLAPS

-----------------------------------------------------------------------------
(* FastSelect.                                                             *)

SelectInductive == SelectTypeOK /\ LoopRemembers /\ OutcomesOfProbes

LEMMA SelectConstants ==
  /\ MaxCandidates \in Nat \ {0} /\ Latencies \subseteq Nat /\ FastEnough \in Nat
  /\ 1 \in Positions
BY MaxCandidatesPos, LatenciesNat, FastEnoughNat DEF Positions

LEMMA SelectInductiveInit == SelectInit => SelectInductive
<1> SUFFICES ASSUME SelectInit PROVE SelectInductive OBVIOUS
<1> USE SelectConstants DEF SelectInit
<1>1. SelectTypeOK
  BY DEF SelectTypeOK, Positions, Outcomes
<1>2. LoopRemembers
  BY DEF LoopRemembers
<1>3. Ended = {}
  BY DEF Ended
<1>4. Cardinality(Ended) = 0
  BY <1>3, FS_EmptySet
<1>5. OutcomesOfProbes
  BY <1>4 DEF OutcomesOfProbes
<1> QED BY <1>1, <1>2, <1>5 DEF SelectInductive

LEMMA EndedFinite ==
  ASSUME SelectTypeOK
  PROVE  Ended \subseteq 1..MaxCandidates /\ IsFiniteSet(Ended)
<1>1. Ended \subseteq 1..MaxCandidates
  BY DEF Ended, Positions
<1>2. IsFiniteSet(1..MaxCandidates)
  BY SelectConstants, FS_Interval
<1> QED BY <1>1, <1>2, FS_Subset

LEMMA IntervalWithout ==
  ASSUME NEW n \in Nat, NEW i \in 1..n
  PROVE  IsFiniteSet((1..n) \ {i}) /\ Cardinality((1..n) \ {i}) = n - 1
<1> DEFINE all == 1..n
<1>1. IsFiniteSet(all) /\ Cardinality(all) = n /\ i \in all
  BY FS_Interval
<1> HIDE DEF all
<1>2. IsFiniteSet(all \ {i}) /\ Cardinality(all \ {i}) = n - 1
  BY <1>1, FS_RemoveElement
<1> QED BY <1>2 DEF all

(* As long as a probe is running, fewer outcomes than candidates have been *)
(* sent.                                                                   *)
LEMMA RoomWhileRunning ==
  ASSUME SelectInductive, NEW i \in Positions, probe[i] = "running"
  PROVE  Len(resultCh) < candidates
<1> USE SelectConstants DEF SelectInductive, SelectTypeOK, OutcomesOfProbes
<1>1. candidates \in Nat /\ i \in 1..candidates
  BY DEF Positions
<1>2. ASSUME NEW j \in Ended PROVE j \in (1..candidates) \ {i}
  BY DEF Ended, Positions
<1>3. IsFiniteSet((1..candidates) \ {i}) /\ Cardinality((1..candidates) \ {i}) = candidates - 1
  BY <1>1, IntervalWithout
<1>4. Ended \in SUBSET ((1..candidates) \ {i})
  BY <1>2
<1>5. Cardinality(Ended) <= candidates - 1
  BY <1>3, <1>4, FS_Subset
<1>6. received \in Nat /\ Len(resultCh) \in Nat
  BY <1>1
<1> QED BY <1>1, <1>5, <1>6

LEMMA LatencyIsInt == Latencies \cup {Failed} \subseteq Int
BY SelectConstants DEF Failed

LEMMA TagIsListed ==
  ASSUME SelectInductive
  PROVE  fastestTag \in 1..candidates \cup {NoTag}
<1>1. CASE fastestTag = NoTag
  BY <1>1
<1>2. CASE fastestTag # NoTag
  <2>1. PICK h \in heard : h = [tag |-> fastestTag, latency |-> lowestLatency]
    BY <1>2 DEF SelectInductive, LoopRemembers
  <2>2. h.tag = fastestTag /\ h.tag <= candidates
    BY <2>1 DEF SelectInductive, OutcomesOfProbes
  <2>3. fastestTag \in 1..MaxCandidates /\ candidates \in Nat
    BY <1>2, SelectConstants DEF SelectInductive, SelectTypeOK, Positions
  <2> QED BY <2>2, <2>3, SelectConstants
<1> QED BY <1>1, <1>2

LEMMA ProbeEndsKeeps ==
  ASSUME SelectInductive, NEW i \in Positions, NEW latency \in Latencies \cup {Failed},
         ProbeEnds(i, latency)
  PROVE  SelectInductive'
<1> DEFINE res == [tag |-> i, latency |-> latency]
<1> USE DEF SelectInductive, SelectTypeOK, ProbeEnds, loopVars
<1>0. res \in Outcomes
  BY DEF Outcomes
<1>1. /\ resultCh' = Append(resultCh, res) /\ resultCh' \in Seq(Outcomes)
      /\ Len(resultCh') = Len(resultCh) + 1
      /\ \A k \in 1..Len(resultCh') :
           resultCh'[k] = IF k = Len(resultCh') THEN res ELSE resultCh[k]
  BY <1>0
<1>2. SelectTypeOK'
  BY <1>1
<1>3. LoopRemembers'
  BY DEF LoopRemembers, AnswerOrFirst
<1>4. Ended' = Ended \cup {i} /\ i \notin Ended
  BY DEF Ended
<1>5. Cardinality(Ended') = Cardinality(Ended) + 1
  BY <1>4, EndedFinite, FS_AddElement
<1>6. Cardinality(Ended) \in Nat
  BY EndedFinite, FS_CardinalityType
<1>7. i <= candidates /\ pc # "setup"
  BY DEF OutcomesOfProbes
<1>8. OutcomesOfProbes'
  BY <1>1, <1>5, <1>6, <1>7 DEF OutcomesOfProbes
<1> QED BY <1>2, <1>3, <1>8

LEMMA ReceiveKeeps ==
  ASSUME SelectInductive, Receive
  PROVE  SelectInductive'
<1> DEFINE res == Head(resultCh)
<1> USE SelectConstants DEF SelectInductive, SelectTypeOK, Receive
<1>1. /\ res \in Outcomes /\ res = resultCh[1]
      /\ resultCh' = Tail(resultCh) /\ resultCh' \in Seq(Outcomes)
      /\ Len(resultCh') = Len(resultCh) - 1 /\ Len(resultCh) \in Nat
      /\ \A k \in 1..Len(resultCh') : resultCh'[k] = resultCh[k + 1]
  OBVIOUS
<1>2. res.tag \in Positions /\ res.tag <= candidates /\ res.latency \in Latencies \cup {Failed}
  BY <1>1 DEF Outcomes, OutcomesOfProbes
<1>3. pc = "loop" /\ received < candidates /\ received' = received + 1
  BY DEF LoopRemembers
<1>4. \/ fastestTag' = res.tag /\ lowestLatency' = res.latency /\ Better(res.latency)
      \/ UNCHANGED <<fastestTag, lowestLatency>> /\ ~Better(res.latency)
  OBVIOUS
<1>5. \/ ReturnTag(fastestTag')
      \/ UNCHANGED <<pc, result, ctx>> /\ received + 1 # candidates
  OBVIOUS
<1>6. heard' = heard \cup {res} /\ UNCHANGED <<candidates, probe>>
  OBVIOUS
<1> HIDE DEF Receive, res
<1>7. fastestTag \in 1..candidates \cup {NoTag}
  BY TagIsListed
<1>8. LoopRemembers'
  <2>1. pc' = "loop" => received' < candidates'
    BY <1>3, <1>5, <1>6 DEF ReturnTag
  <2>2. pc' = "returned" => result' = AnswerOrFirst(fastestTag')
    BY <1>3, <1>5 DEF ReturnTag
  <2>3. CASE UNCHANGED <<fastestTag, lowestLatency>> /\ ~Better(res.latency)
    <3>1. /\ fastestTag = NoTag => \A h \in heard' : h.latency = Failed
          /\ fastestTag # NoTag => [tag |-> fastestTag, latency |-> lowestLatency] \in heard'
      BY <1>6, <2>3 DEF LoopRemembers, Better
    <3>2. lowestLatency \in Int /\ res.latency \in Int
      BY <1>2, LatencyIsInt
    <3>3. fastestTag # NoTag /\ res.latency # Failed => lowestLatency <= res.latency
      BY <2>3, <3>2 DEF Better
    <3> QED BY <1>6, <2>1, <2>2, <2>3, <3>1, <3>3 DEF LoopRemembers
  <2>4. CASE fastestTag' = res.tag /\ lowestLatency' = res.latency /\ Better(res.latency)
    <3>1. [tag |-> res.tag, latency |-> res.latency] = res
      BY <1>1 DEF Outcomes
    <3>2. [tag |-> fastestTag', latency |-> lowestLatency'] \in heard'
      BY <1>6, <2>4, <3>1
    <3>3. res.latency # Failed /\ res.latency \in Int /\ fastestTag' # NoTag
      BY <1>2, <2>4, LatencyIsInt DEF Better, NoTag, Positions
    <3>4. ASSUME NEW h \in heard, h.latency # Failed PROVE res.latency <= h.latency
      <4>1. fastestTag # NoTag /\ lowestLatency <= h.latency /\ res.latency < lowestLatency
        BY <2>4, <3>4 DEF LoopRemembers, Better
      <4>2. h.latency \in Int /\ lowestLatency \in Int
        BY LatencyIsInt DEF Outcomes
      <4> QED BY <3>3, <4>1, <4>2
    <3> QED BY <1>6, <2>1, <2>2, <2>4, <3>2, <3>3, <3>4 DEF LoopRemembers
  <2> QED BY <1>4, <2>3, <2>4
<1>9. SelectTypeOK'
  <2>1. /\ fastestTag' \in Positions \cup {NoTag}
        /\ lowestLatency' \in Latencies \cup {Failed}
        /\ fastestTag' \in 1..candidates \cup {NoTag}
    BY <1>2, <1>4, <1>7 DEF Positions
  <2>2. /\ pc' \in {"loop", "returned"} /\ ctx' \in {"none", "live", "done"}
        /\ result' \in IF pc' = "returned" THEN 1..candidates ELSE {NoTag}
    BY <1>3, <1>5, <2>1 DEF ReturnTag, AnswerOrFirst, NoTag, Positions
  <2>3. heard' \subseteq Outcomes /\ received' \in 0..candidates
    BY <1>1, <1>3, <1>6
  <2> QED BY <1>1, <1>6, <2>1, <2>2, <2>3
<1>10. OutcomesOfProbes'
  BY <1>1, <1>2, <1>3, <1>5, <1>6 DEF OutcomesOfProbes, Ended, ReturnTag
<1> QED BY <1>8, <1>9, <1>10

LEMMA SelectInductiveNext == SelectInductive /\ [SelectNext]_vars => SelectInductive'
<1> SUFFICES ASSUME SelectInductive, [SelectNext]_vars PROVE SelectInductive' OBVIOUS
<1> USE SelectConstants
    DEF SelectInductive, SelectTypeOK, LoopRemembers, OutcomesOfProbes, Ended, loopVars, ReturnTag
<1>1. CASE SetupReturns
  <2>1. /\ pc' = "returned" /\ result' = 1 /\ ctx' = "done" /\ heard' = heard
        /\ UNCHANGED <<candidates, probe, resultCh, received, fastestTag, lowestLatency>>
    BY <1>1 DEF SetupReturns, AnswerOrFirst
  <2>2. fastestTag = NoTag
    BY <1>1 DEF SetupReturns
  <2> QED BY <2>1, <2>2 DEF AnswerOrFirst, Positions
<1>2. CASE Launch
  <2>1. Ended' = {} /\ Ended = {}
    BY <1>2 DEF Launch
  <2>2. /\ pc' = "loop" /\ ctx' = "live"
        /\ UNCHANGED <<candidates, resultCh, received, fastestTag, lowestLatency, heard, result>>
    BY <1>2 DEF Launch
  <2>3. probe' \in [Positions -> {"none", "running", "ended"}]
    BY <1>2 DEF Launch
  <2>4. \A i \in Positions : probe'[i] # "none" => i <= candidates
    BY <1>2 DEF Launch
  <2>5. received < candidates
    BY <1>2 DEF Launch, Positions
  <2>6. pc = "setup"
    BY <1>2 DEF Launch
  <2>7. OutcomesOfProbes'
    BY <2>1, <2>2, <2>4, <2>6
  <2> QED BY <2>2, <2>3, <2>5, <2>6, <2>7
<1>3. CASE DeadlinePasses
  BY <1>3 DEF DeadlinePasses
<1>4. CASE Deadline
  <2>1. fastestTag \in 1..candidates \cup {NoTag}
    BY TagIsListed
  <2> QED BY <1>4, <2>1 DEF Deadline, AnswerOrFirst, Positions, NoTag
<1>5. CASE UNCHANGED vars
  BY <1>5 DEF vars
<1> QED BY <1>1, <1>2, <1>3, <1>4, <1>5, ProbeEndsKeeps, ReceiveKeeps DEF SelectNext

(* The loop remembers the best of what it has heard (inductive invariant). *)
THEOREM SelectInvariant == SelectSpec => []SelectInductive
BY SelectInductiveInit, SelectInductiveNext, PTL DEF SelectSpec

(* The call returns a candidate of the list, and the fastest of those that *)
(* had answered when the loop ended.                                       *)
THEOREM BestIsReturned == SelectSpec => []SelectInv
<1>1. SelectInductive => SelectInv
  <2> SUFFICES ASSUME SelectInductive, pc = "returned" PROVE BestOfHeard
    BY DEF SelectInductive, SelectInv, BestOfHeard
  <2> DEFINE winner == [tag |-> fastestTag, latency |-> lowestLatency]
  <2>1. CASE fastestTag = NoTag
    BY <2>1 DEF SelectInductive, LoopRemembers, BestOfHeard, AnswerOrFirst
  <2>2. CASE fastestTag # NoTag
    <3>1. /\ winner \in heard /\ winner.tag = result /\ winner.latency # Failed
          /\ \A res \in heard : res.latency # Failed => winner.latency <= res.latency
      BY <2>2 DEF SelectInductive, LoopRemembers, AnswerOrFirst
    <3> QED BY <3>1 DEF BestOfHeard
  <2> QED BY <2>1, <2>2
<1> QED BY <1>1, SelectInvariant, PTL

(* A probe that ends can always send: the channel has room for everyone    *)
(* who has not sent yet, whether or not the caller still receives.         *)
THEOREM ProbesNeverBlock == SelectSpec => []ChannelHasRoom
<1>1. SelectInductive => ChannelHasRoom
  BY RoomWhileRunning DEF ChannelHasRoom, RoomInChannel
<1> QED BY <1>1, SelectInvariant, PTL

-----------------------------------------------------------------------------
(* InterfaceChoice.  The loop over the forwarding table keeps the lowest   *)
(* metric per interface; with it, and as long as the metrics fit, the      *)
(* wrapped sum that the code compares orders usable rows as Rank does, so  *)
(* the loop over the rows keeps the best of those it has passed.           *)
ChoiceInductive == LookupProgress /\ BinderExcludesTunnel /\ LoopsKeepBest

LEMMA SystemIsKnown ==
  ASSUME BinderExcludesTunnel PROVE system \in {"linux", "darwin", "windows"}
BY SystemsKnown DEF BinderExcludesTunnel

LEMMA ForwardRowTypes ==
  ASSUME forwards \in Seq(ForwardRow), NEW k \in 1..Len(forwards)
  PROVE  /\ forwards[k].index \in Nat /\ forwards[k].metric \in Int
         /\ 0 <= forwards[k].metric /\ forwards[k].metric <= Modulus - 1
<1>1. forwards[k] \in ForwardRow
  OBVIOUS
<1> QED BY <1>1, ModulusPositive DEF ForwardRow

LEMMA AdapterRowTypes ==
  ASSUME table \in Seq(AdapterRow), NEW k \in 1..Len(table)
  PROVE  /\ table[k].index \in Nat /\ table[k].metric \in Int
         /\ 0 <= table[k].metric /\ table[k].metric <= Modulus - 1
<1>1. table[k] \in AdapterRow
  OBVIOUS
<1> QED BY <1>1, ModulusPositive DEF AdapterRow

LEMMA RouteRowTypes ==
  ASSUME table \in Seq(RouteRow), NEW k \in 1..Len(table)
  PROVE  table[k].metric \in Int
<1>1. table[k] \in RouteRow
  OBVIOUS
<1> QED BY <1>1 DEF RouteRow

(* One turn of defaultRouteMetrics keeps the lowest route per interface.   *)
LEMMA KeepLowestKeeps ==
  ASSUME forwards \in Seq(ForwardRow), forwards' = forwards,
         next \in 1..Len(forwards), LowestSoFar(next),
         metrics' = IF forwards[next].inet /\ forwards[next].default
                      THEN KeepLowest(forwards[next].index, forwards[next].metric) ELSE metrics,
         next' = next + 1
  PROVE  LowestSoFar(next)'
<1>1. \A i : DefaultRoutesOf(i)' = DefaultRoutesOf(i)
  BY DEF DefaultRoutesOf
<1>2. CASE ~(forwards[next].inet /\ forwards[next].default)
  <2>1. metrics' = metrics
    BY <1>2
  <2> QED BY <1>1, <1>2, <2>1 DEF LowestSoFar, DefaultRoutesOf
<1>3. CASE forwards[next].inet /\ forwards[next].default
  <2> DEFINE i == forwards[next].index
             m == forwards[next].metric
  <2>1. metrics' = KeepLowest(i, m)
    BY <1>3
  <2>2. DOMAIN metrics' = DOMAIN metrics \cup {i}
    BY <2>1 DEF KeepLowest
  <2>3. \A j \in DOMAIN metrics : j # i => metrics'[j] = metrics[j]
    BY <2>1 DEF KeepLowest
  <2>4. metrics'[i] = IF i \in DOMAIN metrics /\ metrics[i] <= m THEN metrics[i] ELSE m
    BY <2>1 DEF KeepLowest
  <2>5. \A j \in DOMAIN metrics : metrics[j] \in Int
    BY ForwardRowTypes DEF LowestSoFar, DefaultRoutesOf
  <2>6. m \in Int
    BY ForwardRowTypes
  <2>7. /\ metrics'[i] <= m
        /\ i \in DOMAIN metrics => metrics'[i] <= metrics[i]
    BY <2>4, <2>5, <2>6
  <2>8. ASSUME NEW k \in 1..Len(forwards), forwards[k].inet, forwards[k].default, k < next + 1
        PROVE  forwards[k].index \in DOMAIN metrics' /\ metrics'[forwards[k].index] <= forwards[k].metric
    <3>1. CASE k = next
      BY <3>1, <2>2, <2>7
    <3>2. CASE k # next
      <4>1. k < next
        BY <2>8, <3>2
      <4>2. forwards[k].index \in DOMAIN metrics /\ metrics[forwards[k].index] <= forwards[k].metric
        BY <4>1, <2>8 DEF LowestSoFar
      <4>3. forwards[k].metric \in Int
        BY ForwardRowTypes
      <4>4. metrics'[forwards[k].index] \in Int
        BY <4>2, <2>3, <2>4, <2>5, <2>6
      <4> QED BY <4>2, <4>3, <4>4, <2>2, <2>3, <2>5, <2>7
    <3> QED BY <3>1, <3>2
  <2>9. ASSUME NEW j \in DOMAIN metrics'
        PROVE  \E k \in DefaultRoutesOf(j) : k < next + 1 /\ metrics'[j] = forwards[k].metric
    <3>1. CASE j \in DOMAIN metrics /\ metrics'[j] = metrics[j]
      <4>1. PICK k \in DefaultRoutesOf(j) : k < next /\ metrics[j] = forwards[k].metric
        BY <3>1 DEF LowestSoFar
      <4>2. k < next + 1
        BY <4>1 DEF DefaultRoutesOf
      <4> QED BY <3>1, <4>1, <4>2
    <3>2. CASE j = i /\ metrics'[j] = m
      <4>1. next \in DefaultRoutesOf(j)
        BY <3>2, <1>3 DEF DefaultRoutesOf
      <4> QED BY <3>2, <4>1
    <3> QED BY <3>1, <3>2, <2>2, <2>3, <2>4
  <2> HIDE DEF i, m
  <2> QED BY <1>1, <2>8, <2>9 DEF LowestSoFar
<1> QED BY <1>2, <1>3

(* When all routes are read, an interface with a default route has the     *)
(* metric of the lowest one, and the others have none.                     *)
LEMMA MetricIsLowest ==
  ASSUME forwards \in Seq(ForwardRow), LowestSoFar(Len(forwards) + 1), NEW i
  PROVE  /\ (i \in DOMAIN metrics) <=> (DefaultRoutesOf(i) # {})
         /\ i \in DOMAIN metrics => /\ LowestRoute(i) = metrics[i]
                                    /\ metrics[i] \in Int
                                    /\ 0 <= metrics[i] /\ metrics[i] <= Modulus - 1
<1>1. \A k \in DefaultRoutesOf(i) : i \in DOMAIN metrics /\ metrics[i] <= forwards[k].metric
  BY DEF LowestSoFar, DefaultRoutesOf
<1>2. SUFFICES ASSUME i \in DOMAIN metrics
      PROVE  /\ DefaultRoutesOf(i) # {}
             /\ LowestRoute(i) = metrics[i] /\ metrics[i] \in Int
             /\ 0 <= metrics[i] /\ metrics[i] <= Modulus - 1
  BY <1>1
<1>3. PICK k \in DefaultRoutesOf(i) : metrics[i] = forwards[k].metric
  BY <1>2 DEF LowestSoFar
<1>4. /\ metrics[i] \in Int /\ 0 <= metrics[i] /\ metrics[i] <= Modulus - 1
  BY <1>3, ForwardRowTypes DEF DefaultRoutesOf
<1> DEFINE Routes == {forwards[j].metric : j \in DefaultRoutesOf(i)}
           Lowest(m) == \A j \in DefaultRoutesOf(i) : m <= forwards[j].metric
<1>5. metrics[i] \in Routes /\ Lowest(metrics[i])
  BY <1>1, <1>3
<1>6. LowestRoute(i) \in Routes /\ Lowest(LowestRoute(i))
  BY <1>5 DEF LowestRoute
<1>7. LowestRoute(i) <= metrics[i] /\ metrics[i] <= LowestRoute(i) /\ LowestRoute(i) \in Int
  BY <1>1, <1>3, <1>6, ForwardRowTypes DEF DefaultRoutesOf
<1> QED BY <1>3, <1>4, <1>7

(* As long as the metrics fit, what the code compares orders usable rows   *)
(* as their rank does.                                                     *)
LEMMA RankOfUsable ==
  ASSUME ChoiceInductive, step \in {"scan", "done"}, MetricsFit, NEW k \in UsableRows
  PROVE  /\ k \in 1..Len(table) /\ Rank(table[k]) \in Int
         /\ system = "linux" => Rank(table[k]) = table[k].metric /\ table[k].metric >= 0
         /\ system = "darwin" => Rank(table[k]) = 0
         /\ system = "windows" =>
              /\ table[k].index \in Nat
              /\ Rank(table[k]) < Modulus - 1 \/ Rank(table[k]) = 2 * Modulus
              /\ effectiveMetric(table[k]) =
                   IF Rank(table[k]) = 2 * Modulus THEN Modulus - 1 ELSE Rank(table[k])
<1> DEFINE row == table[k]
<1>1. k \in 1..Len(table) /\ Usable(row) /\ TableOfSystem
  BY DEF UsableRows, ChoiceInductive, LookupProgress
<1>2. CASE system = "linux"
  <2>1. row.metric >= 0
    BY <1>1, <1>2 DEF MetricsFit
  <2>2. row.metric \in Int
    BY <1>1, <1>2, RouteRowTypes DEF TableOfSystem
  <2>3. Rank(row) = row.metric
    BY <1>2 DEF Rank
  <2> QED BY <1>1, <1>2, <2>1, <2>2, <2>3
<1>3. CASE system = "darwin"
  <2>1. Rank(row) = 0
    BY <1>3 DEF Rank
  <2> QED BY <1>1, <1>3, <2>1
<1>4. CASE system = "windows"
  <2>1. Rank(row) < Modulus - 1 \/ Rank(row) = 2 * Modulus
    BY <1>1, <1>4 DEF MetricsFit
  <2>2. /\ row.index \in Nat /\ row.metric \in Int
        /\ 0 <= row.metric /\ row.metric <= Modulus - 1
    BY <1>1, <1>4, AdapterRowTypes DEF TableOfSystem
  <2>3. CASE ~haveTable
    <3>1. Rank(row) = row.metric /\ effectiveMetric(row) = row.metric
      BY <1>4, <2>3 DEF Rank, effectiveMetric
    <3> QED BY <1>1, <1>4, <2>1, <2>2, <3>1, ModulusPositive
  <2>4. CASE haveTable /\ DefaultRoutesOf(row.index) = {}
    <3>1. forwards \in Seq(ForwardRow) /\ LowestSoFar(Len(forwards) + 1)
      BY <2>4 DEF ChoiceInductive, LookupProgress, LoopsKeepBest
    <3>2. row.index \notin DOMAIN metrics
      BY <2>4, <3>1, MetricIsLowest
    <3>3. Rank(row) = 2 * Modulus /\ effectiveMetric(row) = Modulus - 1
      BY <1>4, <2>4, <3>2 DEF Rank, effectiveMetric
    <3> QED BY <1>1, <1>4, <2>1, <2>2, <3>3, ModulusPositive
  <2>5. CASE haveTable /\ DefaultRoutesOf(row.index) # {}
    <3> DEFINE low == metrics[row.index]
    <3>1. forwards \in Seq(ForwardRow) /\ LowestSoFar(Len(forwards) + 1)
      BY <2>5 DEF ChoiceInductive, LookupProgress, LoopsKeepBest
    <3>2. /\ row.index \in DOMAIN metrics /\ LowestRoute(row.index) = low
          /\ low \in Int /\ 0 <= low /\ low <= Modulus - 1
      BY <2>5, <3>1, MetricIsLowest
    <3>3. Rank(row) = row.metric + low
      BY <1>4, <2>5, <3>2 DEF Rank
    <3>4. effectiveMetric(row) = (row.metric + low) % Modulus
      BY <2>5, <3>2 DEF effectiveMetric
    <3> HIDE DEF row, low
    <3>5. row.metric + low < Modulus - 1
      BY <2>1, <2>2, <3>2, <3>3, ModulusPositive
    <3>6. (row.metric + low) % Modulus = row.metric + low
      BY <2>2, <3>2, <3>5, ModulusPositive
    <3>7. Rank(row) \in Int /\ Rank(row) < Modulus - 1 /\ Rank(row) # 2 * Modulus
      BY <2>2, <3>2, <3>3, <3>5, ModulusPositive
    <3>8. effectiveMetric(row) = Rank(row)
      BY <3>3, <3>4, <3>6
    <3> QED BY <1>1, <1>4, <2>2, <3>7, <3>8 DEF row
  <2> QED BY <2>3, <2>4, <2>5
<1> QED BY <1>2, <1>3, <1>4, SystemIsKnown DEF ChoiceInductive

LEMMA RanksTransitive ==
  ASSUME ChoiceInductive, step \in {"scan", "done"}, MetricsFit,
         NEW i \in UsableRows, NEW j \in UsableRows, NEW k \in UsableRows,
         RanksBefore(i, j), RanksBefore(j, k)
  PROVE  RanksBefore(i, k)
BY RankOfUsable DEF RanksBefore

(* The loop takes a row only if it ranks before the best so far, and skips *)
(* a usable one only if it does not.                                       *)
LEMMA BetterRanksBefore ==
  ASSUME ChoiceInductive, step = "scan", MetricsFit, best # 0,
         best \in UsableRows, next \in UsableRows
  PROVE  /\ system = "linux" => IF BetterRoute(table[next]) THEN RanksBefore(next, best)
                                ELSE RanksBefore(best, next)
         /\ system = "windows" => IF BetterAdapter(table[next]) THEN RanksBefore(next, best)
                                  ELSE RanksBefore(best, next)
<1>1. best < next
  BY DEF ChoiceInductive, LookupProgress
<1>2. ASSUME system = "linux"
      PROVE  IF BetterRoute(table[next]) THEN RanksBefore(next, best) ELSE RanksBefore(best, next)
  <2>1. Rank(table[best]) = table[best].metric /\ table[best].metric >= 0 /\ Rank(table[best]) \in Int
    BY <1>2, RankOfUsable
  <2>2. Rank(table[next]) = table[next].metric /\ table[next].metric >= 0 /\ Rank(table[next]) \in Int
    BY <1>2, RankOfUsable
  <2>3. best \in Int /\ next \in Int
    BY DEF UsableRows
  <2> QED BY <1>1, <1>2, <2>1, <2>2, <2>3 DEF BetterRoute, RanksBefore
<1>3. ASSUME system = "windows"
      PROVE  IF BetterAdapter(table[next]) THEN RanksBefore(next, best) ELSE RanksBefore(best, next)
  <2>1. /\ table[best].index \in Nat /\ table[next].index \in Nat
        /\ Rank(table[best]) \in Int /\ Rank(table[next]) \in Int
    BY <1>3, RankOfUsable
  <2>2. /\ Rank(table[best]) < Modulus - 1 \/ Rank(table[best]) = 2 * Modulus
        /\ effectiveMetric(table[best]) =
             IF Rank(table[best]) = 2 * Modulus THEN Modulus - 1 ELSE Rank(table[best])
    BY <1>3, RankOfUsable
  <2>3. /\ Rank(table[next]) < Modulus - 1 \/ Rank(table[next]) = 2 * Modulus
        /\ effectiveMetric(table[next]) =
             IF Rank(table[next]) = 2 * Modulus THEN Modulus - 1 ELSE Rank(table[next])
    BY <1>3, RankOfUsable
  <2> QED BY <1>3, <2>1, <2>2, <2>3, ModulusPositive DEF BetterAdapter, RanksBefore
<1> QED BY <1>2, <1>3

(* The order of the rows depends on the tables and on the name asked for.  *)
LEMMA OrderUnchanged ==
  ASSUME UNCHANGED <<system, asked, table, forwards, haveTable>>
  PROVE  /\ UsableRows' = UsableRows
         /\ MetricsFit' <=> MetricsFit
         /\ \A i, j : RanksBefore(i, j)' <=> RanksBefore(i, j)
         /\ \A r : Usable(r)' <=> Usable(r)
<1>1. \A i : DefaultRoutesOf(i)' = DefaultRoutesOf(i)
  BY DEF DefaultRoutesOf
<1>2. \A i : LowestRoute(i)' = LowestRoute(i)
  BY <1>1 DEF LowestRoute
<1>3. \A r : Rank(r)' = Rank(r)
  BY <1>1, <1>2 DEF Rank
<1>4. \A r : Usable(r)' <=> Usable(r)
  BY DEF Usable
<1>5. UsableRows' = UsableRows
  BY <1>4 DEF UsableRows
<1>6. MetricsFit' <=> MetricsFit
  BY <1>3, <1>4 DEF MetricsFit
<1>7. \A i, j : RanksBefore(i, j)' <=> RanksBefore(i, j)
  BY <1>3 DEF RanksBefore
<1> QED BY <1>4, <1>5, <1>6, <1>7

LEMMA ScanRowKeepsBest ==
  ASSUME ChoiceInductive, ScanRow, MetricsFit
  PROVE  BestSoFar(next)'
<1> DEFINE row == table[next]
           takes == Usable(row) /\ CASE system = "linux" -> BetterRoute(row)
                                     [] system = "darwin" -> TRUE
                                     [] system = "windows" -> BetterAdapter(row)
           seen == {k \in UsableRows : k < next}
<1>1. /\ step = "scan" /\ next \in 1..Len(table) /\ Len(table) \in Nat
      /\ best' = IF takes THEN next ELSE best
      /\ next' = IF takes /\ system = "darwin" THEN Len(table) + 1 ELSE next + 1
      /\ UNCHANGED <<system, asked, table, forwards, haveTable>>
  BY SystemIsKnown DEF ScanRow, ChoiceInductive, LookupProgress, sessionVars, snapshots, TableOfSystem
<1>2. /\ IF seen = {} THEN best = 0 ELSE best \in seen /\ \A k \in seen : RanksBefore(best, k)
      /\ best # 0 /\ system = "darwin" => next = Len(table) + 1
  BY <1>1 DEF ChoiceInductive, LookupProgress, LoopsKeepBest, BestSoFar
<1>3. /\ UsableRows' = UsableRows
      /\ \A i, j : RanksBefore(i, j)' <=> RanksBefore(i, j)
  BY <1>1, OrderUnchanged
<1>4. SUFFICES
        LET passed == {k \in UsableRows : k < next'}
        IN  IF passed = {} THEN best' = 0
            ELSE best' \in passed /\ \A k \in passed : RanksBefore(best', k)
  BY <1>3 DEF BestSoFar
<1>5. UsableRows \subseteq 1..Len(table) /\ 0 \notin UsableRows
  BY DEF UsableRows
<1>6. system \in {"linux", "darwin", "windows"}
  BY SystemIsKnown DEF ChoiceInductive
<1>7. \A k \in UsableRows : RanksBefore(k, k)
  BY <1>1, RankOfUsable DEF RanksBefore
<1>8. next \in UsableRows <=> Usable(row)
  BY <1>1 DEF UsableRows
<1>9. CASE ~Usable(row)
  <2>1. best' = best /\ next' = next + 1
    BY <1>1, <1>9
  <2>2. {k \in UsableRows : k < next'} = seen
    BY <1>1, <1>5, <1>8, <1>9, <2>1
  <2> QED BY <1>2, <2>1, <2>2
<1>10. CASE Usable(row) /\ system = "darwin"
  <2>1. best = 0
    BY <1>1, <1>2, <1>10
  <2>2. seen = {}
    BY <1>2, <1>5, <2>1
  <2>3. best' = next /\ next' = Len(table) + 1
    BY <1>1, <1>10
  <2>4. {k \in UsableRows : k < next'} = UsableRows
    <3>1. Len(table) \in Nat /\ UsableRows \subseteq 1..Len(table)
      BY <1>1, <1>5
    <3>2. \A k \in 1..Len(table) : k < Len(table) + 1
      BY <3>1
    <3> QED BY <2>3, <3>1, <3>2
  <2>5. \A k \in UsableRows : next <= k
    BY <1>1, <1>5, <2>2
  <2>6. \A k \in UsableRows : RanksBefore(next, k)
    BY <1>1, <1>8, <1>10, <2>5, RankOfUsable DEF RanksBefore
  <2> QED BY <1>8, <1>10, <2>3, <2>4, <2>6
<1>11. CASE Usable(row) /\ system # "darwin"
  <2>1. next' = next + 1
    BY <1>1, <1>11
  <2>2. {k \in UsableRows : k < next'} = seen \cup {next}
    BY <1>1, <1>5, <1>8, <1>11, <2>1
  <2>3. CASE best = 0
    <3>1. seen = {}
      BY <1>2, <1>5, <2>3
    <3>2. takes
      BY <1>6, <1>11, <2>3 DEF BetterRoute, BetterAdapter
    <3> QED BY <1>1, <1>7, <1>8, <1>11, <2>2, <3>1, <3>2
  <2>4. CASE best # 0
    <3>1. best \in seen /\ best \in UsableRows /\ \A k \in seen : RanksBefore(best, k)
      BY <1>2, <2>4
    <3>2. IF takes THEN RanksBefore(next, best) ELSE RanksBefore(best, next)
      BY <1>1, <1>6, <1>8, <1>11, <2>4, <3>1, BetterRanksBefore
    <3>3. CASE takes
      <4>1. best' = next
        BY <1>1, <3>3
      <4>2. \A k \in seen : RanksBefore(next, k)
        BY <1>1, <1>8, <1>11, <3>1, <3>2, <3>3, RanksTransitive
      <4> QED BY <1>7, <1>8, <1>11, <2>2, <4>1, <4>2
    <3>4. CASE ~takes
      <4>1. best' = best
        BY <1>1, <3>4
      <4> QED BY <2>2, <3>1, <3>2, <3>4, <4>1
    <3> QED BY <3>3, <3>4
  <2> QED BY <2>3, <2>4
<1> QED BY <1>9, <1>10, <1>11

LEMMA LoopsKeepBestNext ==
  ASSUME ChoiceInductive, [ChoiceNext]_choiceVars PROVE LoopsKeepBest'
<1> USE DEF sessionVars, snapshots
<1>1. ASSUME UNCHANGED <<system, asked, table, forwards, haveTable, metrics, next, best>>,
             step' = step \/ (step = "scan" /\ step' = "done") \/ step' = "idle"
      PROVE  LoopsKeepBest'
  <2>1. /\ MetricsFit' <=> MetricsFit
        /\ \A n : BestSoFar(n)' <=> BestSoFar(n)
    BY <1>1, OrderUnchanged DEF BestSoFar
  <2>2. \A n : LowestSoFar(n)' <=> LowestSoFar(n)
    <3>1. \A i : DefaultRoutesOf(i)' = DefaultRoutesOf(i)
      BY <1>1 DEF DefaultRoutesOf
    <3> QED BY <1>1, <3>1 DEF LowestSoFar
  <2> QED BY <1>1, <2>1, <2>2 DEF ChoiceInductive, LoopsKeepBest
<1>2. CASE ReadForwardTable
  <2>1. next' = 1 /\ metrics' = <<>> /\ best' = 0 /\ (step' = "scan" => ~haveTable')
    BY <1>2 DEF ReadForwardTable, ChoiceInductive, LookupProgress
  <2>2. LowestSoFar(1)'
    BY <2>1 DEF LowestSoFar
  <2>3. BestSoFar(1)'
    BY <2>1 DEF BestSoFar, UsableRows
  <2> QED BY <1>2, <2>1, <2>2, <2>3 DEF ReadForwardTable, LoopsKeepBest
<1>3. CASE BeginLookup
  <2>1. next' = 1 /\ best' = 0 /\ ~haveTable' /\ step' # "metrics"
    BY <1>3 DEF BeginLookup, ChoiceInductive, LookupProgress
  <2>2. BestSoFar(1)'
    BY <2>1 DEF BestSoFar, UsableRows
  <2> QED BY <2>1, <2>2 DEF LoopsKeepBest
<1>4. CASE MetricsStep
  <2>1. /\ step = "metrics" /\ haveTable /\ forwards \in Seq(ForwardRow)
        /\ LowestSoFar(next) /\ best = 0 /\ next \in Nat \ {0}
        /\ UNCHANGED <<system, asked, table, forwards, haveTable, best>>
    BY <1>4 DEF MetricsStep, ChoiceInductive, LookupProgress, LoopsKeepBest
  <2>2. CASE next > Len(forwards)
    <3>1. step' = "scan" /\ next' = 1 /\ metrics' = metrics
      BY <1>4, <2>2 DEF MetricsStep
    <3>2. LowestSoFar(Len(forwards) + 1)
      BY <2>1, <2>2 DEF LowestSoFar, DefaultRoutesOf
    <3>3. LowestSoFar(Len(forwards) + 1)'
      <4>1. \A i : DefaultRoutesOf(i)' = DefaultRoutesOf(i)
        BY <2>1 DEF DefaultRoutesOf
      <4> QED BY <2>1, <3>1, <3>2, <4>1 DEF LowestSoFar
    <3>4. BestSoFar(1)'
      BY <2>1 DEF BestSoFar, UsableRows
    <3> QED BY <3>1, <3>3, <3>4 DEF LoopsKeepBest
  <2>3. CASE ~(next > Len(forwards))
    <3>1. /\ metrics' = IF forwards[next].inet /\ forwards[next].default
                          THEN KeepLowest(forwards[next].index, forwards[next].metric) ELSE metrics
          /\ next' = next + 1 /\ step' = "metrics"
      BY <1>4, <2>1, <2>3 DEF MetricsStep
    <3>2. next \in 1..Len(forwards)
      BY <2>1, <2>3
    <3>3. LowestSoFar(next)'
      BY <2>1, <3>1, <3>2, KeepLowestKeeps
    <3> QED BY <3>1, <3>3 DEF LoopsKeepBest
  <2> QED BY <2>2, <2>3
<1>5. CASE ScanRow
  <2>1. /\ step = "scan" /\ step' = "scan"
        /\ UNCHANGED <<system, asked, table, forwards, haveTable, metrics>>
    BY <1>5 DEF ScanRow
  <2>2. MetricsFit' <=> MetricsFit
    BY <2>1, OrderUnchanged
  <2>3. \A n : LowestSoFar(n)' <=> LowestSoFar(n)
    <3>1. \A i : DefaultRoutesOf(i)' = DefaultRoutesOf(i)
      BY <2>1 DEF DefaultRoutesOf
    <3> QED BY <2>1, <3>1 DEF LowestSoFar
  <2>4. MetricsFit => BestSoFar(next)'
    BY <1>5, ScanRowKeepsBest
  <2> QED BY <2>1, <2>2, <2>3, <2>4 DEF ChoiceInductive, LoopsKeepBest
<1>6. CASE EndLookup
  BY <1>1, <1>6 DEF EndLookup
<1>7. CASE Return
  BY <1>7 DEF Return, LoopsKeepBest
<1>8. CASE (\E n \in TunnelNames : Prepare(n) \/ Open(n)) \/ Close \/ UNCHANGED choiceVars
  BY <1>1, <1>8 DEF Prepare, Open, Close, choiceVars
<1> QED BY <1>2, <1>3, <1>4, <1>5, <1>6, <1>7, <1>8 DEF ChoiceNext

LEMMA BinderExcludesTunnelNext ==
  ASSUME BinderExcludesTunnel, [ChoiceNext]_choiceVars PROVE BinderExcludesTunnel'
<1> USE DEF BinderExcludesTunnel, sessionVars
<1>1. ASSUME NEW n \in TunnelNames, Prepare(n) PROVE BinderExcludesTunnel'
  BY <1>1, TunnelsHaveNames, NoNameNotName DEF Prepare, prepareLocked
<1>2. ASSUME NEW n \in TunnelNames, Open(n) PROVE BinderExcludesTunnel'
  BY <1>2, TunnelsHaveNames DEF Open, prepareLocked
<1>3. CASE Close
  BY <1>3 DEF Close
<1>4. CASE BeginLookup \/ ReadForwardTable \/ MetricsStep \/ ScanRow \/ EndLookup \/ Return
  BY <1>4 DEF BeginLookup, ReadForwardTable, MetricsStep, ScanRow, EndLookup, Return
<1>5. CASE UNCHANGED choiceVars
  BY <1>5 DEF choiceVars
<1> QED BY <1>1, <1>2, <1>3, <1>4, <1>5 DEF ChoiceNext

LEMMA LookupProgressNext ==
  ASSUME LookupProgress, BinderExcludesTunnel, [ChoiceNext]_choiceVars
  PROVE  LookupProgress'
<1> USE DEF LookupProgress, sessionVars, snapshots
<1>1. system \in {"linux", "darwin", "windows"}
  BY SystemIsKnown
<1>2. ASSUME UNCHANGED <<system, asked, step, table, forwards, haveTable, next, metrics, best, answer>>
      PROVE  LookupProgress'
  BY <1>2 DEF TableOfSystem, Usable
<1>3. CASE BeginLookup
  <2>1. CASE UNCHANGED <<table, step, asked>>
    BY <1>3, <2>1 DEF BeginLookup
  <2>2. CASE asked' = exclude /\ step' # "idle"
    <3>1. asked' \in Names
      BY <1>3, <2>2 DEF BeginLookup, BinderExcludesTunnel
    <3>2. TableOfSystem' /\ Len(table') \in Nat
      <4>1. /\ system' = system
            /\ table' \in CASE system = "linux" -> RouteTables
                            [] system = "darwin" -> NetstatTables
                            [] system = "windows" -> AdapterLists
        BY <1>3, <2>2 DEF BeginLookup
      <4>2. \/ system = "linux" /\ table' \in Seq(RouteRow)
            \/ system = "darwin" /\ table' \in Seq(NetstatRow)
            \/ system = "windows" /\ table' \in Seq(AdapterRow)
        BY <1>1, <4>1, TablesAreTables
      <4>3. TableOfSystem'
        BY <4>1, <4>2 DEF TableOfSystem
      <4>4. Len(table') \in Nat
        BY <4>2
      <4> QED BY <4>3, <4>4
    <3>3. step' = IF system = "windows" THEN "forward" ELSE "scan"
      BY <1>3, <2>2 DEF BeginLookup
    <3>4. /\ step = "idle"
          /\ UNCHANGED <<system, forwards, haveTable, next, metrics, best>>
      BY <1>3 DEF BeginLookup
    <3> QED BY <3>1, <3>2, <3>3, <3>4
  <2> QED BY <1>3, <2>1, <2>2 DEF BeginLookup
<1>4. CASE ReadForwardTable
  <2>1. /\ step = "forward" /\ step' \in {"scan", "metrics"}
        /\ haveTable' => forwards' \in Seq(ForwardRow)
        /\ step' = "metrics" => haveTable'
        /\ UNCHANGED <<system, asked, table, next, metrics, best>>
    BY <1>4, TablesAreTables DEF ReadForwardTable
  <2> QED BY <2>1 DEF TableOfSystem
<1>5. CASE MetricsStep
  <2>1. /\ step = "metrics" /\ step' \in {"metrics", "scan"} /\ next' \in {1, next + 1}
        /\ UNCHANGED <<system, asked, table, forwards, haveTable, best>>
    BY <1>5 DEF MetricsStep
  <2> QED BY <2>1 DEF TableOfSystem
<1>6. CASE ScanRow
  <2>1. Len(table) \in Nat
    BY <1>1, <1>6 DEF ScanRow, TableOfSystem
  <2>2. next \in 1..Len(table)
    BY <1>6, <2>1 DEF ScanRow
  <2>3. \/ best' = next /\ Usable(table[next])
           /\ next' = IF system = "darwin" THEN Len(table) + 1 ELSE next + 1
        \/ best' = best /\ next' = next + 1 /\ (system = "darwin" => ~Usable(table[next]))
    BY <1>6 DEF ScanRow
  <2>4. /\ step = "scan" /\ step' = "scan"
        /\ UNCHANGED <<system, asked, table, forwards, haveTable, metrics, answer>>
    BY <1>6 DEF ScanRow
  <2>5. \A r : Usable(r)' <=> Usable(r)
    BY <2>4, OrderUnchanged
  <2>6. best' \in 0..Len(table') /\ next' \in Nat \ {0}
    BY <2>1, <2>2, <2>3, <2>4
  <2>7. best' # 0 => Usable(table[best])' /\ best' < next'
    BY <2>1, <2>2, <2>3, <2>4, <2>5
  <2>8. best' # 0 /\ system' = "darwin" => next' = Len(table') + 1
    BY <2>1, <2>2, <2>3, <2>4
  <2>9. TableOfSystem'
    BY <2>4 DEF TableOfSystem
  <2> QED BY <2>4, <2>6, <2>7, <2>8, <2>9
<1>7. CASE EndLookup
  <2>1. /\ step = "scan" /\ step' = "done" /\ next > Len(table)
        /\ answer' = IF best = 0 THEN NoName ELSE table[best].name
        /\ UNCHANGED <<system, asked, table, forwards, haveTable, next, metrics, best>>
    BY <1>7 DEF EndLookup
  <2>2. \A r : Usable(r)' <=> Usable(r)
    BY <2>1, OrderUnchanged
  <2> QED BY <2>1, <2>2 DEF TableOfSystem
<1>8. CASE Return
  BY <1>8 DEF Return
<1>9. CASE (\E n \in TunnelNames : Prepare(n) \/ Open(n)) \/ Close \/ UNCHANGED choiceVars
  BY <1>2, <1>9 DEF Prepare, Open, Close, choiceVars
<1> QED BY <1>3, <1>4, <1>5, <1>6, <1>7, <1>8, <1>9 DEF ChoiceNext

LEMMA ChoiceInductiveInit == ChoiceInit => ChoiceInductive
<1> SUFFICES ASSUME ChoiceInit PROVE ChoiceInductive OBVIOUS
<1>1. LookupProgress
  BY DEF ChoiceInit, LookupProgress
<1>2. BinderExcludesTunnel
  BY DEF ChoiceInit, BinderExcludesTunnel
<1>3. LoopsKeepBest
  BY DEF ChoiceInit, LoopsKeepBest
<1> QED BY <1>1, <1>2, <1>3 DEF ChoiceInductive

(* The loops keep the lowest metrics and the best row, and the binder      *)
(* excludes the session's tunnel (inductive invariant).                    *)
THEOREM ChoiceInvariant == ChoiceSpec => []ChoiceInductive
<1>1. ChoiceInductive /\ [ChoiceNext]_choiceVars => ChoiceInductive'
  BY LookupProgressNext, BinderExcludesTunnelNext, LoopsKeepBestNext DEF ChoiceInductive
<1> QED BY <1>1, ChoiceInductiveInit, PTL DEF ChoiceSpec

(* Lookup returns the best usable row of its tables, whatever they hold,   *)
(* as long as the metrics fit their width.                                 *)
THEOREM BestRowIsChosen == ChoiceSpec => []BestChosen
<1>1. ChoiceInductive => BestChosen
  <2> SUFFICES ASSUME ChoiceInductive, step = "done", MetricsFit
               PROVE  IF UsableRows = {} THEN best = 0
                      ELSE best \in UsableRows /\ \A k \in UsableRows : RanksBefore(best, k)
    BY DEF BestChosen
  <2>1. next > Len(table) /\ next \in Nat /\ BestSoFar(next)
    BY DEF ChoiceInductive, LookupProgress, LoopsKeepBest
  <2>2. Len(table) \in Nat
    BY SystemIsKnown DEF ChoiceInductive, LookupProgress, TableOfSystem
  <2>3. \A k \in UsableRows : k < next
    BY <2>1, <2>2 DEF UsableRows
  <2>4. {k \in UsableRows : k < next} = UsableRows
    BY <2>3
  <2> QED BY <2>1, <2>4 DEF BestSoFar
<1> QED BY <1>1, ChoiceInvariant, PTL

(* No lookup with the session's own binder answers with the tunnel.  The   *)
(* host that opens a tunnel under another name than it prepared is outside *)
(* of what the code handles: prepareLocked keeps the first name.           *)
THEOREM TunnelIsNotChosen ==
  ASSUME SameName PROVE ChoiceSpec => []TunnelNotChosen
<1>1. ChoiceInductive => TunnelNotChosen
  <2> SUFFICES ASSUME ChoiceInductive, step = "done", asked = exclude, SameInterface(answer, tunnel)
               PROVE  FALSE
    BY DEF TunnelNotChosen
  <2>1. tunnel # NoName /\ answer # NoName /\ exclude = tunnel
    BY DEF SameInterface, ChoiceInductive, BinderExcludesTunnel
  <2>2. best # 0 /\ answer = table[best].name /\ Usable(table[best])
    BY <2>1 DEF ChoiceInductive, LookupProgress
  <2> QED BY <2>1, <2>2, SystemIsKnown DEF Usable, SameInterface, ChoiceInductive
<1> QED BY <1>1, ChoiceInvariant, PTL
=============================================================================
