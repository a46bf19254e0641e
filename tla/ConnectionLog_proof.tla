------------------------ MODULE ConnectionLog_proof ------------------------
(***************************************************************************)
(* Proofs about ConnectionLog, for any capacity, pending limit, number of  *)
(* goroutines, readers and sessions.                                       *)
(***************************************************************************)
EXTENDS ConnectionLog, FiniteSetTheorems, SequenceTheorems, TLAPS

(* A sequence of consecutive numbers ending in q, no longer than the       *)
(* capacity, and full if some number is no longer in it.                   *)
IsWindow(es, q) ==
  /\ Len(es) <= Capacity /\ Len(es) <= q
  /\ Len(es) = q \/ Len(es) = Capacity
  /\ \A n \in 1..Len(es) : es[n].seq = q - Len(es) + n

(* What Trim returns for a log that is one too long.                       *)
LEMMA TrimDropsOldest ==
  ASSUME NEW as \in Seq(Entries), Len(as) = Capacity + 1
  PROVE  /\ Trim(as) \in Seq(Entries)
         /\ Len(Trim(as)) = Capacity
         /\ \A n \in 1..Capacity : n + 1 \in 1..Len(as) /\ Trim(as)[n] = as[n + 1]
<1> USE CapacityPos
<1>1. Len(as) > Capacity /\ Len(as) - Capacity + 1 = 2
  OBVIOUS
<1>2. Trim(as) = SubSeq(as, 2, Len(as))
  BY <1>1, Zenon DEF Trim
<1>3. /\ SubSeq(as, 2, Len(as)) \in Seq(Entries)
      /\ Len(SubSeq(as, 2, Len(as))) = Len(as) - 2 + 1
      /\ \A n \in 1..(Len(as) - 2 + 1) : SubSeq(as, 2, Len(as))[n] = as[2 + n - 1]
  <2>1. Len(as) \in Int /\ 2 \in Int /\ 2 <= Len(as)
    OBVIOUS
  <2>2. \A i \in 2..Len(as) : as[i] \in Entries
    <3>1. \A i \in 2..Len(as) : i \in 1..Len(as)
      BY <2>1
    <3>2. \A i \in 1..Len(as) : as[i] \in Entries
      BY ElementOfSeq
    <3> QED BY <3>1, <3>2
  <2>3. SubSeq(as, 2, Len(as)) \in Seq(Entries)
    BY <2>1, <2>2, SubSeqProperties, Zenon
  <2>4. Len(SubSeq(as, 2, Len(as))) = Len(as) - 2 + 1
    BY <2>1
  <2>5. \A n \in 1..(Len(as) - 2 + 1) : SubSeq(as, 2, Len(as))[n] = as[2 + n - 1]
    BY <2>1
  <2> QED BY <2>3, <2>4, <2>5
<1>4. \A n \in 1..Capacity : n + 1 \in 1..Len(as) /\ 2 + n - 1 = n + 1
  OBVIOUS
<1>5. Len(as) - 2 + 1 = Capacity
  OBVIOUS
<1> QED BY <1>2, <1>3, <1>4, <1>5

(* Dropping the oldest entry of a log that is one too long leaves a window.*)
LEMMA DropOldest ==
  ASSUME NEW as \in Seq(Entries), Len(as) = Capacity + 1, NEW q \in Nat, Capacity <= q,
         \A n \in 1..Len(as) : as[n].seq = q - Len(as) + n
  PROVE  Trim(as) \in Seq(Entries) /\ IsWindow(Trim(as), q)
<1>1. /\ Trim(as) \in Seq(Entries) /\ Len(Trim(as)) = Capacity
      /\ \A n \in 1..Capacity : n + 1 \in 1..Len(as) /\ Trim(as)[n] = as[n + 1]
  BY TrimDropsOldest
<1>2. ASSUME NEW n \in 1..Capacity PROVE Trim(as)[n].seq = q - Capacity + n
  <2>1. Trim(as)[n].seq = q - Len(as) + (n + 1)
    BY <1>1, <1>2
  <2>2. q - (Capacity + 1) + (n + 1) = q - Capacity + n
    BY <1>2, CapacityPos
  <2> QED BY <2>1, <2>2
<1>3. Capacity <= Capacity
  BY CapacityPos
<1> QED BY <1>1, <1>2, <1>3 DEF IsWindow

(* Appending the next number and trimming the oldest keeps it a window.    *)
LEMMA TrimKeepsWindow ==
  ASSUME NEW es \in Seq(Entries), NEW q \in Nat, IsWindow(es, q),
         NEW e \in Entries, e.seq = q + 1
  PROVE  Trim(Append(es, e)) \in Seq(Entries) /\ IsWindow(Trim(Append(es, e)), q + 1)
<1> USE CapacityPos
<1> DEFINE as == Append(es, e)
<1>1. as \in Seq(Entries) /\ Len(as) = Len(es) + 1 /\ Len(es) \in Nat
  OBVIOUS
<1>2. \A n \in 1..Len(as) : as[n].seq = (q + 1) - Len(as) + n
  BY <1>1 DEF IsWindow
<1>3. CASE Len(as) <= Capacity
  <2>1. Trim(as) = as
    BY <1>1, <1>3 DEF Trim
  <2>2. Len(as) = q + 1
    BY <1>1, <1>3 DEF IsWindow
  <2> QED BY <1>1, <1>2, <1>3, <2>1, <2>2 DEF IsWindow
<1>4. CASE Len(as) > Capacity
  <2>1. Len(as) = Capacity + 1
    BY <1>1, <1>4 DEF IsWindow
  <2>2. q + 1 \in Nat /\ Capacity <= q + 1
    BY <1>1, <2>1 DEF IsWindow
  <2> HIDE DEF as
  <2>3. Trim(as) \in Seq(Entries) /\ IsWindow(Trim(as), q + 1)
    BY <1>1, <1>2, <2>1, <2>2, DropOldest, Zenon
  <2> QED BY <2>3 DEF as
<1> QED BY <1>1, <1>3, <1>4

(* The names that wait stay within their limit.                            *)
LEMMA AddKeepsLimit ==
  ASSUME NEW p \in SUBSET Ids, NEW id \in Ids, Cardinality(p) <= PendingLimit
  PROVE  AddPending(p, id) \in SUBSET Ids /\ Cardinality(AddPending(p, id)) <= PendingLimit
<1> USE PendingLimitPos
<1>1. IsFiniteSet(p) /\ Cardinality(p) \in Nat
  BY IdsFinite, FS_Subset, FS_CardinalityType
<1>2. Cardinality({id}) = 1
  BY FS_Singleton
<1>3. Cardinality(p \cup {id}) <= Cardinality(p) + 1
  BY <1>1, FS_AddElement
<1>4. Cardinality(p \cup {id}) \in Nat
  BY <1>1, FS_AddElement, FS_CardinalityType
<1> QED BY <1>1, <1>2, <1>3, <1>4 DEF AddPending

LEMMA RemoveKeepsLimit ==
  ASSUME NEW p \in SUBSET Ids, NEW id \in Ids, Cardinality(p) <= PendingLimit
  PROVE  Cardinality(p \ {id}) <= PendingLimit
<1>1. IsFiniteSet(p) /\ Cardinality(p) \in Nat
  BY IdsFinite, FS_Subset, FS_CardinalityType
<1>2. Cardinality(p \ {id}) \in Nat /\ Cardinality(p \ {id}) <= Cardinality(p)
  BY <1>1, FS_Subset, FS_CardinalityType
<1> QED BY <1>1, <1>2, PendingLimitPos

LogInv == LogTypeOK /\ LogIsWindow /\ PollsHaveLog

LEMMA LogInitially == LogInit => LogInv
<1> SUFFICES ASSUME LogInit PROVE LogInv
  OBVIOUS
<1>1. LogTypeOK
  <2>1. <<>> \in Seq(Entries) /\ NoLine \in Lines /\ 0 \in Nat /\ NoLog \in Logs \cup {NoLog}
    BY DEF NoLine, Lines
  <2>2. /\ [pc |-> "idle", log |-> NoLog, cursor |-> 0] \in
             [pc : {"idle", "snapshot"}, log : Logs \cup {NoLog}, cursor : Nat]
        /\ Unread \in [log : Logs \cup {NoLog}, brought : Nat, dropped : SUBSET Nat]
    BY DEF Unread
  <2> QED BY <2>1, <2>2, Zenon DEF LogInit, LogTypeOK
<1>2. ASSUME NEW l \in Logs PROVE Window(l) /\ Cardinality(pending[l]) <= PendingLimit
  BY <1>2, CapacityPos, PendingLimitPos, FS_EmptySet DEF LogInit, Window
<1>3. PollsHaveLog
  BY DEF LogInit, PollsHaveLog
<1> QED BY <1>1, <1>2, <1>3 DEF LogInv, LogIsWindow

LEMMA LogStep == LogInv /\ [LogNext]_vars => LogInv'
<1> SUFFICES ASSUME LogInv, [LogNext]_vars PROVE LogInv'
  OBVIOUS
<1> USE DEF LogInv
<1>a. ASSUME UNCHANGED bufVars PROVE LogIsWindow'
  BY <1>a DEF LogIsWindow, Window, bufVars
<1>b. ASSUME UNCHANGED readVars PROVE PollsHaveLog'
  BY <1>b DEF PollsHaveLog, readVars
<1>1. CASE StartSession
  <2>1. lastLog + 1 \in Logs
    BY <1>1, MaxSessionsNat DEF StartSession, LogTypeOK, Logs, NoLog
  <2>2. LogTypeOK'
    BY <1>1, <2>1 DEF StartSession, LogTypeOK, bufVars, readVars
  <2>3. LogIsWindow' /\ PollsHaveLog'
    BY <1>1, <1>a, <1>b DEF StartSession
  <2> QED BY <2>2, <2>3
<1>2. CASE StopSession
  BY <1>2, <1>a, <1>b DEF StopSession, LogTypeOK, bufVars, readVars
<1>3. ASSUME NEW on \in BOOLEAN, SetConnectionLogEnabled(on) PROVE LogInv'
  BY <1>3, <1>a, <1>b DEF SetConnectionLogEnabled, LogTypeOK, bufVars, readVars
<1>4. ASSUME NEW w \in Writers, NEW l \in Logs, NEW id \in Ids,
             NEW kind \in {"sniffed", "routed", "unreadable"}, RecordCheck(w, l, kind, id)
      PROVE  LogInv'
  BY <1>4, <1>a, <1>b DEF RecordCheck, LogTypeOK, Lines, logVars, bufVars, readVars
<1>5. ASSUME NEW w \in Writers, RecordSniffed(w) PROVE LogInv'
  <2> DEFINE l == line[w].log
             id == line[w].id
  <2>1. l \in Logs /\ id \in Ids
    BY <1>5 DEF RecordSniffed, LogTypeOK, Lines, NoLine
  <2>2. /\ AddPending(pending[l], id) \in SUBSET Ids
        /\ Cardinality(AddPending(pending[l], id)) <= PendingLimit
    BY <2>1, AddKeepsLimit DEF LogTypeOK, LogIsWindow
  <2>3. pending' = [pending EXCEPT ![l] = AddPending(pending[l], id)]
    BY <1>5, <2>1 DEF RecordSniffed, LogTypeOK
  <2>4. UNCHANGED <<seq, entries, logVars, readVars>> /\ line' = [line EXCEPT ![w] = NoLine]
    BY <1>5 DEF RecordSniffed
  <2> HIDE DEF l, id
  <2>5. LogTypeOK'
    BY <2>1, <2>2, <2>3, <2>4 DEF LogTypeOK, logVars, readVars, Lines, NoLine
  <2>6. LogIsWindow'
    BY <2>1, <2>2, <2>3, <2>4 DEF LogTypeOK, LogIsWindow, Window
  <2> QED BY <1>b, <2>4, <2>5, <2>6
<1>6. ASSUME NEW w \in Writers, Add(w) PROVE LogInv'
  <2> DEFINE l == line[w].log
             id == line[w].id
             e == [seq |-> seq[l] + 1, host |-> IF id \in pending[l] THEN "domain" ELSE "address"]
  <2>1. l \in Logs /\ id \in Ids /\ seq[l] \in Nat /\ pending[l] \in SUBSET Ids
        /\ entries[l] \in Seq(Entries)
    BY <1>6 DEF Add, LogTypeOK, Lines, NoLine
  <2>2. e \in Entries /\ e.seq = seq[l] + 1
    BY <2>1 DEF Entries
  <2>3. pending' = [pending EXCEPT ![l] = pending[l] \ {id}]
    BY <1>6, <2>1 DEF Add, LogTypeOK
  <2>4. \/ UNCHANGED <<seq, entries>>
        \/ /\ seq' = [seq EXCEPT ![l] = seq[l] + 1]
           /\ entries' = [entries EXCEPT ![l] = Trim(Append(entries[l], e))]
    BY <1>6, <2>1 DEF Add, LogTypeOK
  <2>5. UNCHANGED <<logVars, readVars>> /\ line' = [line EXCEPT ![w] = NoLine]
    BY <1>6 DEF Add
  <2>6. Cardinality(pending[l] \ {id}) <= PendingLimit
    BY <2>1, RemoveKeepsLimit DEF LogIsWindow
  <2>7. IsWindow(entries[l], seq[l])
    BY <2>1 DEF LogIsWindow, Window, IsWindow
  <2>8. /\ Trim(Append(entries[l], e)) \in Seq(Entries)
        /\ IsWindow(Trim(Append(entries[l], e)), seq[l] + 1)
    BY <2>1, <2>2, <2>7, TrimKeepsWindow
  <2> HIDE DEF l, id, e
  <2>9. LogTypeOK'
    <3>1. seq' \in [Logs -> Nat] /\ entries' \in [Logs -> Seq(Entries)]
      <4>1. seq[l] + 1 \in Nat
        BY <2>1
      <4> QED BY <2>1, <2>4, <2>8, <4>1, Zenon DEF LogTypeOK
    <3>2. pending' \in [Logs -> SUBSET Ids]
      BY <2>1, <2>3 DEF LogTypeOK
    <3>3. line' \in [Writers -> Lines]
      BY <2>5 DEF LogTypeOK, Lines, NoLine
    <3> QED BY <2>5, <3>1, <3>2, <3>3 DEF LogTypeOK, logVars, readVars
  <2>10. ASSUME NEW m \in Logs PROVE Window(m)'
    <3>1. CASE m # l \/ UNCHANGED <<seq, entries>>
      BY <2>1, <2>4, <2>10, <3>1 DEF LogTypeOK, LogIsWindow, Window
    <3>2. CASE m = l /\ ~UNCHANGED <<seq, entries>>
      <4>1. seq'[m] = seq[l] + 1 /\ entries'[m] = Trim(Append(entries[l], e))
        BY <2>1, <2>4, <3>2 DEF LogTypeOK
      <4> QED BY <2>8, <4>1 DEF Window, IsWindow
    <3> QED BY <3>1, <3>2
  <2>11. ASSUME NEW m \in Logs PROVE Cardinality(pending'[m]) <= PendingLimit
    BY <2>1, <2>3, <2>6, <2>11 DEF LogTypeOK, LogIsWindow
  <2> QED BY <1>b, <2>5, <2>9, <2>10, <2>11 DEF LogIsWindow
<1>7. ASSUME NEW r \in Readers, ReadConnectionLog(r) PROVE LogInv'
  <2>1. LogIsWindow'
    BY <1>7, <1>a DEF ReadConnectionLog
  <2> DEFINE Recs == [pc : {"idle", "snapshot"}, log : Logs \cup {NoLog}, cursor : Nat]
             Seens == [log : Logs \cup {NoLog}, brought : Nat, dropped : SUBSET Nat]
  <2>a. reader \in [Readers -> Recs] /\ seen \in [Readers -> Seens] /\ connLog \in Logs \cup {NoLog}
    BY DEF LogTypeOK
  <2>2. seen' \in [Readers -> Seens] /\ UNCHANGED <<logVars, bufVars, line, got, received>>
    <3>1. Unread \in Seens
      BY DEF Unread
    <3> HIDE DEF Seens
    <3>2. seen' = seen \/ seen' = [seen EXCEPT ![r] = Unread]
      BY <1>7 DEF ReadConnectionLog
    <3> QED BY <1>7, <2>a, <3>1, <3>2 DEF ReadConnectionLog
  <2>3. PICK rec \in Recs : /\ reader' = [reader EXCEPT ![r] = rec]
                            /\ rec.pc = "snapshot" => rec.log \in Logs
    <3>1. reader[r] \in Recs /\ reader[r].pc = "idle"
      BY <1>7, <2>a DEF ReadConnectionLog
    <3>2. CASE connLog = NoLog
      <4>1. reader' = [reader EXCEPT ![r] = [reader[r] EXCEPT !.cursor = 0]]
        BY <1>7, <3>2 DEF ReadConnectionLog
      <4>2. /\ [reader[r] EXCEPT !.cursor = 0] \in Recs
            /\ [reader[r] EXCEPT !.cursor = 0].pc = "idle"
        BY <3>1
      <4> HIDE DEF Recs
      <4> QED BY <4>1, <4>2
    <3>3. CASE connLog # NoLog
      <4>1. reader' = [reader EXCEPT ![r] = [reader[r] EXCEPT !.pc = "snapshot", !.log = connLog]]
        BY <1>7, <2>a, <3>3 DEF ReadConnectionLog
      <4>2. [reader[r] EXCEPT !.pc = "snapshot", !.log = connLog] \in Recs
        BY <2>a, <3>1
      <4> QED BY <2>a, <3>1, <3>3, <4>1, <4>2
    <3> QED BY <3>2, <3>3
  <2>4. LogTypeOK'
    BY <2>2, <2>3 DEF LogTypeOK, logVars, bufVars
  <2>5. PollsHaveLog'
    BY <2>3 DEF PollsHaveLog, LogTypeOK
  <2> QED BY <2>1, <2>4, <2>5
<1>8. ASSUME NEW r \in Readers, Snapshot(r) PROVE LogInv'
  <2> DEFINE l == reader[r].log
             new == Newer(entries[l], reader[r].cursor)
  <2>1. LogIsWindow'
    BY <1>8, <1>a DEF Snapshot
  <2>2. l \in Logs /\ entries[l] \in Seq(Entries) /\ seq[l] \in Nat
    BY <1>8 DEF Snapshot, LogTypeOK, PollsHaveLog
  <2>3. new \subseteq 1..Len(entries[l]) /\ Len(entries[l]) \in Nat
    BY <2>2 DEF Newer
  <2>4. IsFiniteSet(1..Len(entries[l]))
    BY <2>3, FS_Interval
  <2>5. Cardinality(new) \in Nat
    BY <2>3, <2>4, FS_Subset, FS_CardinalityType
  <2>6. {<<l, entries[l][n].seq>> : n \in new} \subseteq Logs \X Nat
    <3>1. ASSUME NEW n \in new PROVE entries[l][n].seq \in Nat
      <4>1. entries[l][n] \in Entries
        BY <2>2, <2>3, <3>1, ElementOfSeq
      <4> QED BY <4>1 DEF Entries
    <3> QED BY <2>2, <3>1
  <2>7. SeenBy(r, l) \in [log : Logs \cup {NoLog}, brought : Nat, dropped : SUBSET Nat]
    BY <2>2 DEF SeenBy, Dropped, LogTypeOK
  <2> HIDE DEF l, new
  <2>8. /\ got' = [got EXCEPT ![r] = got[r] \cup {<<l, entries[l][n].seq>> : n \in new}]
        /\ received' = [received EXCEPT ![r] = received[r] + Cardinality(new)]
        /\ seen' = [seen EXCEPT ![r] = SeenBy(r, l)]
        /\ reader' = [reader EXCEPT ![r] = [pc |-> "idle", log |-> NoLog, cursor |-> seq[l]]]
        /\ UNCHANGED <<logVars, bufVars, line>>
    BY <1>8 DEF Snapshot, LogTypeOK, NextCursor, l, new
  <2>9. received' \in [Readers -> Nat]
    BY <2>5, <2>8 DEF LogTypeOK
  <2>10. /\ got' \in [Readers -> SUBSET (Logs \X Nat)]
         /\ seen' \in [Readers -> [log : Logs \cup {NoLog}, brought : Nat, dropped : SUBSET Nat]]
    BY <2>2, <2>6, <2>7, <2>8 DEF LogTypeOK
  <2>11. reader' \in [Readers -> [pc : {"idle", "snapshot"}, log : Logs \cup {NoLog},
                                   cursor : Nat]]
    BY <2>2, <2>8 DEF LogTypeOK
  <2>12. LogTypeOK'
    BY <2>8, <2>9, <2>10, <2>11 DEF LogTypeOK, logVars, bufVars
  <2>13. PollsHaveLog'
    BY <2>8 DEF PollsHaveLog, LogTypeOK
  <2> QED BY <2>1, <2>12, <2>13
<1>9. CASE UNCHANGED vars
  BY <1>9, <1>a, <1>b DEF vars, logVars, bufVars, readVars, LogTypeOK
<1> QED BY <1>1, <1>2, <1>3, <1>4, <1>5, <1>6, <1>7, <1>8, <1>9 DEF LogNext

(* The log of every session is a gapless, bounded window of its newest     *)
(* entries, and the names that wait are bounded.                           *)
THEOREM LogStaysWindow == LogSpec => []LogIsWindow
<1>1. LogInv => LogIsWindow
  BY DEF LogInv
<1> QED BY <1>1, LogInitially, LogStep, PTL DEF LogSpec

-----------------------------------------------------------------------------
(* The polls.                                                              *)

NewSeqs(es, c) == {es[n].seq : n \in Newer(es, c)}
Given(l, es, c) == {<<l, es[n].seq>> : n \in Newer(es, c)}

(* What a snapshot finds in a window: the numbers above the cursor that    *)
(* have not been dropped, each at one position.                            *)
LEMMA NewOfWindow ==
  ASSUME NEW es \in Seq(Entries), NEW q \in Nat, IsWindow(es, q), NEW c \in Nat
  PROVE  /\ NewSeqs(es, c) = {s \in 1..q : s > c /\ s + Len(es) > q}
         /\ \A m, n \in Newer(es, c) : es[m].seq = es[n].seq => m = n
<1>1. Len(es) \in Nat /\ Len(es) <= q
  BY DEF IsWindow
<1>2. \A n \in 1..Len(es) : es[n].seq = q - Len(es) + n
  BY DEF IsWindow
<1>3. ASSUME NEW s \in NewSeqs(es, c) PROVE s \in 1..q /\ s > c /\ s + Len(es) > q
  <2>1. PICK n \in 1..Len(es) : s = es[n].seq /\ es[n].seq > c
    BY <1>3 DEF NewSeqs, Newer
  <2>2. s = q - Len(es) + n
    BY <1>2, <2>1
  <2> QED BY <1>1, <2>1, <2>2
<1>4. ASSUME NEW s \in 1..q, s > c, s + Len(es) > q PROVE s \in NewSeqs(es, c)
  <2> DEFINE n == s - q + Len(es)
  <2>1. n \in 1..Len(es)
    BY <1>1, <1>4
  <2>2. es[n].seq = s
    BY <1>1, <1>2, <2>1
  <2> HIDE DEF n
  <2>3. n \in Newer(es, c)
    BY <1>4, <2>1, <2>2 DEF Newer
  <2> QED BY <2>2, <2>3 DEF NewSeqs
<1>5. ASSUME NEW m \in Newer(es, c), NEW n \in Newer(es, c), es[m].seq = es[n].seq PROVE m = n
  <2>1. m \in 1..Len(es) /\ n \in 1..Len(es)
    BY DEF Newer
  <2> QED BY <1>1, <1>2, <1>5, <2>1
<1> QED BY <1>3, <1>4, <1>5

(* It is counted as many times as it gives different entries.              *)
LEMMA CountNew ==
  ASSUME NEW es \in Seq(Entries), NEW c \in Nat, NEW l,
         \A m, n \in Newer(es, c) : es[m].seq = es[n].seq => m = n
  PROVE  /\ IsFiniteSet(Given(l, es, c))
         /\ Cardinality(Given(l, es, c)) = Cardinality(Newer(es, c))
<1> DEFINE new == Newer(es, c)
           given == Given(l, es, c)
           f == [n \in new |-> <<l, es[n].seq>>]
<1>1. IsFiniteSet(new)
  <2>1. Len(es) \in Nat /\ new \in SUBSET (1..Len(es))
    BY DEF Newer
  <2>2. IsFiniteSet(1..Len(es))
    BY <2>1, FS_Interval
  <2> HIDE DEF new
  <2> QED BY <2>1, <2>2, FS_Subset
<1>2. f \in Bijection(new, given)
  BY DEF Bijection, Injection, Surjection, IsInjective, Given
<1>3. ExistsBijection(new, given)
  BY <1>2 DEF ExistsBijection
<1> HIDE DEF new, given
<1>4. IsFiniteSet(given) /\ Cardinality(given) = Cardinality(new)
  BY <1>1, <1>3, FS_Bijection
<1> QED BY <1>4 DEF new, given

LEMMA PollsInitially == LogInit => PollsInv
<1> SUFFICES ASSUME LogInit PROVE PollsInv
  OBVIOUS
<1>1. LogsInOrder
  BY MaxSeqNat DEF LogInit, LogsInOrder, NoLog
<1>2. ASSUME NEW r \in Readers
      PROVE  /\ seen[r] = Unread
             /\ reader[r] = [pc |-> "idle", log |-> NoLog, cursor |-> 0]
             /\ got[r] = {} /\ received[r] = 0 /\ lastLog = NoLog
  BY DEF LogInit
<1>3. CursorsFollow
  <2> SUFFICES ASSUME NEW r \in Readers
               PROVE  /\ seen[r].log = NoLog /\ seen[r].log <= lastLog
                      /\ reader[r].pc # "snapshot" /\ got[r] = {} /\ IsFiniteSet(got[r])
    BY DEF CursorsFollow
  <2>1. seen[r].log = NoLog /\ reader[r].pc = "idle" /\ got[r] = {} /\ lastLog = NoLog
    BY <1>2 DEF Unread
  <2>2. IsFiniteSet({})
    BY FS_EmptySet
  <2> QED BY <2>1, <2>2 DEF NoLog
<1>4. NoneSkipped
  BY <1>2 DEF NoneSkipped, Unread
<1>5. GivenOnce
  BY <1>2, FS_EmptySet DEF GivenOnce
<1> QED BY <1>1, <1>3, <1>4, <1>5 DEF PollsInv

(* A snapshot gives the entries that it should: afterwards the reader has  *)
(* been given what its log numbered above the cursor it brought there,     *)
(* except what was dropped; and nothing that it had been given already.    *)
LEMMA SnapshotGives ==
  ASSUME LogInv, PollsInv, NEW r \in Readers, Snapshot(r), NEW l, l = reader[r].log,
         NEW given, given = Given(l, entries[l], reader[r].cursor)
  PROVE  /\ \A s \in (SeenBy(r, l).brought + 1)..seq[l] :
              <<l, s>> \in got[r] \cup given \/ s \in SeenBy(r, l).dropped
         /\ got[r] \cap given = {}
         /\ \A p \in given : p[1] = l /\ p[2] \in 1..seq[l]
         /\ IsFiniteSet(given)
         /\ Cardinality(given) = Cardinality(Newer(entries[l], reader[r].cursor))
<1> DEFINE c == reader[r].cursor
           new == NewSeqs(entries[l], c)
<1>1. /\ l \in Logs /\ l # NoLog /\ c \in Nat /\ seq[l] \in Nat /\ entries[l] \in Seq(Entries)
      /\ reader[r].pc = "snapshot" /\ seen[r].brought \in Nat
  BY DEF Snapshot, LogInv, LogTypeOK, PollsHaveLog, Logs, NoLog
<1>2. IsWindow(entries[l], seq[l]) /\ Len(entries[l]) \in Nat
  BY <1>1 DEF LogInv, LogIsWindow, Window, IsWindow
<1>3. /\ new = {s \in 1..seq[l] : s > c /\ s + Len(entries[l]) > seq[l]}
      /\ \A m, n \in Newer(entries[l], c) : entries[l][m].seq = entries[l][n].seq => m = n
  BY <1>1, <1>2, NewOfWindow
<1>4. IsFiniteSet(given) /\ Cardinality(given) = Cardinality(Newer(entries[l], c))
  BY <1>1, <1>3, CountNew
<1>5. ASSUME NEW s PROVE <<l, s>> \in given <=> s \in new
  BY DEF NewSeqs, Given
<1>6. ASSUME NEW p \in given PROVE p[1] = l /\ p[2] \in 1..seq[l] /\ p[2] > c /\ p = <<l, p[2]>>
  <2>1. p[1] = l /\ p[2] \in new /\ p = <<l, p[2]>>
    BY DEF NewSeqs, Given
  <2> HIDE DEF new
  <2> QED BY <2>1, <1>1, <1>2, <1>3
<1>7. \A s \in 1..seq[l] : s + Len(entries[l]) > seq[l] \/ s + Capacity <= seq[l]
  BY <1>1, <1>2, CapacityPos DEF IsWindow
<1> HIDE DEF new
<1>8. got[r] \cap given = {}
  <2>1. \A p \in got[r] : p[1] = l => p[2] <= c /\ p[2] \in Int
    BY <1>1 DEF PollsInv, CursorsFollow
  <2> QED BY <1>1, <1>6, <2>1
<1>9. ASSUME NEW s \in (SeenBy(r, l).brought + 1)..seq[l]
      PROVE  <<l, s>> \in got[r] \cup given \/ s \in SeenBy(r, l).dropped
  <2>1. s \in 1..seq[l]
    BY <1>1, <1>9 DEF SeenBy
  <2>2. CASE s > c
    BY <1>1, <1>3, <1>5, <1>7, <2>1, <2>2 DEF SeenBy, Dropped
  <2>3. CASE s <= c
    <3>1. seen[r].log = l /\ s \in (seen[r].brought + 1)..c
      BY <1>1, <1>9, <2>1, <2>3 DEF SeenBy
    <3>2. <<l, s>> \in got[r] \/ s \in seen[r].dropped
      BY <1>1, <3>1 DEF PollsInv, NoneSkipped
    <3>3. s \in seen[r].dropped => s + Capacity <= seq[l]
      BY <1>1, <3>1 DEF PollsInv, CursorsFollow
    <3> QED BY <2>1, <3>2, <3>3 DEF SeenBy, Dropped
  <2> QED BY <1>1, <2>1, <2>2, <2>3
<1> QED BY <1>4, <1>6, <1>8, <1>9

(* What the readers know is kept by every step of the others: logs only    *)
(* grow, and a new session has a log that nobody has read.                 *)
LEMMA ReadersUndisturbed ==
  ASSUME LogTypeOK, PollsInv, LogsInOrder', UNCHANGED readVars, lastLog <= lastLog', lastLog' \in Nat,
         connLog' \in {connLog, NoLog} \/ connLog' = lastLog + 1,
         \A l \in Logs : seq[l] <= seq'[l] /\ seq'[l] \in Nat
  PROVE  PollsInv'
<1> USE DEF LogTypeOK, PollsInv, readVars
<1>1. NoneSkipped' /\ GivenOnce'
  BY DEF NoneSkipped, GivenOnce
<1>2. ASSUME NEW r \in Readers, seen[r].log # NoLog
      PROVE  reader[r].cursor <= seq'[seen[r].log]
  <2>1. seen[r].log \in Logs
    BY <1>2
  <2>2. /\ reader[r].cursor <= seq[seen[r].log] /\ reader[r].cursor \in Nat
        /\ seq[seen[r].log] <= seq'[seen[r].log]
        /\ seq[seen[r].log] \in Nat /\ seq'[seen[r].log] \in Nat
    BY <1>2, <2>1 DEF CursorsFollow
  <2> QED BY <2>2
<1>3. ASSUME NEW r \in Readers, NEW p \in got[r], p[1] # seen[r].log PROVE p[1] # connLog'
  <2>1. p[1] \in Logs /\ p[1] <= lastLog /\ p[1] # connLog
    BY <1>3 DEF CursorsFollow
  <2> QED BY <2>1 DEF Logs, NoLog
<1>4. ASSUME NEW n \in Nat, n <= lastLog PROVE n <= lastLog'
  <2>1. lastLog \in Nat
    BY DEF Logs, NoLog
  <2> QED BY <1>4, <2>1
<1>5. ASSUME NEW r \in Readers
      PROVE  /\ seen[r].log <= lastLog'
             /\ reader[r].pc = "snapshot" => seen[r].log <= reader[r].log /\ reader[r].log <= lastLog'
  <2>1. seen[r].log \in Nat /\ reader[r].log \in Nat
    BY DEF Logs, NoLog
  <2> QED BY <1>4, <2>1 DEF CursorsFollow
<1>6. ASSUME NEW r \in Readers, NEW p \in got[r]
      PROVE  p[1] <= lastLog'
  <2>1. p[1] \in Nat /\ p[1] <= lastLog
    BY DEF CursorsFollow, Logs
  <2> QED BY <1>4, <2>1
<1>d. ASSUME NEW r \in Readers, seen[r].log # NoLog, NEW s \in seen[r].dropped
      PROVE  s + Capacity <= seq'[seen[r].log]
  <2>1. seen[r].log \in Logs /\ s \in Nat
    BY <1>d
  <2>2. s + Capacity <= seq[seen[r].log]
    BY <1>d DEF CursorsFollow
  <2> QED BY <2>1, <2>2, CapacityPos
<1>7. CursorsFollow'
  BY <1>2, <1>3, <1>5, <1>6, <1>d DEF CursorsFollow
<1> QED BY <1>1, <1>7

LEMMA PollsStep == LogInv /\ PollsInv /\ [LogNext]_vars => PollsInv'
<1> SUFFICES ASSUME LogInv, PollsInv, [LogNext]_vars PROVE PollsInv'
  OBVIOUS
<1>t. LogTypeOK /\ LogsInOrder /\ connLog \in Nat /\ lastLog \in Nat
  BY DEF LogInv, PollsInv, LogTypeOK, Logs, NoLog
<1>q. \A l \in Logs : seq[l] \in Nat
  BY <1>t DEF LogTypeOK
<1>1. CASE StartSession
  BY <1>1, <1>t, <1>q, ReadersUndisturbed DEF StartSession, LogsInOrder, bufVars
<1>2. CASE \/ StopSession \/ UNCHANGED vars
           \/ \E on \in BOOLEAN : SetConnectionLogEnabled(on)
           \/ \E w \in Writers :
                \/ \E l \in Logs, kind \in {"sniffed", "routed", "unreadable"}, id \in Ids :
                     RecordCheck(w, l, kind, id)
                \/ RecordSniffed(w)
  <2>1. UNCHANGED <<seq, lastLog, readVars>> /\ connLog' \in {connLog, NoLog}
    BY <1>2 DEF StopSession, SetConnectionLogEnabled, RecordCheck, RecordSniffed, vars, bufVars, logVars
  <2>2. LogsInOrder'
    BY <1>t, <2>1 DEF LogsInOrder
  <2> QED BY <1>t, <1>q, <2>1, <2>2, ReadersUndisturbed
<1>3. ASSUME NEW w \in Writers, Add(w) PROVE PollsInv'
  <2>1. UNCHANGED <<lastLog, connLog, readVars>>
    BY <1>3 DEF Add, logVars
  <2>2. ASSUME NEW m \in Logs
        PROVE  seq[m] <= seq'[m] /\ seq'[m] \in Nat /\ (seq[m] <= MaxSeq => seq'[m] <= MaxSeq)
    <3>1. CASE UNCHANGED seq
      BY <3>1, <1>q, MaxSeqNat
    <3>2. CASE ~UNCHANGED seq
      <4>1. /\ seq' = [seq EXCEPT ![line[w].log] = seq[line[w].log] + 1]
            /\ seq[line[w].log] < MaxSeq
        BY <1>3, <3>2 DEF Add
      <4> QED BY <4>1, <1>t, <1>q, MaxSeqNat DEF LogTypeOK
    <3> QED BY <3>1, <3>2
  <2>3. LogsInOrder'
    BY <1>t, <2>1, <2>2 DEF LogsInOrder
  <2> QED BY <1>t, <2>1, <2>2, <2>3, ReadersUndisturbed
<1>4. ASSUME NEW r \in Readers, ReadConnectionLog(r) PROVE PollsInv'
  <2>1. /\ UNCHANGED <<connLog, lastLog, seq, got, received>> /\ reader[r].pc = "idle"
        /\ \A o \in Readers \ {r} : reader'[o] = reader[o] /\ seen'[o] = seen[o]
    BY <1>4, <1>t DEF ReadConnectionLog, LogTypeOK, logVars, bufVars
  <2>2. LogsInOrder' /\ GivenOnce'
    BY <2>1 DEF PollsInv, LogsInOrder, GivenOnce
  <2>3. CASE connLog = NoLog
    <3>1. /\ reader'[r].cursor = 0 /\ reader'[r].pc = "idle"
          /\ seen'[r].log = NoLog
      BY <1>4, <1>t, <2>1, <2>3 DEF ReadConnectionLog, LogTypeOK, Unread
    <3>2. NoneSkipped'
      BY <2>1, <3>1 DEF PollsInv, NoneSkipped
    <3>3. ASSUME NEW p \in got[r] PROVE p[1] # NoLog
      BY <1>t DEF LogTypeOK, Logs, NoLog
    <3>4. CursorsFollow'
      BY <1>t, <2>1, <2>3, <3>1, <3>3 DEF PollsInv, CursorsFollow, NoLog
    <3> QED BY <2>2, <3>2, <3>4 DEF PollsInv
  <2>4. CASE connLog # NoLog
    <3>1. /\ reader'[r].cursor = reader[r].cursor /\ reader'[r].log = connLog
          /\ UNCHANGED seen /\ connLog = lastLog
      BY <1>4, <1>t, <2>4 DEF ReadConnectionLog, LogTypeOK, LogsInOrder
    <3>2. NoneSkipped'
      BY <2>1, <3>1 DEF PollsInv, NoneSkipped
    <3>3. CursorsFollow'
      BY <1>t, <2>1, <3>1 DEF PollsInv, CursorsFollow
    <3> QED BY <2>2, <3>2, <3>3 DEF PollsInv
  <2> QED BY <2>3, <2>4
<1>5. ASSUME NEW r \in Readers, Snapshot(r) PROVE PollsInv'
  <2> DEFINE l == reader[r].log
             given == Given(l, entries[l], reader[r].cursor)
             now == SeenBy(r, l)
  <2>1. /\ \A s \in (now.brought + 1)..seq[l] : <<l, s>> \in got[r] \cup given \/ s \in now.dropped
        /\ got[r] \cap given = {}
        /\ \A p \in given : p[1] = l /\ p[2] \in 1..seq[l]
        /\ IsFiniteSet(given)
        /\ Cardinality(given) = Cardinality(Newer(entries[l], reader[r].cursor))
    BY <1>5, SnapshotGives
  <2>2. /\ l \in Logs /\ l # NoLog /\ l <= lastLog /\ seen[r].log <= l /\ seq[l] \in Nat
        /\ seq[l] <= MaxSeq /\ seen[r].log \in Nat /\ l \in Nat
    BY <1>5, <1>t DEF Snapshot, LogInv, PollsHaveLog, PollsInv, CursorsFollow, LogsInOrder,
         LogTypeOK, Logs, NoLog
  <2>3. /\ got' = [got EXCEPT ![r] = got[r] \cup given]
        /\ received' = [received EXCEPT ![r] = received[r] + Cardinality(given)]
        /\ seen' = [seen EXCEPT ![r] = now]
        /\ reader' = [reader EXCEPT ![r] = [pc |-> "idle", log |-> NoLog, cursor |-> seq[l]]]
        /\ UNCHANGED <<connLog, lastLog, seq>>
    BY <1>5, <1>t, <2>1 DEF Snapshot, LogTypeOK, NextCursor, Given, logVars, bufVars
  <2>s. now.log = l /\ \A s \in now.dropped : s \in 1..seq[l] /\ s + Capacity <= seq[l]
    BY DEF SeenBy, Dropped
  <2> HIDE DEF l, given, now
  <2>4. /\ got'[r] = got[r] \cup given /\ received'[r] = received[r] + Cardinality(given)
        /\ seen'[r] = now /\ now.log = l
        /\ reader'[r].pc = "idle" /\ reader'[r].cursor = seq[l]
        /\ \A o \in Readers \ {r} : /\ reader'[o] = reader[o] /\ seen'[o] = seen[o]
                                    /\ got'[o] = got[o] /\ received'[o] = received[o]
    BY <1>t, <2>3, <2>s DEF LogTypeOK
  <2>5. LogsInOrder'
    BY <2>3 DEF PollsInv, LogsInOrder
  <2>6. NoneSkipped'
    <3>1. \A s \in (now.brought + 1)..seq[l] : <<l, s>> \in got'[r] \/ s \in now.dropped
      BY <2>1, <2>4
    <3> QED BY <2>4, <3>1 DEF PollsInv, NoneSkipped
  <2>7. IsFiniteSet(got[r]) /\ received[r] = Cardinality(got[r]) /\ Cardinality(got[r]) \in Nat
    BY FS_CardinalityType DEF PollsInv, CursorsFollow, GivenOnce
  <2>8. IsFiniteSet(got'[r]) /\ Cardinality(got'[r]) = Cardinality(got[r]) + Cardinality(given)
    <3>1. Cardinality({}) = 0 /\ Cardinality(given) \in Nat
      BY <2>1, FS_EmptySet, FS_CardinalityType
    <3>2. /\ IsFiniteSet(got[r] \cup given)
          /\ Cardinality(got[r] \cup given) =
               Cardinality(got[r]) + Cardinality(given) - Cardinality(got[r] \cap given)
      BY <2>1, <2>7, FS_Union
    <3>3. Cardinality(got[r] \cap given) = 0
      BY <2>1, <3>1
    <3> QED BY <2>4, <2>7, <3>1, <3>2, <3>3
  <2>9. GivenOnce'
    BY <2>4, <2>7, <2>8 DEF PollsInv, GivenOnce
  <2>10. ASSUME NEW p \in got'[r]
         PROVE  /\ p[1] <= lastLog /\ p[2] \in 1..MaxSeq /\ (p[1] # l => p[1] # connLog)
                /\ p[1] = l => p[2] <= seq[l]
    <3>1. CASE p \in given
      BY <2>1, <2>2, <3>1, MaxSeqNat
    <3>2. CASE p \in got[r]
      <4>1. p[1] <= lastLog /\ p[2] \in 1..MaxSeq /\ (p[1] # seen[r].log => p[1] # connLog)
        BY <3>2 DEF PollsInv, CursorsFollow
      <4>2. p[1] \in Logs
        BY <1>t, <3>2 DEF LogTypeOK
      <4>3. connLog \in {NoLog, lastLog}
        BY <1>t DEF LogsInOrder
      <4>4. p[1] = l => p[2] <= seq[l]
        <5> SUFFICES ASSUME p[1] = l PROVE p[2] <= seq[l]
          OBVIOUS
        <5>1. seen[r].log = l
          BY <1>5, <3>2 DEF Snapshot, PollsInv, CursorsFollow, l
        <5>2. p[2] <= reader[r].cursor /\ reader[r].cursor <= seq[l]
          BY <2>2, <3>2, <5>1 DEF PollsInv, CursorsFollow
        <5> QED BY <1>t, <2>2, <4>1, <5>2 DEF LogTypeOK
      <4> QED BY <1>t, <2>2, <4>1, <4>2, <4>3, <4>4 DEF Logs, NoLog
    <3> QED BY <2>4, <3>1, <3>2
  <2>11. CursorsFollow'
    <3>1. seq[l] <= seq[l] /\ \A s \in now.dropped : s + Capacity <= seq[l]
      BY <2>2, <2>s
    <3> DEFINE Follows(o) ==
                 /\ seen[o].log <= lastLog
                 /\ seen[o].log # NoLog => reader[o].cursor <= seq[seen[o].log]
                 /\ seen[o].log # NoLog => \A s \in seen[o].dropped : s + Capacity <= seq[seen[o].log]
                 /\ reader[o].pc = "snapshot" => seen[o].log <= reader[o].log /\ reader[o].log <= lastLog
                 /\ \A p \in got[o] :
                      /\ p[1] <= lastLog /\ p[2] \in 1..MaxSeq
                      /\ p[1] = seen[o].log => p[2] <= reader[o].cursor
                      /\ p[1] # seen[o].log =>
                           p[1] # connLog /\ (reader[o].pc = "snapshot" => p[1] # reader[o].log)
                 /\ IsFiniteSet(got[o])
    <3>2. Follows(r)'
      BY <2>2, <2>3, <2>4, <2>8, <2>10, <3>1
    <3>3. ASSUME NEW o \in Readers \ {r} PROVE Follows(o)'
      <4>1. Follows(o)
        BY DEF PollsInv, CursorsFollow
      <4> QED BY <4>1, <2>3, <2>4
    <3> QED BY <3>2, <3>3 DEF CursorsFollow
  <2> QED BY <2>5, <2>6, <2>9, <2>11 DEF PollsInv
<1> QED BY <1>1, <1>2, <1>3, <1>4, <1>5 DEF LogNext

LEMMA PollsAlways == LogSpec => [](LogInv /\ PollsInv)
BY LogInitially, LogStep, PollsInitially, PollsStep, PTL DEF LogSpec

(* skipicore.go:295 "returns the routed connections newer than afterSeq":  *)
(* a reader that polls with its last cursor is given no entry twice,       *)
(* whatever sessions end and begin between the pointer and the snapshot.   *)
THEOREM EntriesGivenOnce == LogSpec => []GivenOnce
<1>1. PollsInv => GivenOnce
  BY DEF PollsInv
<1> QED BY PollsAlways, <1>1, PTL

(* And none is skipped: above the cursor with which it came to a log, a    *)
(* reader is given every entry that the full log has not dropped before it *)
(* polls.                                                                  *)
THEOREM EntriesNotSkipped == LogSpec => []NoneSkipped
<1>1. PollsInv => NoneSkipped
  BY DEF PollsInv
<1> QED BY PollsAlways, <1>1, PTL
=============================================================================
