---------------------------- MODULE ConnectionLog ----------------------------
(***************************************************************************)
(* The connection log of one controller (connection_log.go and the         *)
(* SetConnectionLogEnabled / ReadConnectionLog of skipicore.go), over      *)
(* several sessions.  Each session has a log of its own.  Dispatcher       *)
(* goroutines record lines in it: they check `enabled' first and take the  *)
(* log's mutex later.  Readers poll with the cursor that their last poll   *)
(* returned: they take the pointer to the log under c.mu and the snapshot  *)
(* under the log's mutex, so that a poll may read the log of a session     *)
(* that is over by then, and a line may still be added to it.              *)
(***************************************************************************)
EXTENDS Integers, Sequences, FiniteSets

CONSTANTS
  Capacity,      \* connectionLogCapacity
  PendingLimit,  \* connectionLogPendingLimit
  Ids,           \* connection ids of the dispatcher
  Writers,       \* dispatcher goroutines that log
  Readers,       \* pollers, each with a cursor of its own
  MaxSessions,   \* bound on the sessions
  MaxSeq         \* bound on the entries of a session

ASSUME CapacityPos == Capacity \in Nat \ {0}
ASSUME PendingLimitPos == PendingLimit \in Nat \ {0}
ASSUME MaxSessionsNat == MaxSessions \in Nat
ASSUME MaxSeqNat == MaxSeq \in Nat
ASSUME IdsFinite == IsFiniteSet(Ids)

Logs == 1..MaxSessions   \* one per session, in their order
NoLog == 0

VARIABLES
  connLogEnabled,  \* the controller's switch
  connLog,         \* the log of the running session, or NoLog
  lastLog,         \* the last log that was made
  enabled, seq, entries, pending,  \* the fields of each log
  line,            \* per writer, the line whose `enabled' check it has passed
  reader,          \* per reader: the log it has taken, its cursor
  \* history of each reader
  got,             \* the entries it was given, as <<log, seq>>
  received,        \* how many times it was given one
  seen             \* the log its cursor is of, the cursor it brought to that log, and
                   \* the entries of it that were dropped before the reader got them

logVars == <<connLogEnabled, connLog, lastLog, enabled>>
bufVars == <<seq, entries, pending>>
readVars == <<reader, got, received, seen>>
vars == <<logVars, bufVars, line, readVars>>

\* A sniffed domain waits for the routing line of the same connection; a
\* routing line has an address, or none that splitDestination can read.
Lines == [kind : {"sniffed", "routed", "unreadable"}, id : Ids, log : Logs]
           \cup [kind : {"none"}]
NoLine == [kind |-> "none"]

Entries == [seq : Nat, host : {"domain", "address"}]

Unread == [log |-> NoLog, brought |-> 0, dropped |-> {}]

LogTypeOK ==
  /\ connLogEnabled \in BOOLEAN
  /\ connLog \in Logs \cup {NoLog}
  /\ lastLog \in Logs \cup {NoLog}
  /\ enabled \in [Logs -> BOOLEAN]
  /\ seq \in [Logs -> Nat]
  /\ entries \in [Logs -> Seq(Entries)]
  /\ pending \in [Logs -> SUBSET Ids]
  /\ line \in [Writers -> Lines]
  /\ reader \in [Readers -> [pc : {"idle", "snapshot"}, log : Logs \cup {NoLog}, cursor : Nat]]
  /\ got \in [Readers -> SUBSET (Logs \X Nat)]
  /\ received \in [Readers -> Nat]
  /\ seen \in [Readers -> [log : Logs \cup {NoLog}, brought : Nat, dropped : SUBSET Nat]]

LogInit ==
  /\ connLogEnabled = FALSE
  /\ connLog = NoLog
  /\ lastLog = NoLog
  /\ enabled = [l \in Logs |-> FALSE]
  /\ seq = [l \in Logs |-> 0]
  /\ entries = [l \in Logs |-> <<>>]
  /\ pending = [l \in Logs |-> {}]
  /\ line = [w \in Writers |-> NoLine]
  /\ reader = [r \in Readers |-> [pc |-> "idle", log |-> NoLog, cursor |-> 0]]
  /\ got = [r \in Readers |-> {}]
  /\ received = [r \in Readers |-> 0]
  /\ seen = [r \in Readers |-> Unread]

-----------------------------------------------------------------------------
\* StartLoop: a new, empty log with the controller's switch.
StartSession ==
  /\ connLog = NoLog /\ lastLog < MaxSessions
  /\ lastLog' = lastLog + 1
  /\ connLog' = lastLog + 1
  /\ enabled' = [enabled EXCEPT ![lastLog + 1] = connLogEnabled]
  /\ UNCHANGED <<connLogEnabled, bufVars, line, readVars>>

\* StopLoop: the controller drops its log.
StopSession ==
  /\ connLog # NoLog
  /\ connLog' = NoLog
  /\ UNCHANGED <<connLogEnabled, lastLog, enabled, bufVars, line, readVars>>

SetConnectionLogEnabled(on) ==
  /\ connLogEnabled' = on
  /\ enabled' = [l \in Logs |-> IF l = connLog THEN on ELSE enabled[l]]
  /\ UNCHANGED <<connLog, lastLog, bufVars, line, readVars>>

-----------------------------------------------------------------------------
\* record: the handler of log l gets a line; while the log is off it is dropped.
RecordCheck(w, l, kind, id) ==
  /\ line[w] = NoLine
  /\ l <= lastLog /\ enabled[l]
  /\ line' = [line EXCEPT ![w] = [kind |-> kind, id |-> id, log |-> l]]
  /\ UNCHANGED <<logVars, bufVars, readVars>>

\* The locked part of record for a sniffed domain.  The names that wait are
\* all dropped when there are too many, this one excepted.
AddPending(p, id) ==
  IF Cardinality(p) >= PendingLimit THEN {id} ELSE p \cup {id}

RecordSniffed(w) ==
  LET l == line[w].log IN
    /\ line[w].kind = "sniffed"
    /\ pending' = [pending EXCEPT ![l] = AddPending(@, line[w].id)]
    /\ line' = [line EXCEPT ![w] = NoLine]
    /\ UNCHANGED <<logVars, seq, entries, readVars>>

\* A log that has grown past its capacity loses its oldest entries.
TrimNewest(es) == IF Len(es) > Capacity THEN SubSeq(es, 1, Capacity) ELSE es

TrimOneTooMany(es) == IF Len(es) >= Capacity THEN SubSeq(es, 2, Len(es)) ELSE es

Trim(es) ==
  IF Len(es) > Capacity THEN SubSeq(es, Len(es) - Capacity + 1, Len(es)) ELSE es

\* add: an entry with the sniffed name, else with the address of the line, else none.
Add(w) ==
  LET l == line[w].log
      id == line[w].id
      named == id \in pending[l]
  IN /\ line[w].kind \in {"routed", "unreadable"}
     /\ pending' = [pending EXCEPT ![l] = @ \ {id}]
     /\ IF named \/ line[w].kind = "routed"
          THEN /\ seq[l] < MaxSeq
               /\ seq' = [seq EXCEPT ![l] = @ + 1]
               /\ entries' = [entries EXCEPT ![l] =
                    Trim(Append(@, [seq |-> seq[l] + 1,
                                    host |-> IF named THEN "domain" ELSE "address"]))]
          ELSE UNCHANGED <<seq, entries>>
     /\ line' = [line EXCEPT ![w] = NoLine]
     /\ UNCHANGED <<logVars, readVars>>

-----------------------------------------------------------------------------
\* ReadConnectionLog: the pointer, under c.mu.  Without a session the cursor
\* that is returned is 0.
ReadConnectionLog(r) ==
  /\ reader[r].pc = "idle"
  /\ IF connLog = NoLog
       THEN /\ reader' = [reader EXCEPT ![r].cursor = 0]
            /\ seen' = [seen EXCEPT ![r] = Unread]
       ELSE /\ reader' = [reader EXCEPT ![r].pc = "snapshot", ![r].log = connLog]
            /\ UNCHANGED seen
  /\ UNCHANGED <<logVars, bufVars, line, got, received>>

\* snapshot: the entries newer than the cursor, and the cursor for the next read.
NewerOrEqual(es, afterSeq) == {n \in 1..Len(es) : es[n].seq >= afterSeq}

Newer(es, afterSeq) == {n \in 1..Len(es) : es[n].seq > afterSeq}

NextCursor(l) == seq[l]

\* The entries that the full log had lost when the reader polled.
Dropped(r, l) ==
  {s \in 1..seq[l] : s + Capacity <= seq[l] /\ <<l, s>> \notin got[r]}

SeenBy(r, l) ==
  [log |-> l,
   brought |-> IF seen[r].log = l THEN seen[r].brought ELSE reader[r].cursor,
   dropped |-> Dropped(r, l)]

Snapshot(r) ==
  LET l == reader[r].log
      new == Newer(entries[l], reader[r].cursor)
  IN /\ reader[r].pc = "snapshot"
     /\ got' = [got EXCEPT ![r] = @ \cup {<<l, entries[l][n].seq>> : n \in new}]
     /\ received' = [received EXCEPT ![r] = @ + Cardinality(new)]
     /\ seen' = [seen EXCEPT ![r] = SeenBy(r, l)]
     /\ reader' = [reader EXCEPT ![r] = [pc |-> "idle", log |-> NoLog, cursor |-> NextCursor(l)]]
     /\ UNCHANGED <<logVars, bufVars, line>>

-----------------------------------------------------------------------------
LogNext ==
  \/ StartSession \/ StopSession
  \/ \E on \in BOOLEAN : SetConnectionLogEnabled(on)
  \/ \E w \in Writers :
       \/ \E l \in Logs, kind \in {"sniffed", "routed", "unreadable"}, id \in Ids :
            RecordCheck(w, l, kind, id)
       \/ RecordSniffed(w) \/ Add(w)
  \/ \E r \in Readers : ReadConnectionLog(r) \/ Snapshot(r)

LogSpec == LogInit /\ [][LogNext]_vars

-----------------------------------------------------------------------------
(* The log is a window: however lines and polls interleave, it holds the   *)
(* newest entries, at most Capacity of them, numbered without a gap up to  *)
(* seq, and nothing is dropped before the window is full; the names that   *)
(* wait for their routing line never outgrow their limit.                  *)
Window(l) ==
  /\ Len(entries[l]) <= Capacity /\ Len(entries[l]) <= seq[l]
  /\ Len(entries[l]) = seq[l] \/ Len(entries[l]) = Capacity
  /\ \A n \in 1..Len(entries[l]) : entries[l][n].seq = seq[l] - Len(entries[l]) + n

LogIsWindow ==
  \A l \in Logs : Window(l) /\ Cardinality(pending[l]) <= PendingLimit

(* Helpers of the proof: a poll that is under way has taken a log.         *)
PollsHaveLog == \A r \in Readers : reader[r].pc = "snapshot" => reader[r].log \in Logs

(* No entry is given twice to a reader that polls with the cursor of its   *)
(* last poll, through restarts of the session, polls that overlap a stop   *)
(* and lines that arrive late.                                             *)
GivenOnce == \A r \in Readers : received[r] = Cardinality(got[r])

(* skipicore.go:295 "returns the routed connections newer than afterSeq",  *)
(* connection_log.go:127 "and the cursor for the next read": every entry   *)
(* of its log, up to its cursor, was given to a reader or had been dropped *)
(* from the full log when the reader polled.  A cursor does not tell whose *)
(* it is: one brought from the log of an earlier session loses the entries *)
(* of the new log that it numbers, though they are there, and no others.   *)
NoneSkipped ==
  \A r \in Readers : seen[r].log # NoLog =>
    \A s \in (seen[r].brought + 1)..reader[r].cursor :
      <<seen[r].log, s>> \in got[r] \/ s \in seen[r].dropped

(* What a reader may expect and the code does not keep: that a restart of  *)
(* the session costs it no entry which is still there when it polls.       *)
NoneWithheld ==
  \A r \in Readers : seen[r].log # NoLog =>
    \A s \in 1..reader[r].cursor :
      <<seen[r].log, s>> \in got[r] \/ s \in seen[r].dropped

(* Further helpers of the proof.  Sessions have logs in their order, and   *)
(* the running one has the last.                                           *)
LogsInOrder ==
  /\ connLog \in {NoLog, lastLog}
  /\ \A l \in Logs : seq[l] <= MaxSeq

(* The log of a cursor is not ahead of the one that is being read, and     *)
(* entries of another log are of one that will not be read again.          *)
CursorsFollow ==
  \A r \in Readers :
    /\ seen[r].log <= lastLog
    /\ seen[r].log # NoLog =>
         /\ reader[r].cursor <= seq[seen[r].log]
         /\ \A s \in seen[r].dropped : s + Capacity <= seq[seen[r].log]
    /\ reader[r].pc = "snapshot" => seen[r].log <= reader[r].log /\ reader[r].log <= lastLog
    /\ \A p \in got[r] :
         /\ p[1] <= lastLog /\ p[2] \in 1..MaxSeq
         /\ p[1] = seen[r].log => p[2] <= reader[r].cursor
         /\ p[1] # seen[r].log =>
              p[1] # connLog /\ (reader[r].pc = "snapshot" => p[1] # reader[r].log)
    /\ IsFiniteSet(got[r])

PollsInv == LogsInOrder /\ CursorsFollow /\ NoneSkipped /\ GivenOnce
=============================================================================
