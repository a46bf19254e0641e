--------------------------- MODULE InterfaceChoice ---------------------------
(***************************************************************************)
(* Which interface Core's sockets are bound to (desktop/netbind): the      *)
(* Lookup of a system binder, on Linux over /proc/net/route, on macOS over *)
(* netstat, on Windows over the adapter list and the forwarding table,     *)
(* which are read one after the other.  Each loop takes one row per step.  *)
(* The binder excludes the name that the first Prepare or Open of a TUN    *)
(* session gave it (tunhost/binding.go); the caching of the answer and its *)
(* use by dialers are in TunHost.  A line of a table is the record of the  *)
(* fields that the code looks at; Modulus stands for 2^32.                 *)
(***************************************************************************)
EXTENDS Integers, Sequences

CONSTANTS
  Systems,          \* among "linux", "darwin" and "windows"
  Names, NoName,    \* interface names
  TunnelNames,      \* the names that the host gives to its tunnels
  UtunNames,        \* the names that start with utun or lo
  Folded,           \* the name in lower case (strings.EqualFold)
  Modulus,
  RouteTables,      \* what the systems may report: sequences of rows
  NetstatTables,
  AdapterLists,
  ForwardTables,
  SameName          \* whether the host opens the tunnel it prepared

ASSUME ModulusPositive == Modulus \in Nat \ {0}
ASSUME NoNameNotName == NoName \notin Names
ASSUME TunnelsHaveNames == TunnelNames \subseteq Names /\ UtunNames \subseteq Names
ASSUME FoldedIsName == Folded \in [Names -> Names]
ASSUME SameNameBoolean == SameName \in BOOLEAN
ASSUME SystemsKnown == Systems \subseteq {"linux", "darwin", "windows"}

VARIABLES
  system,           \* the platform, fixed
  exclude,          \* the name in the binder, NoName without one
  tunnel,           \* the tunnel that is up
  asked,            \* the name that the lookup under way excludes
  step,             \* where that lookup is
  table,            \* its snapshot: routes, netstat lines or adapters
  forwards,         \* its snapshot of the forwarding table (Windows)
  haveTable,        \* whether the forwarding table could be read
  next,             \* the row that the loop looks at
  metrics,          \* defaultRouteMetrics: lowest metric per interface index
  best,             \* the row that the loop keeps, 0 for none
  answer            \* the name that the last lookup returned

sessionVars == <<system, exclude, tunnel>>
snapshots == <<table, forwards, haveTable>>
choiceVars == <<sessionVars, asked, step, snapshots, next, metrics, best, answer>>

RouteRow == [name : Names, default : BOOLEAN, up : BOOLEAN, gateway : BOOLEAN,
             parses : BOOLEAN, metric : Int]
NetstatRow == [name : Names, default : BOOLEAN, up : BOOLEAN, gateway : BOOLEAN, address : BOOLEAN]
AdapterRow == [name : Names, index : Nat, up : BOOLEAN, gateway : BOOLEAN, loopback : BOOLEAN,
               metric : 0..(Modulus - 1)]
ForwardRow == [index : Nat, inet : BOOLEAN, default : BOOLEAN, metric : 0..(Modulus - 1)]

ASSUME TablesAreTables ==
  /\ RouteTables \subseteq Seq(RouteRow) /\ NetstatTables \subseteq Seq(NetstatRow)
  /\ AdapterLists \subseteq Seq(AdapterRow) /\ ForwardTables \subseteq Seq(ForwardRow)

ChoiceInit ==
  /\ system \in Systems
  /\ exclude = NoName /\ tunnel = NoName
  /\ asked = NoName /\ step = "idle"
  /\ table = <<>> /\ forwards = <<>> /\ haveTable = FALSE
  /\ next = 1 /\ metrics = <<>> /\ best = 0
  /\ answer = NoName

-----------------------------------------------------------------------------
\* prepareLocked keeps a binder that is already there, whatever its name.
prepareLocked(name) == exclude' = IF exclude = NoName THEN name ELSE exclude

Prepare(name) ==
  /\ prepareLocked(name)
  /\ UNCHANGED <<system, tunnel, asked, step, snapshots, next, metrics, best, answer>>

\* The tunnel comes up under its name: opened by this process on Linux, by
\* the host's tunnel process, after a Prepare, on the other two.
Open(name) ==
  /\ tunnel = NoName
  /\ IF system = "linux" THEN prepareLocked(name) ELSE exclude # NoName /\ UNCHANGED exclude
  /\ SameName => exclude' = name
  /\ tunnel' = name
  /\ UNCHANGED <<system, asked, step, snapshots, next, metrics, best, answer>>

\* Close takes the binder away, and the tunnel goes with it: here on Linux,
\* with the host's tunnel process on the other two.
Close ==
  /\ exclude # NoName
  /\ exclude' = NoName /\ tunnel' = NoName
  /\ UNCHANGED <<system, asked, step, snapshots, next, metrics, best, answer>>

-----------------------------------------------------------------------------
\* Lookup reads the first table, or fails to and reports no interface.
BeginLookup ==
  /\ step = "idle" /\ exclude # NoName
  /\ \/ /\ table' \in CASE system = "linux" -> RouteTables
                        [] system = "darwin" -> NetstatTables
                        [] system = "windows" -> AdapterLists
        /\ step' = IF system = "windows" THEN "forward" ELSE "scan"
        /\ asked' = exclude
        /\ UNCHANGED answer
     \/ answer' = NoName /\ UNCHANGED <<table, step, asked>>
  /\ UNCHANGED <<sessionVars, forwards, haveTable, next, metrics, best>>

\* windowsDefaultRouteMetrics: the forwarding table, read after the adapters.
ReadForwardTable ==
  /\ step = "forward"
  /\ \/ forwards' \in ForwardTables /\ haveTable' = TRUE /\ step' = "metrics"
     \/ step' = "scan" /\ UNCHANGED <<forwards, haveTable>>
  /\ UNCHANGED <<sessionVars, asked, table, next, metrics, best, answer>>

\* defaultRouteMetrics keeps the lowest metric of an interface's default routes.
KeepLast(i, m) == [j \in DOMAIN metrics \cup {i} |-> IF j = i THEN m ELSE metrics[j]]
KeepLowest(i, m) ==
  [j \in DOMAIN metrics \cup {i} |->
     IF j # i THEN metrics[j]
     ELSE IF i \in DOMAIN metrics /\ metrics[i] <= m THEN metrics[i] ELSE m]

MetricsStep ==
  /\ step = "metrics"
  /\ IF next > Len(forwards)
       THEN step' = "scan" /\ next' = 1 /\ UNCHANGED metrics
       ELSE LET row == forwards[next]
            IN  /\ metrics' = IF row.inet /\ row.default
                                THEN KeepLowest(row.index, row.metric) ELSE metrics
                /\ next' = next + 1 /\ UNCHANGED step
  /\ UNCHANGED <<sessionVars, asked, snapshots, best, answer>>

\* effectiveMetric: the sum of two uint32 wraps.
effectiveMetric(a) ==
  IF ~haveTable THEN a.metric
  ELSE IF a.index \notin DOMAIN metrics THEN Modulus - 1
  ELSE (a.metric + metrics[a.index]) % Modulus

\* The rows that each loop does not skip.
UsableMatchingCase(row) ==
  CASE system = "linux" -> row.name # asked /\ row.default /\ row.up /\ row.gateway /\ row.parses
    [] system = "darwin" -> /\ row.default /\ row.name # asked /\ row.name \notin UtunNames
                            /\ row.up /\ row.gateway /\ row.address
    [] system = "windows" -> row.up /\ row.gateway /\ ~row.loopback /\ row.name # asked

Usable(row) ==
  CASE system = "linux" -> row.name # asked /\ row.default /\ row.up /\ row.gateway /\ row.parses
    [] system = "darwin" -> /\ row.default /\ row.name # asked /\ row.name \notin UtunNames
                            /\ row.up /\ row.gateway /\ row.address
    [] system = "windows" -> /\ row.up /\ row.gateway /\ ~row.loopback
                             /\ Folded[row.name] # Folded[asked]

\* DefaultInterface: bestMetric < 0 means that there is none yet, and also
\* that the best so far was printed as a negative number.
BetterRoute(row) == best = 0 \/ table[best].metric < 0 \/ row.metric < table[best].metric

\* DefaultAdapter: ties go to the lower index.
BetterAdapter(row) ==
  \/ best = 0
  \/ effectiveMetric(row) < effectiveMetric(table[best])
  \/ effectiveMetric(row) = effectiveMetric(table[best]) /\ row.index < table[best].index

\* One turn of the loop; on macOS the first usable row ends it.
ScanRow ==
  /\ step = "scan" /\ next <= Len(table)
  /\ LET row == table[next]
         takes == Usable(row) /\ CASE system = "linux" -> BetterRoute(row)
                                   [] system = "darwin" -> TRUE
                                   [] system = "windows" -> BetterAdapter(row)
     IN  /\ best' = IF takes THEN next ELSE best
         /\ next' = IF takes /\ system = "darwin" THEN Len(table) + 1 ELSE next + 1
  /\ UNCHANGED <<sessionVars, asked, step, snapshots, metrics, answer>>

EndLookup ==
  /\ step = "scan" /\ next > Len(table)
  /\ answer' = IF best = 0 THEN NoName ELSE table[best].name
  /\ step' = "done"
  /\ UNCHANGED <<sessionVars, asked, snapshots, next, metrics, best>>

\* Lookup returns, and its local variables go.
Return ==
  /\ step = "done"
  /\ step' = "idle" /\ asked' = NoName
  /\ table' = <<>> /\ forwards' = <<>> /\ haveTable' = FALSE
  /\ next' = 1 /\ metrics' = <<>> /\ best' = 0
  /\ UNCHANGED <<sessionVars, answer>>

ChoiceNext ==
  \/ \E n \in TunnelNames : Prepare(n) \/ Open(n)
  \/ Close
  \/ BeginLookup \/ ReadForwardTable \/ MetricsStep \/ ScanRow \/ EndLookup \/ Return

ChoiceSpec == ChoiceInit /\ [][ChoiceNext]_choiceVars

-----------------------------------------------------------------------------
(* The reference: what the systems themselves rank routes by, without      *)
(* integer widths.  Linux prints the unsigned metric of a route as a       *)
(* signed number; Windows adds the metrics of route and interface.         *)
DefaultRoutesOf(i) ==
  {k \in 1..Len(forwards) : forwards[k].index = i /\ forwards[k].inet /\ forwards[k].default}

LowestRoute(i) ==
  CHOOSE m \in {forwards[k].metric : k \in DefaultRoutesOf(i)} :
    \A k \in DefaultRoutesOf(i) : m <= forwards[k].metric

Rank(row) ==
  CASE system = "linux" -> row.metric
    [] system = "darwin" -> 0
    [] system = "windows" ->
         IF ~haveTable THEN row.metric
         ELSE IF DefaultRoutesOf(row.index) = {} THEN 2 * Modulus
         ELSE row.metric + LowestRoute(row.index)

\* A tie goes to the earlier line, on Windows to the lower index.
RanksBefore(i, j) ==
  \/ Rank(table[i]) < Rank(table[j])
  \/ /\ Rank(table[i]) = Rank(table[j])
     /\ IF system = "windows" THEN table[i].index <= table[j].index ELSE i <= j

\* No metric is large enough to be printed as negative or to wrap the sum.
MetricsFit ==
  \A k \in 1..Len(table) : Usable(table[k]) =>
    CASE system = "linux" -> table[k].metric >= 0
      [] system = "darwin" -> TRUE
      [] system = "windows" -> Rank(table[k]) < Modulus - 1 \/ Rank(table[k]) = 2 * Modulus

UsableRows == {k \in 1..Len(table) : Usable(table[k])}

(* route.go:19 "the interface of the lowest-metric IPv4 default route",    *)
(* route_netstat.go:11 "of the first usable IPv4 default route",           *)
(* adapter.go:24 "lowest metric, ties going to the lower index": as long   *)
(* as the metrics fit, what the loops return is the best usable row of the *)
(* tables that were read, and none only if no row is usable.               *)
BestChosen ==
  step = "done" /\ MetricsFit =>
    IF UsableRows = {} THEN best = 0
    ELSE best \in UsableRows /\ \A k \in UsableRows : RanksBefore(best, k)

SameInterface(a, b) ==
  a # NoName /\ b # NoName /\ IF system = "windows" THEN Folded[a] = Folded[b] ELSE a = b

(* route.go:20 "so the result stays the physical link while the tunnel's   *)
(* own routes are installed": with the binder of its own session, no       *)
(* lookup answers with the tunnel, whatever order Prepare, Open, Close and *)
(* the lookup take, as long as the host opens the tunnel that it prepared. *)
TunnelNotChosen ==
  step = "done" /\ asked = exclude => ~SameInterface(answer, tunnel)

-----------------------------------------------------------------------------
(* The inductive strengthening of both.  The tables of a lookup are those  *)
(* of its platform, and the row it keeps is one that it did not skip.      *)
TableOfSystem ==
  CASE system = "linux" -> table \in Seq(RouteRow)
    [] system = "darwin" -> table \in Seq(NetstatRow)
    [] system = "windows" -> table \in Seq(AdapterRow)

LookupProgress ==
  /\ step \in {"idle", "forward", "metrics", "scan", "done"}
  /\ next \in Nat \ {0} /\ best \in 0..Len(table)
  /\ step # "idle" => asked \in Names /\ TableOfSystem
  /\ step \in {"forward", "metrics"} => system = "windows" /\ best = 0
  /\ step \in {"idle", "forward"} => next = 1 /\ metrics = <<>> /\ best = 0 /\ ~haveTable
  /\ haveTable => forwards \in Seq(ForwardRow) /\ system = "windows"
  /\ step = "metrics" => haveTable
  /\ best # 0 => Usable(table[best]) /\ best < next
  /\ best # 0 /\ system = "darwin" => next = Len(table) + 1
  /\ step = "done" => /\ next > Len(table)
                      /\ answer = IF best = 0 THEN NoName ELSE table[best].name

(* The session's tunnel is the interface that its binder excludes.         *)
BinderExcludesTunnel ==
  /\ system \in Systems
  /\ exclude \in Names \cup {NoName} /\ tunnel \in Names \cup {NoName}
  /\ SameName /\ tunnel # NoName => exclude = tunnel

(* The loop invariants: of the rows before next, metrics holds the lowest  *)
(* default route of each interface, and best is the best usable one.       *)
LowestSoFar(n) ==
  /\ \A k \in 1..Len(forwards) :
       forwards[k].inet /\ forwards[k].default /\ k < n =>
         /\ forwards[k].index \in DOMAIN metrics
         /\ metrics[forwards[k].index] <= forwards[k].metric
  /\ \A i \in DOMAIN metrics :
       \E k \in DefaultRoutesOf(i) : k < n /\ metrics[i] = forwards[k].metric

BestSoFar(n) ==
  LET seen == {k \in UsableRows : k < n}
  IN  IF seen = {} THEN best = 0
      ELSE best \in seen /\ \A k \in seen : RanksBefore(best, k)

LoopsKeepBest ==
  /\ step = "metrics" => LowestSoFar(next)
  /\ step \in {"scan", "done"} /\ haveTable => LowestSoFar(Len(forwards) + 1)
  /\ step \in {"scan", "done"} /\ MetricsFit => BestSoFar(next)
=============================================================================
