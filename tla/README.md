# A verification development of skipi-core

skipi-core embeds Xray in an Android app and in a desktop application. This directory holds TLA+
specifications of its concurrent core, TLC configurations that check them on small instances, and proofs,
checked by TLAPS, of the main safety properties for every value of the parameters. `PROJECT.json` maps each
definition to the lines it models and lists the runs, the hazards, the findings and the theorems.

## 1. Inventory

| Component | Source | State | Operations | What is hard |
|---|---|---|---|---|
| Core controller | `skipicore.go` 132–328 | `isRunning`, `instance`, `connLog`, `statsManager`; the environment variables of the TUN descriptor | `StartLoop`, `StopLoop`, queries | a start has seven steps that fail separately; the lock is per controller, the environment, Xray's log handler and the collector are per process |
| Collector pause | `runtime_tuning.go` | holders, saved percentage | pause, restore | overlapping starts |
| Probe instances | `skipicore.go` 505–714 | an Xray instance | build, restore the log handler, measure, close | `core.New` replaces the session's log handler |
| Traffic statistics | `skipicore.go` 330–459 | totals | two queries with different semantics | drained counters, several consumers |
| Connection log | `connection_log.go` | ring, sequence number, names waiting for their routing line | record, add, snapshot, switch | full ring, stale cursors, restarts, a poll that overlaps a stop |
| Download test | `skipicore.go` 518–598, 716–782 | map of cancel functions | measure, cancel | ids chosen by callers, cancels that come early, timeouts |
| Fastest outbound | `skipicore.go` 1010–1149 | channel, best so far | race | deadline against answer, goroutines left behind |
| Desktop bridge | `desktop/bridge/bridge.go` | the process lease, asset owner, handles | create, destroy, start, stop, … | several runtimes, failed starts and stops, lock order |
| TUN host | `desktop/tunhost`, `desktop/nmtun/session_linux.go` | session, device, binder | `Prepare`, `Open`, `Close` | partial failure, polling with a deadline, order of routes and binding |
| Socket binder | `desktop/netbind/binder.go` | cached interface | `Control` in every dial | stale cache, a disabled binder that a dial still holds |
| AmneziaWG runner | `amneziawg.go` 697–1380 | active runner, SOCKS listener, associations | start, stop, serve | goroutines that must end, cleanup that races a reader |
| Interface selection | `desktop/netbind/route*.go`, `adapter.go`, `system_*.go` | none | `Lookup` on three systems | two snapshots that do not belong together, metrics that wrap, the name to exclude |
| AmneziaWG settings | `amneziawg.go` 31–695, 840–950 | none | parse, validate, resolve, configure | limits, zero values, nested deadlines, mapped addresses |
| C interface | `cmd/skipicore-desktop/main.go` | last error | exports | panics that are recovered, one last error for all threads |
| Rest | certificates, memory statistics, notifications, NetworkManager settings, asset readers, process finder | none | – | I/O only |

How they interact: the host calls the C interface, which calls the bridge. The bridge calls a controller with the
process lock held. The controller writes the process environment, Xray's global log handler and the collector's
percentage. Probes and the URL race run without any of those locks and touch the same handler and environment. The
connection log is written by Xray's goroutines through that handler and read by the host. The TUN host binds the
sockets that Xray's dialers open, and reads nothing from the bridge.

## 2. Modules

| Module | Models | Composition |
|---|---|---|
| `GcPause` | the collector pause, as an abstract component | – |
| `CoreController` | controllers and probes on the shared process state | starts and returns take the steps of its instance of `GcPause` |
| `SessionLease` | what the bridge promises: one session at a time, with one descriptor and one asset directory | – |
| `DesktopBridge` | the bridge, with the core under its lock | extends `CoreController`, refines `SessionLease` |
| `ConnectionLog`, `TrafficStats` | the two data paths out of a session | – |
| `CInterface` | the exported functions around the bridge: panics, reports and the last error | extends `DesktopBridge` |
| `OutboundDownload`, `FastSelect` | the two tests with timeouts | – |
| `TunHost` | TUN session, NetworkManager session, binder and dialers | – |
| `InterfaceChoice` | which interface a lookup finds, under the sessions that name the one to exclude | the caching of its answer is in `TunHost` |
| `AwgRunner` | the AmneziaWG runner and its SOCKS server | its `Build` is `AwgConfig` |
| `AwgConfig` | from settings to a configured device: limits, DNS servers, endpoint lookups | – |

The `MC…` modules give TLC its symmetry sets and structured constants, the `…_proof` modules hold the theorems:
`CoreController_proof` also those of `GcPause`, `DesktopBridge_proof` those of `CInterface`, `Choice_proof` those of `FastSelect`
and `InterfaceChoice`, `Awg_proof` those of `AwgRunner` and `AwgConfig`.
Operators whose name describes a mistake (`ExpiredLate`, `TrimNewest`, …) are variants of a definition that
follows them, used to make sure that each property fails on a plausible bug.

Granularity. A step is what the code does between two points at which another goroutine can see or change the shared
state. Under a mutex, statements on state that only the mutex protects are one step. Accesses to the environment, to atomic
pointers, to Xray's global handler and to NetworkManager are steps of their own. An early return without an effect is
not a step. Every call into Xray, the kernel or NetworkManager may fail wherever the code handles a failure.

**GcPause.** `gcPercent`, `gcPauseHolders`, `gcPausePrevious` and, per start, the state of its `sync.Once`.

**CoreController.** `phase[c]` is the next statement of the call that holds `c.mu`; `tunFdEnv` the environment,
`logHandler` Xray's handler, `activeConnectionLog` the atomic pointer, `alive` the instances that were constructed and not
closed and `seenFd` the descriptor each of them read. `installConnectionLog`, `clearConnectionLog` and
`restoreConnectionLog` are two steps each. The host may close a descriptor when no call or session has it.

**DesktopBridge.** A thread's call waits for the process lock, may enter the core with it and leaves. The steps inside are
those of `CoreController`, so that a start can fail anywhere. A delay measurement holds neither lock. `BridgeRunsCore`
proves that every behaviour of the bridge is one of `CoreSpec`.

**CInterface.** A call of the bridge runs inside a wrapper that reports its outcome after the bridge has released its
locks, and the report is a step of its own. `Recover` is a panic inside Xray: the deferred calls of `StartLoop`, `StopLoop`
and the bridge have run, the statements after the call into Xray have not. The message is the thread that failed. `result` and
`since` are history: how a thread's last call ended, and which other threads were in a call when it reported or have begun one since.

**ConnectionLog.** A line passes the check of the switch and is added later, by which time the session may be gone.
The log of an old session still accepts lines. A poll takes the log under `c.mu` and reads it afterwards.
`got`, `received` and `seen` are history: what a reader was given, how often, the log that its cursor is of, the cursor that it
brought to that log, and the entries that the full log had dropped when it polled.

**TrafficStats.** `VisitCounters` visits one counter at a time while traffic continues; `Set(0)` is an atomic swap.

**OutboundDownload.** A cancel loads the function and calls it in two steps. The byte budget is a small number.

**FastSelect.** Latencies are three values around the 350 ms threshold; Go's `select` takes either ready case.

**TunHost.** `op` is the operation that holds the package mutex, `nm` NetworkManager's connection, whose routes appear
before it is reported active. Dialers load the binder, ask it and connect in separate steps, without the mutex.
`lastSeen`, `promised`, `covered` and `age` are history.

**InterfaceChoice.** One row of a table per step. On Windows the adapters and the forwarding table are two snapshots, and
the second may fail. `Modulus` stands for 2^32 in the unsigned sum of two metrics.

**AwgConfig.** A range is the sequence of its numbers, a chain of tags the length of its text and its tags, an address a
value with the flag of the IPv4-mapped form. The slices that the code picks out of another one in its order (the servers of
`netstackDNSAddresses`, the usable addresses of an answer) are the sets of the positions picked: `dns` are positions in
`dnsServers`, `server` is the one being asked, 0 for the system's resolver. A lookup asks one resolver at a time; time passes
in half seconds, and a resolver answers at any tick or not at all.

**AwgRunner.** Each goroutine of a connection is a member of `copier`, `watch` or `respond`, or the field `reader`. What a
client sends and when it goes is free.

## 3. Runs

| Run | Question | Bounds | Result |
|---|---|---|---|
| `MCCoreController` | descriptor, instances, fields, active log, collector through overlapping starts | 2 controllers, 1 probe, 5 instances, 1 descriptor; a probe's `core.New` may fail | holds |
| `MCCoreProbeFails` | the session's log handler is back when the probes are over | 1 controller, 1 probe | violated: finding 1 |
| `MCDesktopBridge` | one session, refinement of `SessionLease`, stops return | 2 runtimes with 1 handle each, 2 threads, 2 directories, 2 instances, sessions without a descriptor | holds |
| `MCCInterface` | own descriptor, own log, lease, collector and last error through panics | 1 runtime with 2 handles, 2 threads, 1 panic, 3 instances, 1 descriptor, no probes | holds |
| `MCConnectionLog` | window, nothing given twice, nothing skipped above the cursor that was brought | capacity 2, 2 ids, pending limit 1, 3 entries, 2 sessions | holds |
| `MCTrafficStats` | conservation between consumers | 2 counters, one of another kind, 2 callers, 3 units of traffic | holds |
| `MCOutboundDownload` | budget, cancels, return | 2 calls, 2 ids that unfinished calls do not share, 1 cancelling thread, budget of 2 | holds |
| `MCFastSelect` | best of what was heard, return, no goroutine left | up to 4 candidates, 3 latencies | holds |
| `MCTunHost` | nothing left behind, binding, cache age, mutex | 2 binders, 3 ticks with a TTL of 2, 1 interface whose route goes and returns | holds |
| `MCInterfaceChoice` | the best usable row, never the tunnel | every table of up to 3 rows out of 11 (Linux), 8 (macOS), 8 adapters with 5 forwarding rows (Windows); modulus 8 | holds |
| `MCAwgRunner` | what is left up, one client, sockets closed, goroutines end | 2 runners, 1 connection, 2 sources, 2 families | holds |
| `MCAwgConfig` | limits of a configured device, endpoint, fairness and time of a lookup | each setting at and past its limits, up to 2 peers, up to 5 servers, 5 kinds of answer, 2 ticks to a second | holds |

Why the bounds are enough to be interesting. Two controllers and a probe are the smallest instance in which one call
runs between two steps of another. The log run fills the ring and drops from it, fills the pending map, and restarts a
session under a poll. The race has four candidates, so that the majority rule and the rule of three differ. The binder's
clock runs for three ticks with a TTL of two, so that an answer is used below, at and after its limit; the missing route
is the other value a stale interface is compared with. Two binders allow a second session while a dial still holds the
first one's. Connections of the AmneziaWG runner share nothing but the runner, so one is enough.
The tables of the interface selection hold a row for every reason to skip one. The settings are combined one at a time with a
valid configuration, because the checks are independent of each other. `MCCInterface` has no probe: what holds with any
number of them is proved (`SessionSeesOwnFd`, `SessionLogStays`), and one panic already meets every phase of every call.
Instances, callers, threads and ids are symmetric sets where no property names one of them and the run has no liveness
property.

Type invariants are checked inside `DownloadInv`, `SelectInv`, `TunInv` and `AwgInv`, and proved for every module as parts of
its inductive invariant.

`CHECK_DEADLOCK FALSE` appears only for `FastSelect`, which models a single call that returns.

Fairness. A goroutine that can go on is scheduled (weak fairness of its steps), and deadlines pass. Go's mutex hands
itself to a waiter in starvation mode, which is the strong fairness of a waiting stop in `DesktopBridge`. Nothing is
assumed of callers, of clients, of a delay measurement, of a server that is downloaded from, or of NetworkManager, except
that the system bus answers a call or fails it; nmtun sets no timeout on those calls.

## 4. Findings

1. *A failed probe loses the session's log handler* (`MCCoreProbeFails`). `connection_log.go:173` says that a probe
   must put the handler back; `skipicore.go:620` returns before it does when `core.New` fails.

The following observations have no run of their own. The first four can be seen by changing a configuration;
the properties of the runs are worded so as not to hide them.

- A cancel that comes before the test instance has started is lost (`skipicore.go:561`, where the function is stored):
  add `CancelStopsStarted` to `MCOutboundDownload.cfg`.
- `Close` takes the binding away before the routes are gone (`tunhost_linux.go:55`), so that a dial in between enters the
  tunnel: add `SessionDialsAvoidTunnel` to `MCTunHost.cfg`.
- A cursor does not tell whose it is. A reader that polls a new session with the cursor of an earlier one is not given the
  entries of the new log that the cursor numbers, though it polls in time and they are still in the ring
  (`connection_log.go:132`, with the new log that `skipicore.go:217` starts from zero), while `skipicore.go:295` promises "the
  routed connections newer than afterSeq": add `NoneWithheld` to `MCConnectionLog.cfg`. `NoneSkipped` says that nothing else is
  lost to a reader but what the full log has dropped.
- A host that prepares one name and opens another keeps the first binder (`binding.go:44`), whose lookup may then answer
  with the tunnel: `TunnelNotChosen` needs `SameName = TRUE`.
- `BestChosen` speaks of metrics that fit. Linux prints a large unsigned metric as a negative number, which the loop takes
  for "no route yet" (`route.go:42`), and on Windows the sum of two `uint32` metrics wraps (`system_windows.go:147`).
- After a recovered panic of `core.New` or `Start` the descriptor stays in the environment and the instance is not closed
  (`skipicore.go:199` promises the former for error returns); `MCCInterface` does not check `PublishedFdIsLive` for that
  reason.
- Two threads share one last error, so "the last failed call" (`main.go:337`) may be another thread's, and its message is
  cleared by any call that succeeds (`main.go:365`). `LastErrorIsRecent` is what a thread can rely on: what it reads after its
  own call is its own, or of a call that overlapped or followed it. `SkipiCoreDesktopCreateController` clears before it creates, so
  a call that ends between the two counts as one that overlaps.
- The literal `::ffff:0.0.0.0` passes the checks for an unspecified endpoint or DNS server, because they look at it before
  `Unmap` (`amneziawg.go:531` and `928`; `477` and `512` look after). `DeviceConfigSafe` excepts it.
- A third DNS server is never asked when the system resolver and the first two use up their second each
  (`amneziawg.go:438`); `FairChance` asks for two.
- A pre-shared key that cannot be decoded is dropped without an error (`amneziawg.go:671`), and `StartAmneziaWg` stops the
  old tunnel before it has validated the new settings (`793`).
- `RewriteWireguardOutboundToSocks` sends every wireguard outbound to the one tunnel, whose settings are those of the first
  outbound with a secret key.
- `restoreConnectionLog` loads the active log and registers it in two steps. A stop and a start fit in between, after
  which the old session's handler is registered, with the lock of the bridge too, because probes hold none.
  `LogHandlerRestored` fails in that way as well; `SessionLogRemembered` is about the active log, not the handler.
- Downloads that share a request id replace and delete each other's cancel function (`skipicore.go:573`), so
  `CancelStopsRunning` is checked with `DistinctIds = TRUE`; with `FALSE` it is violated by two calls.
- At the deadline of the race Go's `select` may take `ctx.Done` while an answer waits in the channel
  (`skipicore.go:1134`); `BestOfHeard` speaks of the answers that the loop has taken.

## 5. Proofs

All theorems hold for every value of the constants under the assumptions named in the modules: sets of any size
(finite where they are counted), distinct "no such thing" values, positive capacities, tables and answers that have the
shape of parsed ones. Every invariant and every safety property of steps that a passing run checks is stated by a theorem.

- `CoreController_proof`: `FdInv` strengthens `PublishedFdIsLive` by what each phase implies, by the fact that a lent
  descriptor has one borrower, and by what a call that has not published yet, or has failed, may find in the environment.
  `OwnerInv` strengthens `NoInstanceLeak`, `FieldsAgree` and `ActiveLogIsLive`: each instance has one owner. Each action
  is a lemma. For the pause, `GcInv` ties the number of holders to the set of armed starts and the saved percentage to the
  first of them; without it the percentage that the last restore brings back is arbitrary. `GcHeldByStarts` says that a start is
  armed for as long as its call lasts, on every return path; with `GcInv` it gives `GcFollowsStarts`.
- `DesktopBridge_proof`: `LeaseInv` describes the lease for the call inside the lock and for the others; it implies one
  session, the accuracy of the lease, that a session keeps its handle, and its assets. `SessionInv` adds that the process
  state is that of the one session. `BridgeRunsCore` and `BridgeImplementsLease` are the two refinements, upwards and
  downwards.
  The C interface comes after it: a step is one of the bridge or a recovered panic (`StepOrRecover`). `PanicInv` adds to `LeaseInv` that a
  start that can still panic has not set `isRunning`; with it the lease that a call leaves behind when it unwinds is the
  one that describes the core. A start that unwinds fires its restore, so the collector's count stays that of the starts.
  `ReportInv` strengthens `LastErrorIsRecent` from the return of a call to its report, and says that whoever is in a call, and
  was not when another thread's call reported, has begun it since.
- `ConnectionLog_proof`: the ring is a gapless window of the newest entries (`LogIsWindow`). `PollsInv` then follows the
  readers: the log of a cursor is never ahead of the one being read, and entries of an older log belong to one that will
  not be read again. `SnapshotGives` computes what a snapshot adds, and that nothing is missing but what was dropped, from which both `NoneSkipped` and, counting with
  cardinalities, `GivenOnce` are kept.
- `TrafficStats_proof`: `StatsInv` relates the counters, the totals and what a drain under way has moved to the traffic
  that passed; conservation and the two properties of queries follow.
- `TunHost_proof`: `HostInv` says what the session, the device and the binding are at each statement of the operation that
  holds the mutex (`Progress`, `Bindings`). `DialInv` is that of the dialers without the mutex: what a cache holds is the
  interface of the route, or one that has lost it since the lookup, so an interface that is not expired is not old.
- `OutboundDownload_proof`: the budget needs only that a limit is accepted before bytes are read. `CancelInv` needs that
  ids are kept apart: then the function of a running call stays under its id, and a cancel that found it has loaded it.

- `Choice_proof`, the race: `LoopRemembers` says that the best so far is an answer heard and none heard is faster;
  `OutcomesOfProbes` counts the outcomes sent, so that a probe that runs finds room in the channel (`ChannelHasRoom`), which is
  the safety half of `NoProbeLeft`.
- `Choice_proof`, the lookups: `LoopsKeepBest` has an invariant for each of the two loops: after n rows of the forwarding
  table `metrics` holds the lowest route of each interface (`LowestSoFar`), after n rows of the table `best` is the best usable
  one (`BestSoFar`). `RankOfUsable` is where the arithmetic is: as long as the metrics fit, the sum modulo `Modulus` that the
  code compares orders usable rows as the unbounded sum does. `TunnelIsNotChosen` has the hypothesis `SameName` (section 4).
- `Awg_proof`, the runner: `RunnersFollowCall` says what is up at each statement of a start or a stop.
  `TunnelSocketsClosed` needs `SocketsFollowHandler`: cleanup sets `tunnelsClosed` under the lock under which the reader opens a
  socket. `OneClient` needs `ServedIsClient`: whatever was served is `clientAddr`, which is set once. A step of a connection
  changes that connection alone, which makes the number of connections irrelevant.
- `Awg_proof`, the settings: `SettingsChecked`, `EndpointsPlain` and `DeviceWritten` carry the checks through the lookups to
  the device. `DeadlinesNest` bounds the clock. `AskedInTurn` is behind `FairChance`: the servers are asked in their order and
  none is left out, each of the first three attempts ends so early that the deadline leaves the next a whole second, and no
  two positions in `dns` hold the same address, so different positions are different servers. `EndpointIsBest` follows from
  `NothingOffered` and `PreferredIsUsable`. That a set of positions has a least member comes from the well-foundedness of <.

Only model-checked: the liveness properties `StopReturns`, `CallsReturn`, `CallReturns`, `NoProbeLeft`, `MutexComesBack` and
`StopEndsServing`, because liveness under fairness is outside what TLAPS proves here. Of the sum of a chain's tags
(`FixedBytes`, a fold) the theorems say that the device has the chain that was checked, not what the fold computes.

## 6. Not modelled

Parsing and formatting of JSON, log lines, addresses, routing tables and SOCKS messages (a step takes any of their
outcomes, or their fields as a record); the HTTP exchange of the delay measurement; the host's callbacks, beyond the
fact that they are made; `resolveMaxProcs` and `applyMaxProcs`, a computation at start-up; `HasAmneziaParams` and
`RewriteWireguardOutboundToSocks`, which map one text to another; the ownership of C strings. Certificates, memory
statistics, notifications, asset readers, the process finder and the NetworkManager settings and permission probe are
single calls to a platform or formatting, with no state to check. TUN on Windows and macOS is the binding alone.
NetworkManager's removal of an interface is taken to be finished when the session's close has returned.

## 7. Plan

1. The host's callbacks under `c.mu`, should the repository come to say what they may call.
2. A composition of `TunHost` with `InterfaceChoice`, so that a stale cache and a wrong name meet in one model.
