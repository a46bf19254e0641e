------------------------------ MODULE TunHost ------------------------------
(***************************************************************************)
(* The one TUN session of the desktop Core on Linux: desktop/tunhost       *)
(* (Prepare, Open, Close under the package mutex), the NetworkManager      *)
(* session it opens (desktop/nmtun/session_linux.go) and the binder that   *)
(* pins Core's own sockets to the physical interface                       *)
(* (desktop/netbind/binder.go), read by Core's dialers without the mutex.  *)
(*                                                                         *)
(* Prepare, Open and Close all run under the mutex tunhost.mu, so one      *)
(* operation is in progress at a time: op is the operation that holds the  *)
(* mutex and at is the next statement it executes.  A call that returns    *)
(* early without changing anything (an invalid name or plan, a second Open *)
(* with a session open) is not a step.                                     *)
(***************************************************************************)
EXTENDS Naturals

CONSTANTS
    Ifaces,        \* the physical interfaces a default route may use
    Dialers,       \* Core's goroutines that dial servers
    MaxBinders,    \* bound: how many times a binder is created
    MaxTime,       \* bound: how far the clock runs, in ticks
    TTL,           \* Binder.TTL in ticks
    BindMayFail,   \* whether SO_BINDTODEVICE may fail
    RouteMayVanish \* whether the physical default route may be missing

ASSUME TunAssumption ==
    /\ MaxBinders \in Nat \ {0}
    /\ MaxTime \in Nat \ {0}
    /\ TTL \in Nat \ {0}
    /\ {BindMayFail, RouteMayVanish} \subseteq BOOLEAN
    /\ "none" \notin Ifaces
    /\ Ifaces # {}

VARIABLES
    op,           \* the operation holding mu: "none", "open" or "close"
    at,           \* the next statement of that operation
    preparedHere, \* Open: whether this call put the binding in place
    late,         \* Open: the startup deadline has passed
    session,      \* tunhost.session # nil
    fd,           \* the tun device is attached (Session.fd >= 0)
    nm,           \* NetworkManager's view of the connection
    registerErr,  \* the outcome of register.Do, "unset" before it ran
    binder,       \* the published binder; 0 is nil
    used,         \* how many binders were created
    enabled,      \* per binder: Binder.enabled
    cached,       \* per binder: Binder.iface, "none" when not ok
    refreshed,    \* per binder: Binder.refreshed, 0 is the zero time
    now,          \* the clock
    route,        \* the interface of the physical default route
    lastSeen,     \* history: when an interface last lost the default route
    promised,     \* history: a Prepare or Open succeeded and Close has not begun
    dial          \* per dialer: the socket it is setting up

hostVars   == <<op, at, preparedHere, late, session, fd, nm, promised>>
binderVars == <<registerErr, binder, used, enabled>>
cacheVars  == <<cached, refreshed>>
worldVars  == <<now, route, lastSeen>>
tunVars    == <<hostVars, binderVars, cacheVars, worldVars, dial>>

Binders == 1..MaxBinders
Routes  == Ifaces \cup {"none"}

\* The states of the connection in NetworkManager in which its routes are installed: they appear
\* before the connection is reported activated.
RoutesUp == nm \in {"routes", "activated"}

\* The device exists from its creation until the connection ends.
DeviceExists == nm \in {"device", "routes", "activated"}

NoSocket == [at |-> "idle", ptr |-> 0, via |-> "none", covered |-> FALSE, age |-> 0, entered |-> FALSE]

TunInit ==
    /\ op = "none" /\ at = "none" /\ preparedHere = FALSE /\ late = FALSE
    /\ session = FALSE /\ fd = FALSE /\ nm = "none" /\ promised = FALSE
    /\ registerErr = "unset" /\ binder = 0 /\ used = 0
    /\ enabled   = [b \in Binders |-> FALSE]
    /\ cached    = [b \in Binders |-> "none"]
    /\ refreshed = [b \in Binders |-> 0]
    /\ now = 1 /\ route \in Ifaces /\ lastSeen = [i \in Routes |-> 0]
    /\ dial = [d \in Dialers |-> NoSocket]

----------------------------------------------------------------------------
(* The binding: prepareLocked and releaseLocked.                           *)

\* Mistaken variant: a failed registration is not reported, so Open goes on without the binding.
IgnoreRegisterErr(here, ok) ==
    \/ /\ binder # 0
       /\ here = FALSE /\ ok = TRUE
       /\ UNCHANGED binderVars
    \/ /\ binder = 0 /\ used < MaxBinders
       /\ used' = used + 1
       /\ registerErr' \in (IF registerErr = "unset" THEN {"nil", "error"} ELSE {registerErr})
       /\ here = TRUE /\ ok = TRUE
       /\ enabled' = [enabled EXCEPT ![used'] = TRUE]
       /\ binder' = IF registerErr' = "nil" THEN used' ELSE 0

\* prepareLocked: keep the binder there is, or create, enable, register and publish a new one.  here
\* says whether this call put it in place; a failed registration is remembered for ever (sync.Once).
prepareLocked(here, ok) ==
    \/ /\ binder # 0
       /\ here = FALSE /\ ok = TRUE
       /\ UNCHANGED binderVars
    \/ /\ binder = 0 /\ used < MaxBinders
       /\ used' = used + 1
       /\ registerErr' \in (IF registerErr = "unset" THEN {"nil", "error"} ELSE {registerErr})
       /\ here = (registerErr' = "nil") /\ ok = here
       /\ enabled' = [enabled EXCEPT ![used'] = TRUE]
       /\ binder' = IF ok THEN used' ELSE 0

\* Prepare (a valid name): the binding, under the mutex.
Prepare ==
    /\ op = "none"
    /\ \E here, ok \in BOOLEAN :
          /\ prepareLocked(here, ok)
          /\ promised' = (promised \/ ok)
    /\ UNCHANGED <<op, at, preparedHere, late, session, fd, nm, cacheVars, worldVars, dial>>

\* The first half of releaseLocked: Disable on the published binder.
Disable ==
    /\ at = "release"
    /\ IF binder # 0
         THEN enabled' = [enabled EXCEPT ![binder] = FALSE] /\ at' = "unpublish"
         ELSE UNCHANGED enabled /\ at' = "released"
    /\ UNCHANGED <<op, preparedHere, late, session, fd, nm, promised, registerErr, binder, used,
                   cacheVars, worldVars, dial>>

\* The second half: binder.Store(nil).
Unpublish ==
    /\ at = "unpublish"
    /\ binder' = 0
    /\ at' = "released"
    /\ UNCHANGED <<op, preparedHere, late, session, fd, nm, promised, registerErr, used, enabled,
                   cacheVars, worldVars, dial>>

----------------------------------------------------------------------------
(* Open.                                                                   *)

\* Mistaken variant: a failed Open releases whatever binding there is.
AlwaysRelease == "release"

\* What a failed Open does once nmtun.Open returned: it releases the binding it put in place itself.
\* A binding that an earlier Prepare made stays until Close.
UndoOpen == IF preparedHere THEN "release" ELSE "released"

\* Open (a valid plan) up to nmtun.Open.  When the dialer controller cannot be registered, it returns.
OpenEnter ==
    /\ op = "none" /\ ~session
    /\ \E here, ok \in BOOLEAN :
          /\ prepareLocked(here, ok)
          /\ IF ok THEN op' = "open" /\ at' = "bus" ELSE UNCHANGED <<op, at>>
          /\ preparedHere' = here
    /\ late' = FALSE
    /\ UNCHANGED <<session, fd, nm, promised, cacheVars, worldVars, dial>>

\* nmtun.Open up to AddAndActivateConnection2: the private bus connection and the request.  Every
\* failure up to here closes the bus connection, and there is no session to close yet.
AddAndActivate ==
    /\ op = "open" /\ at = "bus"
    /\ \/ nm' = "requested" /\ at' = "attach"
       \/ nm' = "none" /\ at' = UndoOpen
    /\ UNCHANGED <<op, preparedHere, late, session, fd, promised, binderVars, cacheVars, worldVars, dial>>

\* attach: once the device exists it is opened and TUNSETIFF attaches to it.  A refusal is retried;
\* a device node that cannot be opened, and the deadline, end the attempt.
Attach ==
    /\ op = "open" /\ at = "attach"
    /\ \/ ~late /\ DeviceExists /\ fd' = TRUE /\ at' = "wait"
       \/ ~late /\ DeviceExists /\ fd' = FALSE /\ at' = "closeFd"
       \/ late /\ fd' = FALSE /\ at' = "closeFd"
    /\ UNCHANGED <<op, preparedHere, late, session, nm, promised, binderVars, cacheVars, worldVars, dial>>

\* waitActivated: activation ends Open with success; deactivation, an unreadable state and the deadline
\* end it with an error.
WaitActivated ==
    /\ op = "open" /\ at = "wait"
    /\ \/ /\ ~late /\ nm = "activated"
          /\ session' = TRUE /\ promised' = TRUE
          /\ op' = "none" /\ at' = "none"
       \/ \* deactivated, late, or the state cannot be read
          at' = "closeFd" /\ UNCHANGED <<session, promised, op>>
    /\ UNCHANGED <<preparedHere, late, fd, nm, binderVars, cacheVars, worldVars, dial>>

\* Mistaken variant: polling without a deadline.
PollForEver ==
    /\ op = "open" /\ at \in {"attach", "wait"} /\ ~late
    /\ UNCHANGED tunVars

\* The startup deadline passes while Open polls.
DeadlinePasses ==
    /\ op = "open" /\ at \in {"attach", "wait"} /\ ~late
    /\ late' = TRUE
    /\ UNCHANGED <<op, at, preparedHere, session, fd, nm, promised, binderVars, cacheVars, worldVars, dial>>

----------------------------------------------------------------------------
(* Close and the common end of both operations.                            *)

\* Close begins by releasing the binding, before it looks at the session.
CloseEnter ==
    /\ op = "none"
    /\ op' = "close" /\ at' = "release" /\ promised' = FALSE
    /\ UNCHANGED <<preparedHere, late, session, fd, nm, binderVars, cacheVars, worldVars, dial>>

\* What follows releaseLocked: Close goes on to the session if there is one, a failed Open returns.
Released ==
    /\ at = "released"
    /\ IF op = "close" /\ session
         THEN at' = "closeFd" /\ UNCHANGED op
         ELSE at' = "none" /\ op' = "none"
    /\ UNCHANGED <<preparedHere, late, session, fd, nm, promised, binderVars, cacheVars, worldVars, dial>>

\* Session.Close, first half: the device.
CloseFd ==
    /\ at = "closeFd"
    /\ fd' = FALSE
    /\ at' = "deactivate"
    /\ UNCHANGED <<op, preparedHere, late, session, nm, promised, binderVars, cacheVars, worldVars, dial>>

\* Mistaken variant: a failed Open returns without ending the session it started.
DeactivateOnlyOnClose ==
    /\ at = "deactivate"
    /\ IF op = "close"
         THEN nm' = "none" /\ session' = FALSE /\ op' = "none" /\ at' = "none"
         ELSE at' = UndoOpen /\ UNCHANGED <<session, op, nm>>
    /\ UNCHANGED <<preparedHere, late, fd, promised, binderVars, cacheVars, worldVars, dial>>

\* Session.Close, second half: DeactivateConnection and the end of the private bus connection, after
\* which NetworkManager has removed the interface and its routes.  Close then forgets the session; a
\* failed Open never stored it and may still have the binding to release.
Deactivate ==
    /\ at = "deactivate"
    /\ nm' = "none"
    /\ IF op = "close"
         THEN session' = FALSE /\ op' = "none" /\ at' = "none"
         ELSE at' = UndoOpen /\ UNCHANGED <<session, op>>
    /\ UNCHANGED <<preparedHere, late, fd, promised, binderVars, cacheVars, worldVars, dial>>

----------------------------------------------------------------------------
(* NetworkManager, the clock and the routing table (external).             *)

\* NetworkManager creates the device, installs addresses and routes, and reports the activation; it may
\* deactivate the connection at any point.
NetworkManagerStep ==
    /\ \/ nm = "requested" /\ nm' \in {"device", "failed"}
       \/ nm = "device"    /\ nm' \in {"routes", "failed"}
       \/ nm = "routes"    /\ nm' \in {"activated", "failed"}
       \/ nm = "activated" /\ nm' = "failed"
    /\ UNCHANGED <<op, at, preparedHere, late, session, fd, promised, binderVars, cacheVars, worldVars, dial>>

Tick ==
    /\ now < MaxTime
    /\ now' = now + 1
    /\ UNCHANGED <<route, lastSeen, hostVars, binderVars, cacheVars, dial>>

\* Another interface becomes the default route, or none is left.
RouteChanges ==
    /\ \E r \in IF RouteMayVanish THEN Routes ELSE Ifaces :
          /\ r # route
          /\ route' = r
    /\ lastSeen' = [lastSeen EXCEPT ![route] = now]
    /\ UNCHANGED <<now, hostVars, binderVars, cacheVars, dial>>

----------------------------------------------------------------------------
(* A dialer of Core: Binder.Control on a fresh socket, then the connect.   *)

\* The registered controller loads the binder; without one the socket stays as it is.
Dial(d) ==
    /\ dial[d].at \in {"idle", "connected"}
    /\ dial' = [dial EXCEPT ![d] =
          [NoSocket EXCEPT !.at = IF binder = 0 THEN "connect" ELSE "current",
                           !.ptr = binder, !.covered = promised]]
    /\ UNCHANGED <<hostVars, binderVars, cacheVars, worldVars>>

\* Mistaken variant: off by one at the age limit.
ExpiredLate(b) == refreshed[b] = 0 \/ now - refreshed[b] > TTL

\* Whether current() must look the interface up again.
Expired(b) == refreshed[b] = 0 \/ now - refreshed[b] >= TTL

\* Binder.current under Binder.mu: nothing when disabled, otherwise the cached or the looked-up interface.
Current(d) ==
    LET b     == dial[d].ptr
        iface == IF Expired(b) THEN route ELSE cached[b]
    IN  /\ dial[d].at = "current"
        /\ IF ~enabled[b]
             THEN /\ dial' = [dial EXCEPT ![d].at = "connect"]
                  /\ UNCHANGED cacheVars
             ELSE /\ dial' = [dial EXCEPT ![d].at = IF iface = "none" THEN "connect" ELSE "bind",
                                          ![d].via = iface,
                                          ![d].age = IF iface = route THEN 0 ELSE now - lastSeen[iface]]
                  /\ cached' = [cached EXCEPT ![b] = iface]
                  /\ refreshed' = [refreshed EXCEPT ![b] = IF Expired(b) THEN now ELSE @]
        /\ UNCHANGED <<hostVars, binderVars, worldVars>>

\* Binder.Bind: a failed bind never fails the dial.
Bind(d) ==
    /\ dial[d].at = "bind"
    /\ \E ok \in IF BindMayFail THEN BOOLEAN ELSE {TRUE} :
          dial' = [dial EXCEPT ![d].at = "connect",
                               ![d].via = IF ok THEN @ ELSE "none",
                               ![d].age = 0]
    /\ UNCHANGED <<hostVars, binderVars, cacheVars, worldVars>>

\* The connect: an unbound socket follows the system routes, which lead into the tunnel while they are up.
Connect(d) ==
    /\ dial[d].at = "connect"
    /\ dial' = [dial EXCEPT ![d].at = "connected",
                            ![d].entered = (@ \/ (dial[d].via = "none" /\ RoutesUp))]
    /\ UNCHANGED <<hostVars, binderVars, cacheVars, worldVars>>

----------------------------------------------------------------------------

Host == \/ Disable \/ Unpublish \/ AddAndActivate \/ Attach \/ WaitActivated
        \/ DeadlinePasses \/ Released \/ CloseFd \/ Deactivate

TunNext ==
    \/ Prepare \/ OpenEnter \/ CloseEnter \/ Host
    \/ NetworkManagerStep \/ Tick \/ RouteChanges
    \/ \E d \in Dialers : Dial(d) \/ Current(d) \/ Bind(d) \/ Connect(d)

TunSpec == TunInit /\ [][TunNext]_tunVars

\* The goroutine inside Open or Close is scheduled, the bus answers every call, and time passes.  Of the
\* polling loops only the exit at the deadline is fair: NetworkManager need not do anything.
FairTunSpec ==
    /\ TunSpec
    /\ WF_tunVars(Disable \/ Unpublish \/ Released \/ CloseFd \/ Deactivate)
    /\ WF_tunVars(AddAndActivate)
    /\ WF_tunVars(late /\ (Attach \/ WaitActivated))
    /\ WF_tunVars(DeadlinePasses)

----------------------------------------------------------------------------
(* Properties.                                                             *)

\* Every variable has the value its Go counterpart can have.
TunTypeOK ==
    /\ op \in {"none", "open", "close"}
    /\ at \in {"none", "bus", "attach", "wait", "closeFd", "deactivate", "release", "unpublish", "released"}
    /\ {preparedHere, late, session, fd, promised} \subseteq BOOLEAN
    /\ nm \in {"none", "requested", "device", "routes", "activated", "failed"}
    /\ registerErr \in {"unset", "nil", "error"}
    /\ binder \in 0..used /\ used \in 0..MaxBinders
    /\ enabled \in [Binders -> BOOLEAN]
    /\ cached \in [Binders -> Routes]
    /\ refreshed \in [Binders -> 0..now]
    /\ now \in 1..MaxTime /\ route \in Routes /\ lastSeen \in [Routes -> 0..now]
    /\ dial \in [Dialers -> [at : {"idle", "current", "bind", "connect", "connected"}, ptr : 0..used,
                             via : Routes, covered : BOOLEAN, age : 0..MaxTime, entered : BOOLEAN]]
    /\ op = "none" <=> at = "none"

\* Outside of Open and Close there is a session with its device and a connection that was activated, or
\* there is nothing: no failure of Open leaves an interface, its routes or a descriptor behind (Open's error
\* paths in nmtun and tunhost).
NothingLeftBehind ==
    op = "none" => IF session THEN fd /\ nm \in {"activated", "failed"} ELSE ~fd /\ nm = "none"

\* The state is well typed, the mutex is held exactly while an operation is under way, and nothing is left
\* behind when it is free.
TunInv == TunTypeOK /\ NothingLeftBehind

\* While NetworkManager has the tunnel's routes installed, Core's sockets are bound: the binding is
\* published and enabled before the routes exist and outlives them when Open fails (tunhost_linux.go:35).
\* Close is left out: see SessionDialsAvoidTunnel.
BindingBeforeRoutes ==
    RoutesUp /\ op # "close" => binder # 0 /\ enabled[binder]

\* What Prepare promised stays until Close undoes it: an Open that fails in between releases only a
\* binding it put in place itself (preparedHere).
BindingKept ==
    promised => binder # 0 /\ enabled[binder]

\* The interface a socket is bound to was that of the default route less than TTL ago, however the route
\* changes and whatever the cache holds (Binder.current).
RecentInterface ==
    \A d \in Dialers : dial[d].at = "bind" => dial[d].age < TTL

\* A dial that began while the binding was in place never enters the tunnel: "so the proxy connections
\* to the servers never enter the tunnel they carry" (binder.go:14).
SessionDialsAvoidTunnel ==
    \A d \in Dialers : dial[d].covered => ~dial[d].entered

\* Open and Close return: the polling loops of nmtun.Open end with the deadline, and their cleanup
\* gives the mutex back.
MutexComesBack == (op # "none") ~> (op = "none")

----------------------------------------------------------------------------
(* The inductive invariant of the proofs.                                  *)

\* What the bus session and the device are at each statement of the operation that holds the mutex.
Progress ==
    /\ op = "open" =>
         /\ ~session
         /\ at \in {"bus", "release", "unpublish", "released"} => ~fd /\ nm = "none"
         /\ at \in {"attach", "deactivate"} => ~fd
         /\ at = "wait" => fd
    /\ op = "close" =>
         /\ at \in {"release", "unpublish", "released", "closeFd", "deactivate"}
         /\ session => nm \in {"activated", "failed"}
         /\ session /\ at # "deactivate" => fd
         /\ at = "deactivate" => ~fd
         /\ ~session => ~fd /\ nm = "none" /\ at \in {"release", "unpublish", "released"}

\* The published binder is enabled except between the two halves of releaseLocked, there is one whenever an
\* operation or a session relies on it, and an Open that will release it made it itself.
Bindings ==
    /\ binder # 0 /\ at # "unpublish" => enabled[binder]
    /\ op = "open" /\ at \notin {"release", "unpublish", "released"} => binder # 0
    /\ session /\ op # "close" => binder # 0
    /\ promised => binder # 0 /\ op # "close"
    /\ op = "open" /\ at \in {"release", "unpublish"} => preparedHere
    /\ op = "open" /\ preparedHere => ~promised

\* What a binder has cached was the default route when it was looked up: it still is, or it has lost the
\* route since.
CacheIsOfRoute ==
    \A b \in Binders : refreshed[b] # 0 => cached[b] = route \/ lastSeen[cached[b]] >= refreshed[b]

\* A dialer asks only a binder that it has loaded.
DialerHasBinder == \A d \in Dialers : dial[d].at = "current" => dial[d].ptr # 0

HostInv == TunTypeOK /\ NothingLeftBehind /\ Progress /\ Bindings
DialInv == CacheIsOfRoute /\ DialerHasBinder /\ RecentInterface

=============================================================================
