--------------------------- MODULE TunHost_proof ---------------------------
(***************************************************************************)
(* Proofs about TunHost, for any interfaces, dialers and bounds: the state *)
(* outside of Open and Close, the binding that is there before the routes, *)
(* the promise of Prepare, and the age of an interface that a socket is    *)
(* bound to.                                                               *)
(*                                                                         *)
(* HostInv is the invariant of the operations under the mutex: it says     *)
(* what the session, the device and the binding are at each statement, so  *)
(* that the end of each one meets what the next operation begins with.     *)
(* DialInv is that of the dialers, which read the binder without the mutex.*)
(***************************************************************************)
EXTENDS TunHost, TLAPS

\* The part of the type invariant that only the operations and NetworkManager change.
HostTypes ==
    /\ op \in {"none", "open", "close"}
    /\ at \in {"none", "bus", "attach", "wait", "closeFd", "deactivate", "release", "unpublish", "released"}
    /\ preparedHere \in BOOLEAN /\ late \in BOOLEAN /\ session \in BOOLEAN
    /\ fd \in BOOLEAN /\ promised \in BOOLEAN
    /\ nm \in {"none", "requested", "device", "routes", "activated", "failed"}
    /\ registerErr \in {"unset", "nil", "error"}
    /\ binder \in 0..used /\ used \in 0..MaxBinders
    /\ enabled \in [Binders -> BOOLEAN]
    /\ op = "none" <=> at = "none"

Sockets == [at : {"idle", "current", "bind", "connect", "connected"}, ptr : 0..used,
            via : Routes, covered : BOOLEAN, age : 0..MaxTime, entered : BOOLEAN]

\* The part that the dialers, the clock and the routing table change.
DialTypes ==
    /\ cached \in [Binders -> Routes]
    /\ refreshed \in [Binders -> 0..now]
    /\ now \in 1..MaxTime /\ route \in Routes /\ lastSeen \in [Routes -> 0..now]
    /\ dial \in [Dialers -> Sockets]

\* The type invariant is these two parts.
LEMMA TypesSplit == TunTypeOK <=> HostTypes /\ DialTypes
  BY DEF TunTypeOK, HostTypes, DialTypes, Sockets

\* The initial state satisfies both invariants.
LEMMA InvInit == TunInit => HostInv /\ DialInv
  <1> SUFFICES ASSUME TunInit PROVE HostInv /\ DialInv
    OBVIOUS
  <1>1. HostTypes /\ NothingLeftBehind /\ Progress /\ Bindings
    <2>1. enabled \in [Binders -> BOOLEAN]
      BY DEF TunInit
    <2>2. used \in 0..MaxBinders /\ binder \in 0..used
      BY TunAssumption DEF TunInit
    <2> QED BY <2>1, <2>2 DEF TunInit, HostTypes, NothingLeftBehind, Progress, Bindings
  <1>2. DialTypes
    <2>1. NoSocket \in Sockets
      BY TunAssumption DEF TunInit, Routes, NoSocket, Sockets
    <2>2. /\ cached \in [Binders -> Routes] /\ refreshed \in [Binders -> 0..now]
          /\ now \in 1..MaxTime /\ route \in Routes /\ lastSeen \in [Routes -> 0..now]
      BY TunAssumption DEF TunInit, Routes
    <2> QED BY <2>1, <2>2 DEF TunInit, DialTypes
  <1>3. DialInv
    BY TunAssumption DEF TunInit, DialInv, CacheIsOfRoute, DialerHasBinder, RecentInterface, Binders, NoSocket
  <1> QED BY <1>1, <1>2, <1>3, TypesSplit DEF HostInv

\* prepareLocked: the binder it keeps or makes is enabled, no other binder is touched, and it says
\* that it made one only when there was none.
LEMMA PrepareEffect ==
  ASSUME HostTypes, NEW here \in BOOLEAN, NEW ok \in BOOLEAN, prepareLocked(here, ok),
         binder # 0 => enabled[binder]
  PROVE  /\ registerErr' \in {"unset", "nil", "error"}
         /\ used' \in 0..MaxBinders /\ binder' \in 0..used' /\ used =< used'
         /\ enabled' \in [Binders -> BOOLEAN]
         /\ binder' # 0 => enabled'[binder']
         /\ ok => binder' # 0
         /\ here => binder = 0
         /\ binder # 0 => binder' = binder
  <1>1. CASE binder # 0
    BY <1>1 DEF HostTypes, prepareLocked, binderVars
  <1>2. CASE binder = 0
    <2>1. /\ used < MaxBinders /\ used' = used + 1
          /\ registerErr' \in (IF registerErr = "unset" THEN {"nil", "error"} ELSE {registerErr})
          /\ here = (registerErr' = "nil") /\ ok = here
          /\ enabled' = [enabled EXCEPT ![used'] = TRUE]
          /\ binder' = IF ok THEN used' ELSE 0
      BY <1>2 DEF prepareLocked
    <2>2. registerErr' \in {"unset", "nil", "error"}
      BY <2>1 DEF HostTypes
    <2>3. used' \in Binders /\ used' \in 0..MaxBinders
      BY <2>1, TunAssumption DEF HostTypes, Binders
    <2>4. enabled' \in [Binders -> BOOLEAN] /\ enabled'[used']
      BY <2>1, <2>3 DEF HostTypes
    <2> QED BY <1>2, <2>1, <2>2, <2>3, <2>4 DEF HostTypes, Binders
  <1> QED BY <1>1, <1>2

\* What the operations under the mutex keep, one step per statement.
LEMMA HostNext ==
  ASSUME HostTypes, NothingLeftBehind, Progress, Bindings, [TunNext]_tunVars
  PROVE  HostTypes' /\ NothingLeftBehind' /\ Progress' /\ Bindings'
  <1> USE TunAssumption DEF HostTypes, NothingLeftBehind, Progress, Bindings, hostVars, binderVars
  <1>1. CASE Prepare
    <2>1. PICK here \in BOOLEAN, ok \in BOOLEAN :
             prepareLocked(here, ok) /\ promised' = (promised \/ ok)
      BY <1>1 DEF Prepare
    <2>2. UNCHANGED <<op, at, preparedHere, late, session, fd, nm>> /\ op = "none"
      BY <1>1 DEF Prepare
    <2> QED BY <2>1, <2>2, PrepareEffect
  <1>2. CASE OpenEnter
    <2>1. PICK here \in BOOLEAN, ok \in BOOLEAN :
             /\ prepareLocked(here, ok) /\ preparedHere' = here
             /\ IF ok THEN op' = "open" /\ at' = "bus" ELSE UNCHANGED <<op, at>>
      BY <1>2 DEF OpenEnter
    <2>2. /\ UNCHANGED <<session, fd, nm, promised>> /\ op = "none"
          /\ late' = FALSE /\ ~session
      BY <1>2 DEF OpenEnter
    <2> QED BY <2>1, <2>2, PrepareEffect
  <1>3. CASE CloseEnter
    BY <1>3 DEF CloseEnter
  <1>4. CASE Disable
    <2>1. CASE binder = 0
      BY <1>4, <2>1 DEF Disable
    <2>2. CASE binder # 0
      <3>1. enabled' = [enabled EXCEPT ![binder] = FALSE] /\ at = "release" /\ at' = "unpublish"
        BY <1>4, <2>2 DEF Disable
      <3>2. enabled' \in [Binders -> BOOLEAN]
        BY <3>1
      <3> HIDE DEF HostTypes
      <3>3. UNCHANGED <<op, preparedHere, late, session, fd, nm, promised, registerErr, binder, used>>
        BY <1>4 DEF Disable
      <3>4. HostTypes'
        BY <3>1, <3>2, <3>3 DEF HostTypes
      <3> QED BY <3>1, <3>3, <3>4
    <2> QED BY <2>1, <2>2
  <1>5. CASE Unpublish
    BY <1>5 DEF Unpublish
  <1>6. CASE AddAndActivate
    BY <1>6 DEF AddAndActivate, UndoOpen
  <1>7. CASE Attach
    BY <1>7 DEF Attach
  <1>8. CASE WaitActivated
    <2>1. /\ op = "open" /\ at = "wait"
          /\ UNCHANGED <<preparedHere, late, fd, nm, registerErr, binder, used, enabled>>
      BY <1>8 DEF WaitActivated
    <2>2. CASE /\ ~late /\ nm = "activated" /\ session' = TRUE /\ promised' = TRUE
               /\ op' = "none" /\ at' = "none"
      BY <2>1, <2>2
    <2>3. CASE at' = "closeFd" /\ UNCHANGED <<session, promised, op>>
      BY <2>1, <2>3
    <2> QED BY <1>8, <2>2, <2>3 DEF WaitActivated
  <1>9. CASE DeadlinePasses
    BY <1>9 DEF DeadlinePasses
  <1>10. CASE Released
    BY <1>10 DEF Released
  <1>11. CASE CloseFd
    BY <1>11 DEF CloseFd
  <1>12. CASE Deactivate
    BY <1>12 DEF Deactivate, UndoOpen
  <1>13. CASE NetworkManagerStep
    BY <1>13 DEF NetworkManagerStep
  <1>14. ASSUME UNCHANGED <<hostVars, binderVars>> 
         PROVE HostTypes' /\ NothingLeftBehind' /\ Progress' /\ Bindings'
    BY <1>14
  <1>15. CASE \/ Tick \/ RouteChanges
              \/ \E d \in Dialers : Dial(d) \/ Current(d) \/ Bind(d) \/ Connect(d)
              \/ UNCHANGED tunVars
    <2>1. UNCHANGED <<hostVars, binderVars>>
      BY <1>15 DEF Tick, RouteChanges, Dial, Current, Bind, Connect, tunVars
    <2> QED BY <2>1, <1>14
  <1> QED BY <1>1, <1>2, <1>3, <1>4, <1>5, <1>6, <1>7, <1>8, <1>9, <1>10, <1>11, <1>12, <1>13,
             <1>15 DEF TunNext, Host

\* One socket changes to a value that is well typed, has its binder if it asks for one and is not bound to
\* an interface that is too old; the caches stay.
LEMMA OneSocket ==
  ASSUME DialTypes, DialInv, NEW d \in Dialers, NEW s \in Sockets,
         dial' = [dial EXCEPT ![d] = s],
         s.at = "current" => s.ptr # 0, s.at = "bind" => s.age < TTL,
         UNCHANGED <<now, route, lastSeen, used, cached, refreshed>>
  PROVE  DialTypes' /\ DialInv'
  <1>1. Sockets' = Sockets
    BY DEF Sockets
  <1>2. dial' \in [Dialers -> Sockets]
    BY DEF DialTypes
  <1>3. DialTypes'
    BY <1>1, <1>2 DEF DialTypes
  <1>4. CacheIsOfRoute'
    BY DEF DialInv, CacheIsOfRoute
  <1>5. ASSUME NEW e \in Dialers
        PROVE  dial'[e].at = "current" => dial'[e].ptr # 0
    BY DEF DialInv, DialerHasBinder, DialTypes
  <1>6. ASSUME NEW e \in Dialers
        PROVE  dial'[e].at = "bind" => dial'[e].age < TTL
    BY DEF DialInv, RecentInterface, DialTypes
  <1> QED BY <1>3, <1>4, <1>5, <1>6 DEF DialInv, DialerHasBinder, RecentInterface

\* A lookup stores the present interface with the present time; otherwise the interface of the cache is at
\* most as old as the cache.  In both cases the socket is bound to an interface less than TTL old.
LEMMA LookUp ==
  ASSUME DialTypes, DialInv, NEW d \in Dialers, NEW b \in Binders, NEW iface,
         iface = IF Expired(b) THEN route ELSE cached[b],
         dial' = [dial EXCEPT ![d].at = IF iface = "none" THEN "connect" ELSE "bind",
                              ![d].via = iface,
                              ![d].age = IF iface = route THEN 0 ELSE now - lastSeen[iface]],
         cached' = [cached EXCEPT ![b] = iface],
         refreshed' = [refreshed EXCEPT ![b] = IF Expired(b) THEN now ELSE @],
         UNCHANGED <<now, route, lastSeen, used>>
  PROVE  DialTypes' /\ DialInv'
  <1> DEFINE age == IF iface = route THEN 0 ELSE now - lastSeen[iface]
             s == [dial[d] EXCEPT !.at = IF iface = "none" THEN "connect" ELSE "bind",
                                  !.via = iface, !.age = age]
  <1>1. iface \in Routes /\ now \in 1..MaxTime /\ lastSeen[iface] \in 0..now /\ refreshed[b] \in 0..now
    BY DEF DialTypes
  <1>2. age \in 0..MaxTime /\ age < TTL
    <2>1. CASE iface = route
      BY <2>1, TunAssumption
    <2>2. CASE iface # route
      <3>1. ~Expired(b) /\ iface = cached[b]
        BY <2>2
      <3>2. refreshed[b] # 0 /\ now - refreshed[b] < TTL
        BY <3>1, <1>1, TunAssumption DEF Expired
      <3>3. lastSeen[iface] >= refreshed[b]
        BY <2>2, <3>1, <3>2 DEF DialInv, CacheIsOfRoute
      <3> QED BY <2>2, <1>1, <3>2, <3>3, TunAssumption
    <2> QED BY <2>1, <2>2
  <1>3. s \in Sockets /\ dial' = [dial EXCEPT ![d] = s]
    <2>1. dial[d] \in Sockets
      BY DEF DialTypes
    <2> QED BY <1>1, <1>2, <2>1 DEF DialTypes, Sockets
  <1>4. Sockets' = Sockets
    BY DEF Sockets
  <1>5. DialTypes'
    <2>1. dial' \in [Dialers -> Sockets]
      BY <1>3 DEF DialTypes
    <2>2. cached' \in [Binders -> Routes] /\ refreshed' \in [Binders -> 0..now]
      BY <1>1 DEF DialTypes
    <2> QED BY <1>4, <2>1, <2>2 DEF DialTypes
  <1>6. ASSUME NEW c \in Binders, refreshed'[c] # 0
        PROVE  cached'[c] = route \/ lastSeen[cached'[c]] >= refreshed'[c]
    <2>1. CASE c = b /\ Expired(b)
      BY <2>1 DEF DialTypes
    <2>2. CASE ~(c = b /\ Expired(b))
      <3>1. cached'[c] = cached[c] /\ refreshed'[c] = refreshed[c]
        BY <2>2 DEF DialTypes
      <3> QED BY <3>1, <1>6 DEF DialInv, CacheIsOfRoute
    <2> QED BY <2>1, <2>2
  <1>7. ASSUME NEW e \in Dialers
        PROVE  /\ dial'[e].at = "current" => dial'[e].ptr # 0
               /\ dial'[e].at = "bind" => dial'[e].age < TTL
    <2>1. CASE e = d
      <3>1. dial'[d].age = age /\ dial'[d].at # "current"
        BY DEF DialTypes, Sockets
      <3> QED BY <2>1, <3>1, <1>2
    <2>2. CASE e # d
      BY <2>2 DEF DialTypes, DialInv, DialerHasBinder, RecentInterface
    <2> QED BY <2>1, <2>2
  <1> QED BY <1>5, <1>6, <1>7 DEF DialInv, CacheIsOfRoute, DialerHasBinder, RecentInterface

\* What the dialers, the clock and the routing table keep.
LEMMA DialNext ==
  ASSUME HostTypes, DialTypes, DialInv, [TunNext]_tunVars
  PROVE  DialTypes' /\ DialInv'
  <1> USE TunAssumption
  <1>n. used \in 0..MaxBinders /\ binder \in 0..used
    BY DEF HostTypes
  <1>1. CASE Tick
    <2>1. /\ now' = now + 1 /\ now < MaxTime
          /\ UNCHANGED <<cached, refreshed, route, lastSeen, dial, used>>
      BY <1>1 DEF Tick, binderVars, cacheVars
    <2>2. /\ refreshed' \in [Binders -> 0..now'] /\ lastSeen' \in [Routes -> 0..now']
          /\ now' \in 1..MaxTime
      BY <2>1 DEF DialTypes
    <2> QED BY <2>1, <2>2
         DEF DialTypes, DialInv, CacheIsOfRoute, DialerHasBinder, RecentInterface, Sockets
  <1>2. CASE RouteChanges
    <2>1. /\ route' \in Routes /\ lastSeen' = [lastSeen EXCEPT ![route] = now]
          /\ UNCHANGED <<cached, refreshed, now, dial, used>>
      BY <1>2 DEF RouteChanges, Routes, binderVars, cacheVars
    <2>2. lastSeen' \in [Routes -> 0..now']
      BY <2>1 DEF DialTypes
    <2>3. ASSUME NEW b \in Binders, refreshed[b] # 0
          PROVE  cached[b] = route' \/ lastSeen'[cached[b]] >= refreshed[b]
      <3>1. cached[b] \in Routes /\ refreshed[b] \in 0..now /\ now \in 1..MaxTime
        BY DEF DialTypes
      <3> QED BY <2>1, <2>3, <3>1 DEF DialTypes, DialInv, CacheIsOfRoute
    <2> QED BY <2>1, <2>2, <2>3
         DEF DialTypes, DialInv, CacheIsOfRoute, DialerHasBinder, RecentInterface, Sockets
  <1>3. ASSUME NEW d \in Dialers, Dial(d) PROVE DialTypes' /\ DialInv'
    <2> DEFINE s == [NoSocket EXCEPT !.at = IF binder = 0 THEN "connect" ELSE "current",
                                     !.ptr = binder, !.covered = promised]
    <2>1. /\ UNCHANGED <<cached, refreshed, now, route, lastSeen, used>>
          /\ dial' = [dial EXCEPT ![d] = s]
      BY <1>3 DEF Dial, worldVars, cacheVars, binderVars
    <2>2. promised \in BOOLEAN
      BY DEF HostTypes
    <2>3. binder \in 0..used /\ "none" \in Routes /\ 0 \in 0..MaxTime
      BY <1>n DEF Routes
    <2>4. NoSocket \in Sockets /\ NoSocket.at = "idle"
      BY <2>3, <1>n DEF NoSocket, Sockets
    <2>5. s \in Sockets
      BY <2>2, <2>3, <2>4 DEF Sockets
    <2>6. (s.at = "current" => s.ptr # 0) /\ s.at # "bind"
      BY <2>4 DEF Sockets
    <2> HIDE DEF s
    <2> QED BY <2>1, <2>5, <2>6, OneSocket
  <1>4. ASSUME NEW d \in Dialers, Current(d) PROVE DialTypes' /\ DialInv'
    <2> DEFINE b == dial[d].ptr
    <2>1. UNCHANGED <<now, route, lastSeen, used>> /\ dial[d].at = "current"
      BY <1>4 DEF Current, worldVars, binderVars
    <2>2. b \in Binders /\ dial[d] \in Sockets
      BY <2>1, <1>n DEF DialInv, DialerHasBinder, DialTypes, Sockets, Binders
    <2>3. CASE ~enabled[b]
      <3>1. dial' = [dial EXCEPT ![d].at = "connect"] /\ UNCHANGED cacheVars
        BY <1>4, <2>3 DEF Current
      <3> DEFINE s == [dial[d] EXCEPT !.at = "connect"]
      <3>2. s \in Sockets /\ s.at = "connect" /\ dial' = [dial EXCEPT ![d] = s]
        BY <2>2, <3>1 DEF Sockets
      <3> HIDE DEF s
      <3> QED BY <2>1, <3>1, <3>2, OneSocket DEF cacheVars
    <2>4. CASE enabled[b]
      <3> DEFINE iface == IF Expired(b) THEN route ELSE cached[b]
      <3>1. /\ dial' = [dial EXCEPT ![d].at = IF iface = "none" THEN "connect" ELSE "bind",
                                    ![d].via = iface,
                                    ![d].age = IF iface = route THEN 0 ELSE now - lastSeen[iface]]
            /\ cached' = [cached EXCEPT ![b] = iface]
            /\ refreshed' = [refreshed EXCEPT ![b] = IF Expired(b) THEN now ELSE @]
        BY <1>4, <2>4 DEF Current
      <3> QED BY <2>1, <2>2, <3>1, LookUp
    <2> QED BY <2>3, <2>4
  <1>5. ASSUME NEW d \in Dialers, Bind(d) \/ Connect(d) PROVE DialTypes' /\ DialInv'
    <2>1. UNCHANGED <<cached, refreshed, now, route, lastSeen, used>> /\ dial[d] \in Sockets
      BY <1>5 DEF Bind, Connect, worldVars, cacheVars, binderVars, DialTypes
    <2>2. PICK s \in Sockets : /\ dial' = [dial EXCEPT ![d] = s]
                               /\ s.at \in {"connect", "connected"}
      <3>1. CASE Bind(d)
        <4>1. PICK ok \in BOOLEAN :
                 dial' = [dial EXCEPT ![d].at = "connect",
                                      ![d].via = IF ok THEN @ ELSE "none", ![d].age = 0]
          BY <3>1 DEF Bind
        <4>2. PICK v \in Routes :
                 dial' = [dial EXCEPT ![d].at = "connect", ![d].via = v, ![d].age = 0]
          BY <2>1, <4>1 DEF Sockets, Routes
        <4> DEFINE s == [dial[d] EXCEPT !.at = "connect", !.via = v, !.age = 0]
        <4>3. 0 \in 0..MaxTime
          OBVIOUS
        <4>4. s \in Sockets
          BY <2>1, <4>3 DEF Sockets
        <4>5. s.at = "connect"
          BY <2>1 DEF Sockets
        <4> QED BY <4>2, <4>4, <4>5
      <3>2. CASE Connect(d)
        <4> DEFINE s == [dial[d] EXCEPT !.at = "connected",
                                        !.entered = (@ \/ (dial[d].via = "none" /\ RoutesUp))]
        <4>1. s \in Sockets /\ s.at = "connected" /\ dial' = [dial EXCEPT ![d] = s]
          BY <2>1, <3>2 DEF Connect, Sockets
        <4> QED BY <4>1
      <3> QED BY <1>5, <3>1, <3>2
    <2> QED BY <2>1, <2>2, OneSocket
  <1>6. CASE Prepare \/ OpenEnter
    <2>1. UNCHANGED <<cached, refreshed, now, route, lastSeen, dial>> /\ used =< used'
      BY <1>6, <1>n DEF Prepare, OpenEnter, prepareLocked, worldVars, cacheVars, binderVars
    <2>2. used' \in Nat
      BY <1>6, <1>n DEF Prepare, OpenEnter, prepareLocked, binderVars
    <2>3. dial' \in [Dialers -> Sockets']
      BY <2>1, <2>2, <1>n DEF Sockets, DialTypes
    <2> QED BY <2>1, <2>3 DEF DialTypes, DialInv, CacheIsOfRoute, DialerHasBinder, RecentInterface
  <1>7. CASE \/ CloseEnter \/ Host \/ NetworkManagerStep \/ UNCHANGED tunVars
    <2>1. UNCHANGED <<cached, refreshed, now, route, lastSeen, dial, used>>
      BY <1>7 DEF CloseEnter, Host, Disable, Unpublish, AddAndActivate, Attach, WaitActivated,
           DeadlinePasses, Released, CloseFd, Deactivate, NetworkManagerStep, tunVars, worldVars,
           cacheVars, binderVars
    <2> QED BY <2>1
         DEF DialTypes, DialInv, CacheIsOfRoute, DialerHasBinder, RecentInterface, Sockets
  <1> QED BY <1>1, <1>2, <1>3, <1>4, <1>5, <1>6, <1>7 DEF TunNext

\* The two invariants hold in every reachable state.
THEOREM TunInvariant == TunSpec => [](HostInv /\ DialInv)
  <1>1. HostInv /\ DialInv /\ [TunNext]_tunVars => HostInv' /\ DialInv'
    <2>1. (HostTypes /\ DialTypes => TunTypeOK)'
      BY TypesSplit, PTL
    <2> QED BY <2>1, HostNext, DialNext, TypesSplit DEF HostInv
  <1> QED BY InvInit, <1>1, PTL DEF TunSpec

\* No failure of Open and no Close leaves an interface, its routes or a descriptor behind, in the error
\* paths of nmtun.Open and tunhost.Open.
THEOREM NothingIsLeftBehind == TunSpec => []TunInv
  <1>1. HostInv => TunInv
    BY DEF HostInv, TunInv
  <1> QED BY TunInvariant, <1>1, PTL

\* While the routes of the tunnel exist and no Close is under way, the binding is published and enabled.
THEOREM RoutesAreBound == TunSpec => []BindingBeforeRoutes
  <1>1. HostInv => BindingBeforeRoutes
    BY DEF HostInv, TunTypeOK, NothingLeftBehind, Progress, Bindings, BindingBeforeRoutes, RoutesUp
  <1> QED BY TunInvariant, <1>1, PTL

\* A failed Open takes away no binding that Prepare, or an earlier Open, had promised.
THEOREM PromiseIsKept == TunSpec => []BindingKept
  <1>1. HostInv => BindingKept
    BY DEF HostInv, TunTypeOK, Progress, Bindings, BindingKept
  <1> QED BY TunInvariant, <1>1, PTL

\* However the default route moves and whatever the cache holds, a socket is bound to an interface that
\* had the route less than TTL ago.
THEOREM InterfaceIsRecent == TunSpec => []RecentInterface
  <1>1. DialInv => RecentInterface
    BY DEF DialInv
  <1> QED BY TunInvariant, <1>1, PTL

=============================================================================
