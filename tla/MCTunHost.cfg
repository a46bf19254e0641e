SPECIFICATION FairTunSpec
CONSTANTS
    Ifaces = {"eth0"}
    Dialers = {d1}
    MaxBinders = 2
    MaxTime = 3
    TTL = 2
    BindMayFail = TRUE
    RouteMayVanish = TRUE
INVARIANTS
    TunInv
    BindingBeforeRoutes
    BindingKept
    RecentInterface
PROPERTIES
    MutexComesBack
