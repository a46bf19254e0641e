SPECIFICATION FairBridgeSpec
CONSTANTS
  Controllers <- MCControllers
  Probes = {}
  Insts = {i1, i2}
  Fds = {}
  NoInst = NoInst
  NoFd = NoFd
  SteadyPercent = 50
  ProbeNewMayFail = FALSE
  Runtimes = {r1, r2}
  NoRuntime = NoRuntime
  MaxHandle = 1
  Threads = {t1, t2}
  NoThread = NoThread
  Dirs = {d1, d2}
  NoDir = NoDir
  NoSession = NoSession
INVARIANTS
  OneSession
PROPERTIES
  ImplementsLease
  StopReturns
