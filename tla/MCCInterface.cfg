SPECIFICATION CSpec
CONSTANTS
  MaxPanics = 1
  Controllers <- MCControllers
  Probes = {}
  Insts = {i1, i2, i3}
  Fds = {f1}
  NoInst = NoInst
  NoFd = NoFd
  SteadyPercent = 50
  ProbeNewMayFail = FALSE
  Runtimes = {r1}
  NoRuntime = NoRuntime
  MaxHandle = 2
  Threads = {t1, t2}
  NoThread = NoThread
  Dirs = {d1}
  NoDir = NoDir
  NoSession = NoSession
SYMMETRY MCSymmetry
INVARIANTS
  OwnDescriptor
  SessionLogRemembered
  LeaseMatchesSession
  GcFollowsStarts
  LastErrorIsRecent
