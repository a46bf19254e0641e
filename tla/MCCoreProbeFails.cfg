SPECIFICATION CoreSpec
CONSTANTS
  Controllers = {c1}
  Probes = {p1}
  Insts = {i1, i2, i3, i4, i5}
  Fds = {f1}
  NoInst = NoInst
  NoFd = NoFd
  SteadyPercent = 50
  ProbeNewMayFail = TRUE
SYMMETRY InstSymmetry
INVARIANTS
  LogHandlerRestored
