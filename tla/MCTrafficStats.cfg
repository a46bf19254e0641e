SPECIFICATION StatsSpec
CONSTANTS
  Counters = {up, down}
  Outbound = {up}
  Others = {user}
  Callers = {k1, k2}
  NoCaller = NoCaller
  MaxTraffic = 3
SYMMETRY CallerSymmetry
INVARIANTS
  Conserved
PROPERTIES
  AnswersAreCurrent
  NobodySteals
