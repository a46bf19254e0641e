SPECIFICATION FairSelectSpec
CONSTANTS
  MaxCandidates = 4
  Latencies = {100, 400, 600}
  FastEnough = 350
CHECK_DEADLOCK FALSE
INVARIANTS
  SelectInv
PROPERTIES
  CallReturns
  NoProbeLeft
