SPECIFICATION FairAwgSpec
CONSTANTS
  MaxRunners = 2
  Conns = {k1}
  Sources = {"a", "b"}
  Families = {"ipv4", "ipv6"}
INVARIANTS
  AwgInv
  OneClient
  TunnelSocketsClosed
PROPERTIES
  StopEndsServing
