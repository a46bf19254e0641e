SPECIFICATION ConfigSpec
CONSTANTS
  Configs <- MCConfigs
  Answers <- MCAnswers
  IPv4 = {"4a", "4b", "40"}
  IPv6 = {"6a", "6b", "60"}
  Zeros = {"40", "60"}
  Second = 2
  HeaderMax = 100000
INVARIANTS
  DeviceConfigSafe
  EndpointIsBest
  FairChance
  LookupInTime
