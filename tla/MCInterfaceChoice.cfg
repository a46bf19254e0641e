SPECIFICATION ChoiceSpec
CONSTANTS
  Systems = {"linux", "darwin", "windows"}
  Names <- MCNames
  NoName = NoName
  TunnelNames = {"skipi", "utun"}
  UtunNames = {"utun"}
  Folded <- MCFolded
  Modulus <- MCModulus
  RouteTables <- MCRouteTables
  NetstatTables <- MCNetstatTables
  AdapterLists <- MCAdapterLists
  ForwardTables <- MCForwardTables
  SameName = TRUE
INVARIANTS
  BestChosen
  TunnelNotChosen
