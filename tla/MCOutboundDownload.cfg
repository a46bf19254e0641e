SPECIFICATION FairDownloadSpec
CONSTANTS
  Calls = {k1, k2}
  NoCall = NoCall
  Ids = {a, b}
  NoId = NoId
  Cancellers = {t1}
  ByteLimit = 2
  DistinctIds = TRUE
INVARIANTS
  DownloadInv
  CancelStopsRunning
PROPERTIES
  CallsReturn
