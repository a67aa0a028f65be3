SPECIFICATION MCLiveSpec
CONSTANTS
  u1 = u1
  u2 = u2
  NoUrl = NoUrl
  NoId = NoId
  None = None
  Ids <- MCIds
  Urls <- MCUrls
  FirstUrls <- MCFirstOne
  CdnUrls <- MCOneCdn
  NumBlocks = 1
  NumWorkers = 2
  MaxAttempts = 1
  MaxCorrupt = 1
  MaxFaults = 1
  MaxPauses = 1
  MayStop = TRUE
INVARIANTS
  TypeOK
PROPERTIES
  Termination
  StopStops
CHECK_DEADLOCK FALSE
