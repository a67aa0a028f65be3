SPECIFICATION MCCrcSpec
CONSTANTS
  u1 = u1
  u2 = u2
  NoUrl = NoUrl
  NoId = NoId
  None = None
  Ids <- MCIds
  Urls <- MCUrls
  FirstUrls <- MCFirst
  CdnUrls <- MCNoCdn
  NumBlocks = 3
  NumWorkers = 2
  MaxAttempts = 0
  MaxCorrupt = 1
  MaxFaults = 0
  MaxPauses = 0
  MayStop = FALSE
INVARIANTS
  BlockInOnePlace
  WorkAccounted
  PopFrontSafe
  OneWorkerPerServer
  RunningAccounted
  CountedOutIsIdle
PROPERTY
  DownloadSpec
CHECK_DEADLOCK FALSE
