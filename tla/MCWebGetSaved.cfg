SPECIFICATION Spec
CONSTANTS
  u1 = u1
  u2 = u2
  NoUrl = NoUrl
  NoId = NoId
  None = None
  Ids <- MCIds
  Urls <- MCUrls
  FirstUrls <- MCFirst
  CdnUrls <- MCNoCdn
  NumBlocks = 1
  NumWorkers = 2
  MaxAttempts = 1
  MaxCorrupt = 0
  MaxFaults = 0
  MaxPauses = 0
  MayStop = FALSE
INVARIANT
  CompleteMeansSaved
CHECK_DEADLOCK FALSE
