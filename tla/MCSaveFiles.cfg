SPECIFICATION FairSpec
CONSTANTS
  f1 = f1
  f2 = f2
  NoFile = NoFile
  Files <- MCFiles
  Sizes <- MCSizes
  NumWorkers = 2
  MaxBuffers = 1
  MaxErrors = 2
  MayStop = TRUE
INVARIANTS
  TypeOK
  VerdictFits
  NoFileForgotten
PROPERTY
  Ends
CHECK_DEADLOCK FALSE
