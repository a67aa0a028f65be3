SPECIFICATION FairSpec
CONSTANTS
  q1 = q1
  q2 = q2
  f1 = f1
  f2 = f2
  Client = Client
  None = None
  NumWorkers = 1
  MaxLogins = 1
  MaxTasks = 2
  Queueable <- MCOneQueueable
  Forcible <- MCTools
  Queuers <- MCNoQueuers
  Tools <- MCTools
PROPERTIES
  PurgeReturns
CHECK_DEADLOCK FALSE
