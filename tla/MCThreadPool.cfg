SPECIFICATION MCLeaveSpec
CONSTANTS
  q1 = q1
  q2 = q2
  f1 = f1
  f2 = f2
  Client = Client
  None = None
  NumWorkers = 1
  MaxLogins = 1
  MaxTasks = 2
  Queueable <- MCQueueable
  Forcible <- MCForcible
  Queuers <- MCQueuers
  Tools <- MCNoTools
INVARIANTS
  TypeOK
  ToldIsOver
  NothingSurvives
  NobodySleepsOnWork
PROPERTIES
  QueueSpec
  EverythingIsServed
  CallsReturn
CHECK_DEADLOCK FALSE
