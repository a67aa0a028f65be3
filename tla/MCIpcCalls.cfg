SPECIFICATION FairSpec
CONSTANTS
  t1 = t1
  t2 = t2
  Threads <- MCThreads
  Tasks <- MCTasks
  MaxClasses = 2
  MaxCalls = 2
  MaxEvents = 1
  MaxBreaks = 1
INVARIANTS
  TypeOK
  AnswerIsMine
  KilledOnce
  ServiceThreadsLive
  AnswerFindsClass
  EventsFlushed
  ClassesAgree
PROPERTIES
  DestroyEnds
  DestroyDeletesBoth
CHECK_DEADLOCK FALSE
