CONSTANTS
  Items <- MCThree
  Slots <- MCSlots
  MaxIndex = 5
  MaxPresses = 1
  ByHand <- MCFirst
  MaxVerifies = 1
SPECIFICATION MCSpec
INVARIANTS
  TypeOK
  OneAtATime
  OneMovesTheIndex
  ThreadsOwned
CHECK_DEADLOCK FALSE
