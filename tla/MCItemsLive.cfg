CONSTANTS
  Items <- MCItems
  Slots <- MCSlots
  MaxIndex = 5
  MaxPresses = 0
  ByHand <- MCFirst
  MaxVerifies = 1
SPECIFICATION MCLiveSpec
PROPERTIES
  TurnComes
  LineMoves
CHECK_DEADLOCK FALSE
