CONSTANTS
  MaxRounds = 2
  ChannelSize = 2
  MaxItems = 2
  MaxParallel = 2
  Tables <- BellTimes
  Slots <- AskedSlots
  NoTable = NoTable
  NoSlot = NoSlot
SPECIFICATION AssistantSpec
INVARIANTS EndsInDoneOrError
CHECK_DEADLOCK FALSE
