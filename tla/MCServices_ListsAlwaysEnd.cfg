SPECIFICATION ServicesSpec
CONSTANTS
  Key <- Keys
  Value <- SomeValues
  MemorySize = 18
  Chunk = 4
  Erased = {255}
  MaxCrashes = 1
  OneBlock <- OneBlockCommands
  TwoBlocks <- TwoBlocksCommands
  Slot <- Slots
  Op <- Operations
  Id = {1, 2}
  Requests <- Commands
  Known = {"x", "y"}
  TypeLength <- Length
  MaxLength = 2
  WorkerQueueLength = 2
  TimerQueueLength = 2
  Nil = Nil
INVARIANT ListsAlwaysEnd
