SPECIFICATION Spec
CONSTANTS
  Loops = {TRUE, FALSE}
  CommandCapacity = 1
  MaxEvents <- EventsPerLoop
  MaxBatches = 1
  MaxCommands = 2
  MaxSyncs = 2
INVARIANTS AnsweredInOrder BarriersCover
PROPERTIES WaitsEnd
CHECK_DEADLOCK FALSE
