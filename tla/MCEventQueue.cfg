SPECIFICATION FairSpec
CONSTANTS
  Ids = {c1}
  Symbols = {s1}
  Kinds = {"quote"}
  Capacity = 2
  PreserveSpotPrints = FALSE
  Generations = 3
  Producers = 2
  MaxPublished = 4
INVARIANTS OnlyTradesAreLost NoLostWakeup
PROPERTIES ImplementsLatestQueue EventuallyDrained
CONSTANTS c1 = c1 s1 = s1
CHECK_DEADLOCK FALSE
