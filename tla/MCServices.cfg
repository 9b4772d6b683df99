SPECIFICATION ServicesSpec
CONSTANTS
  NameIds = 2
  DeskCrashes = 2
  DeskFails = 1
  SandboxIds = {1, 2, 3}
  Clients = {"c", "d"}
  Capacity = 2
  PerClient = 1
  Global = 2
  Orders = 1
  Window = 2
  OrderWindow = 1
  IdleAfter = 2
  MaxTime = 4
  DayTicks = 4
  HaltTicks = 2
  Falls = {0, 1, 3}
  MaxMarket = 4
  MaxBreaks = 2
  Underlyings = {"u"}
  Contracts = {"priced", "unpriced"}
  ContractsOf <- MCContractsOf
  BackupPrices = {"priced"}
  FailAfter = 1
  QuietFor = 1
  MaxClock = 3
  Channels = {"mail"}
  Traders = {"a"}
  NoteCapacity = 2
  MaxAttempts = 2
  Runs = {1, 2}
  MaxLength = 2
  HostCrashes = 2
  Times = {2, 4}
  Targets = {1, 2, 3, 4}
  Prepares = {0, 1}
  MaxControls = 3
  MaxRuns = 3
  Keep = 1
  MaxStops = 1
  MaxFailures = 1
  MaxLate = 0
  Overtakes = FALSE
  Quantities <- MCQuantities
  Prices = {0, 1, 2}
  Fees = {0, 1}
  Amounts = {1}
  Ratios <- MCRatios
  Multiplier = 1
  MaxEntries = 3
  ShareAccounts <- MCShareAccounts
  ShareTrades <- MCShareTrades
  Delivered <- MCDelivered
  SharePrices = {1, 2, 3}
  Splits <- MCSplits
  Regular = {0, 2}
  Extended = {0, 1, 2}
  MaxAge = 0
  ShareTime = 2
  ShareOrders = 2
INVARIANTS AnswersOutliveRestarts NoSandboxOrphaned HaltsSurviveRestart RoutesAccountedFor QueueKept InterruptedCanResume StepsExactly PauseIsStill BooksSound StopsCover SharePairsFillOnce RequirementIsLeast FallbackIsLegal SavedRunsStand
CHECK_DEADLOCK FALSE
