SPECIFICATION RulesSpec
CONSTANTS
  Ids = {"a", "b"}
  Settings <- MCSettings
  Traders <- MCTraders
  StartEquity = 3
  MaxLoss = 1
  DayLength = 2
  MaxTime = 5
  MaxCommands = 4
  Plans <- MCPlans
  StartBalance <- PlanStart
  Moves <- MCMoves
  Costs <- MCCosts
  MaxOpen = 2
  MaxCash = 2
  MaxFills = 1
  MaxDate = 2
  MaxNet = 1
  MaxPayouts = 1
  MaxAttempts = 2
  Contracts = {"etf", "far", "am"}
  Terms <- MCTerms
  Markets <- MCMarkets
  DayPrices = {1, 2}
  ExDates = {1, 2}
  MaxEvents = 2
  MaxTrades = 1
  MaxRestarts = 1
  OrderRequests <- TraderRequests
  Accounts <- OrderTraders
  StartPrice = 10
  MaxOrders = 6
INVARIANTS LatchMatchesGuardrail OpeningsStop CapitalIsNotProfit CrossedNeverPasses PairFillsOnce ChainPlacedOnce NoTriggerMissed DaysEndSettled
PROPERTIES DisciplineHolds FloorStands SettlesAsPromised StaysProtected
CHECK_DEADLOCK FALSE
