SPECIFICATION Spec
CONSTANTS
  Plans <- MCStartPlans
  Start = 8
  Moves <- MCMoves
  Costs <- MCCosts
  MaxOpen = 4
  MaxCash = 4
  MaxFills = 2
  MaxDate = 2
  MaxNet = 1
  MaxPayouts = 1
  MaxAttempts = 1
CHECK_DEADLOCK FALSE
INVARIANTS StartingBalanceLocks
