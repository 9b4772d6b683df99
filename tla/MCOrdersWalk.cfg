SPECIFICATION OrdersSpec
CONSTANTS
  OrderRequests <- WalkerRequests
  Accounts <- Walkers
  StartPrice = 10
  MaxOrders = 6
INVARIANTS ChainPlacedOnce
CHECK_DEADLOCK FALSE
