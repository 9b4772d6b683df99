SPECIFICATION Spec
CONSTANTS
  Clients = {"a", "a:then"}
  ChildOf <- MCChildOf
  Terms = {"plain", "other", "chain"}
  Chained = {"chain"}
  ChildTerms = "plain"
  CheckpointEvery = 3
  MaxTime = 1
  MaxOrders = 3
  MaxAttempts = 2
  MaxLines = 4
  MaxRestarts = 1
INVARIANTS RecoveryExact AnswersHold
CHECK_DEADLOCK FALSE
