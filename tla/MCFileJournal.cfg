SPECIFICATION OutlivingSpec
CONSTANTS
  Setup <- MCSetup
  DayTicks = 2
  MaxTime = 3
  Policies = {TRUE, FALSE}
  Interval = 2
  Times = {1, 2}
  MaxRecords = 4
  MaxClock = 3
  MaxRestarts = 2
INVARIANTS ChainIntact AckedDurable EntriesAccountedFor
CHECK_DEADLOCK FALSE
