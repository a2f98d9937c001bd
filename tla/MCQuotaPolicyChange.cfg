CONSTANTS
  Limits = {2, 3}
  Reserve = 1
  Costs = {1, 2}
  Capacity = 1
  LastWindow = 1
  LastInstant = 4
  Crashes = 1
SPECIFICATION QuotaSpec
INVARIANT HardBudget
CHECK_DEADLOCK FALSE
