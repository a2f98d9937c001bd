CONSTANTS
  p1 = p1
  p2 = p2
  k1 = k1
  k2 = k2
  c1 = c1
  c2 = c2
  Providers <- MCTwoProviders
  Chain <- MCTwoChain
  Keys <- MCTwoKeys
  Clients <- MCClients
  Threshold = 1
  HalfOpenAfter = 2
  MaxBackoff = 3
  NetworkRetry = 1
  MaxFlights = 2
  LastTime = 3
  Limits = {2, 3}
  Reserve = 1
  Costs = {1, 2}
  Capacity = 1
  LastWindow = 1
  LastInstant = 3
  Crashes = 1
SPECIFICATION Spec
INVARIANTS   CircuitsSound RunningIsShared
PROPERTIES LockReleased ClientAnswered
CHECK_DEADLOCK FALSE
