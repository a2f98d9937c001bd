CONSTANTS
  b1 = b1
  b2 = b2
  Browsers <- MCTwoBrowsers
  Passwords <- MCTwoPasswords
  FirstPassword = "old"
  Files = {"catalog"}
  ScryptSlots = 2
  SessionLimit = 2
  IdleTime = 2
  Lifetime = 2
  RecentAge = 1
  LastTime = 2
  MaxSessions = 3
  MaxAccount = 2
  MaxRevision = 3
  Crashes = 1
SPECIFICATION Spec
SYMMETRY MCSymmetry
INVARIANTS SessionsKnowPassword 
PROPERTIES AdmittedIsCurrent
CHECK_DEADLOCK FALSE
