CONSTANTS
  d1 = d1
  d2 = d2
  a1 = a1
  a2 = a2
  v1 = v1
  v2 = v2
  c1 = c1
  c2 = c2
  c3 = c3
  Digests <- MCTwoDigests
  Admins <- MCTwoAdmins
  KeyTime = 1
  KeyCrashes = 1
  Tables = {"valid"}
  Identities <- MCThreeIdentities
  RatePerTick = 1
  BucketSize = 2
  MaxIdentities = 2
  IdleTtl = 2
  LimiterTime = 4
  Viewers <- MCTwoViewers
  Backlog = 2
  ClientQueue = 1
  MaxSubscribers = 2
  MaxEvents = 3
  MaxStreams = 3
  TtlCallers <- MCThreeCallers
  Ttl = 2
  ErrorTtl = 1
  TtlTime = 4
SPECIFICATION Spec
INVARIANTS CredentialsAsDecided LimitIsPerIdentity NoEventLostOrRepeated
PROPERTIES LoadsAreSpaced
CHECK_DEADLOCK FALSE
