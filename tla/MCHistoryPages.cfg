CONSTANTS
  LastSecond = 0
  Ahead = 1
  LiveSkew = 1
  MaxAge = 1
  Step = 2
  LastBar = 8
  BarSkew = 1
  Window = 4
  PageCap = 2
INIT SyntheticInit
NEXT SyntheticNext
INVARIANT PageLimitCompatible
CHECK_DEADLOCK FALSE
