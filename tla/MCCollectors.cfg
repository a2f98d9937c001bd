CONSTANTS
  a = a
  b = b
  p = p
  r = r
  h1 = h1
  h2 = h2
  r1 = r1
  CSyms <- MCTwoSymbols
  CCatalogs <- MCQuoteCatalogs
  Primary = p
  Spare = r
  Suppression = 3
  Recheck = 2
  MinimumPoll <- MCMinimumPoll
  ClosedPoll <- MCClosedPoll
  Floor <- MCFloor
  Hint = 1
  QuoteSlots = 1
  MaxDelay = 2
  Lags = {0, 2}
  QTime = 2
  QHandoffs = 1
  QFailures = 1
  Hubs <- MCTwoHubs
  Regulars <- MCOneRegular
  LoopCatalogs <- MCLoopCatalogs
  HistoryPoll = 1
  RetryAfter = 1
  RefreshAfter = 2
  PrefixRetry = 1
  HistoryWorkers = 2
  LTime = 1
  LHandoffs = 1
  YSyms <- MCTwoSymbols
  YCatalogs <- MCMetadataCatalogs
  MetadataPoll = 3
  MetadataRetry = 1
  MetadataWorkers = 1
  YTime = 4
  YHandoffs = 1
SPECIFICATION Spec
INVARIANTS CollectionGoesOn  RetriedSoon
CHECK_DEADLOCK FALSE
