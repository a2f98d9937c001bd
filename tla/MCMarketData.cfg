CONSTANTS
  s1 = s1
  s2 = s2
  s3 = s3
  MSyms <- MCOneSymbol
  Catalog <- MCCatalog
  YieldDefs <- MCYieldDefs
  DividendDefs <- MCDividendDefs
  Sources = {"official", "proxy"}
  RankOf <- MCRank
  YieldTtl = 0
  MTime = 1
  MGens = 2
  MCrashes = 1
  MQueue = 2
  HSymbols <- MCThreeSymbols
  RecipeChoices <- MCRecipeChoices
  Backfills <- MCBackfills
  Catalogs <- MCHistoryCatalogs
  Minute = 2
  Five = 4
  OneHour = 6
  OtherWindows = {8}
  OneRetention = 6
  FiveRetention = 8
  DailyRetention = 9
  MaxSkew = 2
  LateBy = 2
  HTime = 8
  HOps = 4
  StoredSymbols <- MCStoredSymbols
  Retention <- MCRetention
  LastDay = 1
  MaxCommits = 2
SPECIFICATION Spec
INVARIANTS  ReadyMeansServed  RestoredTogether
PROPERTIES AnswersNeverWorsen CleanupHarmless
CHECK_DEADLOCK FALSE
