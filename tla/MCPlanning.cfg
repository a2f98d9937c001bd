CONSTANTS
  Symbols <- MCSymbols
  Offers <- MCOffers
  Descriptor <- MCDescriptor
  Shipped <- MCShipped
  RatioPolicy <- MCRatioPolicy
  CoinIds <- MCCoinIds
  Configurations <- MCConfigurations
  Recipes <- MCRecipes
  RouterBound <- MCRouterBound
  StrictMode = TRUE
  MaxChain = 4
  MaxDepth = 2
  EditsPerJob = 2
  Calendars <- MCCalendars
  Before <- MCWinter
  After <- MCSummer
  Switch = 302
  StaleAfter = 3
  ConfirmFor = 2
  Arrivals <- MCArrivals
  Ages <- MCAges
  LastHalfHour = 400
  Workloads <- MCWorkloads
  Gap <- MCGap
  Timeout <- MCTimeout
  BaseSlots = 2
  MaxSlots = 3
  PerSlot = 2
  ConfiguredTimeout = 4
  DefaultTimeout = 2
  Margin = 1
  CreditCatalogs <- MCCreditCatalogs
  Budgets <- MCBudgets
  Cost <- MCCost
  FxProviders <- MCFxProviders
  CoinsPerBatch = 2
  Releases <- MCReleases
  Builtin <- MCBuiltin
  ShippedChain <- MCShippedChain
  PriorDefaults <- MCPriorDefaults
  Renamed <- MCRenamed
  CustomSymbols = {"NEW"}
  OperatorChains <- MCOperatorChains
  Polls = {5, 9}
  DefaultPoll = 5
  MaxWrites = 2
  LastSecond = 3
  Ahead = 1
  LiveSkew = 1
  MaxAge = 1
  Step = 2
  LastBar = 8
  BarSkew = 2
  Window = 2
  PageCap = 5
SPECIFICATION Spec
INVARIANTS    DerivedSound 
PROPERTIES  AdmissionSound
CHECK_DEADLOCK FALSE
