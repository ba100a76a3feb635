CONSTANTS
  MaxOdd = 2
  MaxNodeDepth = 2
  MaxValueDepth = 2
  MaxPicks = 2
  MaxDecimal = 100
  Holdings = {x1, x2, x3}
  MaxAmount = 4
  Reserve = 10
  PoolCap = 6
  FreeZone = 1
  Multiplier = 1
  MaxImpact = 9
  Tolerance = 0
  Threshold = 5
  MaxSize = 3
  HeldQuotes = {h1, h2}
  Even <- MCEven
  NetQuotes = {q1, q2}
  PartyLess = {q2}
  Deltas <- MCDeltas
  Horizon = 2
  WindowAge = 1
  StaleAfter = 1
  CheckpointEvery = 1
  Epsilon = 1
  MaxWrites = 1
  MaxLives = 1
  OwnKeys = {k1, k2}
  Advertised <- MCAdvertised
  PriorGrants <- MCPriorGrants
  MaxRequests = 2
  MaxUntold = 1
  VenueMarkets = {m1, m2}
  QuoteKeys = {v1, v2}
  OnlyV2 = FALSE
  MaxUpdates = 3
  MaxDeaths = 1
  RefreshMayFail = FALSE
  BusyStart = FALSE
  Lots = 2
  MaxDeals = 3
  MaxRuns = 3
  DryRuns = {3}
  Kinds = {"v1", "atomic"}
  LateLanding = FALSE
  ForeignSpend = FALSE
SPECIFICATION AnySpec
INVARIANTS   SelectionRight SplitPaysImpact PricedFairly  OnboardsOnce NeverDoubleFills RestartKnowsAll VenuesTracked
PROPERTY SuccessMeansOnboarded
SYMMETRY MCSymmetry
CHECK_DEADLOCK FALSE
