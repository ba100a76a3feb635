SPECIFICATION Spec
CONSTANTS
  Lots = 1
  MaxDeals = 2
  MaxRuns = 1
  DryRuns = {1}
  Kinds = {"v1"}
  LateLanding = FALSE
  ForeignSpend = FALSE
INVARIANTS NoPhantomFills
CHECK_DEADLOCK FALSE
