CONSTANTS
  VenueMarkets = {m1}
  QuoteKeys = {k1, k2}
  OnlyV2 = TRUE
  MaxUpdates = 2
  MaxDeaths = 0
  RefreshMayFail = TRUE
  BusyStart = FALSE
SPECIFICATION VenuesSpec
INVARIANT VenuesTracked
CHECK_DEADLOCK FALSE
