CONSTANTS
  b0 = b0 o1 = o1
  NoOrder = NoOrder NoPrice = NoPrice
  Orders = {b0, o1}
  Old = {b0}
  SideOf <- MCSideOf
  Prices = {1}
  OldPrices = {2}
  Configured = {TRUE, FALSE}
  Rounds = 2
  LandsPromptly = TRUE
  MaxRetries = 3
SPECIFICATION EitherSpec
INVARIANTS  WithdrawnIsEmpty
PROPERTIES MarketIsWithdrawn KeepsContract
CHECK_DEADLOCK FALSE
