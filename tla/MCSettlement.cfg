SPECIFICATION Spec
CONSTANTS
  p1 = p1
  p2 = p2
  Proposals = {p1, p2}
  Orders = {p1, p2}
  PostActions = {"Allocate"}
  Quantity = 1
  Funds = 2
  Threads = 2
  MaxPending = 2
  MaxRetries = 2
  MaxRestarts = 1
  MayCrash = FALSE
  NoReject = FALSE
  Modes = {FALSE}
  Acknowledged = TRUE
  OutagesShort = TRUE
  StatusPrompt = TRUE
INVARIANTS PendingAddsUp NothingLeaks OrderNotOverfilled
PROPERTY ReservedBeforeAllocating
SYMMETRY Symmetry
VIEW View
