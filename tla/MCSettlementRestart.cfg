SPECIFICATION RestartSpec
CONSTANTS
  p1 = p1
  Proposals = {p1}
  Orders = {p1}
  PostActions = {"PayDvpFee", "CreateDvp", "AcceptDvp", "PayAllocFee", "Allocate", "Wait", "MulticallAccept"}
  Quantity = 1
  Funds = 2
  Threads = 2
  MaxPending = 2
  MaxRetries = 1
  MaxRestarts = 1
  MayCrash = TRUE
  NoReject = FALSE
  Modes = {FALSE, TRUE}
  Acknowledged = FALSE
  OutagesShort = FALSE
  StatusPrompt = FALSE
PROPERTY EverySettlementEnds
CHECK_DEADLOCK FALSE
