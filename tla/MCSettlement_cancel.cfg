SPECIFICATION Spec
CONSTANTS
  p1 = p1
  p2 = p2
  Proposals = {p1}
  Orders = {p1}
  PostActions = {"Allocate", "Wait"}
  Quantity = 1
  Funds = 2
  Threads = 2
  MaxPending = 2
  MaxRetries = 1
  MaxRestarts = 0
  MayCrash = FALSE
  NoReject = FALSE
  Modes = {FALSE}
  Acknowledged = FALSE
  OutagesShort = FALSE
  StatusPrompt = FALSE
PROPERTY NeverCancelsAllocated
