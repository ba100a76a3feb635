CONSTANTS
  a1 = a1 a2 = a2 f1 = f1 x1 = x1 p0 = p0 p1 = p1 p2 = p2
  r1 = r1 e1 = e1 l1 = l1 h1 = h1 h2 = h2
  c1 = c1 c2 = c2 c3 = c3 merge = merge
  NoOne = NoOne Other = Other NoTask = NoTask
  Payments = {a1, a2, f1}
  KindOf <- MCKindOf
  CcNeed <- MCCcNeed
  Amulets = {x1}
  FirstAmulets = {x1}
  AmountOf <- MCAmountOf
  ReserveTier = {x1}
  AllocWorkers = 1
  FeeWorkers = 1
  RebuildAfter = 1
  SelectionMargin = 1
  MaxPicks = 1
  MaxDecimal = 100
  MinCc = 2
  TopupCc = 2
  Purse = 6
  NudgeRoom = 1
  MaxExcess = 1
  Proposals = {p0, p1, p2}
  RoleOf <- MCRoleOf
  SettleBefore <- MCSettleBefore
  SafetyMargin = 1
  MaxNow = 4
  RejectEnabled = TRUE
  Poison = {p0}
  MaxFaults = 2
  MaxFailures = 2
  Tasks = {r1, e1, l1}
  PolicyOf <- MCPolicyOf
  MaxDelay = 1
  Threads = {h1, h2}
  Threshold = 2
  Cooldown = 2
  MaxBacklog = 2
  NoJob = NoJob
  Cids = {c1, c2, c3}
  Initial = {c1, c2}
  CC = {c1, c2, c3}
  Rank <- MCRank
  Jobs = {merge}
  Crews = {{merge}}
  Kind <- MCKind
  MaxInputs = 2
  MaxOutputs = 1
  WorkersMeetTTL = TRUE
  SweepMeetsTTL = TRUE
SPECIFICATION WorkersSpec
INVARIANTS ReservationsOwned NoOvershoot
PROPERTIES FeesServed ExpiredIsCollected RequiredFailureStopsAll QuotingResumes CacheIsTruthful
CHECK_DEADLOCK FALSE
