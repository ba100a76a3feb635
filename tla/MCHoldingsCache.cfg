CONSTANTS
  c1 = c1 c2 = c2
  pay = pay split = split quote = quote
  tick = tick kick = kick
  NoJob = NoJob
  Cids = {c1, c2}
  Initial = {c1}
  CC = {c1, c2}
  Rank <- MCRank
  Jobs = {pay, split, quote}
  Crews = {{pay, quote}, {split, quote}}
  Kind <- MCKind
  MaxInputs = 2
  MaxOutputs = 1
  WorkersMeetTTL = TRUE
  SweepMeetsTTL = TRUE
  Divisor = 1
  MaxSplitOutputs = 2
  MaxSplitCount = 5
  Denominations <- MCDenominations
  MinInterval = 1
  Window = 2
  MaxOps = 1
  Callers = {tick, kick}
  MergeThreshold = 1
  MaxMerge = 2
  Opening <- MCOpening
  Incoming = {1, 9}
  MaxCoins = 8
  MaxNow = 2
  Wanted <- MCWanted
  Purses <- MCPurses
  MaxToolInputs = 2
  MaxToolRuns = 2
SPECIFICATION AllSpec
SYMMETRY MCSymmetry
INVARIANTS NoSharedInput  ToolSplitsRight
CHECK_DEADLOCK FALSE
