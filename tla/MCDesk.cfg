CONSTANTS
  Confirms = {"c1"}
  Capacity = 2
  MaxSessions = 2
  MaxRuns = 2
  Parts = {"orders", "v2"}
  V2Part = "v2"
  MaxStarts = 2
  MaxUpdates = 1
  MaxOutages = 1
  MaxRetries = 3
SPECIFICATION DeskSpec
INVARIANT StopIsOrderly
PROPERTIES DeadSessionEnds ConfirmsAnswered AgentServes AgentStops KeepsContract
CHECK_DEADLOCK FALSE
