SPECIFICATION FairSpec
CONSTANTS
  Sessions = {s1}
  Panes = {1, 2} AgentPanes = {1}
  Files = {f1}
  MaxEpoch = 2
  MaxQueue = 2
  MaxHalves = 3
  MaxReplaced = 1
  MaxCmds = 1
INVARIANTS CompleteLinesOnly
CHECK_DEADLOCK FALSE
