SPECIFICATION SumSpec
CONSTANTS
  d1 = d1 d2 = d2 u1 = u1 l1 = l1 l2 = l2
  Daemons <- TwoDaemons
  Users <- OneUser
  Layouts <- TwoLayouts
  Fresh = l1
  MaxCrashes = 1
  Updates <- TwoUpdates
  MaxRelease = 2
INVARIANTS OneReachable SnapshotIsKept AlwaysAProgram
PROPERTIES RestartCompletes LaunchEnds
CHECK_DEADLOCK FALSE
