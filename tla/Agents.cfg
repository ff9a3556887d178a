SPECIFICATION SumSpec
CONSTANTS
  Panes <- TwoPanes
  Kinds <- Claude
  Screens <- Sides
  CwdOf <- OneDir
  Flaky <- OnlyTwo
  MaxTime = 2
  Ids <- OneId
  MaxSaid = 4
  MaxTyped = 2
  Programs <- Commands
  Startup <- AtFirst
  UserNames <- OneName
  PlaceOf <- TwoPlaces
  Beginnings <- Openings
  LinesOf <- SomeLines
  Heads <- TwoHeads
  Cap = 3
  Ends = 1
  Limit = 3
  Interval = 2
  MaxEdits = 2
INVARIANTS SessionsMatched SeedKept NoStandoff ShownIsTrue
PROPERTIES DoneMeansMissed WorkEnds ExitIsLast
CHECK_DEADLOCK FALSE
