SPECIFICATION Spec
CONSTANTS
  MaxSeq = 6
  Cols = 2
  Scrollback = 2
  Keys <- FewKeys
  Heights <- TwoHeights
  FullHeight = 3
  Spots <- Corners
  Carets <- Ends
  Buttons <- Mouse
  MaxWire = 2
  MaxActs = 4
  MaxCuts = 1
  MaxTurns = 1
INVARIANTS SelectsWhatIsShown MouseSessionEnds
PROPERTIES TypedIsMeant
CHECK_DEADLOCK FALSE
