SPECIFICATION BoundedSpec
CONSTANTS
  c1 = c1
  low = low
  mid = mid
  Clients <- OneClient
  Rows <- OneHeight
  Ratios <- Ratios1
  Half = mid
  MaxPanes = 3
INVARIANTS WellPlaced ModesConsistent
PROPERTIES ShowsTabs BackgroundExitIsQuiet ChangesAreLaidOut ChangesAreSnapshotted
CHECK_DEADLOCK FALSE
