CONSTANTS
  c1 = c1
  low = low
  mid = mid
  Clients <- OneClient
  Rows <- OneHeight
  Ratios <- Ratios2
  Half = mid
  MaxPanes = 5
SPECIFICATION Spec
PROPERTY DragKeepsItsWindow
CHECK_DEADLOCK FALSE
