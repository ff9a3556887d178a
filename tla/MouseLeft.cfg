SPECIFICATION Spec
CONSTANTS
  Sizes = {s1, s2}
  Texts = {t1}
  MaxQueue = 1
  MaxWire = 1
INVARIANT MouseReportingOff
CHECK_DEADLOCK FALSE
