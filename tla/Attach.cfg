SPECIFICATION FairSpec
CONSTANTS
  Sizes = {s1, s2}
  Texts = {t1, t2}
  MaxQueue = 1
  MaxWire = 1
INVARIANT WriterInStep
PROPERTIES Converges Departs
CHECK_DEADLOCK FALSE
