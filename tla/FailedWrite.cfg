SPECIFICATION StorageFairSpec
CONSTANTS
  d1 = d1 d2 = d2 u1 = u1 l1 = l1 l2 = l2
  Daemons <- OneDaemon
  Users <- OneUser
  Layouts <- OneLayout
  Fresh = l1
  MaxCrashes = 0
PROPERTIES FailedWritesRetried
CHECK_DEADLOCK FALSE
