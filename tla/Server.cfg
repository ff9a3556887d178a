SPECIFICATION SumSpec
CONSTANTS
  c1 = c1 c2 = c2 s1 = s1 s2 = s2 p1 = p1 p2 = p2
  Clients <- TwoClients
  Sizes <- TwoSizes
  Scenes <- TwoScenes
  Messages <- Payloads
  Greeting <- Hello
  MaxFrame = 2
  SocketRoom = 3
  MaxSent = 3
  Files <- AllFiles
  Vocabulary <- Words
  Lines <- Shell
  Parents <- Inside
INVARIANTS IdleInOrder CopyOwned NobodyDroppedSilently ForegroundIsLatest HelpIsTrue
PROPERTIES ChangesPublished NotFrozen CarriesMessages
CHECK_DEADLOCK FALSE
