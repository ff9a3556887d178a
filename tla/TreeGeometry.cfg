SPECIFICATION Spec
CONSTANTS
  Areas <- Small
  Pointers <- Few
  MaxPanes = 4
  SidebarWidth = 7
  MinContent = 8
  SessionName = 1
  NoAgents = 4
  MenuItems <- ItemsOf
  MenuLabel <- LabelOf
  HelpRows <- RowsOf
  HelpChip <- ChipOf
  HelpMinW = 10
  HelpMaxW = 12
  FieldW = 2
  DesiredH = 9
  Scenes <- AllScenes
  Home = "home"
  Shell <- AShell
  Worlds <- LostAndKept
  RestoredPanes = 3
  FramedPanes = 3
INVARIANTS
  Tiled
  DrawnAndFound
  RestoresWhatWasSaved
PROPERTIES
  ChangesAreLocal
