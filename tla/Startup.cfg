SPECIFICATION FairSpec
CONSTANTS
  Main = Main
  Game = Game
  Threads = {Main, Game}
  None = None
  Codes <- MCCodes
  Archives <- MCArchives
  NumPages = 2
  CupIds <- MCCupIds
  Tracks <- MCTracks
  MaxMessages = 9
  Faults = {"missing", "corrupt", "sdcard"}
  Early = TRUE
INVARIANTS
  TypeOK
  WholeArchive
  NamesLead
  LoopFindsInstances
PROPERTIES
  ErrorIsShown
CHECK_DEADLOCK FALSE
