SPECIFICATION Spec
CONSTANTS
  Window = 2
  Windows = 4
  OwnFirst = 4
  OwnEnd = 8
  Space = 26
  Copies <- MCCopies
  Size = 4
  Xor <- MCXor
  Keys <- MCKeys
  Files <- MCFiles
  Loggers = {l1, l2}
  Lengths = {3}
  MaxBlock = 2
  MaxTexts = 1
  NoOne = NoOne
  Adds <- MCAdds
  GameIds = {7}
  MaxAllocs = 5
  Registrations <- MCRegistrations
  Pages = {"Course", "WifiTop", "TitleTop"}
  Global = "Global"
  Sources <- MCSources
  Destinations <- MCDestinations
  Jumps <- MCJumps
  Firsts <- MCFirsts
  Values <- MCValues
  Stack <- MCStack
  TrackNames <- MCTrackNames
  CustomNames <- MCCustomNames
  GamePaths <- MCGamePaths
  Prefix <- MCPrefix
  Modulus = 65536
  Released <- MCReleased
  SdFiles <- MCSdFiles
  IconCount = 3
  Room = 2
  Bases = {1, 2, 4}
  PageIcons = {1}
  Players = {p1, p2}
  Rooms = {r1, r2}
  Regions = {1}
  Ctgp = 101
  NoRoom = NoRoom
  Titles = {"HBL", "MK8_J", "MK8_E"}
  Symbols = {"FSOpenFile"}
  Starts = 3
  FileNames = {"A", "B", "C"}
  Contents = {1, 2}
INVARIANTS
  TypeOK
  CopiedSoFar
  PiecesArePlain
  TextsWhole
  TextsAlive
  FreedOnce
  FollowingCallsUse
  BranchReachesHook
  RealIsOriginal
  StatAgreesWithOpen
  RoomsDoNotMix
  LabelTellsToggle
  
  ChangesListed
PROPERTIES
  CrashStops
  OpensItsTrack
  IconsComeBack
  KeysUndo
CHECK_DEADLOCK FALSE
