SPECIFICATION FairSpec
CONSTANTS
  SiteCount = 34
  FsCount = 5
  SlotCount = 33
  HomeDuringSetup = FALSE
INVARIANTS
  TypeOK
  EntriesMatchHooks
  RealReachesOriginal
PROPERTIES
  KeepsContract
  AllOrNone
  RehookCompletes
