SPECIFICATION Spec
CONSTANTS
  SiteCount = 5
  FsCount = 2
  SlotCount = 6
  HomeDuringSetup = TRUE
INVARIANT
  RealReachesOriginal
