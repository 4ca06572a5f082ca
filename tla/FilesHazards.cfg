SPECIFICATION Spec
SYMMETRY ThreadSymmetry
CONSTANTS
  Threads = {t1, t2}
  Handles = {1, 2}
  Paths <- Names
  Lookup <- NamesLookup
  Allowed <- Listed
  OnSd <- SdCard
  OnDisc <- Disc
  SlotCount = 2
  FileSize = 1
  Reuse = TRUE
  ErrorCodes <- OneError
  Offsets <- SomeOffsets
  Background = TRUE
INVARIANTS
  TypeOK
  GameFilesUntouched
