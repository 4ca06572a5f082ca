SPECIFICATION Spec
CONSTANTS
  Threads = {t1}
  Handles = {1, 2, 3}
  Paths <- Names
  Lookup <- NamesLookup
  Allowed <- Listed
  OnSd <- SdCard
  OnDisc <- Disc
  SlotCount = 2
  FileSize = 1
  Reuse = FALSE
  ErrorCodes <- NoErrors
  Offsets <- SomeOffsets
  Background = FALSE
INVARIANTS
  TooManyMeansManyOpen
