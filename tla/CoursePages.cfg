SPECIFICATION Spec
CONSTANTS
  NumPages <- MCNumPages
  Cups <- MCCups
  PagedCups <- MCPagedCups
  Tracks <- MCTracks
  Custom <- MCCustom
  Online = TRUE
INVARIANTS
  TypeOK
  ShownIsLoaded
  BattleShownIsLoaded
PROPERTIES
  IconsFollowTurns
