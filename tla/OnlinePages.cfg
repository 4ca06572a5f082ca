SPECIFICATION Spec
SYMMETRY MCSymmetry
CONSTANTS
  NumPages <- MCNumPages
  Cups <- MCCups
  PagedCups <- MCPagedCups
  Tracks <- MCTracks
  Custom <- MCCustom
  Consoles = {c1, c2}
  Copies = 2
  None = None
INVARIANTS
  TypeOK
  RaceAgrees
