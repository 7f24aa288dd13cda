CONSTANTS
  MaxInt = 40
  thumbnail_size = 6
  MaxHeaders = 6
  MaxLevel = 4
  MaxText = 7
  MaxTag = 4
  Sizes = {1, 2, 3, 5, 7}
  MaxParts = 2
  MaxPieces = 4
SPECIFICATION Spec
CHECK_DEADLOCK FALSE
INVARIANTS ContentsInOrder KeepsProportions HeaderTakesItsLine StyleStandsAlone TagIsWhole FormIsRead
