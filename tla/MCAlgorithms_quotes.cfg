CONSTANTS
  MaxInt = 40
  thumbnail_size = 6
  MaxHeaders = 1
  MaxLevel = 1
  MaxText = 6
  MaxTag = 1
  Sizes = {1}
  MaxParts = 0
  MaxPieces = 0
SPECIFICATION Spec
CHECK_DEADLOCK FALSE
INVARIANTS QuotesBecomeTags
