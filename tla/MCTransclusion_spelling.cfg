CONSTANTS
  Long = long
  Short = short
  Pages = {long, short}
  Existing = {long, short}
  Plain = {}
  Tags = {}
  Texts <- MCTexts
  MaxDepth = 3
SPECIFICATION Spec
CHECK_DEADLOCK FALSE
INVARIANTS CircularStops
