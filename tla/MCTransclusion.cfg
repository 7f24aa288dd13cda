CONSTANTS
  Long = long
  Short = short
  Pages = {long, short, gone}
  Existing = {long, short}
  Plain = {long, short, gone}
  Tags = {"nowiki", "noinclude", "includeonly", "htmlcode"}
  Texts <- MCTexts
  MaxDepth = 3
SPECIFICATION FairSpec
CHECK_DEADLOCK FALSE
INVARIANTS LineageIsCallStack CircularStops ModesAreOpenTags
PROPERTIES RenderingEnds
