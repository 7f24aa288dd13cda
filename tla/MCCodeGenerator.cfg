CONSTANTS
  Main = main
  Inner = inner
  Pages = {main, inner}
  Texts <- MCTexts
SPECIFICATION Spec
CHECK_DEADLOCK FALSE
INVARIANTS ContentIsKept TypeOK TagsLeaveNoTrace ListAgrees OpenTableGoesOn
PROPERTIES EmbeddedLeavesNoTrace HeaderKeepsParts
