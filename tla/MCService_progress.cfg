CONSTANTS
  Processes = {p1, p2, p3, p4}
  Options = {"none", "p", "e"}
  Overlap = TRUE
  MayDie = FALSE
  MayQuit = FALSE
SPECIFICATION FairSpec
CHECK_DEADLOCK FALSE
PROPERTIES LosersLeave LaunchServes NobodyWaitsForever
