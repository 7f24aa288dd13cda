CONSTANTS
  Processes = {p1, p2, p3, p4}
  Options = {"none"}
  Overlap = TRUE
  MayDie = FALSE
  MayQuit = FALSE
SPECIFICATION Spec
SYMMETRY Symmetry
CHECK_DEADLOCK FALSE
INVARIANTS ServiceReachable
