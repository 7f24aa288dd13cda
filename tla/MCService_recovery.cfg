CONSTANTS
  Processes = {p1, p2, p3, p4, p5}
  Options = {"none", "e", "t", "i", "u", "v"}
  Overlap = FALSE
  MayDie = TRUE
  MayQuit = TRUE
SPECIFICATION Spec
SYMMETRY Symmetry
CHECK_DEADLOCK FALSE
INVARIANTS ServiceReachable
