CONSTANTS
  Clients = {c1, c2, c3}
  Impatient = {c1}
  Stalling = {}
  Asks = {"fragment", "page", "stylesheet", "filepage", "favicon"}
  MaxRequests = 1
  Pausable = TRUE
  DatabaseFails = TRUE
SPECIFICATION Spec
INVARIANTS TypeOK RequestsNameConnectedSockets DeletedOnce StaleOnlyAfterHangUp AtMostOneAnswer
PROPERTIES ClosedByItsOwnHandler
SYMMETRY SymmetryOfPatient
