CONSTANTS
  Clients = {c1, c2}
  Impatient = {c1}
  Stalling = {c2}
  Asks = {"fragment", "garbled", "download", "bare"}
  MaxRequests = 2
  Pausable = FALSE
  DatabaseFails = FALSE
SPECIFICATION FairSpec
PROPERTIES ImplementsContract EveryRequestAnswered EverySocketDeleted
