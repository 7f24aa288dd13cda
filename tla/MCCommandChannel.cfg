CONSTANTS
  Clients = {c1, c2}
  Addresses = {a1, a2}
  Streams <- MCStreams
  Flags = {"CanBeSuspended"}
SPECIFICATION FairSpec
CHECK_DEADLOCK FALSE
INVARIANTS TypeOK NothingIsLost AnsweredByLine
PROPERTIES EveryLineAnswered
