CONSTANTS
  main = main
  other = other
  Modules = {main, other}
  Programs <- MCPrograms
  Limit = 8
  Half = 16
  MaxCalls = 4
  MaxScripts = 4
SPECIFICATION FairSpec
CHECK_DEADLOCK FALSE
INVARIANTS TypeOK CountDrifts LimitLoosens LoadedOnce
PROPERTIES ScriptsEnd
