CONSTANTS
  MaxRows = 2
  MaxSessions = 3
  PollLimit = 2
  Runners = {op, tick}
  Operators = {op}
  MaxFaults = 2
  Replacing = FALSE
SPECIFICATION RebuildSpec
INVARIANTS RebuildTypeOK ReceiptsTrue InOrder
PROPERTIES NeverRegained ReplayReadOnly ImplementsMemory
CHECK_DEADLOCK FALSE
