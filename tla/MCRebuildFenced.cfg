CONSTANTS
  MaxRows = 1
  MaxSessions = 2
  PollLimit = 1
  Runners = {op}
  Operators = {op}
  MaxFaults = 1
  Replacing = FALSE
SPECIFICATION RebuildSpec
INVARIANTS InputWritable
CHECK_DEADLOCK FALSE
