CONSTANTS
  MaxRows = 2
  MaxSessions = 3
  PollLimit = 1
  Runners = {tick}
  Operators = {}
  MaxFaults = 2
  Replacing = TRUE
SPECIFICATION FairRebuildSpec
INVARIANTS NoRowLost
PROPERTIES EveryRowLearned
CHECK_DEADLOCK FALSE
