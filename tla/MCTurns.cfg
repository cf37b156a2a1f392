CONSTANTS
  s1 = s1
  s2 = s2
  Sessions <- MCSessions
  Failures = {"quota"}
  Sending = {s1}
  Leaving = {s2}
  ProbeDelay = 2
  MaxPrompts = 2
  MaxFaults = 1
  None = None
SPECIFICATION FairTurnsSpec
INVARIANTS TurnsTypeOK FailureKnown
PROPERTIES OneProbe EveryFailureTried
CHECK_DEADLOCK FALSE
