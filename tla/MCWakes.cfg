CONSTANTS
  LaneCount = 2
  Budget = 3
  Notices = 0
  Safety = 2
  Delays = {2}
  Dues = {0, 1}
  Flaky = {0}
  MaxFaults = 1
SPECIFICATION FairWakesSpec
INVARIANTS WakesTypeOK Armed NothingUnscheduled
PROPERTIES LaneServed
CHECK_DEADLOCK FALSE
