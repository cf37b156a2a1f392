CONSTANTS
  Attempts = {intro, t1}
  Tapbacks = {}
  Introduction = intro
  Observers = {o1}
  NeedsIntroduction = FALSE
  MaxPolls = 2
  Free = Free
  Holder = Holder
SPECIFICATION OutboxSpec
INVARIANTS InDoubtOutcomeReported
CHECK_DEADLOCK FALSE
