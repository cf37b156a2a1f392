CONSTANTS
  Attempts = {intro, t1, t2}
  Tapbacks = {k1}
  Introduction = intro
  Observers = {}
  NeedsIntroduction = TRUE
  MaxPolls = 1
  Free = Free
  Holder = Holder
SPECIFICATION OutboxSpec
INVARIANTS IntroducedFirst
CHECK_DEADLOCK FALSE
