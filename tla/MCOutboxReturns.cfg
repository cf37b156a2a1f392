CONSTANTS
  Attempts = {intro, t1}
  Tapbacks = {k1}
  Introduction = intro
  Observers = {}
  NeedsIntroduction = FALSE
  MaxPolls = 2
  Free = Free
  Holder = Holder
SPECIFICATION FairOutboxSpec
INVARIANTS SubmittedOnce VerdictTruthful
PROPERTIES EveryCallReturns VerdictFinal
CHECK_DEADLOCK FALSE
