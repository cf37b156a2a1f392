CONSTANTS
  Attempts = {intro, t1}
  Tapbacks = {}
  Introduction = intro
  Observers = {o1}
  NeedsIntroduction = TRUE
  MaxPolls = 2
  Free = Free
  Holder = Holder
SPECIFICATION OutboxSpec
INVARIANTS LedgerTruthful LateOutcomeReported InFlightHeld NoOvertaking EarlierToldFirst IntroducedFirst
PROPERTIES OutcomeFinal ImplementsThread
CHECK_DEADLOCK FALSE
