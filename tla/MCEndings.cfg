CONSTANTS
  Relations = {1, 2}
  MaxAttempts = 2
  Departing = {1}
  Attended = {1}
  None = None
SPECIFICATION FairEndingsSpec
INVARIANTS EndingsTypeOK OneFarewell NoticeKnown DecidedTrue NothingForgotten
PROPERTIES SubmittedOnce SilentAfter NoticeSubmitted
CHECK_DEADLOCK FALSE
