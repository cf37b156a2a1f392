CONSTANTS
  h1 = h1
  h2 = h2
  p1 = p1
  p2 = p2
  c1 = c1
  Handles <- MCHandles
  Personas <- MCPersonas
  Codes <- MCCodes
  Likes <- MCLikes
  Invited = {h2}
  MaxUses = 2
  Capacity = 1
  Answers = {"available"}
  Leaving = {}
  Attended = {h2}
  MaxJoins = 2
  MaxFaults = 0
  None = None
SPECIFICATION FairContactsSpec
PROPERTIES NoticeAttempted
CHECK_DEADLOCK FALSE
