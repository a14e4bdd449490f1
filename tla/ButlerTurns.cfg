CONSTANTS
  c1 = c1
  c2 = c2
  s1 = s1
  NoSession = NoSession
  Clients = {c1, c2}
  Sessions = {s1}
  Calls <- CallKeys
  Starts <- MCStarts
  Replies <- MCReplies
  Worked <- MCWorked
  Texts <- MCTexts
  MaxCount = 2
  MaxRev = 4
  MaxRequests = 3
  MaxFaults = 1
SPECIFICATION ButlerSpec
PROPERTIES NoTurnLost
CHECK_DEADLOCK FALSE
