CONSTANTS
  Incoming = {i1, i2}
  Outgoing = {}
  Screens = {s1, s2}
  MaxUpdates = 2
  MaxRequests = 1
SPECIFICATION ScreenSpec
PROPERTY AnsweredCallHasScreen
CHECK_DEADLOCK FALSE
