CONSTANTS
  Incoming = {i1}
  Outgoing = {o1}
  Screens = {s1, s2}
  MaxUpdates = 2
  MaxRequests = 1
SPECIFICATION ScreenSpec
INVARIANTS ScreenTypeOK LastOpenedIsCurrent
PROPERTIES AnswerDisablesDecline EndReachesScreen
CHECK_DEADLOCK FALSE
