SPECIFICATION Spec
CONSTANTS
  Limit = 3
  Sizes = {0, 4}
  Anchors = {2}
  MaxArrivals = 1
  MaxDeleted = 1
  MaxVisits = 2
  MaxPages = 2
  MaxPulls = 2
  MaxRequests = 2
  MaxShort = 1
  MaxRefusals = 0
  MaxLogins = 2
INVARIANTS
  HistoryTypeOK
  PullsCloseOnce
  NoMoreIsTrue
  NoHole
CHECK_DEADLOCK FALSE
