SPECIFICATION FairSpec
CONSTANTS
  Limit = 3
  Sizes = {1, 4}
  Anchors = {2}
  MaxArrivals = 0
  MaxDeleted = 0
  MaxVisits = 2
  MaxPages = 2
  MaxPulls = 2
  MaxRequests = 2
  MaxShort = 1
  MaxRefusals = 1
  MaxLogins = 1
CHECK_DEADLOCK FALSE
PROPERTIES
 TrafficEnds
 LoadingEnds
