CONSTANTS
  MaxPendingCallEvents = 2
  MaxEvents = 3
  MaxSubscriptions = 4
  MaxGenerations = 2
SPECIFICATION BusSpec
INVARIANT AutoOpenStaysSubscribed
