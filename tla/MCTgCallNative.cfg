CONSTANTS
  MaxInt32 = 2
  MaxPackets = 2
  MaxSessions = 2
SPECIFICATION NativeSpec
INVARIANTS NativeTypeOK InOrderNoLoss TableMatchesInstances
