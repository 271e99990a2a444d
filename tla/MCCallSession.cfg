CONSTANTS
  MaxInt32 = 3
  MaxPackets = 1
  MaxSessions = 2
  MaxInflight = 3
  Calls = {c1, c2}
SPECIFICATION Spec
INVARIANTS TypeOK HostFollowsCalls SessionIsOwned NoStrandedPacket KeepAliveExactlyDuringCall
PROPERTIES ImplementsSignalingRelay KeepAliveEnds
