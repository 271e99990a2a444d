SPECIFICATION Spec
CONSTANTS
  MaxEvents = 2
  MayGather = {"callee"}
  MayMute = {"caller"}
  MayStop = {"caller"}
INVARIANTS
  TypeOK
  CandidatesFollowParams
  PeerKnowsMute
  AudioBothWays
PROPERTIES
  FreedIsUntouched
CHECK_DEADLOCK FALSE
