SPECIFICATION FairSpec
CONSTANTS
  FrameSize = 2
  Second = 3
  MaxSamples = 8
  Preskip = 1
  Buffers = {1, 3, 5}
  MaxStarts = 3
  MaxQueued = 2
INVARIANTS
  RecorderTypeOK
  PhaseIsTruth
  NoFileLeftBehind
PROPERTIES
  NoteIsWhole
  StoppingEnds
CHECK_DEADLOCK FALSE
