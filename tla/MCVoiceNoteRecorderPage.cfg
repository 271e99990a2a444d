SPECIFICATION Spec
CONSTANTS
  FrameSize = 2
  Second = 3
  MaxSamples = 8
  Preskip = 1
  Buffers = {1, 3, 5}
  MaxStarts = 3
  MaxQueued = 2
INVARIANT RecordingHasPage
CHECK_DEADLOCK FALSE
