SPECIFICATION FairSpec
CONSTANTS
  Ssrcs = {1, 2}
  MaxFed = 3
  MaxSeq = 3
  MaxTasks = 1
  MaxLevels = 1
INVARIANTS
  TypeOK
  SetupComesFirst
  EveryNumberOnce
PROPERTIES
  StopIsFinal
  SetupIsAnswered
  ReleaseCompletes
CHECK_DEADLOCK FALSE
