SPECIFICATION FairSpec
CONSTANTS
  MAX_ORDER = 2
  TotalFrames = 7
  FRAME_SIZE = 2
INVARIANTS
  NeverCorrupt
  CountMatches
  ListsComplete
  ExhaustionIsReal
PROPERTY
  OperationsEnd
