SPECIFICATION MmSpec
CONSTANTS
  MAX_ORDER = 2
  TotalFrames = 9
  FRAME_SIZE = 4
  MemMaps <- MCMemMaps
INVARIANTS
  Conservation
  DisciplineNeverPanics
PROPERTIES
  ImplementsAllocator
