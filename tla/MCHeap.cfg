SPECIFICATION Spec
CONSTANTS
  FRAME_SIZE = 4
  MAX_ORDER = 1
  TotalFrames = 4
  MIN_BUCKET_SHIFT = 0
  MAX_BUCKET_SHIFT = 1
  HEADER_SIZE = 1
  HHDM_OFFSET = 64
  MAX_SHIFT = 8
  Layouts <- MCLayouts
  Donated <- MCDonated
INVARIANTS
  LiveApart
  SlabsFindable
  ObjectsConserved
