SPECIFICATION Spec
CONSTANTS
  ENTRIES = 2
  PAGE = 2
  Boot <- MCBoot
  Ranges <- MCRanges
  Kernel <- MCKernel
  MaxLive = 2
INVARIANTS
  NoStrayPages
  LiveMapped
