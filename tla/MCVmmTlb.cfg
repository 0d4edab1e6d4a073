SPECIFICATION TlbSpec
CONSTANTS
  ENTRIES = 2
  r = r
  h = h
  a = a
  b = b
  c = c
  Root = r
  Frames <- MCFrames
  BootTable <- MCBootTable
  Calls <- MCCalls
  Probes <- MCProbes
  MaxHeld = 1
SYMMETRY FrameSymmetry
INVARIANT
  CachesCoherent
  MappedPagesTrusted
