SPECIFICATION Spec
CONSTANTS
  ENTRIES = 2
  r = r
  h = h
  fa = fa
  fb = fb
  fc = fc
  fd = fd
  fe = fe
  Root = r
  Frames <- MCFrames
  BootTable <- MCBootTable
  Calls <- MCCalls
SYMMETRY FrameSymmetry
INVARIANTS
  TablesAccounted
  NoEmptyTables
  MapAllOrNothing
  UnmapIsPrefix
PROPERTIES
  ImplementsAddressSpace
