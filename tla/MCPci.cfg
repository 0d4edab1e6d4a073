SPECIFICATION PciFairSpec
CONSTANTS
  DEVICES = 2
  FUNCTIONS = 3
  LARGE = 2
  Machines <- MCMachines
  MaxDepth = 4
INVARIANTS
  FoundAll
  FoundOnce
  InsideWindow
PROPERTY
  InitReturns
CHECK_DEADLOCK FALSE
