SPECIFICATION FairSpec
CONSTANTS
  Madts <- MCMadts
  UacpiIrqs <- MCUacpiIrqs
  Traps <- MCTraps
  MaxKeys = 3
  MaxTraps = 2
INVARIANTS
  SlotsKept
  InterruptsEnd
PROPERTY
  KeysRead
CHECK_DEADLOCK FALSE
