SPECIFICATION Spec
CONSTANTS
  ENTRIES = 2
  TOP = 3
  BootRoot = 0
  BootMems <- MCBootMems
  Owned <- MCOwned
INVARIANTS
  CopyIsFaithful
PROPERTY
  FailureIsClean
