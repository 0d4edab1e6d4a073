SPECIFICATION FairSpec
CONSTANTS
  c1 = c1
  c2 = c2
  CPUs = {c1, c2}
  Bsp = c1
  Heap = Heap
  Vmm = Vmm
  Pmm = Pmm
  Acpi = Acpi
  Slot = Slot
  Critical = Critical
  IntLocks <- MCIntLocks
  BootPlans <- MCBootPlans
  RunPlans <- MCRunPlans
  Rank <- MCRank
  MaxIrqs = 2
INVARIANTS
  MutualExclusion
  FlagRestored
  MaskedInside
  NoSelfDeadlock
  SomeoneRuns
PROPERTY
  OperationsEnd
