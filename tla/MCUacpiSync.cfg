SPECIFICATION FairSpec
CONSTANTS
  Callers = {c1, c2}
  MutexTimeouts <- MCMutexTimeouts
  EventTimeouts <- MCEventTimeouts
  Infinite = 65535
  MS = 1
  EventSleep = 2
  MaxSignals = 2
INVARIANTS
  SignalsConserved
PROPERTIES
  FailsOnlyLate
  FiniteCallsReturn
  SignalNoticed
