SPECIFICATION Spec
CONSTANTS
  DCQ_MAX = 4
  DCQ_FORCE_SLOWDOWN_SIZE = 2
  DCQ_LIVELOCK_MAX = 3
  MaxBatching = 2
  ReinitFromMain = TRUE
INVARIANTS QueueConsistent NoTornFrame SignalMeansDone
PROPERTIES ImplementsOrder NobodyWaits
CHECK_DEADLOCK FALSE
