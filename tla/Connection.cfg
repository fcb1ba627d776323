SPECIFICATION Spec
CONSTANTS
  Players = {0, 1}
  MaxAddresses = 2
INVARIANTS NoLooseEnds NothingStale
PROPERTIES OneLife NothingRests
CHECK_DEADLOCK FALSE
