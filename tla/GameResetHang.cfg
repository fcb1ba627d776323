SPECIFICATION Spec
CONSTANTS
  Party = {a, b}
  Host = a
  MaxDeaths = 1
  MaxGames = 1
PROPERTY ResetCompletes
CHECK_DEADLOCK FALSE
