SPECIFICATION Spec
CONSTANTS
  Party = {a, b}
  Host = a
  MaxDeaths = 2
  MaxGames = 2
INVARIANTS FlagsAgree MeetTogether OnlyLatePacketRefused
PROPERTIES WaitsEnd
CHECK_DEADLOCK FALSE
