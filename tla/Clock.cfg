SPECIFICATION Spec
CONSTANTS
  FramesInHyperspace = 1
  FramesInSystem = 2
  Systems = {"zoqfot", "samatra"}
  YearsToVictory = 1
  LostDays = 14
  BusyDays = {31}
  MaxTalks = 2
  LastYear = 2156
  LastMonth = 5
INVARIANTS ListInOrder ChainsInTime
PROPERTIES ImplementsCountdown
CHECK_DEADLOCK FALSE
