SPECIFICATION MissionsSpec
CONSTANTS
  Plots = {"pkunk", "thradd", "utwig", "mycon", "kohrah"}
  Months3 = {89, 92}
  Months6 = {181, 184}
  Marches = {1, 12}
  Prey = {"utwig", "druuge", "ilwrath", "mycon"}
INVARIANTS MissionsGoOn Rendezvous
PROPERTIES KohrAhWin
CHECK_DEADLOCK FALSE
