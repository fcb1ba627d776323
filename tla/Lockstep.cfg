SPECIFICATION Spec
CONSTANTS
  Party = {a, b}
  Delays = {0, 1}
  Interval = 1
  DeathFrames = {1, 2}
  MaxDitty = 1
INVARIANTS BuffersSuffice SameInputs EndTogether
PROPERTIES BattleEnds
