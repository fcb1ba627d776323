SPECIFICATION Spec
CONSTANTS
  A = A
  B = B
  s1 = s1
  Party = {A, B}
  NumSlots = 1
  Ship = {None, s1, s2}
  None = None
  Unset = Unset
  FirstShips <- OneOrNone
  MaxEdits <- TwoEditsAndOne
INVARIANTS FairStart SameFleets
PROPERTIES ImplementsConfirm
CHECK_DEADLOCK FALSE
