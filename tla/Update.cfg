SPECIFICATION Spec
CONSTANTS
  Party = {A, B}
  Owner = A
  Value = {v1, v2, v3}
  Unset = Unset
  Handlers = {"ship", "teamName"}
INVARIANTS TurnsInStep ShipsAgree
PROPERTIES UpdatesSettle
CHECK_DEADLOCK FALSE
