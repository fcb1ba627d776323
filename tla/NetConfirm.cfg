SPECIFICATION Spec
CONSTANTS
  Party = {A, B}
  UpdatePacket <- MCUpdatePacket
  MaxReply = 1
  Room = {0, 1, 2}
INVARIANTS OnlyLateCancelRefused CertainStart
PROPERTIES ImplementsAgreement ConfirmationsEnd
CHECK_DEADLOCK FALSE
