SPECIFICATION StreamSpec
CONSTANTS
  HeaderSize = 2
  Lengths = {2, 3, 4}
  ReadBufSize = 4
  SocketSize = 5
  MaxPackets = 3
  MaxSplits = 1
INVARIANTS StreamIsWhole
PROPERTIES PipeUntilSplit AllArrives
CHECK_DEADLOCK FALSE
