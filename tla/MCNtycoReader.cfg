CONSTANTS
  TCP_HEADER_SIZE = 2
  MAX_DATA = 2
  BUFFER_SIZE = 6
  DataLens = {0, 1, 2, 5}
  Uses = {"none", "locks", "leaks"}
  MaxPackets = 3
SPECIFICATION FairSpec
INVARIANTS
  TypeOK
  RoomToReceive
  Framed
  InOrder
  ValidKeepsConnection
PROPERTY EveryPacketAnswered
CHECK_DEADLOCK FALSE
