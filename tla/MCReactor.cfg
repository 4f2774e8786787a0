CONSTANTS
  polite = polite
  sender = sender
  caller = caller
  Clients = {polite, sender, caller}
  Polite = {polite}
  Fds = {1, 2}
  BUFFER_LENGTH = 3
  PacketLens = {2, 4}
  MaxPackets <- MCMaxPackets
  None = None
SPECIFICATION FairSpec
INVARIANTS
  TypeOK
  NoStaleEvent
  OwnAnswers
PROPERTY PoliteServed
CHECK_DEADLOCK FALSE
