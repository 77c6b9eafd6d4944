\* Two settled clients chat.
SPECIFICATION SpecAfterTwo
CONSTANTS
  c1 = c1
  c2 = c2
  ann = ann
  bob = bob
  NoConn = NoConn
  Names = {ann, bob}
  Conns = {c1, c2}
  MaxPeers = 2
  MaxClients = 2
  ListRoom = 2
  SockBuf = 9
  MaxRead = 1
  MaxSends <- Plenty
  MaySend <- Anything
  Readers = {c1, c2}
  Leavers = {}
  MayName <- OwnNames
  SetupFails = FALSE
  MaxCalls <- Calls10
INVARIANT ComesBack
