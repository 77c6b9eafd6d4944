\* Two clients start at the same time; a read() may return two messages.
SPECIFICATION FairNetSpec
CONSTANTS
  c1 = c1
  c2 = c2
  ann = ann
  bob = bob
  NoConn = NoConn
  Names = {ann, bob}
  Conns = {c1, c2}
  MaxPeers = 2
  MaxClients = 2
  ListRoom = 2
  SockBuf = 9
  MaxRead = 2
  MaxSends <- Plenty
  MaySend <- Anything
  Readers = {c1, c2}
  Leavers = {}
  MayName <- OwnNames
  SetupFails = FALSE
  MaxCalls <- Calls00
INVARIANT NetTypeOK
PROPERTY ComesToRest
