\* Every client reads its socket, buffers hold one message.
SPECIFICATION FairSpec
CONSTANTS
  c1 = c1
  c2 = c2
  c3 = c3
  ann = ann
  bob = bob
  cat = cat
  NoConn = NoConn
  Names = {ann, bob, cat}
  Conns = {c1, c2}
  MaxPeers = 2
  MaxClients = 3
  ListRoom = 2
  SockBuf = 1
  MaxRead = 5
  MaxSends <- Sends21
  MaySend <- Contended
  Readers = {c1, c2}
  Leavers = {c1, c2}
INVARIANTS TypeOK ClientTableSound
PROPERTIES GoneIsForgotten RegistrationCompletes
