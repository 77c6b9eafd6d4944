\* Two clients ask for the same name.
SPECIFICATION Spec
CONSTANTS
  c1 = c1
  c2 = c2
  c3 = c3
  ann = ann
  bob = bob
  cat = cat
  NoConn = NoConn
  Names = {ann, bob, cat}
  Conns = {c1, c2}
  MaxPeers = 2
  MaxClients = 3
  ListRoom = 2
  SockBuf = 3
  MaxRead = 5
  MaxSends <- Sends21
  MaySend <- Reused
  Readers = {}
  Leavers = {}
INVARIANT UniqueUsernames
