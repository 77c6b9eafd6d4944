\* Three clients with names of their own and a registry for two.
SPECIFICATION Spec
CONSTANTS
  c1 = c1
  c2 = c2
  c3 = c3
  ann = ann
  bob = bob
  cat = cat
  NoConn = NoConn
  Names = {ann, bob, cat}
  Conns = {c1, c2, c3}
  MaxPeers = 2
  MaxClients = 3
  ListRoom = 2
  SockBuf = 3
  MaxRead = 5
  MaxSends <- Sends121
  MaySend <- OwnThree
  Readers = {}
  Leavers = {c2}
INVARIANTS NoGhostEntries PeersAnnounced BroadcastSound
PROPERTY KeepsDirectory
