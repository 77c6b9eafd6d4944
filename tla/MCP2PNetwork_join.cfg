\* A client joins one that is settled, is called by it and may go.
SPECIFICATION FairAfterOne
CONSTANTS
  c1 = c1
  c2 = c2
  ann = ann
  bob = bob
  NoConn = NoConn
  Names = {ann, bob}
  Conns = {c1, c2}
  MaxPeers = 2
  MaxClients = 2
  ListRoom = 2
  SockBuf = 9
  MaxRead = 2
  MaxSends <- Plenty
  MaySend <- Anything
  Readers = {c1, c2}
  Leavers = {c2}
  MayName <- OwnNames
  SetupFails = TRUE
  MaxCalls <- Calls10
INVARIANTS ListsSettle ReportedIsDropped GoneIsUnlisted InChatUnlisted
PROPERTIES ServerView ComesToRest
