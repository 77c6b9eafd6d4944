\* Five messages, every way of reading them.
SPECIFICATION FairAckSpec
CONSTANTS
  NumMessages = 5
  MessageSize = 4
  ReadSize = 3
  ShortReads = TRUE
INVARIANTS AckTypeOK NoneMadeUp
PROPERTY ExchangeEnds
