\* Every split of the key's length; everything may fail but the memory for the keys;
\* one side types.
SPECIFICATION FairPQSpec
CONSTANTS
  LengthWords = 2
  TextLengthWords = 1
  KeyWords = 1
  IVWords = 1
  ShortReads = TRUE
  Failures <- MostFailures
  Room <- CalleeTypes
INVARIANTS PQTypeOK KeyIsInPlace NothingLeft
PROPERTIES HandshakeEnds PeerGoneEndsChat
