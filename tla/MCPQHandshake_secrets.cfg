\* Nothing fails, and everything is read whole.
SPECIFICATION PQSpec
CONSTANTS
  LengthWords = 2
  TextLengthWords = 2
  KeyWords = 2
  IVWords = 2
  ShortReads = FALSE
  Failures = {}
  Room <- BothType
INVARIANT KeysAgree
