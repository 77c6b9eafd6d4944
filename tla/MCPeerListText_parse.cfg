\* Texts that a read() cuts anywhere and merges, longer than the read buffer, with
\* more entries than places.
SPECIFICATION TextSpec
CONSTANTS
  n1 = n1
  n2 = n2
  Names = {n1, n2}
  PortDigits <- TwoDigits
  Header = Header
  Notice = Notice
  HeaderLength = 2
  NoticeLength = 1
  HeadLength = 1
  ReadSize = 14
  MAX_PEERS = 2
  MaxLines = 5
PROPERTY TableIsWhatCame
