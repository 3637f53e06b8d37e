SPECIFICATION FairSpec
CONSTANTS
  Streams = {s1}
  Conn = Conn
  BackStreams = {s1}
  Size = 3
  StreamWnd = 1
  ConnWnd = 1
  WndMul = 2
  MayReset = FALSE
  MaxPkts = 2
PROPERTY AllRead
