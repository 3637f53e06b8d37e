SPECIFICATION FairSpec
CONSTANTS
  Streams = {s1}
  Conn = Conn
  BackStreams = {}
  Size = 2
  StreamWnd = 1
  ConnWnd = 2
  WndMul = 2
  MayReset = FALSE
  MaxPkts = 1
CHECK_DEADLOCK FALSE
PROPERTY StreamCreditArrives
