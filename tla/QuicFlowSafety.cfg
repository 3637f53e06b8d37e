SPECIFICATION Spec
CONSTANTS
  Streams = {s1, s2}
  Conn = Conn
  BackStreams = {}
  Size = 2
  StreamWnd = 1
  ConnWnd = 1
  WndMul = 2
  MayReset = TRUE
  MaxPkts = 1
SYMMETRY Symmetry
INVARIANTS NoFlowError WithinCredit ConnIsSum BufferBounded
