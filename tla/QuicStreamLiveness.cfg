SPECIFICATION FairSpec
CONSTANTS
  Senders = {"s1", "s2"}
  Receivers = {}
  NoStream = NoStream
  Size = 1
  StreamCredit = 1
  ConnCredit = 1
  MayReset = {"s1"}
  MaxPkts = 1
CHECK_DEADLOCK FALSE
PROPERTIES Served Flushed ConcludedEnds
