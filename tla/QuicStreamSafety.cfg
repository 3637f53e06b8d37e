SPECIFICATION Spec
CONSTANTS
  Senders = {"s1"}
  Receivers = {"s1"}
  NoStream = NoStream
  Size = 2
  StreamCredit = 1
  ConnCredit = 1
  MayReset = {"s1"}
  MaxPkts = 2
CHECK_DEADLOCK FALSE
INVARIANTS DueIsActive BytesAccounted FinalSizeIsSent DeletedEnds
