CONSTANTS
  K_PKT_THRESHOLD = 2
  LossDelays <- Delays
  PtoDuration = 1
  rx_max_ack_delay = 1
  tx_max_ack_delay = 1
  MAX_RX_ACK_RANGES = 2
  NELEM_ack_ranges = 3
  MinWnd = 1
  Never = 1000000
  Cases <- AllCases
SPECIFICATION Spec
CHECK_DEADLOCK FALSE
INVARIANT ProbesLive
