SPECIFICATION FairSpec
CONSTANTS
  c1 = c1
  c2 = c2
  a1 = a1
  Conn <- Two
  Addr <- OneAddr
  AddrOf <- SameAddr2
  ConnectionLimit = 2
  PerIpLimit = 0
  PollFn = "poll"
  Timeouts = FALSE
  AllowUpgrade = FALSE
  Tls = FALSE
  Calls = {"connect", "suspend", "stop"}
INVARIANTS VisitsLive
PROPERTIES ResumedIsProcessed StopTerminates
CHECK_DEADLOCK FALSE
