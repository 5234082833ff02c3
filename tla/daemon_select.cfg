SPECIFICATION Spec
CONSTANTS
  c1 = c1
  c2 = c2
  a1 = a1
  Conn <- Two
  Addr <- OneAddr
  AddrOf <- SameAddr2
  ConnectionLimit = 1
  PerIpLimit = 1
  PollFn = "select"
  Timeouts = TRUE
  AllowUpgrade = TRUE
  Tls = TRUE
  Calls = {"connect", "add", "suspend", "quiesce", "stop"}
INVARIANTS SuspendConsistent StopClean CountersRight NothingForgotten
CHECK_DEADLOCK FALSE
SYMMETRY Sym2
