SPECIFICATION AnySpec
CONSTANTS
  NULL = NULL
  c1 = c1
  c2 = c2
  Conn <- Two
  Served <- Two
  Limit = 2
  MaxSuspends = 2
  ForwardPoll = "poll"
  BufferSize = 2
  PipeSize = 2
  ClientBytes = 2
  AppBytes = 3
  Faults = TRUE
  DefaultTimeout = 3
  CustomTimeouts = {0, 1, 3}
  MayAdd = TRUE
  PollFn = "poll"
  Word = 64
  JumpLimit = 1
  RetryWait = 2
  MaxJump = 3
  TimeEnd = 5
  Infinite = 100
INVARIANTS
  WaitAgrees TimeoutsKept ThreadsLeaveNothing ForwardedIntact
SYMMETRY Symmetry
CHECK_DEADLOCK FALSE
