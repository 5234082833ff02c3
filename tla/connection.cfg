SPECIFICATION Spec
CONSTANTS
  Kinds <- MCKinds
  Replies <- MCReplies
  MaxRequests = 2
  BufSize = 3
  MaxRead = 1
  MaxUpload = 3
  MaxStream = 2
  Threads = TRUE
  MemoryFails = FALSE
  Faults = TRUE
INVARIANTS
  FramingKept
  RepliesWhole
  WaitsForTheRightEvent
PROPERTIES
  HandlerContract
