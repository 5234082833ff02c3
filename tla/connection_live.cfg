SPECIFICATION FairSpec
CONSTANTS
  Kinds <- LiveKinds
  Replies <- LiveReplies
  MaxRequests = 1
  BufSize = 3
  MaxRead = 1
  MaxUpload = 3
  MaxStream = 2
  Threads = FALSE
  MemoryFails = FALSE
  Faults = FALSE
PROPERTIES
  RequestCompletes
