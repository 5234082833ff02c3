SPECIFICATION AnySpec
CONSTANTS
  NULL = NULL
  Align = 4
  PoolSize = 30
  Increment = 8
  BufInc = 16
  Lengths <- Few
  MinChunked = 8
  Base = 4
  Digits = 2
  MaxChunk = 15
  ReserveEbuf = 8
  Apps <- Applications
  MaxOptions = 2
  MaxPool = 3
  MinPool = 12
  DefaultPool = 40
  DefaultIncrement = 8
  DefaultLimit = 7
  HAVE_LISTEN_SHUTDOWN = TRUE
INVARIANTS
  BuffersSafe StartRight PostExact
CHECK_DEADLOCK FALSE
