SPECIFICATION AnySpec
CONSTANTS
  NULL = NULL
  c1 = c1
  c2 = c2
  NoNonce = NoNonce
  Client <- TwoClients
  Slot <- OneSlot
  SlotOf <- SameSlot
  MaskBits = 2
  NcEnd = 6
  MaxNc = 0
  TimeEnd = 3
  TsMod = 8
  ReuseTimeout = 1
  NonceTimeout = 2
  JumpBack = 1
  Headers <- TwoHeaders
  Apps <- Applications
  StaticSize = 8
  MaxParam = 12
  DigestSize = 2
  StdLen = 5
  NcLen = 2
  ExtMin = 3
INVARIANTS
  AcceptedOnce MaskExact
  HeaderParsed CheckedRightly HashedExactly
  NamesReported ChallengeExact
  StringsExact
PROPERTIES FreshKept
CHECK_DEADLOCK FALSE
SYMMETRY Symmetry
