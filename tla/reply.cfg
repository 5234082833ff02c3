SPECIFICATION AnySpec
CONSTANTS
  NULL = NULL
  Conn = {c1, c2, c3}
  Length = 2
  MaxRead = 2
  Failures = TRUE
  b1 = b1
  b2 = b2
SYMMETRY ConnSymmetry
INVARIANTS DataAsGiven SharedSafely SentRight
CHECK_DEADLOCK FALSE
