SPECIFICATION FairSpec
CONSTANTS
  NULL = NULL
  c1 = c1
  c2 = c2
PROPERTIES OperationsEnd ThreadsEnd
CHECK_DEADLOCK FALSE
