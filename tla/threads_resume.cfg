SPECIFICATION FairSpec
CONSTANTS
  Conn = {c1}
  Limit = 1
  MaxSuspends = 1
PROPERTIES
  ResumedGoesOn
CHECK_DEADLOCK FALSE
