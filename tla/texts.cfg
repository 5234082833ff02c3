SPECIFICATION Spec
CONSTANTS
  NULL = NULL
  QueryLen = 4
  CookieLen = 3
  MaxEntries = 2
INVARIANTS
  LineExact FieldsExact BodyExact ValuesExact
PROPERTIES HeadersRight
CHECK_DEADLOCK FALSE
