SPECIFICATION PolicySpec
CONSTANTS
  Documents <- MCDocuments
  Contexts <- MCContexts
  Strings <- Words
  Matched <- MCMatched
  Reading <- MCReading
  KeyTypes <- MCKeyTypes
  Variables = {"${x}"}
  Unread = Unread
  Unreadable = Unread
  Broken = Broken
  Malformed = Broken
INVARIANTS
  DecisionIsPolicy
  OperandsDecide
CHECK_DEADLOCK FALSE
