SPECIFICATION MCSpec
CONSTANTS
  Revisions = {0, 1, 2, 3}
  Cursors = {1, 2, 3}
  NoCursor = 0
  Hosts = {}
  BaseHostMax = 1
  Entities = {e1}
  Values = {1, 2, 3}
  Absent = Absent
  NoSnapshot = NoSnapshot
  NoEntry = NoEntry
  Callers = {c1}
  MaxFaults = 2
INVARIANTS
  CommittedIsNotRefused
PROPERTIES
  Converges
  ListReadsConfirmed
CHECK_DEADLOCK FALSE
