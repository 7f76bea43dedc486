SPECIFICATION SharedFairSpec
CONSTANTS
  Revisions = {0, 1, 2}
  Hosts = {}
  BaseHostMax = 0
  Entities = {k1, b1}
  Values = {1, 2}
  Absent = Absent
  NoEntry = NoEntry
  Procs = {p1, p2}
  Credential = k1
  Mapping = b1
  NoCall = NoCall
  MaxEpoch = 1
INVARIANTS
  LoadedResultsTrue
PROPERTIES
  AuthorizationIsAtomic
  RequestsEnd
