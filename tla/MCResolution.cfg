SPECIFICATION MCSpec
CONSTANTS
  Revisions = {0, 1, 2}
  Hosts = {h1}
  BaseHostMax = 1
  Entities = {k1, b1}
  Values = {1, 2}
  Absent = Absent
  NoEntry = NoEntry
  Procs = {p1}
  Credential = k1
  Mapping = b1
  NoCall = NoCall
  MaxEpoch = 2
INVARIANTS
  DispatchedAtOneRevision
PROPERTIES
  NotFoundIsTrue
  AuthorizationIsAtomic
