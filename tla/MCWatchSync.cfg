SPECIFICATION MCSpec
CONSTANTS
  Revisions = {0, 1, 2, 3}
  Cursors = {c1, c2}
  NoCursor = NoCursor
  Hosts = {h1, h2}
  BaseHostMax = 1
  Entities = {e1}
  Values = {v1}
  Absent = Absent
  NoSnapshot = NoSnapshot
  NoEntry = NoEntry
  MaxEpoch = 2
INVARIANTS
  ReadyIsSynchronized
  EvidenceHonoured
  SynchronizingIsTimed
PROPERTIES
  RevisionAndCursorAdvance
  StampPinsView
  ShutdownIsFinal
