SPECIFICATION MCFairSpec
CONSTANTS
  Revisions = {0, 1, 2}
  Cursors = {c1, c2}
  NoCursor = NoCursor
  Hosts = {h1}
  BaseHostMax = 1
  Entities = {}
  Values = {v1}
  Absent = Absent
  NoSnapshot = NoSnapshot
  NoEntry = NoEntry
  MaxEpoch = 1
PROPERTIES
  SynchronizingEnds
  DisconnectedEnds
  CancelShutsDown
