SPECIFICATION MCSpec
CONSTANTS
  Revisions = {0, 1, 2, 3}
  Cursors = {1, 2, 3}
  NoCursor = 0
  Hosts = {h1, h2}
  BaseHostMax = 1
  Entities = {e1}
  Values = {1, 2, 3}
  Absent = Absent
  NoSnapshot = NoSnapshot
  NoEntry = NoEntry
  MaxEpoch = 2
INVARIANTS
  BaseHostsExact
  CacheFresh
  ConformingFramesAccepted
  LiveStreamSuffices
PROPERTIES
  ImplementsView
