SPECIFICATION MCSpec
CONSTANTS
  Callers = {p1, p2}
  LoadKeys = {k1, k2}
  Calls = {c1, c2, c3}
  NoCall = NoCall
  Grain = 2
  Burst = 4
  InflightMax = 2
  MaxWindow = 3
INVARIANTS
  SlotsHeldByLoads
  RegisteredUntilRemoved
  AdmissionBounded
PROPERTY
  CallersReturn
