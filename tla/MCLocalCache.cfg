SPECIFICATION MCSpec
CONSTANTS
  Keys = {k1, k2, k3, k4}
  Values = {v1, v2}
  Lifetimes = {0, 1, 2}
  Configured = 2
  NoEntry = NoEntry
  MaxTime = 3
SYMMETRY KeySymmetry
INVARIANTS
  OrderMatchesEntries
  AnswersAsPromised
