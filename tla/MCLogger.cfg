SPECIFICATION Spec
CONSTANTS
  Threads = {a, b}
  Counts <- MCCounts
  MaxLogs = 6
SYMMETRY MCSymmetry
CHECK_DEADLOCK FALSE
INVARIANTS
  InsideUnlessRaced
  RingHoldsLatest
  LogInv
