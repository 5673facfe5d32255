CONSTANTS
  PROCS = {p1, p2, p3}
  RESIZERS = {}
  SIZES = {1, 2}
  TOTAL = 4
SPECIFICATION FairSpec
INVARIANTS Reserve NoLostWakeup
PROPERTY AllocReturns
