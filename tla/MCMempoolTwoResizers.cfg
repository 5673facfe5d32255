CONSTANTS
  PROCS = {r1, r2}
  RESIZERS = {r1, r2}
  SIZES = {1, 2, 3, 4}
  TOTAL = 4
SPECIFICATION Spec

CHECK_DEADLOCK FALSE
INVARIANT CapacityOK
