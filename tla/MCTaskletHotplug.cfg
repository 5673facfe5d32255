CONSTANTS
  CPUS = {c1, c2}
  TASKS = {k1}
  TASKLETS = {t1, t2}
  KILLABLE = {t2}
  NULL = NULL
  MaxSched = 3
  MaxStop = 2
SPECIFICATION Spec
SYMMETRY Symmetry
CHECK_DEADLOCK FALSE
INVARIANT Inv
