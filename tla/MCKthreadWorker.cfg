CONSTANTS
  WORKS = {w}
  DWORKS = {d}
  CALLERS = {p, q, r}
  NoWork = NoWork
  Synchronized = TRUE
SPECIFICATION FairSpec
INVARIANTS TimerFindsWork FlushWaits
PROPERTIES CancelDone OperationsReturn
