CONSTANTS
  CPUS = {c1, c2}
  TASKS = {k1, k2}
  TASKLETS = {t1}
  KILLABLE = {}
  NULL = NULL
  MaxSched = 2
  MaxStop = 2
SPECIFICATION FairSpec
CHECK_DEADLOCK FALSE
INVARIANTS Serialized NoBug SchedIsToken DisableExcludes KillQuiesces QueuedIsRaised
PROPERTIES ImplementsService ScheduledExecutes KillReturns DisableReturns
