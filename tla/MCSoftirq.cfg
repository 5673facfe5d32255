CONSTANTS
  SOFTIRQS = {0, 3}
  NOW = {0}
  MAX_SOFTIRQ_RESTART = 2
  MaxBh = 2
SPECIFICATION FairSpec
INVARIANTS NoNesting BhExcludes CountIsContext NoStranded
PROPERTIES SoftirqReturns PendingServed
