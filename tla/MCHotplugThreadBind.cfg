CONSTANTS
  CPUS = {0, 1}
  THREADS = {0, 1}
SPECIFICATION Spec
INVARIANT BindFindsInactive
