CONSTANTS
  CPUS = {0, 1}
  THREADS = {0, 1}
SPECIFICATION FairSpec
INVARIANTS CreateFreedOnce OnItsCpu ParkHolds
PROPERTY OperationsReturn
