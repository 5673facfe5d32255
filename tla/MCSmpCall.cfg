CONSTANTS
  CPUS = {0, 1, 2}
  OBJS = {0}
  MASKS = {{0, 1, 2}}
  CALLERS = {0, 1}
  SENDERS = {1}
  HOTPLUG = {1}
  MaxCalls = 2
  MaxAsync = 1
SPECIFICATION FairSpec
INVARIANTS NoLostIpi CsdOwned WaitedRan
PROPERTY CallReturns
