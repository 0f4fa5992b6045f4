CONSTANTS
  Worker = {w1, w2, w3}
  MaxForks = 2
SPECIFICATION Spec
INVARIANTS GCThreadsTypeOK NoThreadAcrossFork OneHandlePerThread DeathsAreNoticed
PROPERTIES ForkCompletes
CHECK_DEADLOCK FALSE
