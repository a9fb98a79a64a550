SPECIFICATION FairSpec
CONSTANTS
  a1 = a1
  a2 = a2
  a3 = a3
  Calls <- ThreeCalls
  Args <- SomeArgs
  Mixes <- SomeMixes
  Lower <- Lowered
  Workers = 2
  MaxRetries = 1
  Faults = {"cancel"}
INVARIANTS
  PermitsAccounted
  LimitIsKept
  DefaultServiceUnderstands
PROPERTIES
  EveryCallEnds
