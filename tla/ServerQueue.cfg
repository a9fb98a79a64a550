SPECIFICATION FairSpec
CONSTANTS
  r1 = r1
  r2 = r2
  r3 = r3
  r4 = r4
  Requests <- FourRequests
  MaxWorkers = 1
  MemLevels = {2}
  Keep = 1
  MaxRestarts = 0
  Faults = {"worker", "conversion"}
INVARIANTS
  NoLostWakeup
PROPERTIES
  AdmissionIsFifo
  EveryRequestAnswered
