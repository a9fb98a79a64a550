SPECIFICATION Spec
CONSTANTS
  r1 = r1
  r2 = r2
  r3 = r3
  r4 = r4
  Requests <- ThreeRequests
  MaxWorkers = 1
  MemLevels = {0, 3}
  Keep = 2
  MaxRestarts = 1
  Faults = {"disk", "conversion", "worker", "kill", "psutil"}
SYMMETRY Interchangeable
INVARIANTS
  PermitsConserved
  UploadsReclaimed
  InputOutlivesTask
  MetricsAgree
  SuccessIsPublished
PROPERTIES
  ImplementsService
