SPECIFICATION FairSpec
CONSTANTS
  t1 = t1
  t2 = t2
  Tasks <- TwoTasks
  Process <- SameProcess
  Count = 3
  NoData <- SecondPicture
  Faults <- AllFaults
INVARIANTS
  LinksResolve
  ReturnLeavesNoRemains
PROPERTIES
  EveryTaskEnds
  ImplementsTask
