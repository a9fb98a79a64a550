SPECIFICATION PathSpec
CONSTANTS
  c1 = c1
  c2 = c2
  proxy = proxy
  s1 = s1
  none = none
  Clients <- Everybody
  Limit = 2
  Window = 2
  Interval = 3
  Batch = 1
  ClockSteps <- SmallStepBack
  MaxTime = 6
  Slots <- OneSlot
  Requests <- SomeRequests
  Nothing = none
  Trusted <- OneProxy
  Wildcard = FALSE
  MaxBody = 2
  Published <- Files
SYMMETRY Interchangeable
INVARIANTS
  AtMostLimitPerWindow
  OversizedStopsEarly
  LimitIsSpentOnHandling
PROPERTIES
  RefusalsAreDeserved
  CountedAtTheSender
