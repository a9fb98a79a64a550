SPECIFICATION PathSpec
CONSTANTS
  c1 = c1
  c2 = c2
  proxy = proxy
  s1 = s1
  none = none
  Clients <- Everybody
  Limit = 2
  Window = 2
  Interval = 3
  Batch = 1
  ClockSteps = {}
  MaxTime = 4
  Slots <- OneSlot
  Requests <- SomeRequests
  Nothing = none
  Trusted <- OneProxy
  Wildcard = FALSE
  MaxBody = 2
  Published <- Files
INVARIANT
  DocumentedFilesAreServed
