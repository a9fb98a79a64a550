SPECIFICATION Spec
CONSTANTS
  t1 = t1
  t2 = t2
  t3 = t3
  ocr = ocr
  formula = formula
  code = code
  Threads <- TwoThreads
  Settings <- TwoSettings
  MaxSize = 1
  MaxBuilds = 2
INVARIANTS
  ServesRequestedConfiguration
