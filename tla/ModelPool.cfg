SPECIFICATION Spec
CONSTANTS
  t1 = t1
  t2 = t2
  t3 = t3
  ocr = ocr
  formula = formula
  code = code
  Threads <- ThreeThreads
  Settings <- ThreeSettings
  MaxSize = 2
  MaxBuilds = 3
SYMMETRY Interchangeable
INVARIANTS
  OneConverterPerKey
PROPERTIES
  ImplementsLRU
