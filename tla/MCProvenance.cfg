SPECIFICATION Spec
CONSTANTS
  Objects = {a, b}
  Fields <- MCFields
  Lookups = {k1, k2}
  Operations <- MCOperations
  Found <- MCFound
  MaxHits = 1
  MaxCalls = 5
  a = a
  b = b
  k1 = k1
  k2 = k2
  f1 = f1
  f2 = f2
  f3 = f3
INVARIANTS
  TypeOK
  EveryResultExplained
  CoverageDefined
CHECK_DEADLOCK FALSE
