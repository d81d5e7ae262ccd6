SPECIFICATION SafetySpec
CONSTANTS
  Nothing = Nothing
  f1 = f1
  f2 = f2
  f3 = f3
  t1 = t1
  t2 = t2
  Objects = {a, b}
  Fields <- MCFields
  Tables <- MCTables
  TableOf <- MCTableOf
  Network <- AllKnown
  Similar <- MCSimilar
  Calls = {"paths_between", "similar_to"}
  MaxHits = 2
  MaxHops = 2
  MaxCalls = 4
PROPERTY
  AnswersWholeInput
