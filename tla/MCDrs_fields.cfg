SPECIFICATION Spec
CONSTANTS
  Nothing = Nothing
  f1 = f1
  f2 = f2
  f3 = f3
  t1 = t1
  t2 = t2
  Objects = {a, b}
  Fields <- MCFields
  Tables <- MCTables
  TableOf <- MCTableOf
  Network <- AllKnown
  Similar <- MCSimilar
  Calls = {"similar_to", "schema_neighbors_of", "drs_expand_to_table", "traverse",
           "union", "intersection", "difference", "print"}
  MaxHits = 2
  MaxHops = 2
  MaxCalls = 4
INVARIANTS
  CursorsAtRest
  TableViewFresh
PROPERTIES
  AnswersWholeInput
