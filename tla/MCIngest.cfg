SPECIFICATION Spec
CONSTANTS
  Sources = {s1}
  Kinds = {"csv", "postgres", "oracle", "mysql"}
  Columns = 2
  Tables <- MCTables
  Chunk = 2
  BulkLimit = 2
  MaxRuns = 2
  NoSource = NoSource
  s1 = s1
INVARIANTS
  TypeOK
  WholeColumnProfiled
  TableSizeCounted
  TextMatchesProfile
  TextSentWithProfile
  CountedIsStored
PROPERTIES
  JobEnds
CHECK_DEADLOCK FALSE
