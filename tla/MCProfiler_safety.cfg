SPECIFICATION SafetySpec
CONSTANTS
  NoTask = NoTask
  Sources = {s1, s2, s3}
  Workers = {w1, w2, w3}
  Columns = 2
  Faults <- AllFaults
SYMMETRY Symmetry
INVARIANTS
  TypeOK
  Inductive
  NoWorkAfterTeardown
  JobSettled
  ProfilesAllOrNothing
  FinalTotals
  RecordsNameFinishedSources
PROPERTY
  ImplementsJob
