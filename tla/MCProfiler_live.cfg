SPECIFICATION Spec
CONSTANTS
  NoTask = NoTask
  Sources = {s1, s2}
  Workers = {w1, w2}
  Columns = 1
  Faults <- AllFaults
PROPERTIES
  JobFinishesOrDies
  ImplementsLiveJob
  ErrorsReachTheLog
  SurvivorsDrainTheQueue
