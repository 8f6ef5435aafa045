SPECIFICATION ListSpec
CONSTANTS
  t1 = t1
  t2 = t2
  t3 = t3
  NoTask = NoTask
  Tasks <- MCTasks
  Delays <- MCDelays
  Elapsed <- MCElapsed
INVARIANTS
  ListEnds
PROPERTIES
  ImplementsTaskQueue
