SPECIFICATION Spec
CONSTANTS
  t1 = t1
  t2 = t2
  f1 = f1
  f2 = f2
  NoTask = NoTask
  Tasks <- OneTask
  Fds <- OneFd
  Delays <- SomeDelays
  Elapsed <- UpToTwo
  TicksPerMs = 2
  MaxTicks = 4
  IntMax = 7
INVARIANTS
  PollWaitsForHead
