SPECIFICATION FairSpec
CONSTANTS
  t1 = t1
  t2 = t2
  f1 = f1
  f2 = f2
  NoTask = NoTask
  Tasks <- TwoTasks
  Fds <- TwoFds
  Delays <- ShortDelays
  Elapsed <- UpToOne
  TicksPerMs = 2
  MaxTicks = 2
  IntMax = 7
PROPERTIES
  StopReturns
  MeasuredTaskSettles
