SPECIFICATION TimesSpec
CONSTANTS
  t1 = t1
  t2 = t2
  f1 = f1
  NoTask = NoTask
  Tasks <- MCTasks
  Fds <- MCFds
  Delays <- MCDelays
  Elapsed <- MCElapsed
  TicksPerMs = 2
  MaxTicks = 4
  IntMax = 2
INVARIANTS
  QueueInOrder
  TimeoutTellsPending
  PollNeverShort
PROPERTIES
  NotEarly
  ImplementsTimers
