--------------------------- MODULE EventLoopProofs ---------------------------
(***************************************************************************)
(* Proofs about the loop with its two backends.  EventLoop implements      *)
(* TaskQueue and Descriptors, so that everything proved about these holds  *)
(* for the loop as a whole, and run() ends exactly when it should.         *)
(* In LoopTimes no task runs early that was armed outside of a             *)
(* descriptor's callback.                                                  *)
(* SelectLoop serves every descriptor that was ready.                      *)
(***************************************************************************)
EXTENDS LoopTimes, SelectLoop, TaskQueueProofs, DescriptorsProofs, WellFoundedInduction

\* The time of an iteration stays within its bound, so that the milliseconds
\* StartTasks passes on are among those TaskQueue allows.
TicksInv == ticks \in 0..MaxTicks

LEMMA TicksBounded == Spec => []TicksInv
<1>1. Init => TicksInv
  BY LoopAssumption DEF Init, TicksInv
<1>2. TicksInv /\ [Next]_vars => TicksInv'
  <2> SUFFICES ASSUME TicksInv, [Next]_vars PROVE TicksInv'
    OBVIOUS
  <2>1. CASE Poll
    BY <2>1, LoopAssumption DEF Poll, PollEvents, PollTimesOut, TicksInv
  <2>2. CASE Tick
    BY <2>2, LoopAssumption DEF Tick, TicksInv
  <2>3. CASE DispatchMissing \/ HandlerFails \/ StartTasks
    BY <2>3, LoopAssumption DEF DispatchMissing, HandlerFails, StartTasks, TicksInv
  <2>4. CASE \/ CallApi \/ Stop \/ RunCall \/ PollInterrupted \/ TaskFails
             \/ Dispatch \/ HandlerReturns \/ RunTask \/ TaskReturns \/ EndIteration
             \/ UNCHANGED vars
    BY <2>4 DEF CallApi, Stop, RunCall, PollInterrupted, TaskFails, Dispatch,
                HandlerReturns, RunTask, TaskReturns, EndIteration, vars, loopVars, TicksInv
  <2>5. QED
    BY <2>1, <2>2, <2>3, <2>4 DEF Next, Steps
<1>3. QED
  BY <1>1, <1>2, PTL DEF Spec

LEMMA StepOfTasks == TicksInv /\ [Next]_vars => [TaskNext]_taskVars
<1> SUFFICES ASSUME TicksInv, [Next]_vars PROVE [TaskNext]_taskVars
  OBVIOUS
<1>1. CASE CallApi
  BY <1>1 DEF CallApi, CallTasks, CallHandles, Clean, TaskNext
<1>2. CASE StartTasks
  <2>1. ElapsedMs \in Elapsed
    BY LoopAssumption DEF ElapsedMs, TicksInv
  <2>2. Process(ElapsedMs)
    BY <1>2 DEF StartTasks
  <2>3. QED
    BY <2>1, <2>2 DEF TaskNext
<1>3. CASE RunTask \/ TaskReturns \/ TaskFails \/ EndIteration
  BY <1>3 DEF RunTask, TaskReturns, TaskFails, EndIteration, TaskNext
<1>4. CASE \/ Stop \/ RunCall \/ Poll \/ PollInterrupted \/ Dispatch \/ DispatchMissing
           \/ HandlerReturns \/ HandlerFails \/ Tick \/ UNCHANGED vars
  BY <1>4 DEF Stop, RunCall, Poll, PollEvents, PollTimesOut, PollInterrupted, Dispatch,
              DispatchMissing, HandlerReturns, HandlerFails, Tick, vars
<1>5. QED
  BY <1>1, <1>2, <1>3, <1>4 DEF Next, Steps

LEMMA StepOfHandles == [Next]_vars => [HandleNext]_handleVars
<1> SUFFICES ASSUME [Next]_vars PROVE [HandleNext]_handleVars
  OBVIOUS
<1>1. CASE CallApi
  BY <1>1 DEF CallApi, CallTasks, CallHandles, Clean, HandleNext
<1>2. CASE \/ Stop \/ RunCall \/ Poll \/ PollInterrupted \/ Dispatch \/ DispatchMissing
           \/ HandlerReturns \/ HandlerFails \/ Tick \/ StartTasks \/ RunTask
           \/ TaskReturns \/ TaskFails \/ EndIteration \/ UNCHANGED vars
  BY <1>2 DEF Stop, RunCall, Poll, PollEvents, PollTimesOut, PollInterrupted, Dispatch,
              DispatchMissing, HandlerReturns, HandlerFails, Tick, StartTasks, RunTask,
              TaskReturns, TaskFails, EndIteration, vars
<1>3. QED
  BY <1>1, <1>2 DEF Next, Steps

\* The loop uses its tasks only through the operations of t_ael_tsk.c.
THEOREM LoopImplementsTasks == Spec => TaskSpec
<1>1. Init => TaskInit
  BY DEF Init
<1>2. QED
  BY <1>1, StepOfTasks, TicksBounded, PTL DEF Spec, TaskSpec

\* The loop uses its descriptors only through addHandle, removeHandle and
\* clean.
THEOREM LoopImplementsHandles == Spec => HandleSpec
<1>1. Init => HandleInit
  BY DEF Init
<1>2. QED
  BY <1>1, StepOfHandles, PTL DEF Spec, HandleSpec

\* What is proved of the tasks holds in the running loop ...
THEOREM LoopTasks ==
  Spec => [](QueueInOrder /\ TimeoutTellsPending /\ PollNeverShort)
<1>1. QED
  BY LoopImplementsTasks, TasksInOrder, TimeoutTells, TimeoutNeverShort, PTL

\* ... what Timers promises too ...
THEOREM LoopImplementsTimers == Spec => ImplementsTimers
BY LoopImplementsTasks, QueueImplementsTimers, PTL

\* ... and what is proved of the descriptors.
THEOREM LoopHandles == Spec => [](CountMatchesNodes /\ KernelAgrees /\ ReadHasCallback)
<1>1. QED
  BY LoopImplementsHandles, CountIsExact, KernelFollows, ReadCallback, PTL

\* When no delay is negative, run() returns from the end of an iteration
\* exactly when it was stopped or has neither a task nor a descriptor left:
\* ael->tout and fdCount are as good as the list and the table.
THEOREM RunEndsWhenDone ==
  ASSUME \A ms \in Delays : ms >= 0
  PROVE  Spec => EndsWhenDone
<1> DEFINE A == at = "tasks" /\ at' # "tasks" /\ running = NoTask =>
                  (at' = "lua" <=> ~run \/ (queue = <<>> /\ Observed = {}))
           Known == /\ HandleInv /\ EmptyHasNoTimeout /\ PendingHasTimeout
<1>1. Known /\ [Next]_vars => [A]_vars
  <2> SUFFICES ASSUME Known, Next, at = "tasks", at' # "tasks", running = NoTask
               PROVE  at' = "lua" <=> ~run \/ (queue = <<>> /\ Observed = {})
    OBVIOUS
  <2>1. EndIteration
    BY DEF Next, Steps, CallApi, loopVars, Stop, RunCall, Poll, PollEvents, PollTimesOut,
           PollInterrupted, Dispatch, DispatchMissing, HandlerReturns, HandlerFails, Tick,
           StartTasks, RunTask, TaskReturns, TaskFails, CallbackFails
  <2>2. at' = IF GoesOn THEN "poll" ELSE "lua"
    BY <2>1 DEF EndIteration
  <2>3. tout = NoTimeout <=> queue = <<>>
    BY DEF EmptyHasNoTimeout, PendingHasTimeout, NoTimeout
  <2>4. fdCount < 1 <=> Observed = {}
    <3>1. IsFiniteSet(Observed)
      BY FdsAssumption, FS_Subset DEF HandleInv, HandleTypeOK
    <3>2. Cardinality(Observed) = 0 <=> Observed = {}
      BY <3>1, FS_EmptySet
    <3>3. fdCount = Cardinality(Observed) /\ fdCount \in Nat
      BY DEF HandleInv, CountMatchesNodes, HandleTypeOK
    <3>4. QED
      BY <3>2, <3>3
  <2>5. QED
    BY <2>2, <2>3, <2>4 DEF GoesOn
<1>2. Spec => []Known
  BY LoopImplementsTasks, LoopImplementsHandles, HandleInvariant, EmptyListHasNoTimeout,
     PendingTimeout, PTL
<1> HIDE DEF Known
<1>3. EndsWhenDone <=> [][A]_vars
  BY DEF EndsWhenDone
<1> HIDE DEF A
<1>4. QED
  BY <1>1, <1>2, <1>3, PTL DEF Spec

-----------------------------------------------------------------------------
(***************************************************************************)
(* LoopTimes: no task that was armed outside of a descriptor's callback    *)
(* runs before its time, for all delays, ticks and orders of calls.        *)
(*                                                                         *)
(* What a task really has to wait, with what this iteration has taken so   *)
(* far, is never more than what the list says it has to wait: time is      *)
(* taken off the list in whole milliseconds, and off the task in full.     *)
(* That holds since the time of an iteration starts at zero where tasks    *)
(* are armed, except in the callbacks of descriptors.                      *)
(***************************************************************************)
OnTime ==
  \A e \in EntrySet(queue) :
    e.task \notin byHandler =>
      remains[e.task] <= 0 \/ remains[e.task] + ticks <= e.tout * TicksPerMs

PlaceInv ==
  /\ at \notin {"events", "handler"} => ticks = 0
  /\ running # NoTask => at = "tasks"

TimeInv ==
  /\ remains \in [Tasks -> Int]
  /\ byHandler \subseteq Tasks
  /\ PlaceInv
  /\ \A t \in Tasks : remains[t] < 0 => LuaRuns
  /\ OnTime

LEMMA PlaceKept == PlaceInv /\ [Next]_vars => PlaceInv'
<1> SUFFICES ASSUME PlaceInv, [Next]_vars PROVE PlaceInv'
  OBVIOUS
<1>1. CASE CallApi \/ Stop
  BY <1>1 DEF CallApi, Stop, PlaceInv, loopVars, CallTasks, CallHandles, Clean, AddTask,
              CancelTask, CleanTasks, taskVars
<1>2. CASE RunCall \/ Poll \/ PollInterrupted
  BY <1>2 DEF RunCall, Poll, PollEvents, PollTimesOut, PollInterrupted, PlaceInv, taskVars
<1>3. CASE Dispatch \/ DispatchMissing \/ HandlerReturns \/ HandlerFails \/ Tick
  BY <1>3 DEF Dispatch, DispatchMissing, HandlerReturns, HandlerFails, Tick, PlaceInv, taskVars
<1>4. CASE StartTasks
  BY <1>4 DEF StartTasks, Process, PlaceInv
<1>5. CASE RunTask \/ EndIteration
  BY <1>5 DEF RunTask, EndIteration, ExecuteHead, ProcessDone, PlaceInv, loopVars
<1>6. CASE TaskReturns \/ TaskFails
  BY <1>6 DEF TaskReturns, TaskFails, Finish, CallbackFails, PlaceInv, loopVars
<1>7. CASE UNCHANGED vars
  BY <1>7 DEF vars, taskVars, loopVars, PlaceInv
<1>8. QED
  BY <1>1, <1>2, <1>3, <1>4, <1>5, <1>6, <1>7 DEF Next, Steps

\* The entries of a queue and its tasks.
LEMMA QueueTasks ==
  ASSUME NEW q
  PROVE  /\ InQueue(q) = {e.task : e \in EntrySet(q)}
         /\ \A t : IsQueued(q, t) <=> t \in InQueue(q)
BY DEF InQueue, EntrySet, IsQueued

LEMMA EntriesAre ==
  ASSUME NEW q \in Seq(Entries)
  PROVE  \A e \in EntrySet(q) : e.task \in Tasks /\ e.tout \in Int
<1>1. DOMAIN q = 1..Len(q)
  BY LenProperties
<1>2. \A i \in 1..Len(q) : q[i] \in Entries
  BY ElementOfSeq
<1>3. QED
  BY <1>1, <1>2 DEF EntrySet, Entries

\* What an armed task has to wait is what its own entry says.
LEMMA WaitIs ==
  ASSUME IInv', NEW e \in EntrySet(queue')
  PROVE  Wait(e.task) = e.tout * TicksPerMs
<1> DEFINE q == queue'
           c == CHOOSE i \in DOMAIN q : q[i].task = e.task
<1>1. PICK k \in DOMAIN q : q[k] = e
  BY DEF EntrySet
<1>2. c \in DOMAIN q /\ q[c].task = e.task
  BY <1>1
<1>3. NoTaskTwice(q)
  BY DEF IInv, QueueGood
<1>4. Wait(e.task) = q[c].tout * TicksPerMs
  BY DEF Wait
<1> HIDE DEF c, q
<1>5. c = k
  BY <1>1, <1>2, <1>3 DEF NoTaskTwice
<1>6. QED
  BY <1>1, <1>4, <1>5

\* What a step does to the entries of tasks that it does not arm: each was there
\* before, and was not aged by more than the time this iteration gives up.
Aged(q, r, armed, before, after) ==
  \A e \in EntrySet(r) :
    e.task \in armed
    \/ \E d \in EntrySet(q) :
         /\ d.task = e.task
         /\ (d.tout * TicksPerMs) - before <= (e.tout * TicksPerMs) - after

\* A queue that lost entries, or gained armed ones, was not aged.
LEMMA FewerAged ==
  ASSUME NEW q \in Seq(Entries), NEW r, NEW armed, NEW n \in Nat, NEW m \in Nat, m <= n,
         \A e \in EntrySet(r) : e \in EntrySet(q) \/ e.task \in armed
  PROVE  Aged(q, r, armed, n, m)
<1> SUFFICES ASSUME NEW e \in EntrySet(r), e.task \notin armed
             PROVE  \E d \in EntrySet(q) :
                      /\ d.task = e.task
                      /\ (d.tout * TicksPerMs) - n <= (e.tout * TicksPerMs) - m
  BY DEF Aged
<1>1. e \in EntrySet(q) /\ e.tout \in Int
  BY EntriesAre
<1> DEFINE x == e.tout * TicksPerMs
<1>2. x \in Int
  BY <1>1, LoopAssumption
<1> HIDE DEF x
<1>3. x - n <= x - m
  BY <1>2
<1>4. QED
  BY <1>1, <1>3 DEF x

\* Whole milliseconds are no more than the ticks they are made of.
LEMMA WholeMs ==
  ASSUME NEW n \in Nat
  PROVE  n \div TicksPerMs \in Nat /\ (n \div TicksPerMs) * TicksPerMs <= n
<1>1. TicksPerMs \in Nat \ {0}
  BY LoopAssumption
<1>2. QED
  BY <1>1

LEMMA Scaled ==
  ASSUME NEW a \in Int, NEW b \in Int, NEW c \in Int, NEW n \in Int,
         a - b <= c, b * TicksPerMs <= n
  PROVE  (a * TicksPerMs) - n <= (c * TicksPerMs) - 0
<1> DEFINE T == TicksPerMs
<1>1. T \in Nat \ {0}
  BY LoopAssumption
<1> HIDE DEF T
<1>2. (a - b) * T <= c * T
  BY <1>1
<1>3. (a - b) * T = (a * T) - (b * T)
  BY <1>1
<1>4. a * T \in Int /\ b * T \in Int /\ c * T \in Int
  BY <1>1
<1>5. QED
  BY <1>2, <1>3, <1>4 DEF T

LEMMA AdjustedAged ==
  ASSUME NEW q, NEW to, QueueGood(q, to), NEW n \in Nat, NEW armed
  PROVE  Aged(q, Adjusted(q, n \div TicksPerMs), armed, n, 0)
<1> DEFINE et == n \div TicksPerMs
           r == Adjusted(q, et)
<1>1. et \in Nat /\ et * TicksPerMs <= n
  BY WholeMs
<1> HIDE DEF et
<1>2. /\ q \in Seq(Entries) /\ r \in Seq(Entries) /\ Len(r) = Len(q)
      /\ \A i \in 1..Len(q) :
           /\ r[i] = Entry(q[i].task, IF q[i].tout - et > 0 THEN q[i].tout - et ELSE 0)
           /\ q[i].tout \in Int
  BY <1>1, AdjustedKeeps DEF QueueGood
<1>3. DOMAIN q = 1..Len(q) /\ DOMAIN r = 1..Len(q)
  BY <1>2, LenProperties
<1> HIDE DEF r
<1> SUFFICES ASSUME NEW e \in EntrySet(r)
             PROVE  \E d \in EntrySet(q) :
                      /\ d.task = e.task
                      /\ (d.tout * TicksPerMs) - n <= (e.tout * TicksPerMs) - 0
  BY DEF Aged, r, et
<1>4. PICK i \in 1..Len(q) : e = r[i]
  BY <1>3 DEF EntrySet
<1> DEFINE d == q[i]
<1>5. d \in EntrySet(q) /\ d.tout \in Int
  BY <1>2, <1>3 DEF EntrySet
<1>6. e = Entry(d.task, IF d.tout - et > 0 THEN d.tout - et ELSE 0)
  BY <1>2, <1>4
<1> HIDE DEF d
<1>7. e.task = d.task /\ e.tout \in Int /\ d.tout - et <= e.tout
  BY <1>1, <1>5, <1>6 DEF Entry
<1>8. (d.tout * TicksPerMs) - n <= (e.tout * TicksPerMs) - 0
  <2>1. d.tout \in Int /\ et \in Int /\ e.tout \in Int /\ n \in Int
    BY <1>1, <1>5, <1>7
  <2>2. d.tout - et <= e.tout /\ et * TicksPerMs <= n
    BY <1>1, <1>7
  <2>3. QED
    BY <2>1, <2>2, Scaled
<1>9. QED
  BY <1>5, <1>7, <1>8

\* What a step may do to the entries: age them all at the start of a pass, or else take
\* some away and arm some.
LEMMA StepEntries ==
  ASSUME IInv, [Next]_vars, ~StartTasks
  PROVE  \A e \in EntrySet(queue') : e \in EntrySet(queue) \/ e.task \in Armed
<1>0. queue \in Seq(Entries) /\ Sorted(queue) /\ NoTaskTwice(queue)
  BY DEF IInv, QueueGood
<1>1. ASSUME NEW t \in Tasks, NEW ms \in Delays, AddTask(t, ms)
      PROVE  \A e \in EntrySet(queue') : e \in EntrySet(queue) \/ e.task \in Armed
  <2>1. ms \in Int /\ ~IsQueued(queue, t) /\ queue' = Inserted(queue, t, ms)
    BY <1>1, TaskAssumption DEF AddTask
  <2>2. EntrySet(queue') = EntrySet(queue) \cup {Entry(t, ms)}
    BY <1>0, <2>1, InsertedKeeps
  <2>3. Entry(t, ms).task = t
    BY DEF Entry
  <2>4. t \in InQueue(queue') /\ t \notin InQueue(queue)
    BY <2>1, <2>2, <2>3, QueueTasks
  <2>5. t \in Armed
    BY <2>4 DEF Armed
  <2>6. QED
    BY <2>2, <2>3, <2>5
<1>2. ASSUME NEW t \in Tasks, CancelTask(t)
      PROVE  \A e \in EntrySet(queue') : e \in EntrySet(queue) \/ e.task \in Armed
  <2>1. queue' = Removed(queue, t)
    BY <1>2 DEF CancelTask
  <2>2. EntrySet(queue') = {e \in EntrySet(queue) : e.task # t}
    BY <1>0, <2>1, RemovedKeeps
  <2>3. QED
    BY <2>2
<1>3. CASE CleanTasks
  <2>1. queue' = <<>> /\ DOMAIN <<>> = {}
    BY <1>3, EmptySeq DEF CleanTasks
  <2>2. QED
    BY <2>1 DEF EntrySet
<1>4. CASE queue' = queue
  BY <1>4
<1>5. ASSUME NEW ms \in Delays \cup {0}, Finish(ms)
      PROVE  \A e \in EntrySet(queue') : e \in EntrySet(queue) \/ e.task \in Armed
  <2> DEFINE rest == Removed(queue, running)
  <2>1. /\ rest \in Seq(Entries) /\ Sorted(rest) /\ NoTaskTwice(rest)
        /\ ~IsQueued(rest, running)
        /\ EntrySet(rest) = {e \in EntrySet(queue) : e.task # running}
    BY <1>0, RemovedKeeps
  <2>2. running \in Tasks /\ running' = NoTask /\ ms \in Int
    BY <1>5, TaskAssumption DEF Finish, IInv
  <2>3. CASE ms < 1
    <3>1. queue' = rest
      BY <1>5, <2>3 DEF Finish
    <3>2. QED
      BY <2>1, <3>1
  <2>4. CASE ~(ms < 1)
    <3>1. queue' = Inserted(rest, running, ms)
      BY <1>5, <2>4 DEF Finish
    <3> HIDE DEF rest
    <3>2. EntrySet(queue') = EntrySet(rest) \cup {Entry(running, ms)}
      BY <2>1, <2>2, <3>1, InsertedKeeps
    <3>3. Entry(running, ms).task = running
      BY DEF Entry
    <3>4. running \in InQueue(queue')
      BY <3>2, <3>3, QueueTasks
    <3>5. running \in Armed
      BY <2>2, <3>4 DEF Armed
    <3>6. QED
      BY <2>1, <3>2, <3>3, <3>5
  <2>5. QED
    BY <2>3, <2>4
<1>6. CASE CallApi
  BY <1>1, <1>2, <1>3, <1>4, <1>6 DEF CallApi, CallTasks, CallHandles, Clean, taskVars
<1>7. CASE TaskReturns
  BY <1>5, <1>7 DEF TaskReturns
<1>8. CASE \/ Stop \/ RunCall \/ Poll \/ PollInterrupted \/ Dispatch \/ DispatchMissing
           \/ HandlerReturns \/ HandlerFails \/ Tick \/ RunTask \/ TaskFails \/ EndIteration
           \/ UNCHANGED vars
  BY <1>4, <1>8 DEF Stop, RunCall, Poll, PollEvents, PollTimesOut, PollInterrupted, Dispatch,
              DispatchMissing, HandlerReturns, HandlerFails, Tick, RunTask, ExecuteHead,
              TaskFails, CallbackFails, EndIteration, ProcessDone, taskVars, vars
<1>9. QED
  BY <1>6, <1>7, <1>8 DEF Next, Steps

\* The time that an iteration has taken and that this step does not take off the tasks.
LEMMA Given ==
  ASSUME NEW a \in Nat, NEW b \in Nat, NEW p, p = IF b > a THEN b - a ELSE 0
  PROVE  p \in Nat /\ b - p \in Nat /\ b - p <= a /\ (b = 0 => b - p = 0)
OBVIOUS

LEMMA TicksGivenUp ==
  ASSUME TicksInv, TicksInv'
  PROVE  /\ ticks \in Nat /\ ticks' \in Nat /\ Passed \in Nat
         /\ ticks' - Passed \in Nat /\ ticks' - Passed <= ticks
         /\ ticks' = 0 => ticks' - Passed = 0
<1>1. ticks \in Nat /\ ticks' \in Nat
  BY LoopAssumption DEF TicksInv
<1>2. Passed = IF ticks' > ticks THEN ticks' - ticks ELSE 0
  BY DEF Passed
<1>3. PICK a \in Nat, b \in Nat : a = ticks /\ b = ticks'
  BY <1>1
<1>4. PICK p : p = Passed
  OBVIOUS
<1>5. p = IF b > a THEN b - a ELSE 0
  BY <1>2, <1>3, <1>4
<1>6. p \in Nat /\ b - p \in Nat /\ b - p <= a /\ (b = 0 => b - p = 0)
  BY <1>5, Given
<1>7. QED
  BY <1>3, <1>4, <1>6

LEMMA StepAges ==
  ASSUME IInv, TicksInv, TicksInv', [Next]_vars
  PROVE  Aged(queue, queue', Armed, ticks, ticks' - Passed)
<1>1. /\ ticks \in Nat /\ ticks' - Passed \in Nat /\ ticks' - Passed <= ticks
      /\ ticks' = 0 => ticks' - Passed = 0
  BY TicksGivenUp
<1>2. CASE StartTasks
  <2>1. queue' = Adjusted(queue, ticks \div TicksPerMs)
    BY <1>2 DEF StartTasks, Process, ElapsedMs
  <2>2. QueueGood(queue, tout)
    BY DEF IInv
  <2>3. Aged(queue, Adjusted(queue, ticks \div TicksPerMs), Armed, ticks, 0)
    BY <1>1, <2>2, AdjustedAged
  <2>4. ticks' = 0
    BY <1>2 DEF StartTasks
  <2>5. QED
    BY <1>1, <2>1, <2>3, <2>4
<1>3. CASE ~StartTasks
  <2>1. queue \in Seq(Entries)
    BY DEF IInv, QueueGood
  <2>2. \A e \in EntrySet(queue') : e \in EntrySet(queue) \/ e.task \in Armed
    BY <1>3, StepEntries
  <2>3. QED
    BY <1>1, <2>1, <2>2, FewerAged
<1>4. QED
  BY <1>2, <1>3

\* A step that arms a task is a callback's, whose time is measured from here on, or that
\* of a descriptor's callback; and what it arms waits, or Lua code goes on.
LEMMA ArmedSteps ==
  ASSUME IInv, IInv', PlaceInv, [Next]_vars, NEW t \in Armed
  PROVE  /\ t \in Tasks /\ t \in InQueue(queue')
         /\ at = "handler" \/ (ticks = 0 /\ ticks' = 0)
         /\ LuaRuns' \/ Wait(t) >= 0
<1>0. /\ queue \in Seq(Entries) /\ Sorted(queue) /\ NoTaskTwice(queue)
      /\ queue' \in Seq(Entries)
  BY DEF IInv, QueueGood
<1>1. /\ t \in InQueue(queue')
      /\ t \notin InQueue(queue) \/ (running = t /\ running' = NoTask)
  BY DEF Armed
<1>2. PICK e \in EntrySet(queue') : e.task = t
  BY <1>1, QueueTasks
<1>3. t \in Tasks /\ t # NoTask
  BY <1>0, <1>2, EntriesAre, TaskAssumption
<1>4. CASE CallApi
  <2>1. LuaRuns /\ UNCHANGED loopVars
    BY <1>4 DEF CallApi
  <2>2. UNCHANGED running
    BY <1>4 DEF CallApi, CallTasks, CallHandles, Clean, AddTask, CancelTask, CleanTasks, taskVars
  <2>3. LuaRuns'
    BY <2>1, <2>2 DEF LuaRuns, loopVars
  <2>4. at = "handler" \/ (ticks = 0 /\ ticks' = 0)
    BY <2>1 DEF LuaRuns, loopVars, PlaceInv
  <2>5. QED
    BY <1>1, <1>3, <2>3, <2>4
<1>5. CASE TaskReturns
  <2>1. PICK ms \in Delays \cup {0} : Finish(ms)
    BY <1>5 DEF TaskReturns
  <2>2. running # NoTask /\ running \in Tasks /\ ms \in Int
    BY <2>1, TaskAssumption DEF Finish, IInv
  <2>3. ticks = 0 /\ ticks' = 0
    BY <1>5, <2>2 DEF TaskReturns, loopVars, PlaceInv
  <2> DEFINE rest == Removed(queue, running)
  <2>4. /\ rest \in Seq(Entries) /\ Sorted(rest) /\ NoTaskTwice(rest)
        /\ ~IsQueued(rest, running)
        /\ EntrySet(rest) = {d \in EntrySet(queue) : d.task # running}
    BY <1>0, RemovedKeeps
  <2>5. e \notin EntrySet(rest)
    BY <1>1, <1>2, <2>4, QueueTasks
  <2>6. ms >= 1 /\ queue' = Inserted(rest, running, ms)
    <3>1. CASE ms < 1
      <4>1. queue' = rest
        BY <2>1, <3>1 DEF Finish
      <4>2. QED
        BY <1>2, <2>5, <4>1
    <3>2. CASE ~(ms < 1)
      BY <2>1, <2>2, <3>2 DEF Finish
    <3>3. QED
      BY <3>1, <3>2
  <2> HIDE DEF rest
  <2>7. EntrySet(queue') = EntrySet(rest) \cup {Entry(running, ms)}
    BY <2>2, <2>4, <2>6, InsertedKeeps
  <2>8. e = Entry(running, ms)
    BY <1>2, <2>5, <2>7
  <2>9. Wait(t) = ms * TicksPerMs
    <3>1. Wait(e.task) = e.tout * TicksPerMs
      BY WaitIs
    <3>2. QED
      BY <1>2, <2>8, <3>1 DEF Entry
  <2>10. ms * TicksPerMs >= 0
    BY <2>2, <2>6, LoopAssumption
  <2>11. QED
    BY <1>1, <1>3, <2>3, <2>9, <2>10
<1>6. CASE TaskFails
  <2>1. running # NoTask /\ at' = "lua" /\ ticks' = ticks
    BY <1>6 DEF TaskFails, CallbackFails
  <2>2. QED
    BY <1>1, <1>3, <2>1 DEF PlaceInv, LuaRuns
<1>7. CASE StartTasks
  <2>1. InQueue(queue') = InQueue(queue) /\ running' = running
    BY <1>7 DEF StartTasks, Process, Adjusted, InQueue, Entry
  <2>2. QED
    BY <1>1, <1>3, <2>1
<1>8. CASE RunTask
  <2>1. running = NoTask /\ queue' = queue
    BY <1>8 DEF RunTask, ExecuteHead
  <2>2. QED
    BY <1>1, <1>3, <2>1
<1>9. CASE \/ Stop \/ RunCall \/ Poll \/ PollInterrupted \/ Dispatch \/ DispatchMissing
           \/ HandlerReturns \/ HandlerFails \/ Tick \/ EndIteration \/ UNCHANGED vars
  <2>1. running' = running /\ queue' = queue
    BY <1>9 DEF Stop, RunCall, Poll, PollEvents, PollTimesOut, PollInterrupted, Dispatch,
                DispatchMissing, HandlerReturns, HandlerFails, Tick, EndIteration, ProcessDone,
                taskVars, vars
  <2>2. QED
    BY <1>1, <1>3, <2>1
<1>10. QED
  BY <1>4, <1>5, <1>6, <1>7, <1>8, <1>9 DEF Next, Steps

Remaining == remains' = [t \in Tasks |->
                IF t \in Armed THEN Wait(t)
                ELSE IF t \in InQueue(queue') /\ remains[t] > Passed THEN remains[t] - Passed
                ELSE 0]

LEMMA TimesStep ==
  ASSUME TimeInv, IInv, IInv', TicksInv, TicksInv', TimesNext
  PROVE  TimeInv'
<1>1. /\ [Next]_vars
      /\ Remaining
      /\ byHandler' = ((byHandler \cap InQueue(queue')) \ Armed)
                        \cup (IF at = "handler" THEN Armed ELSE {})
  BY DEF TimesNext, Remaining
<1>2. /\ remains \in [Tasks -> Int] /\ byHandler \subseteq Tasks /\ PlaceInv /\ OnTime
      /\ \A t \in Tasks : remains[t] < 0 => LuaRuns
  BY DEF TimeInv
<1>3. queue' \in Seq(Entries)
  BY DEF IInv, QueueGood
<1>4. /\ ticks \in Nat /\ ticks' \in Nat /\ Passed \in Nat
      /\ ticks' - Passed \in Nat /\ ticks' - Passed <= ticks
  BY TicksGivenUp
<1>5. \A t \in Armed :
        /\ t \in Tasks /\ t \in InQueue(queue')
        /\ at = "handler" \/ (ticks = 0 /\ ticks' = 0)
        /\ LuaRuns' \/ Wait(t) >= 0
  BY <1>1, <1>2, ArmedSteps
<1>6. \A t \in Armed : \E e \in EntrySet(queue') :
        e.task = t /\ e.tout \in Int /\ Wait(t) = e.tout * TicksPerMs
  <2> SUFFICES ASSUME NEW t \in Armed
               PROVE  \E e \in EntrySet(queue') :
                        e.task = t /\ e.tout \in Int /\ Wait(t) = e.tout * TicksPerMs
    OBVIOUS
  <2>1. PICK e \in EntrySet(queue') : e.task = t
    BY <1>5, QueueTasks
  <2>2. e.tout \in Int /\ Wait(e.task) = e.tout * TicksPerMs
    BY <1>3, EntriesAre, WaitIs
  <2>3. QED
    BY <2>1, <2>2
<1>7. \A t \in Armed : Wait(t) \in Int
  BY <1>6, LoopAssumption
<1>8. remains' \in [Tasks -> Int]
  BY <1>1, <1>2, <1>4, <1>7 DEF Remaining
<1>9. byHandler' \subseteq Tasks
  BY <1>1, <1>2, <1>5
<1>10. PlaceInv'
  BY <1>1, <1>2, PlaceKept
<1>11. ASSUME NEW t \in Tasks, remains'[t] < 0
       PROVE  LuaRuns'
  <2>1. t \in Armed
    <3> SUFFICES ASSUME t \notin Armed PROVE FALSE
      OBVIOUS
    <3>1. remains'[t] = IF t \in InQueue(queue') /\ remains[t] > Passed THEN remains[t] - Passed
                        ELSE 0
      BY <1>1 DEF Remaining
    <3>2. remains[t] \in Int
      BY <1>2
    <3>3. remains'[t] >= 0
      BY <1>4, <3>1, <3>2
    <3>4. remains'[t] \in Int
      BY <1>8
    <3>5. QED
      BY <1>11, <3>3, <3>4
  <2>2. remains'[t] = Wait(t)
    BY <1>1, <2>1 DEF Remaining
  <2>3. QED
    BY <1>5, <1>7, <1>11, <2>1, <2>2
<1>12. ASSUME NEW e \in EntrySet(queue'), e.task \notin byHandler'
       PROVE  remains'[e.task] <= 0 \/ remains'[e.task] + ticks' <= e.tout * TicksPerMs
  <2>1. e.task \in Tasks /\ e.tout \in Int /\ e.task \in InQueue(queue')
    BY <1>3, EntriesAre, QueueTasks
  <2> DEFINE t == e.task
             due == e.tout * TicksPerMs
  <2>2. due \in Int
    BY <2>1, LoopAssumption
  <2>3. CASE t \in Armed
    <3>1. remains'[t] = due
      <4>1. remains'[t] = Wait(t)
        BY <1>1, <2>1, <2>3 DEF Remaining
      <4>2. QED
        BY <4>1, WaitIs
    <3>2. at # "handler"
      BY <1>1, <1>12, <2>3
    <3>3. ticks' = 0
      BY <1>5, <2>3, <3>2
    <3> HIDE DEF due
    <3>4. remains'[t] + ticks' <= due
      BY <2>2, <3>1, <3>3
    <3>5. QED
      BY <3>4 DEF due
  <2>4. CASE t \notin Armed
    <3>1. t \notin byHandler
      BY <1>1, <1>12, <2>1, <2>4
    <3>2. Aged(queue, queue', Armed, ticks, ticks' - Passed)
      BY <1>1, StepAges
    <3>3. PICK d \in EntrySet(queue) :
            d.task = t /\ (d.tout * TicksPerMs) - ticks <= due - (ticks' - Passed)
      BY <2>4, <3>2 DEF Aged
    <3>4. remains[t] <= 0 \/ remains[t] + ticks <= d.tout * TicksPerMs
      BY <1>2, <3>1, <3>3 DEF OnTime
    <3>5. remains'[t] = IF remains[t] > Passed THEN remains[t] - Passed ELSE 0
      BY <1>1, <2>1, <2>4 DEF Remaining
    <3>6. remains[t] \in Int
      BY <1>2, <2>1
    <3>7. d.tout * TicksPerMs \in Int
      <4>1. d.tout \in Int
        BY EntriesAre DEF IInv, QueueGood
      <4>2. QED
        BY <4>1, LoopAssumption
    <3> DEFINE was == d.tout * TicksPerMs
    <3>8. was \in Int /\ was - ticks <= due - (ticks' - Passed)
          /\ (remains[t] <= 0 \/ remains[t] + ticks <= was)
      BY <3>3, <3>4, <3>7
    <3> HIDE DEF was, due, t
    <3>9. CASE remains[t] > Passed
      <4>1. remains'[t] = remains[t] - Passed /\ remains[t] + ticks <= was
        BY <1>4, <3>5, <3>6, <3>8, <3>9
      <4>2. remains'[t] + ticks' <= due
        BY <1>4, <2>2, <3>6, <3>8, <4>1
      <4>3. QED
        BY <4>2 DEF due, t
    <3>10. CASE ~(remains[t] > Passed)
      <4>1. remains'[t] <= 0
        BY <3>5, <3>10
      <4>2. QED
        BY <4>1 DEF t
    <3>11. QED
      BY <3>9, <3>10
  <2>5. QED
    BY <2>3, <2>4
<1>13. QED
  BY <1>8, <1>9, <1>10, <1>11, <1>12 DEF TimeInv, OnTime

LEMMA TimesStart == TimesInit => TimeInv
<1> SUFFICES ASSUME TimesInit PROVE TimeInv
  OBVIOUS
<1>1. EntrySet(queue) = {}
  BY EmptySeq DEF TimesInit, Init, TaskInit, EntrySet
<1>2. QED
  BY <1>1 DEF TimesInit, Init, TaskInit, TimeInv, PlaceInv, OnTime

\* A callback that starts is that of the head, which is due by the list.
LEMMA StartsOnTime ==
  ASSUME TimeInv, IInv, Next, NEW t \in Tasks \ byHandler, Starts(t)
  PROVE  remains[t] = 0
<1>1. running = NoTask /\ running' = t /\ t # NoTask
  BY TaskAssumption DEF Starts
<1>2. RunTask
  BY <1>1 DEF Next, Steps, CallApi, CallTasks, CallHandles, Clean, AddTask, CancelTask,
              CleanTasks, taskVars, Stop, RunCall, Poll, PollEvents, PollTimesOut,
              PollInterrupted, Dispatch, DispatchMissing, HandlerReturns, HandlerFails, Tick,
              StartTasks, Process, TaskReturns, Finish, TaskFails, CallbackFails,
              EndIteration, ProcessDone
<1>3. at = "tasks" /\ queue # <<>> /\ queue[1].tout < 1 /\ t = queue[1].task
  BY <1>1, <1>2 DEF RunTask, ExecuteHead
<1>4. queue[1] \in EntrySet(queue) /\ queue[1].tout \in Int
  BY <1>3, HeadInQueue DEF IInv, QueueGood
<1>5. ticks = 0 /\ ~LuaRuns
  BY <1>1, <1>3 DEF TimeInv, PlaceInv, LuaRuns
<1>6. remains[t] \in Int /\ ~(remains[t] < 0)
  BY <1>5 DEF TimeInv
<1> DEFINE n == queue[1].tout
<1>7. n \in Int /\ n < 1
  BY <1>3, <1>4
<1>8. n * TicksPerMs <= 0 /\ n * TicksPerMs \in Int
  <2> HIDE DEF n
  <2>1. TicksPerMs \in Nat \ {0}
    BY LoopAssumption
  <2>2. QED
    BY <1>7, <2>1
<1>9. remains[t] <= 0 \/ remains[t] + ticks <= n * TicksPerMs
  BY <1>3, <1>4 DEF TimeInv, OnTime
<1> HIDE DEF n
<1>10. QED
  BY <1>5, <1>6, <1>8, <1>9

\* t_ael_l.c: a task that addTask, or the return value of its own callback, armed outside of
\* the callbacks of descriptors never runs before its milliseconds have passed.
THEOREM TasksAreNotEarly == TimesSpec => NotEarly
<1> DEFINE A == \A t \in Tasks \ byHandler : Starts(t) => remains[t] = 0
           Known == IInv /\ TicksInv
<1>1. TimesInit /\ [][TimesNext]_timesVars => Spec
  <2>1. TimesInit => Init
    BY DEF TimesInit
  <2>2. [TimesNext]_timesVars => [Next]_vars
    BY DEF TimesNext, timesVars
  <2>3. QED
    BY <2>1, <2>2, PTL DEF Spec
<1>2. TimesSpec => []Known
  BY <1>1, LoopImplementsTasks, TaskInvariant, TicksBounded, PTL DEF TimesSpec
<1>3. TimeInv /\ Known /\ Known' /\ [TimesNext]_timesVars => TimeInv'
  <2>1. CASE TimesNext
    BY <2>1, TimesStep
  <2>2. CASE UNCHANGED timesVars
    BY <2>2 DEF timesVars, vars, taskVars, loopVars, TimeInv, PlaceInv, OnTime, LuaRuns
  <2>3. QED
    BY <2>1, <2>2
<1>4. TimeInv /\ Known /\ [TimesNext]_timesVars => [A]_timesVars
  <2>1. CASE TimesNext
    BY <2>1, StartsOnTime DEF TimesNext
  <2>2. QED
    BY <2>1
<1>5. NotEarly <=> [][A]_timesVars
  BY DEF NotEarly
<1> HIDE DEF A, Known
<1>6. QED
  BY <1>2, <1>3, <1>4, <1>5, TimesStart, PTL DEF TimesSpec

-----------------------------------------------------------------------------
(***************************************************************************)
(* SelectLoop, for every finite set of descriptors and for every value     *)
(* that fdMax and fd_set may start with: whatever the callbacks of a scan  *)
(* change, the scan misses no ready descriptor.                            *)
(***************************************************************************)

\* The numbers of which a direction is ready.
Numbers == {e[1] : e \in ready}

(***************************************************************************)
(* The inductive invariant.  What is still observed is marked and not      *)
(* above fdMax; what was ready is still watched, unless it was removed;    *)
(* the part of it behind the scan has run; and what is left of r is the    *)
(* number of directions that were ready less the descriptors that ran.     *)
(***************************************************************************)
RangeInv ==
  /\ fdMax \in Int
  /\ marks \subseteq Nat
  /\ \A fd \in Watched : fd \in marks /\ fd <= fdMax

ScanInv ==
  /\ selAt \in {"lua", "scan", "handler"}
  /\ pos \in Nat
  /\ ready \subseteq Fds \X Dir
  /\ selAt = "lua" => ready = {}
  /\ \A e \in ready : e[1] \in changed \/ (e[1] \in Watched /\ e[2] \in interest[e[1]])
  /\ \A e \in ready : e[1] < pos => e[1] \in ran \cup changed
  /\ ran \subseteq Numbers
  /\ \A fd \in ran : fd < pos
  /\ left = Cardinality(ready) - Cardinality(ran)

SelectInv == HandleInv /\ RangeInv /\ ScanInv

\* A set of natural numbers with a bound has a largest element.
LEMMA HasLargest ==
  ASSUME NEW B, B \subseteq Nat, B # {}, IsFiniteSet(B)
  PROVE  \E n \in B : \A m \in B : m <= n
<1> DEFINE Above(n) == {m \in B : m > n}
           T == {Above(n) : n \in B}
<1>1. T # {} /\ T \subseteq FiniteSubsetsOf(B)
  <2>1. \A n \in B : Above(n) \in SUBSET B
    OBVIOUS
  <2>2. \A n \in B : IsFiniteSet(Above(n))
    BY <2>1, FS_Subset
  <2>3. QED
    BY <2>1, <2>2 DEF FiniteSubsetsOf
<1>2. PICK x \in T : \A y \in T : ~ (<<y, x>> \in StrictSubsetOrdering(B))
  BY <1>1, FS_StrictSubsetOrderingWellFounded, WFMin
<1>3. PICK n \in B : x = Above(n)
  OBVIOUS
<1>4. \A m \in B : m <= n
  <2> SUFFICES ASSUME NEW m \in B, m > n PROVE FALSE
    OBVIOUS
  <2>1. Above(m) \subseteq Above(n) /\ m \in Above(n) /\ m \notin Above(m)
    <3>1. B \subseteq Int /\ m \in Int /\ n \in Int
      OBVIOUS
    <3>2. \A k \in Int : k > m => k > n
      BY <3>1
    <3>3. ~(m > m)
      BY <3>1
    <3>4. QED
      BY <3>1, <3>2, <3>3
  <2>2. <<Above(m), Above(n)>> \in StrictSubsetOrdering(B)
    BY <2>1 DEF StrictSubsetOrdering
  <2>3. QED
    BY <1>2, <1>3, <2>2
<1>5. QED
  BY <1>4

\* The largest marked number below another one, or -1.
LEMMA LargestBelowIs ==
  ASSUME NEW S, S \subseteq Nat, NEW fd \in Nat
  PROVE  /\ LargestBelow(S, fd) \in Int
         /\ \A m \in S : m < fd => m <= LargestBelow(S, fd)
<1> DEFINE B == {m \in S : m < fd}
           Q(n) == n < fd /\ \A m \in S : m < fd => m <= n
<1>1. \E n \in S \cup {-1} : Q(n)
  <2>1. CASE B = {}
    BY <2>1
  <2>2. CASE B # {}
    <3>1. IsFiniteSet(B)
      BY FS_BoundedSetOfNaturals
    <3>2. QED
      BY <2>2, <3>1, HasLargest
  <2>3. QED
    BY <2>1, <2>2
<1>2. LargestBelow(S, fd) = CHOOSE n \in S \cup {-1} : Q(n)
  BY DEF LargestBelow
<1>3. \A n \in S \cup {-1} : n \in Int
  OBVIOUS
<1>4. \A n \in S \cup {-1} : Q(n) => (n \in Int /\ \A m \in S : m < fd => m <= n)
  BY <1>3
<1> HIDE DEF Q
<1>5. LargestBelow(S, fd) \in S \cup {-1} /\ Q(LargestBelow(S, fd))
  BY <1>1, <1>2
<1>6. QED
  BY <1>4, <1>5

LEMMA SelectInitInv == SelectInit => SelectInv
<1> SUFFICES ASSUME SelectInit PROVE SelectInv
  OBVIOUS
<1>1. HandleInv
  BY HandleInitInv DEF SelectInit
<1>2. Watched = {}
  BY EmptySeq DEF SelectInit, HandleInit, Watched
<1>3. RangeInv
  BY <1>2 DEF SelectInit, RangeInv
<1>4. ScanInv
  BY FS_EmptySet DEF SelectInit, ScanInv, Numbers
<1>5. QED
  BY <1>1, <1>3, <1>4 DEF SelectInv

\* What Lua code does between two steps of a scan leaves the scan as it was.
LEMMA ScanKept ==
  ASSUME SelectInv, UNCHANGED scanVars,
         \A e \in ready : e[1] \in changed' \/ (e[1] \in Watched' /\ e[2] \in interest'[e[1]]),
         changed \subseteq changed'
  PROVE  ScanInv'
<1>1. Numbers' = Numbers
  BY DEF scanVars, Numbers
<1>2. QED
  BY <1>1 DEF SelectInv, ScanInv, scanVars

LEMMA SelectAddInv ==
  ASSUME SelectInv, NEW fd \in Fds, NEW m \in Masks, SelectAdd(fd, m)
  PROVE  SelectInv'
<1>1. AddHandle(fd, m) /\ changed' = changed /\ UNCHANGED scanVars
  BY DEF SelectAdd
<1>2. HandleInv'
  BY <1>1, AddHandleInv DEF SelectInv
<1>3. /\ Watched' = Watched \cup {fd}
      /\ \A y \in Watched : interest[y] \subseteq interest'[y]
  <2>1. interest' = Put(interest, fd, NodeOf(fd).msk \cup m)
    BY <1>1 DEF AddHandle
  <2>2. fd \in Watched => interest[fd] = NodeOf(fd).msk
    BY DEF SelectInv, HandleInv, KernelAgrees, NodeOf
  <2>3. QED
    BY <2>1, <2>2 DEF Put, Watched
<1>4. RangeInv'
  <2>1. fd \in Nat /\ fdMax \in Int /\ fdMax' = IF fd > fdMax THEN fd ELSE fdMax
    BY SelectAssumption DEF SelectInv, RangeInv, SelectAdd
  <2>2. fdMax' \in Int /\ fdMax <= fdMax' /\ fd <= fdMax'
    BY <2>1
  <2>3. Watched \subseteq Int
    BY SelectAssumption DEF SelectInv, HandleInv, HandleTypeOK
  <2>4. marks' = marks \cup {fd}
    BY DEF SelectAdd
  <2>5. \A y \in Watched : y \in marks /\ y <= fdMax'
    BY <2>1, <2>2, <2>3 DEF SelectInv, RangeInv
  <2>6. QED
    BY <1>3, <2>1, <2>2, <2>4, <2>5 DEF SelectInv, RangeInv
<1>5. ScanInv'
  <2>1. \A e \in ready : e[1] \in changed' \/ (e[1] \in Watched' /\ e[2] \in interest'[e[1]])
    BY <1>1, <1>3 DEF SelectInv, ScanInv
  <2>2. QED
    BY <1>1, <2>1, ScanKept
<1>6. QED
  BY <1>2, <1>4, <1>5 DEF SelectInv

\* The largest number stays above what stays observed.
LEMMA UnmarkKeeps ==
  ASSUME RangeInv, NEW S \in SUBSET Fds, Unmark(S), Watched \subseteq Fds,
         Watched' \subseteq Watched \ S
  PROVE  RangeInv'
<1>1. marks' = marks \ S /\ marks' \subseteq Nat /\ Watched \subseteq Int /\ fdMax \in Int
  BY SelectAssumption DEF RangeInv, Unmark
<1>2. CASE fdMax \notin S
  BY <1>1, <1>2 DEF RangeInv, Unmark
<1>3. CASE fdMax \in S
  <2>1. fdMax' = LargestBelow(marks', fdMax) /\ fdMax \in Nat
    BY <1>1, <1>3, SelectAssumption DEF Unmark
  <2> DEFINE left2 == marks'
             top == fdMax'
  <2>2. left2 \subseteq Nat /\ top = LargestBelow(left2, fdMax)
    BY <1>1, <2>1
  <2> HIDE DEF left2, top
  <2>3. top \in Int /\ \A m \in left2 : m < fdMax => m <= top
    BY <2>1, <2>2, LargestBelowIs
  <2>4. \A y \in Watched' : y \in left2 /\ y < fdMax
    BY <1>1, <1>3 DEF RangeInv, left2
  <2>5. \A y \in Watched' : y \in left2 /\ y <= top
    BY <2>3, <2>4
  <2>6. QED
    BY <1>1, <2>3, <2>5 DEF RangeInv, top, left2
<1>4. QED
  BY <1>2, <1>3

LEMMA SelectRemoveInv ==
  ASSUME SelectInv, NEW fd \in Fds, NEW m \in Masks, SelectRemove(fd, m)
  PROVE  SelectInv'
<1> DEFINE S == {fd} \ DOMAIN node'
<1>1. RemoveHandle(fd, m) /\ Unmark(S) /\ UNCHANGED scanVars
      /\ changed' = ChangedBy({fd}) /\ SelectLuaRuns
  BY DEF SelectRemove
<1>2. HandleInv'
  BY <1>1, RemoveHandleInv DEF SelectInv
<1>3. /\ Watched' \subseteq Watched \ S
      /\ \A y \in Watched : y # fd => y \in Watched' /\ interest'[y] = interest[y]
  <2>1. Watched' \subseteq Observed'
    BY <1>2 DEF HandleInv, KernelAgrees
  <2>2. CASE node[fd].msk \ m = {}
    <3>1. interest' = Drop(interest, {fd})
      BY <1>1, <2>2 DEF RemoveHandle
    <3>2. QED
      BY <2>1, <3>1 DEF Drop, Restrict, Watched, Observed
  <2>3. CASE node[fd].msk \ m # {}
    <3>1. interest' = [interest EXCEPT ![fd] = node[fd].msk \ m]
      BY <1>1, <2>3 DEF RemoveHandle
    <3>2. QED
      BY <2>1, <3>1 DEF Watched, Observed
  <2>4. QED
    BY <2>2, <2>3
<1>4. RangeInv'
  <2>1. S \in SUBSET Fds /\ Watched \subseteq Fds
    BY DEF SelectInv, HandleInv, HandleTypeOK
  <2> HIDE DEF S
  <2>2. QED
    BY <1>1, <1>3, <2>1, UnmarkKeeps DEF SelectInv
<1>5. ScanInv'
  <2>1. ready = {} \/ changed' = changed \cup {fd}
    BY <1>1 DEF SelectLuaRuns, ChangedBy, SelectInv, ScanInv
  <2>2. changed \subseteq changed'
    BY <1>1 DEF ChangedBy
  <2>3. \A e \in ready : e[1] \in changed' \/ (e[1] \in Watched' /\ e[2] \in interest'[e[1]])
    BY <1>3, <2>1 DEF SelectInv, ScanInv
  <2>4. QED
    BY <1>1, <2>2, <2>3, ScanKept
<1>6. QED
  BY <1>2, <1>4, <1>5 DEF SelectInv

LEMMA SelectCleanInv ==
  ASSUME SelectInv, SelectClean
  PROVE  SelectInv'
<1>1. CleanHandlesOf(Observed) /\ Unmark(Observed) /\ UNCHANGED scanVars
      /\ changed' = ChangedBy(Observed) /\ SelectLuaRuns
  BY DEF SelectClean
<1>2. Observed \subseteq Fds /\ Watched \subseteq Observed /\ Watched \subseteq Fds
  BY DEF SelectInv, HandleInv, HandleTypeOK, KernelAgrees
<1>3. node' = Drop(node, Observed) /\ interest' = Drop(interest, Observed) /\ torn' = torn
      /\ fdCount' = fdCount - Cardinality(Observed)
  BY <1>1 DEF CleanHandlesOf
<1>4. Observed' = {} /\ Watched' = {}
  BY <1>2, <1>3 DEF Drop, Restrict, Observed, Watched
<1>5. HandleInv'
  <2>1. fdCount' = 0
    BY <1>3, FS_Subset, FS_CardinalityType, FdsAssumption, <1>2
       DEF SelectInv, HandleInv, CountMatchesNodes
  <2>2. Cardinality(Observed') = 0
    BY <1>4, FS_EmptySet
  <2>3. QED
    BY <1>3, <1>4, <2>1, <2>2
       DEF SelectInv, HandleInv, HandleTypeOK, CountMatchesNodes, KernelAgrees, ReadHasCallback
<1>6. RangeInv'
  BY <1>1, <1>2, <1>4, UnmarkKeeps DEF SelectInv
<1>7. ScanInv'
  <2>1. ready = {} \/ changed' = changed \cup Observed
    BY <1>1 DEF SelectLuaRuns, ChangedBy, SelectInv, ScanInv
  <2>2. changed \subseteq changed'
    BY <1>1 DEF ChangedBy
  <2>3. \A e \in ready : e[1] \in changed' \/ (e[1] \in Watched' /\ e[2] \in interest'[e[1]])
    BY <1>2, <2>1 DEF SelectInv, ScanInv
  <2>4. QED
    BY <1>1, <2>2, <2>3, ScanKept
<1>8. QED
  BY <1>5, <1>6, <1>7 DEF SelectInv

\* What the counts are taken of is finite.
LEMMA PairsFinite ==
  ASSUME NEW S, S \subseteq Fds \X Dir
  PROVE  IsFiniteSet(S)
<1>1. IsFiniteSet(Dir)
  <2>1. Dir = {"read"} \cup {"write"}
    BY DEF Dir
  <2>2. QED
    BY <2>1, FS_Singleton, FS_AddElement
<1>2. IsFiniteSet(Fds \X Dir)
  BY <1>1, FdsAssumption, FS_Product
<1>3. QED
  BY <1>2, FS_Subset

LEMMA ReadyFinite == SelectInv => IsFiniteSet(ready)
  BY PairsFinite DEF SelectInv, ScanInv

LEMMA ReadyNumbers == SelectInv => \A e \in ready : e[1] \in Int
<1>1. SelectInv => \A e \in ready : e[1] \in Fds
  BY DEF SelectInv, ScanInv
<1>2. \A fd \in Fds : fd \in Int
  BY SelectAssumption
<1>3. QED
  BY <1>1, <1>2

LEMMA RanFinite == SelectInv => IsFiniteSet(ran)
<1>1. SelectInv => ran \subseteq Fds
  BY DEF SelectInv, ScanInv, Numbers
<1>2. QED
  BY <1>1, FdsAssumption, FS_Subset

LEMMA SelectPollInv ==
  ASSUME SelectInv, SelectPoll
  PROVE  SelectInv'
<1>1. /\ ready' \subseteq Watched \X Dir
      /\ \A e \in ready' : e[2] \in interest[e[1]]
      /\ left' = Cardinality(ready') /\ selAt' = "scan" /\ pos' = 0
      /\ ran' = {} /\ changed' = {}
      /\ UNCHANGED handleVars /\ fdMax' = fdMax /\ marks' = marks
  BY DEF SelectPoll
<1>2. HandleInv'
  BY <1>1, HandleNextInv DEF SelectInv
<1>3. Watched' = Watched /\ interest' = interest /\ Watched \subseteq Fds
  BY <1>1 DEF handleVars, Watched, SelectInv, HandleInv, HandleTypeOK
<1>4. RangeInv'
  BY <1>1, <1>3 DEF SelectInv, RangeInv
<1>5. ScanInv'
  <2>1. Cardinality(ready') = Cardinality(ready') - Cardinality(ran')
    <3>1. IsFiniteSet(ready')
      <4> DEFINE found == ready'
      <4>1. found \subseteq Fds \X Dir
        BY <1>1, <1>3
      <4> HIDE DEF found
      <4>2. IsFiniteSet(found)
        BY <4>1, PairsFinite
      <4>3. QED
        BY <4>2 DEF found
    <3>2. Cardinality(ready') \in Nat /\ Cardinality(ran') = 0
      BY <1>1, <3>1, FS_CardinalityType, FS_EmptySet
    <3>3. QED
      BY <3>2
  <2>2. \A e \in ready' : e[1] \in Fds
    BY <1>1, <1>3
  <2>3. \A e \in ready' : ~(e[1] < 0)
    <3>1. \A fd \in Fds : fd \in Nat
      BY SelectAssumption
    <3>2. \A fd \in Fds : ~(fd < 0)
      BY <3>1
    <3>3. QED
      BY <2>2, <3>2
  <2>4. \A e \in ready' : e[1] \in Watched /\ e[2] \in interest[e[1]]
    BY <1>1
  <2>5. QED
    BY <1>1, <1>3, <2>1, <2>3, <2>4 DEF ScanInv
<1>6. QED
  BY <1>2, <1>4, <1>5 DEF SelectInv

LEMMA ScanSkipsInv ==
  ASSUME SelectInv, ScanSkips
  PROVE  SelectInv'
<1>1. /\ selAt = "scan" /\ Due(pos) = {} /\ pos' = pos + 1
      /\ UNCHANGED <<handleVars, fdMax, marks, ready, left, selAt, ran, changed>>
  BY DEF ScanSkips
<1>2. HandleInv'
  BY <1>1, HandleNextInv DEF SelectInv
<1>3. Watched' = Watched /\ interest' = interest /\ Numbers' = Numbers
  BY <1>1 DEF handleVars, Watched, Numbers
<1>4. RangeInv'
  BY <1>1, <1>3 DEF SelectInv, RangeInv
<1>5. ScanInv'
  <2>1. \A e \in ready : e[1] \in Int
    BY ReadyNumbers
  <2>2. \A e \in ready : e[1] < pos' => e[1] < pos \/ e[1] = pos
    BY <1>1, <2>1 DEF SelectInv, ScanInv
  <2>3. \A e \in ready : e[1] = pos => e[1] \in changed
    <3> SUFFICES ASSUME NEW e \in ready, e[1] = pos, e[1] \notin changed PROVE FALSE
      OBVIOUS
    <3>1. e[1] \in Watched /\ e[2] \in interest[e[1]]
      BY DEF SelectInv, ScanInv
    <3>2. e[1] \in Observed /\ e[2] \in node[e[1]].msk
      BY <3>1 DEF SelectInv, HandleInv, KernelAgrees
    <3>3. e = <<e[1], e[2]>>
      BY DEF SelectInv, ScanInv
    <3>4. e[2] \in Due(pos)
      BY <3>2, <3>3 DEF Due
    <3>5. QED
      BY <1>1, <3>4
  <2>4. \A e \in ready : e[1] < pos' => e[1] \in ran \cup changed
    BY <2>2, <2>3 DEF SelectInv, ScanInv
  <2>5. pos' \in Nat /\ \A fd \in ran : fd < pos'
    <3>1. ran \subseteq Int
      BY <2>1 DEF SelectInv, ScanInv, Numbers
    <3>2. QED
      BY <1>1, <3>1 DEF SelectInv, ScanInv
  <2>6. QED
    BY <1>1, <1>3, <2>4, <2>5 DEF SelectInv, ScanInv
<1>6. QED
  BY <1>2, <1>4, <1>5 DEF SelectInv

LEMMA ScanExecutesInv ==
  ASSUME SelectInv, ScanExecutes
  PROVE  SelectInv'
<1>1. /\ selAt' \in {"scan", "handler"} /\ Due(pos) # {} /\ pos' = pos + 1
      /\ left' = left - 1 /\ ran' = ran \cup {pos}
      /\ UNCHANGED <<handleVars, fdMax, marks, ready, changed>>
  BY DEF ScanExecutes
<1>2. HandleInv'
  BY <1>1, HandleNextInv DEF SelectInv
<1>3. Watched' = Watched /\ interest' = interest /\ Numbers' = Numbers
  BY <1>1 DEF handleVars, Watched, Numbers
<1>4. RangeInv'
  BY <1>1, <1>3 DEF SelectInv, RangeInv
<1>5. ScanInv'
  <2>1. \A e \in ready : e[1] \in Int
    BY ReadyNumbers
  <2>2. pos \in Numbers
    <3>1. PICK d \in Due(pos) : TRUE
      BY <1>1
    <3>2. <<pos, d>> \in ready
      BY <3>1 DEF Due
    <3>3. QED
      BY <3>2 DEF Numbers
  <2>3. \A e \in ready : e[1] < pos' => e[1] \in ran' \cup changed
    BY <1>1, <2>1 DEF SelectInv, ScanInv
  <2>4. ran \subseteq Int /\ pos \in Nat
    BY <2>1 DEF SelectInv, ScanInv, Numbers
  <2>5. pos' \in Nat /\ \A fd \in ran' : fd < pos'
    BY <1>1, <2>4 DEF SelectInv, ScanInv
  <2>6. left' = Cardinality(ready) - Cardinality(ran')
    <3>1. IsFiniteSet(ready) /\ IsFiniteSet(ran)
      BY ReadyFinite, RanFinite
    <3>2. pos \notin ran
      BY <2>4 DEF SelectInv, ScanInv
    <3>3. Cardinality(ran') = Cardinality(ran) + 1
      BY <1>1, <3>1, <3>2, FS_AddElement
    <3>4. Cardinality(ready) \in Int /\ Cardinality(ran) \in Int
      BY <3>1, FS_CardinalityType
    <3>5. left = Cardinality(ready) - Cardinality(ran)
      BY DEF SelectInv, ScanInv
    <3>6. QED
      BY <1>1, <3>3, <3>4, <3>5
  <2>7. ran' \subseteq Numbers
    BY <1>1, <2>2 DEF SelectInv, ScanInv
  <2>8. QED
    BY <1>1, <1>3, <2>3, <2>5, <2>6, <2>7 DEF SelectInv, ScanInv
<1>6. QED
  BY <1>2, <1>4, <1>5 DEF SelectInv

LEMMA OtherStepsInv ==
  ASSUME SelectInv, UNCHANGED <<handleVars, fdMax, marks>>,
         \/ UNCHANGED <<ready, pos, left, ran, changed>> /\ (selAt' = selAt \/ selAt' = "scan")
         \/ selAt' = "lua" /\ ready' = {} /\ pos' = 0 /\ left' = 0 /\ ran' = {}
  PROVE  SelectInv'
<1>1. HandleInv'
  BY HandleNextInv DEF SelectInv
<1>2. Watched' = Watched /\ interest' = interest
  BY DEF handleVars, Watched
<1>3. RangeInv'
  BY <1>2 DEF SelectInv, RangeInv
<1>4. ScanInv'
  <2>1. CASE UNCHANGED <<ready, pos, left, ran, changed>> /\ (selAt' = selAt \/ selAt' = "scan")
    <3>1. Numbers' = Numbers
      BY <2>1 DEF Numbers
    <3>2. QED
      BY <1>2, <2>1, <3>1 DEF SelectInv, ScanInv
  <2>2. CASE selAt' = "lua" /\ ready' = {} /\ pos' = 0 /\ left' = 0 /\ ran' = {}
    BY <2>2, FS_EmptySet DEF ScanInv, Numbers
  <2>3. QED
    BY <2>1, <2>2
<1>5. QED
  BY <1>1, <1>3, <1>4 DEF SelectInv

LEMMA SelectNextInv == SelectInv /\ [SelectNext]_selectVars => SelectInv'
<1> SUFFICES ASSUME SelectInv, [SelectNext]_selectVars PROVE SelectInv'
  OBVIOUS
<1>1. CASE \E fd \in Fds, m \in Masks : SelectAdd(fd, m) \/ SelectRemove(fd, m)
  BY <1>1, SelectAddInv, SelectRemoveInv
<1>2. CASE SelectClean \/ SelectPoll \/ ScanSkips \/ ScanExecutes
  BY <1>2, SelectCleanInv, SelectPollInv, ScanSkipsInv, ScanExecutesInv
<1>3. CASE \E fd \in Fds : SelectFile(fd)
  BY <1>3, OtherStepsInv DEF SelectFile
<1>4. CASE SelectPollFails \/ UNCHANGED selectVars
  BY <1>4, OtherStepsInv DEF SelectPollFails, selectVars, scanVars
<1>5. CASE SelectHandlerReturns
  BY <1>5, OtherStepsInv DEF SelectHandlerReturns
<1>6. CASE ScanEnds
  BY <1>6, OtherStepsInv DEF ScanEnds
<1>7. QED
  BY <1>1, <1>2, <1>3, <1>4, <1>5, <1>6 DEF SelectNext

(***************************************************************************)
(* The scan ends because it is above fdMax: what is ready and was not      *)
(* passed is not observed any more.  Or because r is 0: then as many       *)
(* descriptors ran as directions were ready, which are all there were.     *)
(***************************************************************************)
LEMMA NothingLost == SelectInv => SelectLosesNothing
<1> SUFFICES ASSUME SelectInv PROVE SelectLosesNothing
  OBVIOUS
<1>1. \A fd \in Watched : fd <= fdMax
  BY DEF SelectInv, RangeInv
<1>2. ASSUME pos > fdMax PROVE \A e \in ready : e[1] \in ran \cup changed
  <2> TAKE e \in ready
  <2>1. CASE e[1] \in changed
    BY <2>1
  <2>2. CASE e[1] \in Watched
    <3>1. e[1] \in Nat /\ pos \in Nat /\ fdMax \in Int
      BY SelectAssumption DEF SelectInv, ScanInv, RangeInv
    <3>2. e[1] <= fdMax
      BY <1>1, <2>2
    <3>3. e[1] < pos
      BY <1>2, <3>1, <3>2
    <3>4. QED
      BY <3>3 DEF SelectInv, ScanInv
  <2>3. QED
    BY <2>1, <2>2 DEF SelectInv, ScanInv
<1>3. left >= 0 /\ (left = 0 => ran = Numbers)
  <2> DEFINE first == [e \in ready |-> e[1]]
  <2>1. IsFiniteSet(ready) /\ IsFiniteSet(ran)
    BY ReadyFinite, RanFinite
  <2>2. first \in Surjection(ready, Numbers)
    BY DEF Surjection, Numbers
  <2> HIDE DEF first
  <2>3. IsFiniteSet(Numbers) /\ Cardinality(Numbers) <= Cardinality(ready)
    BY <2>1, <2>2, FS_Surjection
  <2>4. ran \in SUBSET Numbers
    BY DEF SelectInv, ScanInv
  <2>5. Cardinality(ran) <= Cardinality(Numbers)
        /\ (Cardinality(Numbers) = Cardinality(ran) => Numbers = ran)
    BY <2>3, <2>4, FS_Subset
  <2>6. /\ Cardinality(ran) \in Int /\ Cardinality(ready) \in Int
        /\ Cardinality(Numbers) \in Int
    BY <2>1, <2>3, FS_CardinalityType
  <2>7. left = Cardinality(ready) - Cardinality(ran)
    BY DEF SelectInv, ScanInv
  <2>8. QED
    BY <2>3, <2>5, <2>6, <2>7
<1>4. ASSUME ~(left > 0) PROVE \A e \in ready : e[1] \in ran
  <2>1. left \in Int
    <3>1. IsFiniteSet(ready) /\ IsFiniteSet(ran)
      BY ReadyFinite, RanFinite
    <3>2. QED
      BY <3>1, FS_CardinalityType DEF SelectInv, ScanInv
  <2>2. ran = Numbers
    BY <1>3, <1>4, <2>1
  <2>3. QED
    BY <2>2 DEF Numbers
<1>5. ~ScanGoesOn => ~(left > 0) \/ pos > fdMax
  BY DEF ScanGoesOn, SelectInv, ScanInv, RangeInv
<1>6. QED
  BY <1>1, <1>2, <1>4, <1>5 DEF SelectLosesNothing

\* Whatever the callbacks of a scan add and remove, select() looks at every observed
\* descriptor, and every one it found ready is handled, unless it was removed.
THEOREM SelectServesAll == SelectSpec => []SelectLosesNothing
<1>1. SelectSpec => []SelectInv
  BY SelectInitInv, SelectNextInv, PTL DEF SelectSpec
<1>2. QED
  BY <1>1, NothingLost, PTL
=============================================================================
