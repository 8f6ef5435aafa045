------------------------------ MODULE EventLoop ------------------------------
(***************************************************************************)
(* t.Loop: lt_ael_run of src/src/t_ael_l.c around the tasks of TaskQueue   *)
(* and the descriptors of Descriptors, with p_ael_poll_impl                *)
(* (src/src/p_ael_epl.c) and t_ael_dnd_execute (src/src/t_ael_dnd.c).  One *)
(* iteration polls, runs the callbacks of the events it got one after the  *)
(* other, and then passes over the tasks.  Everything runs on one thread,  *)
(* but every callback is Lua code that may call the whole API: the loop's  *)
(* state changes under the loop between any two of its steps.  run() is    *)
(* not called from a callback.                                             *)
(***************************************************************************)
EXTENDS TaskQueue, Descriptors

CONSTANTS
  TicksPerMs,  \* the ticks of real time in a millisecond
  MaxTicks,    \* bound: the ticks one iteration measures
  IntMax       \* the largest value of the C type int

ASSUME LoopAssumption ==
  /\ TicksPerMs \in Nat \ {0} /\ MaxTicks \in Nat /\ IntMax \in Nat
  /\ \A n \in 0..MaxTicks : n \div TicksPerMs \in Elapsed

VARIABLES
  at,      \* "lua" outside run(), else the part of an iteration that runs:
           \* "poll", "events", "handler" (a descriptor's callback), "tasks"
  run,     \* ael->run
  events,  \* the events of this poll still to be handled: <<[fd, ready], ...>>
  ticks    \* the time since this iteration started (tvs)

loopVars == <<at, run, events, ticks>>
vars == <<taskVars, handleVars, loopVars>>

\* Lua code runs: the program itself, or a callback of the loop.
LuaRuns == at \in {"lua", "handler"} \/ running # NoTask

\* p_ael_poll_impl takes the lua_Integer ael->tout as an int.
AsInt(ms) == ((ms + IntMax + 1) % (2 * (IntMax + 1))) - (IntMax + 1)

WaitsForever(ms) == AsInt(ms) <= NoTimeout
-----------------------------------------------------------------------------
Init ==
  /\ TaskInit
  /\ HandleInit
  /\ at = "lua"
  /\ run = FALSE
  /\ events = <<>>
  /\ ticks = 0

(***************************************************************************)
(* Calls of the API by Lua code.                                           *)
(***************************************************************************)
CallTasks ==
  /\ \/ \E t \in Tasks, ms \in Delays : AddTask(t, ms)
     \/ \E t \in Tasks : CancelTask(t)
  /\ UNCHANGED handleVars

CallHandles ==
  /\ \E fd \in Fds :
       \/ \E m \in Masks : AddHandle(fd, m) \/ RemoveHandle(fd, m)
       \/ AddHandleFails(fd)
       \/ Close(fd)
  /\ UNCHANGED taskVars

\* lt_ael_clean: the tasks first; the descriptors may fail half-way.
Clean == CleanTasks /\ CleanHandles

CallApi ==
  /\ LuaRuns
  /\ CallTasks \/ CallHandles \/ Clean
  /\ UNCHANGED loopVars

\* lt_ael_stop
Stop ==
  /\ LuaRuns
  /\ run' = FALSE
  /\ UNCHANGED <<taskVars, handleVars, at, events, ticks>>

(***************************************************************************)
(* lt_ael_run.                                                             *)
(***************************************************************************)
RunCall ==
  /\ at = "lua"
  /\ at' = "poll"
  /\ run' = TRUE
  /\ UNCHANGED <<taskVars, handleVars, events, ticks>>

\* What epoll may report: the descriptors it watches, each once, in any
\* order; an error or a hang-up is reported as the write direction.
Reports ==
  {e \in [fd : Watched, ready : Masks] : e.ready \subseteq interest[e.fd] \cup {"write"}}

Batches ==
  UNION {{b \in [1..n -> Reports] : \A i, j \in 1..n : b[i].fd = b[j].fd => i = j} :
           n \in 1..Cardinality(Watched)}

\* epoll_wait reports events within the timeout.  An iteration takes a tick
\* at least.
PollEvents ==
  /\ at = "poll"
  /\ events' \in Batches
  /\ ticks' \in 1..MaxTicks
  /\ ~WaitsForever(tout) => ticks' <= AsInt(tout) * TicksPerMs + 1
  /\ at' = "events"
  /\ UNCHANGED <<taskVars, handleVars, run>>

\* epoll_wait times out, never early.
PollTimesOut ==
  /\ at = "poll"
  /\ ~WaitsForever(tout)
  /\ ticks' \in 1..MaxTicks
  /\ ticks' >= AsInt(tout) * TicksPerMs
  /\ at' = "events"
  /\ UNCHANGED <<taskVars, handleVars, run, events>>

\* epoll_wait is interrupted by a signal: run() raises an error.
PollInterrupted ==
  /\ at = "poll"
  /\ at' = "lua"
  /\ UNCHANGED <<taskVars, handleVars, run, events, ticks>>

\* t_ael_dnd_execute runs the callback for reading, or else for writing; a
\* direction without a callback is ignored.
HasCallback(e) ==
  LET n == node[e.fd]
      due == e.ready \cap n.msk
  IN IF "read" \in due THEN "read" \in n.fns ELSE due \cap n.fns # {}

Dispatch ==
  LET e == events[1]
  IN /\ at = "events"
     /\ events # <<>>
     /\ e.fd \in Observed
     /\ at' = IF HasCallback(e) THEN "handler" ELSE "events"
     /\ events' = Tail(events)
     /\ UNCHANGED <<taskVars, handleVars, run, ticks>>

\* A callback before removed the descriptor: t_ael_dnd_check_ud raises an
\* error on the nil it gets, out of run().
DispatchMissing ==
  /\ at = "events"
  /\ events # <<>>
  /\ events[1].fd \notin Observed
  /\ at' = "lua"
  /\ events' = <<>>
  /\ ticks' = 0
  /\ UNCHANGED <<taskVars, handleVars, run>>

HandlerReturns ==
  /\ at = "handler"
  /\ at' = "events"
  /\ UNCHANGED <<taskVars, handleVars, run, events, ticks>>

\* The callback raised an error, out of run().
HandlerFails ==
  /\ at = "handler"
  /\ at' = "lua"
  /\ events' = <<>>
  /\ ticks' = 0
  /\ UNCHANGED <<taskVars, handleVars, run>>

\* The callback of a descriptor takes time.
Tick ==
  /\ at = "handler"
  /\ ticks < MaxTicks
  /\ ticks' = ticks + 1
  /\ UNCHANGED <<taskVars, handleVars, at, run, events>>

\* The milliseconds between tvs and tve, cut to whole ones.
ElapsedMsUp == (ticks + TicksPerMs - 1) \div TicksPerMs
ElapsedMs == ticks \div TicksPerMs

\* t_ael_tsk_process is entered.
StartTasks ==
  /\ at = "events"
  /\ events = <<>>
  /\ Process(ElapsedMs)
  /\ at' = "tasks"
  /\ ticks' = 0
  /\ UNCHANGED <<handleVars, run, events>>

RunTask ==
  /\ at = "tasks"
  /\ ExecuteHead
  /\ UNCHANGED <<handleVars, loopVars>>

TaskReturns ==
  /\ \E ms \in Delays \cup {0} : Finish(ms)
  /\ UNCHANGED <<handleVars, loopVars>>

TaskFails ==
  /\ CallbackFails
  /\ at' = "lua"
  /\ UNCHANGED <<handleVars, run, events, ticks>>

\* The pass is over; the loop goes on unless it was stopped or has neither
\* a timeout nor a descriptor.
GoesOnNoTimers == run /\ fdCount >= 1
GoesOnStopped == ~(tout = NoTimeout /\ fdCount < 1)
GoesOn == run /\ ~(tout = NoTimeout /\ fdCount < 1)

EndIteration ==
  /\ at = "tasks"
  /\ ProcessDone
  /\ run' = GoesOn
  /\ at' = IF GoesOn THEN "poll" ELSE "lua"
  /\ UNCHANGED <<handleVars, events, ticks>>

Poll == PollEvents \/ PollTimesOut

\* What the loop's thread does without waiting for anything.
Steps ==
  \/ Dispatch \/ DispatchMissing \/ HandlerReturns
  \/ StartTasks \/ RunTask \/ TaskReturns \/ EndIteration

Next ==
  \/ CallApi \/ Stop \/ RunCall
  \/ Poll \/ PollInterrupted
  \/ Steps
  \/ HandlerFails \/ Tick \/ TaskFails

Spec == Init /\ [][Next]_vars

\* The thread runs, every callback returns, and a poll with a timeout ends.
\* Nothing makes events arrive, Lua code call the API, or run() start.
Fairness == WF_vars(Steps) /\ WF_vars(~WaitsForever(tout) /\ Poll)

FairSpec == Spec /\ Fairness
-----------------------------------------------------------------------------
(***************************************************************************)
(* Properties.                                                             *)
(***************************************************************************)

\* The end of an iteration is the end of run() exactly when the loop was
\* stopped, or neither a task nor a descriptor is left (Loop.rst, run).
\* ael->tout and fdCount stand in for the list and the table in the code.
EndsWhenDone ==
  [][at = "tasks" /\ at' # "tasks" /\ running = NoTask =>
       (at' = "lua" <=> ~run \/ (queue = <<>> /\ Observed = {}))]_vars

\* Loop.rst: run() "either runs until stop() is called, or until no more
\* tasks or event handlers are left": handling an event does not end it.
RunEndsAsDocumented == [][at = "events" => at' # "lua"]_vars

\* t_ael_l.h: tout is the "timeout of taskHead", kept for each call of poll.
PollWaitsForHead == (at = "poll" /\ queue # <<>>) => tout = queue[1].tout

\* stop() ends run(): the rest of the events and the due tasks are handled,
\* and nothing that the callbacks do makes the loop go on.
StopReturns == (~run /\ at # "lua") ~> (at = "lua")

\* A task in a running loop is run or taken out, or run() ends.
TaskSettles ==
  \A t \in Tasks :
    (IsQueued(queue, t) /\ at # "lua") ~> (~IsQueued(queue, t) \/ running = t \/ at = "lua")

\* ... provided that the loop keeps measuring whole milliseconds: what an
\* iteration takes beyond them is lost.
MeasuresTime == []<><<StartTasks /\ ticks >= TicksPerMs>>_vars

MeasuredTaskSettles == MeasuresTime => TaskSettles
=============================================================================
