------------------------------ MODULE TaskQueue ------------------------------
(***************************************************************************)
(* The timed tasks of t.Loop (src/src/t_ael_tsk.c and the task functions   *)
(* of src/src/t_ael_l.c) as a sequence ordered by remaining time, together *)
(* with the field ael->tout in which the loop keeps the timeout it passes  *)
(* to the next poll.  A callback of a task is Lua code: while it runs      *)
(* (running # NoTask) it may call every function of the loop.              *)
(***************************************************************************)
EXTENDS SequencesExt, Integers

CONSTANTS
  Tasks,    \* the task objects a program can create
  Delays,   \* the milliseconds passed to addTask or returned by a callback
  Elapsed,  \* the milliseconds one iteration of the loop can measure
  NoTask    \* not a task: no callback is running

ASSUME TaskAssumption ==
  /\ Delays \subseteq Int
  /\ Elapsed \subseteq Nat
  /\ NoTask \notin Tasks

VARIABLES
  queue,       \* the tasks of the list, head first: <<[task, tout], ...>>
  tout,        \* ael->tout
  running,     \* the task whose callback runs, or NoTask
  processing   \* TRUE inside t_ael_tsk_process

taskVars == <<queue, tout, running, processing>>

NoTimeout == -1   \* T_AEL_NOTIMEOUT

Entry(t, ms) == [task |-> t, tout |-> ms]

IsQueued(q, t) == \E i \in DOMAIN q : q[i].task = t

\* Lua code, and with it the API, runs outside of a pass or in a callback.
InLua == running # NoTask \/ ~processing
-----------------------------------------------------------------------------
(***************************************************************************)
(* The list operations.                                                    *)
(***************************************************************************)

\* A slot of a task with ms to wait: before the first task that waits as
\* long or longer, so that equal tasks run last in, first out.
SlotReversed(q, ms) ==
  LET sooner == {i \in DOMAIN q : q[i].tout <= ms}
  IN IF sooner = {} THEN Len(q) + 1 ELSE Min(sooner)

Slot(q, ms) ==
  LET later == {i \in DOMAIN q : q[i].tout >= ms}
  IN IF later = {} THEN Len(q) + 1 ELSE Min(later)

\* t_ael_tsk_insert
Inserted(q, t, ms) == InsertAt(q, Slot(q, ms), Entry(t, ms))

\* Only a task that becomes the head changes ael->tout.
ToutInserted(q, to, ms) == IF Slot(q, ms) = 1 THEN ms ELSE to

\* t_ael_tsk_remove; a task that is not in the list changes nothing.
Removed(q, t) ==
  IF IsQueued(q, t)
  THEN RemoveAt(q, Min({i \in DOMAIN q : q[i].task = t}))
  ELSE q

\* Only the removal of the head changes ael->tout.
ToutRemovedKept(q, to, t) ==
  IF q # <<>> /\ q[1].task = t /\ Len(q) = 1 THEN NoTimeout ELSE to

ToutRemoved(q, to, t) ==
  IF q # <<>> /\ q[1].task = t
  THEN IF Len(q) = 1 THEN NoTimeout ELSE q[2].tout
  ELSE to

AdjustedHeadOnly(q, et) ==
  [i \in DOMAIN q |->
     Entry(q[i].task, IF i > 1 THEN q[i].tout
                      ELSE IF q[i].tout - et > 0 THEN q[i].tout - et ELSE 0)]

\* t_ael_tsk_adjust: ael->tout is not adjusted along with the tasks.
Adjusted(q, et) ==
  [i \in DOMAIN q |->
     Entry(q[i].task, IF q[i].tout - et > 0 THEN q[i].tout - et ELSE 0)]
-----------------------------------------------------------------------------
(***************************************************************************)
(* The actions.                                                            *)
(***************************************************************************)
TaskInit ==
  /\ queue = <<>>
  /\ tout = NoTimeout
  /\ running = NoTask
  /\ processing = FALSE

\* lt_ael_addtask creates the task it inserts.
AddTask(t, ms) ==
  /\ InLua
  /\ t # running
  /\ ~IsQueued(queue, t)
  /\ queue' = Inserted(queue, t, ms)
  /\ tout' = ToutInserted(queue, tout, ms)
  /\ UNCHANGED <<running, processing>>

\* lt_ael_canceltask takes any task object, in the list or not.
CancelTask(t) ==
  /\ InLua
  /\ queue' = Removed(queue, t)
  /\ tout' = ToutRemoved(queue, tout, t)
  /\ UNCHANGED <<running, processing>>

CleanTasksKeepsTout ==
  /\ InLua
  /\ queue' = <<>>
  /\ UNCHANGED <<tout, running, processing>>

\* The part of lt_ael_clean that drops the tasks.
CleanTasks ==
  /\ InLua
  /\ queue' = <<>>
  /\ tout' = NoTimeout
  /\ UNCHANGED <<running, processing>>

\* t_ael_tsk_process is entered.
Process(et) ==
  /\ ~processing
  /\ queue' = Adjusted(queue, et)
  /\ processing' = TRUE
  /\ UNCHANGED <<tout, running>>

\* The head is due; its callback runs while it is still in the list.
ExecuteHead ==
  /\ processing
  /\ running = NoTask
  /\ queue # <<>>
  /\ queue[1].tout < 1
  /\ running' = queue[1].task
  /\ UNCHANGED <<queue, tout, processing>>

\* The callback returned an integer ms, or anything else (0 here); the task
\* is removed first and goes back in if ms is positive.
Finish(ms) ==
  LET rest == Removed(queue, running)
      to   == ToutRemoved(queue, tout, running)
  IN /\ running # NoTask
     /\ IF ms < 1
        THEN queue' = rest /\ tout' = to
        ELSE /\ queue' = Inserted(rest, running, ms)
             /\ tout' = ToutInserted(rest, to, ms)
     /\ running' = NoTask
     /\ UNCHANGED processing

\* The callback raised an error: lua_call unwinds out of run(), the task
\* stays at its place.
CallbackFails ==
  /\ running # NoTask
  /\ running' = NoTask
  /\ processing' = FALSE
  /\ UNCHANGED <<queue, tout>>

\* The head is not due, or there is none.
ProcessDone ==
  /\ processing
  /\ running = NoTask
  /\ queue # <<>> => queue[1].tout >= 1
  /\ processing' = FALSE
  /\ UNCHANGED <<queue, tout, running>>

TaskNext ==
  \/ \E t \in Tasks, ms \in Delays : AddTask(t, ms)
  \/ \E t \in Tasks : CancelTask(t)
  \/ CleanTasks
  \/ \E et \in Elapsed : Process(et)
  \/ ExecuteHead
  \/ \E ms \in Delays \cup {0} : Finish(ms)
  \/ CallbackFails
  \/ ProcessDone

TaskSpec == TaskInit /\ [][TaskNext]_taskVars
-----------------------------------------------------------------------------
(***************************************************************************)
(* Properties.                                                             *)
(***************************************************************************)
TaskTypeOK ==
  /\ queue \in Seq([task : Tasks, tout : Int])
  /\ tout \in Int
  /\ running \in Tasks \cup {NoTask}
  /\ processing \in BOOLEAN

\* The list is ordered by remaining time: t_ael_tsk_process looks at the
\* head only, so a due task behind a later one would be missed.
Sorted(q) == \A i, j \in DOMAIN q : i < j => q[i].tout <= q[j].tout

\* No task is linked twice: the second link would make the list a cycle.
NoTaskTwice(q) == \A i, j \in DOMAIN q : q[i].task = q[j].task => i = j

QueueInOrder == Sorted(queue) /\ NoTaskTwice(queue)

\* ael->tout is T_AEL_NOTIMEOUT when no task is left, which run() takes as
\* the sign that the loop may end and poll as permission to wait forever.
EmptyHasNoTimeout == queue = <<>> => tout = NoTimeout

\* A poll that ends at a timeout never ends before the head is due: what
\* ael->tout says is at least what the head has left.
PollNeverShort == (queue # <<>> /\ tout >= 0) => queue[1].tout <= tout

\* With no negative delays a loop with tasks always has a timeout, so poll
\* never waits forever while a task is pending.
PendingHasTimeout ==
  (\A ms \in Delays : ms >= 0) => (queue # <<>> => tout >= 0)

\* The timeout says whether a task is pending, which is all that run() looks at.
TimeoutTellsPending == EmptyHasNoTimeout /\ PendingHasTimeout

\* The sequence as the set of pending tasks of Timers.
Abstract == INSTANCE Timers WITH pending <- {queue[i] : i \in DOMAIN queue}

\* Every step is a step Timers allows: the task run is always the earliest,
\* and a pass never ends while a due task is in the list.
ImplementsTimers == Abstract!TimersSpec
=============================================================================
