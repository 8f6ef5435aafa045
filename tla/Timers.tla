------------------------------- MODULE Timers -------------------------------
(***************************************************************************)
(* What the timer half of t.Loop promises, without saying how tasks are    *)
(* kept: a set of pending tasks, each with the milliseconds it still has   *)
(* to wait.  One pass over the tasks (t_ael_tsk_process) lets time elapse  *)
(* for all of them, runs the tasks that are due, earliest first, and ends  *)
(* only when no due task is left.  TaskQueue implements this with a sorted *)
(* sequence and TaskList with the linked list of src/src/t_ael_tsk.c.      *)
(***************************************************************************)
EXTENDS Integers

CONSTANTS
  Tasks,    \* the task objects a program can create
  Delays,   \* the milliseconds passed to addTask or returned by a callback
  Elapsed,  \* the milliseconds one iteration of the loop can measure
  NoTask    \* not a task: no callback is running

VARIABLES
  pending,     \* set of [task, tout]: the tasks in the loop
  running,     \* the task whose callback runs, or NoTask
  processing   \* TRUE inside t_ael_tsk_process

timersVars == <<pending, running, processing>>

Entry(t, ms) == [task |-> t, tout |-> ms]

\* Lua code, and with it the API, runs outside of a pass or in a callback.
InLua == running # NoTask \/ ~processing

Without(S, t) == {e \in S : e.task # t}

Aged(S, et) == {Entry(e.task, IF e.tout - et > 0 THEN e.tout - et ELSE 0) : e \in S}

TimersInit ==
  /\ pending = {}
  /\ running = NoTask
  /\ processing = FALSE

\* addTask: a new task object waits ms milliseconds.
Arm(t, ms) ==
  /\ InLua
  /\ t # running
  /\ \A e \in pending : e.task # t
  /\ pending' = pending \cup {Entry(t, ms)}
  /\ UNCHANGED <<running, processing>>

\* cancelTask
Disarm(t) ==
  /\ InLua
  /\ pending' = Without(pending, t)
  /\ UNCHANGED <<running, processing>>

\* clean, as far as tasks go
DisarmAll ==
  /\ InLua
  /\ pending' = {}
  /\ UNCHANGED <<running, processing>>

\* A pass begins: et milliseconds went by.
Elapse(et) ==
  /\ ~processing
  /\ pending' = Aged(pending, et)
  /\ processing' = TRUE
  /\ UNCHANGED running

\* A due task with the least time left is run; it stays pending meanwhile.
Fire ==
  /\ processing
  /\ running = NoTask
  /\ \E e \in pending :
       /\ e.tout < 1
       /\ \A f \in pending : e.tout <= f.tout
       /\ running' = e.task
  /\ UNCHANGED <<pending, processing>>

\* The callback returned ms: the task leaves, or waits another ms.
Return(ms) ==
  /\ running # NoTask
  /\ pending' = Without(pending, running) \cup
                  (IF ms < 1 THEN {} ELSE {Entry(running, ms)})
  /\ running' = NoTask
  /\ UNCHANGED processing

\* The callback raised an error, which leaves the loop.
Raise ==
  /\ running # NoTask
  /\ running' = NoTask
  /\ processing' = FALSE
  /\ UNCHANGED pending

\* The pass ends: nothing that is due was left behind.
Settle ==
  /\ processing
  /\ running = NoTask
  /\ \A e \in pending : e.tout >= 1
  /\ processing' = FALSE
  /\ UNCHANGED <<pending, running>>

TimersNext ==
  \/ \E t \in Tasks, ms \in Delays : Arm(t, ms)
  \/ \E t \in Tasks : Disarm(t)
  \/ DisarmAll
  \/ \E et \in Elapsed : Elapse(et)
  \/ Fire
  \/ \E ms \in Delays \cup {0} : Return(ms)
  \/ Raise
  \/ Settle

TimersSpec == TimersInit /\ [][TimersNext]_timersVars
=============================================================================
