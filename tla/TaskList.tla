------------------------------- MODULE TaskList -------------------------------
(***************************************************************************)
(* The linked list of src/src/t_ael_tsk.c, pointer by pointer.  A task is  *)
(* a userdata whose first user value (T_AEL_TSK_NXTIDX) is the next task;  *)
(* the loop's third user value (T_AEL_TSKIDX) is the head.  The module     *)
(* shows that these pointer operations implement TaskQueue, also for the   *)
(* tasks that are cancelled, cleaned away or re-inserted while their own   *)
(* callback runs and whose link may still point into the list.             *)
(***************************************************************************)
EXTENDS Integers, FiniteSets, Sequences

CONSTANTS Tasks, Delays, Elapsed, NoTask   \* as in TaskQueue

ASSUME ListAssumption ==
  /\ IsFiniteSet(Tasks)
  /\ Delays \subseteq Int
  /\ Elapsed \subseteq Nat
  /\ NoTask \notin Tasks

VARIABLES
  list,        \* [head, nxt, ttl, tout]: the head, each task's next task
               \* and tout field, and ael->tout
  running,     \* the task whose callback runs, or NoTask
  processing   \* TRUE inside t_ael_tsk_process

listVars == <<list, running, processing>>

NoTimeout == -1   \* T_AEL_NOTIMEOUT

\* The k-th task reached from the head, NoTask past the end.
Reached(l) ==
  LET step[k \in 0..Cardinality(Tasks)] ==
        IF k = 0 THEN l.head
        ELSE IF step[k - 1] = NoTask THEN NoTask ELSE l.nxt[step[k - 1]]
  IN step

\* The tasks of the list, head first.
Chain(l) ==
  LET step == Reached(l)
      n == Cardinality({k \in DOMAIN step : step[k] # NoTask})
  IN [i \in 1..n |-> step[i - 1]]

\* The task whose link leads to t, or NoTask.
Previous(l, t) ==
  LET c == Chain(l)
      before == {i \in 1..Len(c) - 1 : c[i + 1] = t}
  IN IF before = {} THEN NoTask ELSE c[CHOOSE i \in before : TRUE]

InLua == running # NoTask \/ ~processing
-----------------------------------------------------------------------------
(***************************************************************************)
(* t_ael_tsk_insert: t carries its own tout field.                         *)
(***************************************************************************)

\* The last task before the slot of a task with ms to wait: the walk stops at
\* the first link that leads nowhere or to a task that waits as long.
LastBefore(l, ms) ==
  LET c == Chain(l)
      stops == {i \in 1..Len(c) :
                  l.nxt[c[i]] = NoTask \/ l.ttl[l.nxt[c[i]]] >= ms}
  IN c[CHOOSE i \in stops : \A j \in stops : i <= j]

InsertedSwapped(l, t) ==
  LET ms == l.ttl[t]
  IN IF l.head = NoTask
     THEN [l EXCEPT !.head = t, !.tout = ms]
     ELSE IF l.ttl[l.head] >= ms
     THEN [l EXCEPT !.nxt[t] = l.head, !.head = t, !.tout = ms]
     ELSE [l EXCEPT !.nxt[LastBefore(l, ms)] = t, !.nxt[t] = t]

Inserted(l, t) ==
  LET ms == l.ttl[t]
  IN IF l.head = NoTask
     THEN [l EXCEPT !.head = t, !.tout = ms]   \* t's own link is left alone
     ELSE IF l.ttl[l.head] >= ms
     THEN [l EXCEPT !.nxt[t] = l.head, !.head = t, !.tout = ms]
     ELSE LET prv == LastBefore(l, ms)
          IN [l EXCEPT !.nxt[t] = l.nxt[prv], !.nxt[prv] = t]

(***************************************************************************)
(* t_ael_tsk_remove: the link of t is cleared whether t is found or not.   *)
(***************************************************************************)
RemovedKeepsLink(l, t) ==
  IF l.head = t
  THEN LET n == l.nxt[t]
       IN [l EXCEPT !.head = n, !.tout = IF n = NoTask THEN NoTimeout ELSE l.ttl[n]]
  ELSE IF Previous(l, t) # NoTask
  THEN [l EXCEPT !.nxt[Previous(l, t)] = l.nxt[t]]
  ELSE l

Removed(l, t) ==
  LET unlinked ==
        IF l.head = t
        THEN LET n == l.nxt[t]
             IN [l EXCEPT !.head = n,
                          !.tout = IF n = NoTask THEN NoTimeout ELSE l.ttl[n]]
        ELSE IF Previous(l, t) # NoTask
        THEN [l EXCEPT !.nxt[Previous(l, t)] = l.nxt[t]]
        ELSE l
  IN [unlinked EXCEPT !.nxt[t] = NoTask]

\* t_ael_tsk_adjust walks from the head and ages what it reaches.
Adjusted(l, et) ==
  LET c == Chain(l)
      reached == {c[i] : i \in DOMAIN c}
  IN [l EXCEPT !.ttl =
        [t \in Tasks |-> IF t \notin reached THEN @[t]
                         ELSE IF @[t] - et > 0 THEN @[t] - et ELSE 0]]
-----------------------------------------------------------------------------
ListInit ==
  /\ list = [head |-> NoTask, nxt |-> [t \in Tasks |-> NoTask],
             ttl |-> [t \in Tasks |-> 0], tout |-> NoTimeout]
  /\ running = NoTask
  /\ processing = FALSE

\* lt_ael_addtask: a new userdata has no link yet.
AddTask(t, ms) ==
  /\ InLua
  /\ t # running
  /\ t # list.head /\ Previous(list, t) = NoTask
  /\ list' = Inserted([list EXCEPT !.ttl[t] = ms, !.nxt[t] = NoTask], t)
  /\ UNCHANGED <<running, processing>>

\* lt_ael_canceltask
CancelTask(t) ==
  /\ InLua
  /\ list' = Removed(list, t)
  /\ UNCHANGED <<running, processing>>

\* lt_ael_clean forgets the head; the tasks keep their links.
CleanTasks ==
  /\ InLua
  /\ list' = [list EXCEPT !.head = NoTask, !.tout = NoTimeout]
  /\ UNCHANGED <<running, processing>>

\* t_ael_tsk_process is entered.
Process(et) ==
  /\ ~processing
  /\ list' = Adjusted(list, et)
  /\ processing' = TRUE
  /\ UNCHANGED running

\* The head is due and runs.
ExecuteHead ==
  /\ processing
  /\ running = NoTask
  /\ list.head # NoTask
  /\ list.ttl[list.head] < 1
  /\ running' = list.head
  /\ UNCHANGED <<list, processing>>

\* t_ael_tsk_execute after the callback returned.
Finish(ms) ==
  /\ running # NoTask
  /\ LET rest == Removed(list, running)
     IN list' = IF ms < 1 THEN rest
                ELSE Inserted([rest EXCEPT !.ttl[running] = ms], running)
  /\ running' = NoTask
  /\ UNCHANGED processing

\* The callback raised an error and unwinds out of run().
CallbackFails ==
  /\ running # NoTask
  /\ running' = NoTask
  /\ processing' = FALSE
  /\ UNCHANGED list

\* The head is not due, or there is none.
ProcessDone ==
  /\ processing
  /\ running = NoTask
  /\ list.head # NoTask => list.ttl[list.head] >= 1
  /\ processing' = FALSE
  /\ UNCHANGED <<list, running>>

ListNext ==
  \/ \E t \in Tasks, ms \in Delays : AddTask(t, ms)
  \/ \E t \in Tasks : CancelTask(t)
  \/ CleanTasks
  \/ \E et \in Elapsed : Process(et)
  \/ ExecuteHead
  \/ \E ms \in Delays \cup {0} : Finish(ms)
  \/ CallbackFails
  \/ ProcessDone

ListSpec == ListInit /\ [][ListNext]_listVars
-----------------------------------------------------------------------------

\* The walk from the head ends, in spite of the links of tasks that left the
\* list: every loop of t_ael_tsk.c over the list terminates.
ListEnds == Reached(list)[Cardinality(Tasks)] = NoTask

Sequence(l) ==
  LET c == Chain(l) IN [i \in DOMAIN c |-> [task |-> c[i], tout |-> l.ttl[c[i]]]]

Queue == INSTANCE TaskQueue WITH queue <- Sequence(list), tout <- list.tout

\* Every pointer operation is the sequence operation it stands for.
ImplementsTaskQueue == Queue!TaskSpec
=============================================================================
