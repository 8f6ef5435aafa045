------------------------------- MODULE LoopTimes -------------------------------
(***************************************************************************)
(* EventLoop with the real time each task still has to wait, which the     *)
(* program does not keep: it ages its tasks once in an iteration, by the   *)
(* whole milliseconds that iteration took.  The module asks whether a      *)
(* callback can run before its time.  Time outside of what run() measures  *)
(* only makes tasks later and is left out.                                 *)
(***************************************************************************)
EXTENDS EventLoop

VARIABLES
  remains,    \* history: the ticks each queued task still has to wait
  byHandler   \* history: the tasks armed by the callback of a descriptor

timesVars == <<vars, remains, byHandler>>

InQueue(q) == {q[i].task : i \in DOMAIN q}

\* The tasks addTask or the return value of their callback armed this step.
Armed ==
  {t \in InQueue(queue') : t \notin InQueue(queue) \/ (running = t /\ running' = NoTask)}

Passed == IF ticks' > ticks THEN ticks' - ticks ELSE 0

Wait(t) ==
  LET e == CHOOSE i \in DOMAIN queue' : queue'[i].task = t
  IN queue'[e].tout * TicksPerMs

TimesInit ==
  /\ Init
  /\ remains = [t \in Tasks |-> 0]
  /\ byHandler = {}

TimesNext ==
  /\ Next
  /\ remains' = [t \in Tasks |->
                IF t \in Armed THEN Wait(t)
                ELSE IF t \in InQueue(queue') /\ remains[t] > Passed THEN remains[t] - Passed
                ELSE 0]
  /\ byHandler' = ((byHandler \cap InQueue(queue')) \ Armed)
                    \cup (IF at = "handler" THEN Armed ELSE {})

TimesSpec == TimesInit /\ [][TimesNext]_timesVars

Starts(t) == running = NoTask /\ running' = t

\* A task armed outside of the callbacks of descriptors never runs before
\* its milliseconds have passed.
NotEarly == [][\A t \in Tasks \ byHandler : Starts(t) => remains[t] = 0]_timesVars

\* addTask: "milliseconds until execution", whoever calls it.
NeverEarly == [][\A t \in Tasks : Starts(t) => remains[t] = 0]_timesVars
=============================================================================
