------------------------------ MODULE SelectLoop ------------------------------
(***************************************************************************)
(* The descriptors of t.Loop where select() does the polling               *)
(* (src/src/p_ael_sel.c).  Its sets rfds and wfds are "interest" of        *)
(* Descriptors.  What select() found is scanned by number, up to the       *)
(* largest one observed and until as many descriptors were handled as      *)
(* select() counted; the callbacks change both while the scan goes on.     *)
(***************************************************************************)
EXTENDS Descriptors

CONSTANT MaxNumber   \* bound: the numbers that uninitialised memory may hold

ASSUME SelectAssumption == Fds \subseteq Nat

VARIABLES
  fdMax,    \* state->fdMax
  marks,    \* the numbers i of which state->fd_set[i] is set
  shut,     \* the descriptors that are closed
  ready,    \* rfds_w and wfds_w: <<number, direction>>
  pos,      \* i of the scan
  left,     \* r of the scan
  selAt,    \* "lua" between two scans, "scan", "handler"
  ran,      \* history: the descriptors handled by this scan
  changed   \* history: the descriptors callbacks of this scan removed

scanVars == <<shut, ready, pos, left, selAt, ran>>
selectVars == <<handleVars, fdMax, marks, scanVars, changed>>

\* The largest number below fd that is marked, or -1.
LargestBelow(S, fd) == CHOOSE n \in S \cup {-1} : n < fd /\ \A m \in S : m < fd => m <= n

\* p_ael_create_ud_impl sets neither fdMax nor fd_set.
SelectInit ==
  /\ HandleInit
  /\ fdMax \in -1..MaxNumber /\ marks \in SUBSET (0..MaxNumber)
  /\ shut = {} /\ ready = {} /\ pos = 0 /\ left = 0
  /\ selAt = "lua" /\ ran = {} /\ changed = {}

SelectLuaRuns == selAt \in {"lua", "handler"}
ChangedBy(S) == IF selAt = "handler" THEN changed \cup S ELSE changed

\* loop:addHandle(): nothing can fail.
SelectAdd(fd, m) ==
  /\ SelectLuaRuns
  /\ AddHandle(fd, m)
  /\ fdMax' = IF fd > fdMax THEN fd ELSE fdMax
  /\ marks' = marks \cup {fd}
  /\ UNCHANGED <<scanVars, changed>>

\* The numbers in S are no longer marked; fdMax moves when it is one of them.
Unmark(S) ==
  /\ marks' = marks \ S
  /\ fdMax' = IF fdMax \in S THEN LargestBelow(marks \ S, fdMax) ELSE fdMax

\* loop:removeHandle()
SelectRemove(fd, m) ==
  /\ SelectLuaRuns
  /\ RemoveHandle(fd, m)
  /\ Unmark({fd} \ DOMAIN node')
  /\ changed' = ChangedBy({fd})
  /\ UNCHANGED scanVars

\* loop:clean(): whatever the order of lua_next is, the marks that stay decide.
SelectClean ==
  /\ SelectLuaRuns
  /\ CleanHandlesOf(Observed)
  /\ Unmark(Observed)
  /\ changed' = ChangedBy(Observed)
  /\ UNCHANGED scanVars

\* The program closes a descriptor, or gets a new one with the number.
SelectFile(fd) ==
  /\ SelectLuaRuns
  /\ \E S \in {shut \cup {fd}, shut \ {fd}} : shut' = S
  /\ UNCHANGED <<handleVars, fdMax, marks, ready, pos, left, selAt, ran, changed>>

\* select() returns the number of bits it left in the sets, of the numbers up to fdMax.
SelectPoll ==
  /\ selAt = "lua" /\ Watched \cap shut = {}
  /\ ready' \in SUBSET {e \in Watched \X Dir : e[2] \in interest[e[1]] /\ e[1] <= fdMax}
  /\ left' = Cardinality(ready')
  /\ selAt' = "scan" /\ pos' = 0 /\ ran' = {} /\ changed' = {}
  /\ UNCHANGED <<handleVars, fdMax, marks, shut>>

\* select() fails as long as one of the descriptors is closed.  p_ael_poll_impl returns
\* the number of values it pushed, so that run() goes on as if nothing had happened.
SelectPollFails ==
  /\ selAt = "lua" /\ Watched \cap shut # {}
  /\ UNCHANGED selectVars

\* Mutant: the last descriptor is left out.
ScanGoesOnShort == left > 0 /\ pos < fdMax
ScanGoesOn == left > 0 /\ pos <= fdMax

\* The directions that are ready and still observed.
Due(fd) == IF fd \in Observed THEN {d \in node[fd].msk : <<fd, d>> \in ready} ELSE {}

ScanSkips ==
  /\ selAt = "scan" /\ ScanGoesOn
  /\ Due(pos) = {}
  /\ pos' = pos + 1
  /\ UNCHANGED <<handleVars, fdMax, marks, shut, ready, left, selAt, ran, changed>>

\* t_ael_dnd_execute: the callback for reading, or else for writing, if there is one.
ScanExecutes ==
  LET d == IF "read" \in Due(pos) THEN "read" ELSE "write"
  IN  /\ selAt = "scan" /\ ScanGoesOn
      /\ Due(pos) # {}
      /\ selAt' = IF d \in node[pos].fns THEN "handler" ELSE "scan"
      /\ ran' = ran \cup {pos}
      /\ left' = left - 1
      /\ pos' = pos + 1
      /\ UNCHANGED <<handleVars, fdMax, marks, shut, ready, changed>>

SelectHandlerReturns ==
  /\ selAt = "handler" /\ selAt' = "scan"
  /\ UNCHANGED <<handleVars, fdMax, marks, shut, ready, pos, left, ran, changed>>

\* The scan is over, or the error of a callback ends it and run().
ScanEnds ==
  /\ selAt = "handler" \/ (selAt = "scan" /\ ~ScanGoesOn)
  /\ selAt' = "lua" /\ ready' = {} /\ pos' = 0 /\ left' = 0 /\ ran' = {} /\ changed' = {}
  /\ UNCHANGED <<handleVars, fdMax, marks, shut>>

SelectNext ==
  \/ \E fd \in Fds, m \in Masks : SelectAdd(fd, m) \/ SelectRemove(fd, m)
  \/ SelectClean
  \/ \E fd \in Fds : SelectFile(fd)
  \/ SelectPoll \/ SelectPollFails
  \/ ScanSkips \/ ScanExecutes \/ SelectHandlerReturns \/ ScanEnds

SelectSpec == SelectInit /\ [][SelectNext]_selectVars

(***************************************************************************)
(* Properties.                                                             *)
(***************************************************************************)

\* No observed descriptor is outside of what select() and the scan look at, and a scan
\* ends only when every descriptor that was ready has been handled, unless a callback of
\* the scan removed it: although fdMax and fd_set start with whatever the memory holds,
\* callbacks lower and raise fdMax, and r counts directions but goes down by descriptors.
SelectLosesNothing ==
  /\ \A fd \in Watched : fd <= fdMax
  /\ selAt = "scan" /\ ~ScanGoesOn => \A e \in ready : e[1] \in ran \cup changed
===============================================================================
