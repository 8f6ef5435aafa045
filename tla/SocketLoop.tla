------------------------------ MODULE SocketLoop ------------------------------
(***************************************************************************)
(* Sockets on a loop.  The loop knows a socket by the number it has when   *)
(* addHandle is called, the kernel by what is behind the number; callbacks *)
(* create, close and observe sockets while events are waiting.             *)
(***************************************************************************)
EXTENDS EventLoop, Sockets

VARIABLES
  added,    \* history: the socket each stored callback was added for
  origin    \* history: the numbers in use when the events of a batch were reported

historyVars == <<added, origin>>
socketLoopVars == <<vars, sockVars, historyVars>>

Nobody == [d \in Dir |-> 0]

SocketLoopInit ==
  /\ Init /\ SockInit
  /\ added = [k \in Fds |-> Nobody] /\ origin = <<>>

CallSocket ==
  /\ LuaRuns
  /\ \E s \in Socks : SockCall(s)
  /\ UNCHANGED <<vars, historyVars>>

\* The node of a descriptor keeps its object from being collected (T_AEL_DSC_HDLIDX).
CloseSocket ==
  /\ LuaRuns
  /\ \E s \in Socks :
       /\ Close(fd[s])
       /\ CloseSck(s) \/ CloseSckFails(s) \/ (fd[s] \notin Observed /\ CollectOpen(s))
  /\ UNCHANGED <<taskVars, loopVars, historyVars>>

\* t_ael_getHandle: the number in the object is taken when it is a positive one, also
\* when the kernel has closed it.
Watchable(s) == fd[s] \in Fds

\* loop:addHandle(sck, m, f); the kernel refuses a number that is not in use.
Observe(s, m) ==
  /\ LuaRuns /\ Watchable(s)
  /\ \/ /\ IsOpen(s) /\ AddHandle(fd[s], m)
        /\ added' = [added EXCEPT ![fd[s]] = [d \in Dir |-> IF d \in Stored(m) THEN FileOf(s) ELSE @[d]]]
     \/ AddHandleFails(fd[s]) /\ UNCHANGED added
  /\ report' = None
  /\ UNCHANGED <<taskVars, loopVars, fd, made, open, file, lost, origin>>

\* loop:removeHandle(sck, m)
Unobserve(s, m) ==
  /\ LuaRuns /\ Watchable(s)
  /\ RemoveHandle(fd[s], m)
  /\ added' = IF fd[s] \in DOMAIN node' THEN added ELSE [added EXCEPT ![fd[s]] = Nobody]
  /\ report' = None
  /\ UNCHANGED <<taskVars, loopVars, fd, made, open, file, lost, origin>>

\* The loop runs as in EventLoop.
PollSockets ==
  /\ PollEvents
  /\ origin' = open
  /\ UNCHANGED <<sockVars, added>>

\* The direction of which the callback runs for the event e.
Direction(e) == IF "read" \in e.ready \cap node[e.fd].msk THEN "read" ELSE "write"

DispatchSocket ==
  /\ Dispatch
  /\ origin' = IF events' = <<>> THEN <<>> ELSE origin
  /\ UNCHANGED <<sockVars, added>>

OtherSteps ==
  /\ RunCall \/ PollInterrupted \/ PollTimesOut \/ DispatchMissing \/ HandlerReturns \/ HandlerFails
     \/ StartTasks \/ EndIteration
  /\ origin' = IF events' = <<>> THEN <<>> ELSE origin
  /\ UNCHANGED <<sockVars, added>>

SocketLoopNext ==
  \/ CallSocket \/ CloseSocket
  \/ \E s \in Socks, m \in Masks : Observe(s, m) \/ Unobserve(s, m)
  \/ PollSockets \/ DispatchSocket \/ OtherSteps

SocketLoopSpec == SocketLoopInit /\ [][SocketLoopNext]_socketLoopVars

(***************************************************************************)
(* Properties.                                                             *)
(***************************************************************************)

\* The callback that runs is one that was added for the socket that has the event, also
\* after sockets were closed without removeHandle() and their numbers given to others.
\* The exception is a socket that a callback of the same batch closed: what its event
\* finds under the number may belong to another one (p_ael_epl.c:207).
EventsReachTheirOwn ==
  [][at = "events" /\ at' = "handler" /\ origin # <<>> =>
       LET e == events[1]
           n == origin[e.fd]
       IN  file[n].st = "closed" \/ added[e.fd][Direction(e)] = n]_socketLoopVars
===============================================================================
