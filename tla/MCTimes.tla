------------------------------- MODULE MCTimes --------------------------------
(***************************************************************************)
(* The instance of LoopTimes: two tasks, delays of zero to three           *)
(* milliseconds, iterations of up to two.  A delay of three does not fit   *)
(* into IntMax = 2 and reaches epoll_wait as a negative number.            *)
(***************************************************************************)
EXTENDS LoopTimes

CONSTANTS t1, t2, f1

MCTasks == {t1, t2}
MCFds == {f1}
MCDelays == 0..3
MCElapsed == 0..2
=============================================================================
