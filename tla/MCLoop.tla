-------------------------------- MODULE MCLoop --------------------------------
(***************************************************************************)
(* The instances of EventLoop.  Two descriptors make batches of two events *)
(* of which the first callback can change what the second meets; one is    *)
(* enough to keep a loop busy.  A millisecond is two ticks, so that an     *)
(* iteration may be shorter than one, and an iteration is bounded by the   *)
(* longest delay.                                                          *)
(***************************************************************************)
EXTENDS EventLoop

CONSTANTS t1, t2, f1, f2

OneTask == {t1}
TwoTasks == {t1, t2}
OneFd == {f1}
TwoFds == {f1, f2}

ShortDelays == {1}
SomeDelays == {1, 2}
UpToOne == {0, 1}
UpToTwo == 0..2
=============================================================================
