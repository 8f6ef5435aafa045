----------------------------- MODULE Descriptors -----------------------------
(***************************************************************************)
(* The observed descriptors of t.Loop: the table of nodes of               *)
(* src/src/t_ael_l.c (T_AEL_DSCIDX), the field fdCount, and the interest   *)
(* list of the kernel's epoll instance that src/src/p_ael_epl.c keeps in   *)
(* step with it.  A descriptor is a number: closing one while the loop     *)
(* observes it takes it out of the kernel's list behind the loop's back,   *)
(* and a descriptor opened later may get the same number.                  *)
(***************************************************************************)
EXTENDS Integers, FiniteSets, Functions

CONSTANT Fds   \* the descriptor numbers in use

ASSUME FdsAssumption == IsFiniteSet(Fds)

VARIABLES
  node,      \* fd -> [msk, fns]: dnd->msk and the directions a callback is
             \* stored for (T_AEL_DSC_FRDIDX, T_AEL_DSC_FWRIDX)
  fdCount,   \* ael->fdCount
  interest,  \* fd -> mask: what epoll watches
  torn       \* history: the descriptors closed while they were observed

handleVars == <<node, fdCount, interest, torn>>

Dir == {"read", "write"}
Masks == (SUBSET Dir) \ {{}}   \* T_AEL_RD, T_AEL_WR, T_AEL_RW

Observed == DOMAIN node
Watched == DOMAIN interest

Put(f, x, v) == [y \in DOMAIN f \cup {x} |-> IF y = x THEN v ELSE f[y]]
Drop(f, S) == Restrict(f, DOMAIN f \ S)

\* The node of fd, or the one t_ael_dnd_create_ud makes for it.
NodeOf(fd) == IF fd \in Observed THEN node[fd] ELSE [msk |-> {}, fns |-> {}]

\* addHandle counts every node it makes, and no other.
CountAlways(fd) == fdCount + 1
CountWith(fd) == IF fd \in Observed THEN fdCount ELSE fdCount + 1

\* The user value addHandle stores the callback in: one of the two.
StoredWriteFirst(m) == IF "write" \in m THEN {"write"} ELSE {"read"}
Stored(m) == IF "read" \in m THEN {"read"} ELSE {"write"}
-----------------------------------------------------------------------------
HandleInit ==
  /\ node = <<>>
  /\ fdCount = 0
  /\ interest = <<>>
  /\ torn = {}

KernelAddsAlways(fd) == TRUE
\* p_ael_addhandle_impl: a node with a mask is in the kernel's list already
\* (EPOLL_CTL_MOD), one without is not (EPOLL_CTL_ADD).
KernelAdds(fd) == NodeOf(fd).msk = {} \/ fd \in Watched

\* lt_ael_addhandle, epoll_ctl having succeeded.
AddHandle(fd, m) ==
  LET old == NodeOf(fd)
  IN /\ KernelAdds(fd)
     /\ node' = Put(node, fd,
          [msk |-> old.msk \cup m,
           fns |-> old.fns \cup Stored(m)])
     /\ fdCount' = CountWith(fd)
     /\ interest' = Put(interest, fd, old.msk \cup m)
     /\ UNCHANGED torn

\* lt_ael_addhandle raises an error because epoll_ctl failed: a modification
\* fails for a descriptor the kernel does not watch, an addition may always
\* (a file that cannot be polled, no watches left).  The node stays.
AddHandleFails(fd) ==
  /\ NodeOf(fd).msk = {} \/ fd \notin Watched
  /\ node' = Put(node, fd, NodeOf(fd))
  /\ fdCount' = CountWith(fd)
  /\ UNCHANGED <<interest, torn>>

\* lt_ael_removehandle of an observed descriptor, epoll_ctl having succeeded.
\* While a direction is left the callback of the other one is not cleared:
\* lua_setiuservalue is applied to the nil on top of the stack, below the
\* popped value that the stack still holds, and nothing of the node changes.
RemoveHandle(fd, m) ==
  LET left == node[fd].msk \ m
  IN /\ fd \in Observed \cap Watched
     /\ IF left # {}
        THEN /\ node' = [node EXCEPT ![fd].msk = left]
             /\ fdCount' = fdCount
             /\ interest' = [interest EXCEPT ![fd] = left]
        ELSE /\ node' = Drop(node, {fd})
             /\ fdCount' = fdCount - 1
             /\ interest' = Drop(interest, {fd})
     /\ UNCHANGED torn

CleanHandlesKeepsWatch(S) ==
  /\ node' = Drop(node, S)
  /\ fdCount' = fdCount - Cardinality(S)
  /\ UNCHANGED <<interest, torn>>

\* The part of lt_ael_clean that drops the descriptors S, in the order of
\* lua_next.  It raises an error at the first one the kernel does not watch.
CleanHandlesOf(S) ==
  /\ node' = Drop(node, S)
  /\ fdCount' = fdCount - Cardinality(S)
  /\ interest' = Drop(interest, S)
  /\ UNCHANGED torn

CleanHandles ==
  \E S \in SUBSET (Observed \cap Watched) :
    /\ Observed \subseteq Watched => S = Observed
    /\ CleanHandlesOf(S)

\* The program closes fd; the number may be given to another descriptor.
Close(fd) ==
  /\ interest' = Drop(interest, {fd})
  /\ torn' = IF fd \in Watched THEN torn \cup {fd} ELSE torn
  /\ UNCHANGED <<node, fdCount>>

HandleNext ==
  \/ \E fd \in Fds, m \in Masks : AddHandle(fd, m) \/ RemoveHandle(fd, m)
  \/ \E fd \in Fds : AddHandleFails(fd) \/ Close(fd)
  \/ CleanHandles

HandleSpec == HandleInit /\ [][HandleNext]_handleVars
-----------------------------------------------------------------------------
(***************************************************************************)
(* Properties.                                                             *)
(***************************************************************************)

\* The types; fdCount is never negative.
HandleTypeOK ==
  /\ Observed \subseteq Fds
  /\ \A fd \in Observed : node[fd] \in [msk : SUBSET Dir, fns : SUBSET Dir]
  /\ fdCount \in Nat
  /\ Watched \subseteq Fds
  /\ \A fd \in Watched : interest[fd] \in Masks
  /\ torn \subseteq Fds

\* fdCount counts the nodes, which run() relies on to end, in spite of the
\* paths of addHandle and clean that leave in the middle.
CountMatchesNodes == fdCount = Cardinality(Observed)

\* The kernel watches what the nodes say: no event arrives for a descriptor
\* that has no node or in a direction that was removed, and a node that has
\* a mask gets its events, unless its descriptor was closed under the loop.
KernelAgrees ==
  /\ \A fd \in Watched : fd \in Observed /\ interest[fd] = node[fd].msk
  /\ \A fd \in Observed \ torn : node[fd].msk # {} => fd \in Watched

\* An event of a direction that has no callback is dropped without a trace,
\* and epoll reports it again at once.  For reading that cannot happen; a
\* descriptor added as "readwrite" alone has no callback for writing.
ReadHasCallback == \A fd \in Observed : "read" \in node[fd].msk => "read" \in node[fd].fns
=============================================================================
