-------------------------- MODULE DescriptorsProofs --------------------------
(***************************************************************************)
(* Proofs about Descriptors, for every finite set of descriptors: fdCount  *)
(* counts the nodes and the kernel's interest list follows them, whatever  *)
(* calls fail half-way and whatever descriptors are closed in between.     *)
(***************************************************************************)
EXTENDS Descriptors, FiniteSetTheorems, SequenceTheorems, TLAPS

(***************************************************************************)
(* The inductive invariant needs no strengthening beyond the conjunction:  *)
(* the count after a removal needs the type of the node table, and the     *)
(* agreement after clean needs that every watched descriptor has a node.   *)
(***************************************************************************)
HandleInv ==
  /\ HandleTypeOK
  /\ CountMatchesNodes
  /\ KernelAgrees
  /\ ReadHasCallback

LEMMA HandleInitInv == HandleInit => HandleInv
<1> SUFFICES ASSUME HandleInit PROVE HandleInv
  OBVIOUS
<1>1. Observed = {} /\ Watched = {} /\ fdCount = 0 /\ torn = {}
  BY EmptySeq DEF HandleInit, Observed, Watched
<1>2. Cardinality(Observed) = 0
  BY <1>1, FS_EmptySet
<1>3. QED
  BY <1>1, <1>2 DEF HandleInv, HandleTypeOK, CountMatchesNodes, KernelAgrees, ReadHasCallback

\* The node table after addHandle, with or without success.
LEMMA PutNode ==
  ASSUME HandleInv, NEW fd \in Fds, NEW n,
         node' = Put(node, fd, n), fdCount' = CountWith(fd)
  PROVE  /\ Observed' = Observed \cup {fd}
         /\ node'[fd] = n
         /\ \A y \in Observed : y # fd => node'[y] = node[y]
         /\ CountMatchesNodes'
         /\ fdCount' \in Nat
<1>1. Observed' = Observed \cup {fd} /\ node'[fd] = n
      /\ \A y \in Observed : y # fd => node'[y] = node[y]
  BY DEF Put, Observed
<1>2. IsFiniteSet(Observed)
  BY FdsAssumption, FS_Subset DEF HandleInv, HandleTypeOK
<1>3. Cardinality(Observed') = IF fd \in Observed THEN fdCount ELSE fdCount + 1
  BY <1>1, <1>2, FS_AddElement DEF HandleInv, CountMatchesNodes
<1>4. CountMatchesNodes'
  BY <1>3 DEF CountMatchesNodes, CountWith
<1>5. fdCount' \in Nat
  BY DEF HandleInv, HandleTypeOK, CountWith
<1>6. QED
  BY <1>1, <1>4, <1>5

\* The node table after nodes were dropped.
LEMMA DropNodes ==
  ASSUME HandleInv, NEW S \in SUBSET Observed,
         node' = Drop(node, S), fdCount' = fdCount - Cardinality(S)
  PROVE  /\ Observed' = Observed \ S
         /\ \A y \in Observed' : node'[y] = node[y]
         /\ CountMatchesNodes'
         /\ fdCount' \in Nat
<1>1. Observed' = Observed \ S /\ \A y \in Observed' : node'[y] = node[y]
  BY DEF Drop, Restrict, Observed
<1>2. IsFiniteSet(Observed)
  BY FdsAssumption, FS_Subset DEF HandleInv, HandleTypeOK
<1>3. IsFiniteSet(Observed') /\ Cardinality(Observed') = fdCount - Cardinality(S)
  <2>1. Observed \cap S = S
    OBVIOUS
  <2>2. IsFiniteSet(Observed \ S)
        /\ Cardinality(Observed \ S) = Cardinality(Observed) - Cardinality(Observed \cap S)
    BY <1>2, FS_Difference
  <2>3. QED
    BY <1>1, <2>1, <2>2 DEF HandleInv, CountMatchesNodes
<1>4. CountMatchesNodes'
  BY <1>3 DEF CountMatchesNodes
<1>5. fdCount' \in Nat
  BY <1>3, FS_CardinalityType
<1>6. QED
  BY <1>1, <1>4, <1>5

LEMMA AddHandleInv ==
  ASSUME HandleInv, NEW fd \in Fds, NEW m \in Masks, AddHandle(fd, m)
  PROVE  HandleInv'
<1> DEFINE old == NodeOf(fd)
           new == [msk |-> old.msk \cup m, fns |-> old.fns \cup Stored(m)]
<1>1. old \in [msk : SUBSET Dir, fns : SUBSET Dir]
      /\ ("read" \in old.msk => "read" \in old.fns)
  BY DEF HandleInv, HandleTypeOK, ReadHasCallback, NodeOf
<1>2. new \in [msk : SUBSET Dir, fns : SUBSET Dir] /\ new.msk \in Masks
      /\ ("read" \in new.msk => "read" \in new.fns)
  BY <1>1 DEF Masks, Stored, Dir
<1>3. node' = Put(node, fd, new) /\ fdCount' = CountWith(fd) /\ torn' = torn
      /\ interest' = Put(interest, fd, new.msk)
  BY DEF AddHandle
<1> HIDE DEF new, old
<1>4. /\ Observed' = Observed \cup {fd} /\ node'[fd] = new
      /\ \A y \in Observed : y # fd => node'[y] = node[y]
      /\ CountMatchesNodes' /\ fdCount' \in Nat
  BY <1>3, PutNode
<1>5. /\ Watched' = Watched \cup {fd} /\ interest'[fd] = new.msk
      /\ \A y \in Watched : y # fd => interest'[y] = interest[y]
  BY <1>3 DEF Put, Watched
<1>6. HandleTypeOK'
  BY <1>2, <1>3, <1>4, <1>5 DEF HandleInv, HandleTypeOK
<1>7. KernelAgrees'
  BY <1>3, <1>4, <1>5 DEF HandleInv, KernelAgrees
<1>8. ReadHasCallback'
  BY <1>2, <1>4 DEF HandleInv, ReadHasCallback
<1>9. QED
  BY <1>4, <1>6, <1>7, <1>8 DEF HandleInv

LEMMA AddHandleFailsInv ==
  ASSUME HandleInv, NEW fd \in Fds, AddHandleFails(fd)
  PROVE  HandleInv'
<1> DEFINE old == NodeOf(fd)
<1>1. old \in [msk : SUBSET Dir, fns : SUBSET Dir]
      /\ ("read" \in old.msk => "read" \in old.fns)
      /\ (fd \notin Observed => old.msk = {})
      /\ (fd \in Observed => old = node[fd])
  BY DEF HandleInv, HandleTypeOK, ReadHasCallback, NodeOf
<1>2. node' = Put(node, fd, old) /\ fdCount' = CountWith(fd)
      /\ torn' = torn /\ interest' = interest /\ Watched' = Watched
  BY DEF AddHandleFails, Watched
<1> HIDE DEF old
<1>3. /\ Observed' = Observed \cup {fd} /\ node'[fd] = old
      /\ \A y \in Observed : y # fd => node'[y] = node[y]
      /\ CountMatchesNodes' /\ fdCount' \in Nat
  BY <1>2, PutNode
<1>4. HandleTypeOK'
  BY <1>1, <1>2, <1>3 DEF HandleInv, HandleTypeOK
<1>5. KernelAgrees'
  BY <1>1, <1>2, <1>3 DEF HandleInv, KernelAgrees
<1>6. ReadHasCallback'
  BY <1>1, <1>3 DEF HandleInv, ReadHasCallback
<1>7. QED
  BY <1>3, <1>4, <1>5, <1>6 DEF HandleInv

\* Dropping the same descriptors from both tables.
LEMMA DropBothInv ==
  ASSUME HandleInv, NEW S \in SUBSET (Observed \cap Watched),
         node' = Drop(node, S), fdCount' = fdCount - Cardinality(S),
         interest' = Drop(interest, S), torn' = torn
  PROVE  HandleInv'
<1>1. /\ Observed' = Observed \ S
      /\ \A y \in Observed' : node'[y] = node[y]
      /\ CountMatchesNodes' /\ fdCount' \in Nat
  BY DropNodes
<1>2. /\ Watched' = Watched \ S
      /\ \A y \in Watched' : interest'[y] = interest[y]
  BY DEF Drop, Restrict, Watched
<1>3. HandleTypeOK'
  BY <1>1, <1>2 DEF HandleInv, HandleTypeOK
<1>4. KernelAgrees'
  BY <1>1, <1>2 DEF HandleInv, KernelAgrees
<1>5. ReadHasCallback'
  BY <1>1 DEF HandleInv, ReadHasCallback
<1>6. QED
  BY <1>1, <1>3, <1>4, <1>5 DEF HandleInv

LEMMA RemoveHandleInv ==
  ASSUME HandleInv, NEW fd \in Fds, NEW m \in Masks, RemoveHandle(fd, m)
  PROVE  HandleInv'
<1> DEFINE left == node[fd].msk \ m
<1>1. fd \in Observed /\ fd \in Watched /\ torn' = torn
  BY DEF RemoveHandle
<1>2. CASE left = {}
  <2>1. node' = Drop(node, {fd}) /\ fdCount' = fdCount - 1 /\ interest' = Drop(interest, {fd})
    BY <1>2 DEF RemoveHandle
  <2>2. Cardinality({fd}) = 1
    BY FS_Singleton
  <2>3. QED
    BY <1>1, <2>1, <2>2, DropBothInv
<1>3. CASE left # {}
  <2>1. node' = [node EXCEPT ![fd].msk = left] /\ fdCount' = fdCount
        /\ interest' = [interest EXCEPT ![fd] = left]
    BY <1>3 DEF RemoveHandle
  <2>2. node[fd] \in [msk : SUBSET Dir, fns : SUBSET Dir]
    BY <1>1 DEF HandleInv, HandleTypeOK
  <2>3. left \in Masks
    BY <1>3, <2>2 DEF Masks
  <2>4. left \subseteq node[fd].msk
    OBVIOUS
  <2> HIDE DEF left
  <2>5. Observed' = Observed /\ Watched' = Watched
    BY <2>1 DEF Observed, Watched
  <2>6. node'[fd] = [node[fd] EXCEPT !.msk = left]
        /\ \A y \in Observed : y # fd => node'[y] = node[y]
    BY <1>1, <2>1 DEF Observed
  <2>7. node'[fd].msk = left /\ node'[fd].fns = node[fd].fns
        /\ node'[fd] \in [msk : SUBSET Dir, fns : SUBSET Dir]
    BY <2>2, <2>3, <2>6 DEF Masks
  <2>8. interest'[fd] = left /\ \A y \in Watched : y # fd => interest'[y] = interest[y]
    BY <1>1, <2>1 DEF Watched
  <2>9. HandleTypeOK'
    BY <1>1, <2>1, <2>3, <2>5, <2>6, <2>7, <2>8 DEF HandleInv, HandleTypeOK
  <2>10. CountMatchesNodes'
    BY <2>1, <2>5 DEF HandleInv, CountMatchesNodes
  <2>11. KernelAgrees'
    BY <1>1, <2>5, <2>6, <2>7, <2>8 DEF HandleInv, KernelAgrees
  <2>12. ReadHasCallback'
    BY <1>1, <2>4, <2>5, <2>6, <2>7 DEF HandleInv, ReadHasCallback
  <2>13. QED
    BY <2>9, <2>10, <2>11, <2>12 DEF HandleInv
<1>4. QED
  BY <1>2, <1>3

LEMMA CloseInv ==
  ASSUME HandleInv, NEW fd \in Fds, Close(fd)
  PROVE  HandleInv'
<1>1. node' = node /\ Observed' = Observed /\ fdCount' = fdCount
  BY DEF Close, Observed
<1>2. /\ Watched' = Watched \ {fd}
      /\ \A y \in Watched' : interest'[y] = interest[y]
  BY DEF Drop, Restrict, Close, Watched
<1>3. torn' = IF fd \in Watched THEN torn \cup {fd} ELSE torn
  BY DEF Close
<1>4. HandleTypeOK'
  BY <1>1, <1>2, <1>3 DEF HandleInv, HandleTypeOK
<1>5. CountMatchesNodes' /\ ReadHasCallback'
  BY <1>1 DEF HandleInv, CountMatchesNodes, ReadHasCallback
<1>6. KernelAgrees'
  BY <1>1, <1>2, <1>3 DEF HandleInv, KernelAgrees
<1>7. QED
  BY <1>4, <1>5, <1>6 DEF HandleInv

LEMMA HandleNextInv == HandleInv /\ [HandleNext]_handleVars => HandleInv'
<1> SUFFICES ASSUME HandleInv, [HandleNext]_handleVars PROVE HandleInv'
  OBVIOUS
<1>1. CASE CleanHandles
  <2>1. PICK S \in SUBSET (Observed \cap Watched) : CleanHandlesOf(S)
    BY <1>1 DEF CleanHandles
  <2>2. QED
    BY <2>1, DropBothInv DEF CleanHandlesOf
<1>2. CASE UNCHANGED handleVars
  BY <1>2 DEF handleVars, HandleInv, HandleTypeOK, CountMatchesNodes, KernelAgrees,
              ReadHasCallback, Observed, Watched
<1>3. QED
  BY <1>1, <1>2, AddHandleInv, AddHandleFailsInv, RemoveHandleInv, CloseInv DEF HandleNext

\* The inductive invariant holds in every reachable state.
THEOREM HandleInvariant == HandleSpec => []HandleInv
<1>1. QED
  BY HandleInitInv, HandleNextInv, PTL DEF HandleSpec

\* fdCount is the number of nodes after every call, also after an addHandle
\* that raised an error and a clean that stopped half-way.
THEOREM CountIsExact == HandleSpec => []CountMatchesNodes
<1>1. HandleInv => CountMatchesNodes
  BY DEF HandleInv
<1>2. QED
  BY <1>1, HandleInvariant, PTL

\* epoll watches exactly what the nodes ask for, unless the program closed
\* the descriptor under the loop.
THEOREM KernelFollows == HandleSpec => []KernelAgrees
<1>1. HandleInv => KernelAgrees
  BY DEF HandleInv
<1>2. QED
  BY <1>1, HandleInvariant, PTL

\* A read event always finds a callback.
THEOREM ReadCallback == HandleSpec => []ReadHasCallback
<1>1. HandleInv => ReadHasCallback
  BY DEF HandleInv
<1>2. QED
  BY <1>1, HandleInvariant, PTL
=============================================================================
