---------------------------- MODULE TaskListProofs ----------------------------
(***************************************************************************)
(* Theorems on TaskList, for every finite set of tasks, all delays and     *)
(* elapsed times: the walk from the head ends, and the pointer operations  *)
(* of t_ael_tsk.c are the sequence operations of TaskQueue, so that what   *)
(* TaskQueueProofs says of the queue is true of the linked list.           *)
(*                                                                         *)
(* The invariant (ListInv) is that the pointers lead through some sequence *)
(* of tasks, each once, and then nowhere.  The links of tasks that are not *)
(* linked may lead anywhere: t_ael_tsk_remove clears the link of the task  *)
(* it is called with, linked or not, and a new task has none, which is     *)
(* what an insertion into an empty list relies on.                         *)
(***************************************************************************)
EXTENDS TaskList, FiniteSetTheorems, WellFoundedInduction, TLAPS

Links == Tasks \cup {NoTask}
Lists == [head : Links, nxt : [Tasks -> Links], ttl : [Tasks -> Int], tout : Int]

\* The task at position i, NoTask behind the last one.
At(c, i) == IF i \in 1..Len(c) THEN c[i] ELSE NoTask

Once(c) == \A i, j \in 1..Len(c) : c[i] = c[j] => i = j

\* The pointers of l lead through the tasks of c, each once, and then nowhere.
Leads(l, c) ==
  /\ Once(c)
  /\ l.head = At(c, 1)
  /\ \A i \in 1..Len(c) : l.nxt[c[i]] = At(c, i + 1)

ListInv ==
  /\ list \in Lists
  /\ running \in Links
  /\ processing \in BOOLEAN
  /\ \E c \in Seq(Tasks) : Leads(list, c)

N == Cardinality(Tasks)

-----------------------------------------------------------------------------
(***************************************************************************)
(* The walk from the head.                                                 *)
(***************************************************************************)

\* A set of numbers has a smallest element.
LessThan == {ss \in Nat \X Nat : ss[1] < ss[2]}

LEMMA LeastNumber ==
  ASSUME NEW S \in SUBSET Nat, S # {}
  PROVE  \E x \in S : \A y \in S : x <= y
<1>1. IsWellFoundedOn(LessThan, Nat)
  BY NatLessThanWellFounded DEF LessThan, OpToRel
<1>2. PICK x \in S : \A y \in S : ~(<<y, x>> \in LessThan)
  BY <1>1, WFMin
<1>3. ASSUME NEW y \in S
      PROVE  x <= y
  <2>1. x \in Nat /\ y \in Nat /\ ~(<<y, x>> \in LessThan)
    BY <1>2
  <2>2. QED
    BY <2>1 DEF LessThan
<1>4. QED
  BY <1>3

\* Tasks that are there once are not more than there are.
LEMMA NotMoreThanTasks ==
  ASSUME NEW c \in Seq(Tasks), Once(c)
  PROVE  N \in Nat /\ Len(c) \in Nat /\ Len(c) <= N
<1>1. N \in Nat
  BY ListAssumption, FS_CardinalityType DEF N
<1>2. Len(c) \in Nat /\ c \in [1..Len(c) -> Tasks]
  OBVIOUS
<1>3. c \in Injection(1..Len(c), Tasks)
  BY <1>2 DEF Once, Injection, IsInjective
<1>4. Cardinality(1..Len(c)) <= Cardinality(Tasks)
  BY <1>3, ListAssumption, FS_Injection
<1>5. Cardinality(1..Len(c)) = Len(c)
  BY <1>2, FS_Interval
<1>6. QED
  BY <1>1, <1>2, <1>4, <1>5 DEF N

LEMMA ListParts ==
  ASSUME NEW l \in Lists
  PROVE  l.head \in Links /\ l.nxt \in [Tasks -> Links] /\ l.ttl \in [Tasks -> Int] /\ l.tout \in Int
BY DEF Lists

\* The walk meets the tasks in their order: the tasks of c solve the equation of the walk,
\* and nothing else does.
LEMMA WalkMeets ==
  ASSUME NEW l \in Lists, NEW c \in Seq(Tasks), Leads(l, c)
  PROVE  Reached(l) = [k \in 0..N |-> At(c, k + 1)]
<1> DEFINE Step(f) ==
             [k \in 0..N |-> IF k = 0 THEN l.head
                             ELSE IF f[k - 1] = NoTask THEN NoTask ELSE l.nxt[f[k - 1]]]
           g == [k \in 0..N |-> At(c, k + 1)]
           r == Reached(l)
<1>1. N \in Nat /\ Len(c) \in Nat /\ Len(c) <= N
  BY NotMoreThanTasks DEF Leads
<1>2. r = CHOOSE f : f = Step(f)
  BY DEF Reached, N
<1>3. \A i \in 1..Len(c) : c[i] \in Tasks /\ c[i] # NoTask
  BY ListAssumption
<1>4. ASSUME NEW f, f = Step(f)
      PROVE  \A k \in 0..N : f[k] = At(c, k + 1)
  <2> DEFINE D == {k \in 0..N : f[k] # At(c, k + 1)}
  <2> SUFFICES ASSUME D # {} PROVE FALSE
    OBVIOUS
  <2>1. PICK k \in D : \A m \in D : k <= m
    <3>1. D \in SUBSET Nat
      BY <1>1
    <3>2. QED
      BY <3>1, LeastNumber
  <2>2. k \in 0..N /\ k \in Nat
    BY <1>1
  <2>3. f[k] = IF k = 0 THEN l.head ELSE IF f[k - 1] = NoTask THEN NoTask ELSE l.nxt[f[k - 1]]
    BY <1>4, <2>2
  <2>4. CASE k = 0
    BY <2>1, <2>3, <2>4 DEF Leads
  <2>5. CASE k # 0
    <3>1. k - 1 \in 0..N /\ k - 1 \notin D
      BY <1>1, <2>1, <2>2, <2>5
    <3>2. f[k - 1] = At(c, k)
      BY <2>2, <3>1
    <3>3. CASE k \in 1..Len(c)
      <4>1. f[k - 1] = c[k] /\ c[k] # NoTask
        BY <1>3, <3>2, <3>3 DEF At
      <4>2. f[k] = At(c, k + 1)
        BY <2>3, <2>5, <3>3, <4>1 DEF Leads
      <4>3. QED
        BY <2>1, <4>2
    <3>4. CASE k \notin 1..Len(c)
      <4>1. k + 1 \notin 1..Len(c)
        BY <1>1, <2>2, <2>5, <3>4
      <4>2. f[k] = At(c, k + 1)
        BY <2>3, <2>5, <3>2, <3>4, <4>1 DEF At
      <4>3. QED
        BY <2>1, <4>2
    <3>5. QED
      BY <3>3, <3>4
  <2>6. QED
    BY <2>4, <2>5
<1>5. g = Step(g)
  <2> SUFFICES ASSUME NEW k \in 0..N
               PROVE  g[k] = IF k = 0 THEN l.head
                             ELSE IF g[k - 1] = NoTask THEN NoTask ELSE l.nxt[g[k - 1]]
    OBVIOUS
  <2>1. k \in Nat /\ g[k] = At(c, k + 1)
    BY <1>1
  <2>2. CASE k = 0
    BY <2>1, <2>2 DEF Leads
  <2>3. CASE k # 0
    <3>1. k - 1 \in 0..N /\ g[k - 1] = At(c, k)
      BY <1>1, <2>1, <2>3
    <3>2. CASE k \in 1..Len(c)
      <4>1. g[k - 1] = c[k] /\ c[k] # NoTask
        BY <1>3, <3>1, <3>2 DEF At
      <4>2. QED
        BY <2>1, <2>3, <3>2, <4>1 DEF Leads
    <3>3. CASE k \notin 1..Len(c)
      <4>1. k + 1 \notin 1..Len(c)
        BY <1>1, <2>1, <2>3, <3>3
      <4>2. QED
        BY <2>1, <2>3, <3>1, <3>3, <4>1 DEF At
    <3>4. QED
      BY <3>2, <3>3
  <2>4. QED
    BY <2>2, <2>3
<1> HIDE DEF g
<1>6. r = Step(r)
  <2>1. \E f : f = Step(f)
    BY <1>5
  <2> HIDE DEF Step, r
  <2>2. QED
    BY <1>2, <2>1
<1>7. \A k \in 0..N : r[k] = At(c, k + 1)
  <2> HIDE DEF Step, r
  <2>1. QED
    BY <1>4, <1>6
<1>8. r = [k \in 0..N |-> r[k]]
  BY <1>6
<1>9. QED
  BY <1>7, <1>8

\* The chain is the tasks.
LEMMA ChainIs ==
  ASSUME NEW l \in Lists, NEW c \in Seq(Tasks), Leads(l, c)
  PROVE  Chain(l) = c /\ Reached(l)[Cardinality(Tasks)] = NoTask
<1> DEFINE r == Reached(l)
           n == Cardinality({k \in DOMAIN r : r[k] # NoTask})
<1>1. N \in Nat /\ Len(c) \in Nat /\ Len(c) <= N
  BY NotMoreThanTasks DEF Leads
<1>2. DOMAIN r = 0..N /\ \A k \in 0..N : r[k] = At(c, k + 1)
  BY WalkMeets
<1>3. \A i \in 1..Len(c) : c[i] \in Tasks /\ c[i] # NoTask
  BY ListAssumption
<1> HIDE DEF r
<1>4. {k \in DOMAIN r : r[k] # NoTask} = 0..(Len(c) - 1)
  <2>1. ASSUME NEW k \in 0..N
        PROVE  r[k] # NoTask <=> k \in 0..(Len(c) - 1)
    <3>1. k + 1 \in 1..Len(c) <=> k \in 0..(Len(c) - 1)
      BY <1>1
    <3>2. QED
      BY <1>2, <1>3, <3>1 DEF At
  <2>2. 0..(Len(c) - 1) \subseteq 0..N
    BY <1>1
  <2>3. QED
    BY <1>2, <2>1, <2>2
<1>5. n = Len(c)
  <2>1. Cardinality(0..(Len(c) - 1)) = IF 0 > Len(c) - 1 THEN 0 ELSE (Len(c) - 1) - 0 + 1
    <3>1. 0 \in Int /\ Len(c) - 1 \in Int
      BY <1>1
    <3>2. QED
      BY <3>1, FS_Interval
  <2>2. n = Cardinality(0..(Len(c) - 1))
    BY <1>4, Zenon
  <2> HIDE DEF n
  <2>3. QED
    BY <1>1, <2>1, <2>2
<1>6. Chain(l) = [i \in 1..n |-> r[i - 1]]
  BY DEF Chain, r
<1>7. ASSUME NEW i \in 1..Len(c)
      PROVE  r[i - 1] = c[i]
  <2>1. i - 1 \in 0..N /\ (i - 1) + 1 = i
    BY <1>1
  <2>2. QED
    BY <1>2, <2>1 DEF At
<1>8. Chain(l) = [i \in 1..Len(c) |-> c[i]]
  BY <1>5, <1>6, <1>7
<1>9. Chain(l) = c
  BY <1>8
<1>10. r[N] = NoTask
  <2>1. N \in 0..N /\ N + 1 \notin 1..Len(c)
    BY <1>1
  <2>2. QED
    BY <1>2, <2>1 DEF At
<1>11. QED
  BY <1>9, <1>10 DEF N, r

-----------------------------------------------------------------------------
(***************************************************************************)
(* The queue that the list stands for.                                     *)
(***************************************************************************)

\* TaskQueue with what is proved about its operations.
TQ == INSTANCE TaskQueueProofs WITH queue <- Sequence(list), tout <- list.tout

Entries == [task : Tasks, tout : Int]

LEMMA SlotIs ==
  ASSUME NEW q \in Seq(Entries), NEW ms \in Int
  PROVE  /\ Queue!Slot(q, ms) \in 1..Len(q) + 1
         /\ \A j \in 1..Queue!Slot(q, ms) - 1 : q[j].tout < ms
         /\ Queue!Slot(q, ms) <= Len(q) => q[Queue!Slot(q, ms)].tout >= ms
<1>1. Queue!Slot(q, ms) = TQ!Slot(q, ms)
  BY DEF TQ!Slot, Queue!Slot, TQ!Min, Queue!Min
<1>2. q \in Seq(TQ!Entries)
  BY DEF Entries, TQ!Entries
<1>3. QED
  BY <1>1, <1>2, ListAssumption, TQ!SlotIsFirst

LEMMA QueueInserted ==
  ASSUME NEW q \in Seq(Entries), NEW t \in Tasks, NEW ms \in Int
  PROVE  /\ Queue!Inserted(q, t, ms) \in Seq(Entries)
         /\ Len(Queue!Inserted(q, t, ms)) = Len(q) + 1
         /\ \A j \in 1..Len(q) + 1 :
              Queue!Inserted(q, t, ms)[j] =
                IF j < Queue!Slot(q, ms) THEN q[j]
                ELSE IF j = Queue!Slot(q, ms) THEN Queue!Entry(t, ms) ELSE q[j - 1]
<1>1. Queue!Slot(q, ms) = TQ!Slot(q, ms)
  BY DEF TQ!Slot, Queue!Slot, TQ!Min, Queue!Min
<1>2. q \in Seq(TQ!Entries) /\ TQ!Entries = Entries
  BY DEF Entries, TQ!Entries
<1>3. Queue!Entry(t, ms) = TQ!Entry(t, ms)
  BY DEF Queue!Entry, TQ!Entry
<1>4. Queue!Inserted(q, t, ms) = TQ!Inserted(q, t, ms)
  BY <1>1, <1>3 DEF Queue!Inserted, TQ!Inserted, Queue!InsertAt, TQ!InsertAt
<1>5. /\ TQ!Inserted(q, t, ms) \in Seq(TQ!Entries)
      /\ Len(TQ!Inserted(q, t, ms)) = Len(q) + 1
      /\ \A j \in 1..Len(q) + 1 :
           TQ!Inserted(q, t, ms)[j] =
             IF j < TQ!Slot(q, ms) THEN q[j]
             ELSE IF j = TQ!Slot(q, ms) THEN TQ!Entry(t, ms) ELSE q[j - 1]
  BY <1>2, ListAssumption, TQ!InsertedElements
<1>6. QED
  BY <1>1, <1>2, <1>3, <1>4, <1>5

LEMMA QueueRemoved ==
  ASSUME NEW q \in Seq(Entries), NEW t, Queue!IsQueued(q, t)
  PROVE  \E k \in 1..Len(q) :
           /\ q[k].task = t
           /\ \A j \in 1..k - 1 : q[j].task # t
           /\ Queue!Removed(q, t) \in Seq(Entries)
           /\ Len(Queue!Removed(q, t)) = Len(q) - 1
           /\ \A j \in 1..Len(q) - 1 :
                Queue!Removed(q, t)[j] = IF j < k THEN q[j] ELSE q[j + 1]
<1>1. q \in Seq(TQ!Entries) /\ TQ!Entries = Entries
  BY DEF Entries, TQ!Entries
<1>2. TQ!IsQueued(q, t)
  BY DEF Queue!IsQueued, TQ!IsQueued
<1>3. Queue!Removed(q, t) = TQ!Removed(q, t)
  BY DEF Queue!Removed, TQ!Removed, Queue!RemoveAt, TQ!RemoveAt, Queue!Min, TQ!Min, Queue!IsQueued, TQ!IsQueued
<1>4. \E k \in 1..Len(q) :
        /\ q[k].task = t
        /\ \A j \in 1..k - 1 : q[j].task # t
        /\ TQ!Removed(q, t) \in Seq(TQ!Entries)
        /\ Len(TQ!Removed(q, t)) = Len(q) - 1
        /\ \A j \in 1..Len(q) - 1 :
             TQ!Removed(q, t)[j] = IF j < k THEN q[j] ELSE q[j + 1]
  BY <1>1, <1>2, ListAssumption, TQ!RemovedElements
<1>5. QED
  BY <1>1, <1>3, <1>4

\* Sequences of the same length with the same elements.
LEMMA SameQueue ==
  ASSUME NEW q \in Seq(Entries), NEW r \in Seq(Entries), Len(q) = Len(r),
         \A i \in 1..Len(q) : q[i] = r[i]
  PROVE  q = r
OBVIOUS

LEMMA SequenceIs ==
  ASSUME NEW l \in Lists, NEW c \in Seq(Tasks), Leads(l, c)
  PROVE  /\ Sequence(l) \in Seq(Entries)
         /\ Len(Sequence(l)) = Len(c)
         /\ \A i \in 1..Len(c) : /\ Sequence(l)[i] = Queue!Entry(c[i], l.ttl[c[i]])
                                 /\ Sequence(l)[i].task = c[i]
                                 /\ Sequence(l)[i].tout = l.ttl[c[i]]
<1>1. Sequence(l) = [i \in DOMAIN c |-> [task |-> c[i], tout |-> l.ttl[c[i]]]]
  BY ChainIs DEF Sequence
<1>2. DOMAIN c = 1..Len(c) /\ Len(c) \in Nat
  OBVIOUS
<1>3. \A i \in 1..Len(c) : c[i] \in Tasks /\ l.ttl[c[i]] \in Int
  BY ListParts
<1>4. \A i \in 1..Len(c) : [task |-> c[i], tout |-> l.ttl[c[i]]] \in Entries
  BY <1>3 DEF Entries
<1>5. \A i \in 1..Len(c) : Sequence(l)[i] = [task |-> c[i], tout |-> l.ttl[c[i]]]
  BY <1>1, <1>2
<1>6. Sequence(l) = [i \in 1..Len(c) |-> [task |-> c[i], tout |-> l.ttl[c[i]]]]
  BY <1>1, <1>2
<1>7. Sequence(l) \in Seq(Entries) /\ Len(Sequence(l)) = Len(c)
  BY <1>2, <1>4, <1>6
<1>8. QED
  BY <1>5, <1>7 DEF Queue!Entry

-----------------------------------------------------------------------------
(***************************************************************************)
(* The two walks that look for a place.                                    *)
(***************************************************************************)

LEMMA PreviousIs ==
  ASSUME NEW l \in Lists, NEW c \in Seq(Tasks), Leads(l, c), NEW t \in Tasks
  PROVE  /\ \A k \in 2..Len(c) : c[k] = t => Previous(l, t) = c[k - 1]
         /\ (\A k \in 2..Len(c) : c[k] # t) => Previous(l, t) = NoTask
<1> DEFINE before == {i \in 1..Len(Chain(l)) - 1 : Chain(l)[i + 1] = t}
<1>1. Len(c) \in Nat
  OBVIOUS
<1>2. /\ Previous(l, t) = IF before = {} THEN NoTask ELSE c[CHOOSE i \in before : TRUE]
      /\ \A i : i \in before <=> i \in 1..Len(c) - 1 /\ c[i + 1] = t
  <2>1. Chain(l) = c
    BY ChainIs
  <2>2. Previous(l, t) = IF before = {} THEN NoTask ELSE Chain(l)[CHOOSE i \in before : TRUE]
    BY DEF Previous
  <2>3. QED
    BY <2>1, <2>2
<1> HIDE DEF before
<1>3. ASSUME NEW k \in 2..Len(c), c[k] = t
      PROVE  Previous(l, t) = c[k - 1]
  <2>1. before = {k - 1}
    <3>1. k - 1 \in 1..Len(c) - 1 /\ (k - 1) + 1 = k
      BY <1>1
    <3>2. ASSUME NEW i \in before
          PROVE  i = k - 1
      <4>1. i \in Int /\ i + 1 \in 1..Len(c) /\ c[i + 1] = c[k] /\ k \in 1..Len(c)
        BY <1>1, <1>2, <1>3
      <4>2. i + 1 = k
        BY <4>1 DEF Leads, Once
      <4>3. QED
        BY <1>1, <4>1, <4>2
    <3>3. QED
      BY <1>2, <1>3, <3>1, <3>2
  <2>2. QED
    BY <1>2, <2>1
<1>4. ASSUME \A k \in 2..Len(c) : c[k] # t
      PROVE  Previous(l, t) = NoTask
  <2>1. \A i \in 1..Len(c) - 1 : i + 1 \in 2..Len(c)
    BY <1>1
  <2>2. before = {}
    BY <1>2, <1>4, <2>1
  <2>3. QED
    BY <1>2, <2>2
<1>5. QED
  BY <1>3, <1>4

\* The walk of an insertion stops before the slot.
LEMMA LastBeforeIs ==
  ASSUME NEW l \in Lists, NEW c \in Seq(Tasks), Leads(l, c), NEW ms \in Int,
         l.head # NoTask, ~(l.ttl[l.head] >= ms)
  PROVE  /\ Queue!Slot(Sequence(l), ms) \in 2..Len(c) + 1
         /\ LastBefore(l, ms) = c[Queue!Slot(Sequence(l), ms) - 1]
<1> DEFINE q == Sequence(l)
           s == Queue!Slot(q, ms)
           stops == {i \in 1..Len(c) : l.nxt[c[i]] = NoTask \/ l.ttl[l.nxt[c[i]]] >= ms}
<1>1. /\ q \in Seq(Entries) /\ Len(q) = Len(c) /\ Len(c) \in Nat
      /\ \A i \in 1..Len(c) : q[i].tout = l.ttl[c[i]]
  BY SequenceIs
<1>2. /\ s \in 1..Len(c) + 1
      /\ \A j \in 1..s - 1 : q[j].tout < ms
      /\ s <= Len(c) => q[s].tout >= ms
  BY <1>1, SlotIs
<1>3. \A i \in 1..Len(c) : c[i] \in Tasks /\ c[i] # NoTask /\ l.ttl[c[i]] \in Int
  BY ListAssumption, ListParts
<1>4. 1 \in 1..Len(c) /\ l.head = c[1]
  BY DEF Leads, At
<1> HIDE DEF q, s
<1>5. s # 1
  BY <1>1, <1>2, <1>4
<1>6. s \in 2..Len(c) + 1 /\ s - 1 \in 1..Len(c)
  BY <1>1, <1>2, <1>5
<1>7. ASSUME NEW i \in 1..Len(c)
      PROVE  i \in stops <=> (i = Len(c) \/ l.ttl[c[i + 1]] >= ms)
  <2>1. l.nxt[c[i]] = At(c, i + 1)
    BY DEF Leads
  <2>2. CASE i = Len(c)
    BY <1>1, <2>1, <2>2 DEF At
  <2>3. CASE i # Len(c)
    <3>1. i + 1 \in 1..Len(c)
      BY <1>1, <2>3
    <3>2. l.nxt[c[i]] = c[i + 1] /\ c[i + 1] # NoTask
      BY <1>3, <2>1, <3>1 DEF At
    <3>3. QED
      BY <2>3, <3>2
  <2>4. QED
    BY <2>2, <2>3
<1>8. s - 1 \in stops
  <2>1. CASE s - 1 = Len(c)
    BY <1>6, <1>7, <2>1
  <2>2. CASE s - 1 # Len(c)
    <3>1. s \in 1..Len(c) /\ (s - 1) + 1 = s
      BY <1>1, <1>6, <2>2
    <3>2. l.ttl[c[s]] >= ms
      BY <1>1, <1>2, <3>1
    <3>3. QED
      BY <1>6, <1>7, <3>1, <3>2
  <2>3. QED
    BY <2>1, <2>2
<1>9. ASSUME NEW i \in stops
      PROVE  s - 1 <= i
  <2> SUFFICES ASSUME i < s - 1 PROVE FALSE
    BY <1>1, <1>6
  <2>1. i \in 1..Len(c) /\ i # Len(c) /\ i + 1 \in 1..s - 1 /\ i + 1 \in 1..Len(c)
    BY <1>1, <1>6
  <2>2. l.ttl[c[i + 1]] >= ms
    BY <1>7, <2>1
  <2>3. l.ttl[c[i + 1]] < ms /\ l.ttl[c[i + 1]] \in Int
    BY <1>1, <1>2, <1>3, <2>1
  <2>4. QED
    BY <2>2, <2>3
<1>10. LastBefore(l, ms) = c[CHOOSE i \in stops : \A j \in stops : i <= j]
  <2>1. Chain(l) = c
    BY ChainIs
  <2>2. QED
    BY <2>1 DEF LastBefore
<1>11. ASSUME NEW i \in stops, \A j \in stops : i <= j
       PROVE  i = s - 1
  <2>1. i \in Int
    OBVIOUS
  <2> HIDE DEF stops
  <2>2. i <= s - 1
    BY <1>8, <1>11
  <2>3. s - 1 <= i
    BY <1>9
  <2>4. QED
    BY <1>6, <2>1, <2>2, <2>3
<1> HIDE DEF stops
<1>12. (CHOOSE i \in stops : \A j \in stops : i <= j) = s - 1
  BY <1>8, <1>9, <1>11
<1>13. QED
  BY <1>6, <1>10, <1>12 DEF s, q

-----------------------------------------------------------------------------
(***************************************************************************)
(* What the pointer operations do.                                         *)
(***************************************************************************)

\* c with t at position s, and c without position k.
Plus(c, s, t) == [j \in 1..Len(c) + 1 |-> IF j < s THEN c[j] ELSE IF j = s THEN t ELSE c[j - 1]]
Minus(c, k)   == [j \in 1..Len(c) - 1 |-> IF j < k THEN c[j] ELSE c[j + 1]]

Linked(c, t) == \E i \in 1..Len(c) : c[i] = t

LEMMA PlusIs ==
  ASSUME NEW c \in Seq(Tasks), Once(c), NEW t \in Tasks, ~Linked(c, t), NEW s \in 1..Len(c) + 1
  PROVE  /\ Plus(c, s, t) \in Seq(Tasks) /\ Once(Plus(c, s, t)) /\ Len(Plus(c, s, t)) = Len(c) + 1
         /\ \A j \in Nat \ {0} : At(Plus(c, s, t), j) =
              IF j < s THEN At(c, j) ELSE IF j = s THEN t ELSE At(c, j - 1)
<1> DEFINE d == Plus(c, s, t)
<1>1. Len(c) \in Nat /\ \A i \in 1..Len(c) : c[i] \in Tasks /\ c[i] # t
  BY DEF Linked
<1>2. \A j \in 1..Len(c) + 1 :
        /\ j < s => j \in 1..Len(c) /\ d[j] = c[j]
        /\ j = s => d[j] = t
        /\ j > s => j - 1 \in 1..Len(c) /\ d[j] = c[j - 1]
  BY <1>1 DEF Plus
<1>3. d \in Seq(Tasks) /\ Len(d) = Len(c) + 1
  <2>1. \A j \in 1..Len(c) + 1 : d[j] \in Tasks
    BY <1>1, <1>2
  <2>2. d = [j \in 1..Len(c) + 1 |-> d[j]]
    BY DEF Plus
  <2> HIDE DEF d
  <2>3. QED
    BY <1>1, <2>1, <2>2
<1> HIDE DEF d
<1>4. ASSUME NEW i \in 1..Len(c) + 1, NEW j \in 1..Len(c) + 1, d[i] = d[j]
      PROVE  i = j
  BY <1>1, <1>2, <1>4 DEF Once
<1>5. Once(d)
  BY <1>3, <1>4 DEF Once
<1>6. ASSUME NEW j \in Nat \ {0}
      PROVE  At(d, j) = IF j < s THEN At(c, j) ELSE IF j = s THEN t ELSE At(c, j - 1)
  BY <1>1, <1>2, <1>3 DEF At
<1>7. QED
  BY <1>3, <1>5, <1>6 DEF d

LEMMA MinusIs ==
  ASSUME NEW c \in Seq(Tasks), Once(c), NEW k \in 1..Len(c)
  PROVE  /\ Minus(c, k) \in Seq(Tasks) /\ Once(Minus(c, k)) /\ Len(Minus(c, k)) = Len(c) - 1
         /\ \A j \in Nat \ {0} : At(Minus(c, k), j) = IF j < k THEN At(c, j) ELSE At(c, j + 1)
         /\ ~Linked(Minus(c, k), c[k])
<1> DEFINE d == Minus(c, k)
<1>1. Len(c) \in Nat /\ Len(c) - 1 \in Nat /\ \A i \in 1..Len(c) : c[i] \in Tasks
  OBVIOUS
<1>2. \A j \in 1..Len(c) - 1 :
        /\ j < k => j \in 1..Len(c) /\ d[j] = c[j]
        /\ j >= k => j + 1 \in 1..Len(c) /\ d[j] = c[j + 1]
  BY <1>1 DEF Minus
<1>3. d \in Seq(Tasks) /\ Len(d) = Len(c) - 1
  <2>1. \A j \in 1..Len(c) - 1 : d[j] \in Tasks
    BY <1>1, <1>2
  <2>2. d = [j \in 1..Len(c) - 1 |-> d[j]]
    BY DEF Minus
  <2> HIDE DEF d
  <2>3. QED
    BY <1>1, <2>1, <2>2
<1> HIDE DEF d
<1>4. ASSUME NEW i \in 1..Len(c) - 1, NEW j \in 1..Len(c) - 1, d[i] = d[j]
      PROVE  i = j
  BY <1>1, <1>2, <1>4 DEF Once
<1>5. Once(d)
  BY <1>3, <1>4 DEF Once
<1>6. ASSUME NEW j \in Nat \ {0}
      PROVE  At(d, j) = IF j < k THEN At(c, j) ELSE At(c, j + 1)
  BY <1>1, <1>2, <1>3 DEF At
<1>7. ~Linked(d, c[k])
  <2> SUFFICES ASSUME NEW i \in 1..Len(c) - 1, d[i] = c[k] PROVE FALSE
    BY <1>3 DEF Linked
  <2>1. QED
    BY <1>1, <1>2 DEF Once
<1>8. QED
  BY <1>3, <1>5, <1>6, <1>7 DEF d

\* t_ael_tsk_insert: a task that is not linked and leads nowhere takes the place of its slot.
LEMMA InsertedLeads ==
  ASSUME NEW l \in Lists, NEW c \in Seq(Tasks), Leads(l, c), NEW t \in Tasks,
         ~Linked(c, t), l.nxt[t] = NoTask
  PROVE  LET s == Queue!Slot(Sequence(l), l.ttl[t])
             m == Inserted(l, t)
         IN  /\ s \in 1..Len(c) + 1
             /\ m \in Lists
             /\ Leads(m, Plus(c, s, t))
             /\ m.ttl = l.ttl
             /\ m.tout = Queue!ToutInserted(Sequence(l), l.tout, l.ttl[t])
<1> DEFINE q == Sequence(l)
           ms == l.ttl[t]
           s == Queue!Slot(q, ms)
           m == Inserted(l, t)
           d == Plus(c, s, t)
<1>1. /\ l.head \in Links /\ l.nxt \in [Tasks -> Links] /\ l.ttl \in [Tasks -> Int]
      /\ l.tout \in Int /\ ms \in Int
  BY ListParts
<1>2. /\ q \in Seq(Entries) /\ Len(q) = Len(c) /\ Len(c) \in Nat
      /\ \A i \in 1..Len(c) : q[i].tout = l.ttl[c[i]]
  BY SequenceIs
<1>3. /\ s \in 1..Len(c) + 1
      /\ \A j \in 1..s - 1 : q[j].tout < ms
      /\ s <= Len(c) => q[s].tout >= ms
  BY <1>1, <1>2, SlotIs
<1>4. /\ Once(c) /\ l.head = At(c, 1)
      /\ \A i \in 1..Len(c) : l.nxt[c[i]] = At(c, i + 1)
  BY DEF Leads
<1>5. /\ NoTask \notin Tasks /\ t # NoTask
      /\ \A i \in 1..Len(c) : c[i] \in Tasks /\ c[i] # t /\ c[i] # NoTask
  BY ListAssumption DEF Linked
<1>6. Queue!ToutInserted(q, l.tout, ms) = IF s = 1 THEN ms ELSE l.tout
  BY DEF Queue!ToutInserted
<1> HIDE DEF ms, q, s
<1>7. /\ d \in Seq(Tasks) /\ Once(d) /\ Len(d) = Len(c) + 1
      /\ \A j \in Nat \ {0} : At(d, j) =
           IF j < s THEN At(c, j) ELSE IF j = s THEN t ELSE At(c, j - 1)
  BY <1>3, <1>4, PlusIs
<1> HIDE DEF d
<1>8. \A i \in 1..Len(d) : i \in Nat \ {0} /\ d[i] = At(d, i)
  BY <1>2, <1>7 DEF At
<1>9. CASE l.head = NoTask
  <2>1. Len(c) = 0 /\ s = 1
    <3>1. 1 \notin 1..Len(c)
      BY <1>4, <1>5, <1>9 DEF At
    <3>2. QED
      BY <1>2, <1>3, <3>1
  <2>2. m = [l EXCEPT !.head = t, !.tout = ms]
    BY <1>9 DEF Inserted, ms
  <2>3. m \in Lists /\ m.head = t /\ m.nxt = l.nxt /\ m.ttl = l.ttl /\ m.tout = ms
    BY <1>1, <2>2 DEF Lists, Links
  <2>4. At(d, 1) = t /\ At(d, 2) = NoTask /\ Len(d) = 1 /\ d[1] = t
    BY <1>7, <1>8, <2>1 DEF At
  <2>5. Leads(m, d)
    BY <1>7, <2>3, <2>4 DEF Leads
  <2>6. QED
    BY <1>3, <1>6, <2>1, <2>3, <2>5 DEF s, q, ms, d
<1>10. CASE l.head # NoTask /\ l.ttl[l.head] >= ms
  <2>1. 1 \in 1..Len(c) /\ l.head = c[1]
    BY <1>4, <1>10 DEF At
  <2>2. s = 1
    <3>1. q[1].tout >= ms /\ q[1].tout \in Int
      BY <1>1, <1>2, <1>5, <1>10, <2>1
    <3>2. ~(q[1].tout < ms)
      BY <1>1, <3>1 DEF ms
    <3>3. QED
      BY <1>2, <1>3, <3>2
  <2>3. m = [l EXCEPT !.nxt[t] = l.head, !.head = t, !.tout = ms]
    BY <1>10 DEF Inserted, ms
  <2>4. /\ m \in Lists /\ m.head = t /\ m.nxt = [l.nxt EXCEPT ![t] = l.head]
        /\ m.ttl = l.ttl /\ m.tout = ms
    <3>1. [l.nxt EXCEPT ![t] = l.head] \in [Tasks -> Links] /\ ms \in Int /\ t \in Links
      BY <1>1 DEF Links, ms
    <3>2. QED
      BY <2>3, <3>1 DEF Lists
  <2>5. At(d, 1) = t
    BY <1>7, <2>2
  <2>6. ASSUME NEW i \in 1..Len(d)
        PROVE  m.nxt[d[i]] = At(d, i + 1)
    <3>1. i \in Nat \ {0} /\ i + 1 \in Nat \ {0} /\ At(d, i + 1) = At(c, i)
      BY <1>7, <1>8, <2>2
    <3>2. CASE i = 1
      BY <1>1, <1>4, <1>8, <2>4, <2>5, <3>1, <3>2
    <3>3. CASE i # 1
      <4>1. i - 1 \in 1..Len(c) /\ (i - 1) + 1 = i
        BY <1>2, <1>7, <3>3
      <4>2. d[i] = c[i - 1]
        BY <1>7, <1>8, <2>2, <3>1, <3>3, <4>1 DEF At
      <4>3. m.nxt[d[i]] = l.nxt[c[i - 1]]
        BY <1>1, <1>5, <2>4, <4>1, <4>2
      <4>4. QED
        BY <1>4, <3>1, <4>1, <4>3
    <3>4. QED
      BY <3>2, <3>3
  <2>7. Leads(m, d)
    BY <1>7, <2>4, <2>5, <2>6 DEF Leads
  <2>8. QED
    BY <1>3, <1>6, <2>2, <2>4, <2>7 DEF s, q, ms, d
<1>11. CASE l.head # NoTask /\ ~(l.ttl[l.head] >= ms)
  <2> DEFINE p == LastBefore(l, ms)
  <2>1. s \in 2..Len(c) + 1 /\ p = c[s - 1]
    BY <1>1, <1>11, LastBeforeIs DEF s, q
  <2>2. m = [l EXCEPT !.nxt[t] = l.nxt[p], !.nxt[p] = t]
    BY <1>11 DEF Inserted, ms
  <2> HIDE DEF p, m
  <2>3. s - 1 \in 1..Len(c) /\ (s - 1) + 1 = s /\ p \in Tasks /\ p # t
    BY <1>2, <1>5, <2>1
  <2>4. /\ m \in Lists /\ m.head = l.head
        /\ m.nxt = [[l.nxt EXCEPT ![t] = l.nxt[p]] EXCEPT ![p] = t]
        /\ m.ttl = l.ttl /\ m.tout = l.tout
    <3>1. [[l.nxt EXCEPT ![t] = l.nxt[p]] EXCEPT ![p] = t] \in [Tasks -> Links]
      BY <1>1, <2>3 DEF Links
    <3>2. QED
      BY <2>2, <3>1 DEF Lists
  <2>5. m.head = At(d, 1)
    <3>1. 1 < s /\ 1 \in Nat \ {0}
      BY <1>2, <2>1
    <3>2. QED
      BY <1>4, <1>7, <2>4, <3>1
  <2>6. ASSUME NEW i \in 1..Len(d)
        PROVE  m.nxt[d[i]] = At(d, i + 1)
    <3>1. i \in Nat \ {0} /\ i + 1 \in Nat \ {0} /\ d[i] = At(d, i)
      BY <1>8
    <3>2. CASE i < s
      <4>1. i \in 1..Len(c) /\ d[i] = c[i]
        BY <1>2, <1>7, <2>1, <3>1, <3>2 DEF At
      <4>2. CASE i = s - 1
        <5>1. m.nxt[d[i]] = t
          BY <1>1, <2>1, <2>3, <2>4, <4>1, <4>2
        <5>2. i + 1 = s
          BY <2>3, <4>2
        <5>3. QED
          BY <1>7, <3>1, <5>1, <5>2
      <4>3. CASE i # s - 1
        <5>1. c[i] # p
          BY <1>4, <2>1, <2>3, <4>1, <4>3 DEF Once
        <5>2. m.nxt[d[i]] = l.nxt[c[i]]
          BY <1>1, <1>5, <2>4, <4>1, <5>1
        <5>3. i + 1 < s
          BY <1>2, <2>1, <3>2, <4>3
        <5>4. QED
          BY <1>4, <1>7, <3>1, <4>1, <5>2, <5>3
      <4>4. QED
        BY <4>2, <4>3
    <3>3. CASE i = s
      <4>1. d[i] = t
        BY <1>7, <3>1, <3>3
      <4>2. m.nxt[d[i]] = l.nxt[p]
        BY <1>1, <2>3, <2>4, <4>1
      <4>3. l.nxt[p] = At(c, s)
        BY <1>4, <2>1, <2>3
      <4>4. At(d, i + 1) = At(c, s)
        <5>1. ~(i + 1 < s) /\ i + 1 # s /\ (i + 1) - 1 = s
          BY <2>1, <3>3
        <5>2. QED
          BY <1>7, <3>1, <5>1
      <4>5. QED
        BY <4>2, <4>3, <4>4
    <3>4. CASE i > s
      <4>1. i - 1 \in 1..Len(c) /\ (i - 1) + 1 = i /\ d[i] = c[i - 1]
        BY <1>2, <1>7, <2>1, <3>1, <3>4 DEF At
      <4>2. c[i - 1] # p
        <5>1. i - 1 # s - 1
          BY <2>1, <3>1, <3>4
        <5>2. QED
          BY <1>4, <2>1, <2>3, <4>1, <5>1 DEF Once
      <4>3. m.nxt[d[i]] = l.nxt[c[i - 1]]
        <5>1. d[i] \in Tasks /\ d[i] # t /\ d[i] # p
          BY <1>5, <4>1, <4>2
        <5>2. m.nxt[d[i]] = l.nxt[d[i]]
          BY <1>1, <2>4, <5>1
        <5>3. QED
          BY <4>1, <5>2
      <4>4. At(d, i + 1) = At(c, i)
        <5>1. ~(i + 1 < s) /\ i + 1 # s /\ (i + 1) - 1 = i
          BY <2>1, <3>1, <3>4
        <5>2. QED
          BY <1>7, <3>1, <5>1
      <4>5. QED
        BY <1>4, <4>1, <4>3, <4>4
    <3>5. QED
      BY <2>1, <3>1, <3>2, <3>3, <3>4
  <2>7. Leads(m, d)
    BY <1>7, <2>5, <2>6 DEF Leads
  <2>8. s # 1
    BY <2>1
  <2>9. QED
    BY <1>3, <1>6, <2>4, <2>7, <2>8 DEF s, q, ms, d, m
<1>12. QED
  BY <1>9, <1>10, <1>11

\* t_ael_tsk_remove: a linked task is taken out and leads nowhere, ...
LEMMA RemovedLeads ==
  ASSUME NEW l \in Lists, NEW c \in Seq(Tasks), Leads(l, c), NEW t \in Tasks,
         NEW k \in 1..Len(c), c[k] = t
  PROVE  LET m == Removed(l, t)
         IN  /\ m \in Lists
             /\ Leads(m, Minus(c, k))
             /\ m.nxt[t] = NoTask
             /\ m.ttl = l.ttl
             /\ m.tout = Queue!ToutRemoved(Sequence(l), l.tout, t)
<1> DEFINE q == Sequence(l)
           m == Removed(l, t)
           d == Minus(c, k)
           p == Previous(l, t)
<1>1. /\ l.head \in Links /\ l.nxt \in [Tasks -> Links] /\ l.ttl \in [Tasks -> Int] /\ l.tout \in Int
  BY ListParts
<1>2. /\ Len(q) = Len(c) /\ Len(c) \in Nat
      /\ \A i \in 1..Len(c) : q[i].task = c[i] /\ q[i].tout = l.ttl[c[i]]
  BY SequenceIs
<1>3. /\ Once(c) /\ l.head = At(c, 1)
      /\ \A i \in 1..Len(c) : l.nxt[c[i]] = At(c, i + 1)
  BY DEF Leads
<1>4. /\ NoTask \notin Tasks /\ t # NoTask
      /\ \A i \in 1..Len(c) : c[i] \in Tasks /\ c[i] # NoTask
  BY ListAssumption
<1>5. /\ d \in Seq(Tasks) /\ Once(d) /\ Len(d) = Len(c) - 1
      /\ \A j \in Nat \ {0} : At(d, j) = IF j < k THEN At(c, j) ELSE At(c, j + 1)
      /\ ~Linked(d, t)
  BY <1>3, MinusIs
<1> HIDE DEF d
<1>6. \A i \in 1..Len(d) : i \in Nat \ {0} /\ i + 1 \in Nat \ {0} /\ d[i] = At(d, i) /\ d[i] # t
  BY <1>2, <1>5 DEF At, Linked
<1>7. 1 \in 1..Len(c) /\ l.head = c[1] /\ q # <<>>
  BY <1>2, <1>3 DEF At
<1>8. Queue!ToutRemoved(q, l.tout, t) =
        IF k # 1 THEN l.tout ELSE IF Len(c) = 1 THEN NoTimeout ELSE l.ttl[c[2]]
  <2>1. q[1].task = t <=> k = 1
    BY <1>2, <1>3, <1>7 DEF Once
  <2>2. Len(c) # 1 => 2 \in 1..Len(c)
    BY <1>2, <1>7
  <2> HIDE DEF q
  <2>3. QED
    BY <1>2, <1>7, <2>1, <2>2 DEF Queue!ToutRemoved, Queue!NoTimeout, NoTimeout
<1>9. CASE k = 1
  <2> DEFINE n == l.nxt[t]
  <2>1. l.head = t /\ n = At(c, 2) /\ n \in Links
    BY <1>1, <1>3, <1>7, <1>9
  <2>2. m = [[l EXCEPT !.head = n, !.tout = IF n = NoTask THEN NoTimeout ELSE l.ttl[n]]
               EXCEPT !.nxt[t] = NoTask]
    BY <2>1 DEF Removed
  <2>3. n = NoTask <=> Len(c) = 1
    BY <1>2, <1>4, <1>7, <2>1 DEF At
  <2>4. n # NoTask => n = c[2] /\ n \in Tasks
    BY <1>4, <2>1 DEF At, Links
  <2>5. (IF n = NoTask THEN NoTimeout ELSE l.ttl[n]) \in Int
    BY <1>1, <2>4 DEF NoTimeout
  <2> HIDE DEF n, m
  <2>6. /\ m \in Lists /\ m.head = n /\ m.nxt = [l.nxt EXCEPT ![t] = NoTask] /\ m.ttl = l.ttl
        /\ m.tout = IF n = NoTask THEN NoTimeout ELSE l.ttl[n]
    <3>1. [l.nxt EXCEPT ![t] = NoTask] \in [Tasks -> Links]
      BY <1>1 DEF Links
    <3>2. QED
      BY <2>1, <2>2, <2>5, <3>1 DEF Lists
  <2>7. m.head = At(d, 1)
    BY <1>5, <1>9, <2>1, <2>6
  <2>8. ASSUME NEW i \in 1..Len(d)
        PROVE  m.nxt[d[i]] = At(d, i + 1)
    <3>1. i + 1 \in 1..Len(c) /\ d[i] = At(c, i + 1) /\ At(d, i + 1) = At(c, (i + 1) + 1)
      <4>1. i \in Nat \ {0} /\ i + 1 \in Nat \ {0} /\ ~(i < k) /\ ~(i + 1 < k)
        BY <1>6, <1>9
      <4>2. i + 1 \in 1..Len(c)
        BY <1>2, <1>5
      <4>3. QED
        BY <1>5, <1>6, <4>1, <4>2
    <3>2. d[i] = c[i + 1] /\ d[i] \in Tasks
      BY <1>4, <3>1 DEF At
    <3>3. m.nxt[d[i]] = l.nxt[c[i + 1]]
      BY <1>1, <1>6, <2>6, <3>2
    <3>4. QED
      BY <1>3, <3>1, <3>3
  <2>9. Leads(m, d)
    BY <1>5, <2>7, <2>8 DEF Leads
  <2>10. m.nxt[t] = NoTask
    BY <1>1, <2>6
  <2>11. m.tout = Queue!ToutRemoved(q, l.tout, t)
    BY <1>8, <1>9, <2>3, <2>4, <2>6
  <2>12. QED
    BY <2>6, <2>9, <2>10, <2>11 DEF m, d
<1>10. CASE k # 1
  <2>1. k \in 2..Len(c) /\ k - 1 \in 1..Len(c) /\ k \in Nat
    BY <1>2, <1>10
  <2>2. p = c[k - 1] /\ p \in Tasks /\ p # NoTask /\ l.head # t /\ p # t
    <3>1. p = c[k - 1]
      BY <2>1, PreviousIs
    <3>2. c[k - 1] # c[k] /\ c[1] # c[k]
      BY <1>2, <1>3, <1>7, <1>10, <2>1 DEF Once
    <3>3. QED
      BY <1>4, <1>7, <2>1, <3>1, <3>2
  <2>3. m = [[l EXCEPT !.nxt[p] = l.nxt[t]] EXCEPT !.nxt[t] = NoTask]
    BY <2>2 DEF Removed
  <2> HIDE DEF p, m
  <2>4. /\ m \in Lists /\ m.head = l.head /\ m.ttl = l.ttl /\ m.tout = l.tout
        /\ m.nxt = [[l.nxt EXCEPT ![p] = l.nxt[t]] EXCEPT ![t] = NoTask]
    <3>1. [[l.nxt EXCEPT ![p] = l.nxt[t]] EXCEPT ![t] = NoTask] \in [Tasks -> Links]
      BY <1>1 DEF Links
    <3>2. QED
      BY <2>3, <3>1 DEF Lists
  <2>5. m.head = At(d, 1)
    BY <1>3, <1>5, <2>1, <2>4
  <2>6. ASSUME NEW i \in 1..Len(d)
        PROVE  m.nxt[d[i]] = At(d, i + 1)
    <3>1. i \in Nat \ {0} /\ i + 1 \in Nat \ {0} /\ d[i] = At(d, i) /\ d[i] # t
      BY <1>6
    <3>2. CASE i < k
      <4>1. i \in 1..Len(c) /\ d[i] = c[i] /\ c[i] \in Tasks
        BY <1>2, <1>4, <1>5, <3>1, <3>2 DEF At
      <4>2. CASE i = k - 1
        <5>1. m.nxt[d[i]] = l.nxt[t]
          BY <1>1, <2>2, <2>4, <3>1, <4>1, <4>2
        <5>2. l.nxt[t] = At(c, k + 1)
          BY <1>3
        <5>3. i + 1 = k /\ ~(i + 1 < k)
          BY <2>1, <4>2
        <5>4. QED
          BY <1>5, <3>1, <5>1, <5>2, <5>3
      <4>3. CASE i # k - 1
        <5>1. c[i] # p
          BY <1>3, <2>1, <2>2, <4>1, <4>3 DEF Once
        <5>2. m.nxt[d[i]] = l.nxt[c[i]]
          BY <1>1, <2>4, <3>1, <4>1, <5>1
        <5>3. i + 1 < k
          BY <2>1, <3>1, <3>2, <4>3
        <5>4. QED
          BY <1>3, <1>5, <3>1, <4>1, <5>2, <5>3
      <4>4. QED
        BY <4>2, <4>3
    <3>3. CASE ~(i < k)
      <4>1. i + 1 \in 1..Len(c) /\ d[i] = c[i + 1] /\ c[i + 1] \in Tasks
        BY <1>2, <1>4, <1>5, <3>1, <3>3 DEF At
      <4>2. c[i + 1] # p
        <5>1. i + 1 # k - 1
          BY <2>1, <3>1, <3>3
        <5>2. QED
          BY <1>3, <2>1, <2>2, <4>1, <5>1 DEF Once
      <4>3. m.nxt[d[i]] = l.nxt[c[i + 1]]
        BY <1>1, <2>4, <3>1, <4>1, <4>2
      <4>4. At(d, i + 1) = At(c, (i + 1) + 1)
        BY <1>5, <2>1, <3>1, <3>3
      <4>5. QED
        BY <1>3, <4>1, <4>3, <4>4
    <3>4. QED
      BY <3>2, <3>3
  <2>7. Leads(m, d)
    BY <1>5, <2>5, <2>6 DEF Leads
  <2>8. m.nxt[t] = NoTask
    BY <1>1, <2>4
  <2>9. QED
    BY <1>8, <1>10, <2>4, <2>7, <2>8 DEF m, d
<1>11. QED
  BY <1>9, <1>10

\* ... and one that is not linked loses the link it may still have.
LEMMA RemovedNothing ==
  ASSUME NEW l \in Lists, NEW c \in Seq(Tasks), Leads(l, c), NEW t \in Tasks, ~Linked(c, t)
  PROVE  LET m == Removed(l, t)
         IN  /\ m \in Lists
             /\ Leads(m, c)
             /\ m.nxt[t] = NoTask
             /\ m.ttl = l.ttl
             /\ m.tout = l.tout
<1> DEFINE m == Removed(l, t)
<1>1. /\ l.nxt \in [Tasks -> Links] /\ t # NoTask
      /\ \A i \in 1..Len(c) : c[i] \in Tasks /\ c[i] # t
  BY ListAssumption, ListParts DEF Linked
<1>2. l.head # t
  BY <1>1 DEF Leads, At
<1>3. Previous(l, t) = NoTask
  <2>1. \A k \in 2..Len(c) : k \in 1..Len(c)
    OBVIOUS
  <2>2. QED
    BY <1>1, <2>1, PreviousIs
<1>4. m = [l EXCEPT !.nxt[t] = NoTask]
  BY <1>2, <1>3 DEF Removed
<1> HIDE DEF m
<1>5. /\ m \in Lists /\ m.head = l.head /\ m.nxt = [l.nxt EXCEPT ![t] = NoTask]
      /\ m.ttl = l.ttl /\ m.tout = l.tout
  <2>1. [l.nxt EXCEPT ![t] = NoTask] \in [Tasks -> Links]
    BY <1>1 DEF Links
  <2>2. QED
    BY <1>4, <2>1 DEF Lists
<1>6. Leads(m, c)
  BY <1>1, <1>5 DEF Leads
<1>7. QED
  BY <1>1, <1>5, <1>6 DEF m

-----------------------------------------------------------------------------
(***************************************************************************)
(* Each operation on the pointers is the operation on the queue.           *)
(***************************************************************************)

\* Whether a task is linked is whether it is queued.
LEMMA LinkedIsQueued ==
  ASSUME NEW l \in Lists, NEW c \in Seq(Tasks), Leads(l, c), NEW t \in Tasks
  PROVE  /\ Queue!IsQueued(Sequence(l), t) <=> Linked(c, t)
         /\ Linked(c, t) <=> (l.head = t \/ Previous(l, t) # NoTask)
<1>1. Queue!IsQueued(Sequence(l), t) <=> Linked(c, t)
  <2>1. /\ DOMAIN Sequence(l) = 1..Len(c)
        /\ \A i \in 1..Len(c) : Sequence(l)[i].task = c[i]
    BY SequenceIs
  <2>2. QED
    BY <2>1 DEF Queue!IsQueued, Linked
<1>2. Linked(c, t) <=> (l.head = t \/ Previous(l, t) # NoTask)
  <2>1. Len(c) \in Nat /\ t # NoTask /\ \A i \in 1..Len(c) : c[i] \in Tasks /\ c[i] # NoTask
    BY ListAssumption
  <2>2. l.head = t <=> (1 \in 1..Len(c) /\ c[1] = t)
    BY <2>1 DEF Leads, At
  <2>3. Previous(l, t) # NoTask <=> \E k \in 2..Len(c) : c[k] = t
    <3>1. \A k \in 2..Len(c) : k - 1 \in 1..Len(c)
      BY <2>1
    <3>2. QED
      BY <2>1, <3>1, PreviousIs
  <2>4. \A i \in 1..Len(c) : i = 1 \/ i \in 2..Len(c)
    BY <2>1
  <2>5. \A k \in 2..Len(c) : k \in 1..Len(c)
    BY <2>1
  <2>6. QED
    BY <2>2, <2>3, <2>4, <2>5 DEF Linked
<1>3. QED
  BY <1>1, <1>2

LEMMA InsertedIs ==
  ASSUME NEW l \in Lists, NEW c \in Seq(Tasks), Leads(l, c), NEW t \in Tasks,
         ~Linked(c, t), l.nxt[t] = NoTask
  PROVE  /\ Inserted(l, t) \in Lists
         /\ \E d \in Seq(Tasks) : Leads(Inserted(l, t), d)
         /\ Sequence(Inserted(l, t)) = Queue!Inserted(Sequence(l), t, l.ttl[t])
         /\ Inserted(l, t).tout = Queue!ToutInserted(Sequence(l), l.tout, l.ttl[t])
<1> DEFINE q == Sequence(l)
           ms == l.ttl[t]
           s == Queue!Slot(q, ms)
           m == Inserted(l, t)
           d == Plus(c, s, t)
           r == Queue!Inserted(q, t, ms)
<1>1. /\ s \in 1..Len(c) + 1 /\ m \in Lists /\ Leads(m, d) /\ m.ttl = l.ttl
      /\ m.tout = Queue!ToutInserted(q, l.tout, ms)
  BY InsertedLeads
<1>2. /\ q \in Seq(Entries) /\ Len(q) = Len(c) /\ Len(c) \in Nat
      /\ \A i \in 1..Len(c) : q[i] = Queue!Entry(c[i], l.ttl[c[i]])
  BY SequenceIs
<1>3. ms \in Int
  BY ListParts
<1>4. d \in Seq(Tasks) /\ Len(d) = Len(c) + 1
  BY <1>1, PlusIs DEF Leads
<1>5. /\ r \in Seq(Entries) /\ Len(r) = Len(q) + 1
      /\ \A j \in 1..Len(q) + 1 :
           r[j] = IF j < s THEN q[j] ELSE IF j = s THEN Queue!Entry(t, ms) ELSE q[j - 1]
  BY <1>2, <1>3, QueueInserted
<1>6. /\ Sequence(m) \in Seq(Entries) /\ Len(Sequence(m)) = Len(d)
      /\ \A i \in 1..Len(d) : Sequence(m)[i] = Queue!Entry(d[i], m.ttl[d[i]])
  BY <1>1, <1>4, SequenceIs
<1>7. \A j \in 1..Len(c) + 1 : d[j] = IF j < s THEN c[j] ELSE IF j = s THEN t ELSE c[j - 1]
  BY DEF Plus
<1>8. \A j \in 1..Len(c) + 1 : /\ j < s => j \in 1..Len(c)
                               /\ j > s => j - 1 \in 1..Len(c)
                               /\ j < s \/ j = s \/ j > s
  BY <1>1, <1>2
<1> HIDE DEF d, r, s, q
<1>9. ASSUME NEW j \in 1..Len(c) + 1
      PROVE  Sequence(m)[j] = r[j]
  <2>1. Sequence(m)[j] = Queue!Entry(d[j], l.ttl[d[j]])
    BY <1>1, <1>4, <1>6
  <2>2. CASE j < s
    BY <1>2, <1>5, <1>7, <1>8, <2>1, <2>2
  <2>3. CASE j = s
    <3>1. ~(j < s) /\ d[j] = t
      BY <1>1, <1>2, <1>7, <2>3
    <3>2. QED
      BY <1>2, <1>5, <2>1, <2>3, <3>1
  <2>4. CASE j > s
    <3>1. ~(j < s) /\ j # s /\ j - 1 \in 1..Len(c)
      BY <1>1, <1>2, <1>8, <2>4
    <3>2. d[j] = c[j - 1] /\ r[j] = q[j - 1]
      BY <1>2, <1>5, <1>7, <3>1
    <3>3. QED
      BY <1>2, <2>1, <3>1, <3>2
  <2>5. QED
    BY <1>8, <2>2, <2>3, <2>4
<1>10. Sequence(m) = r
  BY <1>2, <1>4, <1>5, <1>6, <1>9, SameQueue
<1>11. QED
  BY <1>1, <1>4, <1>10 DEF r, q

LEMMA RemovedIs ==
  ASSUME NEW l \in Lists, NEW c \in Seq(Tasks), Leads(l, c), NEW t \in Tasks
  PROVE  /\ Removed(l, t) \in Lists
         /\ \E d \in Seq(Tasks) : Leads(Removed(l, t), d) /\ ~Linked(d, t)
         /\ Removed(l, t).nxt[t] = NoTask
         /\ Sequence(Removed(l, t)) = Queue!Removed(Sequence(l), t)
         /\ Removed(l, t).tout = Queue!ToutRemoved(Sequence(l), l.tout, t)
<1> DEFINE q == Sequence(l)
           m == Removed(l, t)
           r == Queue!Removed(q, t)
<1>1. /\ q \in Seq(Entries) /\ Len(q) = Len(c) /\ Len(c) \in Nat
      /\ \A i \in 1..Len(c) : /\ q[i] = Queue!Entry(c[i], l.ttl[c[i]])
                              /\ q[i].task = c[i]
  BY SequenceIs
<1>2. CASE Linked(c, t)
  <2>1. PICK k \in 1..Len(c) :
          /\ q[k].task = t
          /\ r \in Seq(Entries)
          /\ Len(r) = Len(q) - 1
          /\ \A j \in 1..Len(q) - 1 : r[j] = IF j < k THEN q[j] ELSE q[j + 1]
    <3>1. Queue!IsQueued(q, t)
      BY <1>2, LinkedIsQueued
    <3> HIDE DEF q
    <3>2. QED
      BY <1>1, <3>1, QueueRemoved
  <2> DEFINE d == Minus(c, k)
  <2>2. c[k] = t
    BY <1>1, <2>1
  <2>3. /\ m \in Lists /\ Leads(m, d) /\ m.nxt[t] = NoTask /\ m.ttl = l.ttl
        /\ m.tout = Queue!ToutRemoved(q, l.tout, t)
    BY <2>2, RemovedLeads
  <2>4. d \in Seq(Tasks) /\ Len(d) = Len(c) - 1 /\ ~Linked(d, t)
    BY <2>2, MinusIs DEF Leads
  <2>5. /\ Sequence(m) \in Seq(Entries) /\ Len(Sequence(m)) = Len(d)
        /\ \A i \in 1..Len(d) : Sequence(m)[i] = Queue!Entry(d[i], m.ttl[d[i]])
    BY <2>3, <2>4, SequenceIs
  <2>6. \A j \in 1..Len(c) - 1 : /\ d[j] = IF j < k THEN c[j] ELSE c[j + 1]
                                 /\ j \in 1..Len(c) /\ j + 1 \in 1..Len(c)
    BY <1>1 DEF Minus
  <2> HIDE DEF d, r, q, m
  <2>7. ASSUME NEW j \in 1..Len(c) - 1
        PROVE  Sequence(m)[j] = r[j]
    <3>1. Sequence(m)[j] = Queue!Entry(d[j], l.ttl[d[j]])
      BY <2>3, <2>4, <2>5
    <3>2. CASE j < k
      BY <1>1, <2>1, <2>6, <3>1, <3>2
    <3>3. CASE ~(j < k)
      BY <1>1, <2>1, <2>6, <3>1, <3>3
    <3>4. QED
      BY <3>2, <3>3
  <2>8. Sequence(m) = r
    <3>1. Len(Sequence(m)) = Len(r) /\ Len(r) = Len(c) - 1
      BY <1>1, <2>1, <2>4, <2>5
    <3>2. QED
      BY <2>1, <2>5, <2>7, <3>1, SameQueue
  <2>9. QED
    BY <2>3, <2>4, <2>8 DEF m, r, q
<1>3. CASE ~Linked(c, t)
  <2>1. m \in Lists /\ Leads(m, c) /\ m.nxt[t] = NoTask /\ m.ttl = l.ttl /\ m.tout = l.tout
    BY <1>3, RemovedNothing
  <2>2. /\ Sequence(m) \in Seq(Entries) /\ Len(Sequence(m)) = Len(c)
        /\ \A i \in 1..Len(c) : Sequence(m)[i] = Queue!Entry(c[i], m.ttl[c[i]])
    BY <2>1, SequenceIs
  <2>3. Sequence(m) = q
    <3> HIDE DEF q, m
    <3>1. QED
      BY <1>1, <2>1, <2>2, SameQueue
  <2>4. ~Queue!IsQueued(q, t)
    BY <1>3, LinkedIsQueued
  <2>5. r = q /\ Queue!ToutRemoved(q, l.tout, t) = l.tout
    <3>1. r = q
      BY <2>4 DEF Queue!Removed
    <3>2. ~(q # <<>> /\ q[1].task = t)
      BY <1>1, <1>3 DEF Linked
    <3> HIDE DEF q
    <3>3. QED
      BY <3>1, <3>2 DEF Queue!ToutRemoved
  <2>6. QED
    BY <1>3, <2>1, <2>3, <2>5
<1>4. QED
  BY <1>2, <1>3

\* t_ael_tsk_adjust ages what is linked and changes no pointer.
LEMMA AdjustedIs ==
  ASSUME NEW l \in Lists, NEW c \in Seq(Tasks), Leads(l, c), NEW et \in Nat
  PROVE  /\ Adjusted(l, et) \in Lists
         /\ Leads(Adjusted(l, et), c)
         /\ Sequence(Adjusted(l, et)) = Queue!Adjusted(Sequence(l), et)
         /\ Adjusted(l, et).tout = l.tout
<1> DEFINE q == Sequence(l)
           m == Adjusted(l, et)
           r == Queue!Adjusted(q, et)
           Aged(ms) == IF ms - et > 0 THEN ms - et ELSE 0
           ages == [t \in Tasks |-> IF ~Linked(c, t) THEN l.ttl[t] ELSE Aged(l.ttl[t])]
<1>1. /\ q \in Seq(Entries) /\ Len(q) = Len(c) /\ Len(c) \in Nat
      /\ \A i \in 1..Len(c) : q[i].task = c[i] /\ q[i].tout = l.ttl[c[i]]
  BY SequenceIs
<1>2. l.ttl \in [Tasks -> Int] /\ \A ms \in Int : Aged(ms) \in Int
  BY ListParts
<1>3. ages \in [Tasks -> Int]
  BY <1>2
<1>4. m = [l EXCEPT !.ttl = ages]
  <2>1. Chain(l) = c
    BY ChainIs
  <2>2. \A t \in Tasks : t \in {c[i] : i \in DOMAIN c} <=> Linked(c, t)
    BY DEF Linked
  <2>3. m = [l EXCEPT !.ttl = [t \in Tasks |-> IF t \notin {c[i] : i \in DOMAIN c} THEN l.ttl[t]
                                               ELSE Aged(l.ttl[t])]]
    BY <2>1 DEF Adjusted
  <2>4. [t \in Tasks |-> IF t \notin {c[i] : i \in DOMAIN c} THEN l.ttl[t] ELSE Aged(l.ttl[t])] = ages
    BY <2>2
  <2>5. QED
    BY <2>3, <2>4
<1>5. \A i \in 1..Len(c) : c[i] \in Tasks /\ ages[c[i]] = Aged(l.ttl[c[i]])
  BY DEF Linked
<1> HIDE DEF ages, m
<1>6. m \in Lists /\ m.head = l.head /\ m.nxt = l.nxt /\ m.ttl = ages /\ m.tout = l.tout
  BY <1>3, <1>4 DEF Lists
<1>7. Leads(m, c)
  BY <1>6 DEF Leads
<1>8. /\ Sequence(m) \in Seq(Entries) /\ Len(Sequence(m)) = Len(c)
      /\ \A i \in 1..Len(c) : Sequence(m)[i] = Queue!Entry(c[i], m.ttl[c[i]])
  BY <1>6, <1>7, SequenceIs
<1>9. r = [i \in DOMAIN q |-> Queue!Entry(q[i].task, Aged(q[i].tout))]
  BY DEF Queue!Adjusted
<1> HIDE DEF q, r, Aged
<1>10. DOMAIN q = 1..Len(c) /\ r = [i \in 1..Len(c) |-> Queue!Entry(c[i], Aged(l.ttl[c[i]]))]
  BY <1>1, <1>9
<1>11. Sequence(m) = [i \in 1..Len(c) |-> Sequence(m)[i]]
  BY <1>8
<1>12. \A i \in 1..Len(c) : Sequence(m)[i] = Queue!Entry(c[i], Aged(l.ttl[c[i]]))
  BY <1>5, <1>6, <1>8
<1>13. Sequence(m) = r
  BY <1>10, <1>11, <1>12
<1>14. QED
  BY <1>6, <1>7, <1>13 DEF m, q, r

\* The head of the list is the head of the queue.
LEMMA HeadIs ==
  ASSUME NEW l \in Lists, NEW c \in Seq(Tasks), Leads(l, c)
  PROVE  /\ l.head # NoTask <=> Sequence(l) # <<>>
         /\ l.head # NoTask => /\ l.head \in Tasks
                               /\ Sequence(l)[1].task = l.head
                               /\ Sequence(l)[1].tout = l.ttl[l.head]
<1>1. /\ Sequence(l) \in Seq(Entries) /\ Len(Sequence(l)) = Len(c) /\ Len(c) \in Nat
      /\ \A i \in 1..Len(c) : Sequence(l)[i].task = c[i] /\ Sequence(l)[i].tout = l.ttl[c[i]]
  BY SequenceIs
<1>2. \A i \in 1..Len(c) : c[i] \in Tasks /\ c[i] # NoTask
  BY ListAssumption
<1>3. l.head = At(c, 1)
  BY DEF Leads
<1>4. CASE Len(c) = 0
  BY <1>1, <1>3, <1>4 DEF At
<1>5. CASE Len(c) # 0
  <2>1. 1 \in 1..Len(c)
    BY <1>1, <1>5
  <2>2. l.head = c[1] /\ Sequence(l) # <<>>
    BY <1>1, <1>3, <1>5, <2>1 DEF At
  <2>3. QED
    BY <1>1, <1>2, <2>1, <2>2
<1>6. QED
  BY <1>4, <1>5

\* Nothing is linked behind a head that is NoTask.
LEMMA EmptyIs ==
  ASSUME NEW l \in Lists, l.head = NoTask
  PROVE  Leads(l, <<>>) /\ Sequence(l) = <<>>
<1>1. <<>> \in Seq(Tasks) /\ Len(<<>>) = 0
  OBVIOUS
<1>2. Leads(l, <<>>)
  BY <1>1 DEF Leads, Once, At
<1>3. QED
  BY <1>1, <1>2, HeadIs

-----------------------------------------------------------------------------
(***************************************************************************)
(* The steps.                                                              *)
(***************************************************************************)

\* What a step from a list to a list has to show.
LEMMA ListSteps ==
  ASSUME NEW l \in Lists, list' = l, \E c \in Seq(Tasks) : Leads(l, c),
         running' \in Links, processing' \in BOOLEAN
  PROVE  ListInv'
BY DEF ListInv

LEMMA AddStep ==
  ASSUME ListInv, NEW t \in Tasks, NEW ms \in Delays, AddTask(t, ms)
  PROVE  ListInv' /\ Queue!AddTask(t, ms)
<1> DEFINE l == [list EXCEPT !.ttl[t] = ms, !.nxt[t] = NoTask]
<1>1. /\ list \in Lists /\ running \in Links /\ processing \in BOOLEAN
      /\ list.nxt \in [Tasks -> Links] /\ list.ttl \in [Tasks -> Int] /\ ms \in Int
  BY ListAssumption, ListParts DEF ListInv
<1>2. PICK c \in Seq(Tasks) : Leads(list, c)
  BY DEF ListInv
<1>3. /\ InLua /\ t # running /\ t # list.head /\ Previous(list, t) = NoTask
      /\ list' = Inserted(l, t) /\ running' = running /\ processing' = processing
  BY DEF AddTask
<1>4. ~Linked(c, t) /\ ~Queue!IsQueued(Sequence(list), t)
  BY <1>1, <1>2, <1>3, LinkedIsQueued
<1>5. /\ l \in Lists /\ l.head = list.head /\ l.tout = list.tout
      /\ l.nxt = [list.nxt EXCEPT ![t] = NoTask] /\ l.ttl = [list.ttl EXCEPT ![t] = ms]
  <2>1. /\ [list.nxt EXCEPT ![t] = NoTask] \in [Tasks -> Links]
        /\ [list.ttl EXCEPT ![t] = ms] \in [Tasks -> Int]
    BY <1>1 DEF Links
  <2>2. QED
    BY <1>1, <2>1 DEF Lists
<1> HIDE DEF l
<1>6. \A i \in 1..Len(c) : c[i] \in Tasks /\ c[i] # t
  BY <1>4 DEF Linked
<1>7. Leads(l, c)
  BY <1>1, <1>2, <1>5, <1>6 DEF Leads
<1>8. Sequence(l) = Sequence(list)
  <2>1. \A i \in 1..Len(c) : l.ttl[c[i]] = list.ttl[c[i]]
    BY <1>1, <1>5, <1>6
  <2>2. /\ Sequence(l) \in Seq(Entries) /\ Len(Sequence(l)) = Len(c)
        /\ \A i \in 1..Len(c) : Sequence(l)[i] = Queue!Entry(c[i], l.ttl[c[i]])
    <3>1. l \in Lists
      BY <1>5
    <3>2. QED
      BY <1>7, <3>1, SequenceIs
  <2>3. /\ Sequence(list) \in Seq(Entries) /\ Len(Sequence(list)) = Len(c)
        /\ \A i \in 1..Len(c) : Sequence(list)[i] = Queue!Entry(c[i], list.ttl[c[i]])
    BY <1>1, <1>2, SequenceIs
  <2>4. QED
    BY <2>1, <2>2, <2>3, SameQueue
<1>9. l.nxt[t] = NoTask /\ l.ttl[t] = ms
  BY <1>1, <1>5
<1>10. /\ Inserted(l, t) \in Lists
       /\ \E d \in Seq(Tasks) : Leads(Inserted(l, t), d)
       /\ Sequence(Inserted(l, t)) = Queue!Inserted(Sequence(list), t, ms)
       /\ Inserted(l, t).tout = Queue!ToutInserted(Sequence(list), list.tout, ms)
  <2>1. l \in Lists /\ l.nxt[t] = NoTask
    BY <1>5, <1>9
  <2>2. /\ Inserted(l, t) \in Lists
        /\ \E d \in Seq(Tasks) : Leads(Inserted(l, t), d)
        /\ Sequence(Inserted(l, t)) = Queue!Inserted(Sequence(l), t, l.ttl[t])
        /\ Inserted(l, t).tout = Queue!ToutInserted(Sequence(l), l.tout, l.ttl[t])
    BY <1>4, <1>7, <2>1, InsertedIs
  <2>3. QED
    BY <1>5, <1>8, <1>9, <2>2
<1>11. ListInv'
  BY <1>1, <1>3, <1>10, ListSteps
<1>12. Queue!AddTask(t, ms)
  BY <1>3, <1>4, <1>10 DEF Queue!AddTask, Queue!InLua, InLua
<1>13. QED
  BY <1>11, <1>12

LEMMA CancelStep ==
  ASSUME ListInv, NEW t \in Tasks, CancelTask(t)
  PROVE  ListInv' /\ Queue!CancelTask(t)
<1>1. list \in Lists /\ running \in Links /\ processing \in BOOLEAN
  BY DEF ListInv
<1>2. PICK c \in Seq(Tasks) : Leads(list, c)
  BY DEF ListInv
<1>3. /\ InLua /\ list' = Removed(list, t) /\ running' = running /\ processing' = processing
  BY DEF CancelTask
<1>4. /\ Removed(list, t) \in Lists
      /\ \E d \in Seq(Tasks) : Leads(Removed(list, t), d)
      /\ Sequence(Removed(list, t)) = Queue!Removed(Sequence(list), t)
      /\ Removed(list, t).tout = Queue!ToutRemoved(Sequence(list), list.tout, t)
  BY <1>1, <1>2, RemovedIs
<1>5. ListInv'
  BY <1>1, <1>3, <1>4, ListSteps
<1>6. Queue!CancelTask(t)
  BY <1>3, <1>4 DEF Queue!CancelTask, Queue!InLua, InLua
<1>7. QED
  BY <1>5, <1>6

LEMMA CleanStep ==
  ASSUME ListInv, CleanTasks
  PROVE  ListInv' /\ Queue!CleanTasks
<1> DEFINE l == [list EXCEPT !.head = NoTask, !.tout = NoTimeout]
<1>1. list \in Lists /\ running \in Links /\ processing \in BOOLEAN
  BY DEF ListInv
<1>2. InLua /\ list' = l /\ running' = running /\ processing' = processing
  BY DEF CleanTasks
<1>3. l \in Lists /\ l.head = NoTask /\ l.tout = -1
  <2>1. NoTask \in Links /\ NoTimeout \in Int /\ NoTimeout = -1
    BY DEF Links, NoTimeout
  <2>2. l \in Lists /\ l.head = NoTask /\ l.tout = NoTimeout
    BY <1>1, <2>1 DEF Lists
  <2>3. QED
    BY <2>1, <2>2
<1> HIDE DEF l
<1>4. Leads(l, <<>>) /\ Sequence(l) = <<>> /\ <<>> \in Seq(Tasks)
  BY <1>3, EmptyIs
<1>5. ListInv'
  BY <1>1, <1>2, <1>3, <1>4, ListSteps
<1>6. Queue!CleanTasks
  BY <1>2, <1>3, <1>4 DEF Queue!CleanTasks, Queue!InLua, InLua, Queue!NoTimeout
<1>7. QED
  BY <1>5, <1>6

LEMMA ProcessStep ==
  ASSUME ListInv, NEW et \in Elapsed, Process(et)
  PROVE  ListInv' /\ Queue!Process(et)
<1>1. list \in Lists /\ running \in Links /\ et \in Nat
  BY ListAssumption DEF ListInv
<1>2. PICK c \in Seq(Tasks) : Leads(list, c)
  BY DEF ListInv
<1>3. ~processing /\ list' = Adjusted(list, et) /\ processing' = TRUE /\ running' = running
  BY DEF Process
<1>4. /\ Adjusted(list, et) \in Lists
      /\ Leads(Adjusted(list, et), c)
      /\ Sequence(Adjusted(list, et)) = Queue!Adjusted(Sequence(list), et)
      /\ Adjusted(list, et).tout = list.tout
  BY <1>1, <1>2, AdjustedIs
<1>5. ListInv'
  BY <1>1, <1>3, <1>4, ListSteps
<1>6. Queue!Process(et)
  BY <1>3, <1>4 DEF Queue!Process
<1>7. QED
  BY <1>5, <1>6

\* The callback has returned: its task is removed, and goes back in with a delay.
LEMMA FinishStep ==
  ASSUME ListInv, NEW ms \in Delays \cup {0}, Finish(ms)
  PROVE  ListInv' /\ Queue!Finish(ms)
<1> DEFINE t == running
           rest == Removed(list, t)
           l == [rest EXCEPT !.ttl[t] = ms]
<1>1. /\ list \in Lists /\ t \in Tasks /\ processing \in BOOLEAN /\ ms \in Int
  BY ListAssumption DEF ListInv, Links, Finish
<1>2. PICK c \in Seq(Tasks) : Leads(list, c)
  BY DEF ListInv
<1>3. /\ running # NoTask /\ running' = NoTask /\ processing' = processing
      /\ list' = IF ms < 1 THEN rest ELSE Inserted(l, t)
  BY DEF Finish
<1>4. /\ rest \in Lists
      /\ \E d \in Seq(Tasks) : Leads(rest, d) /\ ~Linked(d, t)
      /\ rest.nxt[t] = NoTask
      /\ Sequence(rest) = Queue!Removed(Sequence(list), t)
      /\ rest.tout = Queue!ToutRemoved(Sequence(list), list.tout, t)
  BY <1>1, <1>2, RemovedIs
<1> HIDE DEF rest
<1>5. PICK d \in Seq(Tasks) : Leads(rest, d) /\ ~Linked(d, t)
  BY <1>4
<1>6. CASE ms < 1
  <2>1. list' = rest
    BY <1>3, <1>6
  <2>2. NoTask \in Links
    BY DEF Links
  <2>3. ListInv'
    BY <1>1, <1>3, <1>4, <1>5, <2>1, <2>2, ListSteps
  <2>4. Queue!Finish(ms)
    BY <1>3, <1>4, <1>6, <2>1 DEF Queue!Finish
  <2>5. QED
    BY <2>3, <2>4
<1>7. CASE ~(ms < 1)
  <2>1. list' = Inserted(l, t)
    BY <1>3, <1>7
  <2>2. rest.nxt \in [Tasks -> Links] /\ rest.ttl \in [Tasks -> Int]
    BY <1>4, ListParts
  <2>3. /\ l \in Lists /\ l.head = rest.head /\ l.tout = rest.tout /\ l.nxt = rest.nxt
        /\ l.ttl = [rest.ttl EXCEPT ![t] = ms]
    <3>1. [rest.ttl EXCEPT ![t] = ms] \in [Tasks -> Int]
      BY <1>1, <2>2
    <3>2. QED
      BY <1>4, <3>1 DEF Lists
  <2> HIDE DEF l
  <2>4. \A i \in 1..Len(d) : d[i] \in Tasks /\ d[i] # t
    BY <1>5 DEF Linked
  <2>5. Leads(l, d) /\ l.nxt[t] = NoTask /\ l.ttl[t] = ms
    BY <1>1, <1>4, <1>5, <2>2, <2>3 DEF Leads
  <2>6. Sequence(l) = Sequence(rest)
    <3>1. \A i \in 1..Len(d) : l.ttl[d[i]] = rest.ttl[d[i]]
      BY <2>2, <2>3, <2>4
    <3>2. /\ Sequence(l) \in Seq(Entries) /\ Len(Sequence(l)) = Len(d)
          /\ \A i \in 1..Len(d) : Sequence(l)[i] = Queue!Entry(d[i], l.ttl[d[i]])
      <4>1. l \in Lists /\ Leads(l, d)
        BY <2>3, <2>5
      <4>2. QED
        BY <4>1, SequenceIs
    <3>3. /\ Sequence(rest) \in Seq(Entries) /\ Len(Sequence(rest)) = Len(d)
          /\ \A i \in 1..Len(d) : Sequence(rest)[i] = Queue!Entry(d[i], rest.ttl[d[i]])
      BY <1>4, <1>5, SequenceIs
    <3>4. QED
      BY <3>1, <3>2, <3>3, SameQueue
  <2>7. /\ Inserted(l, t) \in Lists
        /\ \E e \in Seq(Tasks) : Leads(Inserted(l, t), e)
        /\ Sequence(Inserted(l, t)) = Queue!Inserted(Sequence(rest), t, ms)
        /\ Inserted(l, t).tout = Queue!ToutInserted(Sequence(rest), rest.tout, ms)
    BY <1>1, <1>5, <2>3, <2>5, <2>6, InsertedIs
  <2>8. NoTask \in Links
    BY DEF Links
  <2>9. ListInv'
    BY <1>1, <1>3, <2>1, <2>7, <2>8, ListSteps
  <2>10. Queue!Finish(ms)
    BY <1>3, <1>4, <1>7, <2>1, <2>7 DEF Queue!Finish
  <2>11. QED
    BY <2>9, <2>10
<1>8. QED
  BY <1>6, <1>7

LEMMA ListStepKeeps ==
  ASSUME ListInv, [ListNext]_listVars
  PROVE  ListInv' /\ [Queue!TaskNext]_(Queue!taskVars)
<1> USE DEF Queue!TaskNext
<1>1. ASSUME NEW t \in Tasks, NEW ms \in Delays, AddTask(t, ms)
      PROVE  ListInv' /\ Queue!TaskNext
  BY <1>1, AddStep
<1>2. ASSUME NEW t \in Tasks, CancelTask(t)
      PROVE  ListInv' /\ Queue!TaskNext
  BY <1>2, CancelStep
<1>3. CASE CleanTasks
  BY <1>3, CleanStep
<1>4. ASSUME NEW et \in Elapsed, Process(et)
      PROVE  ListInv' /\ Queue!TaskNext
  BY <1>4, ProcessStep
<1>5. ASSUME NEW ms \in Delays \cup {0}, Finish(ms)
      PROVE  ListInv' /\ Queue!TaskNext
  BY <1>5, FinishStep
<1>6. list \in Lists /\ running \in Links /\ processing \in BOOLEAN
  BY DEF ListInv
<1>7. PICK c \in Seq(Tasks) : Leads(list, c)
  BY DEF ListInv
<1>8. /\ list.head # NoTask <=> Sequence(list) # <<>>
      /\ list.head # NoTask => /\ list.head \in Tasks
                               /\ Sequence(list)[1].task = list.head
                               /\ Sequence(list)[1].tout = list.ttl[list.head]
  BY <1>6, <1>7, HeadIs
<1>9. CASE ExecuteHead
  <2>1. ListInv'
    BY <1>6, <1>7, <1>8, <1>9 DEF ListInv, ExecuteHead, Links
  <2>2. Queue!ExecuteHead
    BY <1>8, <1>9 DEF ExecuteHead, Queue!ExecuteHead
  <2>3. QED
    BY <2>1, <2>2
<1>10. CASE CallbackFails
  <2>1. ListInv'
    BY <1>6, <1>7, <1>10 DEF ListInv, CallbackFails, Links
  <2>2. Queue!CallbackFails
    BY <1>10 DEF CallbackFails, Queue!CallbackFails
  <2>3. QED
    BY <2>1, <2>2
<1>11. CASE ProcessDone
  <2>1. ListInv'
    BY <1>6, <1>7, <1>11 DEF ListInv, ProcessDone
  <2>2. Queue!ProcessDone
    BY <1>8, <1>11 DEF ProcessDone, Queue!ProcessDone
  <2>3. QED
    BY <2>1, <2>2
<1>12. CASE UNCHANGED listVars
  <2>1. ListInv'
    BY <1>6, <1>7, <1>12 DEF ListInv, listVars
  <2>2. UNCHANGED Queue!taskVars
    BY <1>12 DEF listVars, Queue!taskVars
  <2>3. QED
    BY <2>1, <2>2
<1>13. QED
  BY <1>1, <1>2, <1>3, <1>4, <1>5, <1>9, <1>10, <1>11, <1>12 DEF ListNext

LEMMA ListStarts == ListInit => ListInv /\ Queue!TaskInit
<1> SUFFICES ASSUME ListInit PROVE ListInv /\ Queue!TaskInit
  OBVIOUS
<1>1. /\ list = [head |-> NoTask, nxt |-> [t \in Tasks |-> NoTask],
                 ttl |-> [t \in Tasks |-> 0], tout |-> NoTimeout]
      /\ running = NoTask /\ processing = FALSE
  BY DEF ListInit
<1>2. list \in Lists /\ list.head = NoTask /\ list.tout = -1
  <2>1. /\ [t \in Tasks |-> NoTask] \in [Tasks -> Links] /\ [t \in Tasks |-> 0] \in [Tasks -> Int]
        /\ NoTask \in Links /\ NoTimeout = -1
    BY DEF Links, NoTimeout
  <2>2. QED
    BY <1>1, <2>1 DEF Lists
<1>3. Leads(list, <<>>) /\ Sequence(list) = <<>> /\ <<>> \in Seq(Tasks)
  BY <1>2, EmptyIs
<1>4. ListInv
  BY <1>1, <1>2, <1>3 DEF ListInv, Links
<1>5. Queue!TaskInit
  BY <1>1, <1>2, <1>3 DEF Queue!TaskInit, Queue!NoTimeout
<1>6. QED
  BY <1>4, <1>5

LEMMA ListInvariant == ListSpec => []ListInv
BY ListStarts, ListStepKeeps, PTL DEF ListSpec

-----------------------------------------------------------------------------
(***************************************************************************)
(* The theorems.                                                           *)
(***************************************************************************)

\* The walk from the head comes to an end, however tasks were inserted, cancelled, cleaned
\* away and re-armed: every loop of t_ael_tsk.c over the list terminates.
THEOREM ListsEnd == ListSpec => []ListEnds
<1>1. ListInv => ListEnds
  BY ChainIs DEF ListInv, ListEnds
<1>2. QED
  BY <1>1, ListInvariant, PTL

\* The linked list is the queue: t_ael_tsk_insert, _remove and _adjust do to the pointers
\* what TaskQueue does to the sequence.
THEOREM ListIsQueue == ListSpec => ImplementsTaskQueue
BY ListStarts, ListStepKeeps, ListInvariant, PTL DEF ListSpec, ImplementsTaskQueue, Queue!TaskSpec

\* What is proved of the queue holds of the pointers: the linked list is ordered by the time
\* its tasks have left and leads to none twice (t_ael_tsk_process looks at the head alone).
THEOREM ListStaysInOrder == ListSpec => []Queue!QueueInOrder
<1>1. TQ!TaskSpec => []TQ!QueueInOrder
  BY ListAssumption, TQ!TasksInOrder
<1>2. TQ!TaskSpec <=> Queue!TaskSpec
  <2>1. TQ!TaskInit <=> Queue!TaskInit
    BY DEF TQ!TaskInit, Queue!TaskInit, TQ!NoTimeout, Queue!NoTimeout
  <2>2. [TQ!TaskNext]_(TQ!taskVars) <=> [Queue!TaskNext]_(Queue!taskVars)
    BY Zenon
    DEF TQ!TaskInit, Queue!TaskInit, TQ!TaskNext, Queue!TaskNext, TQ!AddTask, Queue!AddTask,
        TQ!CancelTask, Queue!CancelTask, TQ!CleanTasks, Queue!CleanTasks, TQ!Process,
        Queue!Process, TQ!ExecuteHead, Queue!ExecuteHead, TQ!Finish, Queue!Finish,
        TQ!CallbackFails, Queue!CallbackFails, TQ!ProcessDone, Queue!ProcessDone,
        TQ!Inserted, Queue!Inserted, TQ!Removed, Queue!Removed, TQ!Adjusted, Queue!Adjusted,
        TQ!ToutInserted, Queue!ToutInserted, TQ!ToutRemoved, Queue!ToutRemoved, TQ!Slot,
        Queue!Slot, TQ!Entry, Queue!Entry, TQ!IsQueued, Queue!IsQueued, TQ!InLua,
        Queue!InLua, TQ!NoTimeout, Queue!NoTimeout, TQ!Min, Queue!Min, TQ!InsertAt,
        Queue!InsertAt, TQ!RemoveAt, Queue!RemoveAt, TQ!taskVars, Queue!taskVars
  <2>3. QED
    BY <2>1, <2>2, PTL DEF TQ!TaskSpec, Queue!TaskSpec
<1>3. TQ!QueueInOrder <=> Queue!QueueInOrder
  BY DEF TQ!QueueInOrder, Queue!QueueInOrder, TQ!Sorted, Queue!Sorted, TQ!NoTaskTwice, Queue!NoTaskTwice
<1>4. QED
  BY <1>1, <1>2, <1>3, ListIsQueue, PTL DEF ImplementsTaskQueue
=============================================================================
