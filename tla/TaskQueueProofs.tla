--------------------------- MODULE TaskQueueProofs ---------------------------
(***************************************************************************)
(* Proofs about TaskQueue, for every set of tasks, delays and elapsed      *)
(* times: the list stays ordered and free of duplicates, ael->tout never   *)
(* makes a poll end before the head is due, and the queue implements       *)
(* Timers.                                                                 *)
(***************************************************************************)
EXTENDS TaskQueue, SequenceTheorems, WellFoundedInduction, TLAPS

Entries == [task : Tasks, tout : Int]

-----------------------------------------------------------------------------
(***************************************************************************)
(* The list operations.                                                    *)
(***************************************************************************)

\* The order of the natural numbers as a relation, well-founded.
LessThan == {ss \in Nat \X Nat : ss[1] < ss[2]}

LEMMA LessThanWellFounded == IsWellFoundedOn(LessThan, Nat)
BY NatLessThanWellFounded DEF LessThan, OpToRel

\* A non-empty set of indices has a least element, which Min returns.
LEMMA MinIndex ==
  ASSUME NEW S \in SUBSET Nat, S # {}
  PROVE  Min(S) \in S /\ \A y \in S : Min(S) <= y
<1>1. PICK x \in S : \A y \in S : ~(<<y, x>> \in LessThan)
  BY LessThanWellFounded, WFMin
<1>2. \A y \in S : x <= y
  <2> SUFFICES ASSUME NEW y \in S PROVE x <= y
    OBVIOUS
  <2>1. x \in Nat /\ y \in Nat /\ ~(<<y, x>> \in LessThan)
    BY <1>1
  <2>2. ~(y < x)
    BY <2>1 DEF LessThan
  <2>3. QED
    BY <2>1, <2>2
<1>3. QED
  BY <1>1, <1>2 DEF Min

\* The slot is the first position whose task waits at least ms (code: the walk
\* of t_ael_tsk_insert).
LEMMA SlotIsFirst ==
  ASSUME NEW q \in Seq(Entries), NEW ms \in Int
  PROVE  /\ Slot(q, ms) \in 1..Len(q) + 1
         /\ \A j \in 1..Slot(q, ms) - 1 : q[j].tout < ms
         /\ Slot(q, ms) <= Len(q) => q[Slot(q, ms)].tout >= ms
<1> DEFINE later == {i \in DOMAIN q : q[i].tout >= ms}
<1>1. /\ Len(q) \in Nat
      /\ DOMAIN q = 1..Len(q)
      /\ \A i \in 1..Len(q) : q[i].tout \in Int
  <2>1. Len(q) \in Nat /\ DOMAIN q = 1..Len(q)
    BY LenProperties
  <2>2. \A i \in 1..Len(q) : q[i] \in Entries
    BY ElementOfSeq
  <2>3. QED
    BY <2>1, <2>2 DEF Entries
<1>2. CASE later = {}
  <2>1. Slot(q, ms) = Len(q) + 1
    BY <1>2 DEF Slot
  <2>2. QED
    BY <1>1, <1>2, <2>1
<1>3. CASE later # {}
  <2>1. later \in SUBSET Nat
    BY <1>1
  <2>2. Min(later) \in later /\ \A y \in later : Min(later) <= y
    BY <1>3, <2>1, MinIndex
  <2>3. Slot(q, ms) = Min(later)
    BY <1>3 DEF Slot
  <2> HIDE DEF later
  <2>4. Slot(q, ms) \in 1..Len(q) /\ q[Slot(q, ms)].tout >= ms
    BY <1>1, <2>2, <2>3 DEF later
  <2>5. ASSUME NEW j \in 1..Slot(q, ms) - 1
        PROVE  q[j].tout < ms
    <3>1. j \in 1..Len(q) /\ ~(Slot(q, ms) <= j) /\ q[j].tout \in Int
      BY <1>1, <2>4
    <3>2. j \notin later
      BY <2>2, <2>3, <3>1
    <3>3. QED
      BY <1>1, <3>1, <3>2 DEF later
  <2>6. QED
    BY <1>1, <2>4, <2>5
<1>4. QED
  BY <1>2, <1>3

\* What an insertion yields, element by element.
LEMMA InsertedElements ==
  ASSUME NEW q \in Seq(Entries), NEW t \in Tasks, NEW ms \in Int
  PROVE  /\ Inserted(q, t, ms) \in Seq(Entries)
         /\ Len(Inserted(q, t, ms)) = Len(q) + 1
         /\ \A j \in 1..Len(q) + 1 :
              Inserted(q, t, ms)[j] =
                IF j < Slot(q, ms) THEN q[j]
                ELSE IF j = Slot(q, ms) THEN Entry(t, ms) ELSE q[j - 1]
<1> DEFINE s == Slot(q, ms)
           before == SubSeq(q, 1, s - 1)
           after == SubSeq(q, s, Len(q))
<1>1. Len(q) \in Nat /\ s \in 1..Len(q) + 1
  BY SlotIsFirst, LenProperties
<1>2. \A i \in 1..Len(q) : q[i] \in Entries
  BY ElementOfSeq
<1>3. Entry(t, ms) \in Entries
  BY DEF Entry, Entries
<1> HIDE DEF s
<1>4. /\ before \in Seq(Entries)
      /\ Len(before) = s - 1
      /\ \A i \in 1..s - 1 : before[i] = q[i]
  <2>1. s - 1 \in Int /\ 1 \in Int /\ \A i \in 1..s - 1 : q[i] \in Entries
    BY <1>1, <1>2
  <2>2. QED
    BY <1>1, <2>1, SubSeqProperties
<1>5. /\ after \in Seq(Entries)
      /\ Len(after) = Len(q) - s + 1
      /\ \A i \in 1..Len(q) - s + 1 : after[i] = q[s + i - 1]
  <2>1. s \in Int /\ Len(q) \in Int /\ \A i \in s..Len(q) : q[i] \in Entries
    BY <1>1, <1>2
  <2>2. QED
    BY <1>1, <2>1, SubSeqProperties
<1>6. /\ <<Entry(t, ms)>> \in Seq(Entries)
      /\ Len(<<Entry(t, ms)>>) = 1
      /\ <<Entry(t, ms)>>[1] = Entry(t, ms)
  BY <1>3
<1> HIDE DEF before, after
<1> DEFINE front == before \o <<Entry(t, ms)>>
<1>7. /\ front \in Seq(Entries)
      /\ Len(front) = s
      /\ \A i \in 1..s : front[i] = IF i < s THEN q[i] ELSE Entry(t, ms)
  BY <1>1, <1>4, <1>6, ConcatProperties
<1>8. Inserted(q, t, ms) = front \o after
  BY DEF Inserted, InsertAt, s, before, after
<1> HIDE DEF front
<1>9. /\ front \o after \in Seq(Entries)
      /\ Len(front \o after) = Len(front) + Len(after)
      /\ \A j \in 1..Len(front) + Len(after) : (front \o after)[j] =
           IF j <= Len(front) THEN front[j] ELSE after[j - Len(front)]
  BY <1>5, <1>7, ConcatProperties
<1>10. Len(front \o after) = Len(q) + 1
  BY <1>1, <1>5, <1>7, <1>9
<1>11. ASSUME NEW j \in 1..Len(q) + 1
       PROVE  (front \o after)[j] =
                IF j < s THEN q[j] ELSE IF j = s THEN Entry(t, ms) ELSE q[j - 1]
  <2>1. CASE j <= s
    BY <1>1, <1>5, <1>7, <1>9, <2>1
  <2>2. CASE j > s
    <3>1. j - s \in 1..Len(q) - s + 1
      BY <1>1, <2>2
    <3>2. after[j - s] = q[j - 1]
      <4>1. after[j - s] = q[s + (j - s) - 1]
        BY <1>5, <3>1
      <4>2. s + (j - s) - 1 = j - 1
        BY <1>1
      <4>3. QED
        BY <4>1, <4>2
    <3>3. j \in 1..Len(front) + Len(after) /\ ~(j <= Len(front)) /\ Len(front) = s
      BY <1>1, <1>5, <1>7, <2>2
    <3>4. (front \o after)[j] = after[j - s]
      BY <1>9, <3>3
    <3>5. ~(j < s) /\ j # s
      BY <1>1, <2>2
    <3>6. QED
      BY <3>2, <3>4, <3>5
  <2>3. j <= s \/ j > s
    BY <1>1
  <2>4. QED
    BY <2>1, <2>2, <2>3
<1>12. QED
  BY <1>8, <1>9, <1>10, <1>11 DEF s

\* What a removal yields, element by element.
LEMMA RemovedElements ==
  ASSUME NEW q \in Seq(Entries), NEW t, IsQueued(q, t)
  PROVE  \E k \in 1..Len(q) :
           /\ q[k].task = t
           /\ \A j \in 1..k - 1 : q[j].task # t
           /\ Removed(q, t) \in Seq(Entries)
           /\ Len(Removed(q, t)) = Len(q) - 1
           /\ \A j \in 1..Len(q) - 1 :
                Removed(q, t)[j] = IF j < k THEN q[j] ELSE q[j + 1]
<1> DEFINE here == {i \in DOMAIN q : q[i].task = t}
           k == Min(here)
           before == SubSeq(q, 1, k - 1)
           after == SubSeq(q, k + 1, Len(q))
<1>1. Len(q) \in Nat /\ DOMAIN q = 1..Len(q)
  BY LenProperties
<1>2. k \in here /\ \A i \in here : k <= i
  <2>1. here \in SUBSET Nat /\ here # {}
    BY <1>1 DEF IsQueued
  <2>2. QED
    BY <2>1, MinIndex
<1>3. k \in 1..Len(q) /\ q[k].task = t /\ \A j \in 1..k - 1 : q[j].task # t
  <2> HIDE DEF k
  <2>1. k \in 1..Len(q) /\ q[k].task = t
    BY <1>1, <1>2
  <2>2. ASSUME NEW j \in 1..k - 1
        PROVE  q[j].task # t
    <3>1. j \in 1..Len(q) /\ ~(k <= j)
      BY <1>1, <2>1
    <3>2. QED
      BY <1>1, <1>2, <3>1
  <2>3. QED
    BY <2>1, <2>2
<1>4. Removed(q, t) = before \o after
  BY DEF Removed, RemoveAt
<1>5. \A i \in 1..Len(q) : q[i] \in Entries
  BY ElementOfSeq
<1> HIDE DEF k
<1>6. /\ before \in Seq(Entries)
      /\ Len(before) = k - 1
      /\ \A i \in 1..k - 1 : before[i] = q[i]
  <2>1. k - 1 \in Int /\ 1 \in Int /\ \A i \in 1..k - 1 : q[i] \in Entries
    BY <1>1, <1>3, <1>5
  <2>2. QED
    BY <1>1, <1>3, <2>1, SubSeqProperties
<1>7. /\ after \in Seq(Entries)
      /\ Len(after) = Len(q) - k
      /\ \A i \in 1..Len(q) - k : after[i] = q[k + i]
  <2>1. k + 1 \in Int /\ Len(q) \in Int /\ \A i \in k + 1..Len(q) : q[i] \in Entries
    BY <1>1, <1>3, <1>5
  <2>2. /\ after \in Seq(Entries)
        /\ Len(after) = IF k + 1 <= Len(q) THEN Len(q) - (k + 1) + 1 ELSE 0
        /\ \A i \in 1..Len(q) - (k + 1) + 1 : after[i] = q[(k + 1) + i - 1]
    BY <2>1, SubSeqProperties
  <2> HIDE DEF after
  <2>3. Len(after) = Len(q) - k
    <3>1. k \in Int /\ Len(q) \in Int /\ k <= Len(q)
      BY <1>1, <1>3
    <3>2. Len(after) = IF k + 1 <= Len(q) THEN Len(q) - (k + 1) + 1 ELSE 0
      BY <2>2
    <3>3. QED
      BY <3>1, <3>2
  <2>4. ASSUME NEW i \in 1..Len(q) - k
        PROVE  after[i] = q[k + i]
    <3>1. i \in 1..Len(q) - (k + 1) + 1 /\ (k + 1) + i - 1 = k + i
      BY <1>1, <1>3
    <3>2. QED
      BY <2>2, <3>1
  <2>5. QED
    BY <2>2, <2>3, <2>4
<1> HIDE DEF before, after
<1>8. /\ before \o after \in Seq(Entries)
      /\ Len(before \o after) = Len(before) + Len(after)
      /\ \A j \in 1..Len(before) + Len(after) : (before \o after)[j] =
           IF j <= Len(before) THEN before[j] ELSE after[j - Len(before)]
  BY <1>6, <1>7, ConcatProperties
<1>9. Len(before \o after) = Len(q) - 1
  BY <1>1, <1>3, <1>6, <1>7, <1>8
<1>10. ASSUME NEW j \in 1..Len(q) - 1
       PROVE  (before \o after)[j] = IF j < k THEN q[j] ELSE q[j + 1]
  <2>1. CASE j < k
    BY <1>1, <1>3, <1>6, <1>7, <1>8, <2>1
  <2>2. CASE j >= k
    <3>1. j - (k - 1) \in 1..Len(q) - k
      BY <1>1, <1>3, <2>2
    <3>2. after[j - (k - 1)] = q[k + (j - (k - 1))]
      BY <1>7, <3>1
    <3>3. k + (j - (k - 1)) = j + 1
      BY <1>1, <1>3
    <3>4. (before \o after)[j] = after[j - (k - 1)]
      BY <1>1, <1>3, <1>6, <1>7, <1>8, <2>2
    <3>5. QED
      BY <1>3, <2>2, <3>2, <3>3, <3>4
  <2>3. j < k \/ j >= k
    BY <1>1, <1>3
  <2>4. QED
    BY <2>1, <2>2, <2>3
<1>11. QED
  BY <1>3, <1>4, <1>8, <1>9, <1>10

-----------------------------------------------------------------------------
(***************************************************************************)
(* What the operations preserve.                                           *)
(***************************************************************************)
EntrySet(q) == {q[i] : i \in DOMAIN q}

\* An insertion keeps the order, adds one entry and loses none.
LEMMA InsertedKeeps ==
  ASSUME NEW q \in Seq(Entries), NEW t \in Tasks, NEW ms \in Int,
         Sorted(q), NoTaskTwice(q), ~IsQueued(q, t)
  PROVE  LET r == Inserted(q, t, ms)
         IN /\ r \in Seq(Entries)
            /\ Sorted(r)
            /\ NoTaskTwice(r)
            /\ EntrySet(r) = EntrySet(q) \cup {Entry(t, ms)}
            /\ r # <<>>
            /\ r[1] = IF Slot(q, ms) = 1 THEN Entry(t, ms) ELSE q[1]
<1> DEFINE r == Inserted(q, t, ms)
           s == Slot(q, ms)
<1>1. /\ s \in 1..Len(q) + 1
      /\ \A j \in 1..s - 1 : q[j].tout < ms
      /\ s <= Len(q) => q[s].tout >= ms
  BY SlotIsFirst
<1>2. /\ r \in Seq(Entries)
      /\ Len(r) = Len(q) + 1
      /\ \A j \in 1..Len(q) + 1 :
           r[j] = IF j < s THEN q[j] ELSE IF j = s THEN Entry(t, ms) ELSE q[j - 1]
  BY InsertedElements
<1>3. /\ Len(q) \in Nat
      /\ DOMAIN q = 1..Len(q)
      /\ DOMAIN r = 1..Len(q) + 1
  BY <1>2, LenProperties
<1>4. \A i \in 1..Len(q) : q[i] \in Entries /\ q[i].tout \in Int /\ q[i].task # t
  <2>1. \A i \in 1..Len(q) : q[i] \in Entries
    BY ElementOfSeq
  <2>2. QED
    BY <1>3, <2>1 DEF Entries, IsQueued
<1>5. Entry(t, ms).task = t /\ Entry(t, ms).tout = ms
  BY DEF Entry
<1> HIDE DEF r, s
<1>6. Sorted(r)
  <2> SUFFICES ASSUME NEW i \in 1..Len(q) + 1, NEW j \in 1..Len(q) + 1, i < j
               PROVE  r[i].tout <= r[j].tout
    BY <1>3 DEF Sorted
  <2>1. \A a, b \in 1..Len(q) : a < b => q[a].tout <= q[b].tout
    BY <1>3 DEF Sorted
  <2>2. CASE j < s
    BY <1>1, <1>2, <1>3, <2>1, <2>2
  <2>3. CASE j = s
    <3>1. r[i] = q[i] /\ i \in 1..Len(q) /\ q[i].tout < ms /\ r[j] = Entry(t, ms)
      BY <1>1, <1>2, <1>3, <2>3
    <3>2. QED
      BY <1>4, <1>5, <3>1
  <2>4. CASE j > s
    <3>1. r[j] = q[j - 1] /\ j - 1 \in 1..Len(q) /\ s <= j - 1 /\ s \in 1..Len(q)
      BY <1>1, <1>2, <1>3, <2>4
    <3>2. q[s].tout >= ms /\ q[s].tout <= q[j - 1].tout
      <4>1. CASE s = j - 1
        BY <1>1, <1>3, <1>4, <3>1, <4>1
      <4>2. CASE s < j - 1
        BY <1>1, <1>3, <2>1, <3>1, <4>2
      <4>3. s = j - 1 \/ s < j - 1
        BY <1>3, <3>1
      <4>4. QED
        BY <4>1, <4>2, <4>3
    <3>3. CASE i < s
      <4>1. r[i] = q[i] /\ i \in 1..Len(q) /\ i < j - 1
        BY <1>1, <1>2, <1>3, <3>1, <3>3
      <4>2. QED
        BY <2>1, <3>1, <4>1
    <3>4. CASE i = s
      <4>1. r[i] = Entry(t, ms)
        BY <1>2, <3>4
      <4>2. q[s].tout \in Int /\ q[j - 1].tout \in Int
        BY <1>4, <3>1
      <4>3. QED
        BY <1>5, <3>1, <3>2, <4>1, <4>2
    <3>5. CASE i > s
      <4>1. r[i] = q[i - 1] /\ i - 1 \in 1..Len(q) /\ i - 1 < j - 1
        BY <1>1, <1>2, <1>3, <3>5
      <4>2. QED
        BY <2>1, <3>1, <4>1
    <3>6. i < s \/ i = s \/ i > s
      BY <1>1, <1>3
    <3>7. QED
      BY <3>3, <3>4, <3>5, <3>6
  <2>5. j < s \/ j = s \/ j > s
    BY <1>1, <1>3
  <2>6. QED
    BY <2>2, <2>3, <2>4, <2>5
<1>7. NoTaskTwice(r)
  <2> SUFFICES ASSUME NEW i \in 1..Len(q) + 1, NEW j \in 1..Len(q) + 1,
                      r[i].task = r[j].task
               PROVE  i = j
    BY <1>3 DEF NoTaskTwice
  <2>1. \A a, b \in 1..Len(q) : q[a].task = q[b].task => a = b
    BY <1>3 DEF NoTaskTwice
  <2> DEFINE from(k) == IF k < s THEN k ELSE k - 1
  <2>2. \A k \in 1..Len(q) + 1 : k # s =>
          from(k) \in 1..Len(q) /\ r[k] = q[from(k)] /\ r[k].task # t
    BY <1>1, <1>2, <1>3, <1>4
  <2>3. r[s].task = t
    BY <1>1, <1>2, <1>5
  <2>4. CASE i = s \/ j = s
    BY <2>2, <2>3, <2>4
  <2>5. CASE i # s /\ j # s
    <3>1. from(i) = from(j)
      BY <2>1, <2>2, <2>5
    <3>2. QED
      BY <1>1, <1>3, <2>5, <3>1
  <2>6. QED
    BY <2>4, <2>5
<1>8. EntrySet(r) = EntrySet(q) \cup {Entry(t, ms)}
  <2>1. ASSUME NEW e \in EntrySet(r)
        PROVE  e \in EntrySet(q) \cup {Entry(t, ms)}
    <3>1. PICK j \in 1..Len(q) + 1 : e = r[j]
      BY <1>3 DEF EntrySet
    <3>2. CASE j < s
      BY <1>1, <1>2, <1>3, <3>1, <3>2 DEF EntrySet
    <3>3. CASE j = s
      BY <1>2, <3>1, <3>3
    <3>4. CASE j > s
      <4>1. j - 1 \in 1..Len(q) /\ e = q[j - 1]
        BY <1>1, <1>2, <1>3, <3>1, <3>4
      <4>2. QED
        BY <1>3, <4>1 DEF EntrySet
    <3>5. j < s \/ j = s \/ j > s
      BY <1>1, <1>3
    <3>6. QED
      BY <3>2, <3>3, <3>4, <3>5
  <2>2. ASSUME NEW e \in EntrySet(q)
        PROVE  e \in EntrySet(r)
    <3>1. PICK i \in 1..Len(q) : e = q[i]
      BY <1>3 DEF EntrySet
    <3>2. CASE i < s
      BY <1>1, <1>2, <1>3, <3>1, <3>2 DEF EntrySet
    <3>3. CASE i >= s
      <4>1. i + 1 \in 1..Len(q) + 1 /\ r[i + 1] = q[(i + 1) - 1]
        BY <1>1, <1>2, <1>3, <3>3
      <4>2. (i + 1) - 1 = i
        BY <1>3
      <4>3. QED
        BY <1>3, <3>1, <4>1, <4>2 DEF EntrySet
    <3>4. i < s \/ i >= s
      BY <1>1, <1>3
    <3>5. QED
      BY <3>2, <3>3, <3>4
  <2>3. Entry(t, ms) \in EntrySet(r)
    BY <1>1, <1>2, <1>3 DEF EntrySet
  <2>4. QED
    BY <2>1, <2>2, <2>3
<1>9. r # <<>> /\ r[1] = IF s = 1 THEN Entry(t, ms) ELSE q[1]
  BY <1>1, <1>2, <1>3, EmptySeq
<1>10. QED
  BY <1>2, <1>6, <1>7, <1>8, <1>9 DEF r, s

\* Removing a task that is in the list keeps the order and the other entries.
LEMMA RemovedKeepsQueued ==
  ASSUME NEW q \in Seq(Entries), NEW t, Sorted(q), NoTaskTwice(q), IsQueued(q, t)
  PROVE  LET r == Removed(q, t)
         IN /\ r \in Seq(Entries)
            /\ Len(r) = Len(q) - 1
            /\ Sorted(r)
            /\ NoTaskTwice(r)
            /\ ~IsQueued(r, t)
            /\ EntrySet(r) = {e \in EntrySet(q) : e.task # t}
            /\ (r # <<>> => r[1] = IF q[1].task = t THEN q[2] ELSE q[1])
<1> DEFINE r == Removed(q, t)
<1>1. PICK k \in 1..Len(q) :
        /\ q[k].task = t
        /\ r \in Seq(Entries)
        /\ Len(r) = Len(q) - 1
        /\ \A j \in 1..Len(q) - 1 : r[j] = IF j < k THEN q[j] ELSE q[j + 1]
  BY RemovedElements
<1>2. Len(q) \in Nat /\ DOMAIN q = 1..Len(q) /\ DOMAIN r = 1..Len(q) - 1
  BY <1>1, LenProperties
<1> HIDE DEF r
<1> DEFINE from(j) == IF j < k THEN j ELSE j + 1
<1>3. \A j \in 1..Len(q) - 1 : from(j) \in 1..Len(q) /\ from(j) # k /\ r[j] = q[from(j)]
  BY <1>1, <1>2
<1>4. \A i, j \in 1..Len(q) - 1 : (i < j => from(i) < from(j)) /\ (from(i) = from(j) => i = j)
  BY <1>1, <1>2
<1>5. \A a, b \in 1..Len(q) : q[a].task = q[b].task => a = b
  BY <1>2 DEF NoTaskTwice
<1>6. \A a, b \in 1..Len(q) : a < b => q[a].tout <= q[b].tout
  BY <1>2 DEF Sorted
<1>7. \A i \in 1..Len(q) : i # k => \E j \in 1..Len(q) - 1 : from(j) = i
  <2> SUFFICES ASSUME NEW i \in 1..Len(q), i # k
               PROVE  \E j \in 1..Len(q) - 1 : from(j) = i
    OBVIOUS
  <2>1. CASE i < k
    BY <1>1, <1>2, <2>1
  <2>2. CASE i > k
    <3>1. i - 1 \in 1..Len(q) - 1 /\ from(i - 1) = i
      BY <1>1, <1>2, <2>2
    <3>2. QED
      BY <3>1
  <2>3. i < k \/ i > k
    BY <1>1, <1>2
  <2>4. QED
    BY <2>1, <2>2, <2>3
<1> HIDE DEF from
<1>8. Sorted(r)
  BY <1>2, <1>3, <1>4, <1>6 DEF Sorted
<1>9. NoTaskTwice(r)
  BY <1>2, <1>3, <1>4, <1>5 DEF NoTaskTwice
<1>10. \A i \in 1..Len(q) : q[i].task = t <=> i = k
  BY <1>1, <1>5
<1>11. ~IsQueued(r, t)
  BY <1>2, <1>3, <1>10 DEF IsQueued
<1>12. EntrySet(r) = {e \in EntrySet(q) : e.task # t}
  <2>1. ASSUME NEW e \in EntrySet(r)
        PROVE  e \in EntrySet(q) /\ e.task # t
    BY <1>2, <1>3, <1>10, <2>1 DEF EntrySet
  <2>2. ASSUME NEW e \in EntrySet(q), e.task # t
        PROVE  e \in EntrySet(r)
    <3>1. PICK i \in 1..Len(q) : e = q[i] /\ i # k
      BY <1>2, <1>10, <2>2 DEF EntrySet
    <3>2. PICK j \in 1..Len(q) - 1 : from(j) = i
      BY <1>7, <3>1
    <3>3. QED
      BY <1>2, <1>3, <3>1, <3>2 DEF EntrySet
  <2>3. QED
    BY <2>1, <2>2
<1>13. ASSUME r # <<>>
       PROVE  r[1] = IF q[1].task = t THEN q[2] ELSE q[1]
  <2>1. 1 \in 1..Len(q) - 1 /\ 1 \in 1..Len(q)
    <3>1. Len(r) # 0
      BY <1>1, <1>13, EmptySeq
    <3>2. QED
      BY <1>1, <1>2, <3>1
  <2>2. r[1] = q[from(1)]
    BY <1>3, <2>1
  <2>3. from(1) = IF k = 1 THEN 2 ELSE 1
    BY <1>1, <1>2 DEF from
  <2>4. q[1].task = t <=> k = 1
    BY <1>10, <2>1
  <2>5. QED
    BY <2>2, <2>3, <2>4
<1>14. QED
  BY <1>1, <1>8, <1>9, <1>11, <1>12, <1>13 DEF r

\* A removal keeps the order and all entries but the task's own.
LEMMA RemovedKeeps ==
  ASSUME NEW q \in Seq(Entries), NEW t, Sorted(q), NoTaskTwice(q)
  PROVE  LET r == Removed(q, t)
         IN /\ r \in Seq(Entries)
            /\ Sorted(r)
            /\ NoTaskTwice(r)
            /\ ~IsQueued(r, t)
            /\ EntrySet(r) = {e \in EntrySet(q) : e.task # t}
<1>1. CASE IsQueued(q, t)
  BY <1>1, RemovedKeepsQueued
<1>2. CASE ~IsQueued(q, t)
  <2>1. Removed(q, t) = q
    BY <1>2 DEF Removed
  <2>2. EntrySet(q) = {e \in EntrySet(q) : e.task # t}
    BY <1>2 DEF EntrySet, IsQueued
  <2>3. QED
    BY <1>2, <2>1, <2>2
<1>3. QED
  BY <1>1, <1>2

\* Aging is monotone, so it keeps the order.
LEMMA AdjustedKeeps ==
  ASSUME NEW q \in Seq(Entries), NEW et \in Nat, Sorted(q), NoTaskTwice(q)
  PROVE  LET r == Adjusted(q, et)
         IN /\ r \in Seq(Entries)
            /\ Len(r) = Len(q)
            /\ Sorted(r)
            /\ NoTaskTwice(r)
            /\ \A i \in 1..Len(q) :
                 /\ r[i] = Entry(q[i].task, IF q[i].tout - et > 0 THEN q[i].tout - et ELSE 0)
                 /\ q[i].tout \in Int
<1> DEFINE r == Adjusted(q, et)
           left(i) == IF q[i].tout - et > 0 THEN q[i].tout - et ELSE 0
<1>1. Len(q) \in Nat /\ DOMAIN q = 1..Len(q)
  BY LenProperties
<1>2. \A i \in 1..Len(q) : q[i].task \in Tasks /\ q[i].tout \in Int
  <2>1. \A i \in 1..Len(q) : q[i] \in Entries
    BY ElementOfSeq
  <2>2. QED
    BY <2>1 DEF Entries
<1>3. \A i \in 1..Len(q) : left(i) \in Int
  BY <1>2
<1>4. \A i, j \in 1..Len(q) : i < j => left(i) <= left(j)
  <2> SUFFICES ASSUME NEW i \in 1..Len(q), NEW j \in 1..Len(q), i < j
               PROVE  left(i) <= left(j)
    OBVIOUS
  <2>1. q[i].tout <= q[j].tout
    BY <1>1 DEF Sorted
  <2>2. q[i].tout \in Int /\ q[j].tout \in Int
    BY <1>2
  <2>3. QED
    BY <2>1, <2>2
<1>5. r = [i \in 1..Len(q) |-> Entry(q[i].task, left(i))]
  BY <1>1 DEF Adjusted
<1> HIDE DEF left, r
<1>6. \A i \in 1..Len(q) : r[i] = Entry(q[i].task, left(i))
  BY <1>5
<1>7. \A i \in 1..Len(q) : r[i].task = q[i].task /\ r[i].tout = left(i) /\ r[i] \in Entries
  <2> SUFFICES ASSUME NEW i \in 1..Len(q)
               PROVE  r[i].task = q[i].task /\ r[i].tout = left(i) /\ r[i] \in Entries
    OBVIOUS
  <2>1. r[i] = [task |-> q[i].task, tout |-> left(i)]
    BY <1>6 DEF Entry
  <2>2. q[i].task \in Tasks /\ left(i) \in Int
    BY <1>2, <1>3
  <2>3. r[i] \in Entries
    BY <2>1, <2>2 DEF Entries
  <2>4. QED
    BY <2>1, <2>3
<1>8. r \in Seq(Entries) /\ Len(r) = Len(q) /\ DOMAIN r = 1..Len(q)
  <2>1. DOMAIN r = 1..Len(q)
    BY <1>5
  <2>2. r \in [1..Len(q) -> Entries]
    BY <1>5, <1>7
  <2>3. r \in Seq(Entries)
    BY <1>1, <2>2
  <2>4. QED
    BY <1>1, <2>1, <2>3, LenProperties
<1>9. Sorted(r)
  BY <1>4, <1>7, <1>8 DEF Sorted
<1>10. NoTaskTwice(r)
  BY <1>1, <1>7, <1>8 DEF NoTaskTwice
<1>11. \A i \in 1..Len(q) : r[i] = Entry(q[i].task, IF q[i].tout - et > 0 THEN q[i].tout - et ELSE 0)
  BY <1>6 DEF left
<1>12. QED
  BY <1>2, <1>8, <1>9, <1>10, <1>11 DEF r

-----------------------------------------------------------------------------
(***************************************************************************)
(* The inductive invariant.  It is the conjunction of the properties to be *)
(* proved: PollNeverShort after the removal of the head needs the order of *)
(* the list, EmptyHasNoTimeout needs to know that the removal of a task    *)
(* that is not the head leaves one, and NoTaskTwice that a task being      *)
(* re-inserted has been taken out completely.                              *)
(***************************************************************************)
QueueGood(q, to) ==
  /\ q \in Seq(Entries)
  /\ to \in Int
  /\ Sorted(q)
  /\ NoTaskTwice(q)
  /\ q = <<>> => to = NoTimeout
  /\ q # <<>> /\ to >= 0 => q[1].tout <= to

IInv ==
  /\ QueueGood(queue, tout)
  /\ running \in Tasks \cup {NoTask}
  /\ processing \in BOOLEAN

LEMMA HeadInQueue ==
  ASSUME NEW q \in Seq(Entries), q # <<>>
  PROVE  /\ Len(q) \in Nat /\ Len(q) >= 1
         /\ DOMAIN q = 1..Len(q)
         /\ q[1] \in EntrySet(q)
         /\ q[1].task \in Tasks /\ q[1].tout \in Int
<1>1. Len(q) \in Nat /\ DOMAIN q = 1..Len(q) /\ Len(q) # 0
  BY LenProperties, EmptySeq
<1>2. 1 \in 1..Len(q)
  BY <1>1
<1>3. q[1] \in Entries
  BY <1>2, ElementOfSeq
<1>4. QED
  BY <1>1, <1>2, <1>3 DEF EntrySet, Entries

LEMMA InsertGood ==
  ASSUME NEW q, NEW to, QueueGood(q, to),
         NEW t \in Tasks, NEW ms \in Int, ~IsQueued(q, t)
  PROVE  QueueGood(Inserted(q, t, ms), ToutInserted(q, to, ms))
<1> DEFINE r == Inserted(q, t, ms)
           rto == ToutInserted(q, to, ms)
<1>1. q \in Seq(Entries) /\ to \in Int /\ Sorted(q) /\ NoTaskTwice(q)
  BY DEF QueueGood
<1>2. /\ r \in Seq(Entries) /\ Sorted(r) /\ NoTaskTwice(r) /\ r # <<>>
      /\ r[1] = IF Slot(q, ms) = 1 THEN Entry(t, ms) ELSE q[1]
  BY <1>1, InsertedKeeps
<1>3. rto = IF Slot(q, ms) = 1 THEN ms ELSE to
  BY DEF ToutInserted
<1> HIDE DEF r, rto
<1>4. rto \in Int
  BY <1>1, <1>3
<1>5. rto >= 0 => r[1].tout <= rto
  <2>1. CASE Slot(q, ms) = 1
    <3>1. r[1].tout = ms
      BY <1>2, <2>1 DEF Entry
    <3>2. QED
      BY <1>3, <2>1, <3>1
  <2>2. CASE Slot(q, ms) # 1
    <3>1. q # <<>>
      <4>1. q = <<>> => Slot(q, ms) = 1
        <5>1. Len(<<>>) = 0 /\ DOMAIN <<>> = {}
          BY EmptySeq
        <5>2. q = <<>> => Slot(q, ms) = Len(q) + 1
          BY <5>1 DEF Slot
        <5>3. QED
          BY <5>1, <5>2
      <4>2. QED
        BY <2>2, <4>1
    <3>2. QED
      BY <1>2, <1>3, <2>2, <3>1 DEF QueueGood
  <2>3. QED
    BY <2>1, <2>2
<1>6. QED
  BY <1>2, <1>4, <1>5 DEF QueueGood, r, rto

LEMMA RemoveGood ==
  ASSUME NEW q, NEW to, QueueGood(q, to), NEW t
  PROVE  QueueGood(Removed(q, t), ToutRemoved(q, to, t))
<1> DEFINE r == Removed(q, t)
           rto == ToutRemoved(q, to, t)
<1>1. q \in Seq(Entries) /\ to \in Int /\ Sorted(q) /\ NoTaskTwice(q)
  BY DEF QueueGood
<1>2. CASE ~IsQueued(q, t)
  <2>1. r = q
    BY <1>2 DEF Removed
  <2>2. rto = to
    <3>1. CASE q = <<>>
      BY <3>1 DEF ToutRemoved
    <3>2. CASE q # <<>>
      <4>1. 1 \in DOMAIN q
        BY <1>1, <3>2, HeadInQueue
      <4>2. q[1].task # t
        BY <1>2, <4>1 DEF IsQueued
      <4>3. QED
        BY <4>2 DEF ToutRemoved
    <3>3. QED
      BY <3>1, <3>2
  <2>3. QED
    BY <2>1, <2>2
<1>3. CASE IsQueued(q, t)
  <2>1. /\ r \in Seq(Entries) /\ Sorted(r) /\ NoTaskTwice(r)
        /\ Len(r) = Len(q) - 1
        /\ r # <<>> => r[1] = IF q[1].task = t THEN q[2] ELSE q[1]
    BY <1>1, <1>3, RemovedKeepsQueued
  <2>2. q # <<>>
    BY <1>3, EmptySeq DEF IsQueued
  <2>3. Len(q) \in Nat /\ Len(q) >= 1 /\ DOMAIN q = 1..Len(q)
    BY <1>1, <2>2, HeadInQueue
  <2>4. rto = IF q[1].task = t
              THEN IF Len(q) = 1 THEN NoTimeout ELSE q[2].tout
              ELSE to
    BY <2>2 DEF ToutRemoved
  <2> HIDE DEF r, rto
  <2>5. r = <<>> <=> Len(q) = 1
    <3>1. r = <<>> <=> Len(r) = 0
      BY <2>1, EmptySeq
    <3>2. QED
      BY <2>1, <2>3, <3>1
  <2>6. CASE Len(q) = 1
    <3>1. q[1].task = t
      <4>1. PICK i \in 1..1 : q[i].task = t
        BY <1>3, <2>3, <2>6 DEF IsQueued
      <4>2. i = 1
        OBVIOUS
      <4>3. QED
        BY <4>1, <4>2
    <3>2. rto = NoTimeout /\ r = <<>>
      BY <2>4, <2>5, <2>6, <3>1
    <3>3. QED
      BY <2>1, <3>2 DEF QueueGood, NoTimeout, r, rto
  <2>7. CASE Len(q) # 1
    <3>1. r # <<>> /\ 2 \in 1..Len(q)
      BY <2>3, <2>5, <2>7
    <3>2. q[2].tout \in Int
      <4>1. q[2] \in Entries
        BY <1>1, <3>1, ElementOfSeq
      <4>2. QED
        BY <4>1 DEF Entries
    <3>3. rto \in Int
      BY <1>1, <2>4, <2>7, <3>2
    <3>4. rto >= 0 => r[1].tout <= rto
      <4>1. CASE q[1].task = t
        BY <2>1, <2>4, <2>7, <3>1, <3>2, <4>1
      <4>2. CASE q[1].task # t
        BY <2>1, <2>2, <2>4, <3>1, <4>2 DEF QueueGood
      <4>3. QED
        BY <4>1, <4>2
    <3>5. QED
      BY <2>1, <3>1, <3>3, <3>4 DEF QueueGood, r, rto
  <2>8. QED
    BY <2>6, <2>7
<1>4. QED
  BY <1>2, <1>3

LEMMA AdjustGood ==
  ASSUME NEW q, NEW to, QueueGood(q, to), NEW et \in Nat
  PROVE  QueueGood(Adjusted(q, et), to)
<1> DEFINE r == Adjusted(q, et)
<1>1. q \in Seq(Entries) /\ to \in Int /\ Sorted(q) /\ NoTaskTwice(q)
  BY DEF QueueGood
<1>2. /\ r \in Seq(Entries) /\ Sorted(r) /\ NoTaskTwice(r) /\ Len(r) = Len(q)
      /\ \A i \in 1..Len(q) :
           /\ r[i] = Entry(q[i].task, IF q[i].tout - et > 0 THEN q[i].tout - et ELSE 0)
           /\ q[i].tout \in Int
  BY <1>1, AdjustedKeeps
<1> HIDE DEF r
<1>3. r = <<>> <=> q = <<>>
  <2>1. (r = <<>> <=> Len(r) = 0) /\ (q = <<>> <=> Len(q) = 0)
    BY <1>1, <1>2, EmptySeq
  <2>2. QED
    BY <1>2, <2>1
<1>4. ASSUME r # <<>>, to >= 0
      PROVE  r[1].tout <= to
  <2>1. 1 \in 1..Len(q) /\ q[1].tout <= to
    <3>1. q # <<>>
      BY <1>3, <1>4
    <3>2. Len(q) \in Nat /\ Len(q) >= 1
      BY <1>1, <3>1, HeadInQueue
    <3>3. QED
      BY <1>4, <3>1, <3>2 DEF QueueGood
  <2> DEFINE left == IF q[1].tout - et > 0 THEN q[1].tout - et ELSE 0
  <2>2. r[1].tout = left
    <3>1. r[1] = Entry(q[1].task, left)
      BY <1>2, <2>1
    <3> HIDE DEF left
    <3>2. QED
      BY <3>1 DEF Entry
  <2>3. q[1].tout \in Int
    BY <1>2, <2>1
  <2>4. QED
    BY <1>1, <1>4, <2>1, <2>2, <2>3
<1>5. QED
  BY <1>1, <1>2, <1>3, <1>4 DEF QueueGood, r

LEMMA RemovedIsOut ==
  ASSUME NEW q, NEW to, QueueGood(q, to), NEW t
  PROVE  ~IsQueued(Removed(q, t), t)
BY RemovedKeeps DEF QueueGood

-----------------------------------------------------------------------------
(***************************************************************************)
(* The invariant holds.                                                    *)
(***************************************************************************)
LEMMA InitIInv == TaskInit => IInv
<1> SUFFICES ASSUME TaskInit PROVE IInv
  OBVIOUS
<1>1. QueueGood(<<>>, NoTimeout)
  <2>1. <<>> \in Seq(Entries) /\ DOMAIN <<>> = {}
    BY EmptySeq
  <2>2. Sorted(<<>>) /\ NoTaskTwice(<<>>)
    BY <2>1 DEF Sorted, NoTaskTwice
  <2>3. QED
    BY <2>1, <2>2 DEF QueueGood, NoTimeout
<1>2. QED
  BY <1>1 DEF TaskInit, IInv

LEMMA NextIInv == IInv /\ [TaskNext]_taskVars => IInv'
<1> SUFFICES ASSUME IInv, [TaskNext]_taskVars PROVE IInv'
  OBVIOUS
<1>0. /\ QueueGood(queue, tout)
      /\ running \in Tasks \cup {NoTask}
      /\ processing \in BOOLEAN
  BY DEF IInv
<1>1. ASSUME NEW t \in Tasks, NEW ms \in Delays, AddTask(t, ms)
      PROVE  IInv'
  <2>1. ms \in Int
    BY TaskAssumption
  <2>2. QueueGood(queue', tout')
    BY <1>0, <1>1, <2>1, InsertGood DEF AddTask
  <2>3. QED
    BY <1>0, <1>1, <2>2 DEF AddTask, IInv
<1>2. ASSUME NEW t \in Tasks, CancelTask(t)
      PROVE  IInv'
  BY <1>0, <1>2, RemoveGood DEF CancelTask, IInv
<1>3. CASE CleanTasks
  <2>1. QueueGood(<<>>, NoTimeout)
    <3>1. <<>> \in Seq(Entries) /\ DOMAIN <<>> = {}
      BY EmptySeq
    <3>2. Sorted(<<>>) /\ NoTaskTwice(<<>>)
      BY <3>1 DEF Sorted, NoTaskTwice
    <3>3. QED
      BY <3>1, <3>2 DEF QueueGood, NoTimeout
  <2>2. QED
    BY <1>0, <1>3, <2>1 DEF CleanTasks, IInv
<1>4. ASSUME NEW et \in Elapsed, Process(et)
      PROVE  IInv'
  <2>1. et \in Nat
    BY TaskAssumption
  <2>2. QueueGood(queue', tout')
    BY <1>0, <1>4, <2>1, AdjustGood DEF Process
  <2>3. QED
    BY <1>0, <1>4, <2>2 DEF Process, IInv
<1>5. CASE ExecuteHead
  <2>1. queue[1].task \in Tasks
    BY <1>0, <1>5, HeadInQueue DEF ExecuteHead, QueueGood
  <2>2. QED
    BY <1>0, <1>5, <2>1 DEF ExecuteHead, IInv
<1>6. ASSUME NEW ms \in Delays \cup {0}, Finish(ms)
      PROVE  IInv'
  <2> DEFINE rest == Removed(queue, running)
             to == ToutRemoved(queue, tout, running)
  <2>1. QueueGood(rest, to) /\ ~IsQueued(rest, running)
    BY <1>0, RemoveGood, RemovedIsOut
  <2>2. running \in Tasks /\ ms \in Int
    BY <1>0, <1>6, TaskAssumption DEF Finish
  <2> HIDE DEF rest, to
  <2>3. QueueGood(Inserted(rest, running, ms), ToutInserted(rest, to, ms))
    BY <2>1, <2>2, InsertGood
  <2>4. QueueGood(queue', tout')
    <3>1. CASE ms < 1
      BY <1>6, <2>1, <3>1 DEF Finish, rest, to
    <3>2. CASE ~(ms < 1)
      BY <1>6, <2>3, <3>2 DEF Finish, rest, to
    <3>3. QED
      BY <3>1, <3>2
  <2>5. running' \in Tasks \cup {NoTask} /\ processing' \in BOOLEAN
    BY <1>0, <1>6 DEF Finish
  <2>6. QED
    BY <2>4, <2>5 DEF IInv
<1>7. CASE CallbackFails
  BY <1>0, <1>7 DEF CallbackFails, IInv
<1>8. CASE ProcessDone
  BY <1>0, <1>8 DEF ProcessDone, IInv
<1>9. CASE UNCHANGED taskVars
  BY <1>0, <1>9 DEF taskVars, IInv
<1>10. QED
  BY <1>1, <1>2, <1>3, <1>4, <1>5, <1>6, <1>7, <1>8, <1>9 DEF TaskNext

\* The inductive invariant holds in every reachable state.
THEOREM TaskInvariant == TaskSpec => []IInv
<1>1. QED
  BY InitIInv, NextIInv, PTL DEF TaskSpec

\* Type correctness of the loop's task fields.
THEOREM TaskTypes == TaskSpec => []TaskTypeOK
<1>1. IInv => TaskTypeOK
  BY DEF IInv, QueueGood, TaskTypeOK, Entries
<1>2. QED
  BY <1>1, TaskInvariant, PTL

\* t_ael_tsk_insert and t_ael_tsk_remove keep the list ordered by remaining
\* time and never link a task twice, whatever callbacks do in between.
THEOREM TasksInOrder == TaskSpec => []QueueInOrder
<1>1. IInv => QueueInOrder
  BY DEF IInv, QueueGood, QueueInOrder
<1>2. QED
  BY <1>1, TaskInvariant, PTL

\* An empty list always comes with T_AEL_NOTIMEOUT, which run() relies on to
\* end and poll to wait for descriptors alone.
THEOREM EmptyListHasNoTimeout == TaskSpec => []EmptyHasNoTimeout
<1>1. IInv => EmptyHasNoTimeout
  BY DEF IInv, QueueGood, EmptyHasNoTimeout
<1>2. QED
  BY <1>1, TaskInvariant, PTL

\* The stale ael->tout is stale in one direction only: it is never less than
\* what the head has left.
THEOREM TimeoutNeverShort == TaskSpec => []PollNeverShort
<1>1. IInv => PollNeverShort
  BY DEF IInv, QueueGood, PollNeverShort
<1>2. QED
  BY <1>1, TaskInvariant, PTL

-----------------------------------------------------------------------------
(***************************************************************************)
(* PendingHasTimeout needs more: no task in the list has a negative time   *)
(* left, because the removal of the head copies the next task's time.      *)
(***************************************************************************)
AllWait(q, to) ==
  /\ \A e \in EntrySet(q) : e.tout >= 0
  /\ q # <<>> => to >= 0

LEMMA InsertWaits ==
  ASSUME NEW q, NEW to, QueueGood(q, to), AllWait(q, to),
         NEW t \in Tasks, NEW ms \in Nat, ~IsQueued(q, t)
  PROVE  AllWait(Inserted(q, t, ms), ToutInserted(q, to, ms))
<1>1. q \in Seq(Entries) /\ to \in Int /\ Sorted(q) /\ NoTaskTwice(q) /\ ms \in Int
  BY DEF QueueGood
<1>2. EntrySet(Inserted(q, t, ms)) = EntrySet(q) \cup {Entry(t, ms)}
  BY <1>1, InsertedKeeps
<1>3. Entry(t, ms).tout >= 0
  BY DEF Entry
<1>4. ToutInserted(q, to, ms) >= 0
  <2>1. CASE q = <<>>
    <3>1. Slot(q, ms) = 1
      <4>1. Len(<<>>) = 0 /\ DOMAIN <<>> = {}
        BY EmptySeq
      <4>2. Slot(q, ms) = Len(q) + 1
        BY <2>1, <4>1 DEF Slot
      <4>3. QED
        BY <2>1, <4>1, <4>2
    <3>2. QED
      BY <3>1 DEF ToutInserted
  <2>2. CASE q # <<>>
    BY <2>2 DEF ToutInserted, AllWait
  <2>3. QED
    BY <2>1, <2>2
<1>5. QED
  BY <1>2, <1>3, <1>4 DEF AllWait

LEMMA RemoveWaits ==
  ASSUME NEW q, NEW to, QueueGood(q, to), AllWait(q, to), NEW t
  PROVE  AllWait(Removed(q, t), ToutRemoved(q, to, t))
<1> DEFINE r == Removed(q, t)
<1>1. q \in Seq(Entries) /\ to \in Int /\ Sorted(q) /\ NoTaskTwice(q)
  BY DEF QueueGood
<1>2. r \in Seq(Entries) /\ EntrySet(r) = {e \in EntrySet(q) : e.task # t}
  BY <1>1, RemovedKeeps
<1>3. ASSUME r # <<>>
      PROVE  ToutRemoved(q, to, t) >= 0
  <2>1. r[1] \in EntrySet(q)
    <3>1. r[1] \in EntrySet(r)
      BY <1>2, <1>3, HeadInQueue
    <3>2. QED
      BY <1>2, <3>1
  <2>2. q # <<>>
    BY <2>1, EmptySeq DEF EntrySet
  <2>3. CASE q[1].task = t
    <3>1. IsQueued(q, t)
      BY <1>1, <2>2, <2>3, HeadInQueue DEF IsQueued
    <3>2. Len(r) = Len(q) - 1 /\ r[1] = q[2]
      BY <1>1, <1>3, <2>3, <3>1, RemovedKeepsQueued
    <3> HIDE DEF r
    <3>3. Len(q) # 1
      <4>1. Len(r) # 0
        BY <1>2, <1>3, EmptySeq
      <4>2. QED
        BY <3>2, <4>1
    <3>4. ToutRemoved(q, to, t) = r[1].tout
      BY <2>2, <2>3, <3>2, <3>3 DEF ToutRemoved
    <3>5. QED
      BY <2>1, <3>4 DEF AllWait
  <2>4. CASE q[1].task # t
    BY <2>2, <2>4 DEF ToutRemoved, AllWait
  <2>5. QED
    BY <2>3, <2>4
<1>4. QED
  BY <1>2, <1>3 DEF AllWait

LEMMA AdjustWaits ==
  ASSUME NEW q, NEW to, QueueGood(q, to), AllWait(q, to), NEW et \in Nat
  PROVE  AllWait(Adjusted(q, et), to)
<1> DEFINE r == Adjusted(q, et)
<1>1. q \in Seq(Entries) /\ to \in Int /\ Sorted(q) /\ NoTaskTwice(q)
  BY DEF QueueGood
<1>2. /\ r \in Seq(Entries) /\ Len(r) = Len(q)
      /\ \A i \in 1..Len(q) :
           /\ r[i] = Entry(q[i].task, IF q[i].tout - et > 0 THEN q[i].tout - et ELSE 0)
           /\ q[i].tout \in Int
  BY <1>1, AdjustedKeeps
<1> HIDE DEF r
<1>3. DOMAIN r = 1..Len(q) /\ (r # <<>> => q # <<>>)
  <2>1. (r = <<>> <=> Len(r) = 0) /\ (q = <<>> <=> Len(q) = 0)
    BY <1>1, <1>2, EmptySeq
  <2>2. QED
    BY <1>2, <2>1, LenProperties
<1>4. ASSUME NEW i \in 1..Len(q)
      PROVE  r[i].tout >= 0
  <2> DEFINE left == IF q[i].tout - et > 0 THEN q[i].tout - et ELSE 0
  <2>1. left >= 0
    BY <1>2
  <2>2. r[i] = Entry(q[i].task, left)
    BY <1>2
  <2> HIDE DEF left
  <2>3. QED
    BY <2>1, <2>2 DEF Entry
<1>5. QED
  BY <1>3, <1>4 DEF AllWait, EntrySet, r

LEMMA NextWaits ==
  ASSUME \A ms \in Delays : ms >= 0
  PROVE  IInv /\ AllWait(queue, tout) /\ [TaskNext]_taskVars => AllWait(queue, tout)'
<1> SUFFICES ASSUME IInv, AllWait(queue, tout), [TaskNext]_taskVars
             PROVE  AllWait(queue', tout')
  BY DEF AllWait, EntrySet
<1>0. QueueGood(queue, tout) /\ running \in Tasks \cup {NoTask}
  BY DEF IInv
<1>1. \A ms \in Delays \cup {0} : ms \in Nat
  BY TaskAssumption
<1>2. ASSUME NEW t \in Tasks, NEW ms \in Delays, AddTask(t, ms)
      PROVE  AllWait(queue', tout')
  BY <1>0, <1>1, <1>2, InsertWaits DEF AddTask
<1>3. ASSUME NEW t \in Tasks, CancelTask(t)
      PROVE  AllWait(queue', tout')
  BY <1>0, <1>3, RemoveWaits DEF CancelTask
<1>4. CASE CleanTasks
  <2>1. DOMAIN <<>> = {}
    BY EmptySeq
  <2>2. QED
    BY <1>4, <2>1 DEF CleanTasks, AllWait, EntrySet
<1>5. ASSUME NEW et \in Elapsed, Process(et)
      PROVE  AllWait(queue', tout')
  BY <1>0, <1>5, AdjustWaits, TaskAssumption DEF Process
<1>6. ASSUME NEW ms \in Delays \cup {0}, Finish(ms)
      PROVE  AllWait(queue', tout')
  <2> DEFINE rest == Removed(queue, running)
             to == ToutRemoved(queue, tout, running)
  <2>1. QueueGood(rest, to) /\ ~IsQueued(rest, running) /\ AllWait(rest, to)
    BY <1>0, RemoveGood, RemovedIsOut, RemoveWaits
  <2>2. running \in Tasks /\ ms \in Nat
    BY <1>0, <1>1, <1>6 DEF Finish
  <2> HIDE DEF rest, to
  <2>3. AllWait(Inserted(rest, running, ms), ToutInserted(rest, to, ms))
    BY <2>1, <2>2, InsertWaits
  <2>4. CASE ms < 1
    BY <1>6, <2>1, <2>4 DEF Finish, rest, to
  <2>5. CASE ~(ms < 1)
    BY <1>6, <2>3, <2>5 DEF Finish, rest, to
  <2>6. QED
    BY <2>4, <2>5
<1>7. CASE ExecuteHead \/ CallbackFails \/ ProcessDone \/ UNCHANGED taskVars
  BY <1>7 DEF ExecuteHead, CallbackFails, ProcessDone, taskVars
<1>8. QED
  BY <1>2, <1>3, <1>4, <1>5, <1>6, <1>7 DEF TaskNext

\* With delays of at least zero a loop that has tasks always has a timeout:
\* poll cannot wait forever while a task is pending.
THEOREM PendingTimeout == TaskSpec => []PendingHasTimeout
<1> DEFINE Waits == (\A ms \in Delays : ms >= 0) => AllWait(queue, tout)
<1>1. TaskInit => Waits
  <2>1. DOMAIN <<>> = {}
    BY EmptySeq
  <2>2. QED
    BY <2>1 DEF TaskInit, AllWait, EntrySet
<1>2. IInv /\ Waits /\ [TaskNext]_taskVars => Waits'
  BY NextWaits
<1>3. Waits => PendingHasTimeout
  BY DEF AllWait, PendingHasTimeout
<1> HIDE DEF Waits
<1>4. QED
  BY <1>1, <1>2, <1>3, TaskInvariant, PTL DEF TaskSpec

\* The list is empty exactly when its timeout says so, in every order of calls.
THEOREM TimeoutTells == TaskSpec => []TimeoutTellsPending
<1>1. EmptyHasNoTimeout /\ PendingHasTimeout => TimeoutTellsPending
  BY DEF TimeoutTellsPending
<1>2. QED
  BY <1>1, EmptyListHasNoTimeout, PendingTimeout, PTL

-----------------------------------------------------------------------------
(***************************************************************************)
(* TaskQueue implements Timers: the set of pending tasks is EntrySet(queue)*)
(***************************************************************************)
LEMMA AdjustedAges ==
  ASSUME NEW q, NEW to, QueueGood(q, to), NEW et \in Nat
  PROVE  EntrySet(Adjusted(q, et)) = Abstract!Aged(EntrySet(q), et)
<1> DEFINE r == Adjusted(q, et)
           aged(e) == Abstract!Entry(e.task, IF e.tout - et > 0 THEN e.tout - et ELSE 0)
<1>1. q \in Seq(Entries) /\ Sorted(q) /\ NoTaskTwice(q)
  BY DEF QueueGood
<1>2. /\ r \in Seq(Entries) /\ Len(r) = Len(q)
      /\ \A i \in 1..Len(q) :
           r[i] = Entry(q[i].task, IF q[i].tout - et > 0 THEN q[i].tout - et ELSE 0)
  BY <1>1, AdjustedKeeps
<1>3. \A i \in 1..Len(q) : r[i] = aged(q[i])
  BY <1>2 DEF Entry, Abstract!Entry
<1> HIDE DEF r
<1>4. DOMAIN r = 1..Len(q) /\ DOMAIN q = 1..Len(q)
  BY <1>1, <1>2, LenProperties
<1>5. Abstract!Aged(EntrySet(q), et) = {aged(e) : e \in EntrySet(q)}
  BY DEF Abstract!Aged
<1> HIDE DEF aged
<1>6. QED
  BY <1>3, <1>4, <1>5 DEF EntrySet, r

\* The head of the list is an earliest pending task.
LEMMA HeadIsEarliest ==
  ASSUME NEW q, NEW to, QueueGood(q, to), q # <<>>
  PROVE  q[1] \in EntrySet(q) /\ \A e \in EntrySet(q) : q[1].tout <= e.tout
<1>1. q \in Seq(Entries) /\ Sorted(q)
  BY DEF QueueGood
<1>2. /\ Len(q) \in Nat /\ Len(q) >= 1 /\ DOMAIN q = 1..Len(q)
      /\ q[1] \in EntrySet(q) /\ q[1].tout \in Int
  BY <1>1, HeadInQueue
<1>3. ASSUME NEW i \in 1..Len(q)
      PROVE  q[1].tout <= q[i].tout
  <2>1. CASE i = 1
    BY <1>2, <2>1
  <2>2. CASE i > 1
    BY <1>1, <1>2, <2>2 DEF Sorted
  <2>3. QED
    BY <2>1, <2>2
<1>4. QED
  BY <1>2, <1>3 DEF EntrySet

LEMMA NextImplements ==
  IInv /\ [TaskNext]_taskVars => [Abstract!TimersNext]_(Abstract!timersVars)
<1> SUFFICES ASSUME IInv, [TaskNext]_taskVars
             PROVE  [Abstract!TimersNext]_(Abstract!timersVars)
  OBVIOUS
<1> DEFINE pending == {queue[i] : i \in DOMAIN queue}
<1>0. QueueGood(queue, tout) /\ running \in Tasks \cup {NoTask}
  BY DEF IInv
<1>1. pending = EntrySet(queue) /\ pending' = EntrySet(queue')
  BY DEF EntrySet
<1>2. ASSUME NEW t \in Tasks, NEW ms \in Delays, AddTask(t, ms)
      PROVE  Abstract!Arm(t, ms)
  <2>1. EntrySet(queue') = EntrySet(queue) \cup {Entry(t, ms)}
    <3>1. ms \in Int
      BY TaskAssumption
    <3>2. QED
      BY <1>0, <1>2, <3>1, InsertedKeeps DEF AddTask, QueueGood
  <2>2. \A e \in EntrySet(queue) : e.task # t
    BY <1>2 DEF AddTask, IsQueued, EntrySet
  <2>3. QED
    BY <1>1, <1>2, <2>1, <2>2
    DEF AddTask, InLua, Entry, Abstract!Arm, Abstract!InLua, Abstract!Entry
<1>3. ASSUME NEW t \in Tasks, CancelTask(t)
      PROVE  Abstract!Disarm(t)
  <2>1. EntrySet(queue') = {e \in EntrySet(queue) : e.task # t}
    BY <1>0, <1>3, RemovedKeeps DEF CancelTask, QueueGood
  <2>2. QED
    BY <1>1, <1>3, <2>1
    DEF CancelTask, InLua, Abstract!Disarm, Abstract!InLua, Abstract!Without
<1>4. CASE CleanTasks
  <2>1. EntrySet(queue') = {}
    <3>1. DOMAIN <<>> = {}
      BY EmptySeq
    <3>2. QED
      BY <1>4, <3>1 DEF CleanTasks, EntrySet
  <2>2. Abstract!DisarmAll
    BY <1>1, <1>4, <2>1 DEF CleanTasks, InLua, Abstract!DisarmAll, Abstract!InLua
  <2>3. QED
    BY <2>2 DEF Abstract!TimersNext
<1>5. ASSUME NEW et \in Elapsed, Process(et)
      PROVE  Abstract!Elapse(et)
  <2>1. EntrySet(queue') = Abstract!Aged(EntrySet(queue), et)
    BY <1>0, <1>5, AdjustedAges, TaskAssumption DEF Process
  <2>2. QED
    BY <1>1, <1>5, <2>1 DEF Process, Abstract!Elapse
<1>6. CASE ExecuteHead
  <2>1. queue[1] \in EntrySet(queue) /\ \A e \in EntrySet(queue) : queue[1].tout <= e.tout
    BY <1>0, <1>6, HeadIsEarliest DEF ExecuteHead
  <2>2. pending' = pending
    BY <1>6 DEF ExecuteHead
  <2>3. Abstract!Fire
    BY <1>1, <1>6, <2>1, <2>2 DEF ExecuteHead, Abstract!Fire
  <2>4. QED
    BY <2>3 DEF Abstract!TimersNext
<1>7. ASSUME NEW ms \in Delays \cup {0}, Finish(ms)
      PROVE  Abstract!Return(ms)
  <2> DEFINE rest == Removed(queue, running)
  <2>1. /\ rest \in Seq(Entries) /\ Sorted(rest) /\ NoTaskTwice(rest)
        /\ ~IsQueued(rest, running)
        /\ EntrySet(rest) = {e \in EntrySet(queue) : e.task # running}
    BY <1>0, RemovedKeeps DEF QueueGood
  <2>2. running \in Tasks /\ ms \in Int
    BY <1>0, <1>7, TaskAssumption DEF Finish
  <2>3. queue' = IF ms < 1 THEN rest ELSE Inserted(rest, running, ms)
    BY <1>7 DEF Finish
  <2> HIDE DEF rest
  <2>4. EntrySet(Inserted(rest, running, ms)) = EntrySet(rest) \cup {Entry(running, ms)}
    BY <2>1, <2>2, InsertedKeeps
  <2>5. EntrySet(queue') = EntrySet(rest) \cup (IF ms < 1 THEN {} ELSE {Entry(running, ms)})
    BY <2>3, <2>4
  <2>6. QED
    BY <1>1, <1>7, <2>1, <2>5
    DEF Finish, Entry, Abstract!Return, Abstract!Without, Abstract!Entry
<1>8. CASE CallbackFails
  <2>1. Abstract!Raise
    BY <1>8 DEF CallbackFails, Abstract!Raise
  <2>2. QED
    BY <2>1 DEF Abstract!TimersNext
<1>9. CASE ProcessDone
  <2>1. \A e \in EntrySet(queue) : e.tout >= 1
    <3>1. CASE queue = <<>>
      <4>1. DOMAIN queue = {}
        BY <3>1, EmptySeq
      <4>2. QED
        BY <4>1 DEF EntrySet
    <3>2. CASE queue # <<>>
      <4>1. queue[1].tout >= 1 /\ queue[1].tout \in Int
        BY <1>0, <1>9, <3>2, HeadInQueue DEF ProcessDone, QueueGood
      <4>2. \A e \in EntrySet(queue) : queue[1].tout <= e.tout /\ e.tout \in Int
        <5>1. \A e \in EntrySet(queue) : e \in Entries
          BY <1>0, ElementOfSeq, LenProperties DEF EntrySet, QueueGood
        <5>2. QED
          BY <1>0, <3>2, <5>1, HeadIsEarliest DEF Entries
      <4>3. QED
        BY <4>1, <4>2
    <3>3. QED
      BY <3>1, <3>2
  <2>2. Abstract!Settle
    BY <1>1, <1>9, <2>1 DEF ProcessDone, Abstract!Settle
  <2>3. QED
    BY <2>2 DEF Abstract!TimersNext
<1>10. CASE UNCHANGED taskVars
  BY <1>10 DEF taskVars, Abstract!timersVars
<1>11. QED
  BY <1>2, <1>3, <1>4, <1>5, <1>6, <1>7, <1>8, <1>9, <1>10
  DEF TaskNext, Abstract!TimersNext

\* The sorted list of t_ael_tsk.c does what Timers promises: due tasks run
\* earliest first, and a pass never ends while a due task waits.
THEOREM QueueImplementsTimers == TaskSpec => ImplementsTimers
<1>1. TaskInit => Abstract!TimersInit
  <2>1. DOMAIN <<>> = {}
    BY EmptySeq
  <2>2. QED
    BY <2>1 DEF TaskInit, Abstract!TimersInit
<1>2. QED
  BY <1>1, NextImplements, TaskInvariant, PTL
  DEF TaskSpec, ImplementsTimers, Abstract!TimersSpec
=============================================================================
