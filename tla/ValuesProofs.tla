----------------------------- MODULE ValuesProofs -----------------------------
(***************************************************************************)
(* Theorems on modules of the run values: Buffers, OrderedHashTable,       *)
(* LuaSet, Suite, Numarray, TableTools and Csv.                            *)
(***************************************************************************)
EXTENDS Buffers, OrderedHashTable, LuaSet, Suite, Numarray, TableTools, Csv,
    FiniteSetTheorems, SequenceTheorems, WellFoundedInduction, TLAPS

(***************************************************************************)
(* Buffers: for any number of buffers and segments, any bytes, and any     *)
(* positions and lengths a program gives, windows stay inside of their     *)
(* buffers, a walk over seg:next() misses nothing, a call through a        *)
(* window changes its bytes alone, and what a program reads of an object   *)
(* are the bytes of its window.                                            *)
(*                                                                         *)
(* What has to be carried along (BufIInv) is that the buffer of a segment  *)
(* exists: buffers are only made under names that are free, and keep their *)
(* length, so that a segment which was inside once stays inside.           *)
(***************************************************************************)

SegRecs  == [buf : Bufs, idx : Int, len : Int]
WalkRecs == [from : Int, passed : Int]

BufBase ==
    /\ bytes \in [Bufs -> Seq(Bytes) \cup {NoObject}]
    /\ seg \in [Segs -> SegRecs \cup {NoObject}]
    /\ walk \in [Segs -> WalkRecs \cup {NoObject}]
    /\ \A s \in Segments : walk[s] # NoObject /\ seg[s].buf \in Buffers

BufIInv == BufBase /\ SegmentsInside /\ NextMissesNothing

-----------------------------------------------------------------------------
(***************************************************************************)
(* The memory of an object, and what memcpy does to it.                    *)
(***************************************************************************)

\* What lies in the text lies in the window the text fits in.
LEMMA TextInWindow ==
    ASSUME NEW p \in Int, NEW k \in Int, NEW at \in Int, NEW n \in Nat, NEW len \in Nat,
           k >= 1, k + n - 1 <= len, p - (at + k - 1) + 1 \in 1..n
    PROVE  p - at \in 0..(len - 1)
  OBVIOUS

\* An object is a window of a buffer that exists, and lies inside of it.
LEMMA WindowInside ==
    ASSUME BufBase, SegmentsInside, NEW o \in Objects
    PROVE  /\ Window(o).buf \in Buffers
           /\ Window(o).idx \in Int /\ Window(o).len \in Nat
           /\ Window(o).idx >= 1
           /\ Window(o).idx + Window(o).len - 1 <= Len(bytes[Window(o).buf])
  <1>1. CASE o \in Buffers
    BY <1>1, BufferAssumption DEF Window, Buffers, BufBase
  <1>2. CASE o \in Segments
    <2>1. o \notin Bufs /\ Window(o) = seg[o]
      BY <1>2, BufferAssumption DEF Window, Segments
    <2>2. seg[o] \in SegRecs
      BY <1>2 DEF Segments, BufBase
    <2> QED BY <1>2, <2>1, <2>2 DEF BufBase, SegmentsInside, SegRecs
  <1> QED BY <1>1, <1>2 DEF Objects

\* memcpy keeps the buffers and their lengths, and changes the bytes from i of the
\* object on, as many as src has.
LEMMA CopiedKeeps ==
    ASSUME BufBase, SegmentsInside, NEW o \in Objects, NEW i \in Int, NEW src \in Seq(Bytes)
    PROVE  /\ Copied(o, i, src) \in [Bufs -> Seq(Bytes) \cup {NoObject}]
           /\ \A b \in Bufs : (Copied(o, i, src)[b] # NoObject) = (bytes[b] # NoObject)
           /\ \A b \in Buffers :
                 /\ Len(Copied(o, i, src)[b]) = Len(bytes[b])
                 /\ \A p \in 1..Len(bytes[b]) :
                       Copied(o, i, src)[b][p] # bytes[b][p] =>
                           b = Window(o).buf /\ p - (Window(o).idx + i - 1) + 1 \in 1..Len(src)
  <1> DEFINE w == Window(o)
             old == bytes[w.buf]
             K(p) == p - (w.idx + i - 1) + 1
             new == [p \in 1..Len(old) |-> IF K(p) \in 1..Len(src) THEN src[K(p)] ELSE old[p]]
  <1>1. w.buf \in Buffers /\ w.buf \in Bufs /\ w.idx \in Int
    BY WindowInside DEF Buffers
  <1>2. old \in Seq(Bytes) /\ Len(old) \in Nat
    BY <1>1 DEF BufBase, Buffers
  <1>3. \A p \in 1..Len(old) : new[p] \in Bytes
    BY <1>1, <1>2
  <1>4. new \in Seq(Bytes) /\ Len(new) = Len(old)
    BY <1>2, <1>3
  <1>5. Copied(o, i, src) = [bytes EXCEPT ![w.buf] = new]
    BY <1>1 DEF Copied, BufBase
  <1>6. new # NoObject
    BY <1>4, BufferAssumption
  <1> HIDE DEF w
  <1>7. \A p \in 1..Len(old) : new[p] # old[p] => K(p) \in 1..Len(src)
    OBVIOUS
  <1> HIDE DEF new, old
  <1>8. old = bytes[w.buf]
    BY DEF old
  <1> QED
    <2>1. Copied(o, i, src) \in [Bufs -> Seq(Bytes) \cup {NoObject}]
      BY <1>1, <1>4, <1>5 DEF BufBase
    <2>2. ASSUME NEW b \in Bufs
          PROVE  Copied(o, i, src)[b] = IF b = w.buf THEN new ELSE bytes[b]
      BY <1>1, <1>5 DEF BufBase
    <2>3. \A b \in Bufs : (Copied(o, i, src)[b] # NoObject) = (bytes[b] # NoObject)
      BY <1>1, <1>6, <2>2 DEF Buffers
    <2>4. ASSUME NEW b \in Buffers
          PROVE  /\ Len(Copied(o, i, src)[b]) = Len(bytes[b])
                 /\ \A p \in 1..Len(bytes[b]) :
                       Copied(o, i, src)[b][p] # bytes[b][p] =>
                           b = w.buf /\ p - (w.idx + i - 1) + 1 \in 1..Len(src)
      BY <1>4, <1>7, <1>8, <2>2 DEF Buffers
    <2> QED BY <2>1, <2>3, <2>4 DEF w
-----------------------------------------------------------------------------
(***************************************************************************)
(* The ways in which a call changes the state.                             *)
(***************************************************************************)

\* A buffer is made: no segment lies on it.
LEMMA CreateKeeps ==
    ASSUME BufIInv, NEW b \in Bufs, NEW content \in Seq(Bytes), Create(b, content)
    PROVE  BufIInv'
  <1>1. content # NoObject
    BY BufferAssumption
  <1>2. bytes' \in [Bufs -> Seq(Bytes) \cup {NoObject}] /\ UNCHANGED <<seg, walk>>
    BY DEF Create, BufIInv, BufBase
  <1>3. \A c \in Buffers : c \in Buffers' /\ bytes'[c] = bytes[c]
    BY DEF Create, Buffers, BufIInv, BufBase
  <1>4. Segments' = Segments /\ \A s \in Segments : bytes'[seg[s].buf] = bytes[seg[s].buf]
    BY <1>2, <1>3 DEF Segments, BufIInv, BufBase
  <1>5. BufBase'
    BY <1>2, <1>3, <1>4 DEF BufIInv, BufBase
  <1>6. SegmentsInside'
    BY <1>2, <1>4 DEF BufIInv, SegmentsInside
  <1>7. NextMissesNothing'
    BY <1>2, <1>4 DEF BufIInv, NextMissesNothing, AtEnd, NextLen
  <1> QED BY <1>5, <1>6, <1>7 DEF BufIInv

\* Bytes of an object are written.
LEMMA WriteKeeps ==
    ASSUME BufIInv, NEW o \in Objects, NEW i \in Int, NEW src \in Seq(Bytes),
           bytes' = Copied(o, i, src), UNCHANGED <<seg, walk>>
    PROVE  BufIInv'
  <1>1. /\ bytes' \in [Bufs -> Seq(Bytes) \cup {NoObject}]
        /\ \A b \in Bufs : (bytes'[b] # NoObject) = (bytes[b] # NoObject)
        /\ \A b \in Buffers : Len(bytes'[b]) = Len(bytes[b])
    BY CopiedKeeps DEF BufIInv
  <1>2. Buffers' = Buffers /\ Segments' = Segments
    BY <1>1 DEF Buffers, Segments
  <1>3. \A s \in Segments : Len(bytes'[seg[s].buf]) = Len(bytes[seg[s].buf])
    BY <1>1 DEF BufIInv, BufBase
  <1>4. BufBase'
    BY <1>1, <1>2 DEF BufIInv, BufBase
  <1>5. SegmentsInside'
    BY <1>2, <1>3 DEF BufIInv, SegmentsInside
  <1>6. NextMissesNothing'
    BY <1>2, <1>3 DEF BufIInv, NextMissesNothing, AtEnd, NextLen
  <1> QED BY <1>4, <1>5, <1>6 DEF BufIInv

\* What NextMissesNothing says follows for a segment inside of its buffer from the
\* first of its conjuncts.
LEMMA WalkComplete ==
    ASSUME NEW n \in Nat, NEW idx \in Int, NEW len \in Nat, NEW from \in Int, NEW passed \in Int,
           idx + len - 1 <= n, passed = idx + len - from
    PROVE  /\ idx + len > n => passed = n - from + 1
           /\ ~(idx + len > n) /\ len > 0 =>
                 (IF idx + 2 * len > n THEN n - idx - len + 1 ELSE len) > 0
  OBVIOUS

\* A segment is set, and its walk goes with it.
LEMMA SetKeeps ==
    ASSUME BufIInv, NEW s \in Segs, NEW b \in Buffers, NEW idx \in Int, NEW len \in Int,
           NEW from \in Int, Set(s, b, idx, len), UNCHANGED bytes,
           walk' = [walk EXCEPT ![s] = [from |-> from, passed |-> idx + len - from]]
    PROVE  BufIInv'
  <1> DEFINE new == [buf |-> b, idx |-> idx, len |-> len]
             trail == [from |-> from, passed |-> idx + len - from]
  <1>1. new \in SegRecs /\ new # NoObject /\ trail \in WalkRecs /\ trail # NoObject
    BY BufferAssumption DEF SegRecs, WalkRecs, Buffers
  <1>2. /\ seg' = [seg EXCEPT ![s] = new]
        /\ seg' \in [Segs -> SegRecs \cup {NoObject}]
        /\ walk' \in [Segs -> WalkRecs \cup {NoObject}]
    BY <1>1 DEF Set, BufIInv, BufBase
  <1>3. seg'[s] = new /\ walk'[s] = trail
    BY DEF Set, BufIInv, BufBase
  <1>4. Segments' = Segments \cup {s} /\ Buffers' = Buffers
    BY <1>1, <1>2 DEF Segments, Buffers, BufIInv, BufBase
  <1>5. \A r \in Segments \ {s} : seg'[r] = seg[r] /\ walk'[r] = walk[r]
    BY DEF Segments, Set, BufIInv, BufBase
  <1>6. /\ 1 <= idx /\ idx <= Len(bytes[b]) /\ len >= 0 /\ idx + len - 1 <= Len(bytes[b])
        /\ Len(bytes[b]) \in Nat
    BY DEF Set, Buffers, BufIInv, BufBase
  <1>7. BufBase'
    BY <1>1, <1>2, <1>3, <1>4, <1>5 DEF BufIInv, BufBase
  <1>8. SegmentsInside'
    BY <1>3, <1>4, <1>5, <1>6 DEF BufIInv, SegmentsInside
  <1>9. NextMissesNothing'
    <2> SUFFICES ASSUME NEW r \in Segments'
                 PROVE  (/\ walk[r].passed = seg[r].idx + seg[r].len - walk[r].from
                         /\ AtEnd(r) => walk[r].passed = Len(bytes[seg[r].buf]) - walk[r].from + 1
                         /\ ~AtEnd(r) /\ seg[r].len > 0 => NextLen(r) > 0)'
      BY DEF NextMissesNothing
    <2>1. CASE r = s
      <3>1. /\ idx + len > Len(bytes[b]) => trail.passed = Len(bytes[b]) - from + 1
            /\ ~(idx + len > Len(bytes[b])) /\ len > 0 =>
                  (IF idx + 2 * len > Len(bytes[b]) THEN Len(bytes[b]) - idx - len + 1 ELSE len) > 0
        BY <1>6, WalkComplete
      <3> QED BY <1>3, <2>1, <3>1 DEF AtEnd, NextLen
    <2>2. CASE r # s
      BY <1>4, <1>5, <2>2 DEF BufIInv, NextMissesNothing, AtEnd, NextLen
    <2> QED BY <2>1, <2>2
  <1> QED BY <1>7, <1>8, <1>9 DEF BufIInv

LEMMA PlacedKeeps ==
    ASSUME BufIInv, NEW s \in Segs, NEW op, NEW b \in Buffers, NEW idx \in Int, NEW len \in Int,
           Placed(s, op, b, idx, len)
    PROVE  BufIInv'
  <1>1. walk' = [walk EXCEPT ![s] = [from |-> idx, passed |-> idx + len - idx]]
    BY DEF Placed
  <1> QED BY <1>1, SetKeeps DEF Placed
-----------------------------------------------------------------------------
(***************************************************************************)
(* One step.                                                               *)
(***************************************************************************)

\* What a new buffer holds is a sequence of bytes.
LEMMA ContentIsBytes ==
    ASSUME BufIInv
    PROVE  /\ \A n \in 1..MaxLen : Zeros(n) \in Seq(Bytes)
           /\ \A o \in Objects, n \in 1..MaxLen :
                 [i \in 1..n |-> IF i <= Window(o).len THEN ByteAt(o, i) ELSE 0] \in Seq(Bytes)
           /\ \A b1, b2 \in Buffers : bytes[b1] \o bytes[b2] \in Seq(Bytes)
  <1>1. ASSUME NEW n \in 1..MaxLen PROVE Zeros(n) \in Seq(Bytes)
    <2>1. n \in Nat /\ \A i \in 1..n : 0 \in Bytes
      BY BufferAssumption
    <2> QED BY <2>1 DEF Zeros
  <1>2. ASSUME NEW o \in Objects, NEW n \in 1..MaxLen
        PROVE  [i \in 1..n |-> IF i <= Window(o).len THEN ByteAt(o, i) ELSE 0] \in Seq(Bytes)
    <2>1. /\ Window(o).buf \in Buffers /\ Window(o).idx \in Int /\ Window(o).len \in Nat
          /\ Window(o).idx >= 1
          /\ Window(o).idx + Window(o).len - 1 <= Len(bytes[Window(o).buf])
      BY WindowInside DEF BufIInv
    <2>2. bytes[Window(o).buf] \in Seq(Bytes)
      BY <2>1 DEF BufIInv, BufBase, Buffers
    <2>3. \A i \in 1..n : (IF i <= Window(o).len THEN ByteAt(o, i) ELSE 0) \in Bytes
      <3> TAKE i \in 1..n
      <3>1. CASE i <= Window(o).len
        <4>1. Window(o).idx + i - 1 \in 1..Len(bytes[Window(o).buf])
          BY <2>1, <3>1, <2>2
        <4> QED BY <2>2, <3>1, <4>1 DEF ByteAt
      <3>2. CASE ~(i <= Window(o).len)
        BY <3>2, BufferAssumption
      <3> QED BY <3>1, <3>2
    <2>4. n \in Nat
      BY BufferAssumption
    <2> DEFINE c(i) == IF i <= Window(o).len THEN ByteAt(o, i) ELSE 0
    <2>5. \A i \in 1..n : c(i) \in Bytes
      BY <2>3
    <2> HIDE DEF c
    <2>6. [i \in 1..n |-> c(i)] \in Seq(Bytes)
      BY <2>4, <2>5
    <2> QED BY <2>6 DEF c
  <1>3. ASSUME NEW b1 \in Buffers, NEW b2 \in Buffers
        PROVE  bytes[b1] \o bytes[b2] \in Seq(Bytes)
    BY DEF BufIInv, BufBase, Buffers
  <1> QED BY <1>1, <1>2, <1>3

\* The window of an object is no longer than its buffer.
LEMMA WindowLength ==
    ASSUME BufIInv, NEW o \in Objects
    PROVE  BufferLen(o) \in Nat /\ Window(o).len \in Nat /\ Window(o).len <= BufferLen(o)
  <1>1. /\ Window(o).buf \in Buffers
        /\ Window(o).idx \in Int /\ Window(o).len \in Nat
        /\ Window(o).idx >= 1
        /\ Window(o).idx + Window(o).len - 1 <= Len(bytes[Window(o).buf])
    BY WindowInside DEF BufIInv
  <1>2. bytes[Window(o).buf] \in Seq(Bytes)
    BY <1>1 DEF BufIInv, BufBase, Buffers
  <1>3. Len(bytes[Window(o).buf]) \in Nat
    BY <1>2
  <1> QED BY <1>1, <1>3 DEF BufferLen

\* What write() copies are bytes, those behind the string too.
LEMMA MemoryIsBytes ==
    ASSUME NEW src \in Strings, NEW m \in Nat, NEW n \in Nat, n <= m,
           NEW behind \in [(Len(src) + 2)..m -> Bytes]
    PROVE  Memory(src, n, behind) \in Seq(Bytes) /\ Len(Memory(src, n, behind)) = n
  <1> DEFINE c(i) == IF i <= Len(src) THEN src[i] ELSE IF i = Len(src) + 1 THEN 0 ELSE behind[i]
  <1>1. src \in Seq(Bytes) /\ Len(src) \in Nat /\ 0 \in Bytes
    BY BufferAssumption
  <1>2. ASSUME NEW i \in 1..n PROVE c(i) \in Bytes
    <2>1. CASE i <= Len(src)
      BY <1>1, <2>1
    <2>2. CASE i = Len(src) + 1
      BY <1>1, <2>2
    <2>3. CASE i > Len(src) + 1
      <3>1. i \in (Len(src) + 2)..m
        BY <1>1, <2>3
      <3> QED BY <1>1, <2>3, <3>1
    <2> QED BY <1>1, <2>1, <2>2, <2>3
  <1> HIDE DEF c
  <1>3. [i \in 1..n |-> c(i)] \in Seq(Bytes) /\ Len([i \in 1..n |-> c(i)]) = n
    BY <1>2
  <1> QED BY <1>3 DEF Memory, c

\* A write of a positive length fits in the window.
LEMMA WriteInside ==
    ASSUME BufIInv, NEW o \in Objects, NEW idx \in Int, NEW len \in Int,
           WriteAllowed(o, idx, len), len > 0
    PROVE  len \in Nat /\ len <= BufferLen(o) /\ idx >= 1 /\ idx + len - 1 <= Window(o).len
  BY WindowLength DEF WriteAllowed

\* Each call keeps the invariant.
THEOREM BufStepKeeps == BufIInv /\ [BufNext]_bufVars => BufIInv'
  <1> SUFFICES ASSUME BufIInv, [BufNext]_bufVars PROVE BufIInv'
    OBVIOUS
  <1> USE DEF BufIInv
  <1>1. ASSUME NEW b \in Bufs, CreateCall(b) PROVE BufIInv'
    <2>1. ASSUME NEW n \in 1..MaxLen, NewBuffer(b, n) PROVE BufIInv'
      BY <2>1, ContentIsBytes, CreateKeeps DEF NewBuffer
    <2>2. ASSUME NEW str \in Strings, Create(b, str) PROVE BufIInv'
      BY <2>2, BufferAssumption, CreateKeeps
    <2>3. ASSUME NEW o \in Objects, NEW n \in 1..MaxLen, NewFrom(b, o, n) PROVE BufIInv'
      BY <2>3, ContentIsBytes, CreateKeeps DEF NewFrom
    <2>4. ASSUME NEW b1 \in Buffers, NEW b2 \in Buffers, Concat(b, b1, b2) PROVE BufIInv'
      BY <2>4, ContentIsBytes, CreateKeeps DEF Concat
    <2> QED BY <1>1, <2>1, <2>2, <2>3, <2>4 DEF CreateCall
  <1>2. ASSUME NEW o \in Objects, BytesCall(o) PROVE BufIInv'
    <2>1. CASE Clear(o)
      <3>1. Window(o).len \in Nat
        BY WindowInside
      <3>2. \A i \in 1..Window(o).len : 0 \in Bytes
        BY BufferAssumption
      <3>3. Zeros(Window(o).len) \in Seq(Bytes)
        BY <3>1, <3>2 DEF Zeros
      <3> QED BY <2>1, <3>3, WriteKeeps DEF Clear
    <2>2. ASSUME NEW str \in Strings, NEW idx \in Nums, NEW len \in Nums,
                 NEW behind \in [(Len(str) + 2)..BufferLen(o) -> Bytes],
                 Write(o, str, idx, len, behind)
          PROVE  BufIInv'
      <3>1. idx \in Int /\ len \in Int
        BY BufferAssumption
      <3>2. ASSUME len > 0 PROVE Memory(str, len, behind) \in Seq(Bytes)
        <4>1. WriteAllowed(o, idx, len)
          BY <2>2 DEF Write
        <4>2. len \in Nat /\ len <= BufferLen(o) /\ BufferLen(o) \in Nat
          BY <3>1, <3>2, <4>1, WriteInside, WindowLength
        <4> QED BY <4>2, MemoryIsBytes
      <3>3. Memory(str, BufferLen(o), behind) \in Seq(Bytes)
        BY WindowLength, MemoryIsBytes
      <3>4. CASE len > 0
        BY <2>2, <3>1, <3>2, <3>4, WriteKeeps DEF Write
      <3>5. CASE ~(len > 0)
        BY <2>2, <3>1, <3>3, <3>5, WriteKeeps DEF Write
      <3> QED BY <3>4, <3>5
    <2>3. ASSUME NEW idx \in Nums, NEW val \in Bytes, SetByte(o, idx, val) PROVE BufIInv'
      <3>1. idx + 1 \in Int /\ <<val>> \in Seq(Bytes)
        BY BufferAssumption
      <3> QED BY <2>3, <3>1, WriteKeeps DEF SetByte
    <2>4. ASSUME NEW idx \in Nums, NEW val \in Bytes, SetSegmentByte(o, idx, val) PROVE BufIInv'
      <3>1. idx \in Int /\ <<val>> \in Seq(Bytes)
        BY BufferAssumption
      <3> QED BY <2>4, <3>1, WriteKeeps DEF SetSegmentByte
    <2> QED BY <1>2, <2>1, <2>2, <2>3, <2>4 DEF BytesCall
  <1>3. ASSUME NEW s \in Segs, NEW b \in Buffers, NEW idx \in Nums, NEW len \in Nums,
               NewSegment(s, b, idx, len)
        PROVE  BufIInv'
    <2>1. idx \in Int /\ len \in Int
      BY BufferAssumption
    <2> QED BY <1>3, <2>1, PlacedKeeps DEF NewSegment
  <1>4. ASSUME NEW s \in Segments, SegmentCall(s) PROVE BufIInv'
    <2>1. s \in Segs /\ seg[s] \in SegRecs /\ seg[s].buf \in Buffers
      BY DEF Segments, BufBase
    <2>2. seg[s].idx \in Int /\ seg[s].len \in Int
      BY <2>1 DEF SegRecs
    <2>3. CASE NextWindow(s)
      <3> DEFINE n == NextLen(s)
                 at == seg[s].idx + seg[s].len
      <3>0. walk[s] \in WalkRecs
        <4>1. walk[s] \in WalkRecs \cup {NoObject}
          BY <2>1 DEF BufBase
        <4>2. walk[s] # NoObject
          BY DEF BufBase
        <4> QED BY <4>1, <4>2
      <3>1. walk[s].passed = seg[s].idx + seg[s].len - walk[s].from
        BY Zenon DEF NextMissesNothing
      <3>2. n \in Int /\ at \in Int /\ walk[s].from \in Int /\ walk[s].passed \in Int
        <4>1. walk[s].from \in Int /\ walk[s].passed \in Int
          BY <3>0 DEF WalkRecs
        <4>2. n \in Int /\ at \in Int
          BY <2>1, <2>2 DEF NextLen, Buffers, BufBase
        <4> QED BY <4>1, <4>2
      <3>3. walk' = [walk EXCEPT ![s] = [from |-> walk[s].from, passed |-> walk[s].passed + n]]
        <4>1. walk' = [walk EXCEPT ![s] = [walk[s] EXCEPT !.passed = @ + n]]
          BY <2>3, Zenon DEF NextWindow
        <4> HIDE DEF n
        <4>2. [walk[s] EXCEPT !.passed = @ + n] = [from |-> walk[s].from, passed |-> walk[s].passed + n]
          BY <3>0 DEF WalkRecs
        <4> QED BY <4>1, <4>2
      <3>4. walk[s].passed + n = at + n - walk[s].from
        <4> HIDE DEF n
        <4> QED BY <2>2, <3>1, <3>2
      <3>5. Set(s, seg[s].buf, at, n) /\ UNCHANGED bytes
        BY <2>3 DEF NextWindow
      <3> HIDE DEF n, at
      <3>6. walk' = [walk EXCEPT ![s] = [from |-> walk[s].from, passed |-> at + n - walk[s].from]]
        BY <3>3, <3>4
      <3> QED BY <2>1, <3>2, <3>5, <3>6, SetKeeps
    <2>4. CASE NextFails(s)
      BY <2>4 DEF NextFails, BufBase, SegmentsInside, NextMissesNothing, Segments, Buffers,
                  AtEnd, NextLen
    <2>5. ASSUME NEW val \in Nums,
                 Shift(s, val) \/ SetStart(s, val) \/ SetSize(s, val) \/ SetLast(s, val)
          PROVE  BufIInv'
      <3>1. val \in Int
        BY BufferAssumption
      <3>2. CASE Shift(s, val)
        BY <2>1, <2>2, <3>1, <3>2, PlacedKeeps DEF Shift
      <3>3. CASE SetStart(s, val)
        BY <2>1, <2>2, <3>1, <3>3, PlacedKeeps DEF SetStart
      <3>4. CASE SetSize(s, val)
        BY <2>1, <2>2, <3>1, <3>4, PlacedKeeps DEF SetSize
      <3>5. CASE SetLast(s, val)
        BY <2>1, <2>2, <3>1, <3>5, PlacedKeeps DEF SetLast
      <3> QED BY <2>5, <3>2, <3>3, <3>4, <3>5
    <2> QED BY <1>4, <2>3, <2>4, <2>5 DEF SegmentCall
  <1>5. CASE UNCHANGED bufVars
    BY <1>5 DEF bufVars, BufBase, SegmentsInside, NextMissesNothing, Segments, Buffers, AtEnd, NextLen
  <1> QED BY <1>1, <1>2, <1>3, <1>4, <1>5 DEF BufNext

LEMMA BufInvariant == BufSpec => []BufIInv
  <1>1. BufInit => BufIInv
    BY DEF BufInit, BufIInv, BufBase, SegmentsInside, NextMissesNothing, Segments, Buffers
  <1> QED BY <1>1, BufStepKeeps, PTL DEF BufSpec
-----------------------------------------------------------------------------
(***************************************************************************)
(* The theorems.                                                           *)
(***************************************************************************)

\* No sequence of calls moves a segment out of its buffer (t_buf_seg_set and its
\* callers), whatever numbers a program gives.
THEOREM SegmentsStayInside == BufSpec => []SegmentsInside
  BY BufInvariant, PTL DEF BufIInv

\* seg:next() passes every byte up to the end of the buffer once, wherever the segment
\* was set and however long it is (lt_buf_seg_next).
THEOREM WalksMissNothing == BufSpec => []NextMissesNothing
  BY BufInvariant, PTL DEF BufIInv

\* A call through an object changes bytes of its window alone, and no length, also
\* when write() is given more bytes to write than the string has; apart from a
\* write() of a negative length that is let through and ends the process
\* (lt_buf_clear, lt_buf_write, lt_buf__newindex, lt_buf_seg__newindex).
THEOREM CallsStayInWindow == BufSpec => OnlyInWindow
  <1> DEFINE InWindow ==
        \A b \in Buffers :
          /\ Len(bytes'[b]) = Len(bytes[b])
          /\ \A i \in 1..Len(bytes[b]) :
                bytes'[b][i] # bytes[b][i] =>
                    /\ Window(call'.obj).buf = b
                    /\ i - Window(call'.obj).idx \in 0..(Window(call'.obj).len - 1)
  <1>1. ASSUME BufIInv, [BufNext]_bufVars, Alive' PROVE InWindow
    <2> USE <1>1 DEF BufIInv
    <2>1. CASE UNCHANGED bytes
      BY <2>1
    <2>2. ASSUME NEW b \in Bufs, CreateCall(b) PROVE InWindow
      <3>1. PICK content : bytes[b] = NoObject /\ bytes' = [bytes EXCEPT ![b] = content]
        BY <2>2 DEF CreateCall, NewBuffer, NewFrom, Concat, Create
      <3>2. \A c \in Buffers : bytes'[c] = bytes[c]
        BY <3>1 DEF Buffers, BufBase
      <3> QED BY <3>2
    <2>3. ASSUME NEW o \in Objects, NEW k \in Int, NEW src \in Seq(Bytes),
                 bytes' = Copied(o, k, src), call'.obj = o,
                 k >= 1, k + Len(src) - 1 <= Window(o).len \/ (o \in Bufs /\ Len(src) = 1)
          PROVE  InWindow
      <3>1. \A b \in Buffers :
              /\ Len(bytes'[b]) = Len(bytes[b])
              /\ \A p \in 1..Len(bytes[b]) :
                    bytes'[b][p] # bytes[b][p] =>
                        b = Window(o).buf /\ p - (Window(o).idx + k - 1) + 1 \in 1..Len(src)
        BY <2>3, CopiedKeeps
      <3>2. Window(o).idx \in Int /\ Window(o).len \in Nat
        BY WindowInside
      <3>3. o \in Bufs => Window(o).idx = 1 /\ Window(o).len = Len(bytes[Window(o).buf])
        BY DEF Window
      <3>4. Len(src) \in Nat /\ \A b \in Buffers : Len(bytes[b]) \in Nat
        BY DEF Buffers, BufBase
      <3>5. ASSUME NEW b \in Buffers, NEW p \in 1..Len(bytes[b]), bytes'[b][p] # bytes[b][p]
            PROVE  Window(o).buf = b /\ p - Window(o).idx \in 0..(Window(o).len - 1)
        <4>1. b = Window(o).buf /\ p - (Window(o).idx + k - 1) + 1 \in 1..Len(src)
          BY <3>1, <3>5
        <4>2. CASE k + Len(src) - 1 <= Window(o).len
          <5>1. p \in Int /\ Len(src) \in Nat
            BY <3>4
          <5> QED BY <2>3, <3>2, <4>1, <4>2, <5>1, TextInWindow
        <4>3. CASE o \in Bufs
          BY <3>3, <3>4, <4>1, <4>3
        <4> QED BY <2>3, <4>1, <4>2, <4>3
      <3> QED BY <2>3, <3>1, <3>5
    <2>4. ASSUME NEW o \in Objects, BytesCall(o) PROVE InWindow
      <3>1. CASE Clear(o)
        <4>1. Window(o).len \in Nat
          BY WindowInside
        <4>2. \A i \in 1..Window(o).len : 0 \in Bytes
          BY BufferAssumption
        <4>3. Zeros(Window(o).len) \in Seq(Bytes) /\ Len(Zeros(Window(o).len)) = Window(o).len
          BY <4>1, <4>2 DEF Zeros
        <4> HIDE DEF InWindow
        <4> QED BY <2>3, <3>1, <4>1, <4>3 DEF Clear, Called
      <3>2. ASSUME NEW str \in Strings, NEW idx \in Nums, NEW len \in Nums,
                   NEW behind \in [(Len(str) + 2)..BufferLen(o) -> Bytes],
                   Write(o, str, idx, len, behind)
            PROVE  InWindow
        <4>1. len \in Int /\ idx \in Int
          BY BufferAssumption
        <4>2. len > 0
          BY <1>1, <3>2 DEF Write, Called, Alive
        <4>3. len \in Nat /\ len <= BufferLen(o) /\ idx >= 1 /\ idx + len - 1 <= Window(o).len
          BY <3>2, <4>1, <4>2, WriteInside DEF Write
        <4>4. /\ Memory(str, len, behind) \in Seq(Bytes)
              /\ Len(Memory(str, len, behind)) = len
          BY <4>3, WindowLength, MemoryIsBytes
        <4>5. bytes' = Copied(o, idx, Memory(str, len, behind)) /\ call'.obj = o
          BY <3>2, <4>2 DEF Write, Called
        <4> HIDE DEF InWindow
        <4> QED BY <2>3, <4>1, <4>3, <4>4, <4>5
      <3>3. ASSUME o \in Bufs, NEW idx \in Nums, NEW val \in Bytes, SetByte(o, idx, val)
            PROVE  InWindow
        <4>1. idx + 1 \in Int /\ idx + 1 >= 1 /\ <<val>> \in Seq(Bytes) /\ Len(<<val>>) = 1
          BY <3>3, BufferAssumption DEF SetByte
        <4> HIDE DEF InWindow
        <4> QED BY <2>3, <3>3, <4>1 DEF SetByte, Called
      <3>4. ASSUME o \notin Bufs, NEW idx \in Nums, NEW val \in Bytes, SetSegmentByte(o, idx, val)
            PROVE  InWindow
        <4>1. Window(o) = seg[o] /\ Window(o).len \in Nat
          BY <3>4, WindowInside DEF Window
        <4>2. idx \in Int /\ idx >= 1 /\ <<val>> \in Seq(Bytes) /\ Len(<<val>>) = 1
              /\ idx + 1 - 1 <= Window(o).len
          BY <3>4, <4>1, BufferAssumption DEF SetSegmentByte
        <4> HIDE DEF InWindow
        <4> QED BY <2>3, <3>4, <4>2 DEF SetSegmentByte, Called
      <3> QED BY <2>4, <3>1, <3>2, <3>3, <3>4 DEF BytesCall
    <2>5. ASSUME NEW s \in Segs, NEW b \in Buffers, NEW idx \in Nums, NEW len \in Nums,
                 NewSegment(s, b, idx, len)
          PROVE  InWindow
      BY <2>5, <2>1 DEF NewSegment, Placed
    <2>6. ASSUME NEW s \in Segments, SegmentCall(s) PROVE InWindow
      BY <2>6, <2>1 DEF SegmentCall, NextWindow, NextFails, Shift, SetStart, SetSize, SetLast, Placed
    <2>7. CASE UNCHANGED bufVars
      BY <2>1, <2>7 DEF bufVars
    <2> QED BY <1>1, <2>2, <2>4, <2>5, <2>6, <2>7 DEF BufNext
  <1>2. BufSpec => [][Alive' => InWindow]_bufVars
    <2>1. BufIInv /\ [BufNext]_bufVars => [Alive' => InWindow]_bufVars
      BY <1>1
    <2> HIDE DEF InWindow
    <2> QED BY <2>1, BufInvariant, PTL DEF BufSpec
  <1> QED BY <1>2 DEF OnlyInWindow

\* read() takes the bytes that were asked for, all of them and no others, for every
\* position and length (lt_buf_read).
THEOREM ReadRangeIsAsked ==
    ASSUME NEW n \in Nat, NEW pos \in Int, NEW len \in Int
    PROVE  LET r == ReadRange(n, pos, len)
           IN  Asked(n, pos, len) = r.idx..(r.idx + r.len - 1)
  <1> DEFINE r == ReadRange(n, pos, len)
  <1>1. r.idx \in Int /\ r.len \in Nat
    BY DEF ReadRange
  <1>2. ASSUME NEW p \in Int
        PROVE  p \in Asked(n, pos, len) <=> r.idx <= p /\ p <= r.idx + r.len - 1
    BY DEF ReadRange, Asked
  <1>3. Asked(n, pos, len) \subseteq Int
    BY DEF Asked
  <1> HIDE DEF r
  <1>4. ASSUME NEW p PROVE p \in Asked(n, pos, len) <=> p \in r.idx..(r.idx + r.len - 1)
    <2>1. p \in Asked(n, pos, len) => p \in Int
      BY <1>3
    <2>2. p \in r.idx..(r.idx + r.len - 1) => p \in Int
      BY <1>1
    <2>3. p \in Int => (p \in r.idx..(r.idx + r.len - 1) <=> r.idx <= p /\ p <= r.idx + r.len - 1)
      BY <1>1
    <2> QED BY <1>2, <2>1, <2>2, <2>3
  <1>5. Asked(n, pos, len) = r.idx..(r.idx + r.len - 1)
    BY <1>4
  <1> QED BY <1>5 DEF r

\* A set of numbers has a smallest element.
LEMMA LeastNumber ==
    ASSUME NEW S \in SUBSET Nat, S # {}
    PROVE  \E x \in S : \A y \in S : x <= y
  <1> DEFINE Less == {ss \in Nat \X Nat : ss[1] < ss[2]}
  <1>1. IsWellFoundedOn(Less, Nat)
    BY NatLessThanWellFounded DEF OpToRel
  <1>2. PICK x \in S : \A y \in S : ~(<<y, x>> \in Less)
    <2> HIDE DEF Less
    <2> QED BY <1>1, WFMin
  <1>3. ASSUME NEW y \in S PROVE x <= y
    <2>1. x \in Nat /\ y \in Nat /\ ~(<<y, x>> \in Less)
      BY <1>2
    <2> QED BY <2>1
  <1> QED BY <1>3

\* Every byte of an object is a byte.
LEMMA BytesOfObject ==
    ASSUME BufIInv, NEW o \in Objects, NEW i \in 1..Window(o).len
    PROVE  ByteAt(o, i) \in 0..255
  <1>1. Window(o).buf \in Buffers /\ Window(o).idx + i - 1 \in 1..Len(bytes[Window(o).buf])
    BY WindowInside DEF BufIInv
  <1>2. bytes[Window(o).buf] \in Seq(Bytes)
    BY <1>1 DEF BufIInv, BufBase, Buffers
  <1>3. bytes[Window(o).buf][Window(o).idx + i - 1] \in Bytes
    BY <1>1, <1>2
  <1> QED BY <1>3, BufferAssumption DEF ByteAt

\* The digits of a char that may be negative are those of the byte.
LEMMA DigitsOfByte ==
    ASSUME NEW b \in 0..255
    PROVE  LET c == SignedChar(b)
           IN  /\ 16 * ((c \div 16) % 16) + (c % 16) = b
               /\ \A x \in 1..8 : (c \div Weight[x]) % 2 = (b \div Weight[x]) % 2
               /\ c = b \/ (b >= 128 /\ c = b - 256)
  <1> DEFINE c == SignedChar(b)
  <1>1. b \in Int /\ 0 <= b /\ b <= 255 /\ (c = b \/ (b >= 128 /\ c = b - 256))
    BY DEF SignedChar
  <1> HIDE DEF c
  <1>2. 16 * ((c \div 16) % 16) + (c % 16) = b
    BY <1>1
  <1>3. c = b \/ (b >= 128 /\ c = b - 256)
    BY <1>1
  <1>4. /\ (c \div 128) % 2 = (b \div 128) % 2 /\ (c \div 64) % 2 = (b \div 64) % 2
        /\ (c \div 32) % 2 = (b \div 32) % 2 /\ (c \div 16) % 2 = (b \div 16) % 2
    BY <1>1
  <1>5. /\ (c \div 8) % 2 = (b \div 8) % 2 /\ (c \div 4) % 2 = (b \div 4) % 2
        /\ (c \div 2) % 2 = (b \div 2) % 2 /\ (c \div 1) % 2 = (b \div 1) % 2
    BY <1>1
  <1>6. ASSUME NEW x \in 1..8 PROVE (c \div Weight[x]) % 2 = (b \div Weight[x]) % 2
    <2>1. \/ Weight[x] = 128 \/ Weight[x] = 64 \/ Weight[x] = 32 \/ Weight[x] = 16
          \/ Weight[x] = 8 \/ Weight[x] = 4 \/ Weight[x] = 2 \/ Weight[x] = 1
      BY DEF Weight
    <2> QED BY <2>1, <1>4, <1>5
  <1> QED BY <1>2, <1>3, <1>6 DEF c

\* One byte, and the bytes from the first to the last.
LEMMA ReadOne ==
    ASSUME NEW o, Window(o).len \in Nat, NEW i \in 1..Window(o).len
    PROVE  Read(o, i, 1)[1] = ByteAt(o, i)
  <1>1. ReadRange(Window(o).len, i, 1) = [idx |-> i, len |-> 1]
    BY DEF ReadRange
  <1>2. Read(o, i, 1) = [j \in 1..1 |-> ByteAt(o, i + j - 1)]
    BY <1>1 DEF Read
  <1> QED BY <1>2

LEMMA ReadAll ==
    ASSUME NEW o, Window(o).len \in Nat
    PROVE  /\ DOMAIN Read(o, 1, Window(o).len) = 1..Window(o).len
           /\ Len(Read(o, 1, Window(o).len)) = Window(o).len
           /\ \A i \in 1..Window(o).len : Read(o, 1, Window(o).len)[i] = ByteAt(o, i)
           /\ Read(o, 1, Window(o).len) = [i \in 1..Window(o).len |-> ByteAt(o, i)]
  <1> DEFINE n == Window(o).len
  <1>1. ReadRange(n, 1, n) = [idx |-> 1, len |-> n]
    BY DEF ReadRange
  <1>2. \A i \in 1..n : 1 + i - 1 = i
    OBVIOUS
  <1>3. Read(o, 1, n) = [i \in 1..n |-> ByteAt(o, i)]
    BY <1>1, <1>2 DEF Read
  <1> QED BY <1>3

\* strncmp stops at a byte that is 0 in both texts: before the first difference.
LEMMA EqualUpToZero ==
    ASSUME NEW o, NEW p, SameText(o, p), Window(o).len \in Nat,
           NEW i \in 1..Window(o).len, ByteAt(o, i) # ByteAt(p, i)
    PROVE  \E k \in 1..(i - 1) : ByteAt(o, k) = 0 /\ ByteAt(p, k) = 0
  <1> DEFINE D == {j \in 1..Window(o).len : ByteAt(o, j) # ByteAt(p, j)}
  <1>1. D \in SUBSET Nat /\ D # {}
    OBVIOUS
  <1>2. PICK j \in D : \A m \in D : j <= m
    BY <1>1, LeastNumber
  <1>3. PICK k \in 1..(j - 1) : ByteAt(o, k) = 0
    BY DEF SameText
  <1>4. k \in 1..Window(o).len /\ k \notin D
    BY <1>2
  <1>5. j <= i /\ i \in Nat /\ j \in Nat
    BY <1>2
  <1>6. k \in 1..(i - 1)
    BY <1>5
  <1> QED BY <1>3, <1>4, <1>6

\* Whatever a program looks at an object with: read(), toHex(), toBin(), the index and "=="
\* (lt_buf_read, t_buf_tohex, lt_buf__index, lt_buf__eq) tell the bytes of its window.
THEOREM ReadsAreAnswered == BufSpec => []ReadsWhatIsAsked
  <1>1. BufIInv => ReadsWhatIsAsked
    <2> SUFFICES ASSUME BufIInv, NEW o \in Objects
                 PROVE  /\ \A pos, len \in Nums :
                              LET r == ReadRange(Window(o).len, pos, len)
                              IN  Asked(Window(o).len, pos, len) = r.idx..(r.idx + r.len - 1)
                        /\ \A i \in 1..Window(o).len :
                              LET hex == HexDigits(o)[i]
                                  bin == BinDigits(o)[i]
                              IN  /\ 16 * hex[1] + hex[2] = ByteAt(o, i)
                                  /\ \A x \in 1..8 : bin[x] = (ByteAt(o, i) \div Weight[x]) % 2
                        /\ \A i \in Nums :
                              LET val == IF o \in Bufs THEN BufferIndex(o, i) ELSE SegmentIndex(o, i)
                              IN  IF i \notin 1..Window(o).len THEN val = NoObject
                                  ELSE LET byte == Read(o, i, 1)[1]
                                       IN  val = byte \/ (byte >= 128 /\ val = byte - 256)
                        /\ \A p \in Objects :
                              LET a == Read(o, 1, Window(o).len)
                                  b == Read(p, 1, Window(p).len)
                              IN  SameText(o, p) <=>
                                    /\ Len(a) = Len(b)
                                    /\ \A i \in 1..Len(a) :
                                          a[i] # b[i] => \E k \in 1..(i - 1) : a[k] = 0 /\ b[k] = 0
      BY DEF ReadsWhatIsAsked
    <2>1. \A p \in Objects : Window(p).len \in Nat
      BY WindowInside DEF BufIInv
    <2>2. \A pos, len \in Nums :
             LET r == ReadRange(Window(o).len, pos, len)
             IN  Asked(Window(o).len, pos, len) = r.idx..(r.idx + r.len - 1)
      BY <2>1, BufferAssumption, ReadRangeIsAsked
    <2>3. ASSUME NEW i \in 1..Window(o).len
          PROVE  LET hex == HexDigits(o)[i]
                     bin == BinDigits(o)[i]
                 IN  /\ 16 * hex[1] + hex[2] = ByteAt(o, i)
                     /\ \A x \in 1..8 : bin[x] = (ByteAt(o, i) \div Weight[x]) % 2
      <3> DEFINE c == SignedChar(ByteAt(o, i))
      <3>1. ByteAt(o, i) \in 0..255
        BY BytesOfObject
      <3>4. /\ 16 * ((c \div 16) % 16) + (c % 16) = ByteAt(o, i)
            /\ \A x \in 1..8 : (c \div Weight[x]) % 2 = (ByteAt(o, i) \div Weight[x]) % 2
        BY <3>1, DigitsOfByte
      <3>2. HexDigits(o)[i] = <<(c \div 16) % 16, c % 16>>
        BY DEF HexDigits
      <3>3. BinDigits(o)[i] = [x \in 1..8 |-> (c \div Weight[x]) % 2]
        BY DEF BinDigits
      <3> HIDE DEF c
      <3> QED BY <3>2, <3>3, <3>4
    <2>4. ASSUME NEW i \in Nums
          PROVE  LET val == IF o \in Bufs THEN BufferIndex(o, i) ELSE SegmentIndex(o, i)
                 IN  IF i \notin 1..Window(o).len THEN val = NoObject
                     ELSE LET byte == Read(o, i, 1)[1]
                          IN  val = byte \/ (byte >= 128 /\ val = byte - 256)
      <3>1. (IF o \in Bufs THEN BufferIndex(o, i) ELSE SegmentIndex(o, i))
              = IF i \in 1..Window(o).len THEN SignedChar(ByteAt(o, i)) ELSE NoObject
        <4>1. CASE o \in Bufs
          <5>1. Window(o) = [buf |-> o, idx |-> 1, len |-> Len(bytes[o])]
            BY <4>1 DEF Window
          <5>2. i \in 1..Len(bytes[o]) => ByteAt(o, i) = bytes[o][i]
            BY <5>1 DEF ByteAt
          <5> QED BY <4>1, <5>1, <5>2 DEF BufferIndex
        <4>2. CASE o \notin Bufs
          BY <4>2 DEF Window, SegmentIndex
        <4> QED BY <4>1, <4>2
      <3>2. ASSUME i \in 1..Window(o).len
            PROVE  LET byte == Read(o, i, 1)[1]
                       val  == SignedChar(ByteAt(o, i))
                   IN  val = byte \/ (byte >= 128 /\ val = byte - 256)
        <4>1. Read(o, i, 1)[1] = ByteAt(o, i)
          BY <3>2, <2>1, ReadOne
        <4>2. ByteAt(o, i) \in 0..255
          BY <3>2, BytesOfObject
        <4> QED BY <4>1, <4>2, DigitsOfByte
      <3> QED BY <3>1, <3>2
    <2>5. ASSUME NEW p \in Objects
          PROVE  LET a == Read(o, 1, Window(o).len)
                     b == Read(p, 1, Window(p).len)
                 IN  SameText(o, p) <=>
                       /\ Len(a) = Len(b)
                       /\ \A i \in 1..Len(a) :
                             a[i] # b[i] => \E k \in 1..(i - 1) : a[k] = 0 /\ b[k] = 0
      <3> DEFINE a == Read(o, 1, Window(o).len)
                 b == Read(p, 1, Window(p).len)
      <3>1. /\ Len(a) = Window(o).len /\ Len(b) = Window(p).len
            /\ \A i \in 1..Window(o).len : a[i] = ByteAt(o, i)
            /\ \A i \in 1..Window(p).len : b[i] = ByteAt(p, i)
            /\ a = [i \in 1..Window(o).len |-> ByteAt(o, i)]
            /\ b = [i \in 1..Window(p).len |-> ByteAt(p, i)]
        BY <2>1, ReadAll
      <3> HIDE DEF a, b
      <3> DEFINE Apart(i) == \E k \in 1..(i - 1) : a[k] = 0 /\ b[k] = 0
      <3>2. ASSUME Len(a) = Len(b), \A i \in 1..Len(a) : a[i] # b[i] => Apart(i)
            PROVE  SameText(o, p)
        <4>1. Window(o).len = Window(p).len /\ Window(o).len \in Nat
          BY <2>1, <3>1, <3>2
        <4>2. ASSUME NEW i \in 1..Window(o).len, ByteAt(o, i) # ByteAt(p, i)
              PROVE  \E k \in 1..(i - 1) : ByteAt(o, k) = 0
          <5>1. PICK k \in 1..(i - 1) : a[k] = 0
            BY <3>1, <3>2, <4>1, <4>2
          <5>2. k \in 1..Window(o).len
            BY <4>1
          <5> QED BY <3>1, <5>1, <5>2
        <4> QED BY <4>1, <4>2 DEF SameText
      <3>3. ASSUME SameText(o, p), NEW i \in 1..Len(a), a[i] # b[i]
            PROVE  Apart(i)
        <4>1. Window(o).len = Window(p).len /\ Window(o).len \in Nat
          BY <2>1, <3>3 DEF SameText
        <4>2. i \in 1..Window(o).len /\ ByteAt(o, i) # ByteAt(p, i)
          BY <3>1, <3>3, <4>1
        <4>3. PICK k \in 1..(i - 1) : ByteAt(o, k) = 0 /\ ByteAt(p, k) = 0
          BY <3>3, <4>1, <4>2, EqualUpToZero
        <4>4. k \in 1..Window(o).len
          BY <4>1, <4>2
        <4> QED BY <3>1, <4>1, <4>3, <4>4
      <3>4. SameText(o, p) => Len(a) = Len(b)
        BY <3>1 DEF SameText
      <3> QED BY <3>2, <3>3, <3>4 DEF a, b
    <2> QED BY <2>2, <2>3, <2>4, <2>5
  <1> QED BY <1>1, BufInvariant, PTL

-----------------------------------------------------------------------------
(***************************************************************************)
(* OrderedHashTable and LuaSet, for any tables, keys, values and elements, *)
(* arguments of any number and loops of any length: the two halves of an   *)
(* ordered table stay in step, so that every way to read it tells the      *)
(* same, a loop over it sees what it should, and it is the ordered map of  *)
(* OrderedMap; the sets are sets.                                          *)
(*                                                                         *)
(* OhtInv is inductive by itself.  Each helper on the pair of arr and hash *)
(* has a lemma that says what it does to the elements (Items); the steps   *)
(* of the refinement are these lemmas.  For the loop one must know as well *)
(* where the keys it saw are now (LoopInv).                                *)
(***************************************************************************)

\* A pair of arr and hash that a table may hold.
Ordered(o) == o \in OhtRecs /\ InStep(o)

-----------------------------------------------------------------------------
(***************************************************************************)
(* The helpers on Lua tables.                                              *)
(***************************************************************************)

LEMMA HashParts ==
    ASSUME NEW h \in Hashes
    PROVE  DOMAIN h \subseteq OhtKeys /\ h \in [DOMAIN h -> OhtVals]
  <1>1. PICK S \in SUBSET OhtKeys : h \in [S -> OhtVals]
    BY DEF Hashes
  <1> QED BY <1>1

LEMMA IsHash ==
    ASSUME NEW S \in SUBSET OhtKeys, NEW h \in [S -> OhtVals]
    PROVE  h \in Hashes
  BY DEF Hashes

LEMMA OhtParts ==
    ASSUME NEW o, Ordered(o)
    PROVE  /\ o.arr \in Seq(OhtKeys) /\ o.hash \in Hashes /\ Len(o.arr) \in Nat
           /\ o = [arr |-> o.arr, hash |-> o.hash]
           /\ DOMAIN o.hash \subseteq OhtKeys
           /\ \A k \in DOMAIN o.hash : o.hash[k] \in OhtVals
           /\ \A i \in 1..Len(o.arr) : o.arr[i] \in DOMAIN o.hash
           /\ o # NoTable
  <1>1. o.arr \in Seq(OhtKeys) /\ o.hash \in Hashes /\ o = [arr |-> o.arr, hash |-> o.hash]
    BY DEF Ordered, OhtRecs
  <1>2. o # NoTable
    BY NoTableAssumption DEF Ordered
  <1>3. DOMAIN o.hash \subseteq OhtKeys /\ \A k \in DOMAIN o.hash : o.hash[k] \in OhtVals
    BY <1>1, HashParts
  <1> QED BY <1>1, <1>2, <1>3 DEF Ordered, InStep

LEMMA WithParts ==
    ASSUME NEW h \in Hashes, NEW k \in OhtKeys, NEW v \in OhtVals
    PROVE  /\ With(h, k, v) \in Hashes
           /\ DOMAIN With(h, k, v) = DOMAIN h \cup {k}
           /\ With(h, k, v)[k] = v
           /\ \A j \in DOMAIN h \ {k} : With(h, k, v)[j] = h[j]
  <1>1. DOMAIN h \subseteq OhtKeys /\ \A j \in DOMAIN h : h[j] \in OhtVals
    BY HashParts
  <1>2. With(h, k, v) \in [DOMAIN h \cup {k} -> OhtVals]
    BY <1>1 DEF With
  <1>3. With(h, k, v) \in Hashes
    BY <1>1, <1>2, IsHash
  <1> QED BY <1>3 DEF With

\* n is h with the value v at the key k.
IsWith(n, h, k, v) ==
    /\ n \in Hashes /\ DOMAIN n = DOMAIN h \cup {k} /\ n[k] = v
    /\ \A j \in DOMAIN h \ {k} : n[j] = h[j]

LEMMA WithGives ==
    ASSUME NEW h \in Hashes, NEW k \in OhtKeys, NEW v \in OhtVals
    PROVE  IsWith(With(h, k, v), h, k, v)
  <1>1. With(h, k, v) \in Hashes /\ With(h, k, v)[k] = v
    BY WithParts
  <1>2. DOMAIN With(h, k, v) = DOMAIN h \cup {k}
    BY WithParts
  <1>3. \A j \in DOMAIN h \ {k} : With(h, k, v)[j] = h[j]
    <2> TAKE j \in DOMAIN h \ {k}
    <2> QED BY DEF With
  <1> HIDE DEF With
  <1> QED BY <1>1, <1>2, <1>3 DEF IsWith

LEMMA WithoutParts ==
    ASSUME NEW h \in Hashes, NEW k
    PROVE  /\ Without(h, k) \in Hashes
           /\ DOMAIN Without(h, k) = DOMAIN h \ {k}
           /\ \A j \in DOMAIN h \ {k} : Without(h, k)[j] = h[j]
  <1>1. DOMAIN h \subseteq OhtKeys /\ \A j \in DOMAIN h : h[j] \in OhtVals
    BY HashParts
  <1>2. Without(h, k) \in [DOMAIN h \ {k} -> OhtVals]
    BY <1>1 DEF Without
  <1>3. Without(h, k) \in Hashes
    BY <1>1, <1>2, IsHash
  <1> QED BY <1>3 DEF Without

\* The elements of an ordered table.
LEMMA ItemsParts ==
    ASSUME NEW o, Ordered(o)
    PROVE  /\ Items(o) \in Seq(Pairs)
           /\ Len(Items(o)) = Len(o.arr)
           /\ \A i \in 1..Len(o.arr) : Items(o)[i] = [key |-> o.arr[i], val |-> o.hash[o.arr[i]]]
           /\ Items(o) # NoTable
  <1>1. \A i \in 1..Len(o.arr) : [key |-> o.arr[i], val |-> o.hash[o.arr[i]]] \in Pairs
    BY OhtParts DEF Pairs
  <1>2. Len(o.arr) \in Nat
    BY OhtParts
  <1>3. Items(o) \in Seq(Pairs) /\ Len(Items(o)) = Len(o.arr)
    BY <1>1, <1>2 DEF Items
  <1> QED BY <1>3, NoTableAssumption DEF Items

LEMMA NoSuchItem ==
    ASSUME NEW o, Ordered(o), NEW k, k \notin DOMAIN o.hash
    PROVE  ~\E i \in 1..Len(Items(o)) : Items(o)[i].key = k
  <1> SUFFICES ASSUME NEW i \in 1..Len(Items(o)) PROVE Items(o)[i].key # k
    OBVIOUS
  <1>1. i \in 1..Len(o.arr) /\ Items(o)[i] = [key |-> o.arr[i], val |-> o.hash[o.arr[i]]]
    BY ItemsParts
  <1>2. o.arr[i] # k
    BY <1>1 DEF Ordered, InStep
  <1>3. Items(o)[i].key = o.arr[i]
    BY <1>1
  <1> QED BY <1>2, <1>3

LEMMA EmptyOrdered == Ordered(EmptyOht) /\ Items(EmptyOht) = <<>>
  <1>1. EmptyTable \in [{} -> OhtVals]
    BY DEF EmptyTable
  <1>2. EmptyTable \in Hashes
    BY <1>1, IsHash
  <1> QED BY <1>2 DEF EmptyOht, EmptyTable, Ordered, OhtRecs, InStep, Items

\* An assignment to a new key appends an element.
LEMMA NewKey ==
    ASSUME NEW o, Ordered(o), NEW k \in OhtKeys, NEW v \in OhtVals, k \notin DOMAIN o.hash
    PROVE  /\ Ordered(SetByKey(o, k, v))
           /\ Items(SetByKey(o, k, v)) = Append(Items(o), [key |-> k, val |-> v])
           /\ SetByKey(o, k, v).arr = Append(o.arr, k)
  <1> DEFINE h == With(o.hash, k, v)
             a == Append(o.arr, k)
             n == SetByKey(o, k, v)
  <1>1. o.arr \in Seq(OhtKeys) /\ o.hash \in Hashes /\ Len(o.arr) \in Nat
    BY OhtParts
  <1>2. n.arr = a /\ n.hash = h /\ n = [arr |-> a, hash |-> h]
    BY DEF SetByKey
  <1>3. /\ h \in Hashes /\ DOMAIN h = DOMAIN o.hash \cup {k} /\ h[k] = v
        /\ \A j \in DOMAIN o.hash : h[j] = o.hash[j]
    <2>1. IsWith(h, o.hash, k, v)
      BY <1>1, WithGives
    <2> HIDE DEF h
    <2> QED BY <2>1, Zenon DEF IsWith
  <1>4. /\ a \in Seq(OhtKeys) /\ Len(a) = Len(o.arr) + 1 /\ a[Len(o.arr) + 1] = k
        /\ \A i \in 1..Len(o.arr) : a[i] = o.arr[i]
    BY <1>1
  <1> HIDE DEF h, a, n
  <1>5. n \in OhtRecs
    BY <1>2, <1>3, <1>4 DEF OhtRecs
  <1>6. InStep(n)
    <2>1. \A i \in 1..Len(o.arr) : o.arr[i] \in DOMAIN o.hash /\ o.arr[i] # k
      BY DEF Ordered, InStep
    <2>2. \A i \in 1..Len(a) : a[i] \in DOMAIN h
      BY <1>1, <1>3, <1>4, <2>1
    <2>3. \A j \in DOMAIN h : \E i \in 1..Len(a) : a[i] = j
      <3> TAKE j \in DOMAIN h
      <3>1. CASE j = k
        BY <1>1, <1>4, <3>1
      <3>2. CASE j # k
        <4>1. PICK i \in 1..Len(o.arr) : o.arr[i] = j
          BY <1>3, <3>2 DEF Ordered, InStep
        <4> QED BY <1>1, <1>4, <4>1
      <3> QED BY <3>1, <3>2
    <2>4. \A i, j \in 1..Len(a) : a[i] = a[j] => i = j
      <3> SUFFICES ASSUME NEW i \in 1..Len(a), NEW j \in 1..Len(a), a[i] = a[j] PROVE i = j
        OBVIOUS
      <3>1. \A x, y \in 1..Len(o.arr) : o.arr[x] = o.arr[y] => x = y
        BY DEF Ordered, InStep
      <3>2. i \in 1..Len(o.arr) \/ i = Len(o.arr) + 1
        BY <1>1, <1>4
      <3>3. j \in 1..Len(o.arr) \/ j = Len(o.arr) + 1
        BY <1>1, <1>4
      <3> QED BY <1>4, <2>1, <3>1, <3>2, <3>3
    <2> QED BY <1>2, <2>2, <2>3, <2>4 DEF InStep
  <1>7. Items(n) = Append(Items(o), [key |-> k, val |-> v])
    <2>1. /\ Items(n) \in Seq(Pairs) /\ Len(Items(n)) = Len(o.arr) + 1
          /\ \A i \in 1..(Len(o.arr) + 1) : Items(n)[i] = [key |-> a[i], val |-> h[a[i]]]
      BY <1>2, <1>4, <1>5, <1>6, ItemsParts DEF Ordered
    <2>2. /\ Items(o) \in Seq(Pairs) /\ Len(Items(o)) = Len(o.arr)
          /\ \A i \in 1..Len(o.arr) : Items(o)[i] = [key |-> o.arr[i], val |-> o.hash[o.arr[i]]]
      BY ItemsParts
    <2> DEFINE e == [key |-> k, val |-> v]
    <2>3. \A i \in 1..Len(o.arr) : Items(n)[i] = Items(o)[i]
      <3> TAKE i \in 1..Len(o.arr)
      <3>1. a[i] = o.arr[i] /\ o.arr[i] \in DOMAIN o.hash
        BY <1>4 DEF Ordered, InStep
      <3>2. i \in 1..(Len(o.arr) + 1)
        BY <1>1
      <3>3. h[a[i]] = o.hash[o.arr[i]]
        BY <1>3, <3>1
      <3>4. Items(n)[i] = [key |-> a[i], val |-> h[a[i]]]
        BY <2>1, <3>2
      <3>5. Items(o)[i] = [key |-> o.arr[i], val |-> o.hash[o.arr[i]]]
        BY <2>2
      <3> QED BY <3>1, <3>3, <3>4, <3>5
    <2>4. Items(n)[Len(o.arr) + 1] = e
      BY <1>1, <1>3, <1>4, <2>1
    <2>5. e \in Pairs
      BY DEF Pairs
    <2> HIDE DEF e
    <2>6. Items(n) = Append(Items(o), e)
      BY <1>1, <2>1, <2>2, <2>3, <2>4, <2>5
    <2> QED BY <2>6 DEF e
  <1> QED BY <1>2, <1>5, <1>6, <1>7 DEF Ordered, n, a

\* Where a key is.
LEMMA IndexOfKey ==
    ASSUME NEW o, Ordered(o), NEW k
    PROVE  /\ k \in DOMAIN o.hash <=> GetIndex(o, k) \in 1..Len(o.arr)
           /\ k \in DOMAIN o.hash => o.arr[GetIndex(o, k)] = k
  <1>1. CASE \E i \in 1..Len(o.arr) : o.arr[i] = k
    <2>1. PICK i \in 1..Len(o.arr) : o.arr[i] = k
      BY <1>1
    <2>2. \A j \in 1..(i - 1) : o.arr[j] # k
      <3>1. Len(o.arr) \in Nat
        BY OhtParts
      <3> QED BY <2>1, <3>1 DEF Ordered, InStep
    <2>3. k \in DOMAIN o.hash
      BY <2>1 DEF Ordered, InStep
    <2>4. \E m \in 1..Len(o.arr) : o.arr[m] = k /\ \A j \in 1..(m - 1) : o.arr[j] # k
      BY <2>1, <2>2
    <2>5. GetIndex(o, k) \in 1..Len(o.arr) /\ o.arr[GetIndex(o, k)] = k
      BY <1>1, <2>4 DEF GetIndex
    <2> QED BY <2>3, <2>5
  <1>2. CASE ~\E i \in 1..Len(o.arr) : o.arr[i] = k
    <2>1. k \notin DOMAIN o.hash
      BY <1>2 DEF Ordered, InStep
    <2>2. GetIndex(o, k) = 0 /\ 0 \notin 1..Len(o.arr)
      BY <1>2 DEF GetIndex
    <2> QED BY <2>1, <2>2
  <1> QED BY <1>1, <1>2

\* The elements at the same keys with one value replaced.
LEMMA ValueReplaced ==
    ASSUME NEW o, Ordered(o), NEW i \in 1..Len(o.arr), NEW v \in OhtVals
    PROVE  LET n == [arr |-> o.arr, hash |-> With(o.hash, o.arr[i], v)]
           IN  /\ Ordered(n)
               /\ Items(n) = [j \in 1..Len(Items(o)) |->
                                 IF j = i THEN [key |-> Items(o)[i].key, val |-> v] ELSE Items(o)[j]]
  <1> DEFINE k == o.arr[i]
             h == With(o.hash, k, v)
             n == [arr |-> o.arr, hash |-> h]
  <1>1. /\ o.arr \in Seq(OhtKeys) /\ o.hash \in Hashes /\ Len(o.arr) \in Nat
        /\ k \in DOMAIN o.hash /\ k \in OhtKeys /\ k = o.arr[i]
    BY OhtParts
  <1> HIDE DEF k
  <1>2. /\ h \in Hashes /\ DOMAIN h = DOMAIN o.hash \cup {k} /\ h[k] = v
        /\ \A j \in DOMAIN o.hash \ {k} : h[j] = o.hash[j]
    <2>1. IsWith(h, o.hash, k, v)
      BY <1>1, WithGives
    <2> HIDE DEF h
    <2> QED BY <2>1, Zenon DEF IsWith
  <1> HIDE DEF h
  <1>3. DOMAIN h = DOMAIN o.hash
    BY <1>1, <1>2
  <1>4. Ordered(n)
    <2>1. n \in OhtRecs
      BY <1>1, <1>2 DEF OhtRecs
    <2>2. InStep(n)
      BY <1>3 DEF Ordered, InStep
    <2> QED BY <2>1, <2>2 DEF Ordered
  <1>5. Items(n) = [j \in 1..Len(Items(o)) |->
                       IF j = i THEN [key |-> Items(o)[i].key, val |-> v] ELSE Items(o)[j]]
    <2>1. /\ Len(Items(o)) = Len(o.arr)
          /\ \A j \in 1..Len(o.arr) : Items(o)[j] = [key |-> o.arr[j], val |-> o.hash[o.arr[j]]]
      BY ItemsParts
    <2>2. Items(n) = [j \in 1..Len(o.arr) |-> [key |-> o.arr[j], val |-> h[o.arr[j]]]]
      BY DEF Items
    <2> DEFINE R(j) == IF j = i THEN [key |-> Items(o)[i].key, val |-> v] ELSE Items(o)[j]
    <2>3. ASSUME NEW j \in 1..Len(o.arr)
          PROVE  [key |-> o.arr[j], val |-> h[o.arr[j]]] = R(j)
      <3>1. CASE j = i
        <4> HIDE DEF R
        <4>1. Items(o)[i].key = k /\ o.arr[j] = k
          <5>1. Items(o)[i] = [key |-> o.arr[i], val |-> o.hash[o.arr[i]]]
            BY <2>1
          <5> QED BY <1>1, <3>1, <5>1
        <4> USE DEF R
        <4> QED BY <1>2, <3>1, <4>1
      <3>2. CASE j # i
        <4>1. o.arr[j] \in DOMAIN o.hash \ {k}
          BY <1>1, <3>2 DEF Ordered, InStep
        <4>2. h[o.arr[j]] = o.hash[o.arr[j]]
          BY <1>2, <4>1
        <4> QED BY <2>1, <3>2, <4>2
      <3> QED BY <3>1, <3>2
    <2> HIDE DEF R
    <2>4. Items(n) = [j \in 1..Len(Items(o)) |-> R(j)]
      BY <2>1, <2>2, <2>3
    <2> QED BY <2>4 DEF R
  <1> QED BY <1>4, <1>5 DEF h, k

\* Removing an element closes the gap.
LEMMA ElementRemoved ==
    ASSUME NEW o, Ordered(o), NEW i \in 1..Len(o.arr)
    PROVE  /\ Ordered(Deleted(o, i))
           /\ Items(Deleted(o, i)) =
                 [j \in 1..(Len(Items(o)) - 1) |-> IF j < i THEN Items(o)[j] ELSE Items(o)[j + 1]]
  <1> DEFINE k == o.arr[i]
             h == Without(o.hash, k)
             a == RemovedAt(o.arr, i)
             n == Deleted(o, i)
             At(j) == IF j < i THEN j ELSE j + 1
  <1>1. /\ o.arr \in Seq(OhtKeys) /\ o.hash \in Hashes /\ Len(o.arr) \in Nat
        /\ \A j \in 1..Len(o.arr) : o.arr[j] \in OhtKeys /\ o.arr[j] \in DOMAIN o.hash
    BY OhtParts
  <1>2. n.arr = a /\ n.hash = h /\ n = [arr |-> a, hash |-> h]
    BY DEF Deleted
  <1>3. /\ h \in Hashes /\ DOMAIN h = DOMAIN o.hash \ {k}
        /\ \A j \in DOMAIN o.hash \ {k} : h[j] = o.hash[j]
    BY <1>1, WithoutParts
  <1>4. \A j \in 1..(Len(o.arr) - 1) : At(j) \in 1..Len(o.arr) /\ At(j) # i
    BY <1>1
  <1>5. a = [j \in 1..(Len(o.arr) - 1) |-> o.arr[At(j)]]
    BY DEF RemovedAt
  <1>6. \A x, y \in 1..(Len(o.arr) - 1) : At(x) = At(y) => x = y
    BY <1>1
  <1>7. \A m \in 1..Len(o.arr) : m # i => \E j \in 1..(Len(o.arr) - 1) : At(j) = m
    <2> TAKE m \in 1..Len(o.arr)
    <2> HAVE m # i
    <2>1. CASE m < i
      <3>1. m \in 1..(Len(o.arr) - 1) /\ At(m) = m
        BY <1>1, <2>1
      <3> HIDE DEF At
      <3> QED BY <3>1
    <2>2. CASE m > i
      <3>1. m - 1 \in 1..(Len(o.arr) - 1) /\ At(m - 1) = m
        BY <1>1, <2>2
      <3> HIDE DEF At
      <3> QED BY <3>1
    <2> HIDE DEF At
    <2> QED BY <1>1, <2>1, <2>2
  <1> HIDE DEF h, At, a, n
  <1>8. a \in Seq(OhtKeys) /\ Len(a) = Len(o.arr) - 1
    <2>1. \A j \in 1..(Len(o.arr) - 1) : o.arr[At(j)] \in OhtKeys
      BY <1>1, <1>4
    <2>2. Len(o.arr) - 1 \in Nat
      BY <1>1
    <2> QED BY <1>5, <2>1, <2>2
  <1>9. Ordered(n)
    <2>1. n \in OhtRecs
      BY <1>2, <1>3, <1>8 DEF OhtRecs
    <2>2. \A x, y \in 1..Len(o.arr) : o.arr[x] = o.arr[y] => x = y
      BY DEF Ordered, InStep
    <2>3. \A j \in 1..Len(a) : a[j] \in DOMAIN h
      BY <1>1, <1>3, <1>4, <1>5, <1>8, <2>2
    <2>4. \A c \in DOMAIN h : \E j \in 1..Len(a) : a[j] = c
      <3> TAKE c \in DOMAIN h
      <3>1. PICK m \in 1..Len(o.arr) : o.arr[m] = c
        BY <1>3 DEF Ordered, InStep
      <3>2. m # i
        BY <1>3, <3>1
      <3> QED BY <1>5, <1>7, <1>8, <3>1, <3>2
    <2>5. \A x, y \in 1..Len(a) : a[x] = a[y] => x = y
      <3> SUFFICES ASSUME NEW x \in 1..Len(a), NEW y \in 1..Len(a), a[x] = a[y] PROVE x = y
        OBVIOUS
      <3>1. \A z \in 1..Len(a) : a[z] = o.arr[At(z)] /\ At(z) \in 1..Len(o.arr)
        BY <1>4, <1>5, <1>8
      <3> QED BY <1>6, <1>8, <2>2, <3>1
    <2> QED BY <1>2, <2>1, <2>3, <2>4, <2>5 DEF Ordered, InStep
  <1>10. Items(n) = [j \in 1..(Len(Items(o)) - 1) |-> IF j < i THEN Items(o)[j] ELSE Items(o)[j + 1]]
    <2>1. /\ Len(Items(o)) = Len(o.arr)
          /\ \A j \in 1..Len(o.arr) : Items(o)[j] = [key |-> o.arr[j], val |-> o.hash[o.arr[j]]]
      BY ItemsParts
    <2>2. Items(n) = [j \in 1..(Len(o.arr) - 1) |-> [key |-> a[j], val |-> h[a[j]]]]
      BY <1>2, <1>8 DEF Items
    <2> DEFINE R(j) == IF j < i THEN Items(o)[j] ELSE Items(o)[j + 1]
    <2>3. ASSUME NEW j \in 1..(Len(o.arr) - 1)
          PROVE  [key |-> a[j], val |-> h[a[j]]] = R(j)
      <3>1. At(j) \in 1..Len(o.arr) /\ At(j) # i /\ a[j] = o.arr[At(j)]
        BY <1>4, <1>5
      <3>2. a[j] \in DOMAIN o.hash \ {k}
        BY <1>1, <3>1 DEF Ordered, InStep
      <3>3. h[a[j]] = o.hash[o.arr[At(j)]]
        BY <1>3, <3>1, <3>2
      <3>4. [key |-> a[j], val |-> h[a[j]]] = Items(o)[At(j)]
        BY <2>1, <3>1, <3>3
      <3>5. Items(o)[At(j)] = R(j)
        BY DEF At
      <3> QED BY <3>4, <3>5
    <2> HIDE DEF R
    <2>4. Items(n) = [j \in 1..(Len(Items(o)) - 1) |-> R(j)]
      BY <2>1, <2>2, <2>3
    <2> QED BY <2>4 DEF R
  <1> QED BY <1>9, <1>10 DEF n

\* Inserting one makes room for it.
LEMMA ElementInserted ==
    ASSUME NEW o, Ordered(o), NEW i \in 1..Len(o.arr), NEW k \in OhtKeys, NEW v \in OhtVals,
           k \notin DOMAIN o.hash
    PROVE  /\ Ordered(Inserted(o, i, k, v))
           /\ Items(Inserted(o, i, k, v)) =
                 [j \in 1..(Len(Items(o)) + 1) |->
                     IF j < i THEN Items(o)[j]
                     ELSE IF j = i THEN [key |-> k, val |-> v] ELSE Items(o)[j - 1]]
  <1> DEFINE h == With(o.hash, k, v)
             a == InsertedAt(o.arr, i, k)
             n == Inserted(o, i, k, v)
             From(j) == IF j < i THEN j ELSE j - 1
  <1>1. /\ o.arr \in Seq(OhtKeys) /\ o.hash \in Hashes /\ Len(o.arr) \in Nat
        /\ \A j \in 1..Len(o.arr) : o.arr[j] \in OhtKeys /\ o.arr[j] \in DOMAIN o.hash
    BY OhtParts
  <1>2. n.arr = a /\ n.hash = h /\ n = [arr |-> a, hash |-> h]
    BY DEF Inserted
  <1>3. /\ h \in Hashes /\ DOMAIN h = DOMAIN o.hash \cup {k} /\ h[k] = v
        /\ \A j \in DOMAIN o.hash \ {k} : h[j] = o.hash[j]
    <2>1. IsWith(h, o.hash, k, v)
      BY <1>1, WithGives
    <2> HIDE DEF h
    <2> QED BY <2>1, Zenon DEF IsWith
  <1>4. \A j \in 1..(Len(o.arr) + 1) : j # i => From(j) \in 1..Len(o.arr)
    BY <1>1
  <1>5. a = [j \in 1..(Len(o.arr) + 1) |-> IF j = i THEN k ELSE o.arr[From(j)]]
    BY DEF InsertedAt
  <1>6. \A x, y \in 1..(Len(o.arr) + 1) : x # i /\ y # i /\ From(x) = From(y) => x = y
    BY <1>1
  <1>7. \A m \in 1..Len(o.arr) : \E j \in 1..(Len(o.arr) + 1) : j # i /\ From(j) = m
    <2> TAKE m \in 1..Len(o.arr)
    <2>1. CASE m < i
      BY <1>1, <2>1
    <2>2. CASE m >= i
      <3>1. m + 1 \in 1..(Len(o.arr) + 1) /\ From(m + 1) = m /\ m + 1 # i
        BY <1>1, <2>2
      <3> QED BY <3>1
    <2> QED BY <1>1, <2>1, <2>2
  <1> HIDE DEF h, From, a, n
  <1>8. a \in Seq(OhtKeys) /\ Len(a) = Len(o.arr) + 1
    <2>1. \A j \in 1..(Len(o.arr) + 1) : (IF j = i THEN k ELSE o.arr[From(j)]) \in OhtKeys
      BY <1>1, <1>4
    <2>2. Len(o.arr) + 1 \in Nat
      BY <1>1
    <2> QED BY <1>5, <2>1, <2>2
  <1>9. Ordered(n)
    <2>1. n \in OhtRecs
      BY <1>2, <1>3, <1>8 DEF OhtRecs
    <2>2. \A x, y \in 1..Len(o.arr) : o.arr[x] = o.arr[y] => x = y
      BY DEF Ordered, InStep
    <2>3. \A j \in 1..Len(a) : a[j] \in DOMAIN h
      BY <1>1, <1>3, <1>4, <1>5, <1>8
    <2>4. \A c \in DOMAIN h : \E j \in 1..Len(a) : a[j] = c
      <3> TAKE c \in DOMAIN h
      <3>1. CASE c = k
        BY <1>1, <1>5, <1>8, <3>1
      <3>2. CASE c # k
        <4>1. PICK m \in 1..Len(o.arr) : o.arr[m] = c
          BY <1>3, <3>2 DEF Ordered, InStep
        <4> QED BY <1>5, <1>7, <1>8, <4>1
      <3> QED BY <3>1, <3>2
    <2>5. \A x, y \in 1..Len(a) : a[x] = a[y] => x = y
      <3> SUFFICES ASSUME NEW x \in 1..Len(a), NEW y \in 1..Len(a), a[x] = a[y] PROVE x = y
        OBVIOUS
      <3>1. \A z \in 1..Len(a) : z # i => a[z] = o.arr[From(z)] /\ a[z] # k
        BY <1>1, <1>4, <1>5, <1>8
      <3>2. \A z \in 1..Len(a) : z = i => a[z] = k
        BY <1>5, <1>8
      <3> QED BY <1>4, <1>6, <1>8, <2>2, <3>1, <3>2
    <2> QED BY <1>2, <2>1, <2>3, <2>4, <2>5 DEF Ordered, InStep
  <1>10. Items(n) = [j \in 1..(Len(Items(o)) + 1) |->
                        IF j < i THEN Items(o)[j]
                        ELSE IF j = i THEN [key |-> k, val |-> v] ELSE Items(o)[j - 1]]
    <2>1. /\ Len(Items(o)) = Len(o.arr)
          /\ \A j \in 1..Len(o.arr) : Items(o)[j] = [key |-> o.arr[j], val |-> o.hash[o.arr[j]]]
      BY ItemsParts
    <2>2. Items(n) = [j \in 1..(Len(o.arr) + 1) |-> [key |-> a[j], val |-> h[a[j]]]]
      BY <1>2, <1>8 DEF Items
    <2> DEFINE R(j) == IF j < i THEN Items(o)[j]
                       ELSE IF j = i THEN [key |-> k, val |-> v] ELSE Items(o)[j - 1]
    <2>3. ASSUME NEW j \in 1..(Len(o.arr) + 1)
          PROVE  [key |-> a[j], val |-> h[a[j]]] = R(j)
      <3>1. CASE j = i
        <4>1. a[j] = k
          BY <1>5, <3>1
        <4> QED BY <1>3, <3>1, <4>1
      <3>2. CASE j # i
        <4>1. From(j) \in 1..Len(o.arr) /\ a[j] = o.arr[From(j)]
          BY <1>4, <1>5, <3>2
        <4>2. a[j] \in DOMAIN o.hash \ {k}
          BY <1>1, <4>1
        <4>3. h[a[j]] = o.hash[o.arr[From(j)]]
          BY <1>3, <4>1, <4>2
        <4>4. [key |-> a[j], val |-> h[a[j]]] = Items(o)[From(j)]
          BY <2>1, <4>1, <4>3
        <4>5. Items(o)[From(j)] = R(j)
          BY <3>2 DEF From
        <4> QED BY <4>4, <4>5
      <3> QED BY <3>1, <3>2
    <2> HIDE DEF R
    <2>4. Items(n) = [j \in 1..(Len(Items(o)) + 1) |-> R(j)]
      BY <2>1, <2>2, <2>3
    <2> QED BY <2>4 DEF R
  <1> QED BY <1>9, <1>10 DEF n
-----------------------------------------------------------------------------
(***************************************************************************)
(* The two halves stay in step.                                            *)
(***************************************************************************)

LEMMA TableOrdered ==
    ASSUME OhtInv, NEW t \in Tables
    PROVE  t \in Ohts /\ Ordered(oht[t])
  BY DEF OhtInv, Tables, Ordered

\* A call gives one table a new content.
LEMMA BecomesKeeps ==
    ASSUME OhtInv, NEW t \in Ohts, NEW o, Ordered(o), Becomes(t, o),
           args' \in [Ohts -> Seq(Pairs)], \A u \in Ohts \ {t} : args'[u] = args[u]
    PROVE  OhtInv'
  <1>1. o \in OhtRecs /\ o # NoTable
    BY OhtParts DEF Ordered
  <1>2. oht' \in [Ohts -> {NoTable} \cup OhtRecs]
    BY <1>1 DEF OhtInv, Becomes
  <1>3. oht'[t] = o /\ \A u \in Ohts \ {t} : oht'[u] = oht[u]
    BY DEF OhtInv, Becomes
  <1>4. \A u \in Ohts : oht'[u] = NoTable => args'[u] = <<>>
    BY <1>1, <1>3 DEF OhtInv
  <1>5. \A u \in Tables' : InStep(oht'[u])
    BY <1>3 DEF Tables, OhtInv, Ordered
  <1>6. \A u \in Tables' : InStep(oht[u])'
    BY <1>5 DEF InStep
  <1> QED BY <1>2, <1>4, <1>6 DEF OhtInv

\* What each call makes of a table is in step again.
LEMMA CallsOrdered ==
    ASSUME NEW o, Ordered(o), NEW k \in OhtKeys, NEW v \in OhtVals
    PROVE  /\ Ordered(SetByKey(o, k, v))
           /\ \A i \in 1..Len(o.arr) :
                 /\ Ordered(SetByIndex(o, i, v))
                 /\ Ordered(Deleted(o, i))
                 /\ k \notin DOMAIN o.hash => Ordered(Inserted(o, i, k, v))
  <1>1. Ordered(SetByKey(o, k, v))
    <2>1. CASE k \notin DOMAIN o.hash
      BY <2>1, NewKey
    <2>2. CASE k \in DOMAIN o.hash
      <3>1. PICK i \in 1..Len(o.arr) : o.arr[i] = k
        BY <2>2 DEF Ordered, InStep
      <3>2. SetByKey(o, k, v) = [arr |-> o.arr, hash |-> With(o.hash, o.arr[i], v)]
        BY <2>2, <3>1 DEF SetByKey
      <3>3. Ordered([arr |-> o.arr, hash |-> With(o.hash, o.arr[i], v)])
        BY ValueReplaced
      <3> QED BY <3>2, <3>3
    <2> QED BY <2>1, <2>2
  <1>2. ASSUME NEW i \in 1..Len(o.arr)
        PROVE  /\ Ordered(SetByIndex(o, i, v))
               /\ Ordered(Deleted(o, i))
               /\ k \notin DOMAIN o.hash => Ordered(Inserted(o, i, k, v))
    BY ValueReplaced, ElementRemoved, ElementInserted DEF SetByIndex
  <1> QED BY <1>1, <1>2

LEMMA OhtSameKeeps ==
    ASSUME OhtInv, oht' = oht, args' = args
    PROVE  OhtInv'
  BY DEF OhtInv, Tables, InStep

LEMMA OhtStepKeeps == OhtInv /\ [OhtNext]_ohtVars => OhtInv'
  <1> SUFFICES ASSUME OhtInv, [OhtNext]_ohtVars PROVE OhtInv'
    OBVIOUS
  <1>0. oht \in [Ohts -> {NoTable} \cup OhtRecs] /\ args \in [Ohts -> Seq(Pairs)]
    BY DEF OhtInv
  <1>1. ASSUME NEW t \in Ohts, NEW n \in 0..MaxArgs, NEW pairs \in [1..n -> Pairs], New(t, pairs)
        PROVE  OhtInv'
    <2>1. pairs \in Seq(Pairs)
      BY OhtAssumption
    <2>2. args' \in [Ohts -> Seq(Pairs)] /\ \A u \in Ohts \ {t} : args'[u] = args[u]
      BY <1>0, <1>1, <2>1 DEF New
    <2> QED BY <1>1, <2>2, EmptyOrdered, BecomesKeeps DEF New
  <1>2. ASSUME NEW t \in Tables, ReadArg(t) PROVE OhtInv'
    <2>1. t \in Ohts /\ Ordered(oht[t]) /\ args[t] \in Seq(Pairs) /\ args[t] # <<>>
      BY <1>0, <1>2, TableOrdered DEF ReadArg
    <2>2. Head(args[t]) \in Pairs /\ Tail(args[t]) \in Seq(Pairs)
      BY <2>1
    <2>3. Head(args[t]).key \in OhtKeys /\ Head(args[t]).val \in OhtVals
      BY <2>2 DEF Pairs
    <2>4. args' \in [Ohts -> Seq(Pairs)] /\ \A u \in Ohts \ {t} : args'[u] = args[u]
      BY <1>0, <1>2, <2>1, <2>2 DEF ReadArg
    <2>5. Ordered(SetByKey(oht[t], Head(args[t]).key, Head(args[t]).val))
      BY <2>1, <2>3, CallsOrdered
    <2>6. Becomes(t, SetByKey(oht[t], Head(args[t]).key, Head(args[t]).val))
      BY <1>2 DEF ReadArg
    <2> QED BY <2>1, <2>4, <2>5, <2>6, BecomesKeeps
  <1>3. ASSUME NEW t \in Ohts, NEW u \in Tables, Clone(t, u) PROVE OhtInv'
    BY <1>0, <1>3, TableOrdered, BecomesKeeps DEF Clone
  <1>4. ASSUME NEW t \in Tables, OhtCall(t) PROVE OhtInv'
    <2>1. t \in Ohts /\ Ordered(oht[t])
      BY TableOrdered
    <2>2. ASSUME NEW k \in OhtKeys, NEW v \in OhtVals, SetKey(t, k, v) PROVE OhtInv'
      <3>1. Ordered(SetByKey(oht[t], k, v))
        BY <2>1, CallsOrdered
      <3> QED BY <1>0, <2>1, <2>2, <3>1, BecomesKeeps DEF SetKey
    <2>3. ASSUME NEW i \in 1..OhtLen(t), RemoveIndex(t, i) PROVE OhtInv'
      <3>1. Ordered(Deleted(oht[t], i))
        BY <2>1, ElementRemoved DEF OhtLen
      <3> QED BY <1>0, <2>1, <2>3, <3>1, BecomesKeeps DEF RemoveIndex
    <2>4. ASSUME NEW k \in OhtKeys, RemoveKey(t, k) PROVE OhtInv'
      <3>1. GetIndex(oht[t], k) \in 1..OhtLen(t)
        BY <2>4 DEF RemoveKey, RemoveIndex
      <3> QED BY <2>3, <2>4, <3>1 DEF RemoveKey
    <2>5. ASSUME NEW i \in 1..OhtLen(t), NEW v \in OhtVals, SetIndex(t, i, v) PROVE OhtInv'
      <3>1. Ordered(SetByIndex(oht[t], i, v))
        BY <2>1, ValueReplaced DEF OhtLen, SetByIndex
      <3> QED BY <1>0, <2>1, <2>5, <3>1, BecomesKeeps DEF SetIndex
    <2>6. ASSUME NEW i \in 1..OhtLen(t), NEW v \in OhtVals, NEW k \in OhtKeys, Insert(t, i, k, v)
          PROVE  OhtInv'
      <3>1. Ordered(Inserted(oht[t], i, k, v))
        BY <2>1, <2>6, ElementInserted DEF OhtLen, Insert
      <3> QED BY <1>0, <2>1, <2>6, <3>1, BecomesKeeps DEF Insert
    <2>7. CASE Begin(t) \/ Step(t)
      <3>1. UNCHANGED <<oht, args>>
        BY <2>7 DEF Begin, Step
      <3> QED BY <3>1, OhtSameKeeps
    <2> QED BY <1>4, <2>2, <2>3, <2>4, <2>5, <2>6, <2>7 DEF OhtCall
  <1>5. CASE End
    BY <1>5, OhtSameKeeps DEF End
  <1>6. CASE UNCHANGED ohtVars
    BY <1>6, OhtSameKeeps DEF ohtVars
  <1> QED BY <1>1, <1>2, <1>3, <1>4, <1>5, <1>6 DEF OhtNext

LEMMA OhtInitInv == OhtInit => OhtInv
  BY DEF OhtInit, OhtInv, Tables

LEMMA OhtInvariant == OhtSpec => []OhtInv
  BY OhtInitInv, OhtStepKeeps, PTL DEF OhtSpec
-----------------------------------------------------------------------------
(***************************************************************************)
(* The tables are ordered maps.                                            *)
(***************************************************************************)

\* What OrderedMap calls items.
Mapped == [t \in Ohts |-> IF oht[t] = NoTable THEN NoTable ELSE Items(oht[t])]

LEMMA MappedTable ==
    ASSUME OhtInv, NEW t \in Tables
    PROVE  Mapped[t] = Items(oht[t]) /\ Mapped[t] # NoTable
  BY TableOrdered, ItemsParts DEF Mapped, Tables

LEMMA MappedBecomes ==
    ASSUME OhtInv, NEW t \in Ohts, NEW o, Ordered(o), Becomes(t, o)
    PROVE  Mapped' = [Mapped EXCEPT ![t] = Items(o)]
  <1>1. o # NoTable
    BY OhtParts
  <1>2. oht'[t] = o /\ \A u \in Ohts \ {t} : oht'[u] = oht[u]
    BY DEF OhtInv, Becomes
  <1>3. Mapped' = [u \in Ohts |-> IF u = t THEN Items(o) ELSE Mapped[u]]
    BY <1>1, <1>2 DEF Mapped
  <1> QED BY <1>3 DEF Mapped

\* The two assignments by key.
LEMMA SetByKeyMapped ==
    ASSUME OhtInv, NEW t \in Tables, NEW k \in OhtKeys, NEW v \in OhtVals,
           Becomes(t, SetByKey(oht[t], k, v))
    PROVE  Map!MapNext
  <1>1. t \in Ohts /\ Ordered(oht[t]) /\ Ordered(SetByKey(oht[t], k, v))
    BY TableOrdered, CallsOrdered
  <1>2. Mapped' = [Mapped EXCEPT ![t] = Items(SetByKey(oht[t], k, v))]
    BY <1>1, MappedBecomes
  <1>3. Mapped[t] = Items(oht[t]) /\ Mapped[t] # NoTable
    BY MappedTable
  <1>4. /\ Len(Items(oht[t])) = Len(oht[t].arr)
        /\ \A i \in 1..Len(oht[t].arr) :
              Items(oht[t])[i] = [key |-> oht[t].arr[i], val |-> oht[t].hash[oht[t].arr[i]]]
    BY <1>1, ItemsParts
  <1>5. CASE k \notin DOMAIN oht[t].hash
    <2>1. Mapped' = [Mapped EXCEPT ![t] = Append(Mapped[t], [key |-> k, val |-> v])]
      <3>1. Items(SetByKey(oht[t], k, v)) = Append(Items(oht[t]), [key |-> k, val |-> v])
        BY <1>1, <1>5, NewKey
      <3> QED BY <1>2, <1>3, <3>1
    <2>2. ~\E i \in 1..Len(Mapped[t]) : Mapped[t][i].key = k
      BY <1>1, <1>3, <1>5, NoSuchItem
    <2>3. Map!Append1(t, k, v)
      BY <2>1, <2>2 DEF Map!Append1, Map!Has, Map!Becomes, Mapped
    <2>4. Map!MapCall(t)
      BY <2>3 DEF Map!MapCall
    <2> QED BY <1>1, <1>3, <2>4 DEF Map!MapNext, Mapped
  <1>6. CASE k \in DOMAIN oht[t].hash
    <2>1. PICK i \in 1..Len(oht[t].arr) : oht[t].arr[i] = k
      BY <1>1, <1>6 DEF Ordered, InStep
    <2>2. SetByKey(oht[t], k, v) = [arr |-> oht[t].arr, hash |-> With(oht[t].hash, oht[t].arr[i], v)]
      BY <1>6, <2>1 DEF SetByKey
    <2>3. Items([arr |-> oht[t].arr, hash |-> With(oht[t].hash, oht[t].arr[i], v)]) =
             [j \in 1..Len(Items(oht[t])) |->
                 IF j = i THEN [key |-> Items(oht[t])[i].key, val |-> v] ELSE Items(oht[t])[j]]
      BY <1>1, ValueReplaced
    <2>4. Map!Replace(t, i, v)
      BY <1>2, <1>3, <2>2, <2>3 DEF Map!Replace, Map!Becomes, Mapped
    <2>5. Map!MapCall(t)
      BY <1>3, <1>4, <2>4 DEF Map!MapCall, Mapped
    <2> QED BY <1>1, <1>3, <2>5 DEF Map!MapNext, Mapped
  <1> QED BY <1>5, <1>6

LEMMA OhtRefinesStep == OhtInv /\ [OhtNext]_ohtVars => [Map!MapNext]_Mapped
  <1> SUFFICES ASSUME OhtInv, [OhtNext]_ohtVars PROVE Map!MapNext \/ UNCHANGED Mapped
    OBVIOUS
  <1>1. ASSUME NEW t \in Ohts, NEW n \in 0..MaxArgs, NEW pairs \in [1..n -> Pairs], New(t, pairs)
        PROVE  Map!MapNext
    <2>1. Mapped' = [Mapped EXCEPT ![t] = <<>>] /\ Mapped[t] = NoTable
      BY <1>1, EmptyOrdered, MappedBecomes DEF New, Mapped
    <2>2. Map!Create(t)
      BY <2>1 DEF Map!Create, Map!Becomes, Mapped
    <2> QED BY <2>2 DEF Map!MapNext
  <1>2. ASSUME NEW t \in Tables, ReadArg(t) PROVE Map!MapNext
    <2>1. t \in Ohts /\ args[t] \in Seq(Pairs) /\ args[t] # <<>>
      BY <1>2, TableOrdered DEF ReadArg, OhtInv
    <2>2. Head(args[t]) \in Pairs
      BY <2>1
    <2>3. Head(args[t]).key \in OhtKeys /\ Head(args[t]).val \in OhtVals
      BY <2>2 DEF Pairs
    <2>4. Becomes(t, SetByKey(oht[t], Head(args[t]).key, Head(args[t]).val))
      BY <1>2 DEF ReadArg
    <2> QED BY <2>3, <2>4, SetByKeyMapped
  <1>3. ASSUME NEW t \in Ohts, NEW u \in Tables, Clone(t, u) PROVE Map!MapNext
    <2>1. Ordered(oht[u]) /\ Mapped[u] = Items(oht[u]) /\ Mapped[u] # NoTable /\ u \in Ohts
      BY TableOrdered, MappedTable
    <2>2. Mapped' = [Mapped EXCEPT ![t] = Mapped[u]] /\ Mapped[t] = NoTable
      BY <1>3, <2>1, MappedBecomes DEF Clone, Mapped
    <2>3. Map!Copy(t, u)
      BY <2>1, <2>2 DEF Map!Copy, Map!Becomes, Mapped
    <2> QED BY <2>1, <2>3 DEF Map!MapNext
  <1>4. ASSUME NEW t \in Tables, OhtCall(t) PROVE Map!MapNext \/ UNCHANGED Mapped
    <2>1. t \in Ohts /\ Ordered(oht[t]) /\ Mapped[t] = Items(oht[t]) /\ Mapped[t] # NoTable
      BY TableOrdered, MappedTable
    <2>2. Len(Mapped[t]) = OhtLen(t)
      BY <2>1, ItemsParts DEF OhtLen
    <2>3. Map!MapCall(t) => Map!MapNext
      BY <2>1 DEF Map!MapNext, Mapped
    <2>4. ASSUME NEW k \in OhtKeys, NEW v \in OhtVals, SetKey(t, k, v) PROVE Map!MapNext
      BY <2>4, SetByKeyMapped DEF SetKey
    <2>5. ASSUME NEW i \in 1..OhtLen(t), RemoveIndex(t, i) PROVE Map!MapNext
      <3>1. /\ Ordered(Deleted(oht[t], i))
            /\ Items(Deleted(oht[t], i)) =
                  [j \in 1..(Len(Mapped[t]) - 1) |-> IF j < i THEN Mapped[t][j] ELSE Mapped[t][j + 1]]
        BY <2>1, ElementRemoved DEF OhtLen
      <3>2. Mapped' = [Mapped EXCEPT ![t] = Items(Deleted(oht[t], i))]
        BY <2>1, <2>5, <3>1, MappedBecomes DEF RemoveIndex
      <3>3. Map!Remove(t, i)
        BY <3>1, <3>2 DEF Map!Remove, Map!Becomes, Mapped
      <3> QED BY <2>2, <2>3, <3>3 DEF Map!MapCall, Mapped
    <2>6. ASSUME NEW k \in OhtKeys, RemoveKey(t, k) PROVE Map!MapNext
      <3>1. GetIndex(oht[t], k) \in 1..OhtLen(t)
        BY <2>6 DEF RemoveKey, RemoveIndex
      <3> QED BY <2>5, <2>6, <3>1 DEF RemoveKey
    <2>7. ASSUME NEW i \in 1..OhtLen(t), NEW v \in OhtVals, SetIndex(t, i, v) PROVE Map!MapNext
      <3> DEFINE n == [arr |-> oht[t].arr, hash |-> With(oht[t].hash, oht[t].arr[i], v)]
      <3>1. /\ Ordered(n)
            /\ Items(n) = [j \in 1..Len(Mapped[t]) |->
                              IF j = i THEN [key |-> Mapped[t][i].key, val |-> v] ELSE Mapped[t][j]]
        BY <2>1, ValueReplaced DEF OhtLen
      <3>2. Mapped' = [Mapped EXCEPT ![t] = Items(n)]
        BY <2>1, <2>7, <3>1, MappedBecomes DEF SetIndex, SetByIndex
      <3>3. Map!Replace(t, i, v)
        BY <3>1, <3>2 DEF Map!Replace, Map!Becomes, Mapped
      <3> QED BY <2>2, <2>3, <3>3 DEF Map!MapCall, Mapped
    <2>8. ASSUME NEW i \in 1..OhtLen(t), NEW v \in OhtVals, NEW k \in OhtKeys, Insert(t, i, k, v)
          PROVE  Map!MapNext
      <3>1. k \notin DOMAIN oht[t].hash
        BY <2>8 DEF Insert
      <3>2. /\ Ordered(Inserted(oht[t], i, k, v))
            /\ Items(Inserted(oht[t], i, k, v)) =
                  [j \in 1..(Len(Mapped[t]) + 1) |->
                      IF j < i THEN Mapped[t][j]
                      ELSE IF j = i THEN [key |-> k, val |-> v] ELSE Mapped[t][j - 1]]
        BY <2>1, <3>1, ElementInserted DEF OhtLen
      <3>3. Mapped' = [Mapped EXCEPT ![t] = Items(Inserted(oht[t], i, k, v))]
        BY <2>1, <2>8, <3>2, MappedBecomes DEF Insert
      <3>4. ~\E j \in 1..Len(Mapped[t]) : Mapped[t][j].key = k
        BY <2>1, <3>1, NoSuchItem
      <3>5. Map!Insert1(t, i, k, v)
        BY <3>2, <3>3, <3>4 DEF Map!Insert1, Map!Has, Map!Becomes, Mapped
      <3> QED BY <2>2, <2>3, <3>5 DEF Map!MapCall, Mapped
    <2>9. CASE Begin(t) \/ Step(t)
      BY <2>9 DEF Begin, Step, Mapped
    <2> QED BY <1>4, <2>4, <2>5, <2>6, <2>7, <2>8, <2>9 DEF OhtCall
  <1>5. CASE End
    BY <1>5 DEF End, Mapped
  <1>6. CASE UNCHANGED ohtVars
    BY <1>6 DEF ohtVars, Mapped
  <1> QED BY <1>1, <1>2, <1>3, <1>4, <1>5, <1>6 DEF OhtNext

\* The tables are the ordered maps of docs/OrderedHashTable.rst, whatever mix of calls
\* by key and by position is made and however tables are copied.
THEOREM TablesAreOrderedMaps == OhtSpec => ImplementsOrderedMap
  <1>1. OhtInit => Map!MapInit
    BY DEF OhtInit, Map!MapInit
  <1>2. OhtInv /\ [OhtNext]_ohtVars => [Map!MapNext]_Mapped
    BY OhtRefinesStep
  <1> QED BY <1>1, <1>2, OhtInvariant, PTL DEF OhtSpec, ImplementsOrderedMap, Map!MapSpec, Mapped

\* By key, by position, as a list or as a plain table: every way to read a table tells
\* the same.
THEOREM ReadersTellTheSame == OhtSpec => []ReadersAgree
  <1>1. OhtInv => ReadersAgree
    <2> SUFFICES ASSUME OhtInv, NEW t \in Tables
                 PROVE  /\ TableOf(oht[t]) = oht[t].hash
                        /\ \A i \in 1..OhtLen(t) :
                              /\ GetIndex(oht[t], oht[t].arr[i]) = i
                              /\ OhtValues(oht[t])[i] = oht[t].hash[oht[t].arr[i]]
                        /\ \A u \in Tables :
                              EqualTables(oht[t], oht[u]) <=> Items(oht[t]) = Items(oht[u])
      BY DEF ReadersAgree
    <2>1. Ordered(oht[t])
      BY TableOrdered
    <2>2. TableOf(oht[t]) = oht[t].hash
      <3>1. {oht[t].arr[i] : i \in 1..Len(oht[t].arr)} = DOMAIN oht[t].hash
        BY <2>1 DEF Ordered, InStep
      <3>2. oht[t].hash \in [DOMAIN oht[t].hash -> OhtVals]
        BY <2>1, OhtParts, HashParts
      <3> QED BY <3>1, <3>2 DEF TableOf
    <2>3. ASSUME NEW i \in 1..OhtLen(t)
          PROVE  /\ GetIndex(oht[t], oht[t].arr[i]) = i
                 /\ OhtValues(oht[t])[i] = oht[t].hash[oht[t].arr[i]]
      <3>1. oht[t].arr[i] \in DOMAIN oht[t].hash
        BY <2>1 DEF OhtLen, Ordered, InStep
      <3>2. /\ GetIndex(oht[t], oht[t].arr[i]) \in 1..Len(oht[t].arr)
            /\ oht[t].arr[GetIndex(oht[t], oht[t].arr[i])] = oht[t].arr[i]
        BY <2>1, <3>1, IndexOfKey
      <3>3. GetIndex(oht[t], oht[t].arr[i]) = i
        BY <2>1, <3>2 DEF OhtLen, Ordered, InStep
      <3> QED BY <3>3 DEF OhtValues, ElementAt, OhtLen
    <2>4. ASSUME NEW u \in Tables
          PROVE  EqualTables(oht[t], oht[u]) <=> Items(oht[t]) = Items(oht[u])
      <3> DEFINE o == oht[t]
                 p == oht[u]
      <3>1. Ordered(o) /\ Ordered(p)
        BY TableOrdered
      <3>2. /\ Len(Items(o)) = Len(o.arr) /\ Len(Items(p)) = Len(p.arr)
            /\ \A i \in 1..Len(o.arr) : Items(o)[i] = [key |-> o.arr[i], val |-> o.hash[o.arr[i]]]
            /\ \A i \in 1..Len(p.arr) : Items(p)[i] = [key |-> p.arr[i], val |-> p.hash[p.arr[i]]]
        BY <3>1, ItemsParts
      <3>3. EqualTables(o, p) => Items(o) = Items(p)
        BY DEF EqualTables, Items
      <3>4. ASSUME Items(o) = Items(p) PROVE EqualTables(o, p)
        <4> HIDE DEF o, p
        <4>1. Len(o.arr) = Len(p.arr)
          BY <3>2, <3>4
        <4>2. \A i \in 1..Len(o.arr) :
                 o.arr[i] = p.arr[i] /\ o.hash[o.arr[i]] = p.hash[p.arr[i]]
          <5> TAKE i \in 1..Len(o.arr)
          <5>1. [key |-> o.arr[i], val |-> o.hash[o.arr[i]]] = [key |-> p.arr[i], val |-> p.hash[p.arr[i]]]
            BY <3>2, <3>4, <4>1
          <5> QED BY <5>1
        <4>3. o.arr \in Seq(OhtKeys) /\ p.arr \in Seq(OhtKeys)
          BY <3>1, OhtParts
        <4>4. o.arr = p.arr
          BY <4>1, <4>2, <4>3
        <4>5. DOMAIN o.hash = DOMAIN p.hash
          <5>1. \A k \in DOMAIN o.hash : \E i \in 1..Len(o.arr) : o.arr[i] = k
            BY <3>1 DEF Ordered, InStep
          <5>2. \A i \in 1..Len(o.arr) : o.arr[i] \in DOMAIN o.hash
            BY <3>1 DEF Ordered, InStep
          <5>3. \A k \in DOMAIN p.hash : \E i \in 1..Len(o.arr) : o.arr[i] = k
            BY <3>1, <4>4 DEF Ordered, InStep
          <5>4. \A i \in 1..Len(o.arr) : o.arr[i] \in DOMAIN p.hash
            BY <3>1, <4>4 DEF Ordered, InStep
          <5> QED BY <5>1, <5>2, <5>3, <5>4
        <4>6. \A k \in DOMAIN o.hash : o.hash[k] = p.hash[k]
          BY <3>1, <4>2, <4>4 DEF Ordered, InStep
        <4>7. o.hash \in [DOMAIN o.hash -> OhtVals] /\ p.hash \in [DOMAIN p.hash -> OhtVals]
          BY <3>1, OhtParts, HashParts
        <4>8. o.hash = p.hash
          BY <4>5, <4>6, <4>7
        <4> QED BY <4>4, <4>8 DEF EqualTables
      <3> QED BY <3>3, <3>4
    <2> QED BY <2>2, <2>3, <2>4
  <1> QED BY <1>1, OhtInvariant, PTL
-----------------------------------------------------------------------------
(***************************************************************************)
(* Loops.                                                                  *)
(***************************************************************************)

\* Every key the loop saw that was not removed since is at or before its position.
SeenBehind(l, o) ==
    \A j \in 1..Len(l.seen) :
        l.seen[j] \notin l.removed => \E i \in 1..Len(o.arr) : i <= l.idx /\ o.arr[i] = l.seen[j]

SeenOnce(l) ==
    \A i, j \in 1..Len(l.seen) : l.seen[i] = l.seen[j] /\ i # j => l.seen[i] \in l.removed

\* The keys that were not removed were seen in the order of their positions.
SeenInOrder(l, o) ==
    \A i, j \in 1..Len(l.seen) : i < j /\ {l.seen[i], l.seen[j]} \cap l.removed = {} =>
        \E p, q \in 1..Len(o.arr) : p < q /\ o.arr[p] = l.seen[i] /\ o.arr[q] = l.seen[j]

\* Every key before the position that was there from the beginning has been seen.
BehindSeen(l, o) ==
    /\ l.idx <= Len(o.arr)
    /\ \A i \in 1..l.idx : o.arr[i] \in l.there => \E j \in 1..Len(l.seen) : l.seen[j] = o.arr[i]

Follows(l, o) ==
    /\ l.there \ l.removed \subseteq DOMAIN o.hash
    /\ l.removed = {} => BehindSeen(l, o)
    /\ ~l.inserted => SeenBehind(l, o) /\ SeenOnce(l) /\ SeenInOrder(l, o)

LoopInv ==
    /\ loop \in LoopRecs \cup {NoTable}
    /\ loop # NoTable =>
          loop.of \in Tables /\ args[loop.of] = <<>> /\ Follows(loop, oht[loop.of])

LEMMA LoopTypes ==
    ASSUME NEW l \in LoopRecs
    PROVE  /\ \A n \in Nat, s \in Seq(OhtKeys) : [l EXCEPT !.idx = n, !.seen = s] \in LoopRecs
           /\ \A R \in SUBSET OhtKeys, b \in BOOLEAN :
                 [l EXCEPT !.removed = R, !.inserted = b] \in LoopRecs
  <1>1. ASSUME NEW n \in Nat, NEW s \in Seq(OhtKeys)
        PROVE  [l EXCEPT !.idx = n, !.seen = s] \in LoopRecs
    BY DEF LoopRecs
  <1>2. ASSUME NEW R \in SUBSET OhtKeys, NEW b \in BOOLEAN
        PROVE  [l EXCEPT !.removed = R, !.inserted = b] \in LoopRecs
    BY DEF LoopRecs
  <1> QED BY <1>1, <1>2

\* Assignments leave the positions as they are, and a new key comes last.
LEMMA FollowsAssignment ==
    ASSUME NEW l \in LoopRecs, NEW o, Ordered(o), NEW n, Ordered(n), Follows(l, o),
           Len(o.arr) <= Len(n.arr), \A i \in 1..Len(o.arr) : n.arr[i] = o.arr[i],
           DOMAIN o.hash \subseteq DOMAIN n.hash
    PROVE  Follows(l, n)
  <1>1. Len(o.arr) \in Nat /\ Len(n.arr) \in Nat /\ l.idx \in Nat
    BY OhtParts DEF LoopRecs
  <1>2. l.there \ l.removed \subseteq DOMAIN n.hash
    BY DEF Follows
  <1>3. BehindSeen(l, o) => BehindSeen(l, n)
    BY <1>1 DEF BehindSeen
  <1>4. SeenBehind(l, o) => SeenBehind(l, n)
    <2> SUFFICES ASSUME SeenBehind(l, o), NEW j \in 1..Len(l.seen), l.seen[j] \notin l.removed
                 PROVE  \E i \in 1..Len(n.arr) : i <= l.idx /\ n.arr[i] = l.seen[j]
      BY DEF SeenBehind
    <2>1. PICK i \in 1..Len(o.arr) : i <= l.idx /\ o.arr[i] = l.seen[j]
      BY DEF SeenBehind
    <2>2. i \in 1..Len(n.arr) /\ n.arr[i] = l.seen[j]
      BY <1>1, <2>1
    <2> QED BY <2>1, <2>2
  <1>5. ASSUME SeenInOrder(l, o) PROVE SeenInOrder(l, n)
    <2> SUFFICES ASSUME NEW i \in 1..Len(l.seen), NEW j \in 1..Len(l.seen), i < j,
                        {l.seen[i], l.seen[j]} \cap l.removed = {}
                 PROVE  \E p, q \in 1..Len(n.arr) : p < q /\ n.arr[p] = l.seen[i] /\ n.arr[q] = l.seen[j]
      BY DEF SeenInOrder
    <2>1. PICK p \in 1..Len(o.arr), q \in 1..Len(o.arr) :
              p < q /\ o.arr[p] = l.seen[i] /\ o.arr[q] = l.seen[j]
      BY <1>5 DEF SeenInOrder
    <2>2. p \in 1..Len(n.arr) /\ q \in 1..Len(n.arr) /\ n.arr[p] = o.arr[p] /\ n.arr[q] = o.arr[q]
      BY <1>1
    <2> QED BY <2>1, <2>2
  <1> QED BY <1>2, <1>3, <1>4, <1>5 DEF Follows

\* A key that is removed is known to the loop, and the others only come nearer.
LEMMA FollowsRemoval ==
    ASSUME NEW l \in LoopRecs, NEW o, Ordered(o), Follows(l, o), NEW i \in 1..Len(o.arr)
    PROVE  Follows([l EXCEPT !.removed = @ \cup {o.arr[i]}, !.inserted = @ \/ FALSE], Deleted(o, i))
  <1> DEFINE m == [l EXCEPT !.removed = @ \cup {o.arr[i]}, !.inserted = @ \/ FALSE]
             n == Deleted(o, i)
  <1>1. Len(o.arr) \in Nat /\ l.idx \in Nat /\ o.hash \in Hashes
    BY OhtParts DEF LoopRecs
  <1>2. /\ m.removed = l.removed \cup {o.arr[i]} /\ m.inserted = l.inserted
        /\ m.there = l.there /\ m.seen = l.seen /\ m.idx = l.idx
    BY DEF LoopRecs
  <1>3. DOMAIN n.hash = DOMAIN o.hash \ {o.arr[i]}
    BY <1>1, WithoutParts DEF Deleted
  <1>4. n.arr = [j \in 1..(Len(o.arr) - 1) |-> IF j < i THEN o.arr[j] ELSE o.arr[j + 1]]
    BY DEF Deleted, RemovedAt
  <1>5. Len(n.arr) = Len(o.arr) - 1
    <2>1. Len(o.arr) - 1 \in Nat
      BY <1>1
    <2> QED BY <1>4, <2>1
  <1> HIDE DEF m, n
  <1>6. ASSUME SeenBehind(l, o) PROVE SeenBehind(m, n)
    <2> SUFFICES ASSUME NEW j \in 1..Len(l.seen), l.seen[j] \notin m.removed
                 PROVE  \E x \in 1..Len(n.arr) : x <= l.idx /\ n.arr[x] = l.seen[j]
      BY <1>2 DEF SeenBehind
    <2>1. PICK x \in 1..Len(o.arr) : x <= l.idx /\ o.arr[x] = l.seen[j]
      BY <1>2, <1>6 DEF SeenBehind
    <2>2. x # i
      BY <1>2, <2>1
    <2>3. CASE x < i
      <3>1. x \in 1..Len(n.arr) /\ n.arr[x] = o.arr[x]
        BY <1>1, <1>4, <1>5, <2>3
      <3> QED BY <2>1, <3>1
    <2>4. CASE x > i
      <3>1. x - 1 \in 1..(Len(o.arr) - 1) /\ ~(x - 1 < i) /\ x - 1 + 1 = x /\ x - 1 <= l.idx
        BY <1>1, <2>1, <2>4
      <3>2. n.arr[x - 1] = o.arr[x]
        BY <1>4, <3>1
      <3> QED BY <1>5, <2>1, <3>1, <3>2
    <2> QED BY <1>1, <2>2, <2>3, <2>4
  <1>7. SeenOnce(l) => SeenOnce(m)
    BY <1>2 DEF SeenOnce
  <1>10. ASSUME SeenInOrder(l, o) PROVE SeenInOrder(m, n)
    <2> DEFINE to(x) == IF x < i THEN x ELSE x - 1
    <2>1. ASSUME NEW x \in 1..Len(o.arr), x # i
          PROVE  to(x) \in 1..Len(n.arr) /\ n.arr[to(x)] = o.arr[x]
      <3>1. to(x) \in 1..(Len(o.arr) - 1) /\ (IF to(x) < i THEN x = to(x) ELSE x = to(x) + 1)
        BY <1>1, <2>1
      <3>2. n.arr[to(x)] = IF to(x) < i THEN o.arr[to(x)] ELSE o.arr[to(x) + 1]
        BY <1>4, <3>1
      <3> QED BY <1>5, <3>1, <3>2
    <2> SUFFICES ASSUME NEW j \in 1..Len(m.seen), NEW k \in 1..Len(m.seen), j < k,
                        {m.seen[j], m.seen[k]} \cap m.removed = {}
                 PROVE  \E p, q \in 1..Len(n.arr) : p < q /\ n.arr[p] = m.seen[j] /\ n.arr[q] = m.seen[k]
      BY DEF SeenInOrder
    <2>2. \E p, q \in 1..Len(n.arr) : p < q /\ n.arr[p] = l.seen[j] /\ n.arr[q] = l.seen[k]
      <3>1. PICK p \in 1..Len(o.arr), q \in 1..Len(o.arr) :
                p < q /\ o.arr[p] = l.seen[j] /\ o.arr[q] = l.seen[k]
        BY <1>2, <1>10 DEF SeenInOrder
      <3>2. p # i /\ q # i
        BY <1>2, <3>1
      <3>3. to(p) < to(q)
        BY <1>1, <3>1, <3>2
      <3>4. to(p) \in 1..Len(n.arr) /\ n.arr[to(p)] = o.arr[p]
        BY <2>1, <3>2
      <3>5. to(q) \in 1..Len(n.arr) /\ n.arr[to(q)] = o.arr[q]
        BY <2>1, <3>2
      <3> HIDE DEF to
      <3> QED BY <3>1, <3>3, <3>4, <3>5
    <2> QED BY <1>2, <2>2
  <1>8. m.removed # {} /\ m.there \ m.removed \subseteq DOMAIN n.hash
    BY <1>2, <1>3 DEF Follows
  <1>9. Follows(m, n)
    BY <1>2, <1>6, <1>7, <1>8, <1>10 DEF Follows
  <1> QED BY <1>9 DEF m, n

\* A key that is inserted was not there at the beginning, or was removed.
LEMMA FollowsInsertion ==
    ASSUME NEW l \in LoopRecs, NEW o, Ordered(o), Follows(l, o), NEW i \in 1..Len(o.arr),
           NEW k \in OhtKeys, NEW v \in OhtVals, k \notin DOMAIN o.hash
    PROVE  Follows([l EXCEPT !.removed = @ \cup {}, !.inserted = @ \/ TRUE], Inserted(o, i, k, v))
  <1> DEFINE m == [l EXCEPT !.removed = @ \cup {}, !.inserted = @ \/ TRUE]
             n == Inserted(o, i, k, v)
  <1>1. Len(o.arr) \in Nat /\ l.idx \in Nat /\ o.hash \in Hashes
    BY OhtParts DEF LoopRecs
  <1>2. /\ m.removed = l.removed /\ m.inserted
        /\ m.there = l.there /\ m.seen = l.seen /\ m.idx = l.idx
    BY DEF LoopRecs
  <1>3. DOMAIN n.hash = DOMAIN o.hash \cup {k}
    BY <1>1, WithParts DEF Inserted
  <1>4. n.arr = [j \in 1..(Len(o.arr) + 1) |->
                    IF j < i THEN o.arr[j] ELSE IF j = i THEN k ELSE o.arr[j - 1]]
    BY DEF Inserted, InsertedAt
  <1>5. Len(n.arr) = Len(o.arr) + 1
    <2>1. Len(o.arr) + 1 \in Nat
      BY <1>1
    <2> QED BY <1>4, <2>1
  <1> HIDE DEF m, n
  <1>6. ASSUME l.removed = {} PROVE BehindSeen(m, n)
    <2>1. BehindSeen(l, o) /\ l.there \subseteq DOMAIN o.hash
      BY <1>6 DEF Follows
    <2>2. m.idx <= Len(n.arr)
      BY <1>1, <1>2, <1>5, <2>1 DEF BehindSeen
    <2>3. ASSUME NEW x \in 1..l.idx, n.arr[x] \in l.there
          PROVE  \E j \in 1..Len(l.seen) : l.seen[j] = n.arr[x]
      <3>1. x \in 1..Len(o.arr)
        BY <1>1, <2>1 DEF BehindSeen
      <3>2. x \in 1..(Len(o.arr) + 1)
        BY <1>1, <3>1
      <3>3. CASE x < i
        <4>1. n.arr[x] = o.arr[x]
          BY <1>4, <3>2, <3>3
        <4> QED BY <2>1, <2>3, <4>1 DEF BehindSeen
      <3>4. CASE x = i
        <4>1. n.arr[x] = k
          BY <1>4, <3>2, <3>4
        <4> QED BY <2>1, <2>3, <4>1
      <3>5. CASE x > i
        <4>1. n.arr[x] = o.arr[x - 1] /\ x - 1 \in 1..l.idx
          BY <1>1, <1>4, <3>2, <3>5
        <4> QED BY <2>1, <2>3, <4>1 DEF BehindSeen
      <3> QED BY <1>1, <3>3, <3>4, <3>5
    <2> QED BY <1>2, <2>2, <2>3 DEF BehindSeen
  <1>7. m.there \ m.removed \subseteq DOMAIN n.hash
    BY <1>2, <1>3 DEF Follows
  <1>8. Follows(m, n)
    BY <1>2, <1>6, <1>7 DEF Follows
  <1> QED BY <1>8 DEF m, n

\* One more key is seen.
LEMMA FollowsStep ==
    ASSUME NEW l \in LoopRecs, NEW o, Ordered(o), Follows(l, o), l.idx < Len(o.arr)
    PROVE  LET m == [l EXCEPT !.idx = @ + 1, !.seen = Append(@, o.arr[l.idx + 1])]
           IN  m \in LoopRecs /\ Follows(m, o)
  <1> DEFINE k == o.arr[l.idx + 1]
             m == [l EXCEPT !.idx = @ + 1, !.seen = Append(@, k)]
             len == Len(l.seen)
  <1>1. /\ Len(o.arr) \in Nat /\ l.idx \in Nat /\ l.seen \in Seq(OhtKeys) /\ len \in Nat
        /\ l.idx + 1 \in 1..Len(o.arr)
    BY OhtParts DEF LoopRecs
  <1>2. k \in OhtKeys
    BY <1>1, OhtParts
  <1> HIDE DEF k
  <1>3. m \in LoopRecs
    <2>1. Append(l.seen, k) \in Seq(OhtKeys) /\ l.idx + 1 \in Nat
      BY <1>1, <1>2
    <2> QED BY <2>1, LoopTypes
  <1>4. /\ m.removed = l.removed /\ m.inserted = l.inserted /\ m.there = l.there
        /\ m.idx = l.idx + 1 /\ m.seen = Append(l.seen, k)
    BY DEF LoopRecs
  <1>5. /\ Len(m.seen) = len + 1 /\ m.seen[len + 1] = k
        /\ \A j \in 1..len : m.seen[j] = l.seen[j]
    BY <1>1, <1>2, <1>4
  <1>6. k = o.arr[l.idx + 1]
    BY DEF k
  <1> HIDE DEF m, len
  <1>7. ASSUME BehindSeen(l, o) PROVE BehindSeen(m, o)
    <2>1. m.idx <= Len(o.arr)
      BY <1>1, <1>4
    <2>2. ASSUME NEW i \in 1..m.idx, o.arr[i] \in l.there
          PROVE  \E j \in 1..Len(m.seen) : m.seen[j] = o.arr[i]
      <3>1. CASE i \in 1..l.idx
        <4>1. PICK j \in 1..len : l.seen[j] = o.arr[i]
          BY <1>7, <2>2, <3>1 DEF BehindSeen, len
        <4>2. j \in 1..Len(m.seen) /\ m.seen[j] = o.arr[i]
          BY <1>1, <1>5, <4>1
        <4> QED BY <4>2
      <3>2. CASE i = l.idx + 1
        <4>1. len + 1 \in 1..Len(m.seen) /\ m.seen[len + 1] = o.arr[i]
          BY <1>1, <1>5, <1>6, <3>2
        <4> QED BY <4>1
      <3> QED BY <1>1, <1>4, <3>1, <3>2
    <2> QED BY <1>4, <2>1, <2>2 DEF BehindSeen
  <1>8. ASSUME SeenBehind(l, o) PROVE SeenBehind(m, o)
    <2> SUFFICES ASSUME NEW j \in 1..Len(m.seen), m.seen[j] \notin m.removed
                 PROVE  \E i \in 1..Len(o.arr) : i <= m.idx /\ o.arr[i] = m.seen[j]
      BY DEF SeenBehind
    <2>1. CASE j \in 1..len
      <3>1. m.seen[j] = l.seen[j] /\ l.seen[j] \notin l.removed
        BY <1>4, <1>5, <2>1
      <3>2. PICK i \in 1..Len(o.arr) : i <= l.idx /\ o.arr[i] = l.seen[j]
        BY <1>8, <2>1, <3>1 DEF SeenBehind, len
      <3> QED BY <1>1, <1>4, <3>1, <3>2
    <2>2. CASE j = len + 1
      BY <1>1, <1>4, <1>5, <1>6, <2>2
    <2> QED BY <1>1, <1>5, <2>1, <2>2
  <1>9. ASSUME SeenBehind(l, o), SeenOnce(l) PROVE SeenOnce(m)
    <2>1. ASSUME NEW j \in 1..len, l.seen[j] = k PROVE k \in l.removed
      <3> SUFFICES ASSUME k \notin l.removed PROVE FALSE
        OBVIOUS
      <3>1. PICK i \in 1..Len(o.arr) : i <= l.idx /\ o.arr[i] = l.seen[j]
        BY <1>9, <2>1 DEF SeenBehind, len
      <3>2. i = l.idx + 1
        BY <1>1, <1>6, <2>1, <3>1 DEF Ordered, InStep
      <3> QED BY <1>1, <3>1, <3>2
    <2> SUFFICES ASSUME NEW i \in 1..Len(m.seen), NEW j \in 1..Len(m.seen),
                        m.seen[i] = m.seen[j], i # j
                 PROVE  m.seen[i] \in m.removed
      BY DEF SeenOnce
    <2>2. CASE i \in 1..len /\ j \in 1..len
      BY <1>4, <1>5, <1>9, <2>2 DEF SeenOnce, len
    <2>3. CASE i = len + 1 /\ j \in 1..len
      BY <1>4, <1>5, <2>1, <2>3
    <2>4. CASE i \in 1..len /\ j = len + 1
      BY <1>4, <1>5, <2>1, <2>4
    <2> QED BY <1>1, <1>5, <2>2, <2>3, <2>4
  <1>10. ASSUME SeenBehind(l, o), SeenInOrder(l, o) PROVE SeenInOrder(m, o)
    <2> SUFFICES ASSUME NEW i \in 1..Len(m.seen), NEW j \in 1..Len(m.seen), i < j,
                        {m.seen[i], m.seen[j]} \cap m.removed = {}
                 PROVE  \E p, q \in 1..Len(o.arr) :
                            p < q /\ o.arr[p] = m.seen[i] /\ o.arr[q] = m.seen[j]
      BY DEF SeenInOrder
    <2>1. i \in 1..len /\ m.seen[i] = l.seen[i] /\ l.seen[i] \notin l.removed
      BY <1>1, <1>4, <1>5
    <2>2. CASE j \in 1..len
      <3>1. m.seen[j] = l.seen[j] /\ {l.seen[i], l.seen[j]} \cap l.removed = {}
        BY <1>4, <1>5, <2>1, <2>2
      <3> QED BY <1>10, <2>1, <2>2, <3>1 DEF SeenInOrder, len
    <2>3. CASE j = len + 1
      <3>1. PICK p \in 1..Len(o.arr) : p <= l.idx /\ o.arr[p] = l.seen[i]
        BY <1>10, <2>1 DEF SeenBehind, len
      <3>2. p < l.idx + 1 /\ o.arr[l.idx + 1] = m.seen[j]
        BY <1>1, <1>5, <1>6, <2>3, <3>1
      <3> QED BY <1>1, <2>1, <3>1, <3>2
    <2> QED BY <1>1, <1>5, <2>2, <2>3
  <1>11. Follows(m, o)
    BY <1>4, <1>7, <1>8, <1>9, <1>10 DEF Follows
  <1> QED BY <1>3, <1>6, <1>11 DEF m, k

\* What a change of t's keys leaves of the loop.
LEMMA ChangedKeeps ==
    ASSUME OhtInv, LoopInv, NEW t \in Tables, NEW o, Ordered(o), Becomes(t, o), UNCHANGED args,
           NEW R \in SUBSET OhtKeys, NEW ins \in BOOLEAN, Changed(t, R, ins),
           loop # NoTable /\ loop.of = t =>
               Follows([loop EXCEPT !.removed = @ \cup R, !.inserted = @ \/ ins], o)
    PROVE  LoopInv'
  <1> DEFINE m == [loop EXCEPT !.removed = @ \cup R, !.inserted = @ \/ ins]
  <1>1. t \in Ohts /\ o # NoTable
    BY OhtParts DEF Tables
  <1>2. /\ oht'[t] = o /\ \A u \in Ohts \ {t} : oht'[u] = oht[u]
        /\ Tables' = Tables
    BY <1>1 DEF OhtInv, Becomes, Tables
  <1>3. CASE loop # NoTable /\ loop.of = t
    <2>1. loop \in LoopRecs /\ loop' = m
      BY <1>3 DEF LoopInv, Changed
    <2>2. loop.removed \cup R \in SUBSET OhtKeys /\ (loop.inserted \/ ins) \in BOOLEAN
      BY <2>1 DEF LoopRecs
    <2>3. m \in LoopRecs /\ m.of = t
      <3>1. m \in LoopRecs
        BY <2>1, <2>2, LoopTypes
      <3>2. m.of = t
        BY <1>3, <2>1 DEF LoopRecs
      <3> QED BY <3>1, <3>2
    <2>4. args[t] = <<>> /\ Follows(m, o)
      BY <1>3 DEF LoopInv
    <2> HIDE DEF m
    <2>5. loop' \in LoopRecs /\ loop'.of \in Tables' /\ args'[loop'.of] = <<>>
      BY <1>2, <2>1, <2>3, <2>4
    <2>6. Follows(loop', oht'[loop'.of])
      BY <1>2, <2>1, <2>3, <2>4
    <2> QED BY <2>5, <2>6 DEF LoopInv, Follows, BehindSeen, SeenBehind, SeenOnce, SeenInOrder
  <1>4. CASE loop = NoTable
    BY <1>4 DEF LoopInv, Changed
  <1>5. CASE loop # NoTable /\ loop.of # t
    <2>1. loop' = loop /\ loop.of \in Tables
      BY <1>5 DEF LoopInv, Changed
    <2>2. loop.of \in Ohts \ {t} /\ oht'[loop.of] = oht[loop.of]
      BY <1>2, <1>5, <2>1 DEF Tables
    <2> QED BY <1>2, <1>5, <2>1, <2>2 DEF LoopInv, Follows, BehindSeen, SeenBehind, SeenOnce, SeenInOrder
  <1> QED BY <1>3, <1>4, <1>5

\* A table that no loop goes over is made or filled.
LEMMA OthersKeep ==
    ASSUME OhtInv, LoopInv, NEW t \in Ohts, NEW o, Ordered(o), Becomes(t, o), UNCHANGED loop,
           \A u \in Ohts \ {t} : args'[u] = args[u], loop # NoTable => loop.of # t
    PROVE  LoopInv'
  <1>1. o # NoTable
    BY OhtParts
  <1>2. \A u \in Ohts \ {t} : oht'[u] = oht[u] /\ (u \in Tables => u \in Tables')
    BY DEF OhtInv, Becomes, Tables
  <1>3. CASE loop = NoTable
    BY <1>3 DEF LoopInv
  <1>4. CASE loop # NoTable
    <2>1. loop.of \in Ohts \ {t} /\ loop.of \in Tables
      BY <1>4 DEF LoopInv, Tables
    <2>2. oht'[loop.of] = oht[loop.of] /\ args'[loop.of] = args[loop.of] /\ loop.of \in Tables'
      BY <1>2, <2>1
    <2> QED BY <1>4, <2>2 DEF LoopInv, Follows, BehindSeen, SeenBehind, SeenOnce, SeenInOrder
  <1> QED BY <1>3, <1>4

LEMMA LoopStepKeeps == OhtInv /\ LoopInv /\ [OhtNext]_ohtVars => LoopInv'
  <1> SUFFICES ASSUME OhtInv, LoopInv, [OhtNext]_ohtVars PROVE LoopInv'
    OBVIOUS
  <1>1. ASSUME NEW t \in Ohts, NEW n \in 0..MaxArgs, NEW pairs \in [1..n -> Pairs], New(t, pairs)
        PROVE  LoopInv'
    <2>1. loop # NoTable => loop.of # t
      BY <1>1 DEF New, LoopInv, Tables
    <2>2. \A u \in Ohts \ {t} : args'[u] = args[u]
      BY <1>1 DEF New, OhtInv
    <2> QED BY <1>1, <2>1, <2>2, EmptyOrdered, OthersKeep DEF New
  <1>2. ASSUME NEW t \in Tables, ReadArg(t) PROVE LoopInv'
    <2>1. t \in Ohts /\ Ordered(oht[t]) /\ args[t] \in Seq(Pairs) /\ args[t] # <<>>
      BY <1>2, TableOrdered DEF ReadArg, OhtInv
    <2>2. Head(args[t]) \in Pairs
      BY <2>1
    <2>3. Head(args[t]).key \in OhtKeys /\ Head(args[t]).val \in OhtVals
      BY <2>2 DEF Pairs
    <2>4. Ordered(SetByKey(oht[t], Head(args[t]).key, Head(args[t]).val))
      BY <2>1, <2>3, CallsOrdered
    <2>5. loop # NoTable => loop.of # t
      BY <2>1 DEF LoopInv
    <2>6. \A u \in Ohts \ {t} : args'[u] = args[u]
      BY <1>2 DEF ReadArg, OhtInv
    <2>7. Becomes(t, SetByKey(oht[t], Head(args[t]).key, Head(args[t]).val)) /\ UNCHANGED loop
      BY <1>2 DEF ReadArg
    <2> QED BY <2>1, <2>4, <2>5, <2>6, <2>7, OthersKeep
  <1>3. ASSUME NEW t \in Ohts, NEW u \in Tables, Clone(t, u) PROVE LoopInv'
    <2>1. loop # NoTable => loop.of # t
      BY <1>3 DEF Clone, LoopInv, Tables
    <2> QED BY <1>3, <2>1, TableOrdered, OthersKeep DEF Clone
  <1>4. ASSUME NEW t \in Tables, args[t] = <<>>, OhtCall(t) PROVE LoopInv'
    <2> DEFINE o == oht[t]
    <2>1. t \in Ohts /\ Ordered(o) /\ o.hash \in Hashes /\ Len(o.arr) \in Nat /\ OhtLen(t) = Len(o.arr)
      BY TableOrdered, OhtParts DEF OhtLen
    <2>2. loop # NoTable /\ loop.of = t => loop \in LoopRecs /\ Follows(loop, o)
      BY DEF LoopInv
    <2>3. ASSUME NEW n, Ordered(n), Becomes(t, n), Changed(t, {}, FALSE), UNCHANGED args,
                 Len(o.arr) <= Len(n.arr), \A i \in 1..Len(o.arr) : n.arr[i] = o.arr[i],
                 DOMAIN o.hash \subseteq DOMAIN n.hash
          PROVE  LoopInv'
      <3>1. ASSUME loop # NoTable /\ loop.of = t
            PROVE  Follows([loop EXCEPT !.removed = @ \cup {}, !.inserted = @ \/ FALSE], n)
        <4>1. loop \in LoopRecs /\ Follows(loop, n)
          BY <2>1, <2>2, <2>3, <3>1, FollowsAssignment
        <4>2. [loop EXCEPT !.removed = @ \cup {}, !.inserted = @ \/ FALSE] = loop
          BY <4>1 DEF LoopRecs
        <4> QED BY <4>1, <4>2
      <3>2. {} \in SUBSET OhtKeys /\ FALSE \in BOOLEAN
        OBVIOUS
      <3> QED BY <2>1, <2>3, <3>1, <3>2, ChangedKeeps
    <2>4. ASSUME NEW k \in OhtKeys, NEW v \in OhtVals, SetKey(t, k, v) PROVE LoopInv'
      <3> DEFINE n == SetByKey(o, k, v)
      <3>1. Ordered(n) /\ DOMAIN o.hash \subseteq DOMAIN n.hash
        <4>1. n.hash = With(o.hash, k, v)
          BY DEF SetByKey
        <4>2. DOMAIN With(o.hash, k, v) = DOMAIN o.hash \cup {k}
          BY <2>1, WithParts
        <4>3. Ordered(n)
          BY <2>1, CallsOrdered
        <4> QED BY <4>1, <4>2, <4>3
      <3>2. n.arr = IF k \in DOMAIN o.hash THEN o.arr ELSE Append(o.arr, k)
        BY DEF SetByKey
      <3>3. o.arr \in Seq(OhtKeys)
        BY <2>1, OhtParts
      <3>4. Len(o.arr) <= Len(n.arr) /\ \A i \in 1..Len(o.arr) : n.arr[i] = o.arr[i]
        BY <2>1, <3>2, <3>3
      <3> QED BY <2>3, <2>4, <3>1, <3>4 DEF SetKey
    <2>5. ASSUME NEW i \in 1..OhtLen(t), NEW v \in OhtVals, SetIndex(t, i, v) PROVE LoopInv'
      <3> DEFINE n == SetByIndex(o, i, v)
      <3>1. Ordered(n) /\ n.arr = o.arr
        BY <2>1, ValueReplaced DEF SetByIndex
      <3>2. DOMAIN o.hash \subseteq DOMAIN n.hash
        <4>1. n.hash = With(o.hash, o.arr[i], v)
          BY DEF SetByIndex
        <4>2. o.arr[i] \in OhtKeys
          BY <2>1, OhtParts
        <4>3. DOMAIN With(o.hash, o.arr[i], v) = DOMAIN o.hash \cup {o.arr[i]}
          <5> DEFINE k == o.arr[i]
          <5>1. o.hash \in Hashes /\ k \in OhtKeys
            BY <2>1, <4>2
          <5> HIDE DEF k
          <5>2. DOMAIN With(o.hash, k, v) = DOMAIN o.hash \cup {k}
            BY <5>1, WithParts
          <5> QED BY <5>2 DEF k
        <4> QED BY <4>1, <4>3
      <3>3. Len(o.arr) <= Len(n.arr)
        BY <2>1, <3>1
      <3>4. Becomes(t, n) /\ Changed(t, {}, FALSE) /\ UNCHANGED args
        BY <2>5 DEF SetIndex
      <3> HIDE DEF n, o
      <3> QED BY <2>3, <3>1, <3>2, <3>3, <3>4
    <2>6. ASSUME NEW i \in 1..OhtLen(t), RemoveIndex(t, i) PROVE LoopInv'
      <3>1. Ordered(Deleted(o, i)) /\ {o.arr[i]} \in SUBSET OhtKeys
        BY <2>1, OhtParts, ElementRemoved
      <3>2. loop # NoTable /\ loop.of = t =>
              Follows([loop EXCEPT !.removed = @ \cup {o.arr[i]}, !.inserted = @ \/ FALSE], Deleted(o, i))
        BY <2>1, <2>2, FollowsRemoval
      <3>3. Becomes(t, Deleted(o, i)) /\ Changed(t, {o.arr[i]}, FALSE) /\ UNCHANGED args
        BY <2>6 DEF RemoveIndex
      <3>4. FALSE \in BOOLEAN
        OBVIOUS
      <3> HIDE DEF o
      <3> QED BY <3>1, <3>2, <3>3, <3>4, ChangedKeeps
    <2>7. ASSUME NEW k \in OhtKeys, RemoveKey(t, k) PROVE LoopInv'
      <3>1. GetIndex(oht[t], k) \in 1..OhtLen(t)
        BY <2>7 DEF RemoveKey, RemoveIndex
      <3> QED BY <2>6, <2>7, <3>1 DEF RemoveKey
    <2>8. ASSUME NEW i \in 1..OhtLen(t), NEW v \in OhtVals, NEW k \in OhtKeys, Insert(t, i, k, v)
          PROVE  LoopInv'
      <3>1. k \notin DOMAIN o.hash
        BY <2>8 DEF Insert
      <3>2. Ordered(Inserted(o, i, k, v)) /\ {} \in SUBSET OhtKeys /\ TRUE \in BOOLEAN
        BY <2>1, <3>1, ElementInserted
      <3>3. loop # NoTable /\ loop.of = t =>
              Follows([loop EXCEPT !.removed = @ \cup {}, !.inserted = @ \/ TRUE], Inserted(o, i, k, v))
        BY <2>1, <2>2, <3>1, FollowsInsertion
      <3>4. Becomes(t, Inserted(o, i, k, v)) /\ Changed(t, {}, TRUE) /\ UNCHANGED args
        BY <2>8 DEF Insert
      <3> HIDE DEF o
      <3> QED BY <3>2, <3>3, <3>4, ChangedKeeps
    <2>9. CASE Begin(t)
      <3> DEFINE l == [of |-> t, idx |-> 0, seen |-> <<>>, there |-> DOMAIN o.hash,
                       removed |-> {}, inserted |-> FALSE]
      <3>1. loop' = l /\ UNCHANGED <<oht, args>>
        BY <2>9 DEF Begin
      <3>2. DOMAIN o.hash \in SUBSET OhtKeys
        BY <2>1, OhtParts
      <3>3. l \in LoopRecs
        BY <2>1, <3>2 DEF LoopRecs
      <3>4. Follows(l, o)
        BY <2>1 DEF Follows, BehindSeen, SeenBehind, SeenOnce, SeenInOrder
      <3>5. l.of = t
        OBVIOUS
      <3> HIDE DEF l
      <3>6. Follows(loop', oht'[loop'.of]) /\ loop'.of \in Tables' /\ args'[loop'.of] = <<>>
        BY <1>4, <3>1, <3>4, <3>5 DEF Tables
      <3> QED BY <3>1, <3>3, <3>6 DEF LoopInv, Follows, BehindSeen, SeenBehind, SeenOnce, SeenInOrder
    <2>10. CASE Step(t)
      <3> DEFINE l == [loop EXCEPT !.idx = @ + 1, !.seen = Append(@, o.arr[loop.idx + 1])]
      <3>1. loop # NoTable /\ loop.of = t /\ loop.idx < Len(o.arr) /\ loop' = l /\ UNCHANGED <<oht, args>>
        BY <2>1, <2>10 DEF Step
      <3>2. l \in LoopRecs /\ Follows(l, o)
        BY <2>1, <2>2, <3>1, FollowsStep
      <3>3. l.of = t
        BY <2>2, <3>1 DEF LoopRecs
      <3> HIDE DEF l
      <3>4. Follows(loop', oht'[loop'.of]) /\ loop'.of \in Tables' /\ args'[loop'.of] = <<>>
        BY <1>4, <3>1, <3>2, <3>3 DEF Tables
      <3> QED BY <3>1, <3>2, <3>4 DEF LoopInv, Follows, BehindSeen, SeenBehind, SeenOnce, SeenInOrder
    <2> QED BY <1>4, <2>4, <2>5, <2>6, <2>7, <2>8, <2>9, <2>10 DEF OhtCall
  <1>5. CASE End
    BY <1>5 DEF End, LoopInv
  <1>6. CASE UNCHANGED ohtVars
    BY <1>6 DEF ohtVars, LoopInv, Tables, Follows, BehindSeen, SeenBehind, SeenOnce, SeenInOrder
  <1> QED BY <1>1, <1>2, <1>3, <1>4, <1>5, <1>6 DEF OhtNext

\* What a program reads from a table at once is what is in it.  A loop (iters, __pairs)
\* whose body changes the table has seen each element before its position that was there
\* from the beginning, as long as the body removed none; and it has seen the keys that were
\* not removed once and in their order, as long as the body inserted none.
THEOREM ReadersAndLoopsServe == OhtSpec => []OhtServes
  <1>1. OhtInit => LoopInv
    BY DEF OhtInit, LoopInv
  <1>2. OhtSpec => []LoopInv
    BY <1>1, LoopStepKeeps, OhtInvariant, PTL DEF OhtSpec
  <1>3. LoopInv => LoopSeesElements
    BY DEF LoopInv, LoopSeesElements, Follows, BehindSeen, SeenOnce, SeenInOrder
  <1> QED BY <1>2, <1>3, ReadersTellTheSame, PTL DEF OhtServes
-----------------------------------------------------------------------------
(***************************************************************************)
(* Sets.                                                                   *)
(***************************************************************************)

SetIInv ==
    /\ prx = [s \in Sets |-> prx[s]] /\ meant = [s \in Sets |-> meant[s]]
    /\ truthful \in BOOLEAN
    /\ truthful => \A s \in MadeSets :
                      DOMAIN prx[s] = meant[s] /\ \A e \in meant[s] : prx[s][e] = TRUE

\* A set is given a table and the elements that it stands for.
LEMMA MakeSetKeeps ==
    ASSUME SetIInv, NEW s \in Sets, NEW tbl, NEW elems, MakeSet(s, tbl, elems),
           truthful' \in BOOLEAN, truthful' => truthful,
           truthful' => DOMAIN tbl = elems /\ \A e \in elems : tbl[e] = TRUE
    PROVE  SetIInv'
  <1>1. /\ prx' = [prx EXCEPT ![s] = tbl] /\ meant' = [meant EXCEPT ![s] = elems]
    BY DEF MakeSet
  <1>2. prx' = [r \in Sets |-> prx'[r]] /\ meant' = [r \in Sets |-> meant'[r]]
    BY <1>1 DEF SetIInv
  <1>3. /\ prx'[s] = tbl /\ meant'[s] = elems
        /\ \A r \in Sets \ {s} : prx'[r] = prx[r] /\ meant'[r] = meant[r]
    BY <1>1 DEF SetIInv
  <1>4. truthful' => \A r \in MadeSets' :
                        DOMAIN prx'[r] = meant'[r] /\ \A e \in meant'[r] : prx'[r][e] = TRUE
    BY <1>3 DEF SetIInv, MadeSets
  <1> QED BY <1>2, <1>4 DEF SetIInv

LEMMA SetStepKeeps == SetIInv /\ [SetNext]_setVars => SetIInv'
  <1> SUFFICES ASSUME SetIInv, [SetNext]_setVars PROVE SetIInv'
    OBVIOUS
  <1>0. truthful \in BOOLEAN
    BY DEF SetIInv
  <1>1. ASSUME NEW s \in Sets, NEW elems \in SUBSET Elems, NewSet(s, elems) PROVE SetIInv'
    <2>1. DOMAIN [e \in elems |-> TRUE] = elems /\ \A e \in elems : [x \in elems |-> TRUE][e] = TRUE
      OBVIOUS
    <2> QED BY <1>0, <1>1, <2>1, MakeSetKeeps DEF NewSet
  <1>2. ASSUME NEW s \in MadeSets, NEW e \in Elems, Discard(s, e) PROVE SetIInv'
    <2>1. s \in Sets
      BY DEF MadeSets
    <2>2. truthful => /\ DOMAIN Without(prx[s], e) = meant[s] \ {e}
                      /\ \A x \in meant[s] \ {e} : Without(prx[s], e)[x] = TRUE
      BY DEF SetIInv, Without
    <2> QED BY <1>0, <1>2, <2>1, <2>2, MakeSetKeeps DEF Discard
  <1>3. ASSUME NEW s \in MadeSets, NEW e \in Elems, NEW val \in BOOLEAN, Store(s, e, val)
        PROVE  SetIInv'
    <2>1. s \in Sets /\ truthful' = (truthful /\ val) /\ truthful' \in BOOLEAN
      BY <1>0, <1>3 DEF MadeSets, Store
    <2>2. truthful' => /\ DOMAIN With(prx[s], e, val) = meant[s] \cup {e}
                       /\ \A x \in meant[s] \cup {e} : With(prx[s], e, val)[x] = TRUE
      BY <2>1 DEF SetIInv, With
    <2> QED BY <1>3, <2>1, <2>2, MakeSetKeeps DEF Store
  <1>4. ASSUME NEW s \in Sets, NEW a \in MadeSets, NEW b \in MadeSets, Combine(s, a, b)
        PROVE  SetIInv'
    <2>1. truthful => /\ DOMAIN prx[a] = meant[a] /\ \A e \in meant[a] : prx[a][e] = TRUE
                      /\ DOMAIN prx[b] = meant[b] /\ \A e \in meant[b] : prx[b][e] = TRUE
      BY DEF SetIInv
    <2>2. truthful =>
            /\ DOMAIN UnionOf(a, b) = meant[a] \cup meant[b]
            /\ \A e \in meant[a] \cup meant[b] : UnionOf(a, b)[e] = TRUE
      BY <2>1 DEF UnionOf, Merge, Truthy
    <2>3. truthful =>
            /\ DOMAIN SectionOf(a, b) = meant[a] \cap meant[b]
            /\ \A e \in meant[a] \cap meant[b] : SectionOf(a, b)[e] = TRUE
      BY <2>1 DEF SectionOf, Merge, Truthy
    <2>4. truthful =>
            /\ DOMAIN SymmetricOf(a, b) = (meant[a] \ meant[b]) \cup (meant[b] \ meant[a])
            /\ \A e \in (meant[a] \ meant[b]) \cup (meant[b] \ meant[a]) : SymmetricOf(a, b)[e] = TRUE
      BY <2>1 DEF SymmetricOf, Complement
    <2>5. truthful =>
            /\ DOMAIN ComplementOf(a, b) = meant[a] \ meant[b]
            /\ \A e \in meant[a] \ meant[b] : ComplementOf(a, b)[e] = TRUE
      BY <2>1 DEF ComplementOf, Complement
    <2>6. truthful' = truthful
      BY <1>4 DEF Combine
    <2>7. CASE MakeSet(s, UnionOf(a, b), meant[a] \cup meant[b])
      BY <1>0, <2>2, <2>6, <2>7, MakeSetKeeps
    <2>8. CASE MakeSet(s, SectionOf(a, b), meant[a] \cap meant[b])
      BY <1>0, <2>3, <2>6, <2>8, MakeSetKeeps
    <2>9. CASE MakeSet(s, SymmetricOf(a, b), (meant[a] \ meant[b]) \cup (meant[b] \ meant[a]))
      BY <1>0, <2>4, <2>6, <2>9, MakeSetKeeps
    <2>10. CASE MakeSet(s, ComplementOf(a, b), meant[a] \ meant[b])
      BY <1>0, <2>5, <2>6, <2>10, MakeSetKeeps
    <2> QED BY <1>4, <2>7, <2>8, <2>9, <2>10 DEF Combine
  <1>5. CASE UNCHANGED setVars
    BY <1>5 DEF setVars, SetIInv, MadeSets
  <1> QED BY <1>1, <1>2, <1>3, <1>4, <1>5 DEF SetNext

\* As long as no false is stored the tables are sets: the operators and comparisons of
\* Set.lua, half of which look at keys and half at values, agree about their elements.
THEOREM SetsStaySets == SetSpec => []SetsAreSets
  <1>1. SetInit => SetIInv
    BY DEF SetInit, SetIInv, MadeSets
  <1>2. SetIInv => SetsAreSets
    <2> SUFFICES ASSUME SetIInv, truthful PROVE SetsAreSets
      BY DEF SetsAreSets
    <2>1. \A s \in MadeSets : DOMAIN prx[s] = meant[s]
      BY DEF SetIInv
    <2>2. \A s \in MadeSets : Count(prx[s]) = Cardinality(meant[s])
      BY <2>1 DEF Count
    <2>3. ASSUME NEW a \in MadeSets, NEW b \in MadeSets
          PROVE  /\ EqOf(a, b) <=> meant[a] = meant[b]
                 /\ LtOf(a, b) <=> meant[a] \subseteq meant[b] /\ meant[a] # meant[b]
                 /\ LeOf(a, b) <=> meant[a] \subseteq meant[b]
                 /\ Disjoint(a, b) <=> meant[a] \cap meant[b] = {}
      <3>1. DOMAIN prx[a] = meant[a] /\ DOMAIN prx[b] = meant[b]
        BY <2>1
      <3>2. HasKeysOf(prx[a], prx[b], FALSE) <=> meant[b] \subseteq meant[a]
        BY <3>1 DEF HasKeysOf
      <3>3. HasKeysOf(prx[b], prx[a], FALSE) <=> meant[a] \subseteq meant[b]
        BY <3>1 DEF HasKeysOf
      <3>4. HasKeysOf(prx[a], prx[b], TRUE) <=> meant[a] \cap meant[b] = {}
        BY <3>1 DEF HasKeysOf
      <3> QED BY <3>2, <3>3, <3>4 DEF EqOf, LtOf, LeOf, Disjoint
    <2> QED BY <2>1, <2>2, <2>3 DEF SetsAreSets
  <1> QED BY <1>1, <1>2, SetStepKeeps, PTL DEF SetSpec

-----------------------------------------------------------------------------
(***************************************************************************)
(* Suite, for any names and texts of them: the report has one result per   *)
(* text, in the order of the first of each, and it is that of the last;    *)
(* with texts of their own, all results in the order in which they ran.    *)
(***************************************************************************)
Statuses == {"PASS", "SKIP", "FAIL"}
CaseRecs == [phase : {"runs", "ended"}, name : Names, pass : BOOLEAN, status : Statuses, todo : BOOLEAN]
RanRecs  == [name : Names, result : [pass : BOOLEAN, status : Statuses \cup {"TODO"}], shouldPass : BOOLEAN]

TextAt(n) == TextOf[ran[n].name]

\* The parts that speak of the report.
LastIsKept ==
    \A i \in 1..Len(suite.arr) :
        \E n \in 1..Len(ran) :
            /\ suite.arr[i] = TextAt(n) /\ suite.hash[suite.arr[i]] = ran[n].result
            /\ \A m \in (n + 1)..Len(ran) : TextAt(m) # suite.arr[i]
AllAreKept == \A n \in 1..Len(ran) : \E i \in 1..Len(suite.arr) : suite.arr[i] = TextAt(n)
FirstGivesPlace ==
    \A i, j \in 1..Len(suite.arr) : i < j =>
        \E n \in 1..Len(ran) : TextAt(n) = suite.arr[i] /\ \A m \in 1..n : TextAt(m) # suite.arr[j]
\* Cases whose names have texts of their own are in the order in which they ran.
OwnTexts == \A m, n \in 1..Len(ran) : TextAt(m) = TextAt(n) => m = n
OrderIsKept ==
    OwnTexts => /\ Len(suite.arr) = Len(ran)
                /\ \A n \in 1..Len(ran) : suite.arr[n] = TextAt(n)
FailedAreKept ==
    DOMAIN failedTests.hash = {TextAt(n) : n \in {m \in 1..Len(ran) : ~ran[m].shouldPass}}

SuiteBase ==
    /\ plan \in Seq(Names) /\ ran \in Seq(RanRecs) /\ suite.arr \in Seq(TestTexts)
    /\ case \in CaseRecs \cup {NoCase}
    /\ case.phase = "ended" => (case.pass <=> case.status # "FAIL")
    /\ DOMAIN suite.hash = {suite.arr[i] : i \in 1..Len(suite.arr)}

SuiteInv == SuiteBase /\ LastIsKept /\ AllAreKept /\ FirstGivesPlace /\ OrderIsKept /\ FailedAreKept

LEMMA SuiteInvReports == SuiteInv => SuiteReports
  <1> SUFFICES ASSUME SuiteInv PROVE SuiteReports
    OBVIOUS
  <1>1. LastIsKept /\ AllAreKept /\ FirstGivesPlace /\ FailedAreKept
    BY DEF SuiteInv
  <1>2. ASSUME \A m, n \in 1..Len(ran) : TextOf[ran[m].name] = TextOf[ran[n].name] => m = n
        PROVE  /\ Len(suite.arr) = Len(ran)
               /\ \A n \in 1..Len(ran) : /\ suite.arr[n] = TextOf[ran[n].name]
                                         /\ suite.hash[TextOf[ran[n].name]] = ran[n].result
    <2>1. OwnTexts
      BY <1>2 DEF OwnTexts, TextAt
    <2>2. Len(suite.arr) = Len(ran) /\ \A n \in 1..Len(ran) : suite.arr[n] = TextAt(n)
      BY <2>1 DEF SuiteInv, OrderIsKept
    <2>3. ASSUME NEW n \in 1..Len(ran) PROVE suite.hash[TextAt(n)] = ran[n].result
      <3>1. n \in 1..Len(suite.arr) /\ suite.arr[n] = TextAt(n)
        BY <2>2
      <3>2. PICK m \in 1..Len(ran) : suite.arr[n] = TextAt(m) /\ suite.hash[suite.arr[n]] = ran[m].result
        BY <1>1, <3>1 DEF LastIsKept
      <3>3. m = n
        BY <2>1, <3>1, <3>2 DEF OwnTexts
      <3> QED BY <3>1, <3>2, <3>3
    <2> QED BY <2>2, <2>3 DEF TextAt
  <1> QED BY <1>1, <1>2 DEF LastIsKept, AllAreKept, FirstGivesPlace, FailedAreKept, TextAt, SuiteReports

LEMMA SuiteInitInv == SuiteInit => SuiteInv
  <1> SUFFICES ASSUME SuiteInit PROVE SuiteInv
    OBVIOUS
  <1>1. Cardinality(Names) \in Nat
    BY SuiteAssumption, FS_CardinalityType
  <1>2. plan \in Seq(Names)
    BY <1>1 DEF SuiteInit
  <1>3. suite.arr = <<>> /\ DOMAIN suite.hash = {} /\ DOMAIN failedTests.hash = {} /\ ran = <<>>
    BY DEF SuiteInit, EmptyOht, EmptyTable
  <1>4. case = NoCase /\ case.phase = "none"
    BY DEF SuiteInit, NoCase
  <1>5. SuiteBase
    BY <1>2, <1>3, <1>4 DEF SuiteBase
  <1>6. QED
    BY <1>3, <1>5 DEF SuiteInv, LastIsKept, AllAreKept, FirstGivesPlace, OrderIsKept, FailedAreKept

\* Nothing but the plan and the case changes until a case is recorded.
LEMMA SuiteSameReport ==
    ASSUME SuiteInv, SuiteBase', UNCHANGED <<suite, failedTests, ran>>
    PROVE  SuiteInv'
  <1>1. LastIsKept /\ AllAreKept /\ FirstGivesPlace /\ OrderIsKept /\ FailedAreKept
    BY DEF SuiteInv
  <1>2. suite' = suite /\ failedTests' = failedTests /\ ran' = ran /\ \A n : TextAt(n)' = TextAt(n)
    BY DEF TextAt
  <1>3. LastIsKept'
    BY <1>1, <1>2 DEF LastIsKept
  <1>4. AllAreKept'
    BY <1>1, <1>2 DEF AllAreKept
  <1>5. FirstGivesPlace'
    BY <1>1, <1>2 DEF FirstGivesPlace
  <1>6. FailedAreKept'
    BY <1>1, <1>2 DEF FailedAreKept
  <1>7. OrderIsKept'
    BY <1>1, <1>2 DEF OrderIsKept, OwnTexts
  <1> QED BY <1>3, <1>4, <1>5, <1>6, <1>7 DEF SuiteInv

LEMMA CaseIs ==
    ASSUME SuiteInv, case.phase # "none"
    PROVE  case \in CaseRecs
  BY DEF SuiteInv, SuiteBase, NoCase

\* The next case of the plan begins, or the one that runs goes on.
LEMMA CaseStepBase ==
    ASSUME SuiteInv, BeginCase \/ Todo \/ Return \/ Skip \/ Fail
    PROVE  SuiteBase' /\ UNCHANGED <<suite, failedTests, ran>>
  <1>1. UNCHANGED <<suite, failedTests, ran>>
    BY DEF BeginCase, Todo, Return, Skip, Fail, EndWith
  <1>2. plan' \in Seq(Names) /\ case' \in CaseRecs
        /\ (case'.phase = "ended" => (case'.pass <=> case'.status # "FAIL"))
    <2>1. CASE BeginCase
      <3>1. Head(plan) \in Names /\ Tail(plan) \in Seq(Names)
        BY <2>1 DEF BeginCase, SuiteInv, SuiteBase
      <3> QED BY <2>1, <3>1 DEF BeginCase, CaseRecs, Statuses
    <2>2. CASE Todo
      BY <2>2, CaseIs DEF Todo, CaseRecs, SuiteInv, SuiteBase
    <2>3. CASE Return \/ Skip \/ Fail
      BY <2>3, CaseIs DEF Return, Skip, Fail, EndWith, CaseRecs, Statuses, SuiteInv, SuiteBase
    <2> QED BY <2>1, <2>2, <2>3
  <1> QED BY <1>1, <1>2 DEF SuiteInv, SuiteBase

LEMMA RecordKeeps ==
    ASSUME SuiteInv, Record
    PROVE  SuiteInv'
  <1>0. Len(ran) \in Nat
    BY DEF SuiteInv, SuiteBase
  <1> PICK last \in Nat : last = Len(ran) + 1
    BY <1>0
  <1> DEFINE text == TextOf[case.name]
             rec == [name |-> case.name, result |-> Outcome,
                     shouldPass |-> case.todo \/ case.status # "FAIL"]
             N == Len(suite.arr)
  <1>1. /\ case.phase = "ended" /\ case' = NoCase /\ plan' = plan
        /\ suite' = SetByKey(suite, text, Outcome)
        /\ failedTests' = IF Outcome.pass THEN failedTests ELSE SetByKey(failedTests, text, Outcome)
        /\ ran' = Append(ran, rec)
    BY DEF Record
  <1>2. case \in CaseRecs /\ (case.pass <=> case.status # "FAIL")
    BY <1>1, CaseIs DEF SuiteInv, SuiteBase
  <1>3. text \in TestTexts /\ rec \in RanRecs /\ (Outcome.pass <=> rec.shouldPass)
    BY <1>2, SuiteAssumption DEF CaseRecs, RanRecs, Outcome, Statuses
  <1>4. ran \in Seq(RanRecs) /\ Len(ran) \in Nat /\ suite.arr \in Seq(TestTexts) /\ N \in Nat
    BY DEF SuiteInv, SuiteBase
  <1> HIDE DEF rec
  <1>5. /\ ran' \in Seq(RanRecs) /\ Len(ran') = last /\ ran'[last] = rec
        /\ \A n \in 1..Len(ran) : ran'[n] = ran[n]
    BY <1>1, <1>3, <1>4
  <1>6. TextAt(last)' = text /\ \A n \in 1..Len(ran) : TextAt(n)' = TextAt(n)
    BY <1>5 DEF TextAt, rec
  <1>7. /\ suite'.arr = IF text \in DOMAIN suite.hash THEN suite.arr ELSE Append(suite.arr, text)
        /\ DOMAIN suite'.hash = DOMAIN suite.hash \cup {text} /\ suite'.hash[text] = Outcome
        /\ \A k \in DOMAIN suite.hash : k # text => suite'.hash[k] = suite.hash[k]
    BY <1>1 DEF SetByKey, With
  <1>8. DOMAIN suite.hash = {suite.arr[i] : i \in 1..N}
    BY DEF SuiteInv, SuiteBase
  <1> HIDE DEF text
  <1>9. /\ suite'.arr \in Seq(TestTexts) /\ Len(suite'.arr) \in Nat /\ N <= Len(suite'.arr)
        /\ \A i \in 1..N : suite'.arr[i] = suite.arr[i]
        /\ \A i \in 1..Len(suite'.arr) : i \in 1..N \/ (i = N + 1 /\ suite'.arr[i] = text
                                                       /\ text \notin DOMAIN suite.hash)
        /\ text \notin DOMAIN suite.hash => Len(suite'.arr) = N + 1
    BY <1>3, <1>4, <1>7
  <1>10. \E i \in 1..Len(suite'.arr) : suite'.arr[i] = text
    <2>1. CASE text \in DOMAIN suite.hash
      BY <2>1, <1>4, <1>8, <1>9
    <2>2. CASE text \notin DOMAIN suite.hash
      BY <2>2, <1>4, <1>9, <1>7
    <2> QED BY <2>1, <2>2
  <1>11. SuiteBase'
    <2>1. DOMAIN suite'.hash = {suite'.arr[i] : i \in 1..Len(suite'.arr)}
      BY <1>4, <1>7, <1>8, <1>9, <1>10
    <2>2. case'.phase = "none"
      BY <1>1 DEF NoCase
    <2> QED BY <2>1, <2>2, <1>1, <1>5, <1>9 DEF SuiteInv, SuiteBase
  <1>12. LastIsKept'
    <2> SUFFICES ASSUME NEW i \in 1..Len(suite'.arr)
                 PROVE  \E n \in 1..last :
                            /\ suite'.arr[i] = TextAt(n)' /\ suite'.hash[suite'.arr[i]] = ran'[n].result
                            /\ \A m \in (n + 1)..last : TextAt(m)' # suite'.arr[i]
      BY <1>5 DEF LastIsKept
    <2>1. CASE suite'.arr[i] = text
      BY <2>1, <1>4, <1>5, <1>6, <1>7 DEF rec
    <2>2. CASE suite'.arr[i] # text
      <3>1. i \in 1..N /\ suite'.arr[i] = suite.arr[i]
        BY <2>2, <1>9
      <3>2. PICK n \in 1..Len(ran) :
                /\ suite.arr[i] = TextAt(n) /\ suite.hash[suite.arr[i]] = ran[n].result
                /\ \A m \in (n + 1)..Len(ran) : TextAt(m) # suite.arr[i]
        BY <3>1 DEF SuiteInv, LastIsKept
      <3>3. suite'.hash[suite.arr[i]] = suite.hash[suite.arr[i]]
        BY <2>2, <3>1, <1>7, <1>8
      <3>4. \A m \in (n + 1)..last : TextAt(m)' # suite.arr[i]
        <4> SUFFICES ASSUME NEW m \in (n + 1)..last PROVE TextAt(m)' # suite.arr[i]
          OBVIOUS
        <4>1. m = last \/ m \in (n + 1)..Len(ran)
          BY <1>4
        <4>2. (n + 1)..Len(ran) \subseteq 1..Len(ran)
          BY <1>4
        <4> QED BY <4>1, <4>2, <3>1, <3>2, <2>2, <1>6
      <3>5. n \in 1..last
        BY <1>4
      <3> QED BY <3>1, <3>2, <3>3, <3>4, <3>5, <1>5, <1>6
    <2> QED BY <2>1, <2>2
  <1>13. AllAreKept'
    <2> SUFFICES ASSUME NEW n \in 1..last
                 PROVE  \E i \in 1..Len(suite'.arr) : suite'.arr[i] = TextAt(n)'
      BY <1>5 DEF AllAreKept
    <2>1. CASE n = last
      BY <2>1, <1>6, <1>10
    <2>2. CASE n # last
      <3>1. n \in 1..Len(ran)
        BY <2>2, <1>4
      <3>2. PICK i \in 1..N : suite.arr[i] = TextAt(n)
        BY <3>1 DEF SuiteInv, AllAreKept
      <3> QED BY <3>1, <3>2, <1>4, <1>6, <1>9
    <2> QED BY <2>1, <2>2
  <1>14. FirstGivesPlace'
    <2> SUFFICES ASSUME NEW i \in 1..Len(suite'.arr), NEW j \in 1..Len(suite'.arr), i < j
                 PROVE  \E n \in 1..last : /\ TextAt(n)' = suite'.arr[i]
                                           /\ \A m \in 1..n : TextAt(m)' # suite'.arr[j]
      BY <1>5 DEF FirstGivesPlace
    <2>1. i \in 1..N /\ suite'.arr[i] = suite.arr[i]
      BY <1>4, <1>9
    <2>2. \A n \in 1..Len(ran) : n \in 1..last /\ 1..n \subseteq 1..Len(ran)
      BY <1>4
    <2>3. CASE j \in 1..N
      <3>1. PICK n \in 1..Len(ran) : TextAt(n) = suite.arr[i] /\ \A m \in 1..n : TextAt(m) # suite.arr[j]
        BY <2>1, <2>3 DEF SuiteInv, FirstGivesPlace
      <3> QED BY <2>1, <2>2, <2>3, <3>1, <1>6, <1>9
    <2>4. CASE j \notin 1..N
      <3>1. suite'.arr[j] = text /\ text \notin DOMAIN suite.hash
        BY <2>4, <1>9
      <3>2. PICK n \in 1..Len(ran) : suite.arr[i] = TextAt(n)
        BY <2>1 DEF SuiteInv, LastIsKept
      <3>3. \A m \in 1..Len(ran) : TextAt(m) # text
        BY <3>1, <1>8 DEF SuiteInv, AllAreKept
      <3> QED BY <2>1, <2>2, <3>1, <3>2, <3>3, <1>6
    <2> QED BY <2>3, <2>4
  <1>15. FailedAreKept'
    <2> DEFINE F  == {m \in 1..Len(ran) : ~ran[m].shouldPass}
               F2 == {m \in 1..last : ~ran'[m].shouldPass}
    <2>1. F2 = IF rec.shouldPass THEN F ELSE F \cup {last}
      <3>1. \A m \in 1..last : m = last \/ m \in 1..Len(ran)
        BY <1>4
      <3>2. \A m \in 1..Len(ran) : m # last /\ m \in 1..last
        BY <1>4
      <3> QED BY <3>1, <3>2, <1>4, <1>5
    <2>2. DOMAIN failedTests.hash = {TextAt(n) : n \in F}
      BY DEF SuiteInv, FailedAreKept
    <2>3. DOMAIN failedTests'.hash =
            IF rec.shouldPass THEN DOMAIN failedTests.hash ELSE DOMAIN failedTests.hash \cup {text}
      BY <1>1, <1>3 DEF SetByKey, With
    <2>4. \A n \in F : TextAt(n)' = TextAt(n)
      BY <1>6
    <2> HIDE DEF F, F2
    <2>5. {TextAt(n)' : n \in F2} = DOMAIN failedTests'.hash
      BY <2>1, <2>2, <2>3, <2>4, <1>6
    <2> QED BY <2>5, <1>5 DEF FailedAreKept, F2
  <1>16. OrderIsKept'
    <2> SUFFICES ASSUME \A m, n \in 1..last : TextAt(m)' = TextAt(n)' => m = n
                 PROVE  Len(suite'.arr) = last /\ \A n \in 1..last : suite'.arr[n] = TextAt(n)'
      BY <1>5 DEF OrderIsKept, OwnTexts
    <2>1. \A n \in 1..Len(ran) : n \in 1..last /\ n # last
      BY <1>4
    <2>2. last \in 1..last
      BY <1>4
    <2>3. Len(suite.arr) = Len(ran) /\ \A n \in 1..Len(ran) : suite.arr[n] = TextAt(n)
      BY <2>1, <1>6 DEF SuiteInv, OrderIsKept, OwnTexts
    <2>4. text \notin DOMAIN suite.hash
      BY <2>1, <2>2, <2>3, <1>6, <1>8
    <2>5. Len(suite'.arr) = last
      BY <2>3, <2>4, <1>9
    <2>6. suite'.arr[last] = text
      BY <2>3, <2>4, <2>5, <1>9, <1>4
    <2>7. \A n \in 1..last : n = last \/ n \in 1..Len(ran)
      BY <1>4
    <2> QED BY <2>3, <2>5, <2>6, <2>7, <1>6, <1>9
  <1> QED BY <1>11, <1>12, <1>13, <1>14, <1>15, <1>16 DEF SuiteInv

\* Suite.lua and Test.lua, whatever the names, their texts and the order in which they run:
\* when each name has a text of its own, the suite has all results in the order of execution,
\* each under its name, and those that failed are collected; cases whose names have the same
\* text share one result, that of the last, at the place of the first.
THEOREM SuitesReport == SuiteSpec => []SuiteReports
  <1>1. SuiteInv /\ [SuiteNext]_suiteVars => SuiteInv'
    <2> SUFFICES ASSUME SuiteInv, [SuiteNext]_suiteVars PROVE SuiteInv'
      OBVIOUS
    <2>1. CASE Record
      BY <2>1, RecordKeeps
    <2>2. CASE BeginCase \/ Todo \/ Return \/ Skip \/ Fail
      BY <2>2, CaseStepBase, SuiteSameReport
    <2>3. CASE UNCHANGED suiteVars
      <3>1. SuiteBase'
        BY <2>3 DEF suiteVars, SuiteInv, SuiteBase
      <3> QED BY <2>3, <3>1, SuiteSameReport DEF suiteVars
    <2> QED BY <2>1, <2>2, <2>3 DEF SuiteNext
  <1> QED BY <1>1, SuiteInitInv, SuiteInvReports, PTL DEF SuiteSpec
-----------------------------------------------------------------------------
(***************************************************************************)
(* Numarray: for any length and any numbers, however often the array is    *)
(* reversed.  Reversed and Iterated take values of recursive functions;    *)
(* that these are the functions written down below is shown by way of the  *)
(* least argument at which they would differ.  What has to be carried      *)
(* along speaks of one element at a time: a number that does not fit an    *)
(* int spoils its own place alone, until it is overwritten.                *)
(***************************************************************************)

IsArray(a) == \E n \in Nat : a \in [1..n -> {a[i] : i \in 1..n}]

Kept(v, w) == w = AsInt(w) => v = w

NryInv ==
    /\ IsArray(array) /\ IsArray(logical) /\ Len(array) = Len(logical)
    /\ \A i \in 1..Len(logical) : Kept(array[i], logical[i])

LEMMA ArrayLength ==
    ASSUME NEW a, IsArray(a)
    PROVE  Len(a) \in Nat /\ DOMAIN a = 1..Len(a) /\ a = [i \in 1..Len(a) |-> a[i]]
  <1>1. PICK n \in Nat : a \in [1..n -> {a[i] : i \in 1..n}]
    BY DEF IsArray
  <1> DEFINE S == {a[i] : i \in 1..n}
  <1>2. a \in Seq(S)
    <2>1. a \in [1..n -> S]
      BY <1>1
    <2> HIDE DEF S
    <2> QED BY <2>1
  <1>3. DOMAIN a = 1..n /\ Len(a) = n
    <2>1. DOMAIN a = 1..n
      BY <1>1
    <2> HIDE DEF S
    <2> QED BY <1>2, <2>1
  <1> QED BY <1>1, <1>3

LEMMA MadeArray ==
    ASSUME NEW n \in Nat, NEW a, DOMAIN a = 1..n, a = [i \in 1..n |-> a[i]]
    PROVE  IsArray(a) /\ Len(a) = n
  <1>1. a \in [1..n -> {a[i] : i \in 1..n}]
    OBVIOUS
  <1>2. IsArray(a)
    BY <1>1 DEF IsArray
  <1>3. DOMAIN a = 1..Len(a) /\ Len(a) \in Nat
    BY <1>2, ArrayLength
  <1> QED BY <1>2, <1>3

\* The array after k swaps.
Swapped(a, k) ==
    [i \in 1..Len(a) |-> IF i <= k THEN a[Len(a) - i + 1]
                         ELSE IF i > Len(a) - k THEN AsInt(a[Len(a) - i + 1]) ELSE a[i]]

LEMMA OneMoreSwap ==
    ASSUME NEW a, IsArray(a), NEW k \in Nat, k # 0, 2 * k <= Len(a)
    PROVE  Swapped(a, k) = Swap(Swapped(a, k - 1), k, Len(a) - k + 1)
  <1> DEFINE L == Len(a)
             b == Swapped(a, k - 1)
             j == L - k + 1
  <1>1. L \in Nat
    BY ArrayLength
  <1>2. k \in 1..L /\ j \in 1..L /\ k < j /\ ~(k <= k - 1) /\ ~(j <= k - 1)
        /\ ~(k > L - (k - 1)) /\ ~(j > L - (k - 1))
    BY <1>1
  <1>3. b = [i \in 1..L |-> IF i <= k - 1 THEN a[L - i + 1]
                            ELSE IF i > L - (k - 1) THEN AsInt(a[L - i + 1]) ELSE a[i]]
    BY DEF Swapped
  <1>4. b[k] = a[k] /\ b[j] = a[j]
    BY <1>2, <1>3
  <1>5. L - k + 1 = j /\ L - j + 1 = k /\ j > L - k /\ ~(j <= k) /\ k <= k
    BY <1>1
  <1> HIDE DEF b
  <1>6. Swap(b, k, j) = [[b EXCEPT ![k] = a[j]] EXCEPT ![j] = AsInt(a[k])]
    BY <1>4 DEF Swap
  <1> HIDE DEF j, L
  <1>7. ASSUME NEW i \in 1..L
        PROVE  Swapped(a, k)[i] = Swap(b, k, j)[i]
    <2>1. Swapped(a, k)[i] = IF i <= k THEN a[L - i + 1]
                             ELSE IF i > L - k THEN AsInt(a[L - i + 1]) ELSE a[i]
      BY DEF Swapped, L
    <2>2. Swap(b, k, j)[i] = IF i = j THEN AsInt(a[k]) ELSE IF i = k THEN a[j] ELSE b[i]
      BY <1>2, <1>3, <1>6
    <2>3. b[i] = IF i <= k - 1 THEN a[L - i + 1]
                 ELSE IF i > L - (k - 1) THEN AsInt(a[L - i + 1]) ELSE a[i]
      BY <1>3
    <2>4. CASE i = j
      BY <1>1, <1>2, <1>5, <2>1, <2>2, <2>4
    <2>5. CASE i = k
      BY <1>1, <1>2, <1>5, <2>1, <2>2, <2>5
    <2>6. CASE i # j /\ i # k
      <3>1. (i <= k - 1) = (i <= k) /\ (i > L - (k - 1)) = (i > L - k)
        BY <1>1, <1>5, <2>6
      <3> QED BY <2>1, <2>2, <2>3, <2>6, <3>1
    <2> QED BY <2>4, <2>5, <2>6
  <1>8. DOMAIN Swapped(a, k) = 1..L /\ Swapped(a, k) = [i \in 1..L |-> Swapped(a, k)[i]]
    BY DEF Swapped, L
  <1>9. DOMAIN Swap(b, k, j) = 1..L /\ Swap(b, k, j) = [i \in 1..L |-> Swap(b, k, j)[i]]
    BY <1>3, <1>6
  <1>10. Swapped(a, k) = Swap(b, k, j)
    BY <1>7, <1>8, <1>9
  <1> QED BY <1>10 DEF b, j, L

LEMMA SwappingSwaps ==
    ASSUME NEW a, IsArray(a), NEW n \in Nat, 2 * n <= Len(a)
    PROVE  Swapping(a, n)[n] = Swapped(a, n)
  <1> DEFINE Unfold(f) == [k \in 0..n |-> IF k = 0 THEN a ELSE Swap(f[k - 1], k, Len(a) - k + 1)]
             g == [k \in 0..n |-> Swapped(a, k)]
             r == Swapping(a, n)
             D == {k \in 0..n : r[k] # Swapped(a, k)}
  <1>1. Len(a) \in Nat /\ a = [i \in 1..Len(a) |-> a[i]]
    BY ArrayLength
  <1>2. Swapped(a, 0) = a
    <2>1. \A i \in 1..Len(a) : ~(i <= 0) /\ ~(i > Len(a) - 0)
      BY <1>1
    <2>2. Swapped(a, 0) = [i \in 1..Len(a) |-> a[i]]
      BY <2>1 DEF Swapped
    <2> QED BY <1>1, <2>2
  <1>3. \A k \in 0..n : k # 0 => Swapped(a, k) = Swap(Swapped(a, k - 1), k, Len(a) - k + 1)
    <2> TAKE k \in 0..n
    <2> HAVE k # 0
    <2>1. k \in Nat /\ 2 * k <= Len(a)
      BY <1>1
    <2> QED BY <2>1, OneMoreSwap
  <1>4. g = Unfold(g)
    <2> SUFFICES ASSUME NEW k \in 0..n
                 PROVE  g[k] = IF k = 0 THEN a ELSE Swap(g[k - 1], k, Len(a) - k + 1)
      OBVIOUS
    <2>1. g[k] = Swapped(a, k) /\ (k # 0 => g[k - 1] = Swapped(a, k - 1))
      OBVIOUS
    <2> QED BY <1>2, <1>3, <2>1
  <1> HIDE DEF g
  <1>5. r = Unfold(r)
    <2>1. r = CHOOSE f : f = Unfold(f)
      BY DEF Swapping
    <2>2. \E f : f = Unfold(f)
      BY <1>4
    <2> HIDE DEF Unfold, r
    <2> QED BY <2>1, <2>2
  <1> HIDE DEF r
  <1>6. D = {}
    <2> SUFFICES ASSUME D # {} PROVE FALSE
      OBVIOUS
    <2>1. PICK k \in D : \A m \in D : k <= m
      <3>1. D \in SUBSET Nat
        OBVIOUS
      <3> HIDE DEF D
      <3> QED BY <3>1, LeastNumber
    <2>2. k \in 0..n /\ k \in Nat /\ r[k] # Swapped(a, k)
      BY <2>1
    <2>3. r[k] = IF k = 0 THEN a ELSE Swap(r[k - 1], k, Len(a) - k + 1)
      BY <1>5, <2>2
    <2>4. k # 0
      BY <1>2, <2>2, <2>3
    <2>5. k - 1 \in 0..n /\ k - 1 \notin D
      BY <2>1, <2>2, <2>4
    <2>6. r[k - 1] = Swapped(a, k - 1)
      BY <2>5
    <2> QED BY <1>3, <2>2, <2>3, <2>4, <2>6
  <1>7. n \in 0..n
    OBVIOUS
  <1> QED BY <1>6, <1>7 DEF r

\* What pairs(array) gives from i on.
PairsFrom(a, i) == [k \in 1..(Len(a) - i) |-> <<i + k, a[i + k]>>]

LEMMA OneMorePair ==
    ASSUME NEW a, IsArray(a), NEW i \in 0..Len(a)
    PROVE  PairsFrom(a, i) = IF i + 1 > Len(a) THEN <<>> ELSE <<<<i + 1, a[i + 1]>>>> \o PairsFrom(a, i + 1)
  <1> DEFINE L == Len(a)
             V == {<<k, a[k]>> : k \in 1..L}
             p == PairsFrom(a, i)
             q == PairsFrom(a, i + 1)
             x == <<i + 1, a[i + 1]>>
  <1>1. L \in Nat /\ i \in Nat
    BY ArrayLength
  <1> HIDE DEF L
  <1>2. CASE i + 1 > L
    <2>1. L - i = 0
      BY <1>1, <1>2 DEF L
    <2>2. p = <<>>
      BY <2>1 DEF PairsFrom, L
    <2> QED BY <1>2, <2>2 DEF L
  <1>3. CASE ~(i + 1 > L)
    <2>1. L - i \in Nat /\ L - (i + 1) \in Nat /\ L - i = 1 + (L - (i + 1)) /\ i + 1 \in 1..L
      BY <1>1, <1>3
    <2>2. \A k \in 1..(L - i) : i + k \in 1..L
      BY <1>1
    <2>3. \A k \in 1..(L - (i + 1)) : (i + 1) + k \in 1..L
      BY <1>1
    <2>4. p = [k \in 1..(L - i) |-> <<i + k, a[i + k]>>]
      BY DEF PairsFrom, L
    <2>5. q = [k \in 1..(L - (i + 1)) |-> <<(i + 1) + k, a[(i + 1) + k]>>]
      BY DEF PairsFrom, L
    <2> HIDE DEF p, q
    <2>6. p \in [1..(L - i) -> V]
      BY <2>2, <2>4
    <2>7. q \in [1..(L - (i + 1)) -> V]
      BY <2>3, <2>5
    <2>8. x \in V
      BY <2>1
    <2> HIDE DEF V, x
    <2>9. p \in Seq(V) /\ Len(p) = L - i
      BY <2>1, <2>6
    <2>10. q \in Seq(V) /\ Len(q) = L - (i + 1)
      BY <2>1, <2>7
    <2>11. <<x>> \in Seq(V) /\ Len(<<x>>) = 1 /\ <<x>>[1] = x
      BY <2>8
    <2>12. /\ <<x>> \o q \in Seq(V) /\ Len(<<x>> \o q) = L - i
           /\ \A k \in 1..(L - i) : (<<x>> \o q)[k] = IF k <= 1 THEN <<x>>[k] ELSE q[k - 1]
      BY <2>1, <2>10, <2>11, ConcatProperties
    <2>13. ASSUME NEW k \in 1..(L - i)
           PROVE  p[k] = (<<x>> \o q)[k]
      <3>1. CASE k = 1
        <4>1. p[k] = x
          BY <1>1, <2>4, <3>1 DEF x
        <4> QED BY <2>11, <2>12, <3>1, <4>1
      <3>2. CASE k # 1
        <4>1. k - 1 \in 1..(L - (i + 1)) /\ (i + 1) + (k - 1) = i + k /\ ~(k <= 1)
          BY <1>1, <2>1, <3>2
        <4>2. q[k - 1] = <<i + k, a[i + k]>>
          BY <2>5, <4>1
        <4> QED BY <2>4, <2>12, <4>1, <4>2
      <3> QED BY <3>1, <3>2
    <2>14. p = <<x>> \o q
      BY <2>9, <2>12, <2>13, SeqEqual
    <2> QED BY <1>3, <2>14 DEF p, q, x, L
  <1> QED BY <1>2, <1>3

LEMMA IteratedIsPairs ==
    ASSUME NEW a, IsArray(a)
    PROVE  Iterated(a, 0) = PairsFrom(a, 0)
  <1> DEFINE L == Len(a)
             Unfold(f) == [i \in 0..L |-> IF i + 1 > L THEN <<>> ELSE <<<<i + 1, a[i + 1]>>>> \o f[i + 1]]
             g == [i \in 0..L |-> PairsFrom(a, i)]
             r == Iterating(a)
             D == {m \in 0..L : r[L - m] # PairsFrom(a, L - m)}
  <1>1. L \in Nat
    BY ArrayLength
  <1>2. \A i \in 0..L : PairsFrom(a, i) = IF i + 1 > L THEN <<>> ELSE <<<<i + 1, a[i + 1]>>>> \o PairsFrom(a, i + 1)
    BY OneMorePair
  <1>3. g = Unfold(g)
    <2> SUFFICES ASSUME NEW i \in 0..L
                 PROVE  g[i] = IF i + 1 > L THEN <<>> ELSE <<<<i + 1, a[i + 1]>>>> \o g[i + 1]
      OBVIOUS
    <2>1. g[i] = PairsFrom(a, i) /\ (~(i + 1 > L) => g[i + 1] = PairsFrom(a, i + 1))
      BY <1>1
    <2> HIDE DEF g, L
    <2> QED BY <1>2, <2>1
  <1> HIDE DEF g
  <1>4. r = Unfold(r)
    <2>1. r = CHOOSE f : f = Unfold(f)
      BY DEF Iterating
    <2>2. \E f : f = Unfold(f)
      BY <1>3
    <2> HIDE DEF Unfold, r
    <2> QED BY <2>1, <2>2
  <1> HIDE DEF r, L
  <1>5. D = {}
    <2> SUFFICES ASSUME D # {} PROVE FALSE
      OBVIOUS
    <2>1. PICK m \in D : \A n \in D : m <= n
      <3>1. D \in SUBSET Nat
        BY <1>1
      <3> HIDE DEF D
      <3> QED BY <3>1, LeastNumber
    <2> DEFINE i == L - m
    <2>2. m \in 0..L /\ m \in Nat /\ r[i] # PairsFrom(a, i)
      BY <1>1, <2>1
    <2>3. i \in 0..L
      BY <1>1, <2>2
    <2>4. r[i] = IF i + 1 > L THEN <<>> ELSE <<<<i + 1, a[i + 1]>>>> \o r[i + 1]
      BY <1>4, <2>3
    <2>5. CASE i + 1 > L
      BY <1>2, <2>2, <2>3, <2>4, <2>5
    <2>6. CASE ~(i + 1 > L)
      <3>1. m - 1 \in 0..L /\ m - 1 \notin D /\ L - (m - 1) = i + 1
        BY <1>1, <2>1, <2>2, <2>6
      <3>2. r[i + 1] = PairsFrom(a, i + 1)
        BY <3>1
      <3> HIDE DEF i
      <3> QED BY <1>2, <2>2, <2>3, <2>4, <2>6, <3>2
    <2> QED BY <2>5, <2>6
  <1>6. 0 \in 0..L /\ L \in 0..L /\ L - L = 0
    BY <1>1
  <1>7. r[0] = PairsFrom(a, 0)
    BY <1>5, <1>6
  <1> QED BY <1>7 DEF Iterated, r

LEMMA NryInvHolds == NryInv => HoldsWhatWasStored
  <1> SUFFICES ASSUME NryInv, \A i \in DOMAIN logical : logical[i] = AsInt(logical[i])
               PROVE  /\ EqualArrays(array, logical)
                      /\ Iterated(array, 0) = [i \in DOMAIN logical |-> <<i, logical[i]>>]
    BY DEF HoldsWhatWasStored
  <1>1. /\ DOMAIN array = 1..Len(array) /\ DOMAIN logical = 1..Len(logical)
        /\ Len(array) = Len(logical) /\ Len(logical) \in Nat
    BY ArrayLength DEF NryInv
  <1>2. \A i \in DOMAIN array : array[i] = logical[i]
    BY <1>1 DEF NryInv, Kept
  <1>3. Iterated(array, 0) = PairsFrom(array, 0)
    BY IteratedIsPairs DEF NryInv
  <1>4. PairsFrom(array, 0) = [i \in DOMAIN logical |-> <<i, logical[i]>>]
    <2>1. Len(array) - 0 = Len(logical) /\ \A i \in 1..Len(logical) : 0 + i = i
      BY <1>1
    <2>2. \A i \in 1..Len(logical) : <<0 + i, array[0 + i]>> = <<i, logical[i]>>
      BY <1>1, <1>2, <2>1
    <2> QED BY <1>1, <2>1, <2>2 DEF PairsFrom
  <1> QED BY <1>1, <1>2, <1>3, <1>4 DEF EqualArrays

LEMMA SetElementKeeps ==
    ASSUME NryInv, NEW i, NEW v, SetElement(i, v)
    PROVE  NryInv'
  <1> DEFINE n == Len(array)
  <1>1. /\ n \in Nat /\ Len(logical) = n /\ DOMAIN array = 1..n /\ DOMAIN logical = 1..n
        /\ array = [j \in 1..n |-> array[j]] /\ logical = [j \in 1..n |-> logical[j]]
    BY ArrayLength DEF NryInv
  <1>2. /\ i \in 1..n
        /\ array' = [array EXCEPT ![i] = v] /\ logical' = [logical EXCEPT ![i] = v]
    BY DEF SetElement
  <1> HIDE DEF n
  <1>3. PICK a, l : a = array' /\ l = logical'
    OBVIOUS
  <1>4. /\ DOMAIN a = 1..n /\ a = [j \in 1..n |-> a[j]]
        /\ DOMAIN l = 1..n /\ l = [j \in 1..n |-> l[j]]
        /\ a[i] = v /\ l[i] = v
        /\ \A j \in 1..n : j # i => a[j] = array[j] /\ l[j] = logical[j]
    BY <1>1, <1>2, <1>3
  <1>5. IsArray(a) /\ Len(a) = n /\ IsArray(l) /\ Len(l) = n
    BY <1>1, <1>4, MadeArray
  <1>6. \A j \in 1..n : Kept(a[j], l[j])
    BY <1>1, <1>4 DEF NryInv, Kept
  <1> QED BY <1>3, <1>5, <1>6 DEF NryInv

LEMMA ReverseKeeps ==
    ASSUME NryInv, ReverseArray
    PROVE  NryInv'
  <1> DEFINE n == Len(array)
             h == n \div 2
  <1>1. /\ n \in Nat /\ Len(logical) = n /\ DOMAIN array = 1..n /\ DOMAIN logical = 1..n
        /\ array = [j \in 1..n |-> array[j]] /\ logical = [j \in 1..n |-> logical[j]]
    BY ArrayLength DEF NryInv
  <1>2. h \in Nat /\ 2 * h <= n /\ n < 2 * h + 2
    <2> HIDE DEF n
    <2> QED BY <1>1
  <1>3. IsArray(array) /\ IsArray(logical)
    BY DEF NryInv
  <1>4. array' = Swapped(array, h)
    <2>1. array' = Swapping(array, h)[h]
      BY DEF ReverseArray, Reversed
    <2>2. Swapping(array, h)[h] = Swapped(array, h)
      BY <1>2, <1>3, SwappingSwaps
    <2> QED BY <2>1, <2>2
  <1>5. logical' = [i \in 1..n |-> logical[n - i + 1]]
    BY <1>1 DEF ReverseArray, Reverse
  <1>6. PICK a, l : a = array' /\ l = logical'
    OBVIOUS
  <1>7. a = [i \in 1..n |-> IF i <= h THEN array[n - i + 1]
                            ELSE IF i > n - h THEN AsInt(array[n - i + 1]) ELSE array[i]]
    BY <1>4, <1>6 DEF Swapped
  <1> HIDE DEF h, n
  <1>8. IsArray(a) /\ Len(a) = n
    BY <1>1, <1>7, MadeArray
  <1>9. IsArray(l) /\ Len(l) = n
    BY <1>1, <1>5, <1>6, MadeArray
  <1>10. ASSUME NEW i \in 1..n, l[i] = AsInt(l[i])
         PROVE  a[i] = l[i]
    <2> DEFINE j == n - i + 1
    <2>1. j \in 1..n /\ l[i] = logical[j]
      BY <1>1, <1>5, <1>6
    <2>2. array[j] = logical[j]
      BY <1>1, <1>10, <2>1 DEF NryInv, Kept
    <2>3. i <= h \/ i > n - h \/ i = j
      BY <1>1, <1>2
    <2>4. a[i] = IF i <= h THEN array[j] ELSE IF i > n - h THEN AsInt(array[j]) ELSE array[i]
      BY <1>7
    <2> QED BY <1>10, <2>1, <2>2, <2>3, <2>4
  <1>11. \A i \in 1..n : Kept(a[i], l[i])
    BY <1>10 DEF Kept
  <1> QED BY <1>6, <1>8, <1>9, <1>11 DEF NryInv

\* An array holds what was stored in it, in order, and pairs() gives just that, for any
\* length, as long as its numbers fit an int.
THEOREM ArraysHold == NrySpec => []HoldsWhatWasStored
  <1>1. NryInit => NryInv
    <2> SUFFICES ASSUME NryInit PROVE NryInv
      OBVIOUS
    <2>1. IsArray(<<>>) /\ Len(<<>>) = 0
      <3>1. DOMAIN <<>> = 1..0 /\ <<>> = [i \in 1..0 |-> <<>>[i]]
        OBVIOUS
      <3> QED BY <3>1, MadeArray
    <2> QED BY <2>1 DEF NryInit, NryInv
  <1>2. NryInv /\ [NryNext]_nryVars => NryInv'
    <2> SUFFICES ASSUME NryInv, [NryNext]_nryVars PROVE NryInv'
      OBVIOUS
    <2>1. CASE UNCHANGED nryVars
      BY <2>1 DEF NryInv, nryVars, IsArray, Kept
    <2>2. ASSUME NEW n \in 1..MaxArray, NewSized(n) PROVE NryInv'
      <3>1. PICK a : a = [i \in 1..n |-> 0]
        OBVIOUS
      <3>2. n \in Nat /\ DOMAIN a = 1..n /\ a = [i \in 1..n |-> a[i]]
        BY <3>1
      <3>3. IsArray(a) /\ array' = a /\ logical' = a
        BY <2>2, <3>1, <3>2, MadeArray DEF NewSized
      <3> QED BY <3>3 DEF NryInv, Kept
    <2>3. ASSUME NEW n \in 2..MaxArray, NEW values \in [1..n -> Numbers], NewOf(values)
          PROVE  NryInv'
      <3>1. n \in Nat /\ DOMAIN values = 1..n /\ values = [i \in 1..n |-> values[i]]
        OBVIOUS
      <3>2. IsArray(values) /\ array' = values /\ logical' = values
        BY <2>3, <3>1, MadeArray DEF NewOf
      <3> QED BY <3>2 DEF NryInv, Kept
    <2>4. ASSUME NEW i \in 0..(MaxArray + 1), NEW v \in Numbers, SetElement(i, v)
          PROVE  NryInv'
      BY <2>4, SetElementKeeps
    <2>5. CASE ReverseArray
      BY <2>5, ReverseKeeps
    <2> QED BY <2>1, <2>2, <2>3, <2>4, <2>5 DEF NryNext
  <1> QED BY <1>1, <1>2, NryInvHolds, PTL DEF NrySpec

-----------------------------------------------------------------------------
(***************************************************************************)
(* TableTools: for trees of any depth and tables of any size.  A table     *)
(* holds only tables of a smaller rank, so that the recursive functions    *)
(* which resolve and compare them are defined everywhere (ContentsAre,     *)
(* EqualsAre), and what is claimed of two values is shown by way of the    *)
(* least rank at which it would fail.                                      *)
(***************************************************************************)

Whatever == TreeValues \cup {NoValue}

Rank(v) == IF ~IsTable(v) THEN 0 ELSE IF v <= Depth THEN Depth + 1 - v
           ELSE IF v = NewTable THEN Depth + 2 ELSE Depth + 1

IsTree(h) ==
    /\ h \in [Heap -> [Places -> Whatever]]
    /\ \A t \in Heap, k \in Places : Rank(h[t][k]) < Rank(t)

LEMMA RankIs ==
    /\ Depth \in Nat \ {0} /\ MaxKey \in Nat \ {0}
    /\ \A v : Rank(v) \in Nat /\ Rank(v) < Depth + 3
  <1>1. Depth \in Nat \ {0} /\ MaxKey \in Nat \ {0}
    BY TableAssumption
  <1>2. ASSUME NEW v PROVE Rank(v) \in Nat /\ Rank(v) < Depth + 3
    <2>1. CASE v \in Heap
      <3>1. v \in Nat /\ v >= 1
        BY <1>1, <2>1 DEF Heap
      <3> QED BY <1>1, <2>1, <3>1 DEF Rank, IsTable
    <2>2. CASE v \notin Heap
      BY <1>1, <2>2 DEF Rank, IsTable
    <2> QED BY <2>1, <2>2
  <1> QED BY <1>1, <1>2

\* The content of v when c gives that of the values in it.
Unfolding(h, c, v) ==
    IF IsTable(v) THEN <<"table", [k \in Places |-> c[h[v][k]]]>> ELSE <<"atom", v>>

LEMMA ContentsAre ==
    ASSUME NEW h, IsTree(h)
    PROVE  \A v \in Whatever : Content(h, v) = Unfolding(h, Contents(h), v)
  <1> DEFINE W(j) == {v \in Whatever : Rank(v) < j}
             Upto(j, f) == [v \in W(j) |-> Unfolding(h, f, v)]
             M == Depth + 3
             D == {j \in 0..M : ~\E f : f = Upto(j, f)}
             r == Contents(h)
  <1>1. M \in Nat
    BY RankIs
  <1>2. \A v : Rank(v) \in Nat /\ Rank(v) < M
    BY RankIs
  <1> HIDE DEF M
  <1>3. D = {}
    <2> SUFFICES ASSUME D # {} PROVE FALSE
      OBVIOUS
    <2>1. PICK j \in D : \A m \in D : j <= m
      <3>1. D \in SUBSET Nat
        BY <1>1
      <3> HIDE DEF D
      <3> QED BY <3>1, LeastNumber
    <2>2. j \in 0..M /\ j \in Nat /\ ~\E f : f = Upto(j, f)
      <3> HIDE DEF Upto
      <3> QED BY <1>1, <2>1
    <2>3. \E f : \A v \in Whatever : Rank(v) < j - 1 => f[v] = Unfolding(h, f, v)
      <3>1. CASE j = 0
        <4>1. \A v \in Whatever : ~(Rank(v) < j - 1)
          BY <1>2, <3>1
        <4> QED BY <4>1
      <3>2. CASE j # 0
        <4>1. j - 1 \in 0..M /\ ~(j <= j - 1)
          BY <1>1, <2>2, <3>2
        <4>2. j - 1 \notin D
          <5> HIDE DEF D
          <5> QED BY <2>1, <4>1
        <4>3. PICK f : f = Upto(j - 1, f)
          BY <4>1, <4>2
        <4>4. \A v \in W(j - 1) : f[v] = Unfolding(h, f, v)
          <5> HIDE DEF W
          <5> QED BY <4>3
        <4> QED BY <4>4
      <3> QED BY <3>1, <3>2
    <2>4. PICK f : \A v \in Whatever : Rank(v) < j - 1 => f[v] = Unfolding(h, f, v)
      BY <2>3
    <2> DEFINE g == [v \in W(j) |-> Unfolding(h, f, v)]
    <2>5. ASSUME NEW v \in W(j)
          PROVE  Unfolding(h, f, v) = Unfolding(h, g, v)
      <3>1. CASE IsTable(v)
        <4>1. ASSUME NEW k \in Places PROVE f[h[v][k]] = g[h[v][k]]
          <5>1. h[v][k] \in Whatever /\ Rank(h[v][k]) < Rank(v) /\ Rank(v) < j
            BY <3>1 DEF IsTree, IsTable
          <5>2. Rank(h[v][k]) \in Nat /\ Rank(v) \in Nat
            BY <1>2
          <5>3. Rank(h[v][k]) < j - 1 /\ Rank(h[v][k]) < j
            BY <2>2, <5>1, <5>2
          <5>4. h[v][k] \in W(j)
            BY <5>1, <5>3
          <5>5. g[h[v][k]] = Unfolding(h, f, h[v][k])
            <6> HIDE DEF W
            <6> QED BY <5>4
          <5> QED BY <2>4, <5>1, <5>3, <5>5
        <4> HIDE DEF g
        <4> QED BY <4>1 DEF Unfolding
      <3>2. CASE ~IsTable(v)
        BY <3>2 DEF Unfolding
      <3> QED BY <3>1, <3>2
    <2>6. g = Upto(j, g)
      <3>1. Upto(j, g) = [v \in W(j) |-> Unfolding(h, f, v)]
        <4> HIDE DEF g, W
        <4> QED BY <2>5
      <3> QED BY <3>1
    <2> QED BY <2>2, <2>6
  <1>4. W(M) = Whatever
    BY <1>2
  <1>5. \E f : f = [v \in Whatever |-> Unfolding(h, f, v)]
    <2>1. M \in 0..M
      BY <1>1
    <2>2. PICK f : f = Upto(M, f)
      BY <1>3, <2>1
    <2> HIDE DEF W
    <2> QED BY <1>4, <2>2
  <1>6. r = CHOOSE f : f = [v \in Whatever |-> Unfolding(h, f, v)]
    BY DEF Contents, Whatever, Unfolding
  <1> HIDE DEF r
  <1>7. r = [v \in Whatever |-> Unfolding(h, r, v)]
    BY <1>5, <1>6
  <1>8. \A v \in Whatever : r[v] = Unfolding(h, r, v)
    BY <1>7
  <1> QED BY <1>8 DEF r, Content

LEMMA ContentOfAtom ==
    ASSUME NEW h, IsTree(h), NEW v \in Whatever, ~IsTable(v)
    PROVE  Content(h, v) = <<"atom", v>>
  BY ContentsAre DEF Unfolding

LEMMA ContentOfTable ==
    ASSUME NEW h, IsTree(h), NEW v, IsTable(v)
    PROVE  Content(h, v) = <<"table", [k \in Places |-> Content(h, h[v][k])]>>
  <1>1. v \in Whatever
    BY DEF IsTable, Whatever, TreeValues
  <1> QED BY <1>1, ContentsAre DEF Unfolding, Content

\* Two tables have the same content when their elements have.
LEMMA ElementsTell ==
    ASSUME NEW h, IsTree(h), NEW g, IsTree(g), NEW v, IsTable(v), NEW w, IsTable(w)
    PROVE  Content(h, v) = Content(g, w) <=>
               \A k \in Places : Content(h, h[v][k]) = Content(g, g[w][k])
  <1> DEFINE C == [k \in Places |-> Content(h, h[v][k])]
             E == [k \in Places |-> Content(g, g[w][k])]
  <1>1. Content(h, v) = <<"table", C>> /\ Content(g, w) = <<"table", E>>
    BY ContentOfTable
  <1>2. C = E <=> \A k \in Places : C[k] = E[k]
    OBVIOUS
  <1>3. \A k \in Places : C[k] = Content(h, h[v][k]) /\ E[k] = Content(g, g[w][k])
    OBVIOUS
  <1> HIDE DEF C, E
  <1> QED BY <1>1, <1>2, <1>3

LEMMA AtomIsNoTable ==
    ASSUME NEW h, IsTree(h), NEW g, IsTree(g), NEW v \in Whatever, NEW w \in Whatever,
           ~IsTable(v)
    PROVE  Content(h, v) = Content(g, w) <=> v = w
  <1>1. Content(h, v) = <<"atom", v>>
    BY ContentOfAtom
  <1>2. CASE IsTable(w)
    <2>1. PICK c : Content(g, w) = <<"table", c>>
      BY <1>2, ContentOfTable
    <2>2. v # w /\ "table" # "atom"
      BY <1>2
    <2> QED BY <1>1, <2>1, <2>2
  <1>3. CASE ~IsTable(w)
    <2>1. Content(g, w) = <<"atom", w>>
      BY <1>3, ContentOfAtom
    <2> QED BY <1>1, <2>1
  <1> QED BY <1>2, <1>3

\* A content depends on nothing but the tables that are in it.
LEMMA SameContents ==
    ASSUME NEW h, IsTree(h), NEW g, IsTree(g), NEW X,
           \A t \in X : /\ IsTable(t) /\ h[t] = g[t]
                        /\ \A k \in Places : IsTable(h[t][k]) => h[t][k] \in X
    PROVE  \A v \in Whatever : ~IsTable(v) \/ v \in X => Content(h, v) = Content(g, v)
  <1> DEFINE Bad(v) == v \in Whatever /\ (~IsTable(v) \/ v \in X) /\ Content(h, v) # Content(g, v)
             D == {n \in Nat : \E v : Bad(v) /\ Rank(v) = n}
  <1> SUFFICES ASSUME NEW v0, Bad(v0) PROVE FALSE
    OBVIOUS
  <1>1. D # {}
    BY RankIs
  <1>2. PICK n \in D : \A m \in D : n <= m
    <2>1. D \in SUBSET Nat
      OBVIOUS
    <2> HIDE DEF D
    <2> QED BY <1>1, <2>1, LeastNumber
  <1>3. PICK v : Bad(v) /\ Rank(v) = n
    BY <1>2
  <1>4. IsTable(v) /\ v \in X
    <2>1. CASE ~IsTable(v)
      BY <1>3, <2>1, AtomIsNoTable
    <2> QED BY <1>3, <2>1
  <1>5. ASSUME NEW k \in Places PROVE Content(h, h[v][k]) = Content(g, g[v][k])
    <2>1. h[v][k] \in Whatever /\ Rank(h[v][k]) < Rank(v) /\ h[v][k] = g[v][k]
      BY <1>4 DEF IsTree, IsTable
    <2>2. ~IsTable(h[v][k]) \/ h[v][k] \in X
      BY <1>4
    <2>3. Rank(h[v][k]) \notin D
      <3>1. Rank(h[v][k]) \in Nat /\ Rank(v) \in Nat
        BY RankIs
      <3> HIDE DEF D
      <3> QED BY <1>2, <1>3, <2>1, <3>1
    <2>4. ~Bad(h[v][k])
      <3>1. Rank(h[v][k]) \in Nat
        BY RankIs
      <3> HIDE DEF Bad
      <3> QED BY <2>3, <3>1
    <2> QED BY <2>1, <2>2, <2>4
  <1>6. Content(h, v) = Content(g, v)
    BY <1>4, <1>5, ElementsTell
  <1> QED BY <1>3, <1>6

\* What equals may return for v and w when f gives that for what they hold.
Judged(f, v, w) ==
    LET parts  == [k \in KeysOf(v) \cap KeysOf(w) |-> f[<<heap[v][k], heap[w][k]>>]]
        same   == /\ Borders(v) \cap Borders(w) # {} /\ SameKeys(v, w)
                  /\ \A k \in DOMAIN parts : TRUE \in parts[k]
        differ == \/ Cardinality(Borders(v) \cup Borders(w)) > 1 \/ ~SameKeys(v, w)
                  \/ \E k \in DOMAIN parts : FALSE \in parts[k]
    IN  IF v = w THEN {TRUE}
        ELSE IF ~IsTable(v) \/ ~IsTable(w) THEN {FALSE}
        ELSE {r \in BOOLEAN : IF r THEN same ELSE differ}

LEMMA JudgedAlike ==
    ASSUME NEW f, NEW g, NEW v, NEW w,
           IsTable(v) /\ IsTable(w) =>
               \A k \in KeysOf(v) \cap KeysOf(w) :
                   f[<<heap[v][k], heap[w][k]>>] = g[<<heap[v][k], heap[w][k]>>]
    PROVE  Judged(f, v, w) = Judged(g, v, w)
  <1>1. CASE v = w
    BY <1>1 DEF Judged
  <1>2. CASE v # w /\ (~IsTable(v) \/ ~IsTable(w))
    BY <1>2 DEF Judged
  <1>3. CASE v # w /\ IsTable(v) /\ IsTable(w)
    <2> DEFINE p == [k \in KeysOf(v) \cap KeysOf(w) |-> f[<<heap[v][k], heap[w][k]>>]]
               q == [k \in KeysOf(v) \cap KeysOf(w) |-> g[<<heap[v][k], heap[w][k]>>]]
               By(parts) == {r \in BOOLEAN : IF r
                   THEN /\ Borders(v) \cap Borders(w) # {} /\ SameKeys(v, w)
                        /\ \A k \in DOMAIN parts : TRUE \in parts[k]
                   ELSE \/ Cardinality(Borders(v) \cup Borders(w)) > 1 \/ ~SameKeys(v, w)
                        \/ \E k \in DOMAIN parts : FALSE \in parts[k]}
    <2>1. p = q
      BY <1>3
    <2>2. Judged(f, v, w) = By(p) /\ Judged(g, v, w) = By(q)
      BY <1>3 DEF Judged
    <2> HIDE DEF p, q, By
    <2> QED BY <2>1, <2>2
  <1> QED BY <1>1, <1>2, <1>3

LEMMA EqualsAre ==
    ASSUME IsTree(heap)
    PROVE  \A v, w \in TreeValues : Equals(v, w) = Judged(Equality, v, w)
  <1> DEFINE W(j) == {p \in TreeValues \X TreeValues : Rank(p[1]) < j}
             Upto(j, f) == [p \in W(j) |-> Judged(f, p[1], p[2])]
             M == Depth + 3
             D == {j \in 0..M : ~\E f : f = Upto(j, f)}
             r == Equality
  <1>1. M \in Nat
    BY RankIs
  <1>2. \A v : Rank(v) \in Nat /\ Rank(v) < M
    BY RankIs
  <1> HIDE DEF M
  <1>3. D = {}
    <2> SUFFICES ASSUME D # {} PROVE FALSE
      OBVIOUS
    <2>1. PICK j \in D : \A m \in D : j <= m
      <3>1. D \in SUBSET Nat
        BY <1>1
      <3> HIDE DEF D
      <3> QED BY <3>1, LeastNumber
    <2>2. j \in 0..M /\ j \in Nat /\ ~\E f : f = Upto(j, f)
      <3> HIDE DEF Upto
      <3> QED BY <1>1, <2>1
    <2>3. \E f : \A p \in TreeValues \X TreeValues :
              Rank(p[1]) < j - 1 => f[p] = Judged(f, p[1], p[2])
      <3>1. CASE j = 0
        <4>1. \A v : ~(Rank(v) < j - 1)
          BY <1>2, <3>1
        <4> QED BY <4>1
      <3>2. CASE j # 0
        <4>1. j - 1 \in 0..M /\ ~(j <= j - 1)
          BY <1>1, <2>2, <3>2
        <4>2. j - 1 \notin D
          <5> HIDE DEF D
          <5> QED BY <2>1, <4>1
        <4>3. PICK f : f = Upto(j - 1, f)
          BY <4>1, <4>2
        <4>4. \A p \in W(j - 1) : f[p] = Judged(f, p[1], p[2])
          <5> HIDE DEF W
          <5> QED BY <4>3
        <4> QED BY <4>4
      <3> QED BY <3>1, <3>2
    <2>4. PICK f : \A p \in TreeValues \X TreeValues :
              Rank(p[1]) < j - 1 => f[p] = Judged(f, p[1], p[2])
      BY <2>3
    <2> DEFINE g == [p \in W(j) |-> Judged(f, p[1], p[2])]
    <2>5. ASSUME NEW p \in W(j)
          PROVE  Judged(f, p[1], p[2]) = Judged(g, p[1], p[2])
      <3> DEFINE v == p[1]
                 w == p[2]
      <3>1. ASSUME IsTable(v), IsTable(w), NEW k \in KeysOf(v) \cap KeysOf(w)
            PROVE  f[<<heap[v][k], heap[w][k]>>] = g[<<heap[v][k], heap[w][k]>>]
        <4>1. /\ k \in Places /\ heap[v][k] # NoValue /\ heap[w][k] # NoValue
              /\ heap[v][k] \in Whatever /\ heap[w][k] \in Whatever
              /\ Rank(heap[v][k]) < Rank(v) /\ Rank(v) < j
          BY <3>1 DEF IsTree, IsTable, KeysOf
        <4>2. Rank(heap[v][k]) \in Nat /\ Rank(v) \in Nat
          BY <1>2
        <4>3. Rank(heap[v][k]) < j - 1 /\ Rank(heap[v][k]) < j
          BY <2>2, <4>1, <4>2
        <4>4. PICK q : q = <<heap[v][k], heap[w][k]>>
          OBVIOUS
        <4>5. q \in TreeValues \X TreeValues /\ q[1] = heap[v][k] /\ q[2] = heap[w][k]
          BY <4>1, <4>4 DEF Whatever
        <4>6. q \in W(j)
          BY <4>3, <4>5
        <4>7. g[q] = Judged(f, q[1], q[2])
          <5> HIDE DEF W
          <5> QED BY <4>6
        <4>8. f[q] = Judged(f, q[1], q[2])
          BY <2>4, <4>3, <4>5
        <4> QED BY <4>4, <4>7, <4>8
      <3> HIDE DEF v, w, g
      <3>2. Judged(f, v, w) = Judged(g, v, w)
        BY <3>1, JudgedAlike
      <3> QED BY <3>2 DEF v, w
    <2>6. g = Upto(j, g)
      <3>1. Upto(j, g) = [p \in W(j) |-> Judged(f, p[1], p[2])]
        <4> HIDE DEF g, W
        <4> QED BY <2>5
      <3> QED BY <3>1
    <2> QED BY <2>2, <2>6
  <1>4. W(M) = TreeValues \X TreeValues
    BY <1>2
  <1>5. \E f : f = [p \in TreeValues \X TreeValues |-> Judged(f, p[1], p[2])]
    <2>1. M \in 0..M
      BY <1>1
    <2>2. PICK f : f = Upto(M, f)
      BY <1>3, <2>1
    <2> HIDE DEF W
    <2> QED BY <1>4, <2>2
  <1>6. r = CHOOSE f : f = [p \in TreeValues \X TreeValues |-> Judged(f, p[1], p[2])]
    BY DEF Equality, Judged
  <1> HIDE DEF r
  <1>7. r = [p \in TreeValues \X TreeValues |-> Judged(r, p[1], p[2])]
    BY <1>5, <1>6
  <1>8. \A p \in TreeValues \X TreeValues : r[p] = Judged(r, p[1], p[2])
    BY <1>7
  <1>9. ASSUME NEW v \in TreeValues, NEW w \in TreeValues
        PROVE  r[<<v, w>>] = Judged(r, v, w)
    <2>1. PICK p : p = <<v, w>>
      OBVIOUS
    <2>2. p \in TreeValues \X TreeValues /\ p[1] = v /\ p[2] = w
      BY <2>1
    <2> QED BY <1>8, <2>1, <2>2
  <1> QED BY <1>9 DEF r, Equals

LEMMA KeysAre ==
    ASSUME IsTree(heap), NEW t \in Heap
    PROVE  /\ Places \in SUBSET Nat /\ KeysOf(t) \in SUBSET Places
           /\ IsFiniteSet(KeysOf(t)) /\ Cardinality(KeysOf(t)) \in Nat
           /\ \A k \in Places : heap[t][k] \in Whatever /\ Rank(heap[t][k]) < Rank(t)
  <1>1. Places \in SUBSET Nat /\ IsFiniteSet(Places)
    BY RankIs, FS_Interval DEF Places
  <1>2. KeysOf(t) \in SUBSET Places
    BY DEF KeysOf
  <1>3. IsFiniteSet(KeysOf(t))
    BY <1>1, <1>2, FS_Subset
  <1>4. \A k \in Places : heap[t][k] \in Whatever /\ Rank(heap[t][k]) < Rank(t)
    BY DEF IsTree
  <1> QED BY <1>1, <1>2, <1>3, <1>4, FS_CardinalityType

LEMMA ThereIsABorder ==
    ASSUME IsTree(heap), NEW t \in Heap
    PROVE  Borders(t) # {}
  <1> DEFINE S == {n \in 0..MaxKey : (n + 1) \notin KeysOf(t)}
  <1>1. MaxKey \in S
    <2>1. MaxKey + 1 \notin Places /\ MaxKey \in 0..MaxKey
      BY RankIs DEF Places
    <2> QED BY <2>1, KeysAre
  <1>2. PICK n \in S : \A m \in S : n <= m
    <2>1. S \in SUBSET Nat
      OBVIOUS
    <2> HIDE DEF S
    <2> QED BY <1>1, <2>1, LeastNumber
  <1>3. n = 0 \/ n \in KeysOf(t)
    <2> SUFFICES ASSUME n # 0, n \notin KeysOf(t) PROVE FALSE
      OBVIOUS
    <2>1. n - 1 \in 0..MaxKey /\ (n - 1) + 1 = n /\ ~(n <= n - 1)
      BY RankIs
    <2> QED BY <1>2, <2>1
  <1> QED BY <1>2, <1>3 DEF Borders

LEMMA WholeHasOneBorder ==
    ASSUME IsTree(heap), NEW t \in Heap, Whole(t)
    PROVE  Borders(t) = {Cardinality(KeysOf(t))}
  <1> DEFINE c == Cardinality(KeysOf(t))
  <1>1. c \in Nat /\ KeysOf(t) = 1..c /\ KeysOf(t) \in SUBSET Places
    BY KeysAre DEF Whole
  <1> HIDE DEF c
  <1>2. c <= MaxKey
    <2>1. c = 0 \/ c \in Places
      BY <1>1
    <2> QED BY <1>1, <2>1, RankIs DEF Places
  <1>3. \A n \in 0..MaxKey : (n = 0 \/ n \in 1..c) /\ (n + 1) \notin 1..c <=> n = c
    BY <1>1, <1>2, RankIs
  <1>4. c \in 0..MaxKey
    BY <1>1, <1>2, RankIs
  <1>5. Borders(t) = {c}
    BY <1>1, <1>3, <1>4 DEF Borders
  <1> QED BY <1>5 DEF c

LEMMA AllAreWhole ==
    ASSUME IsTree(heap), \A w \in Used : Whole(w), NEW t \in Heap
    PROVE  Whole(t)
  <1>1. CASE KeysOf(t) = {}
    <2>1. Cardinality(KeysOf(t)) = 0
      BY <1>1, FS_EmptySet
    <2> QED BY <1>1, <2>1 DEF Whole
  <1>2. CASE KeysOf(t) # {}
    BY <1>2 DEF Used
  <1> QED BY <1>1, <1>2

\* An element is told from none by its content.
LEMMA NothingTold ==
    ASSUME IsTree(heap), NEW v \in Whatever
    PROVE  /\ NoValue \in Whatever /\ ~IsTable(NoValue)
           /\ Content(heap, NoValue) = <<"atom", NoValue>>
           /\ Content(heap, v) = <<"atom", NoValue>> <=> v = NoValue
  <1>1. NoValue \in Whatever /\ ~IsTable(NoValue)
    BY TableAssumption DEF Whatever, TreeValues, IsTable
  <1>2. Content(heap, NoValue) = <<"atom", NoValue>>
    BY <1>1, ContentOfAtom
  <1>3. Content(heap, NoValue) = Content(heap, v) <=> NoValue = v
    BY <1>1, AtomIsNoTable
  <1> QED BY <1>1, <1>2, <1>3

LEMMA JudgedSays ==
    ASSUME NEW f, NEW v, NEW w, v # w, IsTable(v), IsTable(w)
    PROVE  /\ TRUE \in Judged(f, v, w) <=>
                 /\ Borders(v) \cap Borders(w) # {} /\ SameKeys(v, w)
                 /\ \A k \in KeysOf(v) \cap KeysOf(w) : TRUE \in f[<<heap[v][k], heap[w][k]>>]
           /\ FALSE \in Judged(f, v, w) <=>
                 \/ Cardinality(Borders(v) \cup Borders(w)) > 1 \/ ~SameKeys(v, w)
                 \/ \E k \in KeysOf(v) \cap KeysOf(w) : FALSE \in f[<<heap[v][k], heap[w][k]>>]
  <1> DEFINE p == [k \in KeysOf(v) \cap KeysOf(w) |-> f[<<heap[v][k], heap[w][k]>>]]
             Same == /\ Borders(v) \cap Borders(w) # {} /\ SameKeys(v, w)
                     /\ \A k \in DOMAIN p : TRUE \in p[k]
             Differ == \/ Cardinality(Borders(v) \cup Borders(w)) > 1 \/ ~SameKeys(v, w)
                       \/ \E k \in DOMAIN p : FALSE \in p[k]
  <1>1. Judged(f, v, w) = {r \in BOOLEAN : IF r THEN Same ELSE Differ}
    BY DEF Judged
  <1>2. DOMAIN p = KeysOf(v) \cap KeysOf(w) /\ \A k \in DOMAIN p : p[k] = f[<<heap[v][k], heap[w][k]>>]
    OBVIOUS
  <1>3. TRUE \in Judged(f, v, w) <=> Same
    <2> HIDE DEF Same, Differ
    <2> QED BY <1>1, Zenon
  <1>4. FALSE \in Judged(f, v, w) <=> Differ
    <2> HIDE DEF Same, Differ
    <2> QED BY <1>1, Zenon
  <1> HIDE DEF p
  <1> QED BY <1>2, <1>3, <1>4

LEMMA EqualsExact ==
    ASSUME IsTree(heap), NEW v \in TreeValues, NEW w \in TreeValues
    PROVE  /\ TRUE \in Equals(v, w) <=> Content(heap, v) = Content(heap, w)
           /\ (\A t \in Used : Whole(t)) =>
                  (FALSE \in Equals(v, w) <=> Content(heap, v) # Content(heap, w))
           /\ Equals(v, w) \subseteq BOOLEAN
  <1> DEFINE Right(x, y) ==
                 /\ TRUE \in Equals(x, y) <=> Content(heap, x) = Content(heap, y)
                 /\ (\A t \in Used : Whole(t)) =>
                        (FALSE \in Equals(x, y) <=> Content(heap, x) # Content(heap, y))
             D == {n \in Nat : \E x, y \in TreeValues : ~Right(x, y) /\ Rank(x) = n}
  <1>1. D = {}
    <2> SUFFICES ASSUME D # {} PROVE FALSE
      OBVIOUS
    <2>1. PICK n \in D : \A m \in D : n <= m
      <3>1. D \in SUBSET Nat
        OBVIOUS
      <3> HIDE DEF D
      <3> QED BY <3>1, LeastNumber
    <2>2. PICK x, y \in TreeValues : ~Right(x, y) /\ Rank(x) = n
      BY <2>1
    <2>3. Equals(x, y) = Judged(Equality, x, y)
      BY EqualsAre
    <2>4. CASE x = y
      <3>1. Equals(x, y) = {TRUE}
        BY <2>3, <2>4 DEF Judged
      <3>2. TRUE \in Equals(x, y) /\ FALSE \notin Equals(x, y)
        BY <3>1, Zenon
      <3> QED BY <2>2, <2>4, <3>2
    <2>5. CASE x # y /\ (~IsTable(x) \/ ~IsTable(y))
      <3>1. Equals(x, y) = {FALSE}
        BY <2>3, <2>5 DEF Judged
      <3>2. TRUE \notin Equals(x, y) /\ FALSE \in Equals(x, y)
        BY <3>1, Zenon
      <3>3. Content(heap, x) # Content(heap, y)
        BY <2>5, AtomIsNoTable DEF Whatever
      <3> QED BY <2>2, <3>2, <3>3
    <2>6. CASE x # y /\ IsTable(x) /\ IsTable(y)
      <3>1. x \in Heap /\ y \in Heap
        BY <2>6 DEF IsTable
      <3> DEFINE E(k) == Equals(heap[x][k], heap[y][k])
                 Alike(k) == Content(heap, heap[x][k]) = Content(heap, heap[y][k])
                 Both == KeysOf(x) \cap KeysOf(y)
      <3>2. /\ TRUE \in Equals(x, y) <=>
                 /\ Borders(x) \cap Borders(y) # {} /\ SameKeys(x, y)
                 /\ \A k \in Both : TRUE \in E(k)
            /\ FALSE \in Equals(x, y) <=>
                 \/ Cardinality(Borders(x) \cup Borders(y)) > 1 \/ ~SameKeys(x, y)
                 \/ \E k \in Both : FALSE \in E(k)
        <4>1. PICK q : q = Equality
          OBVIOUS
        <4>2. /\ TRUE \in Judged(q, x, y) <=>
                   /\ Borders(x) \cap Borders(y) # {} /\ SameKeys(x, y)
                   /\ \A k \in Both : TRUE \in q[<<heap[x][k], heap[y][k]>>]
              /\ FALSE \in Judged(q, x, y) <=>
                   \/ Cardinality(Borders(x) \cup Borders(y)) > 1 \/ ~SameKeys(x, y)
                   \/ \E k \in Both : FALSE \in q[<<heap[x][k], heap[y][k]>>]
          BY <2>6, JudgedSays
        <4>3. \A k : E(k) = q[<<heap[x][k], heap[y][k]>>]
          BY <4>1 DEF Equals
        <4> HIDE DEF E, Both
        <4> QED BY <2>3, <4>1, <4>2, <4>3
      <3>3. Content(heap, x) = Content(heap, y) <=> \A k \in Places : Alike(k)
        BY <2>6, ElementsTell
      <3>4. ASSUME NEW k \in Both
            PROVE  /\ k \in Places
                   /\ TRUE \in E(k) <=> Alike(k)
                   /\ (\A t \in Used : Whole(t)) => (FALSE \in E(k) <=> ~Alike(k))
        <4>1. PICK a, b : a = heap[x][k] /\ b = heap[y][k]
          OBVIOUS
        <4>2. /\ k \in Places /\ a # NoValue /\ b # NoValue
              /\ a \in Whatever /\ b \in Whatever /\ Rank(a) < Rank(x)
          BY <3>1, <4>1, KeysAre DEF KeysOf
        <4>3. a \in TreeValues /\ b \in TreeValues
          BY <4>2 DEF Whatever
        <4>4. Rank(a) \in Nat /\ Rank(x) \in Nat
          BY RankIs
        <4>5. Rank(a) \notin D
          <5> HIDE DEF D
          <5> QED BY <2>1, <2>2, <4>2, <4>4
        <4>6. Right(a, b)
          <5> HIDE DEF Right
          <5> QED BY <4>3, <4>4, <4>5
        <4> QED BY <4>1, <4>2, <4>6
      <3>5. ASSUME NEW k \in Places, Alike(k)
            PROVE  k \in KeysOf(x) <=> k \in KeysOf(y)
        <4>1. PICK a, b : a = heap[x][k] /\ b = heap[y][k]
          OBVIOUS
        <4>2. a \in Whatever /\ b \in Whatever /\ Content(heap, a) = Content(heap, b)
          BY <3>1, <3>5, <4>1, KeysAre
        <4>3. a = NoValue <=> b = NoValue
          BY <4>2, NothingTold
        <4> QED BY <4>1, <4>3 DEF KeysOf
      <3>6. ASSUME NEW k \in Places, k \notin KeysOf(x), k \notin KeysOf(y)
            PROVE  Alike(k)
        BY <3>6 DEF KeysOf
      <3>7. KeysOf(x) \subseteq Places /\ KeysOf(y) \subseteq Places
        BY DEF KeysOf
      <3>8. SameKeys(x, y) => Borders(x) = Borders(y)
        BY DEF SameKeys, Borders
      <3>9. Borders(x) # {}
        BY <3>1, ThereIsABorder
      <3> HIDE DEF E, Alike
      <3>10. (\A k \in Places : Alike(k)) => SameKeys(x, y)
        BY <3>5, <3>7 DEF SameKeys
      <3>11. SameKeys(x, y) => ((\A k \in Places : Alike(k)) <=> \A k \in Both : Alike(k))
        BY <3>6, <3>7 DEF SameKeys
      <3>12. TRUE \in Equals(x, y) <=> \A k \in Places : Alike(k)
        <4>1. (\A k \in Both : TRUE \in E(k)) <=> \A k \in Both : Alike(k)
          BY <3>4
        <4>2. SameKeys(x, y) => Borders(x) \cap Borders(y) # {}
          BY <3>8, <3>9
        <4> HIDE DEF Both
        <4> QED BY <3>2, <3>10, <3>11, <4>1, <4>2
      <3>13. ASSUME \A t \in Used : Whole(t)
             PROVE  FALSE \in Equals(x, y) <=> ~\A k \in Places : Alike(k)
        <4>1. (\E k \in Both : FALSE \in E(k)) <=> ~\A k \in Both : Alike(k)
          BY <3>4, <3>13
        <4>2. SameKeys(x, y) => ~(Cardinality(Borders(x) \cup Borders(y)) > 1)
          <5> SUFFICES ASSUME SameKeys(x, y) PROVE ~(Cardinality(Borders(x) \cup Borders(y)) > 1)
            OBVIOUS
          <5>1. PICK c : Borders(x) = {c}
            BY <3>1, <3>13, AllAreWhole, WholeHasOneBorder
          <5>2. Borders(x) \cup Borders(y) = {c}
            BY <3>8, <5>1
          <5>3. Cardinality({c}) = 1
            BY FS_Singleton
          <5> QED BY <5>2, <5>3
        <4> HIDE DEF Both
        <4> QED BY <3>2, <3>10, <3>11, <4>1, <4>2
      <3> QED BY <2>2, <3>3, <3>12, <3>13
    <2> QED BY <2>4, <2>5, <2>6
  <1>2. Right(v, w)
    <2>1. Rank(v) \in Nat
      BY RankIs
    <2> HIDE DEF Right
    <2> QED BY <1>1, <2>1
  <1>3. Equals(v, w) \subseteq BOOLEAN
    <2>1. Equals(v, w) = Judged(Equality, v, w)
      BY EqualsAre
    <2>2. Judged(Equality, v, w) \subseteq BOOLEAN
      BY Zenon DEF Judged
    <2> QED BY <2>1, <2>2
  <1> QED BY <1>2, <1>3

LEMMA EmptyIsTold ==
    ASSUME IsTree(heap), NEW t \in Heap
    PROVE  /\ IsEmpty(t) <=> \A k \in Places : heap[t][k] = NoValue
           /\ IsEmpty(t) <=> Content(heap, t) = <<"table", [k \in Places |-> <<"atom", NoValue>>]>>
  <1> DEFINE C == [k \in Places |-> Content(heap, heap[t][k])]
             E == [k \in Places |-> <<"atom", NoValue>>]
  <1>1. IsEmpty(t) <=> \A k \in Places : heap[t][k] = NoValue
    BY DEF IsEmpty, KeysOf, Borders
  <1>2. Content(heap, t) = <<"table", C>>
    BY ContentOfTable DEF IsTable
  <1>3. C = E <=> \A k \in Places : Content(heap, heap[t][k]) = <<"atom", NoValue>>
    <2>1. C = E => \A k \in Places : C[k] = E[k]
      OBVIOUS
    <2> QED BY <2>1
  <1>4. \A k \in Places : Content(heap, heap[t][k]) = <<"atom", NoValue>> <=> heap[t][k] = NoValue
    BY KeysAre, NothingTold
  <1> HIDE DEF C
  <1>5. Content(heap, t) = <<"table", E>> <=> C = E
    BY <1>2
  <1> QED BY <1>1, <1>3, <1>4, <1>5

LEMMA FindFinds ==
    ASSUME IsTree(heap), NEW t \in Heap, Whole(t), NEW v \in Atoms, NEW idx \in Places,
           NEW i \in FindFrom(t, v, idx)
    PROVE  /\ i # NoValue => i \in Find(t, v) /\ \A j \in idx..(i - 1) : heap[t][j] # v
           /\ i = NoValue => Find(t, v) \subseteq {NoValue} \cup 1..(idx - 1)
  <1> DEFINE c  == Cardinality(KeysOf(t))
             at == {k \in idx..c : heap[t][k] = v}
             ks == {k \in KeysOf(t) : heap[t][k] = v}
  <1>1. c \in Nat /\ KeysOf(t) = 1..c /\ KeysOf(t) \in SUBSET Places /\ idx \in Nat /\ idx >= 1
    BY KeysAre, RankIs DEF Whole, Places
  <1>2. i = IF at = {} THEN NoValue ELSE Min(at)
    <2>1. Borders(t) = {c}
      BY WholeHasOneBorder
    <2> HIDE DEF c
    <2> QED BY <2>1 DEF FindFrom
  <1> HIDE DEF c
  <1>3. NoValue \notin Places
    BY TableAssumption, RankIs DEF TreeValues, Heap, Places
  <1>4. Find(t, v) = IF ks = {} THEN {NoValue} ELSE ks
    BY DEF Find
  <1>5. CASE at = {}
    <2>1. i = NoValue
      BY <1>2, <1>5
    <2>2. ASSUME NEW k \in ks PROVE k \in 1..(idx - 1)
      <3>1. k \in 1..c /\ heap[t][k] = v /\ k \notin at
        BY <1>1, <1>5
      <3> QED BY <1>1, <3>1
    <2> QED BY <1>4, <2>1, <2>2
  <1>6. CASE at # {}
    <2>1. i = Min(at)
      BY <1>2, <1>6
    <2>2. PICK m \in at : \A y \in at : m <= y
      <3>1. at \in SUBSET Nat
        BY <1>1
      <3> HIDE DEF at
      <3> QED BY <1>6, <3>1, LeastNumber
    <2>3. i \in at /\ \A y \in at : i <= y
      <3> HIDE DEF at
      <3> QED BY <2>1, <2>2 DEF Min
    <2>4. i \in idx..c /\ i \in 1..c /\ heap[t][i] = v
      BY <1>1, <2>3
    <2>5. i \in ks /\ i # NoValue
      BY <1>1, <1>3, <2>4
    <2>6. ASSUME NEW j \in idx..(i - 1) PROVE heap[t][j] # v
      <3>1. j \in idx..c /\ ~(i <= j)
        BY <1>1, <2>4
      <3> QED BY <2>3, <3>1
    <2> QED BY <1>4, <2>5, <2>6
  <1> QED BY <1>5, <1>6

LEMMA TreesAreRight ==
    ASSUME IsTree(heap)
    PROVE  EqualsIsContent
  <1> SUFFICES ASSUME NEW t \in Used, NEW u \in Used
               PROVE  /\ TRUE \in Equals(t, u) <=> Content(heap, t) = Content(heap, u)
                      /\ (\A w \in Used : Whole(w)) =>
                             Equals(t, u) = {Content(heap, t) = Content(heap, u)}
                      /\ IsEmpty(t) <=>
                             Content(heap, t) = <<"table", [k \in Places |-> <<"atom", NoValue>>]>>
                      /\ Whole(t) => \A v \in Atoms, idx \in Places : \A i \in FindFrom(t, v, idx) :
                            /\ i # NoValue => i \in Find(t, v) /\ \A j \in idx..(i - 1) : heap[t][j] # v
                            /\ i = NoValue => Find(t, v) \subseteq {NoValue} \cup 1..(idx - 1)
                      /\ IsEmpty(t) \/ IsEmpty(u) => ~Intersects(t, u)
    BY Zenon DEF EqualsIsContent
  <1>1. t \in Heap /\ u \in Heap /\ t \in TreeValues /\ u \in TreeValues
    BY RankIs DEF Used, NewTable, Heap, TreeValues
  <1>2. TRUE \in Equals(t, u) <=> Content(heap, t) = Content(heap, u)
    BY <1>1, EqualsExact
  <1>3. ASSUME \A w \in Used : Whole(w)
        PROVE  Equals(t, u) = {Content(heap, t) = Content(heap, u)}
    <2>1. FALSE \in Equals(t, u) <=> Content(heap, t) # Content(heap, u)
      BY <1>1, <1>3, EqualsExact
    <2>2. Equals(t, u) \subseteq BOOLEAN
      BY <1>1, EqualsExact
    <2>3. CASE Content(heap, t) = Content(heap, u)
      <3>1. TRUE \in Equals(t, u) /\ FALSE \notin Equals(t, u)
        BY <1>2, <2>1, <2>3
      <3>2. Equals(t, u) = {TRUE}
        BY <2>2, <3>1, Zenon
      <3>3. (Content(heap, t) = Content(heap, u)) = TRUE
        BY <2>3, Zenon
      <3> QED BY <3>2, <3>3, Zenon
    <2>4. CASE Content(heap, t) # Content(heap, u)
      <3>1. TRUE \notin Equals(t, u) /\ FALSE \in Equals(t, u)
        BY <1>2, <2>1, <2>4
      <3>2. Equals(t, u) = {FALSE}
        BY <2>2, <3>1, Zenon
      <3>3. (Content(heap, t) = Content(heap, u)) = FALSE
        BY <2>4, Zenon
      <3> QED BY <3>2, <3>3, Zenon
    <2> QED BY <2>3, <2>4
  <1>4. IsEmpty(t) <=> Content(heap, t) = <<"table", [k \in Places |-> <<"atom", NoValue>>]>>
    BY <1>1, EmptyIsTold
  <1>5. ASSUME Whole(t), NEW v \in Atoms, NEW idx \in Places, NEW i \in FindFrom(t, v, idx)
        PROVE  /\ i # NoValue => i \in Find(t, v) /\ \A j \in idx..(i - 1) : heap[t][j] # v
               /\ i = NoValue => Find(t, v) \subseteq {NoValue} \cup 1..(idx - 1)
    BY <1>1, <1>5, FindFinds
  <1>6. IsEmpty(t) \/ IsEmpty(u) => ~Intersects(t, u)
    BY <1>1, EmptyIsTold DEF Intersects, KeysOf
  <1> QED BY <1>2, <1>3, <1>4, <1>5, <1>6

\* What holds besides: the tables of a tree, how far the last write to the new table
\* went, and which tables a deep clone holds.
TreeInv ==
    /\ IsTree(heap)
    /\ made = NoValue => writes = 0
    /\ made # NoValue /\ (writes \in {0, 1} \/ (writes = 2 /\ made = "deep")) =>
           Content(heap, Root) = before.root
    /\ made \in {"clone", "deep"} => before.new = before.root
    /\ made = "deep" => \A j \in Places :
           IsTable(heap[NewTable][j]) => heap[NewTable][j] = CloneAt(j)

LEMMA RanksAre ==
    /\ Root \in 1..Depth /\ 1..Depth \subseteq Heap /\ NewTable \in Heap /\ NewTable \notin 1..Depth
    /\ Rank(NewTable) = Depth + 2
    /\ \A t \in 1..Depth : Rank(t) = Depth + 1 - t
    /\ \A k \in Places : /\ CloneAt(k) \in Heap /\ CloneAt(k) # NewTable /\ CloneAt(k) \notin 1..Depth
                         /\ Rank(CloneAt(k)) = Depth + 1
    /\ \A t \in Heap : Rank(t) > 0
    /\ \A v : ~IsTable(v) => Rank(v) = 0
    /\ \A v : IsTable(v) /\ Rank(v) < Depth + 1 => v \in 1..Depth
  <1>1. Depth \in Nat \ {0} /\ MaxKey \in Nat \ {0}
    BY RankIs
  <1>2. \A t \in Heap : t \in Nat /\ t >= 1
    BY <1>1 DEF Heap
  <1>3. /\ Root \in 1..Depth /\ 1..Depth \subseteq Heap /\ NewTable \in Heap
        /\ NewTable \notin 1..Depth
    BY <1>1 DEF Root, NewTable, Heap
  <1>4. Rank(NewTable) = Depth + 2
    BY <1>1, <1>3 DEF Rank, IsTable, NewTable
  <1>5. \A t \in 1..Depth : Rank(t) = Depth + 1 - t
    BY <1>1, <1>3 DEF Rank, IsTable
  <1>6. ASSUME NEW k \in Places
        PROVE  /\ CloneAt(k) \in Heap /\ CloneAt(k) # NewTable /\ CloneAt(k) \notin 1..Depth
               /\ Rank(CloneAt(k)) = Depth + 1
    <2>1. k \in Nat /\ k >= 1 /\ k <= MaxKey
      BY <1>1 DEF Places
    <2>2. CloneAt(k) \in Heap /\ CloneAt(k) # NewTable /\ ~(CloneAt(k) <= Depth)
      BY <1>1, <2>1 DEF CloneAt, Heap, NewTable
    <2>3. CloneAt(k) \notin 1..Depth
      BY <2>2
    <2> QED BY <2>2, <2>3 DEF Rank, IsTable
  <1>7. \A t \in Heap : Rank(t) > 0
    BY <1>1, <1>2 DEF Rank, IsTable
  <1>8. \A v : ~IsTable(v) => Rank(v) = 0
    BY DEF Rank
  <1>9. ASSUME NEW v, IsTable(v), Rank(v) < Depth + 1 PROVE v \in 1..Depth
    <2>1. v \in Nat /\ v >= 1
      BY <1>2, <1>9 DEF IsTable
    <2>2. v <= Depth
      BY <1>1, <1>9 DEF Rank
    <2> QED BY <1>1, <2>1, <2>2
  <1> QED BY <1>3, <1>4, <1>5, <1>6, <1>7, <1>8, <1>9

\* Nothing is in the tables of the original but tables of the original: as long as
\* these are kept, so are their contents.
LEMMA OriginalKept ==
    ASSUME NEW h, IsTree(h), NEW g, IsTree(g), \A t \in 1..Depth : g[t] = h[t]
    PROVE  \A v \in Whatever : ~IsTable(v) \/ v \in 1..Depth => Content(g, v) = Content(h, v)
  <1> DEFINE X == 1..Depth
  <1>1. ASSUME NEW t \in X
        PROVE  /\ IsTable(t) /\ h[t] = g[t]
               /\ \A k \in Places : IsTable(h[t][k]) => h[t][k] \in X
    <2>1. t \in Heap /\ Rank(t) = Depth + 1 - t /\ t \in Nat /\ t >= 1
      BY RanksAre
    <2>2. ASSUME NEW k \in Places, IsTable(h[t][k]) PROVE h[t][k] \in X
      <3>1. Rank(h[t][k]) < Rank(t) /\ Rank(h[t][k]) \in Nat
        BY <2>1, RankIs DEF IsTree
      <3>2. Rank(h[t][k]) < Depth + 1
        BY <2>1, <3>1, RankIs
      <3> QED BY <2>2, <3>2, RanksAre
    <2> QED BY <2>1, <2>2 DEF IsTable
  <1> HIDE DEF X
  <1>2. \A v \in Whatever : ~IsTable(v) \/ v \in X => Content(h, v) = Content(g, v)
    BY <1>1, SameContents
  <1> QED BY <1>2 DEF X

\* What is in the tables of the original.
LEMMA InOriginal ==
    ASSUME NEW h, IsTree(h), NEW t \in 1..Depth, NEW k \in Places
    PROVE  /\ h[t][k] \in Whatever /\ Rank(h[t][k]) < Rank(t) /\ Rank(t) < Depth + 1
           /\ ~IsTable(h[t][k]) \/ h[t][k] \in 1..Depth
  <1>1. t \in Heap /\ Rank(t) = Depth + 1 - t /\ t \in Nat /\ t >= 1
    BY RanksAre
  <1>2. h[t][k] \in Whatever /\ Rank(h[t][k]) < Rank(t) /\ Rank(h[t][k]) \in Nat
    BY <1>1, RankIs DEF IsTree
  <1>3. Rank(h[t][k]) < Depth + 1 /\ Rank(t) < Depth + 1
    BY <1>1, <1>2, RankIs
  <1> QED BY <1>2, <1>3, RanksAre

\* A table of a tree gets other elements, all of smaller rank.
LEMMA TreeChanged ==
    ASSUME NEW h, IsTree(h), NEW t \in Heap, NEW e \in [Places -> Whatever],
           \A k \in Places : Rank(e[k]) < Rank(t)
    PROVE  IsTree([h EXCEPT ![t] = e])
  <1> DEFINE g == [h EXCEPT ![t] = e]
  <1>1. h \in [Heap -> [Places -> Whatever]]
    BY DEF IsTree
  <1>2. g \in [Heap -> [Places -> Whatever]]
    BY <1>1
  <1>3. ASSUME NEW u \in Heap, NEW k \in Places PROVE Rank(g[u][k]) < Rank(u)
    <2>1. CASE u = t
      BY <1>1, <2>1
    <2>2. CASE u # t
      <3>1. g[u] = h[u]
        BY <1>1, <2>2
      <3> QED BY <3>1 DEF IsTree
    <2> QED BY <2>1, <2>2
  <1> QED BY <1>2, <1>3 DEF IsTree

\* One element.
LEMMA ElementChanged ==
    ASSUME NEW h, IsTree(h), NEW t \in Heap, NEW k \in Places, NEW v \in Whatever,
           Rank(v) < Rank(t)
    PROVE  IsTree([h EXCEPT ![t][k] = v])
  <1> DEFINE e == [h[t] EXCEPT ![k] = v]
  <1>1. h[t] \in [Places -> Whatever] /\ \A j \in Places : Rank(h[t][j]) < Rank(t)
    BY DEF IsTree
  <1>2. e \in [Places -> Whatever]
    BY <1>1
  <1>3. \A j \in Places : Rank(e[j]) < Rank(t)
    BY <1>1
  <1>4. [h EXCEPT ![t][k] = v] = [h EXCEPT ![t] = e]
    BY DEF IsTree
  <1> HIDE DEF e
  <1> QED BY <1>2, <1>3, <1>4, TreeChanged

LEMMA DeepIs ==
    ASSUME IsTree(heap)
    PROVE  /\ IsTree(Deep)
           /\ \A t \in 1..Depth : Deep[t] = heap[t]
           /\ \A k \in Places : IsTable(Deep[NewTable][k]) => Deep[NewTable][k] = CloneAt(k)
           /\ Content(Deep, NewTable) = Content(heap, Root)
  <1> DEFINE Copies == [k \in Places |-> IF IsTable(heap[Root][k]) THEN CloneAt(k) ELSE heap[Root][k]]
  <1>1. heap \in [Heap -> [Places -> Whatever]]
    BY DEF IsTree
  <1>2. Deep[NewTable] = Copies
    BY RanksAre DEF Deep
  <1>3. \A t \in 1..Depth : Deep[t] = heap[t]
    <2>1. ASSUME NEW t \in 1..Depth PROVE t \in Heap /\ t # NewTable /\ ~(t > NewTable)
      BY RanksAre, RankIs DEF NewTable
    <2> QED BY <2>1 DEF Deep
  <1>4. ASSUME NEW k \in Places, IsTable(heap[Root][k])
        PROVE  Deep[CloneAt(k)] = heap[heap[Root][k]]
    <2>1. CloneAt(k) > NewTable /\ CloneAt(k) - NewTable = k
      BY RankIs DEF CloneAt, NewTable, Places
    <2>2. CloneAt(k) \in Heap /\ CloneAt(k) # NewTable
      BY RanksAre
    <2> QED BY <1>4, <2>1, <2>2 DEF Deep
  <1>5. \A k \in Places : /\ heap[Root][k] \in Whatever /\ Rank(heap[Root][k]) < Depth + 1
                          /\ ~IsTable(heap[Root][k]) \/ heap[Root][k] \in 1..Depth
    <2>1. ASSUME NEW k \in Places
          PROVE  /\ heap[Root][k] \in Whatever /\ Rank(heap[Root][k]) < Depth + 1
                 /\ ~IsTable(heap[Root][k]) \/ heap[Root][k] \in 1..Depth
      <3>1. /\ heap[Root][k] \in Whatever
            /\ Rank(heap[Root][k]) < Rank(Root) /\ Rank(Root) < Depth + 1
            /\ ~IsTable(heap[Root][k]) \/ heap[Root][k] \in 1..Depth
        BY RanksAre, InOriginal
      <3>2. Rank(heap[Root][k]) \in Nat /\ Rank(Root) \in Nat
        BY RankIs
      <3> QED BY <3>1, <3>2, RankIs
    <2> QED BY <2>1
  <1>6. ASSUME NEW t \in Heap
        PROVE  /\ Deep[t] \in [Places -> Whatever]
               /\ \A k \in Places : Rank(Deep[t][k]) < Rank(t)
    <2>1. CASE t = NewTable
      <3>1. Copies \in [Places -> Whatever]
        BY <1>5, RanksAre DEF Whatever, TreeValues
      <3>2. ASSUME NEW k \in Places PROVE Rank(Copies[k]) < Rank(t)
        <4>1. Rank(heap[Root][k]) \in Nat /\ Rank(heap[Root][k]) < Depth + 1
          BY <1>5, RankIs
        <4>2. Rank(CloneAt(k)) = Depth + 1 /\ Rank(t) = Depth + 2
          BY <2>1, RanksAre
        <4> QED BY <4>1, <4>2, RankIs
      <3> HIDE DEF Copies
      <3> QED BY <1>2, <2>1, <3>1, <3>2
    <2>2. CASE t > NewTable /\ t # NewTable /\ IsTable(heap[Root][t - NewTable])
      <3>1. PICK k : k = t - NewTable
        OBVIOUS
      <3>2. k \in Places /\ CloneAt(k) = t
        BY <2>2, <3>1, RankIs DEF Heap, NewTable, Places, CloneAt
      <3>3. PICK u : u = heap[Root][k]
        OBVIOUS
      <3>4. u \in 1..Depth /\ u \in Heap /\ Deep[t] = heap[u]
        BY <1>4, <1>5, <2>2, <3>1, <3>2, <3>3 DEF IsTable
      <3>5. ASSUME NEW j \in Places PROVE Rank(heap[u][j]) < Rank(t)
        <4>1. Rank(heap[u][j]) < Rank(u) /\ Rank(u) < Depth + 1 /\ Rank(t) = Depth + 1
          BY <3>2, <3>4, InOriginal, RanksAre
        <4>2. Rank(heap[u][j]) \in Nat /\ Rank(u) \in Nat
          BY RankIs
        <4> QED BY <4>1, <4>2, RankIs
      <3> QED BY <1>1, <3>4, <3>5
    <2>3. CASE t # NewTable /\ ~(t > NewTable /\ IsTable(heap[Root][t - NewTable]))
      <3>1. Deep[t] = heap[t]
        BY <2>3 DEF Deep
      <3> QED BY <3>1 DEF IsTree
    <2> QED BY <2>1, <2>2, <2>3
  <1>7. IsTree(Deep)
    <2>1. Deep \in [Heap -> [Places -> Whatever]]
      <3>1. \E d : Deep = [t \in Heap |-> d[t]]
        <4>1. Deep = [t \in Heap |-> Deep[t]]
          BY DEF Deep
        <4> QED BY <4>1
      <3> QED BY <1>6, <3>1
    <2> QED BY <1>6, <2>1 DEF IsTree
  <1>8. ASSUME NEW k \in Places
        PROVE  Content(Deep, Deep[NewTable][k]) = Content(heap, heap[Root][k])
    <2>1. CASE ~IsTable(heap[Root][k])
      <3>1. Deep[NewTable][k] = heap[Root][k]
        BY <1>2, <2>1
      <3> QED BY <1>3, <1>5, <1>7, <2>1, <3>1, OriginalKept
    <2>2. CASE IsTable(heap[Root][k])
      <3>1. PICK u, w : u = heap[Root][k] /\ w = CloneAt(k)
        OBVIOUS
      <3>2. /\ Deep[NewTable][k] = w /\ IsTable(w) /\ IsTable(u) /\ u \in 1..Depth
            /\ Deep[w] = heap[u]
        BY <1>2, <1>4, <1>5, <2>2, <3>1, RanksAre DEF IsTable
      <3>3. ASSUME NEW j \in Places
            PROVE  Content(Deep, Deep[w][j]) = Content(heap, heap[u][j])
        <4>1. heap[u][j] \in Whatever /\ (~IsTable(heap[u][j]) \/ heap[u][j] \in 1..Depth)
          BY <3>2, InOriginal
        <4>2. Content(Deep, heap[u][j]) = Content(heap, heap[u][j])
          BY <1>3, <1>7, <4>1, OriginalKept
        <4> QED BY <3>2, <4>2
      <3>4. Content(Deep, w) = Content(heap, u)
        BY <1>7, <3>2, <3>3, ElementsTell
      <3> QED BY <3>1, <3>2, <3>4
    <2> QED BY <2>1, <2>2
  <1>9. Content(Deep, NewTable) = Content(heap, Root)
    BY <1>7, <1>8, RanksAre, ElementsTell DEF IsTable
  <1>10. \A k \in Places : IsTable(Deep[NewTable][k]) => Deep[NewTable][k] = CloneAt(k)
    BY <1>2
  <1> QED BY <1>3, <1>7, <1>9, <1>10

\* The new table gets the elements e, the tables among them from the original.
LEMMA NewElements ==
    ASSUME IsTree(heap), NEW e \in [Places -> Whatever],
           \A k \in Places : e[k] = heap[Root][k] \/ ~IsTable(e[k])
    PROVE  LET h == [heap EXCEPT ![NewTable] = e]
           IN  /\ IsTree(h) /\ Content(h, Root) = Content(heap, Root)
               /\ e = heap[Root] => Content(h, NewTable) = Content(heap, Root)
  <1> DEFINE h == [heap EXCEPT ![NewTable] = e]
  <1>1. heap \in [Heap -> [Places -> Whatever]]
    BY DEF IsTree
  <1>2. ASSUME NEW k \in Places PROVE Rank(e[k]) < Rank(NewTable)
    <2>1. Rank(heap[Root][k]) < Rank(Root) /\ Rank(Root) < Depth + 1
      BY RanksAre, InOriginal
    <2>2. Rank(heap[Root][k]) \in Nat /\ Rank(Root) \in Nat /\ Rank(NewTable) = Depth + 2
      BY RankIs, RanksAre
    <2>3. e[k] = heap[Root][k] \/ Rank(e[k]) = 0
      BY RanksAre
    <2> QED BY <2>1, <2>2, <2>3, RankIs
  <1>3. IsTree(h)
    BY <1>2, RanksAre, TreeChanged
  <1>4. h[NewTable] = e /\ \A t \in 1..Depth : h[t] = heap[t]
    BY <1>1, RanksAre
  <1> HIDE DEF h
  <1>5. \A v \in Whatever : ~IsTable(v) \/ v \in 1..Depth => Content(h, v) = Content(heap, v)
    BY <1>3, <1>4, OriginalKept
  <1>6. Root \in Whatever /\ Root \in 1..Depth
    BY RanksAre DEF Whatever, TreeValues
  <1>7. ASSUME e = heap[Root] PROVE Content(h, NewTable) = Content(heap, Root)
    <2>1. ASSUME NEW k \in Places
          PROVE  Content(h, h[NewTable][k]) = Content(heap, heap[Root][k])
      <3>1. /\ heap[Root][k] \in Whatever
            /\ ~IsTable(heap[Root][k]) \/ heap[Root][k] \in 1..Depth
        BY RanksAre, InOriginal
      <3> QED BY <1>4, <1>5, <1>7, <3>1
    <2> QED BY <1>3, <2>1, RanksAre, ElementsTell DEF IsTable
  <1> QED BY <1>3, <1>5, <1>6, <1>7 DEF h

LEMMA TreeInit ==
    ASSUME TableInit
    PROVE  TreeInv
  <1>1. heap \in [Heap -> [Places -> Whatever]]
    BY DEF TableInit, Whatever
  <1>2. ASSUME NEW t \in Heap, NEW k \in Places PROVE Rank(heap[t][k]) < Rank(t)
    <2>1. heap[t][k] = NoValue
      BY DEF TableInit
    <2>2. ~IsTable(NoValue)
      BY TableAssumption DEF IsTable, TreeValues
    <2> QED BY <2>1, <2>2, RanksAre
  <1>3. NoValue # "deep" /\ NoValue \notin {"clone", "deep"}
    BY TableAssumption
  <1> QED BY <1>1, <1>2, <1>3 DEF TreeInv, IsTree, TableInit

\* The original is built: nothing is claimed of it yet.
LEMMA BuildingKeeps ==
    ASSUME TreeInv, made = NoValue, UNCHANGED <<made, before, writes>>, IsTree(heap')
    PROVE  TreeInv'
  <1>1. NoValue # "deep" /\ NoValue \notin {"clone", "deep"}
    BY TableAssumption
  <1> QED BY <1>1 DEF TreeInv

LEMMA PutElementKeeps ==
    ASSUME TreeInv, NEW t \in 1..Depth, NEW k \in Places, NEW v \in Atoms \cup 1..Depth,
           PutElement(t, k, v)
    PROVE  TreeInv'
  <1>1. t \in Heap /\ v \in Whatever /\ IsTree(heap)
    BY RanksAre DEF Whatever, TreeValues, TreeInv
  <1>2. Rank(v) < Rank(t)
    <2>1. CASE IsTable(v)
      <3>1. v \in 1..Depth
        BY <2>1, TableAssumption DEF IsTable
      <3>2. v > t
        BY <2>1 DEF PutElement
      <3>3. Rank(v) = Depth + 1 - v /\ Rank(t) = Depth + 1 - t
        BY <3>1, RanksAre
      <3> QED BY <3>1, <3>2, <3>3, RankIs
    <2>2. CASE ~IsTable(v)
      BY <1>1, <2>2, RanksAre
    <2> QED BY <2>1, <2>2
  <1>3. IsTree([heap EXCEPT ![t][k] = v])
    BY <1>1, <1>2, ElementChanged
  <1> QED BY <1>3, BuildingKeeps DEF PutElement

LEMMA AppliedIs ==
    ASSUME IsTree(heap), NEW f \in Functions
    PROVE  /\ Applied(f) \in [Places -> Whatever]
           /\ \A k \in Places : Applied(f)[k] = heap[Root][k] \/ ~IsTable(Applied(f)[k])
  <1>1. ASSUME NEW k \in Places
        PROVE  /\ Applied(f)[k] \in Whatever
               /\ Applied(f)[k] = heap[Root][k] \/ ~IsTable(Applied(f)[k])
    <2>1. PICK x : x = heap[Root][k]
      OBVIOUS
    <2>2. x \in Whatever
      BY <2>1, RanksAre, InOriginal
    <2>3. CASE x = NoValue
      BY <2>1, <2>2, <2>3 DEF Applied
    <2>4. CASE x # NoValue
      <3>1. Applied(f)[k] = f[x] /\ x \in Atoms \cup Heap
        BY <2>1, <2>2, <2>4 DEF Applied, Whatever, TreeValues
      <3>2. \A a \in Atoms \cup {NoValue} : a \in Whatever /\ ~IsTable(a)
        BY TableAssumption DEF IsTable, Whatever, TreeValues
      <3>3. f[x] \in Atoms \cup {NoValue} \/ f[x] = x
        BY <3>1 DEF Functions
      <3> QED BY <2>1, <2>2, <3>1, <3>2, <3>3
    <2> QED BY <2>3, <2>4
  <1>2. Applied(f) = [k \in Places |-> Applied(f)[k]]
    BY DEF Applied
  <1>3. Applied(f) \in [Places -> Whatever]
    <2> DEFINE g == Applied(f)
    <2> HIDE DEF g
    <2>1. g = [k \in Places |-> g[k]] /\ \A k \in Places : g[k] \in Whatever
      BY <1>1, <1>2 DEF g
    <2>2. g \in [Places -> Whatever]
      BY <2>1
    <2> QED BY <2>2 DEF g
  <1> QED BY <1>1, <1>3

LEMMA ForEachKeeps ==
    ASSUME TreeInv, NEW f \in Functions, ForEach(f)
    PROVE  TreeInv'
  <1>1. IsTree(heap) /\ Root \in Heap
    BY RanksAre DEF TreeInv
  <1> DEFINE e == Applied(f)
  <1>2. e \in [Places -> Whatever]
    BY <1>1, AppliedIs
  <1>3. ASSUME NEW k \in Places PROVE Rank(e[k]) < Rank(Root)
    <2>1. Rank(heap[Root][k]) < Rank(Root) /\ Rank(Root) > 0
      BY <1>1, RanksAre DEF IsTree
    <2>2. e[k] = heap[Root][k] \/ Rank(e[k]) = 0
      BY <1>1, AppliedIs, RanksAre
    <2> HIDE DEF e
    <2> QED BY <2>1, <2>2
  <1>4. heap' = [heap EXCEPT ![Root] = e]
    BY DEF ForEach
  <1> HIDE DEF e
  <1>5. IsTree([heap EXCEPT ![Root] = e])
    BY <1>1, <1>2, <1>3, TreeChanged
  <1> QED BY <1>4, <1>5, BuildingKeeps DEF ForEach

\* The new table is made: h is the heap with it.
LEMMA MakingKeeps ==
    ASSUME TreeInv, NEW op \in {"clone", "deep", "map"}, NEW h, Makes(op, h),
           IsTree(h), Content(h, Root) = Content(heap, Root),
           op # "map" => Content(h, NewTable) = Content(heap, Root),
           op = "deep" => \A j \in Places : IsTable(h[NewTable][j]) => h[NewTable][j] = CloneAt(j)
    PROVE  TreeInv'
  <1>1. /\ made' = op /\ heap' = h /\ writes' = writes /\ writes = 0
        /\ before'.root = Content(heap, Root) /\ before'.new = Content(h, NewTable)
    BY DEF Makes, TreeInv
  <1>2. made' \in {"clone", "deep"} => op # "map"
    BY <1>1
  <1>3. IsTree(heap')
    BY <1>1
  <1>4. Content(heap', Root) = before'.root
    BY <1>1
  <1>5. made' \in {"clone", "deep"} => before'.new = before'.root
    BY <1>1, <1>2
  <1>6. made' = "deep" => \A j \in Places :
            IsTable(heap'[NewTable][j]) => heap'[NewTable][j] = CloneAt(j)
    BY <1>1
  <1> QED BY <1>1, <1>3, <1>4, <1>5, <1>6 DEF TreeInv

LEMMA CloneKeeps ==
    ASSUME TreeInv, NEW deep \in BOOLEAN, CloneTable(deep)
    PROVE  TreeInv'
  <1>1. IsTree(heap)
    BY DEF TreeInv
  <1>2. CASE deep
    <2>1. Makes("deep", Deep)
      BY <1>2 DEF CloneTable
    <2>2. Content(Deep, Root) = Content(heap, Root)
      BY <1>1, DeepIs, OriginalKept, RanksAre DEF Whatever, TreeValues
    <2> QED BY <1>1, <2>1, <2>2, DeepIs, MakingKeeps
  <1>3. CASE ~deep
    <2>1. Makes("clone", [heap EXCEPT ![NewTable] = heap[Root]])
      BY <1>3 DEF CloneTable
    <2>2. heap[Root] \in [Places -> Whatever]
      BY <1>1, RanksAre DEF IsTree
    <2>3. PICK h : h = [heap EXCEPT ![NewTable] = heap[Root]]
      OBVIOUS
    <2>4. /\ IsTree(h) /\ Content(h, Root) = Content(heap, Root)
          /\ Content(h, NewTable) = Content(heap, Root)
      BY <1>1, <2>2, <2>3, NewElements
    <2> QED BY <2>1, <2>3, <2>4, MakingKeeps
  <1> QED BY <1>2, <1>3

LEMMA MapKeeps ==
    ASSUME TreeInv, NEW f \in Functions, MapTable(f)
    PROVE  TreeInv'
  <1>1. IsTree(heap)
    BY DEF TreeInv
  <1>2. PICK h : h = [heap EXCEPT ![NewTable] = Applied(f)]
    OBVIOUS
  <1>3. Makes("map", h)
    BY <1>2 DEF MapTable
  <1>4. IsTree(h) /\ Content(h, Root) = Content(heap, Root)
    BY <1>1, <1>2, AppliedIs, NewElements
  <1> QED BY <1>3, <1>4, MakingKeeps

LEMMA WriteToKeeps ==
    ASSUME TreeInv, NEW t, NEW k \in Places, NEW v \in Atoms \cup {NoValue}, NEW n \in 1..3,
           WriteTo(t, k, v, n),
           n = 1 \/ (n = 2 /\ made = "deep") => t \notin 1..Depth
    PROVE  TreeInv'
  <1>1. /\ made # NoValue /\ writes = 0 /\ t \in Heap /\ IsTree(heap)
        /\ heap' = [heap EXCEPT ![t][k] = v] /\ writes' = n
        /\ made' = made /\ before' = before
    BY DEF WriteTo, IsTable, TreeInv
  <1>2. v \in Whatever /\ ~IsTable(v)
    BY TableAssumption DEF IsTable, Whatever, TreeValues
  <1>3. IsTree([heap EXCEPT ![t][k] = v])
    BY <1>1, <1>2, RanksAre, ElementChanged
  <1>4. PICK h : h = [heap EXCEPT ![t][k] = v]
    OBVIOUS
  <1>5. IsTree(h) /\ heap' = h
    BY <1>1, <1>3, <1>4
  <1>6. heap \in [Heap -> [Places -> Whatever]]
    BY <1>1 DEF IsTree
  <1>7. ASSUME n = 1 \/ (n = 2 /\ made = "deep") PROVE Content(h, Root) = before.root
    <2>1. t \notin 1..Depth
      BY <1>7
    <2>2. \A u \in 1..Depth : h[u] = heap[u]
      BY <1>4, <1>6, <2>1, RanksAre
    <2>3. Content(h, Root) = Content(heap, Root)
      BY <1>1, <1>5, <2>2, RanksAre, OriginalKept DEF Whatever, TreeValues
    <2> QED BY <1>1, <2>3 DEF TreeInv
  <1>8. ASSUME made = "deep", NEW j \in Places, IsTable(h[NewTable][j])
        PROVE  h[NewTable][j] = CloneAt(j)
    <2>1. h[NewTable][j] = v \/ h[NewTable][j] = heap[NewTable][j]
      BY <1>1, <1>4, <1>6, RanksAre
    <2> QED BY <1>2, <1>8, <2>1 DEF TreeInv
  <1>9. Content(heap', Root) = Content(h, Root)
    BY <1>5
  <1>10. made' # NoValue /\ (writes' \in {0, 1} \/ (writes' = 2 /\ made' = "deep")) =>
             Content(heap', Root) = before'.root
    BY <1>1, <1>7, <1>9
  <1>11. made' \in {"clone", "deep"} => before'.new = before'.root
    BY <1>1 DEF TreeInv
  <1>12. made' = "deep" => \A j \in Places :
             IsTable(heap'[NewTable][j]) => heap'[NewTable][j] = CloneAt(j)
    BY <1>1, <1>5, <1>8
  <1> QED BY <1>1, <1>5, <1>10, <1>11, <1>12 DEF TreeInv

LEMMA WriteNewKeeps ==
    ASSUME TreeInv, NEW k \in Places, NEW v \in Atoms \cup {NoValue}, WriteNew(k, v)
    PROVE  TreeInv'
  <1>1. CASE WriteTo(NewTable, k, v, 1)
    BY <1>1, RanksAre, WriteToKeeps
  <1>2. ASSUME NEW j \in Places, WriteTo(heap[NewTable][j], k, v, 2) PROVE TreeInv'
    <2>1. made = "deep" => heap[NewTable][j] \notin 1..Depth
      <3>1. IsTable(heap[NewTable][j])
        BY <1>2 DEF WriteTo
      <3> QED BY <3>1, RanksAre DEF TreeInv
    <2>2. PICK t : t = heap[NewTable][j]
      OBVIOUS
    <2> QED BY <1>2, <2>1, <2>2, WriteToKeeps
  <1>3. ASSUME NEW i \in Places, NEW j \in Places, WriteTo(heap[heap[NewTable][i]][j], k, v, 3)
        PROVE  TreeInv'
    <2>1. PICK t : t = heap[heap[NewTable][i]][j]
      OBVIOUS
    <2> QED BY <1>3, <2>1, WriteToKeeps
  <1> QED BY <1>1, <1>2, <1>3 DEF WriteNew

LEMMA TreeStep ==
    ASSUME TreeInv, [TableNext]_tableVars
    PROVE  TreeInv'
  <1>1. ASSUME NEW t \in 1..Depth, NEW k \in Places, NEW v \in Atoms \cup 1..Depth,
               PutElement(t, k, v)
        PROVE  TreeInv'
    BY <1>1, PutElementKeeps
  <1>2. ASSUME NEW deep \in BOOLEAN, CloneTable(deep) PROVE TreeInv'
    BY <1>2, CloneKeeps
  <1>3. ASSUME NEW f \in Functions, MapTable(f) PROVE TreeInv'
    BY <1>3, MapKeeps
  <1>4. ASSUME NEW f \in Functions, ForEach(f) PROVE TreeInv'
    BY <1>4, ForEachKeeps
  <1>5. ASSUME NEW k \in Places, NEW v \in Atoms \cup {NoValue}, WriteNew(k, v) PROVE TreeInv'
    BY <1>5, WriteNewKeeps
  <1>6. CASE UNCHANGED tableVars
    BY <1>6 DEF tableVars, TreeInv
  <1> QED BY <1>1, <1>2, <1>3, <1>4, <1>5, <1>6 DEF TableNext

\* The functions of t.Table keep their promises on every tree of tables: equals tells
\* contents apart at any depth, find, isempty and intersects agree with the keys, and
\* what is written to a copy does not show in the original as deep as the copy goes.
THEOREM TreesOfTablesAreKept == TableSpec => []TablesKept
  <1>1. TableInit => TreeInv
    BY TreeInit
  <1>2. TreeInv /\ [TableNext]_tableVars => TreeInv'
    BY TreeStep
  <1>3. TreeInv => TablesKept
    <2> SUFFICES ASSUME TreeInv PROVE TablesKept
      OBVIOUS
    <2>1. EqualsIsContent
      BY TreesAreRight DEF TreeInv
    <2>2. writes = 1 \/ (writes = 2 /\ made = "deep") => Content(heap, Root) = before.root
      BY DEF TreeInv
    <2>3. made \in {"clone", "deep"} => before.new = before.root
      BY DEF TreeInv
    <2>4. ASSUME made = "deep", NEW j \in Places, NEW k \in Places,
                 IsTable(heap[NewTable][j]), heap[NewTable][j] = heap[NewTable][k]
          PROVE  j = k
      <3>1. CloneAt(j) = CloneAt(k)
        BY <2>4 DEF TreeInv
      <3> QED BY <3>1, RankIs DEF CloneAt, Places
    <2> QED BY <2>1, <2>2, <2>3, <2>4 DEF TablesKept, CopiesStayApart
  <1> QED BY <1>1, <1>2, <1>3, PTL DEF TableSpec

-----------------------------------------------------------------------------
(***************************************************************************)
(* Csv: for texts of any length that are written as documented, with any   *)
(* values in quotes.                                                       *)
(***************************************************************************)

LEMMA Dialect ==
    /\ Dlm # Qte /\ Dlm # "\n" /\ Dlm # "\r" /\ Dlm # " "
    /\ Qte # "\n" /\ Qte # "\r" /\ Qte # " "
    /\ "\n" # "\r" /\ "\n" # " " /\ "\r" # " "
  BY DialectAssumption

\* Each function of the model that reads a text or counts lines is what its equation
\* says of it: below the first argument for which there is no such function there is
\* one, and it goes on by one.
LEMMA UndoublingIs ==
    ASSUME NEW S, NEW s \in Seq(S)
    PROVE  \A i \in 0..Len(s) :
               Undoubling(s)[i] =
                   IF i = 0 THEN [out |-> <<>>, odd |-> 0]
                   ELSE LET m == Undoubling(s)[i - 1]
                        IN  IF s[i] = Qte /\ m.odd = 1 THEN [m EXCEPT !.odd = 0]
                            ELSE [out |-> Append(m.out, s[i]), odd |-> IF s[i] = Qte THEN 1 ELSE 0]
  <1> DEFINE G(f, i) == IF i = 0 THEN [out |-> <<>>, odd |-> 0]
                        ELSE LET m == f[i - 1]
                             IN  IF s[i] = Qte /\ m.odd = 1 THEN [m EXCEPT !.odd = 0]
                                 ELSE [out |-> Append(m.out, s[i]), odd |-> IF s[i] = Qte THEN 1 ELSE 0]
             n == Len(s)
             r == Undoubling(s)
             D == {j \in 0..n : ~\E f : f = [i \in 0..j |-> G(f, i)]}
  <1>1. n \in Nat
    OBVIOUS
  <1> HIDE DEF n
  <1>2. D = {}
    <2> SUFFICES ASSUME D # {} PROVE FALSE
      OBVIOUS
    <2>1. PICK j \in D : \A m \in D : j <= m
      <3>1. D \in SUBSET Nat
        BY <1>1
      <3> HIDE DEF D
      <3> QED BY <3>1, LeastNumber
    <2>2. j \in 0..n /\ j \in Nat /\ ~\E f : f = [i \in 0..j |-> G(f, i)]
      BY <1>1, <2>1
    <2>3. PICK f : \A i \in 0..(j - 1) : f[i] = G(f, i)
      <3>1. CASE j = 0
        <4>1. \A i : i \notin 0..(j - 1)
          BY <3>1
        <4> QED BY <4>1
      <3>2. CASE j # 0
        <4>1. j - 1 \in 0..n /\ ~(j <= j - 1)
          BY <1>1, <2>2, <3>2
        <4>2. j - 1 \notin D
          <5> HIDE DEF D
          <5> QED BY <2>1, <4>1
        <4>3. PICK f : f = [i \in 0..(j - 1) |-> G(f, i)]
          <5> HIDE DEF G
          <5> QED BY <4>1, <4>2
        <4> HIDE DEF G
        <4>4. \A i \in 0..(j - 1) : f[i] = G(f, i)
          BY <4>3
        <4> QED BY <4>4
      <3> QED BY <3>1, <3>2
    <2> DEFINE g == [i \in 0..j |-> G(f, i)]
    <2>4. ASSUME NEW i \in 0..j PROVE G(f, i) = G(g, i)
      <3>1. CASE i = 0
        BY <3>1
      <3>2. CASE i # 0
        <4>1. i - 1 \in 0..(j - 1) /\ i - 1 \in 0..j
          BY <2>2, <3>2
        <4>2. f[i - 1] = g[i - 1]
          <5> HIDE DEF G
          <5> QED BY <2>3, <4>1
        <4> HIDE DEF g
        <4> QED BY <4>2
      <3> QED BY <3>1, <3>2
    <2>5. g = [i \in 0..j |-> G(g, i)]
      <3> HIDE DEF G
      <3>1. [i \in 0..j |-> G(g, i)] = [i \in 0..j |-> G(f, i)]
        <4> HIDE DEF g
        <4> QED BY <2>4
      <3> QED BY <3>1
    <2> HIDE DEF G
    <2> QED BY <2>2, <2>5
  <1>3. \E f : f = [i \in 0..n |-> G(f, i)]
    <2>1. n \in 0..n
      BY <1>1
    <2> HIDE DEF G
    <2> QED BY <1>2, <2>1
  <1>4. r = CHOOSE f : f = [i \in 0..n |-> G(f, i)]
    BY DEF Undoubling, n
  <1> HIDE DEF r
  <1>5. r = [i \in 0..n |-> G(r, i)]
    <2> HIDE DEF G
    <2> QED BY <1>3, <1>4
  <1>6. \A i \in 0..n : r[i] = G(r, i)
    <2> HIDE DEF G
    <2> QED BY <1>5
  <1> QED BY <1>6 DEF r, n
LEMMA ParserIs ==
    ASSUME NEW S, NEW s \in Seq(S), NEW row, NEW cnt
    PROVE  \A i \in 0..Len(s) :
               Parser(s, row, cnt)[i] =
                   IF i = 0
                   THEN [ste |-> "FldBeg", beg |-> 1, len |-> 0, fld |-> 1, hdb |-> 0, cnt |-> cnt, row |-> row]
                   ELSE Turn(s, Parser(s, row, cnt)[i - 1], i)
  <1> DEFINE G(f, i) == IF i = 0
                        THEN [ste |-> "FldBeg", beg |-> 1, len |-> 0, fld |-> 1, hdb |-> 0, cnt |-> cnt, row |-> row]
                        ELSE Turn(s, f[i - 1], i)
             n == Len(s)
             r == Parser(s, row, cnt)
             D == {j \in 0..n : ~\E f : f = [i \in 0..j |-> G(f, i)]}
  <1>1. n \in Nat
    OBVIOUS
  <1> HIDE DEF n
  <1>2. D = {}
    <2> SUFFICES ASSUME D # {} PROVE FALSE
      OBVIOUS
    <2>1. PICK j \in D : \A m \in D : j <= m
      <3>1. D \in SUBSET Nat
        BY <1>1
      <3> HIDE DEF D
      <3> QED BY <3>1, LeastNumber
    <2>2. j \in 0..n /\ j \in Nat /\ ~\E f : f = [i \in 0..j |-> G(f, i)]
      BY <1>1, <2>1
    <2>3. PICK f : \A i \in 0..(j - 1) : f[i] = G(f, i)
      <3>1. CASE j = 0
        <4>1. \A i : i \notin 0..(j - 1)
          BY <3>1
        <4> QED BY <4>1
      <3>2. CASE j # 0
        <4>1. j - 1 \in 0..n /\ ~(j <= j - 1)
          BY <1>1, <2>2, <3>2
        <4>2. j - 1 \notin D
          <5> HIDE DEF D
          <5> QED BY <2>1, <4>1
        <4>3. PICK f : f = [i \in 0..(j - 1) |-> G(f, i)]
          <5> HIDE DEF G
          <5> QED BY <4>1, <4>2
        <4> HIDE DEF G
        <4>4. \A i \in 0..(j - 1) : f[i] = G(f, i)
          BY <4>3
        <4> QED BY <4>4
      <3> QED BY <3>1, <3>2
    <2> DEFINE g == [i \in 0..j |-> G(f, i)]
    <2>4. ASSUME NEW i \in 0..j PROVE G(f, i) = G(g, i)
      <3>1. CASE i = 0
        BY <3>1
      <3>2. CASE i # 0
        <4>1. i - 1 \in 0..(j - 1) /\ i - 1 \in 0..j
          BY <2>2, <3>2
        <4>2. f[i - 1] = g[i - 1]
          <5> HIDE DEF G
          <5> QED BY <2>3, <4>1
        <4> HIDE DEF g
        <4> QED BY <4>2
      <3> QED BY <3>1, <3>2
    <2>5. g = [i \in 0..j |-> G(g, i)]
      <3> HIDE DEF G
      <3>1. [i \in 0..j |-> G(g, i)] = [i \in 0..j |-> G(f, i)]
        <4> HIDE DEF g
        <4> QED BY <2>4
      <3> QED BY <3>1
    <2> HIDE DEF G
    <2> QED BY <2>2, <2>5
  <1>3. \E f : f = [i \in 0..n |-> G(f, i)]
    <2>1. n \in 0..n
      BY <1>1
    <2> HIDE DEF G
    <2> QED BY <1>2, <2>1
  <1>4. r = CHOOSE f : f = [i \in 0..n |-> G(f, i)]
    BY DEF Parser, n
  <1> HIDE DEF r
  <1>5. r = [i \in 0..n |-> G(r, i)]
    <2> HIDE DEF G
    <2> QED BY <1>3, <1>4
  <1>6. \A i \in 0..n : r[i] = G(r, i)
    <2> HIDE DEF G
    <2> QED BY <1>5
  <1> QED BY <1>6 DEF r, n

LEMMA SkippingIs ==
    ASSUME doc.skip \in Nat
    PROVE  \A i \in 0..doc.skip :
               Skipping[i] = IF i = 0 THEN 0 ELSE Source(Skipping[i - 1]).its
  <1> DEFINE G(f, i) == IF i = 0 THEN 0 ELSE Source(f[i - 1]).its
             n == doc.skip
             r == Skipping
             D == {j \in 0..n : ~\E f : f = [i \in 0..j |-> G(f, i)]}
  <1>1. n \in Nat
    OBVIOUS
  <1> HIDE DEF n
  <1>2. D = {}
    <2> SUFFICES ASSUME D # {} PROVE FALSE
      OBVIOUS
    <2>1. PICK j \in D : \A m \in D : j <= m
      <3>1. D \in SUBSET Nat
        BY <1>1
      <3> HIDE DEF D
      <3> QED BY <3>1, LeastNumber
    <2>2. j \in 0..n /\ j \in Nat /\ ~\E f : f = [i \in 0..j |-> G(f, i)]
      BY <1>1, <2>1
    <2>3. PICK f : \A i \in 0..(j - 1) : f[i] = G(f, i)
      <3>1. CASE j = 0
        <4>1. \A i : i \notin 0..(j - 1)
          BY <3>1
        <4> QED BY <4>1
      <3>2. CASE j # 0
        <4>1. j - 1 \in 0..n /\ ~(j <= j - 1)
          BY <1>1, <2>2, <3>2
        <4>2. j - 1 \notin D
          <5> HIDE DEF D
          <5> QED BY <2>1, <4>1
        <4>3. PICK f : f = [i \in 0..(j - 1) |-> G(f, i)]
          <5> HIDE DEF G
          <5> QED BY <4>1, <4>2
        <4> HIDE DEF G
        <4>4. \A i \in 0..(j - 1) : f[i] = G(f, i)
          BY <4>3
        <4> QED BY <4>4
      <3> QED BY <3>1, <3>2
    <2> DEFINE g == [i \in 0..j |-> G(f, i)]
    <2>4. ASSUME NEW i \in 0..j PROVE G(f, i) = G(g, i)
      <3>1. CASE i = 0
        BY <3>1
      <3>2. CASE i # 0
        <4>1. i - 1 \in 0..(j - 1) /\ i - 1 \in 0..j
          BY <2>2, <3>2
        <4>2. f[i - 1] = g[i - 1]
          <5> HIDE DEF G
          <5> QED BY <2>3, <4>1
        <4> HIDE DEF g
        <4> QED BY <4>2
      <3> QED BY <3>1, <3>2
    <2>5. g = [i \in 0..j |-> G(g, i)]
      <3> HIDE DEF G
      <3>1. [i \in 0..j |-> G(g, i)] = [i \in 0..j |-> G(f, i)]
        <4> HIDE DEF g
        <4> QED BY <2>4
      <3> QED BY <3>1
    <2> HIDE DEF G
    <2> QED BY <2>2, <2>5
  <1>3. \E f : f = [i \in 0..n |-> G(f, i)]
    <2>1. n \in 0..n
      BY <1>1
    <2> HIDE DEF G
    <2> QED BY <1>2, <2>1
  <1>4. r = CHOOSE f : f = [i \in 0..n |-> G(f, i)]
    BY DEF Skipping, n
  <1> HIDE DEF r
  <1>5. r = [i \in 0..n |-> G(r, i)]
    <2> HIDE DEF G
    <2> QED BY <1>3, <1>4
  <1>6. \A i \in 0..n : r[i] = G(r, i)
    <2> HIDE DEF G
    <2> QED BY <1>5
  <1> QED BY <1>6 DEF r, n
LEMMA MatchingIs ==
    ASSUME NEW S, NEW text \in Seq(S), NEW dlm, NEW from \in 0..Len(text)
    PROVE  \A i \in from..Len(text) : Matching(text, dlm, from)[i] =
            IF i = from THEN [d |-> 0, at |-> 0]
            ELSE LET m == Matching(text, dlm, from)[i - 1]
                     d == Matched(dlm, m.d, text[i])
                 IN  IF m.at > 0 THEN m ELSE [d |-> d, at |-> IF d = Len(dlm) THEN i ELSE 0]
  <1> DEFINE G(f, i) ==
            IF i = from THEN [d |-> 0, at |-> 0]
            ELSE LET m == f[i - 1]
                     d == Matched(dlm, m.d, text[i])
                 IN  IF m.at > 0 THEN m ELSE [d |-> d, at |-> IF d = Len(dlm) THEN i ELSE 0]
             n == Len(text)
             r == Matching(text, dlm, from)
             D == {j \in from..n : ~\E f : f = [i \in from..j |-> G(f, i)]}
  <1>1. n \in Nat /\ from \in Nat /\ from <= n
    OBVIOUS
  <1> HIDE DEF n
  <1>2. D = {}
    <2> SUFFICES ASSUME D # {} PROVE FALSE
      OBVIOUS
    <2>1. PICK j \in D : \A m \in D : j <= m
      <3>1. D \in SUBSET Nat
        BY <1>1
      <3> HIDE DEF D
      <3> QED BY <3>1, LeastNumber
    <2>2. j \in from..n /\ j \in Nat /\ ~\E f : f = [i \in from..j |-> G(f, i)]
      BY <1>1, <2>1
    <2>3. PICK f : \A i \in from..(j - 1) : f[i] = G(f, i)
      <3>1. CASE j = from
        <4>1. \A i : i \notin from..(j - 1)
          BY <3>1
        <4> QED BY <4>1
      <3>2. CASE j # from
        <4>1. j - 1 \in from..n /\ ~(j <= j - 1)
          BY <1>1, <2>2, <3>2
        <4>2. j - 1 \notin D
          <5> HIDE DEF D
          <5> QED BY <2>1, <4>1
        <4>3. PICK f : f = [i \in from..(j - 1) |-> G(f, i)]
          <5> HIDE DEF G
          <5> QED BY <4>1, <4>2
        <4> HIDE DEF G
        <4>4. \A i \in from..(j - 1) : f[i] = G(f, i)
          BY <4>3
        <4> QED BY <4>4
      <3> QED BY <3>1, <3>2
    <2> DEFINE g == [i \in from..j |-> G(f, i)]
    <2>4. ASSUME NEW i \in from..j PROVE G(f, i) = G(g, i)
      <3>1. CASE i = from
        BY <3>1
      <3>2. CASE i # from
        <4>1. i - 1 \in from..(j - 1) /\ i - 1 \in from..j
          BY <2>2, <3>2
        <4>2. f[i - 1] = g[i - 1]
          <5> HIDE DEF G
          <5> QED BY <2>3, <4>1
        <4> HIDE DEF g
        <4> QED BY <4>2
      <3> QED BY <3>1, <3>2
    <2>5. g = [i \in from..j |-> G(g, i)]
      <3> HIDE DEF G
      <3>1. [i \in from..j |-> G(g, i)] = [i \in from..j |-> G(f, i)]
        <4> HIDE DEF g
        <4> QED BY <2>4
      <3> QED BY <3>1
    <2> HIDE DEF G
    <2> QED BY <2>2, <2>5
  <1>3. \E f : f = [i \in from..n |-> G(f, i)]
    <2>1. n \in from..n
      BY <1>1
    <2> HIDE DEF G
    <2> QED BY <1>2, <2>1
  <1>4. r = CHOOSE f : f = [i \in from..n |-> G(f, i)]
    BY DEF Matching, n
  <1> HIDE DEF r
  <1>5. r = [i \in from..n |-> G(r, i)]
    <2> HIDE DEF G
    <2> QED BY <1>3, <1>4
  <1>6. \A i \in from..n : r[i] = G(r, i)
    <2> HIDE DEF G
    <2> QED BY <1>5
  <1> QED BY <1>6 DEF r, n

\* What a call of the iterator returns: the text up to the next line end, the one that
\* comes at last included.
LEMMA SplitIs ==
    ASSUME NEW S, NEW text \in Seq(S), NEW from \in 0..Len(text)
    PROVE  LET t == Append(text, "\n")
           IN  \E j \in (from + 1)..Len(t) :
                   /\ t[j] = "\n" /\ OneLine(t, from + 1, j - 1)
                   /\ Split(text, <<"\n">>, FALSE, from) = [token |-> SubSeq(t, from + 1, j - 1), its |-> j]
  <1> DEFINE t == Append(text, "\n")
             n == Len(text)
             dlm == <<"\n">>
             M == Matching(text, dlm, from)
             After(i) == /\ M[i].at = 0 => M[i].d = 0 /\ OneLine(text, from + 1, i)
                         /\ M[i].at # 0 => /\ M[i].at \in (from + 1)..i /\ text[M[i].at] = "\n"
                                          /\ OneLine(text, from + 1, M[i].at - 1)
             D == {i \in from..n : ~After(i)}
  <1>1. n \in Nat /\ from \in Nat /\ from <= n /\ Len(dlm) = 1 /\ dlm[1] = "\n"
    OBVIOUS
  <1>2. /\ Len(t) = n + 1 /\ t[n + 1] = "\n" /\ \A i \in 1..n : t[i] = text[i]
        /\ t \in Seq(S \cup {"\n"})
    OBVIOUS
  <1> DEFINE d(i) == Matched(dlm, M[i - 1].d, text[i])
             Fresh(i) == [d |-> d(i), at |-> IF d(i) = Len(dlm) THEN i ELSE 0]
  <1>3. \A i \in from..n :
            M[i] = IF i = from THEN [d |-> 0, at |-> 0]
                   ELSE IF M[i - 1].at > 0 THEN M[i - 1] ELSE Fresh(i)
    <2> HIDE DEF dlm
    <2> QED BY MatchingIs
  <1> HIDE DEF M, n, t, dlm, d, Fresh
  <1>4. M[from] = [d |-> 0, at |-> 0]
    <2>1. from \in from..n
      BY <1>1
    <2> QED BY <1>3, <2>1
  <1>5. \A i \in (from + 1)..n :
             /\ M[i - 1].at > 0 => M[i] = M[i - 1]
             /\ ~(M[i - 1].at > 0) => M[i] = Fresh(i)
    <2> TAKE i \in (from + 1)..n
    <2>1. i \in from..n /\ i # from
      BY <1>1
    <2> QED BY <1>3, <2>1
  <1>6. D = {}
    <2> SUFFICES ASSUME D # {} PROVE FALSE
      OBVIOUS
    <2>1. PICK i \in D : \A m \in D : i <= m
      <3>1. D \in SUBSET Nat
        BY <1>1
      <3> HIDE DEF D
      <3> QED BY <3>1, LeastNumber
    <2>2. i \in from..n /\ ~After(i)
      BY <2>1
    <2>3. i # from
      BY <1>1, <1>4, <2>2 DEF OneLine
    <2>4. i \in (from + 1)..n /\ i - 1 \in from..n /\ ~(i <= i - 1) /\ i \in Nat
      BY <1>1, <2>2, <2>3
    <2>5. After(i - 1)
      <3>1. i - 1 \notin D
        <4> HIDE DEF D
        <4> QED BY <2>1, <2>4
      <3> HIDE DEF After
      <3> QED BY <2>4, <3>1
    <2>6. CASE M[i - 1].at # 0
      <3>1. M[i - 1].at > 0
        BY <1>1, <2>4, <2>5, <2>6
      <3>2. M[i] = M[i - 1]
        BY <1>5, <2>4, <3>1
      <3> QED BY <1>1, <2>2, <2>4, <2>5, <2>6, <3>2
    <2>7. CASE M[i - 1].at = 0
      <3>1. d(i) = IF text[i] = "\n" THEN 1 ELSE 0
        BY <1>1, <2>5, <2>7 DEF Matched, d
      <3>2. M[i] = [d |-> d(i), at |-> IF d(i) = 1 THEN i ELSE 0]
        <4>1. ~(M[i - 1].at > 0)
          BY <2>7
        <4> QED BY <1>1, <1>5, <2>4, <4>1 DEF Fresh
      <3>3. M[i].at = (IF text[i] = "\n" THEN i ELSE 0) /\ M[i].d = (IF text[i] = "\n" THEN 1 ELSE 0)
        BY <3>1, <3>2
      <3>4. OneLine(text, from + 1, i - 1)
        BY <2>5, <2>7
      <3>5. CASE text[i] = "\n"
        BY <1>1, <2>2, <2>4, <3>3, <3>4, <3>5
      <3>6. CASE text[i] # "\n"
        <4>1. OneLine(text, from + 1, i)
          BY <1>1, <2>4, <3>4, <3>6 DEF OneLine
        <4> QED BY <2>2, <3>3, <3>6, <4>1
      <3> QED BY <3>5, <3>6
    <2> QED BY <2>6, <2>7
  <1>7. After(n)
    BY <1>1, <1>6
  <1> DEFINE end == M[n].at
  <1>8. DelimiterEnd(text, dlm, from) = end
    BY DEF DelimiterEnd, M, n
  <1>9. Split(text, dlm, FALSE, from) =
            IF end = 0 THEN [token |-> SubSeq(text, from + 1, n), its |-> n + 1]
            ELSE [token |-> SubSeq(text, from + 1, end - 1), its |-> end]
    BY <1>1, <1>8 DEF Split, n
  <1>10. ASSUME NEW k \in from..n PROVE SubSeq(text, from + 1, k) = SubSeq(t, from + 1, k)
    BY <1>1, <1>2 DEF n
  <1>11. CASE end = 0
    <2>1. OneLine(t, from + 1, (n + 1) - 1)
      <3>1. OneLine(text, from + 1, n) /\ (n + 1) - 1 = n
        BY <1>1, <1>7, <1>11
      <3>2. ASSUME NEW i \in (from + 1)..n PROVE t[i] # "\n"
        <4>1. i \in 1..n /\ text[i] # "\n"
          BY <1>1, <3>1 DEF OneLine
        <4> QED BY <1>2, <4>1
      <3> QED BY <3>1, <3>2 DEF OneLine
    <2>2. n + 1 \in (from + 1)..Len(t) /\ n \in from..n /\ (n + 1) - 1 = n
      BY <1>1, <1>2
    <2> QED BY <1>2, <1>9, <1>10, <1>11, <2>1, <2>2 DEF t, dlm
  <1>12. CASE end # 0
    <2>1. end \in (from + 1)..n /\ text[end] = "\n" /\ OneLine(text, from + 1, end - 1)
      BY <1>7, <1>12
    <2> HIDE DEF end
    <2>2. end - 1 \in from..n /\ end \in (from + 1)..Len(t) /\ t[end] = "\n"
      BY <1>1, <1>2, <2>1
    <2>3. OneLine(t, from + 1, end - 1)
      BY <1>1, <1>2, <2>1, <2>2 DEF OneLine
    <2> QED BY <1>9, <1>10, <1>12, <2>2, <2>3 DEF t, dlm
  <1> QED BY <1>11, <1>12
(***************************************************************************)
(* What one character does to the parser.                                  *)
(***************************************************************************)
St(ste, beg, len, fld, hdb, cnt, row) ==
    [ste |-> ste, beg |-> beg, len |-> len, fld |-> fld, hdb |-> hdb, cnt |-> cnt, row |-> row]

SetEnd(r, x, y, z) == [r EXCEPT !.row = x, !.cnt = y, !.ste = z]
SetBegin(r, x, y, z, v) == [r EXCEPT !.beg = x, !.fld = y, !.hdb = z, !.len = v]
SetQuoted(r, x, y) == [r EXCEPT !.len = x, !.ste = y]
SetSecond(r, x, y, z) == [r EXCEPT !.hdb = x, !.len = y, !.ste = z]
SetFirst(r, x, y) == [r EXCEPT !.beg = x, !.ste = y]

\* The states of the parser.
FldBeg == "FldBeg"
DatNkd == "DatNkd"
DatQte == "DatQte"
QteOne == "QteOne"
QteTwo == "QteTwo"
Qte1st == "Qte1st"
Qte2nd == "Qte2nd"
RecDne == "RecDne"
Spc    == " "
Ret    == "\r"
Nl     == "\n"

\* What is used of positions: a part of a text lies between two cuts x and y, a value
\* ends at e after at least M characters and its two quotation characters.
LEMMA BetweenCuts ==
    ASSUME NEW a \in Nat, a >= 1, NEW x \in Int, NEW y \in Int, a - 1 <= x, x < y
    PROVE  /\ x + 1 \in Nat /\ y - 1 \in Nat /\ a <= x + 1 /\ x + 1 <= y /\ a - 1 <= y
           /\ (x + 1) - 1 = x /\ (y - 1) + 1 = y
  OBVIOUS

LEMMA AfterCut ==
    ASSUME NEW x \in Int, NEW y \in Int, x < y
    PROVE  x + 1 <= y /\ x <= y - 1
  OBVIOUS

LEMMA TwoAfter ==
    ASSUME NEW x \in Int, NEW c \in Int, x + 2 <= c
    PROVE  x + 1 <= c
  OBVIOUS

LEMMA AfterValue ==
    ASSUME NEW a \in Nat, NEW q \in Nat, NEW M \in Nat, NEW e \in Int, a <= q, e >= q + (M + 1)
    PROVE  e + 1 \in Nat /\ a <= e + 1 /\ (e + 1) - (a - 1) = (e - (a - 1)) + 1
  OBVIOUS

LEMMA BeforeNext ==
    ASSUME NEW i \in Int
    PROVE  (i + 2) - 1 = i + 1 /\ (i + 1) - 1 = i
  OBVIOUS

LEMMA BeforeEnd ==
    ASSUME NEW i \in Int, i >= 1, NEW z \in Nat, i + 1 <= z
    PROVE  i \in Nat /\ i \in 1..z /\ i + 1 \in 1..z
  OBVIOUS

LEMMA AtMost ==
    ASSUME NEW i \in Int, i >= 1, NEW z \in Nat, i <= z
    PROVE  i \in Nat /\ i \in 1..z
  OBVIOUS

LEMMA LineEnds ==
    Nl # Spc /\ Nl # Ret /\ Nl # Qte /\ Nl # Dlm /\ Spc # Dlm /\ Spc # Qte /\ Ends(Nl) /\ Ends(Dlm) /\ ~Ends(Qte)
  BY Dialect DEF Nl, Spc, Ret, Ends

LEMMA OneLineIs ==
    ASSUME NEW t, NEW from, NEW to
    PROVE  OneLine(t, from, to) <=> \A i \in from..to : t[i] # Nl
  BY DEF OneLine, Nl

LEMMA BlankIs ==
    ASSUME NEW t, NEW from, NEW to
    PROVE  Blank(t, from, to) <=> \A i \in from..to : t[i] = Spc
  BY DEF Blank, Spc

LEMMA ReturnsIs ==
    ASSUME NEW t, NEW from, NEW to
    PROVE  Returns(t, from, to) <=> \A i \in from..to : t[i] = Ret
  BY DEF Returns, Ret

LEMMA EndSet ==
    ASSUME NEW ste, NEW b, NEW l, NEW f, NEW h, NEW n, NEW w, NEW x, NEW y, NEW z
    PROVE  SetEnd(St(ste, b, l, f, h, n, w), x, y, z) =
               St(z, b, l, f, h, y, x)
  <1> PICK r : r = St(ste, b, l, f, h, n, w)
    OBVIOUS
  <1>1. [r EXCEPT !.row = x, !.cnt = y, !.ste = z] =
            [[[r EXCEPT !.row = x] EXCEPT !.cnt = y] EXCEPT !.ste = z]
    OBVIOUS
  <1>2. PICK r1 : r1 = [r EXCEPT !.row = x]
    OBVIOUS
  <1>3. r1 = St(ste, b, l, f, h, n, x)
    BY <1>2 DEF St
  <1>4. PICK r2 : r2 = [r1 EXCEPT !.cnt = y]
    OBVIOUS
  <1>5. r2 = St(ste, b, l, f, h, y, x)
    BY <1>3, <1>4 DEF St
  <1>6. [r2 EXCEPT !.ste = z] = St(z, b, l, f, h, y, x)
    BY <1>5 DEF St
  <1>7. [[[r EXCEPT !.row = x] EXCEPT !.cnt = y] EXCEPT !.ste = z] = [r2 EXCEPT !.ste = z]
    BY <1>2, <1>4
  <1> QED BY <1>1, <1>6, <1>7 DEF SetEnd

LEMMA BeginSet ==
    ASSUME NEW ste, NEW b, NEW l, NEW f, NEW h, NEW n, NEW w, NEW x, NEW y, NEW z, NEW v
    PROVE  SetBegin(St(ste, b, l, f, h, n, w), x, y, z, v) =
               St(ste, x, v, y, z, n, w)
  <1> PICK r : r = St(ste, b, l, f, h, n, w)
    OBVIOUS
  <1>1. [r EXCEPT !.beg = x, !.fld = y, !.hdb = z, !.len = v] =
            [[[[r EXCEPT !.beg = x] EXCEPT !.fld = y] EXCEPT !.hdb = z] EXCEPT !.len = v]
    OBVIOUS
  <1>2. PICK r1 : r1 = [r EXCEPT !.beg = x]
    OBVIOUS
  <1>3. r1 = St(ste, x, l, f, h, n, w)
    BY <1>2 DEF St
  <1>4. PICK r2 : r2 = [r1 EXCEPT !.fld = y]
    OBVIOUS
  <1>5. r2 = St(ste, x, l, y, h, n, w)
    BY <1>3, <1>4 DEF St
  <1>6. PICK r3 : r3 = [r2 EXCEPT !.hdb = z]
    OBVIOUS
  <1>7. r3 = St(ste, x, l, y, z, n, w)
    BY <1>5, <1>6 DEF St
  <1>8. [r3 EXCEPT !.len = v] = St(ste, x, v, y, z, n, w)
    BY <1>7 DEF St
  <1>9. [[[[r EXCEPT !.beg = x] EXCEPT !.fld = y] EXCEPT !.hdb = z] EXCEPT !.len = v] = [r3 EXCEPT !.len = v]
    BY <1>2, <1>4, <1>6
  <1> QED BY <1>1, <1>8, <1>9 DEF SetBegin

LEMMA QuotedSet ==
    ASSUME NEW ste, NEW b, NEW l, NEW f, NEW h, NEW n, NEW w, NEW x, NEW y
    PROVE  SetQuoted(St(ste, b, l, f, h, n, w), x, y) =
               St(y, b, x, f, h, n, w)
  <1> PICK r : r = St(ste, b, l, f, h, n, w)
    OBVIOUS
  <1>1. [r EXCEPT !.len = x, !.ste = y] =
            [[r EXCEPT !.len = x] EXCEPT !.ste = y]
    OBVIOUS
  <1>2. PICK r1 : r1 = [r EXCEPT !.len = x]
    OBVIOUS
  <1>3. r1 = St(ste, b, x, f, h, n, w)
    BY <1>2 DEF St
  <1>4. [r1 EXCEPT !.ste = y] = St(y, b, x, f, h, n, w)
    BY <1>3 DEF St
  <1>5. [[r EXCEPT !.len = x] EXCEPT !.ste = y] = [r1 EXCEPT !.ste = y]
    BY <1>2
  <1> QED BY <1>1, <1>4, <1>5 DEF SetQuoted

LEMMA SecondSet ==
    ASSUME NEW ste, NEW b, NEW l, NEW f, NEW h, NEW n, NEW w, NEW x, NEW y, NEW z
    PROVE  SetSecond(St(ste, b, l, f, h, n, w), x, y, z) =
               St(z, b, y, f, x, n, w)
  <1> PICK r : r = St(ste, b, l, f, h, n, w)
    OBVIOUS
  <1>1. [r EXCEPT !.hdb = x, !.len = y, !.ste = z] =
            [[[r EXCEPT !.hdb = x] EXCEPT !.len = y] EXCEPT !.ste = z]
    OBVIOUS
  <1>2. PICK r1 : r1 = [r EXCEPT !.hdb = x]
    OBVIOUS
  <1>3. r1 = St(ste, b, l, f, x, n, w)
    BY <1>2 DEF St
  <1>4. PICK r2 : r2 = [r1 EXCEPT !.len = y]
    OBVIOUS
  <1>5. r2 = St(ste, b, y, f, x, n, w)
    BY <1>3, <1>4 DEF St
  <1>6. [r2 EXCEPT !.ste = z] = St(z, b, y, f, x, n, w)
    BY <1>5 DEF St
  <1>7. [[[r EXCEPT !.hdb = x] EXCEPT !.len = y] EXCEPT !.ste = z] = [r2 EXCEPT !.ste = z]
    BY <1>2, <1>4
  <1> QED BY <1>1, <1>6, <1>7 DEF SetSecond

LEMMA FirstSet ==
    ASSUME NEW ste, NEW b, NEW l, NEW f, NEW h, NEW n, NEW w, NEW x, NEW y
    PROVE  SetFirst(St(ste, b, l, f, h, n, w), x, y) =
               St(y, x, l, f, h, n, w)
  <1> PICK r : r = St(ste, b, l, f, h, n, w)
    OBVIOUS
  <1>1. [r EXCEPT !.beg = x, !.ste = y] =
            [[r EXCEPT !.beg = x] EXCEPT !.ste = y]
    OBVIOUS
  <1>2. PICK r1 : r1 = [r EXCEPT !.beg = x]
    OBVIOUS
  <1>3. r1 = St(ste, x, l, f, h, n, w)
    BY <1>2 DEF St
  <1>4. [r1 EXCEPT !.ste = y] = St(y, x, l, f, h, n, w)
    BY <1>3 DEF St
  <1>5. [[r EXCEPT !.beg = x] EXCEPT !.ste = y] = [r1 EXCEPT !.ste = y]
    BY <1>2
  <1> QED BY <1>1, <1>4, <1>5 DEF SetFirst

LEMMA PushedIs ==
    ASSUME NEW s, NEW ste, NEW b, NEW l, NEW f, NEW h, NEW n, NEW w, NEW c, NEW len
    PROVE  LET data == Stripped(SubSeq(s, b, b + len - 1))
           IN  FieldEnds(s, St(ste, b, l, f, h, n, w), c, len) =
                   St(IF c = Dlm THEN FldBeg ELSE RecDne, b, len, f, h, n + 1,
                      Put(w, n + 1, IF len = 0 /\ ste = FldBeg THEN Nil
                                    ELSE IF h = 1 THEN Undoubled(data) ELSE data))
  <1> USE DEF FldBeg, RecDne
  <1> DEFINE data == Stripped(SubSeq(s, b, b + len - 1))
  <1>1. [St(ste, b, l, f, h, n, w) EXCEPT !.len = len] = St(ste, b, len, f, h, n, w)
    BY DEF St
  <1>2. /\ St(ste, b, len, f, h, n, w).beg = b /\ St(ste, b, len, f, h, n, w).len = len
        /\ St(ste, b, len, f, h, n, w).ste = ste /\ St(ste, b, len, f, h, n, w).hdb = h
        /\ St(ste, b, len, f, h, n, w).cnt = n
    BY DEF St
  <1> DEFINE r == St(ste, b, len, f, h, n, w)
             field == IF len = 0 /\ ste = "FldBeg" THEN Nil ELSE IF h = 1 THEN Undoubled(data) ELSE data
             e == IF c = Dlm THEN "FldBeg" ELSE "RecDne"
  <1>3. FieldEnds(s, St(ste, b, l, f, h, n, w), c, len) = PushField(s, r, e)
    BY <1>1 DEF FieldEnds
  <1>4. PushField(s, r, e) = [r EXCEPT !.row = Put(@, r.cnt + 1, field), !.cnt = @ + 1, !.ste = e]
    <2> HIDE DEF e, r
    <2> QED BY <1>2 DEF PushField, r
  <1>5. [r EXCEPT !.row = Put(@, r.cnt + 1, field), !.cnt = @ + 1, !.ste = e]
            = St(e, b, len, f, h, n + 1, Put(w, n + 1, field))
    <2>1. r.row = w /\ r.cnt = n
      BY DEF St
    <2> HIDE DEF e, field
    <2>2. [r EXCEPT !.row = Put(w, n + 1, field), !.cnt = n + 1, !.ste = e]
              = St(e, b, len, f, h, n + 1, Put(w, n + 1, field))
      <3>1. SetEnd(r, Put(w, n + 1, field), n + 1, e) = St(e, b, len, f, h, n + 1, Put(w, n + 1, field))
        BY EndSet
      <3> HIDE DEF r
      <3> QED BY <3>1 DEF SetEnd
    <2> HIDE DEF r
    <2> QED BY <2>1, <2>2
  <1> QED BY <1>3, <1>4, <1>5

LEMMA BeginIs ==
    ASSUME NEW s, NEW i, NEW b, NEW l, NEW f, NEW h, NEW n, NEW w
    PROVE  LET r == St(FldBeg, b, l, f, h, n, w)
               c == s[i]
           IN  /\ c = Qte => Turn(s, r, i) = St(Qte1st, i, 0, i, 0, n, w)
               /\ c = Spc => Turn(s, r, i) = St(FldBeg, i, 0, i, 0, n, w)
               /\ Ends(c) => Turn(s, r, i) = St(IF c = Dlm THEN FldBeg ELSE RecDne, i, 0, i, 0,
                                                n + 1, Put(w, n + 1, Nil))
               /\ c # Qte /\ c # Spc /\ ~Ends(c) => Turn(s, r, i) = St(DatNkd, i, 0, i, 0, n, w)
  <1> USE DEF Spc, FldBeg, DatNkd, Qte1st, RecDne
  <1> DEFINE r == St("FldBeg", b, l, f, h, n, w)
             c == s[i]
             new == St("FldBeg", i, 0, i, 0, n, w)
  <1>1. [r EXCEPT !.beg = i, !.fld = i, !.hdb = 0, !.len = 0] = new
    <2>1. SetBegin(r, i, i, 0, 0) = new
      BY BeginSet
    <2> HIDE DEF r, new
    <2> QED BY <2>1 DEF SetBegin
  <1>2. r.ste = "FldBeg"
    BY DEF St
  <1>3. Turn(s, r, i) = BeginTurn(s, r, c, i)
    <2> HIDE DEF r
    <2> QED BY <1>2 DEF Turn
  <1>4. BeginTurn(s, r, c, i) = CASE c = Qte -> [new EXCEPT !.ste = "Qte1st"]
                                  [] c = " " -> new
                                  [] Ends(c) -> FieldEnds(s, new, c, 0)
                                  [] OTHER   -> [new EXCEPT !.ste = "DatNkd"]
    <2> HIDE DEF r, c, new
    <2> QED BY <1>1 DEF BeginTurn
  <1>5. FieldEnds(s, new, c, 0) = St(IF c = Dlm THEN "FldBeg" ELSE "RecDne", i, 0, i, 0, n + 1,
                                     Put(w, n + 1, Nil))
    <2> HIDE DEF c
    <2> QED BY PushedIs
  <1>6. /\ [new EXCEPT !.ste = "Qte1st"] = St("Qte1st", i, 0, i, 0, n, w)
        /\ [new EXCEPT !.ste = "DatNkd"] = St("DatNkd", i, 0, i, 0, n, w)
    BY DEF St
  <1>7. Ends(c) => c # Qte /\ c # " "
    BY Dialect DEF Ends
  <1>8. Qte # " "
    BY Dialect
  <1> HIDE DEF r, c, new
  <1>9. c = Qte => Turn(s, r, i) = St("Qte1st", i, 0, i, 0, n, w)
    BY <1>3, <1>4, <1>6, <1>7, <1>8
  <1>10. c = " " => Turn(s, r, i) = new
    BY <1>3, <1>4, <1>7, <1>8
  <1>11. Ends(c) => Turn(s, r, i) = FieldEnds(s, new, c, 0)
    BY <1>3, <1>4, <1>7
  <1>12. c # Qte /\ c # " " /\ ~Ends(c) => Turn(s, r, i) = St("DatNkd", i, 0, i, 0, n, w)
    BY <1>3, <1>4, <1>6
  <1> QED BY <1>5, <1>9, <1>10, <1>11, <1>12 DEF r, c, new

LEMMA NakedIs ==
    ASSUME NEW s, NEW i, NEW b, NEW l, NEW f, NEW h, NEW n, NEW w
    PROVE  LET r == St(DatNkd, b, l, f, h, n, w)
               c == s[i]
           IN  /\ Ends(c) => Turn(s, r, i) = FieldEnds(s, r, c, l + 1)
               /\ c = Spc => Turn(s, r, i) = r
               /\ c # Spc /\ ~Ends(c) => Turn(s, r, i) = St(DatNkd, b, i - b, f, h, n, w)
  <1> USE DEF Spc, DatNkd
  <1> DEFINE r == St("DatNkd", b, l, f, h, n, w)
             c == s[i]
  <1>1. r.ste = "DatNkd" /\ r.len = l /\ r.beg = b
    BY DEF St
  <1>2. [r EXCEPT !.len = l] = r /\ [r EXCEPT !.len = i - b] = St("DatNkd", b, i - b, f, h, n, w)
    BY DEF St
  <1>3. Ends(c) => c # " "
    BY Dialect DEF Ends
  <1> HIDE DEF r
  <1>4. Turn(s, r, i) = NakedTurn(s, r, c, i)
    BY <1>1 DEF Turn
  <1> HIDE DEF c
  <1> QED BY <1>1, <1>2, <1>3, <1>4 DEF NakedTurn, Grown, r, c

LEMMA QuotedIs ==
    ASSUME NEW s, NEW i, NEW b, NEW l, NEW f, NEW h, NEW n, NEW w
    PROVE  /\ Turn(s, St(DatQte, b, l, f, h, n, w), i) =
                  St(IF s[i] = Qte THEN QteOne ELSE DatQte, b, i - b, f, h, n, w)
           /\ Turn(s, St(QteTwo, b, l, f, h, n, w), i) =
                  St(IF s[i] = Qte THEN QteOne ELSE DatQte, b, i - b, f, 1, n, w)
           /\ Turn(s, St(Qte1st, b, l, f, h, n, w), i) =
                  St(IF s[i] = Qte THEN Qte2nd ELSE DatQte, i, l, f, h, n, w)
  <1> USE DEF DatQte, QteOne, QteTwo, Qte1st, Qte2nd
  <1>1. Turn(s, St("DatQte", b, l, f, h, n, w), i) = QuotedTurn(St("DatQte", b, l, f, h, n, w), s[i], i)
    BY DEF Turn, St
  <1>2. Turn(s, St("QteTwo", b, l, f, h, n, w), i) = QuoteTwoTurn(St("QteTwo", b, l, f, h, n, w), s[i], i)
    BY DEF Turn, St
  <1>3. Turn(s, St("Qte1st", b, l, f, h, n, w), i) = QuoteFirstTurn(St("Qte1st", b, l, f, h, n, w), s[i], i)
    BY DEF Turn, St
  <1> DEFINE e == IF s[i] = Qte THEN "QteOne" ELSE "DatQte"
             g == IF s[i] = Qte THEN "Qte2nd" ELSE "DatQte"
  <1>4. QuotedTurn(St("DatQte", b, l, f, h, n, w), s[i], i) = St(e, b, i - b, f, h, n, w)
    <2> DEFINE r == St("DatQte", b, l, f, h, n, w)
    <2>1. r.beg = b
      BY DEF St
    <2>2. [r EXCEPT !.len = i - b, !.ste = e] = St(e, b, i - b, f, h, n, w)
      <3> HIDE DEF e
      <3>1. SetQuoted(r, i - b, e) = St(e, b, i - b, f, h, n, w)
        BY QuotedSet
      <3> HIDE DEF r
      <3> QED BY <3>1 DEF SetQuoted
    <2> HIDE DEF r
    <2> QED BY <2>1, <2>2 DEF QuotedTurn, r
  <1>5. QuoteTwoTurn(St("QteTwo", b, l, f, h, n, w), s[i], i) = St(e, b, i - b, f, 1, n, w)
    <2> DEFINE r == St("QteTwo", b, l, f, h, n, w)
    <2>1. r.beg = b
      BY DEF St
    <2>2. [r EXCEPT !.hdb = 1, !.len = i - b, !.ste = e] = St(e, b, i - b, f, 1, n, w)
      <3> HIDE DEF e
      <3>1. SetSecond(r, 1, i - b, e) = St(e, b, i - b, f, 1, n, w)
        BY SecondSet
      <3> HIDE DEF r
      <3> QED BY <3>1 DEF SetSecond
    <2> HIDE DEF r
    <2> QED BY <2>1, <2>2 DEF QuoteTwoTurn, r
  <1>6. QuoteFirstTurn(St("Qte1st", b, l, f, h, n, w), s[i], i) = St(g, i, l, f, h, n, w)
    <2> DEFINE r == St("Qte1st", b, l, f, h, n, w)
    <2>1. r.beg = b
      BY DEF St
    <2>2. [r EXCEPT !.beg = i, !.ste = g] = St(g, i, l, f, h, n, w)
      <3> HIDE DEF g
      <3>1. SetFirst(r, i, g) = St(g, i, l, f, h, n, w)
        BY FirstSet
      <3> HIDE DEF r
      <3> QED BY <3>1 DEF SetFirst
    <2> HIDE DEF r
    <2> QED BY <2>1, <2>2 DEF QuoteFirstTurn, r
  <1> QED BY <1>1, <1>2, <1>3, <1>4, <1>5, <1>6

LEMMA ClosedIs ==
    ASSUME NEW s, NEW i, NEW b, NEW l, NEW f, NEW h, NEW n, NEW w, NEW ste \in {QteOne, Qte2nd}
    PROVE  LET r == St(ste, b, l, f, h, n, w)
               c == s[i]
           IN  /\ Ends(c) => Turn(s, r, i) = FieldEnds(s, r, c, l)
               /\ c = Qte => Turn(s, r, i) = St(QteTwo, b, l, f, h, n, w)
               /\ c = Spc => Turn(s, r, i) = r
  <1> USE DEF Spc, QteOne, QteTwo, Qte2nd
  <1> DEFINE r == St(ste, b, l, f, h, n, w)
             c == s[i]
  <1>1. r.ste = ste /\ r.len = l /\ r.beg = b
    BY DEF St
  <1>2. [r EXCEPT !.len = l] = r /\ [r EXCEPT !.ste = "QteTwo"] = St("QteTwo", b, l, f, h, n, w)
    BY DEF St
  <1>3. /\ Ends(c) => c # " " /\ c # Qte
        /\ Qte # " "
    BY Dialect DEF Ends
  <1> HIDE DEF r
  <1>4. Turn(s, r, i) = IF ste = "QteOne" THEN QuoteOneTurn(s, r, c, i) ELSE QuoteSecondTurn(s, r, c)
    <2>1. CASE ste = "QteOne"
      BY <1>1, <2>1 DEF Turn
    <2>2. CASE ste = "Qte2nd"
      BY <1>1, <2>2 DEF Turn
    <2> QED BY <2>1, <2>2
  <1> HIDE DEF c
  <1>5. /\ Ends(c) => QuoteOneTurn(s, r, c, i) = FieldEnds(s, r, c, l)
        /\ c = Qte => QuoteOneTurn(s, r, c, i) = [r EXCEPT !.ste = "QteTwo"]
        /\ c = " " => QuoteOneTurn(s, r, c, i) = [r EXCEPT !.len = l]
    BY <1>1, <1>3 DEF QuoteOneTurn, Grown
  <1>6. /\ Ends(c) => QuoteSecondTurn(s, r, c) = FieldEnds(s, r, c, l)
        /\ c = Qte => QuoteSecondTurn(s, r, c) = [r EXCEPT !.ste = "QteTwo"]
        /\ c = " " => QuoteSecondTurn(s, r, c) = r
    BY <1>1, <1>3 DEF QuoteSecondTurn
  <1> QED BY <1>2, <1>4, <1>5, <1>6 DEF r, c
(***************************************************************************)
(* A value in quotes: where its characters are, with those that are        *)
(* doubled, and how it is put together again.                              *)
(***************************************************************************)

\* What is read of a text that begins elsewhere.
LEMMA PlacesMove ==
    ASSUME NEW S, NEW v \in Seq(S), NEW q \in Int, NEW o \in Int, NEW k \in Int
    PROVE  PlaceIn(q - o, v, k) = PlaceIn(q, v, k) - o
  <1> DEFINE X == {j \in 1..(k - 1) : v[j] = Qte}
  <1>1. Cardinality(X) \in Nat
    <2>1. IsFiniteSet(1..(k - 1))
      BY FS_Interval
    <2> QED BY <2>1, FS_Subset, FS_CardinalityType
  <1> HIDE DEF X
  <1>2. PlaceIn(q - o, v, k) = q - o + k + Cardinality(X) /\ PlaceIn(q, v, k) = q + k + Cardinality(X)
    BY DEF PlaceIn, X
  <1> QED BY <1>1, <1>2

LEMMA PlaceNext ==
    ASSUME NEW S, NEW v \in Seq(S), NEW q \in Int, NEW k \in 1..Len(v)
    PROVE  /\ v[k] = Qte => PlaceIn(q, v, k + 1) = PlaceIn(q, v, k) + 2
           /\ v[k] # Qte => PlaceIn(q, v, k + 1) = PlaceIn(q, v, k) + 1
  <1> DEFINE X == {j \in 1..(k - 1) : v[j] = Qte}
             Y == {j \in 1..((k + 1) - 1) : v[j] = Qte}
  <1>1. k \in Int /\ k - 1 \in Int /\ k \notin X
    OBVIOUS
  <1>2. IsFiniteSet(X) /\ Cardinality(X) \in Nat
    <2>1. IsFiniteSet(1..(k - 1))
      BY <1>1, FS_Interval
    <2> QED BY <2>1, FS_Subset, FS_CardinalityType
  <1>3. /\ v[k] = Qte => Y = X \cup {k}
        /\ v[k] # Qte => Y = X
    BY <1>1
  <1>4. PlaceIn(q, v, k) = q + k + Cardinality(X) /\ PlaceIn(q, v, k + 1) = q + (k + 1) + Cardinality(Y)
    BY DEF PlaceIn
  <1> HIDE DEF X, Y
  <1>5. Cardinality(X \cup {k}) = Cardinality(X) + 1
    BY <1>1, <1>2, FS_AddElement
  <1>6. v[k] = Qte => PlaceIn(q, v, k + 1) = PlaceIn(q, v, k) + 2
    <2>1. v[k] = Qte => PlaceIn(q, v, k + 1) = q + (k + 1) + (Cardinality(X) + 1)
      BY <1>3, <1>4, <1>5
    <2>2. q + (k + 1) + (Cardinality(X) + 1) = q + k + Cardinality(X) + 2
      BY <1>1, <1>2
    <2> QED BY <1>4, <2>1, <2>2
  <1>7. v[k] # Qte => PlaceIn(q, v, k + 1) = PlaceIn(q, v, k) + 1
    <2>1. v[k] # Qte => PlaceIn(q, v, k + 1) = q + (k + 1) + Cardinality(X)
      BY <1>3, <1>4
    <2>2. q + (k + 1) + Cardinality(X) = q + k + Cardinality(X) + 1
      BY <1>1, <1>2
    <2> QED BY <1>4, <2>1, <2>2
  <1> QED BY <1>6, <1>7

LEMMA PlacesIn ==
    ASSUME NEW S, NEW v \in Seq(S), NEW q \in Int
    PROVE  /\ PlaceIn(q, v, 1) = q + 1
           /\ \A k \in 1..(Len(v) + 1) : PlaceIn(q, v, k) \in Int /\ PlaceIn(q, v, k) >= q + k
           /\ \A k \in 1..Len(v) :
                  /\ v[k] = Qte => PlaceIn(q, v, k + 1) = PlaceIn(q, v, k) + 2
                  /\ v[k] # Qte => PlaceIn(q, v, k + 1) = PlaceIn(q, v, k) + 1
           /\ \A k \in 1..(Len(v) + 1) : \A j \in 1..k : PlaceIn(q, v, j) <= PlaceIn(q, v, k)
  <1> DEFINE X(k) == {j \in 1..(k - 1) : v[j] = Qte}
  <1>1. \A k \in Nat : IsFiniteSet(X(k)) /\ Cardinality(X(k)) \in Nat
    <2> TAKE k \in Nat
    <2>1. IsFiniteSet(1..(k - 1))
      BY FS_Interval
    <2> QED BY <2>1, FS_Subset, FS_CardinalityType
  <1>2. \A k \in Nat : PlaceIn(q, v, k) = q + k + Cardinality(X(k))
    BY DEF PlaceIn
  <1>3. X(1) = {}
    OBVIOUS
  <1>4. ASSUME NEW k \in 1..(Len(v) + 1), NEW j \in 1..k
        PROVE  Cardinality(X(j)) <= Cardinality(X(k))
    <2>1. X(j) \subseteq X(k) /\ k \in Nat
      OBVIOUS
    <2> HIDE DEF X
    <2> QED BY <1>1, <2>1, FS_Subset
  <1>5. Cardinality(X(1)) = 0
    <2> HIDE DEF X
    <2> QED BY <1>3, FS_EmptySet
  <1>6. Len(v) \in Nat
    OBVIOUS
  <1> HIDE DEF X
  <1>7. PlaceIn(q, v, 1) = q + 1
    BY <1>2, <1>5
  <1>8. ASSUME NEW k \in 1..(Len(v) + 1)
        PROVE  PlaceIn(q, v, k) \in Int /\ PlaceIn(q, v, k) >= q + k
    <2>1. k \in Nat
      BY <1>6
    <2>2. PlaceIn(q, v, k) = q + k + Cardinality(X(k)) /\ Cardinality(X(k)) \in Nat
      BY <1>1, <1>2, <2>1
    <2> QED BY <2>1, <2>2
  <1>9. ASSUME NEW k \in 1..Len(v)
        PROVE  /\ v[k] = Qte => PlaceIn(q, v, k + 1) = PlaceIn(q, v, k) + 2
               /\ v[k] # Qte => PlaceIn(q, v, k + 1) = PlaceIn(q, v, k) + 1
    BY PlaceNext
  <1>10. ASSUME NEW k \in 1..(Len(v) + 1), NEW j \in 1..k
         PROVE  PlaceIn(q, v, j) <= PlaceIn(q, v, k)
    <2>1. k \in Nat /\ j \in Nat /\ j <= k
      BY <1>6
    <2>2. /\ PlaceIn(q, v, k) = q + k + Cardinality(X(k)) /\ PlaceIn(q, v, j) = q + j + Cardinality(X(j))
          /\ Cardinality(X(k)) \in Nat /\ Cardinality(X(j)) \in Nat
      BY <1>1, <1>2, <2>1
    <2> QED BY <1>4, <2>1, <2>2
  <1> QED BY <1>7, <1>8, <1>9, <1>10

LEMMA PlaceIs ==
    ASSUME NEW S, NEW v \in Seq(S), NEW q \in Int, NEW k \in 1..(Len(v) + 1)
    PROVE  PlaceIn(q, v, k) \in Int /\ PlaceIn(q, v, k) >= q + k
  BY PlacesIn

LEMMA PlacesOrdered ==
    ASSUME NEW S, NEW v \in Seq(S), NEW q \in Int, NEW k \in 1..(Len(v) + 1), NEW j \in 1..k
    PROVE  PlaceIn(q, v, j) <= PlaceIn(q, v, k)
  BY PlacesIn

\* Every position between the quotation characters belongs to a character of the value.
LEMMA PlacesCover ==
    ASSUME NEW S, NEW v \in Seq(S), NEW q \in Int, NEW i \in Int,
           q < i, i < PlaceIn(q, v, Len(v) + 1)
    PROVE  \E k \in 1..Len(v) :
              /\ PlaceIn(q, v, k) = i \/ (v[k] = Qte /\ PlaceIn(q, v, k) + 1 = i)
              /\ PlaceIn(q, v, k) <= i /\ i < PlaceIn(q, v, k + 1)
  <1> DEFINE X == {k \in 1..(Len(v) + 1) : i < PlaceIn(q, v, k)}
  <1>1. Len(v) \in Nat
    OBVIOUS
  <1>2. X \in SUBSET Nat /\ Len(v) + 1 \in X
    BY <1>1
  <1>3. PICK x \in X : \A y \in X : x <= y
    <2> HIDE DEF X
    <2> QED BY <1>2, LeastNumber
  <1>4. x # 1
    BY PlacesIn
  <1> DEFINE k == x - 1
  <1>5. k \in 1..Len(v) /\ k + 1 = x /\ k \notin X /\ x \in 1..(Len(v) + 1) /\ i < PlaceIn(q, v, x)
    <2>1. x \in 1..(Len(v) + 1) /\ i < PlaceIn(q, v, x)
      OBVIOUS
    <2>2. ~(x <= x - 1)
      BY <1>1, <2>1
    <2>3. k \notin X
      <3> HIDE DEF X
      <3> QED BY <1>3, <2>2
    <2> QED BY <1>1, <1>4, <2>1, <2>3
  <1>6. k \in 1..(Len(v) + 1)
    BY <1>1, <1>5
  <1>7. ~(i < PlaceIn(q, v, k)) /\ PlaceIn(q, v, k) \in Int
    <2>1. PlaceIn(q, v, k) \in Int
      <3> HIDE DEF k
      <3> QED BY <1>6, PlacesIn
    <2> QED BY <1>5, <1>6, <2>1
  <1> HIDE DEF k
  <1>8. /\ v[k] = Qte => PlaceIn(q, v, k + 1) = PlaceIn(q, v, k) + 2
        /\ v[k] # Qte => PlaceIn(q, v, k + 1) = PlaceIn(q, v, k) + 1
    BY <1>5, PlacesIn
  <1> QED BY <1>5, <1>7, <1>8
LEMMA MaxIs ==
    ASSUME NEW X \in SUBSET Int, NEW m \in X, \A x \in X : x <= m
    PROVE  Max(X) = m
  <1>1. \A y \in X : (\A x \in X : y >= x) => y = m
    <2> TAKE y \in X
    <2> SUFFICES ASSUME \A x \in X : y >= x PROVE y = m
      OBVIOUS
    <2>1. y >= m /\ y <= m /\ y \in Int /\ m \in Int
      OBVIOUS
    <2> QED BY <2>1
  <1>2. \A x \in X : m >= x
    OBVIOUS
  <1> QED BY <1>1, <1>2 DEF Max

\* What is stripped from the end of a field's data.
LEMMA StrippedIs ==
    ASSUME NEW S, NEW d \in Seq(S), NEW m \in 0..Len(d),
           m = 0 \/ d[m] # Ret, Returns(d, m + 1, Len(d))
    PROVE  Stripped(d) = SubSeq(d, 1, m)
  <1> USE DEF Ret
  <1> DEFINE X == {i \in 1..Len(d) : d[i] # "\r"}
  <1>1. SelectLastInSeq(d, LAMBDA c : c # "\r") = IF X # {} THEN Max(X) ELSE 0
    BY DEF SelectLastInSeq
  <1>2. X \in SUBSET Int /\ \A x \in X : x <= m
    BY DEF Blank, Returns
  <1>3. CASE m = 0
    <2>1. X = {}
      BY <1>2, <1>3
    <2> QED BY <1>1, <1>3, <2>1 DEF Stripped
  <1>4. CASE m # 0
    <2>1. m \in X
      BY <1>4
    <2>2. Max(X) = m
      <3> HIDE DEF X
      <3> QED BY <1>2, <2>1, MaxIs
    <2> HIDE DEF X
    <2> QED BY <1>1, <2>1, <2>2 DEF Stripped
  <1> QED BY <1>3, <1>4

\* Undoubling a value's characters gives the value.
LEMMA UndoubledIs ==
    ASSUME NEW S, NEW d \in Seq(S), NEW v \in Seq(S), HeldAt(d, 0, v, Len(v)),
           PlaceIn(0, v, Len(v) + 1) = Len(d) + 1
    PROVE  Undoubled(d) = v
  <1> DEFINE M == Len(v)
             P(k) == PlaceIn(0, v, k)
             U == Undoubling(d)
             ReadUpTo(k) == U[P(k + 1) - 1] = [out |-> SubSeq(v, 1, k), odd |-> 0]
             D == {k \in 0..M : ~ReadUpTo(k)}
  <1>1. /\ M \in Nat /\ Len(d) \in Nat /\ 0 \in Int
        /\ P(1) = 1
        /\ \A k \in 1..(M + 1) : P(k) \in Int /\ P(k) >= k
        /\ \A k \in 1..M : /\ v[k] = Qte => P(k + 1) = P(k) + 2
                           /\ v[k] # Qte => P(k + 1) = P(k) + 1
        /\ \A k \in 1..(M + 1) : \A j \in 1..k : P(j) <= P(k)
        /\ P(M + 1) = Len(d) + 1
    <2>1. M \in Nat /\ Len(d) \in Nat /\ 0 \in Int
      OBVIOUS
    <2>2. /\ P(1) = 0 + 1
          /\ \A k \in 1..(M + 1) : P(k) \in Int /\ P(k) >= 0 + k
          /\ \A k \in 1..M : /\ v[k] = Qte => P(k + 1) = P(k) + 2
                             /\ v[k] # Qte => P(k + 1) = P(k) + 1
          /\ \A k \in 1..(M + 1) : \A j \in 1..k : P(j) <= P(k)
      BY <2>1, PlacesIn
    <2>3. 0 + 1 = 1 /\ \A k \in 1..(M + 1) : 0 + k = k
      BY <2>1
    <2> QED BY <2>1, <2>2, <2>3
  <1>2. \A k \in 1..M : d[P(k)] = v[k] /\ (v[k] = Qte => d[P(k) + 1] = Qte)
    BY DEF HeldAt
  <1>3. /\ U[0] = [out |-> <<>>, odd |-> 0]
        /\ \A i \in 1..Len(d) : \A out :
               /\ U[i - 1] = [out |-> out, odd |-> 0] =>
                      U[i] = [out |-> Append(out, d[i]), odd |-> IF d[i] = Qte THEN 1 ELSE 0]
               /\ U[i - 1] = [out |-> out, odd |-> 1] /\ d[i] = Qte => U[i] = [out |-> out, odd |-> 0]
    <2>1. \A i \in 0..Len(d) :
              U[i] = IF i = 0 THEN [out |-> <<>>, odd |-> 0]
                     ELSE LET m == U[i - 1]
                          IN  IF d[i] = Qte /\ m.odd = 1 THEN [m EXCEPT !.odd = 0]
                              ELSE [out |-> Append(m.out, d[i]), odd |-> IF d[i] = Qte THEN 1 ELSE 0]
      BY UndoublingIs
    <2> HIDE DEF U
    <2>2. U[0] = [out |-> <<>>, odd |-> 0]
      <3>1. 0 \in 0..Len(d)
        OBVIOUS
      <3> QED BY <2>1, <3>1
    <2>3. ASSUME NEW i \in 1..Len(d), NEW out
          PROVE  /\ U[i - 1] = [out |-> out, odd |-> 0] =>
                        U[i] = [out |-> Append(out, d[i]), odd |-> IF d[i] = Qte THEN 1 ELSE 0]
                 /\ U[i - 1] = [out |-> out, odd |-> 1] /\ d[i] = Qte => U[i] = [out |-> out, odd |-> 0]
      <3> PICK m : m = U[i - 1]
        OBVIOUS
      <3>1. i \in 0..Len(d) /\ i # 0
        OBVIOUS
      <3>2. U[i] = IF d[i] = Qte /\ m.odd = 1 THEN [m EXCEPT !.odd = 0]
                   ELSE [out |-> Append(m.out, d[i]), odd |-> IF d[i] = Qte THEN 1 ELSE 0]
        BY <2>1, <3>1
      <3>3. CASE m = [out |-> out, odd |-> 0]
        <4>1. m.out = out /\ m.odd = 0 /\ m # [out |-> out, odd |-> 1]
          BY <3>3
        <4> QED BY <3>2, <4>1
      <3>4. CASE m = [out |-> out, odd |-> 1]
        <4>1. m.odd = 1 /\ [m EXCEPT !.odd = 0] = [out |-> out, odd |-> 0] /\ m # [out |-> out, odd |-> 0]
          BY <3>4
        <4> QED BY <3>2, <4>1
      <3> QED BY <3>3, <3>4
    <2> QED BY <2>2, <2>3
  <1>4. \A k \in 1..M : SubSeq(v, 1, k) = Append(SubSeq(v, 1, k - 1), v[k])
    OBVIOUS
  <1>5. SubSeq(v, 1, 0) = <<>> /\ SubSeq(v, 1, M) = v
    OBVIOUS
  <1> HIDE DEF U, P, M
  <1>6. ReadUpTo(0)
    <2>1. P(0 + 1) - 1 = 0
      BY <1>1
    <2> QED BY <1>3, <1>5, <2>1
  <1>7. ASSUME NEW k \in 1..M, ReadUpTo(k - 1) PROVE ReadUpTo(k)
    <2> DEFINE i == P(k)
    <2>1. k \in 1..(M + 1) /\ k + 1 \in 1..(M + 1) /\ M + 1 \in 1..(M + 1) /\ k + 1 \in 1..(M + 1) /\ k \in Nat
      BY <1>1
    <2>2. i \in Int /\ i >= k /\ P(k + 1) \in Int /\ P(k + 1) <= Len(d) + 1
      BY <1>1, <2>1
    <2>3. /\ v[k] = Qte => P(k + 1) = i + 2
          /\ v[k] # Qte => P(k + 1) = i + 1
          /\ d[i] = v[k] /\ (v[k] = Qte => d[i + 1] = Qte)
      BY <1>1, <1>2
    <2>4. k - 1 + 1 = k
      BY <2>1
    <2>5. U[i - 1] = [out |-> SubSeq(v, 1, k - 1), odd |-> 0]
      BY <1>7, <2>4
    <2> HIDE DEF i
    <2>6. i \in 1..Len(d)
      BY <1>1, <2>1, <2>2, <2>3
    <2>7. U[i] = [out |-> SubSeq(v, 1, k), odd |-> IF d[i] = Qte THEN 1 ELSE 0]
      <3>1. U[i] = [out |-> Append(SubSeq(v, 1, k - 1), d[i]), odd |-> IF d[i] = Qte THEN 1 ELSE 0]
        BY <1>3, <2>5, <2>6
      <3> QED BY <1>4, <2>3, <3>1
    <2>8. CASE v[k] = Qte
      <3>1. i + 1 \in 1..Len(d) /\ i + 1 - 1 = i /\ P(k + 1) - 1 = i + 1 /\ d[i + 1] = Qte
        BY <1>1, <2>2, <2>3, <2>6, <2>8
      <3>2. U[i] = [out |-> SubSeq(v, 1, k), odd |-> 1]
        BY <2>3, <2>7, <2>8
      <3>3. U[i + 1] = [out |-> SubSeq(v, 1, k), odd |-> 0]
        <4> PICK j, o : j = i + 1 /\ o = SubSeq(v, 1, k)
          OBVIOUS
        <4>1. j \in 1..Len(d) /\ j - 1 = i /\ d[j] = Qte
          BY <2>2, <3>1
        <4>2. U[j - 1] = [out |-> o, odd |-> 1]
          BY <3>2, <4>1
        <4>3. U[j] = [out |-> o, odd |-> 0]
          BY <1>3, <4>1, <4>2
        <4> QED BY <4>3
      <3> QED BY <3>1, <3>3
    <2>9. CASE v[k] # Qte
      <3>1. P(k + 1) - 1 = i
        BY <2>2, <2>3, <2>9
      <3>2. U[i] = [out |-> SubSeq(v, 1, k), odd |-> 0]
        BY <2>3, <2>7, <2>9
      <3> QED BY <3>1, <3>2
    <2> QED BY <2>8, <2>9
  <1>8. D = {}
    <2> SUFFICES ASSUME D # {} PROVE FALSE
      OBVIOUS
    <2>1. PICK k \in D : \A x \in D : k <= x
      <3>1. D \in SUBSET Nat
        BY <1>1
      <3> HIDE DEF D
      <3> QED BY <3>1, LeastNumber
    <2>2. k \in 0..M /\ ~ReadUpTo(k)
      OBVIOUS
    <2> HIDE DEF ReadUpTo
    <2>3. k \in 1..M
      BY <1>1, <1>6, <2>2
    <2>4. k - 1 \notin D
      <3>1. ~(k <= k - 1)
        BY <1>1, <2>3
      <3> HIDE DEF D
      <3> QED BY <2>1, <3>1
    <2>5. ReadUpTo(k - 1)
      BY <1>1, <2>3, <2>4
    <2> QED BY <1>7, <2>2, <2>3, <2>5
  <1>9. ReadUpTo(M)
    <2>1. M \in 0..M
      BY <1>1
    <2> HIDE DEF ReadUpTo
    <2> QED BY <1>8, <2>1
  <1>10. U[Len(d)] = [out |-> v, odd |-> 0]
    <2>1. P(M + 1) - 1 = Len(d)
      BY <1>1
    <2> QED BY <1>5, <1>9, <2>1
  <1> QED BY <1>10 DEF Undoubled, U
-----------------------------------------------------------------------------
(***************************************************************************)
(* The fields of a text s that is parsed, p[i] after its first i           *)
(* characters.                                                             *)
(***************************************************************************)
Parses(s, p) == \A i \in 1..Len(s) : p[i] = Turn(s, p[i - 1], i)

\* A field of row w begins, the one after the n-th.
AtBegin(r, n, w) == \E b, l, f, h : r = St(FldBeg, b, l, f, h, n, w)

\* At character c the field that comes after the n-th has ended with value v.
AtFieldEnd(r, c, n, w, v) ==
    \E b, l, f, h : r = St(IF c = Dlm THEN FldBeg ELSE RecDne, b, l, f, h, n + 1, Put(w, n + 1, v))

LEMMA BlanksSkipped ==
    ASSUME NEW S, NEW s \in Seq(S), NEW p, NEW n, NEW w, Parses(s, p),
           NEW from \in Nat, NEW b \in Nat, 0 < from, from <= b, b - 1 <= Len(s),
           AtBegin(p[from - 1], n, w), Blank(s, from, b - 1)
    PROVE  AtBegin(p[b - 1], n, w)
  <1> DEFINE D == {k \in from..b : ~AtBegin(p[k - 1], n, w)}
  <1>1. D = {}
    <2> SUFFICES ASSUME D # {} PROVE FALSE
      OBVIOUS
    <2>1. PICK k \in D : \A x \in D : k <= x
      <3>1. D \in SUBSET Nat
        OBVIOUS
      <3> HIDE DEF D
      <3> QED BY <3>1, LeastNumber
    <2>2. k \in from..b /\ ~AtBegin(p[k - 1], n, w)
      OBVIOUS
    <2>3. k # from
      BY <2>2
    <2> DEFINE i == k - 1
    <2>4. i \in 1..Len(s) /\ i \in from..(b - 1) /\ i \in from..b /\ ~(k <= i)
      BY <2>2, <2>3
    <2>5. AtBegin(p[i - 1], n, w)
      <3>1. i \notin D
        <4> HIDE DEF D
        <4> QED BY <2>1, <2>4
      <3> QED BY <2>4, <3>1
    <2> HIDE DEF i
    <2>6. s[i] = Spc /\ p[i] = Turn(s, p[i - 1], i)
      BY <2>4, BlankIs DEF Parses
    <2>7. PICK bb, l, f, h : p[i - 1] = St(FldBeg, bb, l, f, h, n, w)
      BY <2>5 DEF AtBegin
    <2>8. p[i] = St(FldBeg, i, 0, i, 0, n, w)
      BY <2>6, <2>7, BeginIs
    <2> QED BY <2>2, <2>8 DEF AtBegin, i
  <1>2. b \in from..b
    OBVIOUS
  <1> QED BY <1>1, <1>2

LEMMA MissingField ==
    ASSUME NEW S, NEW s \in Seq(S), NEW p, NEW n, NEW w, Parses(s, p),
           NEW from \in Nat, NEW to \in Nat, 0 < from, from <= to + 1, to + 1 <= Len(s),
           AtBegin(p[from - 1], n, w), Blank(s, from, to), Ends(s[to + 1])
    PROVE  AtFieldEnd(p[to + 1], s[to + 1], n, w, Nil)
  <1> DEFINE i == to + 1
  <1>1. i \in Nat /\ i \in 1..Len(s) /\ i - 1 = to /\ from <= i /\ i - 1 <= Len(s)
    OBVIOUS
  <1>2. AtBegin(p[i - 1], n, w)
    <2>1. Blank(s, from, i - 1)
      BY <1>1
    <2> HIDE DEF i
    <2> QED BY <1>1, <2>1, BlanksSkipped
  <1> HIDE DEF i
  <1>3. PICK b, l, f, h : p[i - 1] = St(FldBeg, b, l, f, h, n, w)
    BY <1>2 DEF AtBegin
  <1>4. p[i] = Turn(s, p[i - 1], i) /\ Ends(s[i])
    BY <1>1 DEF Parses, i
  <1>5. p[i] = St(IF s[i] = Dlm THEN FldBeg ELSE RecDne, i, 0, i, 0, n + 1, Put(w, n + 1, Nil))
    BY <1>3, <1>4, BeginIs
  <1> QED BY <1>5 DEF AtFieldEnd, i

\* A field without quotation marks, that begins at b.
LEMMA NakedField ==
    ASSUME NEW S, NEW s \in Seq(S), NEW v \in Seq(S), NEW p, NEW n, NEW w, Parses(s, p),
           NEW b \in Nat, NEW to \in Nat, 0 < b, to + 1 <= Len(s),
           AtBegin(p[b - 1], n, w), NakedFrom(s, b, to, v), Ends(s[to + 1])
    PROVE  AtFieldEnd(p[to + 1], s[to + 1], n, w, v)
  <1> DEFINE M == Len(v)
             e == b + M
             At(i) == \E m \in b..i : /\ p[i] = St(DatNkd, b, m - b, b, 0, n, w)
                                      /\ s[m] # Spc /\ Blank(s, m + 1, i)
             D == {i \in b..to : ~At(i)}
  <1>1. M \in Nat /\ M > 0 /\ e \in Nat /\ b < e /\ e - 1 <= to /\ b \in 1..Len(s) /\ Len(s) \in Nat
    <2>1. M > 0 /\ e - 1 <= to
      BY DEF NakedFrom
    <2>2. M \in Nat /\ Len(s) \in Nat
      OBVIOUS
    <2> QED BY <2>1, <2>2
  <1>2. /\ \A k \in 1..M : s[b + k - 1] = v[k] /\ v[k] \notin {Dlm, "\n"}
        /\ v[1] # Spc /\ v[1] # Qte /\ v[M] # Spc /\ v[M] # Ret
        /\ Blank(s, e, to) \/ Returns(s, e, to)
    BY DEF NakedFrom, Spc, Ret
  <1>3. s[b] = v[1] /\ s[e - 1] = v[M]
    <2>1. 1 \in 1..M /\ M \in 1..M /\ b + 1 - 1 = b /\ b + M - 1 = e - 1
      BY <1>1
    <2> QED BY <1>2, <2>1
  <1>4. \A i \in b..to : ~Ends(s[i])
    <2> TAKE i \in b..to
    <2>1. CASE i < e
      <3> DEFINE k == i - b + 1
      <3>1. k \in 1..M /\ b + k - 1 = i
        BY <1>1, <2>1
      <3>2. s[i] = v[k] /\ v[k] \notin {Dlm, "\n"}
        <4> HIDE DEF k, M
        <4> QED BY <1>2, <3>1
      <3> QED BY <3>2 DEF Ends
    <2>2. CASE i >= e
      <3>1. s[i] = Spc \/ s[i] = Ret
        BY <1>1, <1>2, <2>2, BlankIs, ReturnsIs
      <3> QED BY <3>1, Dialect DEF Ends, Spc, Ret
    <2> QED BY <1>1, <2>1, <2>2
  <1>5. \A i \in b..to : p[i] = Turn(s, p[i - 1], i)
    BY <1>1 DEF Parses
  <1> HIDE DEF M, e
  <1>6. At(b)
    <2>1. PICK bb, l, f, h : p[b - 1] = St(FldBeg, bb, l, f, h, n, w)
      BY DEF AtBegin
    <2>2. b \in b..to /\ s[b] # Qte /\ s[b] # Spc /\ b - b = 0
      BY <1>1, <1>2, <1>3
    <2>3. ~Ends(s[b]) /\ p[b] = Turn(s, p[b - 1], b)
      BY <1>4, <1>5, <2>2
    <2>4. p[b] = St(DatNkd, b, 0, b, 0, n, w)
      BY <2>1, <2>2, <2>3, BeginIs
    <2>5. Blank(s, b + 1, b) /\ b \in b..b
      BY BlankIs, ReturnsIs
    <2> QED BY <2>2, <2>4, <2>5
  <1>7. ASSUME NEW i \in b..to, i # b, At(i - 1) PROVE At(i)
    <2>1. PICK m \in b..(i - 1) : /\ p[i - 1] = St(DatNkd, b, m - b, b, 0, n, w)
                                  /\ s[m] # Spc /\ Blank(s, m + 1, i - 1)
      BY <1>7
    <2>2. ~Ends(s[i]) /\ p[i] = Turn(s, p[i - 1], i)
      BY <1>4, <1>5
    <2>3. CASE s[i] = Spc
      <3>1. p[i] = St(DatNkd, b, m - b, b, 0, n, w)
        BY <2>1, <2>2, <2>3, NakedIs
      <3>2. Blank(s, m + 1, i)
        BY <2>1, <2>3, BlankIs, ReturnsIs
      <3>3. m \in b..i
        OBVIOUS
      <3> QED BY <2>1, <3>1, <3>2, <3>3
    <2>4. CASE s[i] # Spc
      <3>1. p[i] = St(DatNkd, b, i - b, b, 0, n, w)
        BY <2>1, <2>2, <2>4, NakedIs
      <3>2. Blank(s, i + 1, i) /\ i \in b..i
        BY BlankIs, ReturnsIs
      <3> QED BY <2>4, <3>1, <3>2
    <2> QED BY <2>3, <2>4
  <1>8. D = {}
    <2> SUFFICES ASSUME D # {} PROVE FALSE
      OBVIOUS
    <2>1. PICK k \in D : \A x \in D : k <= x
      <3>1. D \in SUBSET Nat
        OBVIOUS
      <3> HIDE DEF D
      <3> QED BY <3>1, LeastNumber
    <2>2. k \in b..to /\ ~At(k)
      OBVIOUS
    <2> HIDE DEF At
    <2>3. k # b
      BY <1>6, <2>2
    <2>4. k - 1 \notin D
      <3>1. ~(k <= k - 1)
        BY <2>2
      <3> HIDE DEF D
      <3> QED BY <2>1, <3>1
    <2>5. At(k - 1)
      BY <2>2, <2>3, <2>4
    <2> QED BY <1>7, <2>2, <2>3, <2>5
  <1>9. PICK m \in b..to : /\ p[to] = St(DatNkd, b, m - b, b, 0, n, w)
                           /\ s[m] # Spc /\ Blank(s, m + 1, to)
    <2>1. to \in b..to
      BY <1>1
    <2>2. At(to)
      <3> HIDE DEF At
      <3> QED BY <1>8, <2>1
    <2> QED BY <2>2
  <1>10. e - 1 <= m /\ Returns(s, e, m)
    <2>1. e - 1 \in b..to /\ s[e - 1] # Spc /\ s[e - 1] # Ret
      BY <1>1, <1>2, <1>3
    <2>2. ~(e - 1 > m)
      BY <1>1, <1>9, <2>1, BlankIs, ReturnsIs
    <2>3. CASE Blank(s, e, to)
      <3>1. ~(m >= e)
        BY <1>1, <1>9, <2>3, BlankIs, ReturnsIs
      <3> QED BY <1>1, <2>2, <3>1, BlankIs, ReturnsIs
    <2>4. CASE Returns(s, e, to)
      BY <1>1, <2>2, <2>4, BlankIs, ReturnsIs
    <2> QED BY <1>2, <2>3, <2>4
  <1> DEFINE d == SubSeq(s, b, m)
  <1>11. /\ d \in Seq(S) /\ Len(d) = m - b + 1 /\ Len(d) \in Nat
         /\ \A i \in 1..Len(d) : d[i] = s[b + i - 1]
    <2>1. b \in 1..Len(s) /\ m \in 1..Len(s) /\ b <= m
      BY <1>1
    <2> QED BY <2>1
  <1> HIDE DEF d
  <1>12. Stripped(d) = v
    <2>1. M \in 0..Len(d) /\ M \in 1..M
      BY <1>1, <1>10, <1>11 DEF e
    <2>2. \A k \in 1..M : d[k] = v[k]
      BY <1>2, <1>11, <2>1
    <2>3. d[M] # Ret
      BY <1>2, <2>1, <2>2
    <2>4. Returns(d, M + 1, Len(d))
      <3> SUFFICES ASSUME NEW i \in (M + 1)..Len(d) PROVE d[i] = Ret
        BY BlankIs, ReturnsIs
      <3>1. i \in 1..Len(d) /\ b + i - 1 \in e..m
        BY <1>1, <1>11 DEF e
      <3> QED BY <1>10, <1>11, <3>1, BlankIs, ReturnsIs
    <2>5. Stripped(d) = SubSeq(d, 1, M)
      BY <1>11, <2>1, <2>3, <2>4, StrippedIs
    <2>6. SubSeq(d, 1, M) = v
      <3>1. v \in Seq(S) /\ Len(v) = M
        BY DEF M
      <3>2. SubSeq(d, 1, M) \in Seq(S) /\ Len(SubSeq(d, 1, M)) = M /\ \A k \in 1..M : SubSeq(d, 1, M)[k] = d[k]
        BY <1>1, <1>11, <2>1
      <3> QED BY <2>2, <3>1, <3>2
    <2> QED BY <2>5, <2>6
  <1> DEFINE i == to + 1
  <1>13. i \in 1..Len(s) /\ i - 1 = to
    BY <1>1
  <1>14. p[i] = Turn(s, p[to], i) /\ Ends(s[i])
    <2>1. p[i] = Turn(s, p[i - 1], i)
      <3> HIDE DEF i
      <3> QED BY <1>13 DEF Parses
    <2> QED BY <1>13, <2>1
  <1> HIDE DEF i
  <1>15. p[i] = FieldEnds(s, St(DatNkd, b, m - b, b, 0, n, w), s[i], m - b + 1)
    BY <1>9, <1>14, NakedIs
  <1>16. b + (m - b + 1) - 1 = m
    OBVIOUS
  <1>17. FieldEnds(s, St(DatNkd, b, m - b, b, 0, n, w), s[i], m - b + 1)
            = St(IF s[i] = Dlm THEN FldBeg ELSE RecDne, b, m - b + 1, b, 0, n + 1, Put(w, n + 1, v))
    <2> PICK l, k : l = m - b /\ k = m - b + 1
      OBVIOUS
    <2>1. b + k - 1 = m /\ Stripped(SubSeq(s, b, m)) = v
      BY <1>12, <1>16 DEF d
    <2>2. FieldEnds(s, St(DatNkd, b, l, b, 0, n, w), s[i], k)
            = St(IF s[i] = Dlm THEN FldBeg ELSE RecDne, b, k, b, 0, n + 1,
                      Put(w, n + 1, IF k = 0 /\ DatNkd = FldBeg THEN Nil
                                    ELSE IF 0 = 1 THEN Undoubled(Stripped(SubSeq(s, b, b + k - 1)))
                                    ELSE Stripped(SubSeq(s, b, b + k - 1))))
      <3> PICK z, c : z = 0 /\ c = s[i]
        OBVIOUS
      <3>1. FieldEnds(s, St(DatNkd, b, l, b, z, n, w), c, k)
              = St(IF c = Dlm THEN FldBeg ELSE RecDne, b, k, b, z, n + 1,
                        Put(w, n + 1, IF k = 0 /\ DatNkd = FldBeg THEN Nil
                                      ELSE IF z = 1 THEN Undoubled(Stripped(SubSeq(s, b, b + k - 1)))
                                      ELSE Stripped(SubSeq(s, b, b + k - 1))))
        BY PushedIs
      <3> QED BY <3>1
    <2>3. DatNkd # FldBeg
      BY DEF DatNkd, FldBeg
    <2> QED BY <2>1, <2>2, <2>3
  <1> QED BY <1>15, <1>17 DEF AtFieldEnd, i
\* A record's parser after the first m characters of value v, in quotation marks from q.
InQuotes(r, q, v, m, n, w) ==
    /\ m = 0 => r = St(Qte1st, q, 0, q, 0, n, w)
    /\ m > 0 => \E l, h : /\ r = St(IF v[m] = Qte THEN QteTwo ELSE DatQte, q + 1, l, q, h, n, w)
                          /\ h # 1 => \A j \in 1..(m - 1) : v[j] # Qte

LEMMA QuotedStep ==
    ASSUME NEW S, NEW s \in Seq(S), NEW v \in Seq(S), NEW p, NEW n, NEW w,
           NEW q \in Nat, NEW k \in 1..Len(v), NEW i \in Nat, k = 1 => i = q + 1,
           InQuotes(p[i - 1], q, v, k - 1, n, w), p[i] = Turn(s, p[i - 1], i), s[i] = v[k],
           v[k] = Qte => s[i + 1] = Qte /\ p[i + 1] = Turn(s, p[i], i + 1)
    PROVE  InQuotes(p[IF v[k] = Qte THEN i + 1 ELSE i], q, v, k, n, w)
  <1>1. \E l, h : /\ p[i] = St(IF v[k] # Qte THEN DatQte ELSE IF k = 1 THEN Qte2nd ELSE QteOne,
                               q + 1, l, q, h, n, w)
                  /\ h # 1 => \A j \in 1..(k - 1) : v[j] # Qte
    <2>1. CASE k = 1
      <3>1. p[i - 1] = St(Qte1st, q, 0, q, 0, n, w)
        BY <2>1 DEF InQuotes
      <3> PICK z : z = 0
        OBVIOUS
      <3>2. p[i - 1] = St(Qte1st, q, z, q, z, n, w)
        BY <3>1
      <3>3. p[i] = St(IF s[i] = Qte THEN Qte2nd ELSE DatQte, i, z, q, z, n, w)
        BY <3>2, QuotedIs
      <3>4. i = q + 1 /\ \A j \in 1..(k - 1) : v[j] # Qte
        BY <2>1
      <3>5. p[i] = St(IF v[k] # Qte THEN DatQte ELSE Qte2nd, q + 1, z, q, z, n, w)
        BY <3>3, <3>4
      <3> QED BY <2>1, <3>4, <3>5
    <2>2. CASE k # 1
      <3> PICK m : m = k - 1
        OBVIOUS
      <3>1. m \in 1..Len(v) /\ m > 0 /\ k - 1 = m
        BY <2>2
      <3>2. PICK l, h : /\ p[i - 1] = St(IF v[m] = Qte THEN QteTwo ELSE DatQte, q + 1, l, q, h, n, w)
                        /\ h # 1 => \A j \in 1..(m - 1) : v[j] # Qte
        BY <3>1 DEF InQuotes
      <3> PICK b, o : b = q + 1 /\ o = 1
        OBVIOUS
      <3>3. CASE v[m] = Qte
        <4>1. p[i - 1] = St(QteTwo, b, l, q, h, n, w)
          BY <3>2, <3>3
        <4>2. p[i] = St(IF s[i] = Qte THEN QteOne ELSE DatQte, b, i - b, q, 1, n, w)
          BY <4>1, QuotedIs
        <4>3. p[i] = St(IF v[k] # Qte THEN DatQte ELSE QteOne, b, i - b, q, o, n, w)
          BY <4>2
        <4> QED BY <2>2, <4>3
      <3>4. CASE v[m] # Qte
        <4>1. p[i - 1] = St(DatQte, b, l, q, h, n, w)
          BY <3>2, <3>4
        <4>2. p[i] = St(IF s[i] = Qte THEN QteOne ELSE DatQte, b, i - b, q, h, n, w)
          BY <4>1, QuotedIs
        <4>3. p[i] = St(IF v[k] # Qte THEN DatQte ELSE QteOne, b, i - b, q, h, n, w)
          BY <4>2
        <4>4. h # 1 => \A j \in 1..(k - 1) : v[j] # Qte
          <5>1. \A j \in 1..(k - 1) : j \in 1..(m - 1) \/ j = m
            BY <3>1
          <5> QED BY <3>2, <3>4, <5>1
        <4> QED BY <2>2, <4>3, <4>4
      <3> QED BY <3>3, <3>4
    <2> QED BY <2>1, <2>2
  <1>2. PICK l, h : /\ p[i] = St(IF v[k] # Qte THEN DatQte ELSE IF k = 1 THEN Qte2nd ELSE QteOne,
                                 q + 1, l, q, h, n, w)
                    /\ h # 1 => \A j \in 1..(k - 1) : v[j] # Qte
    BY <1>1
  <1>3. k # 0 /\ k > 0
    OBVIOUS
  <1>4. CASE v[k] # Qte
    <2>1. p[i] = St(IF v[k] = Qte THEN QteTwo ELSE DatQte, q + 1, l, q, h, n, w)
      BY <1>2, <1>4
    <2> QED BY <1>2, <1>3, <1>4, <2>1 DEF InQuotes
  <1>5. CASE v[k] = Qte
    <2> PICK ste, b, c : ste = (IF k = 1 THEN Qte2nd ELSE QteOne) /\ b = q + 1 /\ c = i + 1
      OBVIOUS
    <2>1. p[i] = St(ste, b, l, q, h, n, w) /\ ste \in {QteOne, Qte2nd} /\ s[c] = Qte
          /\ p[c] = Turn(s, p[i], c)
      BY <1>2, <1>5
    <2>2. p[c] = St(QteTwo, b, l, q, h, n, w)
      BY <2>1, ClosedIs
    <2>3. p[i + 1] = St(IF v[k] = Qte THEN QteTwo ELSE DatQte, q + 1, l, q, h, n, w)
      BY <1>5, <2>2
    <2> QED BY <1>2, <1>3, <1>5, <2>3 DEF InQuotes
  <1> QED BY <1>4, <1>5

LEMMA QuotedRead ==
    ASSUME NEW S, NEW s \in Seq(S), NEW v \in Seq(S), NEW p, NEW n, NEW w, Parses(s, p),
           NEW q \in Nat, 0 < q, q <= Len(s), s[q] = Qte, AtBegin(p[q - 1], n, w),
           NEW m \in 0..Len(v), HeldAt(s, q, v, m), PlaceIn(q, v, m + 1) - 1 <= Len(s)
    PROVE  InQuotes(p[PlaceIn(q, v, m + 1) - 1], q, v, m, n, w)
  <1> DEFINE M == Len(v)
             P(k) == PlaceIn(q, v, k)
             ReadUpTo(k) == InQuotes(p[P(k + 1) - 1], q, v, k, n, w)
             D == {k \in 0..m : ~ReadUpTo(k)}
  <1>1. /\ M \in Nat /\ Len(s) \in Nat /\ q \in Int
        /\ P(1) = q + 1
        /\ \A k \in 1..(M + 1) : P(k) \in Int /\ P(k) >= q + k
        /\ \A k \in 1..M : /\ v[k] = Qte => P(k + 1) = P(k) + 2
                           /\ v[k] # Qte => P(k + 1) = P(k) + 1
        /\ \A k \in 1..(M + 1) : \A j \in 1..k : P(j) <= P(k)
    <2>1. q \in Int /\ M \in Nat /\ Len(s) \in Nat
      OBVIOUS
    <2>2. P(1) = q + 1
      BY <2>1, PlacesIn
    <2>3. \A k \in 1..(M + 1) : P(k) \in Int /\ P(k) >= q + k
      BY <2>1, PlacesIn
    <2>4. \A k \in 1..M : /\ v[k] = Qte => P(k + 1) = P(k) + 2
                          /\ v[k] # Qte => P(k + 1) = P(k) + 1
      BY <2>1, PlacesIn
    <2>5. \A k \in 1..(M + 1) : \A j \in 1..k : P(j) <= P(k)
      BY <2>1, PlacesIn
    <2> QED BY <2>1, <2>2, <2>3, <2>4, <2>5
  <1>2. \A k \in 1..m : s[P(k)] = v[k] /\ (v[k] = Qte => s[P(k) + 1] = Qte)
    BY DEF HeldAt
  <1>3. \A i \in 1..Len(s) : p[i] = Turn(s, p[i - 1], i)
    BY DEF Parses
  <1>4. m \in 0..M /\ P(m + 1) - 1 <= Len(s)
    OBVIOUS
  <1> HIDE DEF P, M
  <1>5. ReadUpTo(0)
    <2>1. P(0 + 1) - 1 = q
      BY <1>1
    <2>2. PICK b, l, f, h : p[q - 1] = St(FldBeg, b, l, f, h, n, w)
      BY DEF AtBegin
    <2>3. p[q] = Turn(s, p[q - 1], q)
      BY <1>1, <1>3
    <2>4. p[q] = St(Qte1st, q, 0, q, 0, n, w)
      BY <2>2, <2>3, BeginIs
    <2> QED BY <2>1, <2>4 DEF InQuotes
  <1>6. ASSUME NEW k \in 1..m, ReadUpTo(k - 1) PROVE ReadUpTo(k)
    <2> PICK i : i = P(k)
      OBVIOUS
    <2>1. /\ k \in 1..(M + 1) /\ k + 1 \in 1..(M + 1) /\ m + 1 \in 1..(M + 1) /\ k \in 1..M
          /\ k + 1 \in 1..(m + 1) /\ k - 1 + 1 = k /\ 1 \in 1..k
      BY <1>1, <1>4
    <2>2. i \in Int /\ i >= q + k /\ P(k + 1) <= P(m + 1) /\ P(m + 1) \in Int /\ P(k + 1) \in Int
      BY <1>1, <2>1
    <2>3. /\ v[k] = Qte => P(k + 1) = i + 2
          /\ v[k] # Qte => P(k + 1) = i + 1
          /\ s[i] = v[k] /\ (v[k] = Qte => s[i + 1] = Qte)
      BY <1>1, <1>2, <2>1
    <2>4. i \in Nat /\ i \in 1..Len(s) /\ (v[k] = Qte => i + 1 \in 1..Len(s))
      <3>1. Len(s) \in Nat /\ P(k + 1) - 1 <= Len(s) /\ i >= 1
        <4> PICK x, y, z : x = P(k + 1) /\ y = P(m + 1) /\ z = Len(s)
          OBVIOUS
        <4>1. x \in Int /\ y \in Int /\ z \in Nat /\ x <= y /\ y - 1 <= z
          BY <1>1, <1>4, <2>2
        <4>2. k \in Nat /\ k >= 1
          OBVIOUS
        <4>3. i >= 1
          BY <2>2, <4>2
        <4>4. x - 1 <= z
          BY <4>1
        <4> QED BY <4>1, <4>3, <4>4
      <3> HIDE DEF P
      <3>2. CASE v[k] = Qte
        <4>1. P(k + 1) = i + 2
          BY <2>3, <3>2
        <4>2. i + 1 <= Len(s)
          BY <2>2, <3>1, <4>1, BeforeNext
        <4> QED BY <2>2, <3>1, <4>2, BeforeEnd
      <3>3. CASE v[k] # Qte
        <4>1. P(k + 1) = i + 1
          BY <2>3, <3>3
        <4>2. i <= Len(s)
          BY <2>2, <3>1, <4>1, BeforeNext
        <4> QED BY <2>2, <3>1, <3>3, <4>2, AtMost
      <3> QED BY <3>2, <3>3
    <2>5. p[i] = Turn(s, p[i - 1], i) /\ (v[k] = Qte => p[i + 1] = Turn(s, p[i], i + 1))
      <3>1. \A j : j = i + 1 => j - 1 = i
        BY <2>4
      <3>2. v[k] = Qte => \A j : j = i + 1 => p[j] = Turn(s, p[i], j)
        BY <1>3, <2>4, <3>1
      <3> QED BY <1>3, <2>4, <3>2
    <2>6. InQuotes(p[i - 1], q, v, k - 1, n, w)
      BY <1>6, <2>1
    <2>7. k = 1 => i = q + 1
      BY <1>1
    <2>8. k \in 1..Len(v)
      BY <2>1 DEF M
    <2>9. InQuotes(p[IF v[k] = Qte THEN i + 1 ELSE i], q, v, k, n, w)
      BY <2>3, <2>4, <2>5, <2>6, <2>7, <2>8, QuotedStep
    <2>10. P(k + 1) - 1 = IF v[k] = Qte THEN i + 1 ELSE i
      <3>1. (i + 2) - 1 = i + 1 /\ (i + 1) - 1 = i
        BY <2>2, BeforeNext
      <3>2. P(k + 1) = IF v[k] = Qte THEN i + 2 ELSE i + 1
        BY <2>3
      <3> HIDE DEF P
      <3> QED BY <3>1, <3>2
    <2> QED BY <2>9, <2>10
  <1>7. D = {}
    <2> SUFFICES ASSUME D # {} PROVE FALSE
      OBVIOUS
    <2>1. PICK k \in D : \A x \in D : k <= x
      <3>1. D \in SUBSET Nat
        BY <1>1
      <3> HIDE DEF D
      <3> QED BY <3>1, LeastNumber
    <2>2. k \in 0..m /\ ~ReadUpTo(k)
      OBVIOUS
    <2> HIDE DEF ReadUpTo
    <2>3. k \in 1..m
      BY <1>1, <1>5, <2>2
    <2>4. k - 1 \notin D
      <3>1. ~(k <= k - 1)
        BY <1>1, <2>3
      <3> HIDE DEF D
      <3> QED BY <2>1, <3>1
    <2>5. ReadUpTo(k - 1)
      BY <1>1, <2>3, <2>4
    <2> QED BY <1>6, <2>2, <2>3, <2>5
  <1>8. ReadUpTo(m)
    <2>1. m \in 0..m
      BY <1>1, <1>4
    <2> HIDE DEF ReadUpTo
    <2> QED BY <1>7, <2>1
  <1> QED BY <1>8 DEF P
\* The parser makes value v of d, which it found between quotation characters.
IsDataOf(d, v) ==
    /\ Stripped(d) = d
    /\ Undoubled(d) = v
    /\ (\A j \in 1..Len(v) : v[j] # Qte) => d = v

\* What stands between the quotation characters, at q and e, is the value, doubled.
LEMMA DataIs ==
    ASSUME NEW S, NEW s \in Seq(S), NEW v \in Seq(S), NEW q \in Nat, 0 < q,
           PlaceIn(q, v, Len(v) + 1) <= Len(s), HeldAt(s, q, v, Len(v)), v = <<>> \/ v[Len(v)] # Ret
    PROVE  IsDataOf(SubSeq(s, q + 1, PlaceIn(q, v, Len(v) + 1) - 1), v)
  <1> PICK e : e = PlaceIn(q, v, Len(v) + 1)
    OBVIOUS
  <1> DEFINE d == SubSeq(s, q + 1, e - 1)
             M == Len(v)
             P(k) == PlaceIn(0, v, k)
  <1>1. /\ M \in Nat /\ Len(s) \in Nat
        /\ \A k \in 1..(M + 1) : PlaceIn(q, v, k) = P(k) + q /\ P(k) \in Int /\ P(k) >= k
        /\ \A k \in 1..M : /\ v[k] = Qte => P(k + 1) = P(k) + 2
                           /\ v[k] # Qte => P(k + 1) = P(k) + 1
        /\ \A k \in 1..(M + 1) : \A j \in 1..k : P(j) <= P(k)
    <2>1. 0 \in Int /\ q \in Int /\ M \in Nat /\ Len(s) \in Nat
      OBVIOUS
    <2>2. \A k \in 1..(M + 1) : P(k) \in Int /\ P(k) >= 0 + k
      BY <2>1, PlacesIn
    <2>3. \A k \in 1..M : /\ v[k] = Qte => P(k + 1) = P(k) + 2
                          /\ v[k] # Qte => P(k + 1) = P(k) + 1
      BY <2>1, PlacesIn
    <2>4. \A k \in 1..(M + 1) : \A j \in 1..k : P(j) <= P(k)
      BY <2>1, PlacesIn
    <2>5. ASSUME NEW k \in 1..(M + 1) PROVE PlaceIn(q, v, k) = P(k) + q
      <3>1. k \in Int /\ q - q = 0 /\ P(k) \in Int
        BY <2>1, <2>2
      <3>2. PlaceIn(q - q, v, k) = PlaceIn(q, v, k) - q
        BY <2>1, <3>1, PlacesMove
      <3>3. PlaceIn(q, v, k) \in Int
        BY <2>1, PlacesIn
      <3> QED BY <3>1, <3>2, <3>3
    <2>6. \A k \in 1..(M + 1) : P(k) >= k
      <3> HIDE DEF P
      <3> QED BY <2>1, <2>2
    <2> HIDE DEF P
    <2> QED BY <2>1, <2>2, <2>3, <2>4, <2>5, <2>6
  <1>2. M + 1 \in 1..(M + 1) /\ e = P(M + 1) + q /\ P(M + 1) \in Int /\ P(M + 1) >= M + 1
    <2>1. M + 1 \in 1..(M + 1)
      BY <1>1
    <2> HIDE DEF P
    <2> QED BY <1>1, <2>1
  <1> HIDE DEF P
  <1>3. /\ d \in Seq(S) /\ Len(d) = e - 1 - q /\ Len(d) \in Nat
        /\ \A i \in 1..Len(d) : d[i] = s[q + i]
    <2>1. CASE e - 1 < q + 1
      <3>1. e - 1 = q /\ d = <<>>
        BY <1>1, <1>2, <2>1
      <3> QED BY <3>1
    <2>2. CASE ~(e - 1 < q + 1)
      <3>1. q + 1 \in 1..Len(s) /\ e - 1 \in 1..Len(s) /\ q + 1 <= e - 1
        <4>1. e \in Int /\ e <= Len(s)
          BY <1>2
        <4> QED BY <1>1, <2>2, <4>1
      <3>2. d \in Seq(S) /\ Len(d) = (e - 1) - (q + 1) + 1 /\ \A i \in 1..Len(d) : d[i] = s[(q + 1) + i - 1]
        BY <3>1
      <3>3. \A i \in Nat : (q + 1) + i - 1 = q + i
        OBVIOUS
      <3>4. (e - 1) - (q + 1) + 1 = e - 1 - q /\ e - 1 - q \in Nat
        BY <3>1
      <3> HIDE DEF d
      <3> QED BY <3>2, <3>3, <3>4
    <2> QED BY <2>1, <2>2
  <1>4. P(M + 1) = Len(d) + 1
    BY <1>2, <1>3
  <1>5. \A k \in 1..M : s[P(k) + q] = v[k] /\ (v[k] = Qte => s[P(k) + q + 1] = Qte)
    <2>1. \A k \in 1..M : s[PlaceIn(q, v, k)] = v[k] /\ (v[k] = Qte => s[PlaceIn(q, v, k) + 1] = Qte)
      BY DEF HeldAt
    <2>2. \A k \in 1..M : k \in 1..(M + 1)
      BY <1>1
    <2> HIDE DEF P, M
    <2> QED BY <1>1, <2>1, <2>2
  <1> HIDE DEF P, d
  <1>6. ASSUME NEW k \in 1..M
        PROVE  /\ P(k) \in 1..Len(d) /\ d[P(k)] = v[k]
               /\ v[k] = Qte => P(k) + 1 \in 1..Len(d) /\ d[P(k) + 1] = Qte
    <2> PICK x, y : x = P(k) /\ y = P(k + 1)
      OBVIOUS
    <2>1. /\ k \in 1..(M + 1) /\ k + 1 \in 1..(M + 1) /\ k + 1 \in 1..(M + 1) /\ k \in Nat /\ k >= 1
          /\ k + 1 <= M + 1
      BY <1>1
    <2>2. x \in Int /\ x >= k /\ y \in Int /\ y <= P(M + 1)
      BY <1>1, <1>2, <2>1
    <2>3. (v[k] = Qte => y = x + 2) /\ (v[k] # Qte => y = x + 1)
      BY <1>1
    <2>4. x \in 1..Len(d) /\ (v[k] = Qte => x + 1 \in 1..Len(d))
      <3> PICK z : z = Len(d)
        OBVIOUS
      <3>1. z \in Nat /\ y <= z + 1 /\ x >= 1
        BY <1>3, <1>4, <2>1, <2>2
      <3>2. CASE v[k] = Qte
        <4>1. y = x + 2
          BY <2>3, <3>2
        <4>2. x \in 1..z /\ x + 1 \in 1..z
          BY <2>2, <3>1, <4>1
        <4> QED BY <4>2
      <3>3. CASE v[k] # Qte
        <4>1. y = x + 1
          BY <2>3, <3>3
        <4>2. x \in 1..z
          BY <2>2, <3>1, <4>1
        <4> QED BY <3>3, <4>2
      <3> QED BY <3>2, <3>3
    <2>5. d[x] = s[q + x] /\ (v[k] = Qte => d[x + 1] = s[q + (x + 1)])
      BY <1>3, <2>4
    <2>6. x + q = q + x /\ x + q + 1 = q + (x + 1)
      BY <2>2
    <2>7. s[x + q] = v[k] /\ (v[k] = Qte => s[x + q + 1] = Qte)
      BY <1>5
    <2> QED BY <2>4, <2>5, <2>6, <2>7
  <1>7. Undoubled(d) = v
    <2>1. HeldAt(d, 0, v, Len(v))
      <3>1. \A k \in 1..Len(v) : d[PlaceIn(0, v, k)] = v[k] /\ (v[k] = Qte => d[PlaceIn(0, v, k) + 1] = Qte)
        BY <1>6 DEF P
      <3> QED BY <3>1 DEF HeldAt
    <2>2. PlaceIn(0, v, Len(v) + 1) = Len(d) + 1
      BY <1>4 DEF P
    <2> QED BY <1>3, <2>1, <2>2, UndoubledIs
  <1>8. Stripped(d) = d
    <2>1. Len(d) = 0 \/ d[Len(d)] # Ret
      <3>1. CASE M = 0
        <4>1. P(1) = 1
          <5>1. 0 \in Int /\ 0 + 1 = 1
            OBVIOUS
          <5> QED BY <5>1, PlacesIn DEF P
        <4> QED BY <1>3, <1>4, <3>1, <4>1
      <3>2. CASE M # 0
        <4>1. M \in 1..M
          BY <1>1, <3>2
        <4>2. v[M] # Ret
          BY <3>2
        <4> PICK x, y : x = P(M) /\ y = P(M + 1)
          OBVIOUS
        <4>3. x \in 1..Len(d) /\ d[x] = v[M] /\ (v[M] = Qte => d[x + 1] = Qte)
          BY <1>6, <4>1
        <4>4. y = Len(d) + 1 /\ (v[M] = Qte => y = x + 2) /\ (v[M] # Qte => y = x + 1)
          BY <1>1, <1>4, <4>1
        <4>5. CASE v[M] = Qte
          <5>1. Len(d) = x + 1
            BY <1>3, <4>3, <4>4, <4>5
          <5> QED BY <4>3, <4>5, <5>1, Dialect DEF Ret
        <4>6. CASE v[M] # Qte
          <5>1. Len(d) = x
            BY <1>3, <4>3, <4>4, <4>6
          <5> QED BY <4>2, <4>3, <5>1
        <4> QED BY <4>5, <4>6
      <3> QED BY <3>1, <3>2
    <2>2. Returns(d, Len(d) + 1, Len(d))
      <3>1. (Len(d) + 1)..Len(d) = {}
        BY <1>3
      <3> QED BY <3>1, ReturnsIs
    <2>3. Len(d) \in 0..Len(d)
      BY <1>3
    <2>4. Stripped(d) = SubSeq(d, 1, Len(d))
      BY <1>3, <2>1, <2>2, <2>3, StrippedIs
    <2> QED BY <1>3, <2>4
  <1>9. ASSUME \A j \in 1..M : v[j] # Qte PROVE d = v
    <2>1. ASSUME NEW k \in 1..(M + 1) PROVE P(k) = k
      <3>1. {j \in 1..(k - 1) : v[j] = Qte} = {}
        <4>1. \A j \in 1..(k - 1) : j \in 1..M
          BY <1>1
        <4> QED BY <1>9, <4>1
      <3>2. P(k) = 0 + k + Cardinality({j \in 1..(k - 1) : v[j] = Qte})
        BY DEF P, PlaceIn
      <3>3. Cardinality({j \in 1..(k - 1) : v[j] = Qte}) = 0
        BY <3>1, FS_EmptySet
      <3>4. k \in Int
        BY <1>1
      <3> QED BY <3>2, <3>3, <3>4
    <2>2. Len(d) = M
      <3>1. P(M + 1) = M + 1
        BY <1>2, <2>1
      <3> QED BY <1>1, <1>3, <1>4, <3>1
    <2>3. \A k \in 1..M : d[k] = v[k]
      <3> TAKE k \in 1..M
      <3>1. k \in 1..(M + 1)
        BY <1>1
      <3> QED BY <1>6, <2>1, <3>1
    <2>4. v \in Seq(S) /\ d \in Seq(S) /\ Len(v) = Len(d) /\ \A k \in 1..Len(d) : d[k] = v[k]
      BY <1>3, <2>2, <2>3
    <2> QED BY <2>4
  <1> QED BY <1>7, <1>8, <1>9 DEF IsDataOf, d
\* A field in quotation marks, the first of them at q.
LEMMA QuotedField ==
    ASSUME NEW S, NEW s \in Seq(S), NEW v \in Seq(S), NEW p, NEW n, NEW w, Parses(s, p),
           NEW q \in Nat, NEW to \in Nat, 0 < q, to + 1 <= Len(s),
           AtBegin(p[q - 1], n, w), QuotedFrom(s, q, to, v), Ends(s[to + 1])
    PROVE  AtFieldEnd(p[to + 1], s[to + 1], n, w, v)
  <1> DEFINE M == Len(v)
             e == PlaceIn(q, v, M + 1)
             b == q + 1
             l == e - b
             d == SubSeq(s, b, e - 1)
  <1>1. M \in Nat /\ M \in 0..M /\ Len(s) \in Nat /\ e \in Int /\ e >= q + (M + 1)
    <2>1. M \in Nat /\ M + 1 \in 1..(M + 1) /\ Len(s) \in Nat /\ q \in Int
      OBVIOUS
    <2>2. e \in Int /\ e >= q + (M + 1)
      BY <2>1, PlacesIn
    <2> QED BY <2>1, <2>2
  <1>2. /\ e <= to /\ s[q] = Qte /\ s[e] = Qte
        /\ HeldAt(s, q, v, M)
        /\ v = <<>> \/ v[M] # Ret
        /\ Blank(s, e + 1, to)
    BY DEF QuotedFrom, Ret
  <1>3. InQuotes(p[e - 1], q, v, M, n, w)
    <2>1. q <= Len(s) /\ e - 1 <= Len(s)
      <3> HIDE DEF M, e
      <3> QED BY <1>1, <1>2
    <2> QED BY <1>1, <1>2, <2>1, QuotedRead
  <1>4. M = 0 => e = b
    <2>1. PlaceIn(q, v, 1) = q + 1
      <3>1. q \in Int
        OBVIOUS
      <3> QED BY <3>1, PlacesIn
    <2> QED BY <2>1
  <1>5. /\ Stripped(d) = d
        /\ Undoubled(d) = v
        /\ (\A j \in 1..M : v[j] # Qte) => d = v
    <2>1. e \in Nat /\ e <= Len(s)
      <3> HIDE DEF M, e
      <3> QED BY <1>1, <1>2
    <2>2. IsDataOf(SubSeq(s, q + 1, PlaceIn(q, v, Len(v) + 1) - 1), v)
      <3>1. PlaceIn(q, v, Len(v) + 1) <= Len(s) /\ HeldAt(s, q, v, Len(v)) /\ (v = <<>> \/ v[Len(v)] # Ret)
        BY <1>2, <2>1
      <3> HIDE DEF M, e
      <3> QED BY <3>1, DataIs
    <2> QED BY <2>2 DEF IsDataOf
  <1> HIDE DEF M, e, b, l, d
  <1>6. \A i \in e..(to + 1) : p[i] = Turn(s, p[i - 1], i)
    <2>1. \A i \in e..(to + 1) : i \in 1..Len(s)
      BY <1>1
    <2> QED BY <2>1 DEF Parses
  <1>7. PICK ste, h :
            /\ ste \in {QteOne, Qte2nd}
            /\ p[e] = St(ste, b, l, q, h, n, w)
            /\ h # 1 => \A j \in 1..M : v[j] # Qte
    <2>1. p[e] = Turn(s, p[e - 1], e)
      <3>1. e \in e..(to + 1)
        BY <1>1, <1>2
      <3> QED BY <1>6, <3>1
    <2>2. CASE M = 0
      <3> PICK z : z = 0
        OBVIOUS
      <3>1. p[e - 1] = St(Qte1st, q, z, q, z, n, w)
        BY <1>3, <2>2 DEF InQuotes
      <3>2. p[e] = St(Qte2nd, e, z, q, z, n, w)
        BY <1>2, <2>1, <3>1, QuotedIs
      <3>3. e = b /\ z = l /\ \A j \in 1..M : v[j] # Qte
        BY <1>1, <1>4, <2>2 DEF l
      <3> QED BY <3>2, <3>3
    <2>3. CASE M # 0
      <3>1. M > 0
        BY <1>1, <2>3
      <3>2. PICK k, h : /\ p[e - 1] = St(IF v[M] = Qte THEN QteTwo ELSE DatQte, q + 1, k, q, h, n, w)
                        /\ h # 1 => \A j \in 1..(M - 1) : v[j] # Qte
        BY <1>3, <3>1 DEF InQuotes
      <3> PICK o : o = 1
        OBVIOUS
      <3>3. CASE v[M] = Qte
        <4>1. p[e - 1] = St(QteTwo, b, k, q, h, n, w)
          BY <3>2, <3>3 DEF b
        <4>2. p[e] = St(QteOne, b, e - b, q, 1, n, w)
          BY <1>2, <2>1, <4>1, QuotedIs
        <4>3. p[e] = St(QteOne, b, l, q, o, n, w)
          BY <4>2 DEF l
        <4> QED BY <4>3
      <3>4. CASE v[M] # Qte
        <4>1. p[e - 1] = St(DatQte, b, k, q, h, n, w)
          BY <3>2, <3>4 DEF b
        <4>2. p[e] = St(QteOne, b, e - b, q, h, n, w)
          BY <1>2, <2>1, <4>1, QuotedIs
        <4>3. \A j \in 1..M : j \in 1..(M - 1) \/ j = M
          BY <1>1
        <4>4. h # 1 => \A j \in 1..M : v[j] # Qte
          BY <3>2, <3>4, <4>3
        <4>5. p[e] = St(QteOne, b, l, q, h, n, w)
          BY <4>2 DEF l
        <4> QED BY <4>4, <4>5
      <3> QED BY <3>3, <3>4
    <2> QED BY <2>2, <2>3
  <1> DEFINE r == St(ste, b, l, q, h, n, w)
             D == {i \in e..to : p[i] # r}
  <1> HIDE DEF r
  <1>8. D = {}
    <2> SUFFICES ASSUME D # {} PROVE FALSE
      OBVIOUS
    <2>1. PICK k \in D : \A x \in D : k <= x
      <3>1. D \in SUBSET Nat
        BY <1>1
      <3> HIDE DEF D
      <3> QED BY <3>1, LeastNumber
    <2>2. k \in e..to /\ p[k] # r
      OBVIOUS
    <2>3. k # e
      BY <1>7, <2>2 DEF r
    <2>4. k \in Int /\ k - 1 \in e..to /\ k \in (e + 1)..to /\ k \in e..(to + 1)
      BY <1>1, <2>2, <2>3
    <2>5. k - 1 \notin D
      <3>1. ~(k <= k - 1)
        BY <2>4
      <3> HIDE DEF D
      <3> QED BY <2>1, <3>1
    <2>6. p[k - 1] = r
      BY <2>4, <2>5
    <2> HIDE DEF D
    <2>7. s[k] = Spc /\ p[k] = Turn(s, r, k)
      BY <1>2, <1>6, <2>4, <2>6, BlankIs
    <2>8. p[k] = r
      BY <1>7, <2>7, ClosedIs DEF r
    <2> QED BY <2>2, <2>8
  <1>9. p[to] = r
    <2>1. to \in e..to
      BY <1>1, <1>2
    <2> QED BY <1>8, <2>1
  <1> DEFINE i == to + 1
             c == s[i]
  <1>10. p[i] = Turn(s, r, i) /\ Ends(c)
    <2>1. i \in e..(to + 1) /\ i - 1 = to
      BY <1>1, <1>2
    <2> HIDE DEF i
    <2>2. p[i] = Turn(s, p[i - 1], i)
      BY <1>6, <2>1
    <2>3. Ends(s[i])
      BY DEF i
    <2> QED BY <1>9, <2>1, <2>2, <2>3
  <1> HIDE DEF i
  <1>11. p[i] = FieldEnds(s, r, c, l)
    BY <1>7, <1>10, ClosedIs DEF r
  <1>12. b + l - 1 = e - 1
    BY <1>1 DEF b, l
  <1>13. FieldEnds(s, r, c, l) = St(IF c = Dlm THEN FldBeg ELSE RecDne, b, l, q, h, n + 1, Put(w, n + 1, v))
    <2> HIDE DEF c
    <2>1. FieldEnds(s, r, c, l) =
              St(IF c = Dlm THEN FldBeg ELSE RecDne, b, l, q, h, n + 1,
                 Put(w, n + 1, IF l = 0 /\ ste = FldBeg THEN Nil
                               ELSE IF h = 1 THEN Undoubled(Stripped(SubSeq(s, b, b + l - 1)))
                               ELSE Stripped(SubSeq(s, b, b + l - 1))))
      BY PushedIs DEF r
    <2>2. ste # FldBeg
      BY <1>7 DEF QteOne, Qte2nd, FldBeg
    <2>3. SubSeq(s, b, b + l - 1) = d
      BY <1>12 DEF d
    <2>4. (IF h = 1 THEN Undoubled(Stripped(d)) ELSE Stripped(d)) = v
      BY <1>5, <1>7
    <2> QED BY <2>1, <2>2, <2>3, <2>4
  <1> QED BY <1>11, <1>13 DEF AtFieldEnd, i

\* What is parsed is in a value in quotation marks.
CutAt(r, q, n, w) == \E b, l, h : r = St(DatQte, b, l, q, h, n, w)

\* A value in quotation marks that goes on in the next line, after its k-th character.
LEMMA QuotedCut ==
    ASSUME NEW S, NEW s \in Seq(S), NEW v \in Seq(S), NEW p, NEW n, NEW w, Parses(s, p),
           NEW q \in Nat, 0 < q, q <= Len(s), s[q] = Qte, AtBegin(p[q - 1], n, w),
           NEW k \in 1..Len(v), HeldAt(s, q, v, k), PlaceIn(q, v, k) = Len(s), v[k] # Qte
    PROVE  CutAt(p[Len(s)], q, n, w)
  <1>1. k \in 0..Len(v) /\ k > 0 /\ q \in Int /\ Len(s) \in Nat
    OBVIOUS
  <1>2. PlaceIn(q, v, k + 1) = PlaceIn(q, v, k) + 1
    BY <1>1, PlaceNext
  <1>3. PlaceIn(q, v, k + 1) - 1 = Len(s)
    BY <1>1, <1>2
  <1>4. PlaceIn(q, v, k + 1) - 1 <= Len(s)
    BY <1>1, <1>3
  <1>5. InQuotes(p[PlaceIn(q, v, k + 1) - 1], q, v, k, n, w)
    BY <1>1, <1>4, QuotedRead
  <1>6. InQuotes(p[Len(s)], q, v, k, n, w)
    BY <1>3, <1>5
  <1>7. PICK l, h : p[Len(s)] = St(IF v[k] = Qte THEN QteTwo ELSE DatQte, q + 1, l, q, h, n, w)
    BY <1>1, <1>6 DEF InQuotes
  <1>8. p[Len(s)] = St(DatQte, q + 1, l, q, h, n, w)
    BY <1>7
  <1> QED BY <1>8 DEF CutAt

-----------------------------------------------------------------------------
(***************************************************************************)
(* The part s of text t that is parsed in a turn, from a to c.             *)
(***************************************************************************)
PartOf(t, s, a, c) ==
    /\ a \in 1..c /\ c \in 1..Len(t)
    /\ s \in Seq(ToSet(t)) /\ Len(s) = c - (a - 1)
    /\ \A i \in a..c : s[i - (a - 1)] = t[i]

LEMMA OwnCharacters ==
    ASSUME NEW S, NEW t \in Seq(S)
    PROVE  t \in Seq(ToSet(t))
  <1>1. \A i \in 1..Len(t) : t[i] \in ToSet(t)
    BY DEF ToSet
  <1>2. Len(t) \in Nat /\ t = [i \in 1..Len(t) |-> t[i]]
    OBVIOUS
  <1> QED BY <1>1, <1>2

LEMMA PartIs ==
    ASSUME NEW t, t \in Seq(ToSet(t)), NEW a, NEW c \in 1..Len(t), a \in 1..c
    PROVE  PartOf(t, SubSeq(t, a, c), a, c)
  <1> DEFINE s == SubSeq(t, a, c)
  <1>1. a \in Nat /\ c \in Nat /\ a >= 1 /\ a <= c /\ a \in 1..Len(t) /\ Len(t) \in Nat
    OBVIOUS
  <1>2. s \in Seq(ToSet(t)) /\ Len(s) = c - a + 1 /\ \A i \in 1..Len(s) : s[i] = t[a + i - 1]
    BY <1>1
  <1>3. Len(s) = c - (a - 1)
    <2> HIDE DEF s
    <2> QED BY <1>1, <1>2
  <1> HIDE DEF s
  <1>4. ASSUME NEW i \in a..c PROVE s[i - (a - 1)] = t[i]
    <2> PICK j : j = i - (a - 1)
      OBVIOUS
    <2>1. j \in 1..Len(s) /\ a + j - 1 = i
      BY <1>1, <1>3
    <2> QED BY <1>2, <2>1
  <1> QED BY <1>1, <1>2, <1>3, <1>4 DEF PartOf, s

LEMMA BlankMoves ==
    ASSUME NEW t, NEW s, NEW a \in Nat, NEW c \in Nat, PartOf(t, s, a, c),
           NEW from \in Nat, NEW to \in Int, a <= from, to <= c, Blank(t, from, to)
    PROVE  Blank(s, from - (a - 1), to - (a - 1))
  <1>1. ASSUME NEW i \in (from - (a - 1))..(to - (a - 1)) PROVE s[i] = Spc
    <2> PICK j : j = i + (a - 1)
      OBVIOUS
    <2>1. j \in from..to /\ j \in a..c /\ j - (a - 1) = i
      OBVIOUS
    <2>2. t[j] = Spc
      BY <2>1, BlankIs
    <2>3. s[j - (a - 1)] = t[j]
      BY <2>1 DEF PartOf
    <2> QED BY <2>1, <2>2, <2>3
  <1> QED BY <1>1, BlankIs

LEMMA ReturnsMove ==
    ASSUME NEW t, NEW s, NEW a \in Nat, NEW c \in Nat, PartOf(t, s, a, c),
           NEW from \in Nat, NEW to \in Int, a <= from, to <= c, Returns(t, from, to)
    PROVE  Returns(s, from - (a - 1), to - (a - 1))
  <1>1. ASSUME NEW i \in (from - (a - 1))..(to - (a - 1)) PROVE s[i] = Ret
    <2> PICK j : j = i + (a - 1)
      OBVIOUS
    <2>1. j \in from..to /\ j \in a..c /\ j - (a - 1) = i
      OBVIOUS
    <2>2. t[j] = Ret
      BY <2>1, ReturnsIs
    <2>3. s[j - (a - 1)] = t[j]
      BY <2>1 DEF PartOf
    <2> QED BY <2>1, <2>2, <2>3
  <1> QED BY <1>1, ReturnsIs

LEMMA NakedMoves ==
    ASSUME NEW t, NEW s, NEW v, v \in Seq(ToSet(t)), NEW a \in Nat, NEW c \in Nat, PartOf(t, s, a, c),
           NEW b \in Nat, NEW to \in Nat, a <= b, to <= c, NakedFrom(t, b, to, v)
    PROVE  NakedFrom(s, b - (a - 1), to - (a - 1), v)
  <1> DEFINE M == Len(v)
             e == b + M
             o == a - 1
  <1>1. /\ M > 0 /\ e - 1 <= to
        /\ \A k \in 1..M : t[b + k - 1] = v[k]
        /\ Blank(t, e, to) \/ Returns(t, e, to)
    BY DEF NakedFrom
  <1>2. M \in Nat /\ e \in Nat /\ o \in Int /\ a <= e
    OBVIOUS
  <1>3. Blank(s, e - o, to - o) \/ Returns(s, e - o, to - o)
    <2> HIDE DEF M
    <2> PICK x : x = e
      OBVIOUS
    <2>1. x \in Nat /\ a <= x /\ to \in Int
      BY <1>2
    <2>2. CASE Blank(t, x, to)
      <3>1. Blank(s, x - (a - 1), to - (a - 1))
        BY <2>1, <2>2, BlankMoves
      <3> QED BY <3>1
    <2>3. CASE Returns(t, x, to)
      <3>1. Returns(s, x - (a - 1), to - (a - 1))
        BY <2>1, <2>3, ReturnsMove
      <3> QED BY <3>1
    <2> QED BY <1>1, <2>2, <2>3
  <1>4. ASSUME NEW k \in 1..M PROVE s[(b - o) + k - 1] = v[k]
    <2>1. b + k - 1 \in a..c /\ (b + k - 1) - (a - 1) = (b - o) + k - 1
      <3> PICK m : m = M
        OBVIOUS
      <3>1. k \in Nat /\ k >= 1 /\ k <= m /\ m \in Nat /\ b + m - 1 <= to
        BY <1>1, <1>2
      <3> QED BY <3>1
    <2>2. t[b + k - 1] = v[k]
      BY <1>1
    <2> QED BY <2>1, <2>2 DEF PartOf
  <1>5. (b - o) + M = e - o /\ (e - o) - 1 <= to - o
    <2> PICK m : m = M
      OBVIOUS
    <2>1. m \in Nat /\ b + m - 1 <= to
      BY <1>1, <1>2
    <2>2. (b - o) + m = (b + m) - o /\ ((b + m) - o) - 1 <= to - o
      BY <2>1
    <2> QED BY <2>2
  <1>6. /\ \A k \in 1..M : v[k] \notin {Dlm, "\n"}
        /\ v[1] \notin {" ", Qte} /\ v[M] \notin {" ", "\r"}
    BY DEF NakedFrom
  <1> HIDE DEF e, o
  <1> QED BY <1>1, <1>3, <1>4, <1>5, <1>6 DEF NakedFrom, o

LEMMA HeldMoves ==
    ASSUME NEW t, NEW s, NEW v, v \in Seq(ToSet(t)), NEW a \in Nat, NEW c \in Nat, PartOf(t, s, a, c),
           NEW q \in Nat, a <= q, NEW m \in 0..Len(v), HeldAt(t, q, v, m),
           \A k \in 1..m : PlaceIn(q, v, k) <= c /\ (v[k] = Qte => PlaceIn(q, v, k) + 1 <= c)
    PROVE  HeldAt(s, q - (a - 1), v, m)
  <1> DEFINE o == a - 1
  <1>1. ASSUME NEW k \in 1..m
        PROVE  /\ s[PlaceIn(q - o, v, k)] = v[k]
               /\ v[k] = Qte => s[PlaceIn(q - o, v, k) + 1] = Qte
    <2> PICK x : x = PlaceIn(q, v, k)
      OBVIOUS
    <2>1. k \in Int /\ q \in Int /\ o \in Int /\ k \in 1..(Len(v) + 1) /\ k >= 1
      OBVIOUS
    <2>2. x \in Int /\ x >= q + k /\ PlaceIn(q - o, v, k) = x - o
      BY <2>1, PlaceIs, PlacesMove
    <2>3. t[x] = v[k] /\ (v[k] = Qte => t[x + 1] = Qte)
      BY DEF HeldAt
    <2>4. x \in a..c /\ (v[k] = Qte => x + 1 \in a..c)
      <3>1. x <= c /\ (v[k] = Qte => x + 1 <= c)
        OBVIOUS
      <3> QED BY <2>1, <2>2, <3>1
    <2>5. s[x - o] = t[x] /\ (v[k] = Qte => s[(x + 1) - o] = t[x + 1])
      BY <2>4 DEF PartOf
    <2>6. (x + 1) - o = (x - o) + 1
      BY <2>1, <2>2
    <2> QED BY <2>2, <2>3, <2>5, <2>6
  <1> QED BY <1>1 DEF HeldAt

LEMMA QuotedMoves ==
    ASSUME NEW t, NEW s, NEW v, v \in Seq(ToSet(t)), NEW a \in Nat, NEW c \in Nat, PartOf(t, s, a, c),
           NEW q \in Nat, NEW to \in Nat, a <= q, to <= c, QuotedFrom(t, q, to, v)
    PROVE  QuotedFrom(s, q - (a - 1), to - (a - 1), v)
  <1> DEFINE M == Len(v)
             o == a - 1
  <1> PICK e : e = PlaceIn(q, v, M + 1)
    OBVIOUS
  <1>1. M \in Nat /\ q \in Int /\ o \in Int /\ M + 1 \in Int /\ M \in 0..Len(v)
    OBVIOUS
  <1>2. e \in Int /\ e >= q + (M + 1) /\ PlaceIn(q - o, v, M + 1) = e - o
    <2>1. M + 1 \in 1..(M + 1)
      BY <1>1
    <2>2. e \in Int /\ e >= q + (M + 1)
      BY <1>1, <2>1, PlaceIs
    <2>3. PlaceIn(q - o, v, M + 1) = e - o
      BY <1>1, PlacesMove
    <2> QED BY <2>2, <2>3
  <1>3. /\ e <= to /\ t[q] = Qte /\ t[e] = Qte
        /\ HeldAt(t, q, v, M)
        /\ v = <<>> \/ v[M] # Ret
        /\ Blank(t, e + 1, to)
    BY DEF QuotedFrom, Ret
  <1>4. s[q - o] = Qte /\ s[e - o] = Qte
    <2>1. q \in a..c /\ e \in a..c
      <3> HIDE DEF M
      <3> QED BY <1>1, <1>2, <1>3
    <2> QED BY <1>3, <2>1 DEF PartOf
  <1>5. HeldAt(s, q - o, v, M)
    <2>1. ASSUME NEW k \in 1..M PROVE PlaceIn(q, v, k) <= c /\ (v[k] = Qte => PlaceIn(q, v, k) + 1 <= c)
      <3> PICK x, y : x = PlaceIn(q, v, k) /\ y = PlaceIn(q, v, k + 1)
        OBVIOUS
      <3>1. k \in 1..(M + 1) /\ k + 1 \in 1..(M + 1) /\ M + 1 \in 1..(M + 1) /\ k + 1 \in 1..(M + 1)
        BY <1>1
      <3>2. x \in Int /\ y \in Int /\ y <= e
        BY <1>1, <3>1, PlaceIs, PlacesOrdered
      <3>3. (v[k] = Qte => y = x + 2) /\ (v[k] # Qte => y = x + 1)
        BY <1>1, PlaceNext
      <3>4. e <= c /\ e \in Int
        BY <1>2, <1>3
      <3>5. x <= c /\ (v[k] = Qte => x + 1 <= c)
        <4>1. CASE v[k] = Qte
          <5>1. y = x + 2
            BY <3>3, <4>1
          <5> QED BY <3>2, <3>4, <5>1
        <4>2. CASE v[k] # Qte
          <5>1. y = x + 1
            BY <3>3, <4>2
          <5> QED BY <3>2, <3>4, <4>2, <5>1
        <4> QED BY <4>1, <4>2
      <3> QED BY <3>5
    <2> QED BY <1>1, <1>3, <2>1, HeldMoves
  <1>6. Blank(s, (e - o) + 1, to - o)
    <2>1. e + 1 \in Nat /\ a <= e + 1 /\ (e + 1) - o = (e - o) + 1
      <3>1. M \in Nat /\ e \in Int /\ e >= q + (M + 1)
        BY <1>1, <1>2
      <3> HIDE DEF M
      <3>2. /\ e + 1 \in Nat /\ a <= e + 1
            /\ (e + 1) - (a - 1) = (e - (a - 1)) + 1
        BY <3>1, AfterValue
      <3> QED BY <3>2
    <2>2. Blank(s, (e + 1) - o, to - o)
      <3> HIDE DEF M
      <3> PICK x : x = e + 1
        OBVIOUS
      <3>1. x \in Nat /\ a <= x /\ to \in Int /\ Blank(t, x, to)
        BY <1>3, <2>1
      <3>2. Blank(s, x - (a - 1), to - (a - 1))
        BY <3>1, BlankMoves
      <3> QED BY <3>2
    <2> QED BY <2>1, <2>2
  <1>7. e - o <= to - o
    BY <1>1, <1>2, <1>3
  <1> HIDE DEF o
  <1> QED BY <1>2, <1>3, <1>4, <1>5, <1>6, <1>7 DEF QuotedFrom, Ret, o
\* A field at from..to, when what ends it is parsed in the same turn.
LEMMA FieldDone ==
    ASSUME NEW t, t \in Seq(ToSet(t)), NEW s, NEW p, NEW n, NEW w, NEW v,
           NEW a \in Nat, NEW c \in Nat, PartOf(t, s, a, c), Parses(s, p),
           NEW from \in Nat, NEW to \in Nat, a <= from, from <= to + 1, to + 1 <= c,
           FieldAt(t, from, to, v), AtBegin(p[(from - 1) - (a - 1)], n, w), Ends(t[to + 1])
    PROVE  AtFieldEnd(p[(to + 1) - (a - 1)], t[to + 1], n, w, v)
  <1> PICK o : o = a - 1
    OBVIOUS
  <1> PICK x, y : x = from - o /\ y = to - o
    OBVIOUS
  <1>1. a >= 1 /\ Len(s) = c - o /\ s \in Seq(ToSet(t))
    BY DEF PartOf
  <1>2. /\ o \in Nat /\ x \in Nat /\ y \in Nat /\ 0 < x /\ x <= y + 1 /\ y + 1 <= Len(s)
        /\ (from - 1) - o = x - 1 /\ (to + 1) - o = y + 1
    BY <1>1
  <1>3. s[y + 1] = t[to + 1]
    <2>1. to + 1 \in a..c
      OBVIOUS
    <2> QED BY <1>2, <2>1 DEF PartOf
  <1>4. AtBegin(p[x - 1], n, w) /\ Ends(s[y + 1])
    BY <1>2, <1>3
  <1>5. to <= c /\ from - 1 \in Int
    OBVIOUS
  <1>6. ASSUME v = Nil, Blank(t, from, to) PROVE AtFieldEnd(p[y + 1], s[y + 1], n, w, v)
    <2>1. to \in Int
      OBVIOUS
    <2>2. Blank(s, from - (a - 1), to - (a - 1))
      BY <1>5, <1>6, <2>1, BlankMoves
    <2>3. Blank(s, x, y)
      BY <2>2
    <2>4. AtFieldEnd(p[y + 1], s[y + 1], n, w, Nil)
      BY <1>1, <1>2, <1>4, <2>3, MissingField
    <2> QED BY <1>6, <2>4
  <1>7. ASSUME v \in Seq(ToSet(t)), NEW b \in from..to, Blank(t, from, b - 1),
               NakedFrom(t, b, to, v) \/ QuotedFrom(t, b, to, v)
        PROVE  AtFieldEnd(p[y + 1], s[y + 1], n, w, v)
    <2> PICK z, d : z = b - o /\ d = b - 1
      OBVIOUS
    <2>1. /\ b \in Nat /\ a <= b /\ d \in Int /\ d <= c /\ z \in Nat /\ 0 < z /\ x <= z /\ z - 1 <= Len(s)
          /\ d - o = z - 1
      BY <1>2
    <2>2. AtBegin(p[z - 1], n, w)
      <3>1. Blank(s, from - (a - 1), d - (a - 1))
        BY <1>7, <2>1, BlankMoves
      <3>2. Blank(s, x, z - 1)
        BY <2>1, <3>1
      <3> QED BY <1>1, <1>2, <1>4, <2>1, <3>2, BlanksSkipped
    <2>3. CASE NakedFrom(t, b, to, v)
      <3>1. NakedFrom(s, b - (a - 1), to - (a - 1), v)
        BY <1>5, <1>7, <2>1, <2>3, NakedMoves
      <3>2. NakedFrom(s, z, y, v)
        BY <3>1
      <3> QED BY <1>1, <1>2, <1>4, <1>7, <2>1, <2>2, <3>2, NakedField
    <2>4. CASE QuotedFrom(t, b, to, v)
      <3>1. QuotedFrom(s, b - (a - 1), to - (a - 1), v)
        BY <1>5, <1>7, <2>1, <2>4, QuotedMoves
      <3>2. QuotedFrom(s, z, y, v)
        BY <3>1
      <3> QED BY <1>1, <1>2, <1>4, <1>7, <2>1, <2>2, <3>2, QuotedField
    <2> QED BY <1>7, <2>3, <2>4
  <1>8. AtFieldEnd(p[y + 1], s[y + 1], n, w, v)
    BY <1>6, <1>7 DEF FieldAt
  <1> QED BY <1>2, <1>3, <1>8

\* A field at from..to that goes on after c, the end of what is parsed in this turn: it
\* is in quotation marks, and what is parsed again begins with the first of them.
LEMMA FieldCut ==
    ASSUME NEW t, t \in Seq(ToSet(t)), NEW s, NEW p, NEW n, NEW w, NEW v,
           NEW a \in Nat, NEW c \in Nat, PartOf(t, s, a, c), Parses(s, p),
           NEW from \in Nat, NEW to \in Nat, a <= from, from <= c, c <= to,
           FieldAt(t, from, to, v), AtBegin(p[(from - 1) - (a - 1)], n, w), t[c] = Nl
    PROVE  \E q \in from..c :
              /\ t[q] = Qte /\ FieldAt(t, q, to, v)
              /\ CutAt(p[Len(s)], q - (a - 1), n, w)
  <1> PICK o : o = a - 1
    OBVIOUS
  <1>1. a >= 1 /\ Len(s) = c - o /\ s \in Seq(ToSet(t)) /\ c \in a..c
    BY DEF PartOf
  <1>2. o \in Nat
    BY <1>1
  <1>3. t[c] # Spc /\ t[c] # Ret /\ t[c] # Qte
    BY LineEnds
  <1>4. PICK q \in from..to :
            v \in Seq(ToSet(t)) /\ Blank(t, from, q - 1) /\ (NakedFrom(t, q, to, v) \/ QuotedFrom(t, q, to, v))
    <2>1. ~Blank(t, from, to)
      <3>1. c \in from..to
        OBVIOUS
      <3> QED BY <1>3, <3>1, BlankIs
    <2> QED BY <2>1 DEF FieldAt
  <1>5. q <= c /\ q \in Nat /\ q \in Int
    <2>1. ~(c \in from..(q - 1))
      BY <1>3, <1>4, BlankIs
    <2> QED BY <2>1
  <1>6. ~NakedFrom(t, q, to, v)
    <2> SUFFICES ASSUME NakedFrom(t, q, to, v) PROVE FALSE
      OBVIOUS
    <2> PICK m : m = Len(v)
      OBVIOUS
    <2>1. m \in Nat
      BY <1>4
    <2>2. CASE c < q + m
      <3> PICK k : k = c - q + 1
        OBVIOUS
      <3>1. k \in 1..m /\ q + k - 1 = c
        BY <1>5, <2>1, <2>2
      <3>2. t[q + k - 1] = v[k] /\ v[k] # Nl
        BY <3>1 DEF NakedFrom, Nl
      <3> QED BY <3>1, <3>2
    <2>3. CASE ~(c < q + m)
      <3>1. c \in (q + m)..to
        BY <1>5, <2>1, <2>3
      <3>2. Blank(t, q + m, to) \/ Returns(t, q + m, to)
        BY DEF NakedFrom
      <3> QED BY <1>3, <3>1, <3>2, BlankIs, ReturnsIs
    <2> QED BY <2>2, <2>3
  <1>7. QuotedFrom(t, q, to, v)
    BY <1>4, <1>6
  <1> PICK e : e = PlaceIn(q, v, Len(v) + 1)
    OBVIOUS
  <1>8. t[q] = Qte /\ t[e] = Qte /\ HeldAt(t, q, v, Len(v)) /\ Blank(t, e + 1, to)
    BY <1>7 DEF QuotedFrom
  <1>9. e \in Int /\ q < c /\ c < e
    <2>1. Len(v) + 1 \in 1..(Len(v) + 1)
      BY <1>4
    <2>2. e \in Int
      BY <1>4, <1>5, <2>1, PlaceIs
    <2>3. ~(c \in (e + 1)..to)
      BY <1>3, <1>8, BlankIs
    <2>4. c # q /\ c # e
      BY <1>3, <1>8
    <2> QED BY <1>5, <2>2, <2>3, <2>4
  <1>10. PICK k \in 1..Len(v) : PlaceIn(q, v, k) = c /\ v[k] # Qte
    <2>1. c \in Int
      OBVIOUS
    <2>2. PICK k \in 1..Len(v) : PlaceIn(q, v, k) = c \/ (v[k] = Qte /\ PlaceIn(q, v, k) + 1 = c)
      BY <1>4, <1>5, <1>9, <2>1, PlacesCover
    <2>3. t[PlaceIn(q, v, k)] = v[k] /\ (v[k] = Qte => t[PlaceIn(q, v, k) + 1] = Qte)
      BY <1>8 DEF HeldAt
    <2> QED BY <1>3, <2>2, <2>3
  <1>11. v[k] # Qte /\ k \in 0..Len(v)
    BY <1>4, <1>10
  <1>12. HeldAt(s, q - o, v, k)
    <2>1. ASSUME NEW j \in 1..k PROVE PlaceIn(q, v, j) <= c /\ (v[j] = Qte => PlaceIn(q, v, j) + 1 <= c)
      <3> PICK x, y : x = PlaceIn(q, v, j) /\ y = PlaceIn(q, v, j + 1)
        OBVIOUS
      <3>1. j \in 1..Len(v) /\ j \in 1..(Len(v) + 1) /\ j + 1 \in 1..(Len(v) + 1) /\ k \in 1..(Len(v) + 1)
        BY <1>4
      <3>2. x \in Int /\ y \in Int /\ x <= c
        BY <1>4, <1>5, <1>10, <3>1, PlaceIs, PlacesOrdered
      <3>3. CASE v[j] = Qte
        <4>1. j # k
          BY <1>11, <3>3
        <4>2. j + 1 \in 1..k
          BY <3>1, <4>1
        <4>3. y <= c
          BY <1>4, <1>5, <1>10, <3>1, <4>2, PlacesOrdered
        <4>4. y = x + 2
          BY <1>4, <1>5, <3>1, <3>3, PlaceNext
        <4>5. x \in Int /\ c \in Int /\ x + 2 <= c
          BY <3>2, <4>3, <4>4
        <4>6. x + 1 <= c
          BY <4>5, TwoAfter
        <4> QED BY <3>2, <4>6
      <3> QED BY <3>2, <3>3
    <2>2. HeldAt(t, q, v, k)
      BY <1>4, <1>8 DEF HeldAt
    <2>3. a <= q
      BY <1>5
    <2>4. HeldAt(s, q - (a - 1), v, k)
      BY <1>4, <1>5, <1>11, <2>1, <2>2, <2>3, HeldMoves
    <2> QED BY <2>4
  <1> PICK z : z = q - o
    OBVIOUS
  <1>13. z \in Nat /\ 0 < z /\ z <= Len(s) /\ s[z] = Qte
    <2>1. z \in Nat /\ 0 < z /\ z <= Len(s) /\ q \in a..c
      BY <1>1, <1>2, <1>5
    <2>2. s[z] = t[q]
      BY <2>1 DEF PartOf
    <2> QED BY <1>8, <2>1, <2>2
  <1>14. AtBegin(p[z - 1], n, w)
    <2> PICK x, d : x = from - o /\ d = q - 1
      OBVIOUS
    <2>1. /\ x \in Nat /\ 0 < x /\ x <= z /\ z - 1 <= Len(s) /\ d \in Int /\ d <= c /\ d - o = z - 1
          /\ (from - 1) - o = x - 1
      BY <1>1, <1>2, <1>5, <1>13
    <2>2. Blank(s, from - (a - 1), d - (a - 1))
      BY <1>4, <2>1, BlankMoves
    <2>3. Blank(s, x, z - 1) /\ AtBegin(p[x - 1], n, w)
      BY <2>1, <2>2
    <2> QED BY <1>1, <1>13, <2>1, <2>3, BlanksSkipped
  <1>15. PlaceIn(z, v, k) = Len(s)
    <2>1. k \in Int /\ o \in Int
      BY <1>2
    <2>2. PlaceIn(q - o, v, k) = PlaceIn(q, v, k) - o
      BY <1>4, <1>5, <2>1, PlacesMove
    <2> QED BY <1>1, <1>10, <2>2
  <1>16. CutAt(p[Len(s)], z, n, w)
    <2>1. HeldAt(s, z, v, k)
      BY <1>12
    <2>2. s \in Seq(ToSet(t)) /\ v \in Seq(ToSet(t)) /\ v[k] # Qte
      BY <1>1, <1>4, <1>11
    <2> QED BY <1>13, <1>14, <1>15, <2>1, <2>2, QuotedCut
  <1>17. FieldAt(t, q, to, v)
    <2>1. q \in q..to
      BY <1>5
    <2>2. Blank(t, q, q - 1)
      <3>1. ~\E i \in q..(q - 1) : TRUE
        BY <1>5
      <3> QED BY <3>1, BlankIs
    <2> QED BY <1>4, <1>7, <2>1, <2>2 DEF FieldAt
  <1>18. q \in from..c /\ z = q - (a - 1)
    BY <1>5
  <1> QED BY <1>8, <1>16, <1>17, <1>18
-----------------------------------------------------------------------------
(***************************************************************************)
(* A record.                                                               *)
(***************************************************************************)

\* Row w has the first k of the fields; an empty line may have left a place for the first.
RowOf(V, w, fields, k) ==
    /\ w \in Seq(V) /\ k <= Len(w) /\ (Len(w) = k \/ (k = 0 /\ Len(w) = 1))
    /\ \A j \in 1..k : w[j] = fields[j]

\* The fields after the k-th are in text t from a on, the last one ends before e.
RestAt(t, a, e, fields, k) ==
    \E cut \in [k..Len(fields) -> Int] :
       /\ cut[k] = a - 1 /\ cut[Len(fields)] = e
       /\ \A i \in (k + 1)..Len(fields) :
             /\ cut[i - 1] < cut[i] /\ (i < Len(fields) => t[cut[i]] = Dlm)
             /\ FieldAt(t, cut[i - 1] + 1, cut[i] - 1, fields[i])

LEMMA PutIs ==
    ASSUME NEW V, Nil \in V, NEW fields \in Seq(V), NEW k \in Nat, NEW m \in Nat, m = k + 1, m <= Len(fields),
           NEW w, RowOf(V, w, fields, k)
    PROVE  RowOf(V, Put(w, m, fields[m]), fields, m)
  <1> DEFINE u == Put(w, m, fields[m])
  <1>1. /\ w \in Seq(V) /\ Len(w) \in Nat /\ k <= Len(w) /\ Len(w) <= m
        /\ \A j \in 1..k : w[j] = fields[j]
    <2>1. /\ w \in Seq(V) /\ k <= Len(w) /\ (Len(w) = k \/ (k = 0 /\ Len(w) = 1))
          /\ \A j \in 1..k : w[j] = fields[j]
      BY DEF RowOf
    <2>2. Len(w) \in Nat
      BY <2>1
    <2> PICK x : x = Len(w)
      OBVIOUS
    <2>3. x \in Nat /\ (x = k \/ (k = 0 /\ x = 1))
      BY <2>1, <2>2
    <2>4. x <= m
      BY <2>3
    <2> QED BY <2>1, <2>2, <2>4
  <1>2. (IF m > Len(w) THEN m ELSE Len(w)) = m
    BY <1>1
  <1>3. u = [i \in 1..m |-> IF i = m THEN fields[m] ELSE IF i <= Len(w) THEN w[i] ELSE Nil]
    BY <1>2 DEF Put
  <1>4. \A i \in 1..m : (IF i = m THEN fields[m] ELSE IF i <= Len(w) THEN w[i] ELSE Nil) = fields[i]
    BY <1>1
  <1>5. u = [i \in 1..m |-> fields[i]]
    BY <1>3, <1>4
  <1>6. \A i \in 1..m : fields[i] \in V
    OBVIOUS
  <1> HIDE DEF u
  <1>7. u \in Seq(V) /\ Len(u) = m /\ \A j \in 1..m : u[j] = fields[j]
    BY <1>5, <1>6
  <1> QED BY <1>7 DEF RowOf, u

LEMMA WholeRow ==
    ASSUME NEW V, NEW fields \in Seq(V), NEW w, Len(fields) > 0, RowOf(V, w, fields, Len(fields))
    PROVE  w = fields
  <1>1. w \in Seq(V) /\ Len(w) = Len(fields) /\ \A j \in 1..Len(fields) : w[j] = fields[j]
    BY DEF RowOf
  <1> QED BY <1>1

\* The record has ended.
EndAt(r, fields) == \E b, l, f, h : r = St(RecDne, b, l, f, h, Len(fields), fields)

\* All of a record has been read when line end c is its own, e, else some of its fields, and
\* then the beginning of one in quotation marks.
ReadTo(t, V, fields, k, a, c, e, r) ==
    \/ c = e /\ EndAt(r, fields)
    \/ c < e /\ \E q \in a..c, g \in k..(Len(fields) - 1) : \E u :
          t[q] = Qte /\ RestAt(t, q, e, fields, g) /\ RowOf(V, u, fields, g) /\ CutAt(r, q - (a - 1), g, u)

\* What is read of a record, or of what is left of it, up to a line end at c.
LEMMA RecordRead ==
    ASSUME NEW t, t \in Seq(ToSet(t)), NEW V, Nil \in V, NEW fields \in Seq(V), NEW k \in Nat, k < Len(fields),
           NEW a \in Nat, NEW c \in Nat, NEW e \in Nat, NEW s, PartOf(t, s, a, c), NEW p, Parses(s, p),
           c <= e, t[c] = Nl, RestAt(t, a, e, fields, k), NEW w, RowOf(V, w, fields, k), AtBegin(p[0], k, w)
    PROVE  ReadTo(t, V, fields, k, a, c, e, p[Len(s)])
  <1> PICK n : n = Len(fields)
    OBVIOUS
  <1>1. PICK cut : /\ cut \in [k..n -> Int] /\ cut[k] = a - 1 /\ cut[n] = e
                 /\ \A i \in (k + 1)..n :
                       /\ cut[i - 1] < cut[i] /\ (i < n => t[cut[i]] = Dlm)
                       /\ FieldAt(t, cut[i - 1] + 1, cut[i] - 1, fields[i])
    BY DEF RestAt
  <1> DEFINE Stage(i) == a - 1 <= cut[i] /\ \E u : RowOf(V, u, fields, i) /\ AtBegin(p[cut[i] - (a - 1)], i, u)
  <1>2. a >= 1 /\ a <= c /\ Len(s) = c - (a - 1) /\ n \in Nat /\ k < n
    BY DEF PartOf
  <1>3. \A i \in k..n : cut[i] \in Int
    BY <1>1
  <1>4. PICK m \in (k + 1)..n : c <= cut[m] /\ \A i \in (k + 1)..(m - 1) : cut[i] < c
    <2> DEFINE D == {i \in (k + 1)..n : c <= cut[i]}
    <2>1. D \in SUBSET Nat /\ D # {}
      <3>1. n \in (k + 1)..n /\ c <= cut[n]
        BY <1>1, <1>2
      <3>2. n \in D
        BY <3>1
      <3> HIDE DEF D
      <3>3. D # {}
        BY <3>2
      <3>4. D \in SUBSET Nat
        BY <1>2 DEF D
      <3> QED BY <3>3, <3>4
    <2>2. PICK m \in D : \A i \in D : m <= i
      <3> HIDE DEF D
      <3> QED BY <2>1, LeastNumber
    <2>3. \A i \in (k + 1)..(m - 1) : cut[i] < c
      <3> TAKE i \in (k + 1)..(m - 1)
      <3>1. i \in (k + 1)..n /\ i \notin D
        BY <2>2
      <3> QED BY <1>3, <3>1
    <2> QED BY <2>2, <2>3
  <1>5. Stage(k)
    <2>1. a - 1 <= cut[k] /\ cut[k] - (a - 1) = 0
      BY <1>1, <1>2
    <2> QED BY <2>1
  <1>6. ASSUME NEW i \in (k + 1)..(m - 1), Stage(i - 1) PROVE Stage(i)
    <2>1. PICK f, g, j : f = cut[i - 1] + 1 /\ g = cut[i] - 1 /\ j = i - 1
      OBVIOUS
    <2>2. i \in (k + 1)..n /\ j \in k..n /\ i < n /\ i \in Nat /\ j \in Nat /\ i <= Len(fields) /\ j = i - 1
      BY <1>2, <2>1
    <2>3. cut[i] \in Int /\ cut[j] \in Int /\ cut[j] < cut[i] /\ cut[i] < c /\ t[cut[i]] = Dlm
          /\ FieldAt(t, f, g, fields[i]) /\ a - 1 <= cut[j] /\ f = cut[j] + 1 /\ g = cut[i] - 1
      <3>1. cut[i] \in Int /\ cut[j] \in Int
        BY <1>3, <2>2
      <3>2. cut[i - 1] < cut[i] /\ t[cut[i]] = Dlm /\ FieldAt(t, cut[i - 1] + 1, cut[i] - 1, fields[i])
        BY <1>1, <2>2
      <3>3. cut[i] < c /\ a - 1 <= cut[i - 1]
        BY <1>4, <1>6
      <3> QED BY <2>1, <3>1, <3>2, <3>3
    <2>4. f \in Nat /\ g \in Nat /\ a <= f /\ f <= g + 1 /\ g + 1 <= c /\ f - 1 = cut[j] /\ g + 1 = cut[i]
          /\ a - 1 <= cut[i]
      <3> PICK x, y : x = cut[j] /\ y = cut[i]
        OBVIOUS
      <3>1. x \in Int /\ y \in Int /\ x < y /\ y < c /\ a - 1 <= x /\ f = x + 1 /\ g = y - 1
        BY <2>3
      <3>2. /\ f \in Nat /\ g \in Nat /\ a <= f /\ f <= y /\ a - 1 <= y
            /\ f - 1 = x /\ g + 1 = y
        BY <1>2, <3>1, BetweenCuts
      <3>3. y <= c
        BY <3>1
      <3> QED BY <3>2, <3>3
    <2>5. PICK u : RowOf(V, u, fields, j) /\ AtBegin(p[cut[j] - (a - 1)], j, u)
      BY <1>6, <2>1
    <2>6. Ends(t[g + 1]) /\ t[g + 1] = Dlm
      BY <2>3, <2>4, LineEnds
    <2>7. AtBegin(p[(f - 1) - (a - 1)], j, u)
      BY <2>4, <2>5
    <2>8. AtFieldEnd(p[(g + 1) - (a - 1)], t[g + 1], j, u, fields[i])
      BY <2>3, <2>4, <2>6, <2>7, FieldDone
    <2>9. RowOf(V, Put(u, i, fields[i]), fields, i)
      BY <2>2, <2>5, PutIs
    <2>10. AtBegin(p[cut[i] - (a - 1)], i, Put(u, i, fields[i]))
      <3>1. i = j + 1
        BY <2>2
      <3>2. AtBegin(p[(g + 1) - (a - 1)], j + 1, Put(u, j + 1, fields[i]))
        BY <2>6, <2>8 DEF AtFieldEnd, AtBegin
      <3> QED BY <2>4, <3>1, <3>2
    <2> QED BY <2>4, <2>9, <2>10
  <1>7. \A i \in k..(m - 1) : Stage(i)
    <2> DEFINE D == {i \in k..(m - 1) : ~Stage(i)}
    <2> SUFFICES ASSUME D # {} PROVE FALSE
      OBVIOUS
    <2> HIDE DEF Stage
    <2>1. PICK i \in D : \A j \in D : i <= j
      <3>1. D \in SUBSET Nat
        OBVIOUS
      <3> HIDE DEF D
      <3> QED BY <3>1, LeastNumber
    <2>2. i \in (k + 1)..(m - 1)
      BY <1>5
    <2>3. i - 1 \in k..(m - 1) /\ ~(i <= i - 1)
      BY <2>2
    <2>4. Stage(i - 1)
      BY <2>1, <2>3
    <2> QED BY <1>6, <2>2, <2>4
  <1>8. PICK f, g, j : f = cut[m - 1] + 1 /\ g = cut[m] - 1 /\ j = m - 1
    OBVIOUS
  <1>9. j \in k..(m - 1) /\ j \in k..n /\ m \in Nat /\ j \in Nat /\ m <= Len(fields) /\ m = j + 1
    BY <1>2, <1>4, <1>8
  <1>10. PICK u : RowOf(V, u, fields, j) /\ AtBegin(p[cut[j] - (a - 1)], j, u) /\ a - 1 <= cut[j]
    BY <1>7, <1>9
  <1>11. cut[j] < c
    <2>1. CASE j = k
      <3>1. cut[j] = a - 1
        BY <1>1, <2>1
      <3> QED BY <1>2, <3>1
    <2>2. CASE j # k
      <3>1. j \in (k + 1)..(m - 1)
        BY <1>9, <2>2
      <3> QED BY <1>4, <3>1
    <2> QED BY <2>1, <2>2
  <1>12. /\ cut[j] \in Int /\ cut[m] \in Int /\ c <= cut[m]
         /\ FieldAt(t, f, g, fields[m]) /\ f = cut[j] + 1 /\ g = cut[m] - 1
    BY <1>1, <1>3, <1>4, <1>8, <1>9
  <1>13. f \in Nat /\ g \in Nat /\ a <= f /\ f <= c /\ f <= g + 1 /\ c <= g + 1 /\ f - 1 = cut[j] /\ g + 1 = cut[m]
    <2> PICK x, y : x = cut[j] /\ y = cut[m]
      OBVIOUS
    <2>1. x \in Int /\ y \in Int /\ x < c /\ c <= y /\ a - 1 <= x /\ f = x + 1 /\ g = y - 1
      BY <1>10, <1>11, <1>12
    <2>2. x < y
      BY <2>1
    <2>3. f \in Nat /\ g \in Nat /\ a <= f /\ f <= y /\ f - 1 = x /\ g + 1 = y
      BY <1>2, <2>1, <2>2, BetweenCuts
    <2>4. f <= c
      <3>1. c \in Int
        OBVIOUS
      <3> QED BY <2>1, <3>1, AfterCut
    <2> QED BY <2>1, <2>3, <2>4
  <1>14. AtBegin(p[(f - 1) - (a - 1)], j, u)
    BY <1>10, <1>13
  <1>15. CASE cut[m] = c
    <2>1. m = n
      <3> SUFFICES ASSUME m < n PROVE FALSE
        BY <1>4
      <3>1. t[c] = Dlm
        BY <1>1, <1>4, <1>15
      <3> QED BY <3>1, LineEnds
    <2>2. c = e /\ g + 1 = c
      BY <1>1, <1>13, <1>15, <2>1
    <2>3. Ends(t[g + 1]) /\ t[g + 1] = Nl /\ g + 1 <= c
      BY <1>2, <2>2, LineEnds
    <2>4. AtFieldEnd(p[(g + 1) - (a - 1)], t[g + 1], j, u, fields[m])
      BY <1>12, <1>13, <1>14, <2>3, FieldDone
    <2>5. p[(g + 1) - (a - 1)] = p[Len(s)]
      BY <1>2, <2>2
    <2>6. AtFieldEnd(p[Len(s)], Nl, j, u, fields[m])
      BY <2>3, <2>4, <2>5
    <2>7. RowOf(V, Put(u, m, fields[m]), fields, m)
      BY <1>9, <1>10, PutIs
    <2>8. Put(u, m, fields[m]) = fields
      BY <1>2, <2>1, <2>7, WholeRow
    <2>9. EndAt(p[Len(s)], fields)
      BY <1>9, <2>1, <2>6, <2>8, LineEnds DEF AtFieldEnd, EndAt
    <2> QED BY <2>2, <2>9 DEF ReadTo
  <1>16. CASE cut[m] # c
    <2>1. c < cut[m] /\ c <= g
      <3>1. c \in Int /\ cut[m] \in Int /\ c < cut[m]
        BY <1>12, <1>16
      <3>2. c <= cut[m] - 1
        BY <3>1, AfterCut
      <3> QED BY <1>12, <3>1, <3>2
    <2>2. PICK q \in f..c : /\ t[q] = Qte /\ FieldAt(t, q, g, fields[m])
                            /\ CutAt(p[Len(s)], q - (a - 1), j, u)
      BY <1>12, <1>13, <1>14, <2>1, FieldCut
    <2>3. RestAt(t, q, e, fields, j)
      <3> DEFINE new == [i \in j..n |-> IF i = j THEN q - 1 ELSE cut[i]]
      <3>1. new \in [j..n -> Int] /\ new[j] = q - 1 /\ new[n] = e /\ new[m] = cut[m] /\ j <= n
        <4>1. j \in j..n /\ n \in j..n /\ m \in j..n /\ n # j /\ m # j /\ q - 1 \in Int
          BY <1>2, <1>4, <1>9, <1>13
        <4>2. \A i \in j..n : i \in k..n
          BY <1>9
        <4>3. \A i \in j..n : cut[i] \in Int
          BY <1>3, <4>2
        <4>4. new \in [j..n -> Int]
          BY <4>1, <4>3
        <4>5. cut[n] = e
          BY <1>1
        <4> HIDE DEF new
        <4>6. new[j] = q - 1 /\ new[n] = cut[n] /\ new[m] = cut[m] /\ j <= n
          BY <4>1 DEF new
        <4> QED BY <4>4, <4>5, <4>6
      <3>2. ASSUME NEW i \in (j + 1)..n
            PROVE  /\ new[i - 1] < new[i] /\ (i < n => t[new[i]] = Dlm)
                   /\ FieldAt(t, new[i - 1] + 1, new[i] - 1, fields[i])
        <4>1. i \in (k + 1)..n /\ i \in j..n /\ i # j /\ new[i] = cut[i] /\ i - 1 \in j..n
          BY <1>2, <1>9
        <4>2. CASE i = m
          <5>1. new[i - 1] = q - 1 /\ (q - 1) + 1 = q /\ q - 1 < cut[m]
            BY <1>9, <1>13, <2>1, <3>1, <4>2
          <5>2. FieldAt(t, new[i - 1] + 1, new[i] - 1, fields[i])
            <6>1. new[i - 1] + 1 = q /\ new[i] - 1 = g
              <7>1. new[i] = cut[m]
                BY <4>1, <4>2
              <7> HIDE DEF new
              <7> QED BY <1>8, <5>1, <7>1
            <6> HIDE DEF new
            <6> QED BY <2>2, <4>2, <6>1
          <5>3. t[new[i]] = Dlm \/ ~(i < n)
            <6> HIDE DEF new
            <6> QED BY <1>1, <4>1
          <5>4. new[i - 1] < new[i]
            <6> HIDE DEF new
            <6> QED BY <4>1, <4>2, <5>1
          <5> HIDE DEF new
          <5> QED BY <5>2, <5>3, <5>4
        <4>3. CASE i # m
          <5>1. i - 1 # j
            BY <1>9, <4>3
          <5>2. new[i - 1] = cut[i - 1]
            BY <4>1, <5>1
          <5> HIDE DEF new
          <5> QED BY <1>1, <4>1, <5>2
        <4> QED BY <4>2, <4>3
      <3> HIDE DEF new
      <3> QED BY <3>1, <3>2 DEF RestAt
    <2>4. c < e
      <3> DEFINE D == {i \in m..n : cut[i] <= c}
      <3> SUFFICES ASSUME n \in D PROVE FALSE
        BY <1>1, <1>2, <1>4
      <3>1. PICK i \in D : \A x \in D : i <= x
        <4>1. D \in SUBSET Nat
          BY <1>9
        <4> HIDE DEF D
        <4> QED BY <4>1, LeastNumber
      <3>2. i # m /\ i \in m..n /\ cut[i] <= c
        BY <1>12, <2>1, <3>1
      <3>3. i - 1 \in m..n /\ i \in (k + 1)..n /\ ~(i <= i - 1)
        BY <1>4, <3>2
      <3>4. cut[i - 1] < cut[i] /\ cut[i - 1] \in Int /\ cut[i] \in Int
        BY <1>1, <1>3, <1>4, <3>3
      <3>5. i - 1 \in D
        BY <3>2, <3>3, <3>4
      <3> HIDE DEF D
      <3> QED BY <3>1, <3>3, <3>5
    <2>5. q \in a..c /\ j \in k..(Len(fields) - 1)
      BY <1>9, <1>13, <2>2
    <2> QED BY <1>10, <2>2, <2>3, <2>4, <2>5 DEF ReadTo
  <1> QED BY <1>15, <1>16

LEMMA ParserParses ==
    ASSUME NEW S, NEW s \in Seq(S), NEW row, NEW cnt
    PROVE  Parses(s, Parser(s, row, cnt)) /\ AtBegin(Parser(s, row, cnt)[0], cnt, row)
  <1> DEFINE p == Parser(s, row, cnt)
  <1>1. Len(s) \in Nat
    OBVIOUS
  <1>2. Parses(s, p)
    <2>1. ASSUME NEW i \in 1..Len(s) PROVE p[i] = Turn(s, p[i - 1], i)
      <3>1. i \in 0..Len(s) /\ i # 0
        BY <1>1
      <3> DEFINE R == [ste |-> "FldBeg", beg |-> 1, len |-> 0, fld |-> 1, hdb |-> 0, cnt |-> cnt, row |-> row]
      <3>2. \A j \in 0..Len(s) : p[j] = IF j = 0 THEN R ELSE Turn(s, p[j - 1], j)
        BY ParserIs
      <3> HIDE DEF R, p
      <3> QED BY <3>1, <3>2
    <2> HIDE DEF p
    <2> QED BY <2>1 DEF Parses
  <1>3. p[0] = St(FldBeg, 1, 0, 1, 0, cnt, row)
    <2>1. 0 \in 0..Len(s)
      BY <1>1
    <2> QED BY <2>1, ParserIs DEF St, FldBeg
  <1> HIDE DEF p
  <1>4. AtBegin(p[0], cnt, row)
    BY <1>3 DEF AtBegin
  <1> QED BY <1>2, <1>4 DEF p

\* What the caller sees of the parser's state.
Told(P, ste, rest, n, w) == /\ Done(P) <=> ste = RecDne
                            /\ P.rest = rest /\ P.cnt = n /\ P.row = w

LEMMA ParseLineIs ==
    ASSUME NEW s, NEW row, NEW cnt, NEW ste, NEW b, NEW l, NEW f, NEW h, NEW n, NEW w,
           Parser(s, row, cnt)[Len(s)] = St(ste, b, l, f, h, n, w)
    PROVE  Told(ParseLine(s, row, cnt), ste, SubSeq(s, f, Len(s)), n, w)
  <1> DEFINE r == Parser(s, row, cnt)[Len(s)]
  <1>1. r.ste = ste /\ r.fld = f /\ r.cnt = n /\ r.row = w
    BY DEF St
  <1> HIDE DEF r
  <1> PICK rest : rest = SubSeq(s, f, Len(s))
    OBVIOUS
  <1> DEFINE P == ParseLine(s, row, cnt)
  <1>2. P = [ste |-> ste, rest |-> rest, cnt |-> n, row |-> w]
    BY <1>1 DEF ParseLine, r
  <1> HIDE DEF P
  <1>3. P.ste = ste /\ P.rest = SubSeq(s, f, Len(s)) /\ P.cnt = n /\ P.row = w
    BY <1>2
  <1>4. Told(P, ste, SubSeq(s, f, Len(s)), n, w)
    BY <1>3 DEF Told, Done, RecDne
  <1> QED BY <1>4 DEF P

TurnTo(t, V, fields, k, a, c, e, s, P) ==
    \/ c = e /\ Done(P) /\ P.row = fields
    \/ /\ c < e /\ ~Done(P) /\ P.cnt \in k..(Len(fields) - 1)
       /\ RowOf(V, P.row, fields, P.cnt)
       /\ \E q \in a..c : /\ t[q] = Qte /\ RestAt(t, q, e, fields, P.cnt)
                          /\ P.rest = SubSeq(s, q - (a - 1), Len(s))

\* A record, or what is left of it, in one turn of rows().
LEMMA RecordParsed ==
    ASSUME NEW t, t \in Seq(ToSet(t)), NEW V, Nil \in V, NEW fields \in Seq(V), NEW k \in Nat, k < Len(fields),
           NEW a \in Nat, NEW c \in Nat, NEW e \in Nat, NEW s, PartOf(t, s, a, c),
           c <= e, t[c] = Nl, RestAt(t, a, e, fields, k), NEW w, RowOf(V, w, fields, k)
    PROVE  TurnTo(t, V, fields, k, a, c, e, s, ParseLine(s, w, k))
  <1> DEFINE P == ParseLine(s, w, k)
             p == Parser(s, w, k)
  <1>1. s \in Seq(ToSet(t))
    BY DEF PartOf
  <1>2. Parses(s, p) /\ AtBegin(p[0], k, w)
    BY <1>1, ParserParses
  <1> HIDE DEF P, p
  <1>3. ReadTo(t, V, fields, k, a, c, e, p[Len(s)])
    BY <1>2, RecordRead
  <1>4. CASE c = e /\ EndAt(p[Len(s)], fields)
    <2>1. PICK b, l, f, h : p[Len(s)] = St(RecDne, b, l, f, h, Len(fields), fields)
      BY <1>4 DEF EndAt
    <2>2. Told(P, RecDne, SubSeq(s, f, Len(s)), Len(fields), fields)
      BY <2>1, ParseLineIs DEF P, p
    <2>3. Done(P) /\ P.row = fields
      BY <2>2 DEF Told
    <2> QED BY <1>4, <2>3 DEF TurnTo, P
  <1>5. ASSUME c < e, NEW q \in a..c, NEW g \in k..(Len(fields) - 1), NEW u,
               t[q] = Qte, RestAt(t, q, e, fields, g), RowOf(V, u, fields, g), CutAt(p[Len(s)], q - (a - 1), g, u)
        PROVE  /\ c < e /\ ~Done(P) /\ P.cnt \in k..(Len(fields) - 1)
               /\ RowOf(V, P.row, fields, P.cnt)
               /\ \E x \in a..c : /\ t[x] = Qte /\ RestAt(t, x, e, fields, P.cnt)
                                  /\ P.rest = SubSeq(s, x - (a - 1), Len(s))
    <2> PICK o : o = q - (a - 1)
      OBVIOUS
    <2>1. PICK b, l, h : p[Len(s)] = St(DatQte, b, l, o, h, g, u)
      BY <1>5 DEF CutAt
    <2>2. DatQte # RecDne
      BY DEF DatQte, RecDne
    <2>3. Told(P, DatQte, SubSeq(s, o, Len(s)), g, u)
      BY <2>1, ParseLineIs DEF P, p
    <2>4. ~Done(P) /\ P.rest = SubSeq(s, o, Len(s)) /\ P.cnt = g /\ P.row = u
      BY <2>2, <2>3 DEF Told
    <2> QED BY <1>5, <2>4
  <1>6. TurnTo(t, V, fields, k, a, c, e, s, P)
    <2>1. CASE c = e /\ EndAt(p[Len(s)], fields)
      BY <1>4, <2>1 DEF P
    <2>2. CASE ~(c = e /\ EndAt(p[Len(s)], fields))
      <3>1. PICK q, g, u :
                /\ q \in a..c /\ g \in k..(Len(fields) - 1)
                /\ c < e /\ t[q] = Qte /\ RestAt(t, q, e, fields, g) /\ RowOf(V, u, fields, g)
                /\ CutAt(p[Len(s)], q - (a - 1), g, u)
        BY <1>3, <2>2 DEF ReadTo
      <3> QED BY <1>5, <3>1 DEF TurnTo
    <2> QED BY <2>1, <2>2
  <1> QED BY <1>6 DEF P

\* An empty line leaves at most a missing field.
LEMMA EmptyParsed ==
    ASSUME NEW V, Nil \in V, NEW w, NEW fields, RowOf(V, w, fields, 0), NEW s, s = <<Nl>>
    PROVE  LET P == ParseLine(s, w, 0)
           IN  Done(P) /\ RowOf(V, P.row, fields, 0)
  <1> DEFINE P == ParseLine(s, w, 0)
             p == Parser(s, w, 0)
  <1> PICK z, o : z = 0 /\ o = 1
    OBVIOUS
  <1>1. s \in Seq({Nl}) /\ Len(s) = o /\ s[o] = Nl
    OBVIOUS
  <1>2. Parses(s, p) /\ AtBegin(p[z], z, w)
    BY <1>1, ParserParses
  <1> HIDE DEF P, p
  <1>3. p[o] = Turn(s, p[z], o)
    BY <1>1, <1>2 DEF Parses
  <1>4. PICK b, l, f, h : p[z] = St(FldBeg, b, l, f, h, z, w)
    BY <1>2 DEF AtBegin
  <1>5. p[o] = St(IF s[o] = Dlm THEN FldBeg ELSE RecDne, o, 0, o, 0, z + 1, Put(w, z + 1, Nil))
    BY <1>1, <1>3, <1>4, BeginIs, LineEnds
  <1>6. p[Len(s)] = St(RecDne, o, 0, o, 0, o, Put(w, o, Nil))
    BY <1>1, <1>5, LineEnds
  <1>7. Done(P) /\ P.row = Put(w, o, Nil)
    <2>1. Told(P, RecDne, SubSeq(s, o, Len(s)), o, Put(w, o, Nil))
      BY <1>6, ParseLineIs DEF P, p
    <2> QED BY <2>1 DEF Told
  <1>8. RowOf(V, Put(w, o, Nil), fields, z)
    <2>1. w \in Seq(V) /\ (Len(w) = 0 \/ Len(w) = 1)
      BY DEF RowOf
    <2>2. (IF o > Len(w) THEN o ELSE Len(w)) = o
      BY <2>1
    <2>3. Put(w, o, Nil) = [i \in 1..o |-> IF i = o THEN Nil ELSE IF i <= Len(w) THEN w[i] ELSE Nil]
      BY <2>2 DEF Put
    <2>4. \A i \in 1..o : (IF i = o THEN Nil ELSE IF i <= Len(w) THEN w[i] ELSE Nil) = Nil
      OBVIOUS
    <2>5. Put(w, o, Nil) = [i \in 1..o |-> Nil]
      BY <2>3, <2>4
    <2>6. Put(w, o, Nil) \in Seq(V) /\ Len(Put(w, o, Nil)) = 1
      BY <2>5
    <2> QED BY <2>6 DEF RowOf
  <1> QED BY <1>7, <1>8 DEF P

-----------------------------------------------------------------------------
(***************************************************************************)
(* A document.                                                             *)
(***************************************************************************)
WholeText(d) == Append(d.text, "\n")
Vals(d)   == Seq(ToSet(WholeText(d))) \cup {Nil}
Starts(d) == d.skip + IF d.names THEN 1 ELSE 0

LEMMA RecordIsRest ==
    ASSUME NEW t, NEW from \in Nat, NEW to \in Int, NEW V, NEW fields \in Seq(V), RecordAt(t, from, to, fields)
    PROVE  from <= to /\ Len(fields) > 0 /\ RestAt(t, from, to + 1, fields, 0)
  <1> PICK n, z : n = Len(fields) /\ z = 0
    OBVIOUS
  <1>1. n \in Nat /\ from <= to /\ n > 0
    BY DEF RecordAt
  <1> DEFINE X == {from - 1, to + 1} \cup {i \in from..to : t[i] = Dlm}
  <1>2. PICK cut \in [z..n -> X] :
            /\ cut[z] = from - 1 /\ cut[n] = to + 1
            /\ \A k \in 1..n :
                  /\ cut[k - 1] < cut[k] /\ (k < n => t[cut[k]] = Dlm)
                  /\ FieldAt(t, cut[k - 1] + 1, cut[k] - 1, fields[k])
    BY DEF RecordAt
  <1>3. X \subseteq Int
    OBVIOUS
  <1> HIDE DEF X
  <1>4. cut \in [z..n -> Int]
    BY <1>2, <1>3
  <1>5. \A k \in (z + 1)..n : k \in 1..n
    OBVIOUS
  <1>6. RestAt(t, from, to + 1, fields, z)
    BY <1>2, <1>4, <1>5 DEF RestAt
  <1> QED BY <1>1, <1>6

LEMMA TextIs ==
    ASSUME NEW d, NEW S, d.text \in Seq(S)
    PROVE  LET t == WholeText(d)
               m == Len(d.text) + 1
           IN  /\ t \in Seq(ToSet(t)) /\ Len(d.text) \in Nat /\ Len(t) = m /\ t[m] = Nl /\ t = Append(d.text, Nl)
  <1> DEFINE t == WholeText(d)
  <1>1. t = Append(d.text, Nl)
    BY DEF WholeText, Nl
  <1>2. t \in Seq(S \cup {Nl}) /\ Len(d.text) \in Nat /\ Len(t) = Len(d.text) + 1 /\ t[Len(d.text) + 1] = Nl
    BY <1>1
  <1> HIDE DEF t
  <1>3. t \in Seq(ToSet(t))
    BY <1>2, OwnCharacters
  <1> QED BY <1>1, <1>2, <1>3 DEF t

\* What is known of the parts of a text.
LEMMA Types ==
    ASSUME NEW d, NEW n \in Nat, NEW ends, NEW upto, NEW names, WrittenAs(d, n, ends, upto, names)
    PROVE  /\ d.text \in Seq(ToSet(WholeText(d))) /\ d.skip \in Nat /\ d.names \in BOOLEAN
           /\ Nil \notin Seq(ToSet(WholeText(d))) /\ d.keep = FALSE
  BY DEF WrittenAs, WholeText

LEMMA TypesOfTable ==
    ASSUME NEW d, NEW n \in Nat, NEW ends, NEW upto, NEW names, WrittenAs(d, n, ends, upto, names)
    PROVE  /\ d.table \in Seq([fields : Seq(Vals(d)), named : {Titled(names, r.fields) : r \in ToSet(d.table)}])
           /\ \A r \in ToSet(d.table) : r.named = Titled(names, r.fields)
  BY DEF WrittenAs, WholeText, Vals

LEMMA TypesOfNames ==
    ASSUME NEW d, NEW n \in Nat, NEW ends, NEW upto, NEW names, WrittenAs(d, n, ends, upto, names)
    PROVE  /\ names = Nil => ~d.names
           /\ names # Nil => /\ names \in Seq(Seq(ToSet(WholeText(d))))
                             /\ \A i, j \in DOMAIN names : names[i] = names[j] => i = j
           /\ ~d.names => names = d.headers
  BY DEF WrittenAs, WholeText

LEMMA UptoIn ==
    ASSUME NEW d, NEW n \in Nat, NEW ends, NEW upto, NEW names, WrittenAs(d, n, ends, upto, names)
    PROVE  upto[0] = 0 /\ \A x \in 0..n : upto[x] \in Nat /\ upto[x] <= Len(d.table)
  <1>1. Len(d.table) \in Nat
    BY TypesOfTable
  <1>2. upto \in [0..n -> 0..Len(d.table)] /\ upto[0] = 0
    BY DEF WrittenAs
  <1>3. \A x \in 0..n : upto[x] \in 0..Len(d.table)
    BY <1>2
  <1> QED BY <1>1, <1>2, <1>3

LEMMA TypesOfParts ==
    ASSUME NEW d, NEW n \in Nat, NEW ends, NEW upto, NEW names, WrittenAs(d, n, ends, upto, names)
    PROVE  /\ Starts(d) \in Nat /\ Starts(d) <= n
           /\ ends \in [0..n -> Nat] /\ upto \in [0..n -> Nat]
           /\ ends[0] = 0 /\ ends[n] = Len(WholeText(d)) /\ upto[0] = 0 /\ upto[n] = Len(d.table)
           /\ \A x \in 0..n : ends[x] <= Len(WholeText(d)) /\ upto[x] <= Len(d.table)
  <1> DEFINE t == WholeText(d)
  <1>1. Starts(d) \in Nat
    <2>1. d.skip \in Nat /\ (Starts(d) = d.skip + 1 \/ Starts(d) = d.skip + 0)
      BY Types DEF Starts
    <2> QED BY <2>1
  <1>2. Len(t) \in Nat /\ Len(d.table) \in Nat
    BY Types, TextIs, TypesOfTable
  <1>3. /\ Starts(d) <= n
        /\ ends \in [0..n -> 0..Len(t)] /\ upto \in [0..n -> 0..Len(d.table)]
        /\ ends[0] = 0 /\ ends[n] = Len(t) /\ upto[0] = 0 /\ upto[n] = Len(d.table)
    BY DEF WrittenAs, WholeText, Starts
  <1> HIDE DEF t
  <1>4. \A x \in 0..n : ends[x] \in 0..Len(t) /\ upto[x] \in 0..Len(d.table)
    BY <1>3
  <1>5. ends \in [0..n -> Nat] /\ upto \in [0..n -> Nat]
    BY <1>3, <1>4
  <1>6. \A x \in 0..n : ends[x] <= Len(t) /\ upto[x] <= Len(d.table)
    BY <1>2, <1>4
  <1> QED BY <1>1, <1>3, <1>5, <1>6 DEF t

\* The x-th part.
LEMMA PartLaid ==
    ASSUME NEW d, NEW n \in Nat, NEW ends, NEW upto, NEW names, WrittenAs(d, n, ends, upto, names),
           NEW x \in 1..n
    PROVE  ends[x - 1] + 1 <= (ends[x] - 1) + 1 /\ WholeText(d)[(ends[x] - 1) + 1] = Nl
  BY DEF WrittenAs, WholeText, Nl

LEMMA PartSkipped ==
    ASSUME NEW d, NEW n \in Nat, NEW ends, NEW upto, NEW names, WrittenAs(d, n, ends, upto, names),
           NEW x \in 1..n, x <= Starts(d)
    PROVE  upto[x] = 0 /\ OneLine(WholeText(d), ends[x - 1] + 1, ends[x] - 1)
  BY DEF WrittenAs, WholeText, Starts

LEMMA PartNames ==
    ASSUME NEW d, NEW n \in Nat, NEW ends, NEW upto, NEW names, WrittenAs(d, n, ends, upto, names),
           NEW x \in 1..n, d.names, x = d.skip + 1
    PROVE  RecordAt(WholeText(d), ends[x - 1] + 1, ends[x] - 1, names)
  BY DEF WrittenAs, WholeText

LEMMA PartRecord ==
    ASSUME NEW d, NEW n \in Nat, NEW ends, NEW upto, NEW names, WrittenAs(d, n, ends, upto, names),
           NEW x \in 1..n, x > Starts(d)
    PROVE  \/ ends[x - 1] + 1 = (ends[x] - 1) + 1 /\ upto[x] = upto[x - 1]
           \/ /\ upto[x] = upto[x - 1] + 1
              /\ RecordAt(WholeText(d), ends[x - 1] + 1, ends[x] - 1, d.table[upto[x]].fields)
  BY DEF WrittenAs, WholeText, Starts

LEMMA PartEnds ==
    ASSUME NEW d, NEW n \in Nat, NEW ends, NEW upto, NEW names, WrittenAs(d, n, ends, upto, names),
           NEW x \in 1..n
    PROVE  /\ ends[x - 1] \in Nat /\ ends[x] \in Nat /\ ends[x - 1] < ends[x]
           /\ ends[x] <= Len(WholeText(d)) /\ WholeText(d)[ends[x]] = Nl
  <1> PICK f, g : f = ends[x - 1] /\ g = ends[x]
    OBVIOUS
  <1>1. x - 1 \in 0..n /\ x \in 0..n
    OBVIOUS
  <1>2. f \in Nat /\ g \in Nat /\ g <= Len(WholeText(d))
    <2>1. ends \in [0..n -> Nat]
      BY TypesOfParts
    <2>2. \A y \in 0..n : ends[y] <= Len(WholeText(d))
      BY TypesOfParts
    <2> QED BY <1>1, <2>1, <2>2
  <1>3. f + 1 <= (g - 1) + 1 /\ WholeText(d)[(g - 1) + 1] = Nl
    BY PartLaid
  <1>4. f < g /\ (g - 1) + 1 = g
    BY <1>2, <1>3
  <1> QED BY <1>2, <1>3, <1>4

LEMMA UptoIs ==
    ASSUME NEW d, NEW n \in Nat, NEW ends, NEW upto, NEW names, WrittenAs(d, n, ends, upto, names),
           NEW x \in 1..n
    PROVE  upto[x - 1] \in Nat /\ upto[x] \in Nat /\ upto[x] <= Len(d.table) /\ Len(d.table) \in Nat
  <1> PICK f, g : f = upto[x - 1] /\ g = upto[x]
    OBVIOUS
  <1>1. x - 1 \in 0..n /\ x \in 0..n
    OBVIOUS
  <1>2. f \in Nat /\ g \in Nat
    <2>1. upto \in [0..n -> Nat]
      BY TypesOfParts
    <2> QED BY <1>1, <2>1
  <1>3. g <= Len(d.table)
    BY <1>1, TypesOfParts
  <1>4. Len(d.table) \in Nat
    BY TypesOfTable
  <1> QED BY <1>2, <1>3, <1>4

\* The iterator's call after i characters, in the x-th part.
Token(t, i, j) == [token |-> SubSeq(t, i + 1, j - 1), its |-> j]

LEMMA SourceIs ==
    ASSUME NEW n \in Nat, NEW ends, NEW upto, NEW names, WrittenAs(doc, n, ends, upto, names),
           NEW i \in Nat, i < Len(WholeText(doc))
    PROVE  \E j \in (i + 1)..Len(WholeText(doc)) :
               /\ WholeText(doc)[j] = Nl /\ OneLine(WholeText(doc), i + 1, j - 1)
               /\ Source(i) = Token(WholeText(doc), i, j)
  <1> DEFINE t == WholeText(doc)
             S == ToSet(t)
  <1>1. doc.text \in Seq(S) /\ doc.keep = FALSE /\ doc.eol = <<"\n">>
    <2>1. doc.eol = <<"\n">>
      BY DEF WrittenAs
    <2> HIDE DEF S
    <2>2. doc.text \in Seq(S) /\ doc.keep = FALSE
      BY Types DEF S
    <2> QED BY <2>1, <2>2
  <1>2. i \in 0..Len(doc.text)
    <2>1. Len(doc.text) \in Nat /\ Len(t) = Len(doc.text) + 1
      BY <1>1, TextIs
    <2> QED BY <2>1
  <1>3. PICK j \in (i + 1)..Len(t) :
            /\ t[j] = "\n" /\ OneLine(t, i + 1, j - 1)
            /\ Split(doc.text, <<"\n">>, FALSE, i) = [token |-> SubSeq(t, i + 1, j - 1), its |-> j]
    <2> HIDE DEF S
    <2> QED BY <1>1, <1>2, SplitIs DEF WholeText
  <1> HIDE DEF t, S
  <1>4. t[j] = Nl
    BY <1>3 DEF Nl
  <1>5. Source(i) = Token(t, i, j)
    BY <1>1, <1>3 DEF Source, Token
  <1> QED BY <1>3, <1>4, <1>5 DEF t

LEMMA NoSource ==
    ASSUME NEW n \in Nat, NEW ends, NEW upto, NEW names, WrittenAs(doc, n, ends, upto, names)
    PROVE  Source(Len(WholeText(doc))).token = Nil
  <1> PICK m : m = Len(WholeText(doc))
    OBVIOUS
  <1>1. m > Len(doc.text)
    <2>1. doc.text \in Seq(ToSet(WholeText(doc)))
      BY Types
    <2>2. Len(doc.text) \in Nat /\ m = Len(doc.text) + 1
      BY <2>1, TextIs
    <2> QED BY <2>2
  <1>2. Source(m) = [token |-> Nil, its |-> m]
    BY <1>1 DEF Source, Split
  <1> QED BY <1>2

\* In the x-th part, the line end that comes next is in it.
LEMMA SourceInPart ==
    ASSUME NEW n \in Nat, NEW ends, NEW upto, NEW names, WrittenAs(doc, n, ends, upto, names),
           NEW x \in 1..n, NEW i \in Nat, ends[x - 1] <= i, i < ends[x]
    PROVE  \E j \in (i + 1)..ends[x] :
               /\ WholeText(doc)[j] = Nl /\ OneLine(WholeText(doc), i + 1, j - 1)
               /\ Source(i) = Token(WholeText(doc), i, j)
  <1> PICK t, e : t = WholeText(doc) /\ e = ends[x]
    OBVIOUS
  <1>1. e \in Nat /\ e <= Len(t) /\ t[e] = Nl
    BY PartEnds
  <1>2. Len(t) \in Nat
    <2>1. doc.text \in Seq(ToSet(WholeText(doc)))
      BY Types
    <2> QED BY <2>1, TextIs
  <1>3. i < Len(t)
    BY <1>1, <1>2
  <1>4. PICK j \in (i + 1)..Len(t) :
            t[j] = Nl /\ OneLine(t, i + 1, j - 1) /\ Source(i) = Token(t, i, j)
    BY <1>3, SourceIs
  <1>5. j <= e
    <2> SUFFICES ASSUME e < j PROVE FALSE
      BY <1>1, <1>2
    <2>1. e \in (i + 1)..(j - 1)
      BY <1>1, <1>2
    <2>2. t[e] # Nl
      BY <1>4, <2>1, OneLineIs
    <2> QED BY <1>1, <2>2
  <1>6. j \in (i + 1)..e
    BY <1>1, <1>2, <1>5
  <1> QED BY <1>4, <1>6

\* What is left of the x-th part when it is read on from a: row w has its first k fields.
PartLeft(d, ends, upto, x, a, k, w) ==
    LET fields == d.table[upto[x]].fields
    IN  \/ a = ends[x] /\ upto[x] = upto[x - 1] /\ k = 0 /\ RowOf(Vals(d), w, <<>>, 0)
        \/ /\ a < ends[x] /\ upto[x] = upto[x - 1] + 1 /\ k \in 0..(Len(fields) - 1)
           /\ RestAt(WholeText(d), a, ends[x], fields, k) /\ RowOf(Vals(d), w, fields, k)

\* Line l is a part of the text from a on, up to the line end at i.
LineAt(d, ends, x, i, l, a) ==
    /\ a \in 1..i /\ ends[x - 1] < a /\ i \in 1..ends[x] /\ i <= Len(WholeText(d))
    /\ WholeText(d)[i] = Nl /\ l = SubSeq(WholeText(d), a, i - 1)

\* x parts have been read, and what the iterator returned next.
AtPart(d, n, ends, upto, x, i, l, k, w) ==
    \/ x = n /\ l = Nil
    \/ x < n /\ l # Nil /\ \E a : LineAt(d, ends, x + 1, i, l, a) /\ PartLeft(d, ends, upto, x + 1, a, k, w)

LEMMA RowIsNew ==
    ASSUME NEW V, NEW w, NEW f, NEW g, RowOf(V, w, f, 0)
    PROVE  RowOf(V, w, g, 0)
  <1>1. /\ w \in Seq(V) /\ 0 <= Len(w) /\ (Len(w) = 0 \/ (0 = 0 /\ Len(w) = 1))
    BY DEF RowOf
  <1>2. \A j \in 1..0 : w[j] = g[j]
    OBVIOUS
  <1> QED BY <1>1, <1>2 DEF RowOf

LEMMA TableAt ==
    ASSUME NEW d, NEW n \in Nat, NEW ends, NEW upto, NEW names, WrittenAs(d, n, ends, upto, names),
           NEW m \in 1..Len(d.table)
    PROVE  /\ d.table[m].fields \in Seq(Vals(d))
           /\ d.table[m] = [fields |-> d.table[m].fields, named |-> Titled(names, d.table[m].fields)]
  <1> DEFINE X == {Titled(names, r.fields) : r \in ToSet(d.table)}
             A == Seq(Vals(d))
  <1>1. d.table \in Seq([fields : A, named : X]) /\ \A r \in ToSet(d.table) : r.named = Titled(names, r.fields)
    BY TypesOfTable
  <1> HIDE DEF X, A
  <1>2. d.table[m] \in [fields : A, named : X]
    <2>1. PICK T, R : T = d.table /\ R = [fields : A, named : X]
      OBVIOUS
    <2>2. T \in Seq(R) /\ m \in 1..Len(T)
      BY <1>1, <2>1
    <2>3. T[m] \in R
      BY <2>2
    <2> QED BY <2>1, <2>3
  <1>3. d.table[m] \in ToSet(d.table)
    BY <1>1 DEF ToSet
  <1>4. d.table[m].named = Titled(names, d.table[m].fields)
    BY <1>1, <1>3
  <1> PICK r : r = d.table[m]
    OBVIOUS
  <1>5. r.fields \in A /\ r = [fields |-> r.fields, named |-> r.named]
    BY <1>2
  <1> QED BY <1>4, <1>5 DEF A

LEMMA PartsOfText ==
    ASSUME NEW t, t \in Seq(ToSet(t)), NEW a \in Nat, NEW b \in Int, 1 <= a, b <= Len(t)
    PROVE  SubSeq(t, a, b) \in Seq(ToSet(t))
  <1> PICK S : S = ToSet(t)
    OBVIOUS
  <1>1. t \in Seq(S)
    OBVIOUS
  <1>2. SubSeq(t, a, b) \in Seq(S)
    <2>1. Len(t) \in Nat /\ \A i \in a..b : t[i] \in S
      BY <1>1
    <2> QED BY <1>1, <2>1
  <1> QED BY <1>2

LEMMA NextPart ==
    ASSUME NEW n \in Nat, NEW ends, NEW upto, NEW names, WrittenAs(doc, n, ends, upto, names),
           NEW x \in Starts(doc)..n, NEW w, RowOf(Vals(doc), w, <<>>, 0), NEW src, src = Source(ends[x])
    PROVE  AtPart(doc, n, ends, upto, x, src.its, src.token, 0, w)
  <1> PICK t, z : t = WholeText(doc) /\ z = 0
    OBVIOUS
  <1>1. x \in 0..n /\ x \in Nat /\ Starts(doc) \in Nat /\ Starts(doc) <= x
    BY TypesOfParts
  <1>2. CASE x = n
    <2>1. ends[x] = Len(WholeText(doc))
      BY <1>2, TypesOfParts
    <2>2. src.token = Nil
      BY <2>1, NoSource
    <2> QED BY <1>2, <2>2 DEF AtPart
  <1>3. CASE x # n
    <2>1. PICK y : y = x + 1
      OBVIOUS
    <2>2. y \in 1..n /\ x = y - 1 /\ x < n /\ y > Starts(doc) /\ y \in 0..n
      BY <1>1, <1>3, <2>1
    <2>3. PICK i, e : i = ends[x] /\ e = ends[y]
      OBVIOUS
    <2>4. /\ i \in Nat /\ e \in Nat /\ i < e /\ e <= Len(t) /\ t[e] = Nl /\ ends[y - 1] = i
      BY <2>2, <2>3, PartEnds
    <2>5. t \in Seq(ToSet(t)) /\ Nil \notin Seq(ToSet(t)) /\ Len(t) \in Nat
      <3>1. doc.text \in Seq(ToSet(WholeText(doc))) /\ Nil \notin Seq(ToSet(WholeText(doc)))
        BY Types
      <3> QED BY <3>1, TextIs
    <2>6. PICK j \in (i + 1)..e : t[j] = Nl /\ Source(i) = Token(t, i, j)
      <3>1. ends[y - 1] <= i /\ i < ends[y]
        BY <2>3, <2>4
      <3> QED BY <2>2, <2>3, <2>4, <3>1, SourceInPart
    <2>7. PICK a : a = i + 1
      OBVIOUS
    <2>8. src.its = j /\ src.token = SubSeq(t, a, j - 1)
      <3>1. src = Token(t, i, j)
        BY <2>3, <2>6
      <3>2. PICK u : u = SubSeq(t, i + 1, j - 1)
        OBVIOUS
      <3>3. src = [token |-> u, its |-> j]
        BY <3>1, <3>2 DEF Token
      <3>4. src.token = u
        BY <3>3
      <3>5. src.its = j
        BY <3>3
      <3>6. u = SubSeq(t, a, j - 1)
        BY <2>7, <3>2
      <3> QED BY <3>4, <3>5, <3>6
    <2>9. /\ a \in Nat /\ 1 <= a /\ j \in Int /\ j - 1 \in Int /\ j - 1 <= Len(t)
          /\ a \in 1..j /\ i < a /\ j \in 1..e /\ j <= Len(t)
      BY <2>4, <2>5, <2>6, <2>7
    <2>10. src.token # Nil
      <3>1. SubSeq(t, a, j - 1) \in Seq(ToSet(t))
        BY <2>5, <2>9, PartsOfText
      <3> QED BY <2>5, <2>8, <3>1
    <2>11. LineAt(doc, ends, y, j, src.token, a)
      BY <2>3, <2>4, <2>6, <2>8, <2>9 DEF LineAt
    <2>12. PartLeft(doc, ends, upto, y, a, z, w)
      <3>1. CASE ends[y - 1] + 1 = (ends[y] - 1) + 1 /\ upto[y] = upto[y - 1]
        <4>1. i + 1 = (e - 1) + 1
          BY <2>3, <2>4, <3>1
        <4>2. a = e
          BY <2>4, <2>7, <4>1
        <4> QED BY <2>3, <3>1, <4>2 DEF PartLeft
      <3>2. ASSUME upto[y] = upto[y - 1] + 1,
                   RecordAt(WholeText(doc), ends[y - 1] + 1, ends[y] - 1, doc.table[upto[y]].fields)
            PROVE  PartLeft(doc, ends, upto, y, a, z, w)
        <4>1. PICK f, m, to : f = doc.table[upto[y]].fields /\ m = upto[y] /\ to = e - 1
          OBVIOUS
        <4>2. m \in 1..Len(doc.table)
          <5>1. upto[x] \in Nat /\ upto[y] \in Nat /\ upto[y] <= Len(doc.table)
            BY <1>1, <2>2, UptoIn
          <5>2. Len(doc.table) \in Nat
            BY TypesOfTable
          <5> QED BY <2>2, <3>2, <4>1, <5>1, <5>2
        <4>3. f \in Seq(Vals(doc))
          BY <4>1, <4>2, TableAt
        <4>4. to \in Int /\ to + 1 = e /\ RecordAt(t, a, to, f)
          BY <2>3, <2>4, <2>7, <3>2, <4>1
        <4>5. a <= to /\ Len(f) > 0 /\ RestAt(t, a, to + 1, f, 0)
          BY <2>9, <4>3, <4>4, RecordIsRest
        <4>6. RowOf(Vals(doc), w, f, 0)
          BY RowIsNew
        <4>7. a < e /\ z \in 0..(Len(f) - 1) /\ RestAt(t, a, e, f, z)
          BY <2>9, <4>3, <4>4, <4>5
        <4> QED BY <2>3, <3>2, <4>1, <4>6, <4>7 DEF PartLeft
      <3>3. \/ ends[y - 1] + 1 = (ends[y] - 1) + 1 /\ upto[y] = upto[y - 1]
            \/ /\ upto[y] = upto[y - 1] + 1
               /\ RecordAt(WholeText(doc), ends[y - 1] + 1, ends[y] - 1, doc.table[upto[y]].fields)
        BY <2>2, PartRecord
      <3> QED BY <3>1, <3>2, <3>3
    <2> QED BY <2>1, <2>2, <2>8, <2>10, <2>11, <2>12 DEF AtPart
  <1> QED BY <1>2, <1>3

\* Line l, with its line end, is a part of the text.
IsLine(t, l, a, i) ==
    /\ Append(l, Nl) = SubSeq(t, a, i) /\ PartOf(t, Append(l, Nl), a, i)
    /\ Len(l) = i - a /\ (l = <<>> <=> a = i)

LEMMA LineIsPart ==
    ASSUME NEW t, t \in Seq(ToSet(t)), NEW a \in Nat, NEW i \in Nat, 1 <= a, a <= i, i <= Len(t), t[i] = Nl,
           NEW l, l = SubSeq(t, a, i - 1)
    PROVE  IsLine(t, l, a, i)
  <1> PICK S : S = ToSet(t)
    OBVIOUS
  <1>1. t \in Seq(S) /\ Len(t) \in Nat
    OBVIOUS
  <1>2. l \in Seq(S) /\ Len(l) = i - a /\ \A k \in 1..Len(l) : l[k] = t[a + k - 1]
    <2>1. \A k \in a..(i - 1) : t[k] \in S
      BY <1>1
    <2> QED BY <1>1, <2>1
  <1>3. l = <<>> <=> a = i
    <2>1. l = <<>> <=> Len(l) = 0
      BY <1>2
    <2> QED BY <1>2, <2>1
  <1>4. Append(l, Nl) = SubSeq(t, a, i)
    <2> DEFINE u == SubSeq(t, a, i)
               v == Append(l, Nl)
    <2>1. u \in Seq(S) /\ Len(u) = i - a + 1 /\ \A k \in 1..(i - a + 1) : u[k] = t[a + k - 1]
      <3>1. \A k \in a..i : t[k] \in S
        BY <1>1
      <3> QED BY <1>1, <3>1
    <2>2. /\ v \in Seq(S \cup {Nl}) /\ Len(v) = i - a + 1
          /\ \A k \in 1..(i - a + 1) : v[k] = IF k <= i - a THEN l[k] ELSE Nl
      BY <1>2
    <2>3. \A k \in 1..(i - a + 1) : v[k] = u[k]
      <3> TAKE k \in 1..(i - a + 1)
      <3>1. CASE k <= i - a
        BY <1>2, <2>1, <2>2, <3>1
      <3>2. CASE ~(k <= i - a)
        <4>1. a + k - 1 = i
          BY <3>2
        <4> QED BY <2>1, <2>2, <3>2, <4>1
      <3> QED BY <3>1, <3>2
    <2>4. u \in Seq(S \cup {Nl})
      BY <2>1
    <2> HIDE DEF u, v
    <2>5. v = u
      BY <2>1, <2>2, <2>3, <2>4
    <2> QED BY <2>5 DEF u, v
  <1>5. PartOf(t, SubSeq(t, a, i), a, i)
    <2>1. i \in 1..Len(t) /\ a \in 1..i
      BY <1>1
    <2> QED BY <2>1, PartIs
  <1> QED BY <1>2, <1>3, <1>4, <1>5 DEF IsLine

\* What a turn of rows() finds: an empty line, the end of a record, or that it goes on.
EmptyTurn(d, ends, upto, y, i, l, P) ==
    l = <<>> /\ Done(P) /\ RowOf(Vals(d), P.row, <<>>, 0) /\ i = ends[y] /\ upto[y] = upto[y - 1]
LastTurn(d, ends, upto, y, i, l, P) ==
    l # <<>> /\ Done(P) /\ P.row = d.table[upto[y]].fields /\ i = ends[y] /\ upto[y] = upto[y - 1] + 1
OpenTurn(d, ends, upto, y, i, l, P) ==
    LET fields == d.table[upto[y]].fields
    IN  /\ l # <<>> /\ ~Done(P) /\ i \in Nat /\ ends[y - 1] < i /\ i < ends[y] /\ upto[y] = upto[y - 1] + 1
        /\ P.cnt \in 0..(Len(fields) - 1) /\ RowOf(Vals(d), P.row, fields, P.cnt)
        /\ \E q \in (ends[y - 1] + 1)..i : /\ WholeText(d)[q] = Qte /\ RestAt(WholeText(d), q, ends[y], fields, P.cnt)
                                           /\ P.rest = SubSeq(WholeText(d), q, i)

LEMMA TurnIs ==
    ASSUME NEW d, NEW n \in Nat, NEW ends, NEW upto, NEW names, WrittenAs(d, n, ends, upto, names),
           NEW y \in 1..n, NEW i, NEW l, NEW a, NEW k, NEW w,
           LineAt(d, ends, y, i, l, a), PartLeft(d, ends, upto, y, a, k, w),
           NEW P, P = ParseLine(Append(l, Nl), w, k)
    PROVE  \/ EmptyTurn(d, ends, upto, y, i, l, P)
           \/ LastTurn(d, ends, upto, y, i, l, P)
           \/ OpenTurn(d, ends, upto, y, i, l, P)
  <1>1. PICK t, e, f : t = WholeText(d) /\ e = ends[y] /\ f = ends[y - 1]
    OBVIOUS
  <1>2. t \in Seq(ToSet(t)) /\ Len(t) \in Nat
    <2>1. d.text \in Seq(ToSet(WholeText(d)))
      BY Types
    <2> QED BY <1>1, <2>1, TextIs
  <1>3. e \in Nat /\ f \in Nat /\ f < e /\ e <= Len(t) /\ t[e] = Nl
    BY <1>1, PartEnds
  <1>4. /\ a \in 1..i /\ f < a /\ i \in 1..e /\ i <= Len(t)
        /\ t[i] = Nl /\ l = SubSeq(t, a, i - 1)
    BY <1>1 DEF LineAt
  <1>5. a \in Nat /\ i \in Nat /\ 1 <= a /\ a <= i /\ i <= e
    BY <1>3, <1>4
  <1>6. PICK s : s = Append(l, Nl)
    OBVIOUS
  <1>7. s = SubSeq(t, a, i) /\ PartOf(t, s, a, i) /\ (l = <<>> <=> a = i)
    <2>1. t[i] = Nl /\ l = SubSeq(t, a, i - 1) /\ i <= Len(t) /\ a <= i /\ 1 <= a
      BY <1>4, <1>5
    <2>2. IsLine(t, l, a, i)
      BY <1>2, <1>5, <2>1, LineIsPart
    <2> QED BY <1>6, <2>2 DEF IsLine
  <1>8. P = ParseLine(s, w, k)
    BY <1>6
  <1>9. CASE a = ends[y] /\ upto[y] = upto[y - 1] /\ k = 0 /\ RowOf(Vals(d), w, <<>>, 0)
    <2>1. i = e /\ l = <<>>
      BY <1>1, <1>5, <1>7, <1>9
    <2>2. s = <<Nl>>
      <3>1. s = Append(<<>>, Nl)
        BY <1>6, <2>1
      <3> QED BY <3>1
    <2>3. Nil \in Vals(d)
      BY DEF Vals
    <2>4. Done(P) /\ RowOf(Vals(d), P.row, <<>>, 0)
      BY <1>8, <1>9, <2>2, <2>3, EmptyParsed
    <2> QED BY <1>1, <1>9, <2>1, <2>4 DEF EmptyTurn
  <1>10. PICK g : g = d.table[upto[y]].fields
    OBVIOUS
  <1>11. ASSUME a < ends[y], upto[y] = upto[y - 1] + 1, k \in 0..(Len(g) - 1),
                RestAt(WholeText(d), a, ends[y], g, k), RowOf(Vals(d), w, g, k)
         PROVE  LastTurn(d, ends, upto, y, i, l, P) \/ OpenTurn(d, ends, upto, y, i, l, P)
    <2>1. PICK V : V = Vals(d)
      OBVIOUS
    <2>2. Nil \in V
      BY <2>1 DEF Vals
    <2>3. g \in Seq(V)
      <3>1. upto[y] \in 1..Len(d.table)
        <4>1. upto[y - 1] \in Nat /\ upto[y] \in Nat /\ upto[y] <= Len(d.table) /\ Len(d.table) \in Nat
          BY UptoIs
        <4> QED BY <1>11, <4>1
      <3> QED BY <1>10, <2>1, <3>1, TableAt
    <2>4. k \in Nat /\ k < Len(g)
      BY <1>11, <2>3
    <2>5. RestAt(t, a, e, g, k) /\ RowOf(V, w, g, k)
      BY <1>1, <1>11, <2>1
    <2>6. TurnTo(t, V, g, k, a, i, e, s, P)
      BY <1>2, <1>3, <1>4, <1>5, <1>7, <1>8, <2>2, <2>3, <2>4, <2>5, RecordParsed
    <2>7. CASE i = e /\ Done(P) /\ P.row = g
      <3>1. l # <<>>
        <4>1. a < i
          BY <1>1, <1>11, <2>7
        <4>2. a # i
          BY <1>5, <4>1
        <4> QED BY <1>7, <4>2
      <3> QED BY <1>1, <1>10, <1>11, <2>7, <3>1 DEF LastTurn
    <2>8. ASSUME i < e, ~Done(P), P.cnt \in k..(Len(g) - 1), RowOf(V, P.row, g, P.cnt), NEW q \in a..i,
                 t[q] = Qte, RestAt(t, q, e, g, P.cnt), P.rest = SubSeq(s, q - (a - 1), Len(s))
          PROVE  OpenTurn(d, ends, upto, y, i, l, P)
      <3>1. q # i
        BY <1>4, <2>8, LineEnds
      <3>2. l # <<>>
        BY <1>5, <1>7, <3>1
      <3>3. P.rest = SubSeq(t, q, i)
        <4>1. SubSeq(SubSeq(t, a, i), q - (a - 1), i - (a - 1)) = SubSeq(t, q, i)
          BY <1>2, <1>4, <1>5
        <4>2. Len(s) = i - (a - 1)
          BY <1>7 DEF PartOf
        <4> QED BY <1>7, <2>8, <4>1, <4>2
      <3>4. q \in (f + 1)..i /\ f < i
        BY <1>3, <1>4, <1>5
      <3>5. P.cnt \in 0..(Len(g) - 1)
        BY <2>4, <2>8
      <3> QED BY <1>1, <1>5, <1>10, <1>11, <2>1, <2>8, <3>2, <3>3, <3>4, <3>5 DEF OpenTurn
    <2> QED BY <2>6, <2>7, <2>8 DEF TurnTo
  <1> QED BY <1>9, <1>10, <1>11 DEF PartLeft

LEMMA NamedIs ==
    ASSUME NEW n \in Nat, NEW ends, NEW upto, NEW names, WrittenAs(doc, n, ends, upto, names),
           headers = names, NEW row
    PROVE  NamedFields(row) = Titled(names, row)
  <1>1. CASE names = Nil
    BY <1>1 DEF NamedFields, Titled
  <1>2. CASE names # Nil
    <2>1. PICK B : B = Seq(ToSet(WholeText(doc)))
      OBVIOUS
    <2>2. names \in Seq(B) /\ (\A i, j \in DOMAIN names : names[i] = names[j] => i = j) /\ Nil \notin B
      BY <1>2, <2>1, Types, TypesOfNames
    <2>3. PICK m : m = Len(names)
      OBVIOUS
    <2>4. m \in Nat /\ DOMAIN names = 1..m /\ \A i \in 1..m : names[i] \in B
      BY <2>2, <2>3
    <2>5. {i \in DOMAIN headers : headers[i] = Nil} = {}
      BY <2>2, <2>4
    <2> DEFINE F(name) == IF Max({j \in 1..m : names[j] = name}) <= Len(row)
                          THEN row[Max({j \in 1..m : names[j] = name})] ELSE Nil
               C(name) == CHOOSE i \in DOMAIN names : names[i] = name
               G(name) == IF C(name) <= Len(row) THEN row[C(name)] ELSE Nil
    <2>6. {names[i] : i \in 1..m} = ToSet(names)
      BY <2>4 DEF ToSet
    <2>7. NamedFields(row) = [name \in {names[i] : i \in 1..m} |-> F(name)]
      BY <1>2, <2>3, <2>5 DEF NamedFields
    <2>8. Titled(names, row) = [name \in ToSet(names) |-> G(name)]
      BY <1>2 DEF Titled
    <2>9. ASSUME NEW name \in ToSet(names) PROVE F(name) = G(name)
      <3>1. PICK i \in 1..m : names[i] = name
        BY <2>6
      <3>2. \A j \in 1..m : names[j] = name => j = i
        BY <2>2, <2>4, <3>1
      <3>3. Max({j \in 1..m : names[j] = name}) = i
        <4> DEFINE X == {j \in 1..m : names[j] = name}
        <4>1. X \in SUBSET Int /\ i \in X /\ \A x \in X : x <= i
          BY <3>1, <3>2
        <4> HIDE DEF X
        <4>2. Max(X) = i
          BY <4>1, MaxIs
        <4> QED BY <4>2 DEF X
      <3>4. C(name) = i
        <4>1. C(name) \in DOMAIN names /\ names[C(name)] = name
          BY <2>4, <3>1
        <4> HIDE DEF C
        <4> QED BY <2>4, <3>2, <4>1
      <3> HIDE DEF C
      <3> QED BY <3>3, <3>4
    <2> HIDE DEF F, G, C
    <2> QED BY <2>6, <2>7, <2>8, <2>9
  <1> QED BY <1>1, <1>2

\* The lines that are skipped, and that of the names of the columns, are parts of their own.
LEMMA SourceOfLine ==
    ASSUME NEW n \in Nat, NEW ends, NEW upto, NEW names, WrittenAs(doc, n, ends, upto, names),
           NEW x \in 1..n, x <= Starts(doc)
    PROVE  Source(ends[x - 1]) = Token(WholeText(doc), ends[x - 1], ends[x])
  <1>1. PICK t, f, e : t = WholeText(doc) /\ f = ends[x - 1] /\ e = ends[x]
    OBVIOUS
  <1>2. f \in Nat /\ e \in Nat /\ f < e
    BY <1>1, PartEnds
  <1>3. OneLine(t, f + 1, e - 1)
    BY <1>1, PartSkipped
  <1>4. PICK j \in (f + 1)..e : t[j] = Nl /\ Source(f) = Token(t, f, j)
    <2>1. ends[x - 1] <= f /\ f < ends[x]
      BY <1>1, <1>2
    <2> QED BY <1>1, <1>2, <2>1, SourceInPart
  <1>5. j = e
    <2> SUFFICES ASSUME j # e PROVE FALSE
      OBVIOUS
    <2>1. j \in (f + 1)..(e - 1)
      BY <1>2
    <2> QED BY <1>3, <1>4, <2>1, OneLineIs
  <1> QED BY <1>1, <1>4, <1>5

LEMMA SkippedIs ==
    ASSUME NEW n \in Nat, NEW ends, NEW upto, NEW names, WrittenAs(doc, n, ends, upto, names)
    PROVE  Skipped = ends[doc.skip]
  <1> DEFINE D == {m \in 0..doc.skip : Skipping[m] # ends[m]}
  <1>1. doc.skip \in Nat /\ doc.skip <= Starts(doc) /\ Starts(doc) <= n /\ Starts(doc) \in Nat
    <2>1. doc.skip \in Nat /\ (Starts(doc) = doc.skip + 1 \/ Starts(doc) = doc.skip + 0)
      BY Types DEF Starts
    <2>2. Starts(doc) <= n
      BY TypesOfParts
    <2> QED BY <2>1, <2>2
  <1>2. \A m \in 0..doc.skip : Skipping[m] = IF m = 0 THEN 0 ELSE Source(Skipping[m - 1]).its
    BY <1>1, SkippingIs
  <1>3. D = {}
    <2> SUFFICES ASSUME D # {} PROVE FALSE
      OBVIOUS
    <2>1. PICK m \in D : \A x \in D : m <= x
      <3>1. D \in SUBSET Nat
        BY <1>1
      <3> HIDE DEF D
      <3> QED BY <3>1, LeastNumber
    <2>2. m \in 0..doc.skip /\ Skipping[m] # ends[m]
      OBVIOUS
    <2>3. m # 0
      <3>1. Skipping[0] = 0
        <4>1. 0 \in 0..doc.skip
          BY <1>1
        <4> QED BY <1>2, <4>1
      <3>2. ends[0] = 0
        BY TypesOfParts
      <3> QED BY <2>2, <3>1, <3>2
    <2>4. PICK k : k = m - 1
      OBVIOUS
    <2>5. m \in 1..n /\ m <= Starts(doc) /\ k \in 0..doc.skip /\ ~(m <= k)
      BY <1>1, <2>2, <2>3, <2>4
    <2>6. Skipping[k] = ends[k]
      <3>1. k \notin D
        <4> HIDE DEF D
        <4> QED BY <2>1, <2>5
      <3> QED BY <2>5, <3>1
    <2>7. Source(ends[k]) = Token(WholeText(doc), ends[k], ends[m])
      BY <2>4, <2>5, SourceOfLine
    <2>8. Skipping[m] = Source(ends[k]).its
      <3>1. Skipping[m] = Source(Skipping[m - 1]).its
        BY <1>2, <2>2, <2>3
      <3> QED BY <2>4, <2>6, <3>1
    <2>9. Source(ends[k]).its = ends[m]
      <3>1. PICK u, e : u = SubSeq(WholeText(doc), ends[k] + 1, ends[m] - 1) /\ e = ends[m]
        OBVIOUS
      <3>2. Source(ends[k]) = [token |-> u, its |-> e]
        BY <2>7, <3>1 DEF Token
      <3>3. Source(ends[k]).its = e
        BY <3>2
      <3> QED BY <3>1, <3>3
    <2> QED BY <2>2, <2>8, <2>9
  <1>4. doc.skip \in 0..doc.skip /\ doc.skip \notin D
    BY <1>1, <1>3
  <1> QED BY <1>4 DEF Skipped

-----------------------------------------------------------------------------
(***************************************************************************)
(* rows().                                                                 *)
(***************************************************************************)
OpenCount == IF rowdone THEN 0 ELSE fldCnt

\* The records before the x-th part have been returned, and the row has the fields that
\* were read of the one that goes on in the line that is parsed next.
InRows(n, ends, upto, names) ==
    /\ headers = names
    /\ ~rowdone => line # Nil /\ line # <<>> /\ Head(line) = Qte
    /\ \E x \in Starts(doc)..n : /\ rows = SubSeq(doc.table, 1, upto[x])
                                 /\ AtPart(doc, n, ends, upto, x, its, line, OpenCount, parsed)

RecordsInv(n, ends, upto, names) ==
    /\ pc \in {"start", "rows", "done"}
    /\ pc = "start" => line = Nil /\ parsed = <<>> /\ rowdone = TRUE /\ headers = doc.headers /\ rows = <<>>
    /\ pc = "rows" => InRows(n, ends, upto, names)
    /\ pc = "done" => rows = doc.table

CsvInv == \E n \in Nat : \E ends, upto, names :
              WrittenAs(doc, n, ends, upto, names) /\ RecordsInv(n, ends, upto, names)

LEMMA ParsedIs == Parsed = ParseLine(Append(line, Nl), parsed, OpenCount)
  BY DEF Parsed, OpenCount, Nl

LEMMA RowsTurn ==
    ASSUME NEW n \in Nat, NEW ends, NEW upto, NEW names, WrittenAs(doc, n, ends, upto, names),
           InRows(n, ends, upto, names), line # Nil
    PROVE  \E y \in 1..n :
               /\ y - 1 \in Starts(doc)..n /\ y \in Starts(doc)..n /\ rows = SubSeq(doc.table, 1, upto[y - 1])
               /\ \/ EmptyTurn(doc, ends, upto, y, its, line, Parsed)
                  \/ LastTurn(doc, ends, upto, y, its, line, Parsed)
                  \/ OpenTurn(doc, ends, upto, y, its, line, Parsed)
  <1>1. PICK x \in Starts(doc)..n :
            /\ rows = SubSeq(doc.table, 1, upto[x])
            /\ AtPart(doc, n, ends, upto, x, its, line, OpenCount, parsed)
    BY DEF InRows
  <1>2. PICK y : y = x + 1
    OBVIOUS
  <1>3. PICK a : x < n /\ LineAt(doc, ends, y, its, line, a) /\ PartLeft(doc, ends, upto, y, a, OpenCount, parsed)
    BY <1>1, <1>2 DEF AtPart
  <1>4. y \in 1..n /\ y - 1 \in Starts(doc)..n /\ y \in Starts(doc)..n /\ x = y - 1
    <2>1. Starts(doc) \in Nat
      BY TypesOfParts
    <2> QED BY <1>2, <1>3, <2>1
  <1>5. \/ EmptyTurn(doc, ends, upto, y, its, line, Parsed)
        \/ LastTurn(doc, ends, upto, y, its, line, Parsed)
        \/ OpenTurn(doc, ends, upto, y, its, line, Parsed)
    BY <1>3, <1>4, ParsedIs, TurnIs
  <1> QED BY <1>1, <1>4, <1>5

LEMMA NextRow ==
    ASSUME NEW n \in Nat, NEW ends, NEW upto, NEW names, WrittenAs(doc, n, ends, upto, names),
           doc' = doc, NEW y \in Starts(doc)..n, NEW src, src = Source(ends[y]),
           line' = src.token, its' = src.its, rowdone', RowOf(Vals(doc), parsed', <<>>, 0),
           headers' = names, rows' = SubSeq(doc.table, 1, upto[y])
    PROVE  InRows(n, ends, upto, names)'
  <1>1. AtPart(doc, n, ends, upto, y, src.its, src.token, 0, parsed')
    BY NextPart
  <1>2. OpenCount' = 0
    BY DEF OpenCount
  <1>3. AtPart(doc', n, ends, upto, y, its', line', OpenCount', parsed')
    BY <1>1, <1>2
  <1>4. y \in Starts(doc')..n /\ rows' = SubSeq(doc'.table, 1, upto[y])
    OBVIOUS
  <1> QED BY <1>3, <1>4 DEF InRows

LEMMA SkipStep ==
    ASSUME NEW n \in Nat, NEW ends, NEW upto, NEW names, WrittenAs(doc, n, ends, upto, names),
           InRows(n, ends, upto, names), SkipEmptyLine
    PROVE  InRows(n, ends, upto, names)'
  <1>1. /\ line # Nil /\ line = <<>> /\ rowdone' = Done(Parsed) /\ doc' = doc /\ headers' = headers
        /\ parsed' = Parsed.row /\ line' = Source(its).token /\ its' = Source(its).its /\ rows' = rows
    BY DEF SkipEmptyLine, ParseRow
  <1>2. PICK y \in 1..n : /\ y \in Starts(doc)..n /\ rows = SubSeq(doc.table, 1, upto[y - 1])
                          /\ EmptyTurn(doc, ends, upto, y, its, line, Parsed)
    BY <1>1, RowsTurn DEF LastTurn, OpenTurn
  <1>3. Done(Parsed) /\ RowOf(Vals(doc), Parsed.row, <<>>, 0) /\ its = ends[y] /\ upto[y] = upto[y - 1]
    BY <1>2 DEF EmptyTurn
  <1>4. headers = names
    BY DEF InRows
  <1>5. PICK src : src = Source(ends[y])
    OBVIOUS
  <1>6. line' = src.token /\ its' = src.its
    BY <1>1, <1>3, <1>5
  <1>7. rowdone' /\ RowOf(Vals(doc), parsed', <<>>, 0)
    BY <1>1, <1>3
  <1>8. rows' = SubSeq(doc.table, 1, upto[y]) /\ headers' = names
    BY <1>1, <1>2, <1>3, <1>4
  <1> QED BY <1>1, <1>2, <1>5, <1>6, <1>7, <1>8, NextRow

LEMMA EmptyRow ==
    ASSUME NEW V, NEW f
    PROVE  RowOf(V, <<>>, f, 0)
  BY DEF RowOf

LEMMA OneMore ==
    ASSUME NEW R, NEW T \in Seq(R), NEW u \in Nat, u + 1 <= Len(T)
    PROVE  Append(SubSeq(T, 1, u), T[u + 1]) = SubSeq(T, 1, u + 1)
  <1> DEFINE a == Append(SubSeq(T, 1, u), T[u + 1])
             b == SubSeq(T, 1, u + 1)
  <1>1. SubSeq(T, 1, u) \in Seq(R) /\ Len(SubSeq(T, 1, u)) = u
    OBVIOUS
  <1>2. T[u + 1] \in R
    OBVIOUS
  <1>3. a \in Seq(R) /\ Len(a) = u + 1 /\ \A i \in 1..(u + 1) : a[i] = T[i]
    BY <1>1, <1>2
  <1>4. b \in Seq(R) /\ Len(b) = u + 1 /\ \A i \in 1..(u + 1) : b[i] = T[i]
    OBVIOUS
  <1> HIDE DEF a, b
  <1>5. a = b
    BY <1>3, <1>4
  <1> QED BY <1>5 DEF a, b

LEMMA ReturnStep ==
    ASSUME NEW n \in Nat, NEW ends, NEW upto, NEW names, WrittenAs(doc, n, ends, upto, names),
           InRows(n, ends, upto, names), ReturnRow
    PROVE  InRows(n, ends, upto, names)'
  <1>1. /\ line # Nil /\ line # <<>> /\ Done(Parsed) /\ rowdone' = Done(Parsed) /\ doc' = doc /\ headers' = headers
        /\ parsed' = <<>> /\ line' = Source(its).token /\ its' = Source(its).its
        /\ rows' = Append(rows, [fields |-> Parsed.row, named |-> NamedFields(Parsed.row)])
    BY DEF ReturnRow, ParseRow
  <1>2. PICK y \in 1..n : /\ y \in Starts(doc)..n /\ rows = SubSeq(doc.table, 1, upto[y - 1])
                          /\ LastTurn(doc, ends, upto, y, its, line, Parsed)
    BY <1>1, RowsTurn DEF EmptyTurn, OpenTurn
  <1>3. Parsed.row = doc.table[upto[y]].fields /\ its = ends[y] /\ upto[y] = upto[y - 1] + 1
    BY <1>2 DEF LastTurn
  <1>4. headers = names
    BY DEF InRows
  <1>5. PICK src : src = Source(ends[y])
    OBVIOUS
  <1>6. line' = src.token /\ its' = src.its
    BY <1>1, <1>3, <1>5
  <1>7. rowdone' /\ RowOf(Vals(doc), parsed', <<>>, 0)
    BY <1>1, EmptyRow
  <1>8. rows' = SubSeq(doc.table, 1, upto[y])
    <2>1. PICK T, u, m, f : T = doc.table /\ u = upto[y - 1] /\ m = upto[y] /\ f = doc.table[upto[y]].fields
      OBVIOUS
    <2>2. u \in Nat /\ m \in Nat /\ m <= Len(T) /\ m = u + 1 /\ Len(T) \in Nat
      BY <1>3, <2>1, UptoIs
    <2>3. T[m] = [fields |-> f, named |-> Titled(names, f)]
      <3>1. m \in 1..Len(doc.table)
        BY <2>1, <2>2
      <3>2. doc.table[m] = [fields |-> doc.table[m].fields, named |-> Titled(names, doc.table[m].fields)]
        BY <3>1, TableAt, ZenonT(40)
      <3>3. doc.table[m].fields = f /\ T[m] = doc.table[m]
        BY <2>1
      <3> QED BY <3>2, <3>3
    <2>4. Parsed.row = f /\ NamedFields(f) = Titled(names, f)
      BY <1>3, <1>4, <2>1, NamedIs
    <2>5. rows' = Append(SubSeq(T, 1, u), T[m])
      BY <1>1, <1>2, <2>1, <2>3, <2>4
    <2>6. PICK R : T \in Seq(R)
      BY <2>1, TypesOfTable
    <2>7. Append(SubSeq(T, 1, u), T[u + 1]) = SubSeq(T, 1, u + 1)
      BY <2>2, <2>6, OneMore
    <2> QED BY <2>1, <2>2, <2>5, <2>7
  <1>9. headers' = names
    BY <1>1, <1>4
  <1> QED BY <1>1, <1>2, <1>5, <1>6, <1>7, <1>8, <1>9, NextRow

LEMMA ContinueStep ==
    ASSUME NEW n \in Nat, NEW ends, NEW upto, NEW names, WrittenAs(doc, n, ends, upto, names),
           InRows(n, ends, upto, names), ContinueRow
    PROVE  InRows(n, ends, upto, names)' /\ pc' = pc
  <1>1. /\ line # Nil /\ line # <<>> /\ ~Done(Parsed) /\ rowdone' = Done(Parsed) /\ fldCnt' = Parsed.cnt
        /\ doc' = doc /\ headers' = headers /\ parsed' = Parsed.row /\ rows' = rows
    BY DEF ContinueRow, ParseRow
  <1>2. PICK y \in 1..n : /\ y - 1 \in Starts(doc)..n /\ rows = SubSeq(doc.table, 1, upto[y - 1])
                          /\ OpenTurn(doc, ends, upto, y, its, line, Parsed)
    BY <1>1, RowsTurn DEF EmptyTurn, LastTurn
  <1>3. PICK t, e, b, i, f, x, k : t = WholeText(doc) /\ e = ends[y] /\ b = ends[y - 1] /\ i = its
                                   /\ f = doc.table[upto[y]].fields /\ x = y - 1 /\ k = Parsed.cnt
    OBVIOUS
  <1>4. /\ i \in Nat /\ b < i /\ i < e /\ upto[y] = upto[x] + 1
        /\ k \in 0..(Len(f) - 1) /\ RowOf(Vals(doc), Parsed.row, f, k)
    BY <1>2, <1>3 DEF OpenTurn
  <1>5. PICK q \in (b + 1)..i : t[q] = Qte /\ RestAt(t, q, e, f, k) /\ Parsed.rest = SubSeq(t, q, i)
    BY <1>2, <1>3 DEF OpenTurn
  <1>6. t \in Seq(ToSet(t)) /\ Len(t) \in Nat /\ Nil \notin Seq(ToSet(t))
    <2>1. doc.text \in Seq(ToSet(WholeText(doc))) /\ Nil \notin Seq(ToSet(WholeText(doc)))
      BY Types
    <2> QED BY <1>3, <2>1, TextIs
  <1>7. b \in Nat /\ e \in Nat /\ e <= Len(t)
    BY <1>3, PartEnds
  <1>8. i \in Nat
    BY <1>4
  <1>9. PICK j \in (i + 1)..e : t[j] = Nl /\ Source(i) = Token(t, i, j)
    <2>1. ends[y - 1] <= i /\ i < ends[y]
      BY <1>3, <1>4, <1>7, <1>8
    <2> QED BY <1>3, <1>8, <2>1, SourceInPart
  <1>10. PICK u : u = SubSeq(t, i + 1, j - 1)
    OBVIOUS
  <1>11. Source(i).token = u /\ Source(i).its = j
    <2>1. Source(i) = [token |-> u, its |-> j]
      BY <1>9, <1>10 DEF Token
    <2> QED BY <2>1
  <1>12. /\ j \in Nat /\ j <= Len(t) /\ i + 1 <= j /\ i + 1 \in Nat /\ j - 1 \in Int /\ j - 1 <= Len(t)
         /\ q \in Nat /\ 1 <= q /\ q <= i
    BY <1>5, <1>6, <1>7, <1>8, <1>9
  <1>13. u # Nil
    <2>1. u \in Seq(ToSet(t))
      <3>1. 1 <= i + 1
        BY <1>8
      <3> QED BY <1>6, <1>10, <1>12, <3>1, PartsOfText
    <2> QED BY <1>6, <2>1
  <1>14. line' = Parsed.rest \o u /\ its' = j /\ pc' = pc
    <2>1. Source(its).token # Nil
      BY <1>3, <1>11, <1>13
    <2>2. line' = Parsed.rest \o Source(its).token /\ its' = Source(its).its /\ pc' = pc
      BY <2>1 DEF ContinueRow
    <2> QED BY <1>3, <1>11, <2>2
  <1>15. PICK l : l = SubSeq(t, q, j - 1)
    OBVIOUS
  <1>16. line' = l
    <2>1. SubSeq(t, q, i) \o SubSeq(t, i + 1, j - 1) = SubSeq(t, q, j - 1)
      <3>1. PICK S : S = ToSet(t)
        OBVIOUS
      <3>2. t \in Seq(S)
        BY <1>6, <3>1
      <3>3. \A z \in q..(j - 1) : t[z] \in S
        BY <1>6, <1>12, <3>2
      <3> DEFINE A == SubSeq(t, q, i)
                 B == SubSeq(t, i + 1, j - 1)
                 C == SubSeq(t, q, j - 1)
      <3>4. A \in Seq(S) /\ Len(A) = i - q + 1 /\ \A z \in 1..(i - q + 1) : A[z] = t[q + z - 1]
        BY <1>8, <1>12, <3>2, <3>3
      <3>5. B \in Seq(S) /\ Len(B) = j - 1 - i /\ \A z \in 1..(j - 1 - i) : B[z] = t[i + z]
        BY <1>8, <1>12, <3>2, <3>3
      <3>6. C \in Seq(S) /\ Len(C) = j - q /\ \A z \in 1..(j - q) : C[z] = t[q + z - 1]
        BY <1>8, <1>12, <3>2, <3>3
      <3> HIDE DEF A, B, C
      <3>7. A \o B \in Seq(S)
        BY <3>4, <3>5
      <3>8. Len(A \o B) = j - q
        <4>1. A \in Seq(S) /\ B \in Seq(S)
          BY <3>4, <3>5
        <4>2. Len(A \o B) = Len(A) + Len(B)
          BY <4>1
        <4> QED BY <1>8, <1>12, <3>4, <3>5, <4>2
      <3>9. \A z \in 1..(j - q) : (A \o B)[z] = C[z]
        <4> TAKE z \in 1..(j - q)
        <4>1. CASE z <= i - q + 1
          BY <1>8, <1>12, <3>4, <3>5, <3>6, <4>1
        <4>2. CASE ~(z <= i - q + 1)
          <5>1. z - (i - q + 1) \in 1..(j - 1 - i) /\ i + (z - (i - q + 1)) = q + z - 1
            BY <1>8, <1>12, <4>2
          <5>2. (A \o B)[z] = B[z - (i - q + 1)]
            BY <1>8, <1>12, <3>4, <3>5, <4>2
          <5> QED BY <3>5, <3>6, <5>1, <5>2
        <4> QED BY <4>1, <4>2
      <3>10. A \o B = C
        <4>1. PICK D, m : D = A \o B /\ m = j - q
          OBVIOUS
        <4>2. D \in Seq(S) /\ Len(D) = m /\ C \in Seq(S) /\ Len(C) = m /\ \A z \in 1..m : D[z] = C[z]
          BY <3>6, <3>7, <3>8, <3>9, <4>1
        <4>3. D = C
          BY <4>2
        <4> QED BY <4>1, <4>3
      <3> QED BY <3>10 DEF A, B, C
    <2> QED BY <1>5, <1>10, <1>14, <1>15, <2>1
  <1>17. LineAt(doc, ends, y, j, l, q)
    <2>1. q \in 1..j /\ b < q /\ j \in 1..e
      BY <1>5, <1>7, <1>8, <1>9, <1>12
    <2> QED BY <1>3, <1>9, <1>12, <1>15, <2>1 DEF LineAt
  <1>18. IsLine(t, l, q, j)
    <2>1. q <= j
      BY <1>8, <1>12
    <2> QED BY <1>6, <1>9, <1>12, <1>15, <2>1, LineIsPart
  <1>19. l # <<>> /\ l # Nil /\ Head(l) = Qte
    <2>1. q # j /\ q <= j - 1
      BY <1>8, <1>12
    <2>2. l # <<>>
      BY <1>18, <2>1 DEF IsLine
    <2>3. l \in Seq(ToSet(t))
      BY <1>6, <1>12, <1>15, PartsOfText
    <2>4. Head(l) = t[q]
      <3>1. PICK S : S = ToSet(t)
        OBVIOUS
      <3>2. t \in Seq(S) /\ l \in Seq(S) /\ l # <<>>
        BY <1>6, <2>2, <2>3, <3>1
      <3>3. Len(l) = j - q /\ l[1] = t[q]
        <4>1. \A z \in q..(j - 1) : t[z] \in S
          BY <1>6, <1>12, <3>2
        <4> QED BY <1>12, <1>15, <2>1, <3>2, <4>1
      <3> QED BY <3>2, <3>3
    <2> QED BY <1>5, <1>6, <2>2, <2>3, <2>4
  <1>20. PartLeft(doc, ends, upto, y, q, k, Parsed.row)
    <2>1. q < e
      BY <1>4, <1>7, <1>8, <1>12
    <2> QED BY <1>3, <1>4, <1>5, <2>1 DEF PartLeft
  <1>21. AtPart(doc, n, ends, upto, x, j, l, k, Parsed.row)
    <2>1. x < n /\ x + 1 = y
      BY <1>3
    <2> QED BY <1>17, <1>19, <1>20, <2>1 DEF AtPart
  <1>22. AtPart(doc', n, ends, upto, x, its', line', OpenCount', parsed')
    <2>1. OpenCount' = k
      BY <1>1, <1>3 DEF OpenCount
    <2> QED BY <1>1, <1>14, <1>16, <1>21, <2>1
  <1>23. x \in Starts(doc')..n /\ rows' = SubSeq(doc'.table, 1, upto[x])
    BY <1>1, <1>2, <1>3
  <1>24. headers' = names
    BY <1>1 DEF InRows
  <1>25. line' # Nil /\ line' # <<>> /\ Head(line') = Qte
    BY <1>16, <1>19
  <1> QED BY <1>14, <1>22, <1>23, <1>24, <1>25 DEF InRows

LEMMA EndStep ==
    ASSUME NEW n \in Nat, NEW ends, NEW upto, NEW names, WrittenAs(doc, n, ends, upto, names),
           InRows(n, ends, upto, names), line = Nil
    PROVE  rows = doc.table
  <1>1. PICK x \in Starts(doc)..n :
            /\ rows = SubSeq(doc.table, 1, upto[x])
            /\ AtPart(doc, n, ends, upto, x, its, line, OpenCount, parsed)
    BY DEF InRows
  <1>2. x = n
    BY <1>1 DEF AtPart
  <1>3. rows = SubSeq(doc.table, 1, Len(doc.table))
    BY <1>1, <1>2, TypesOfParts
  <1>4. PICK T, R : T = doc.table /\ T \in Seq(R)
    BY TypesOfTable
  <1>5. SubSeq(T, 1, Len(T)) = T
    BY <1>4
  <1> QED BY <1>3, <1>4, <1>5

LEMMA StartStep ==
    ASSUME NEW n \in Nat, NEW ends, NEW upto, NEW names, WrittenAs(doc, n, ends, upto, names),
           parsed = <<>>, rowdone = TRUE, headers = doc.headers, rows = <<>>, Start
    PROVE  InRows(n, ends, upto, names)' /\ doc' = doc /\ pc' = "rows"
  <1>1. PICK k, x : k = doc.skip /\ x = Starts(doc)
    OBVIOUS
  <1>2. /\ k \in Nat /\ x \in Nat /\ x \in Starts(doc)..n /\ x \in 0..n /\ doc.names \in BOOLEAN
        /\ doc.names => x = k + 1
        /\ ~doc.names => x = k
    <2>1. doc.skip \in Nat /\ doc.names \in BOOLEAN
      BY Types
    <2>2. Starts(doc) \in Nat /\ Starts(doc) <= n
      BY TypesOfParts
    <2>3. /\ doc.names => Starts(doc) = doc.skip + 1
          /\ ~doc.names => Starts(doc) = doc.skip + 0
      BY DEF Starts
    <2> QED BY <1>1, <2>1, <2>2, <2>3
  <1>3. PICK first : first = Source(ends[k])
    OBVIOUS
  <1>4. Source(Skipped) = first
    BY <1>1, <1>3, SkippedIs
  <1>5. doc' = doc /\ parsed' = <<>> /\ rows' = <<>>
    BY DEF Start
  <1>6. rows' = SubSeq(doc.table, 1, upto[x])
    <2>1. upto[x] = 0
      <3>1. CASE x = 0
        BY <3>1, UptoIn
      <3>2. CASE x # 0
        <4>1. x \in 1..n /\ x <= Starts(doc)
          BY <1>1, <1>2, <3>2
        <4> QED BY <4>1, PartSkipped
      <3> QED BY <3>1, <3>2
    <2> PICK T : T = doc.table
      OBVIOUS
    <2>2. PICK R : T \in Seq(R)
      BY TypesOfTable
    <2>3. SubSeq(T, 1, 0) = <<>>
      BY <2>2
    <2> QED BY <1>5, <2>1, <2>3
  <1>7. RowOf(Vals(doc), parsed', <<>>, 0)
    BY <1>5, EmptyRow
  <1>8. CASE ~doc.names
    <2>1. its' = first.its /\ line' = first.token /\ headers' = headers /\ rowdone' = rowdone
      BY <1>4, <1>8 DEF Start
    <2>2. headers' = names
      BY <1>8, <2>1, TypesOfNames
    <2>3. rowdone'
      BY <2>1
    <2>4. first = Source(ends[x])
      BY <1>2, <1>3, <1>8
    <2>5. pc' = "rows"
      BY <1>8 DEF Start
    <2> QED BY <1>2, <1>5, <1>6, <1>7, <2>1, <2>2, <2>3, <2>4, <2>5, NextRow
  <1>9. CASE doc.names
    <2>1. PICK t, f, e : t = WholeText(doc) /\ f = ends[k] /\ e = ends[x]
      OBVIOUS
    <2>2. x \in 1..n /\ x <= Starts(doc) /\ x - 1 = k /\ x = doc.skip + 1
      BY <1>1, <1>2, <1>9
    <2>3. f \in Nat /\ e \in Nat /\ f < e /\ e <= Len(t) /\ t[e] = Nl
      BY <2>1, <2>2, PartEnds
    <2>4. t \in Seq(ToSet(t)) /\ Len(t) \in Nat /\ Nil \notin Seq(ToSet(t))
      <3>1. doc.text \in Seq(ToSet(WholeText(doc))) /\ Nil \notin Seq(ToSet(WholeText(doc)))
        BY Types
      <3> QED BY <2>1, <3>1, TextIs
    <2>5. PICK a, to : a = f + 1 /\ to = e - 1
      OBVIOUS
    <2>6. a \in Nat /\ 1 <= a /\ a <= e /\ to \in Int /\ to <= Len(t) /\ to + 1 = e
      BY <2>3, <2>4, <2>5
    <2>7. PICK l : l = SubSeq(t, a, to)
      OBVIOUS
    <2>8. first.token = l /\ first.its = e
      <3>1. Source(ends[x - 1]) = Token(WholeText(doc), ends[x - 1], ends[x])
        BY <2>2, SourceOfLine
      <3>2. first = Token(t, f, e)
        BY <1>3, <2>1, <2>2, <3>1
      <3>3. first = [token |-> l, its |-> e]
        BY <2>5, <2>7, <3>2 DEF Token
      <3> QED BY <3>3
    <2>9. l # Nil
      <3>1. l \in Seq(ToSet(t))
        BY <2>4, <2>6, <2>7, PartsOfText
      <3> QED BY <2>4, <3>1
    <2>10. PICK s, P, w, z : s = Append(l, Nl) /\ P = ParseLine(s, w, z) /\ w = <<>> /\ z = 0
      OBVIOUS
    <2>11. /\ its' = Source(e).its /\ line' = Source(e).token
           /\ headers' = P.row /\ rowdone' = Done(P)
      <3>1. Append(first.token, "\n") = s
        BY <2>8, <2>10 DEF Nl
      <3>2. ParseLine(Append(first.token, "\n"), <<>>, 0) = P
        BY <2>10, <3>1
      <3>3. first.token # Nil
        BY <2>8, <2>9
      <3>4. /\ its' = Source(first.its).its /\ line' = Source(first.its).token
            /\ headers' = ParseLine(Append(first.token, "\n"), <<>>, 0).row
            /\ rowdone' = Done(ParseLine(Append(first.token, "\n"), <<>>, 0))
        BY <1>4, <1>9, <3>3 DEF Start
      <3> QED BY <2>8, <3>2, <3>4
    <2>12. PICK V : V = Vals(doc)
      OBVIOUS
    <2>13. Nil \in V /\ names \in Seq(V)
      <3>1. PICK B : B = Seq(ToSet(WholeText(doc)))
        OBVIOUS
      <3>2. names \in Seq(B)
        BY <1>9, <3>1, TypesOfNames
      <3>3. V = B \cup {Nil}
        BY <2>12, <3>1 DEF Vals
      <3>4. names \in Seq(B \cup {Nil})
        BY <3>2
      <3> QED BY <3>3, <3>4
    <2>14. a <= to /\ Len(names) > 0 /\ RestAt(t, a, e, names, 0)
      <3>1. RecordAt(t, a, to, names)
        <4>1. RecordAt(WholeText(doc), ends[x - 1] + 1, ends[x] - 1, names)
          BY <1>9, <2>2, PartNames
        <4> QED BY <2>1, <2>2, <2>5, <4>1
      <3>2. a <= to /\ Len(names) > 0 /\ RestAt(t, a, to + 1, names, 0)
        BY <2>6, <2>13, <3>1, RecordIsRest
      <3> QED BY <2>6, <3>2
    <2>15. PartOf(t, s, a, e)
      <3>1. IsLine(t, l, a, e)
        BY <2>3, <2>4, <2>5, <2>6, <2>7, LineIsPart
      <3> QED BY <2>10, <3>1 DEF IsLine
    <2>16. TurnTo(t, V, names, z, a, e, e, s, P)
      <3>1. RestAt(t, a, e, names, z) /\ RowOf(V, w, names, z) /\ z \in Nat /\ z < Len(names) /\ e <= e
        BY <2>3, <2>10, <2>14, EmptyRow
      <3>2. TurnTo(t, V, names, z, a, e, e, s, ParseLine(s, w, z))
        BY <2>3, <2>4, <2>6, <2>13, <2>15, <3>1, RecordParsed
      <3> QED BY <2>10, <3>2
    <2>17. Done(P) /\ P.row = names
      <3>1. ~(e < e)
        BY <2>3
      <3> QED BY <2>16, <3>1 DEF TurnTo
    <2>18. PICK src : src = Source(ends[x])
      OBVIOUS
    <2>19. line' = src.token /\ its' = src.its /\ rowdone' /\ headers' = names
      BY <2>1, <2>11, <2>17, <2>18
    <2>20. pc' = "rows"
      BY <1>4, <2>8, <2>9 DEF Start
    <2> QED BY <1>2, <1>5, <1>6, <1>7, <2>18, <2>19, <2>20, NextRow
  <1> QED BY <1>2, <1>5, <1>8, <1>9

LEMMA SomeRows ==
    ASSUME NEW n \in Nat, NEW ends, NEW upto, NEW names, WrittenAs(doc, n, ends, upto, names),
           NEW x \in 0..n, rows = SubSeq(doc.table, 1, upto[x])
    PROVE  IsPrefix(rows, doc.table) /\ Len(rows) = upto[x]
  <1>1. PICK T, u : T = doc.table /\ u = upto[x]
    OBVIOUS
  <1>2. PICK R : T \in Seq(R)
    BY <1>1, TypesOfTable
  <1>3. u \in Nat /\ u <= Len(T)
    <2>1. upto \in [0..n -> Nat] /\ \A y \in 0..n : upto[y] <= Len(doc.table)
      BY TypesOfParts
    <2> QED BY <1>1, <2>1
  <1>4. PICK r : r = SubSeq(T, 1, u)
    OBVIOUS
  <1>5. r \in Seq(R) /\ Len(r) = u
    BY <1>2, <1>3, <1>4
  <1>6. SubSeq(r, 1, u) = r
    BY <1>5
  <1>7. Len(r) <= Len(T) /\ SubSeq(r, 1, Len(r)) = SubSeq(T, 1, Len(r))
    BY <1>3, <1>4, <1>5, <1>6
  <1>8. rows = r
    BY <1>1, <1>4
  <1> QED BY <1>1, <1>5, <1>7, <1>8 DEF IsPrefix

LEMMA OpenRecord ==
    ASSUME NEW n \in Nat, NEW ends, NEW upto, NEW names, WrittenAs(doc, n, ends, upto, names),
           InRows(n, ends, upto, names), ~rowdone
    PROVE  /\ Len(rows) < Len(doc.table)
           /\ fldCnt <= Len(parsed)
           /\ IsStrictPrefix(SubSeq(parsed, 1, fldCnt), doc.table[Len(rows) + 1].fields)
           /\ Head(line) = Qte
  <1>1. PICK x \in Starts(doc)..n :
            /\ rows = SubSeq(doc.table, 1, upto[x])
            /\ AtPart(doc, n, ends, upto, x, its, line, OpenCount, parsed)
    BY DEF InRows
  <1>2. line # Nil /\ line # <<>> /\ Head(line) = Qte
    BY DEF InRows
  <1>3. PICK y : y = x + 1
    OBVIOUS
  <1>4. PICK a : x < n /\ LineAt(doc, ends, y, its, line, a) /\ PartLeft(doc, ends, upto, y, a, OpenCount, parsed)
    BY <1>1, <1>2, <1>3 DEF AtPart
  <1>5. x \in 0..n /\ y \in 1..n /\ y - 1 = x
    <2>1. Starts(doc) \in Nat
      BY TypesOfParts
    <2> QED BY <1>3, <1>4, <2>1
  <1>6. PICK t, e, i, k, f, m : /\ t = WholeText(doc) /\ e = ends[y] /\ i = its /\ k = OpenCount
                                /\ m = upto[y] /\ f = doc.table[m].fields
    OBVIOUS
  <1>7. a # e
    <2> SUFFICES ASSUME a = e PROVE FALSE
      OBVIOUS
    <2>1. e \in Nat
      BY <1>5, <1>6, PartEnds
    <2>2. a \in 1..i /\ i \in 1..e /\ i <= Len(t) /\ t[i] = Nl /\ line = SubSeq(t, a, i - 1)
      BY <1>4, <1>6 DEF LineAt
    <2>3. i = a /\ i \in Nat /\ 1 <= a
      BY <2>1, <2>2
    <2>4. SubSeq(t, i, i - 1) = <<>>
      <3>1. t \in Seq(ToSet(t))
        <4>1. doc.text \in Seq(ToSet(WholeText(doc)))
          BY Types
        <4> QED BY <1>6, <4>1, TextIs
      <3>2. PICK l : l = SubSeq(t, i, i - 1)
        OBVIOUS
      <3>3. i <= i /\ i <= Len(t) /\ t[i] = Nl /\ 1 <= i
        BY <2>2, <2>3
      <3>4. IsLine(t, l, i, i)
        BY <2>3, <3>1, <3>2, <3>3, LineIsPart
      <3> QED BY <3>2, <3>4 DEF IsLine
    <2> QED BY <1>2, <2>2, <2>3, <2>4
  <1>8. m = upto[x] + 1 /\ k \in 0..(Len(f) - 1) /\ RowOf(Vals(doc), parsed, f, k)
    BY <1>4, <1>5, <1>6, <1>7 DEF PartLeft
  <1>9. k = fldCnt
    BY <1>6 DEF OpenCount
  <1>10. upto[x] \in Nat /\ m \in 1..Len(doc.table) /\ Len(doc.table) \in Nat
    <2>1. upto[y - 1] \in Nat /\ upto[y] \in Nat /\ upto[y] <= Len(doc.table) /\ Len(doc.table) \in Nat
      BY <1>5, UptoIs
    <2> QED BY <1>5, <1>6, <1>8, <2>1
  <1>11. Len(rows) = upto[x]
    BY <1>1, <1>5, SomeRows
  <1>12. Len(rows) < Len(doc.table) /\ Len(rows) + 1 = m
    BY <1>8, <1>10, <1>11
  <1>13. PICK V : V = Vals(doc)
    OBVIOUS
  <1>14. f \in Seq(V)
    BY <1>6, <1>10, <1>13, TableAt
  <1>15. /\ parsed \in Seq(V) /\ k <= Len(parsed) /\ k \in Nat /\ k < Len(f)
         /\ \A j \in 1..k : parsed[j] = f[j]
    BY <1>8, <1>13, <1>14 DEF RowOf
  <1>16. IsStrictPrefix(SubSeq(parsed, 1, k), f)
    <2> DEFINE A == SubSeq(parsed, 1, k)
               B == SubSeq(f, 1, k)
    <2>1. A \in Seq(V) /\ Len(A) = k /\ \A j \in 1..k : A[j] = f[j]
      BY <1>15
    <2>2. B \in Seq(V) /\ Len(B) = k /\ \A j \in 1..k : B[j] = f[j]
      BY <1>14, <1>15
    <2> HIDE DEF A, B
    <2>3. A = B
      BY <2>1, <2>2
    <2>4. A # f
      BY <1>14, <1>15, <2>1
    <2>5. SubSeq(A, 1, Len(A)) = A
      BY <2>1
    <2>6. SubSeq(A, 1, Len(A)) = SubSeq(f, 1, Len(A))
      BY <2>1, <2>3, <2>5 DEF B
    <2>7. Len(A) <= Len(f)
      BY <1>14, <1>15, <2>1
    <2> QED BY <2>4, <2>6, <2>7 DEF IsStrictPrefix, IsPrefix, A
  <1> QED BY <1>2, <1>6, <1>9, <1>12, <1>15, <1>16

LEMMA RecordsAreKept == CsvInv => RecordsKept
  <1> SUFFICES ASSUME NEW n \in Nat, NEW ends, NEW upto, NEW names,
                      WrittenAs(doc, n, ends, upto, names), RecordsInv(n, ends, upto, names)
               PROVE  RecordsKept
    BY DEF CsvInv
  <1>1. pc # "error"
    BY DEF RecordsInv
  <1>2. pc = "done" => rows = doc.table
    BY DEF RecordsInv
  <1>3. IsPrefix(rows, doc.table)
    <2>1. CASE pc = "start"
      <3>1. rows = <<>>
        BY <2>1 DEF RecordsInv
      <3>2. PICK T : T = doc.table
        OBVIOUS
      <3>3. PICK R : T \in Seq(R)
        BY <3>2, TypesOfTable
      <3>4. SubSeq(T, 1, 0) = <<>> /\ Len(T) \in Nat
        BY <3>3
      <3>5. Len(<<>>) <= Len(T) /\ SubSeq(<<>>, 1, Len(<<>>)) = SubSeq(T, 1, Len(<<>>))
        BY <3>4
      <3> QED BY <3>1, <3>2, <3>5 DEF IsPrefix
    <2>2. CASE pc = "rows"
      <3>1. PICK x \in Starts(doc)..n : rows = SubSeq(doc.table, 1, upto[x])
        BY <2>2 DEF RecordsInv, InRows
      <3>2. x \in 0..n
        <4>1. Starts(doc) \in Nat
          BY TypesOfParts
        <4> QED BY <4>1
      <3> QED BY <3>1, <3>2, SomeRows
    <2>3. CASE pc = "done"
      <3>1. n \in 0..n
        OBVIOUS
      <3>2. rows = doc.table /\ upto[n] = Len(doc.table)
        BY <1>2, <2>3, TypesOfParts
      <3>3. rows = SubSeq(doc.table, 1, upto[n])
        <4>1. PICK T, R : T = doc.table /\ T \in Seq(R)
          BY TypesOfTable
        <4>2. SubSeq(T, 1, Len(T)) = T
          BY <4>1
        <4> QED BY <3>2, <4>1, <4>2
      <3> QED BY <3>1, <3>3, SomeRows
    <2> QED BY <2>1, <2>2, <2>3 DEF RecordsInv
  <1>4. FieldsKept
    <2> SUFFICES ASSUME pc = "rows", ~rowdone
                 PROVE  /\ Len(rows) < Len(doc.table)
                        /\ fldCnt <= Len(parsed)
                        /\ IsStrictPrefix(SubSeq(parsed, 1, fldCnt), doc.table[Len(rows) + 1].fields)
                        /\ Head(line) = Qte
      BY DEF FieldsKept
    <2>1. InRows(n, ends, upto, names)
      BY DEF RecordsInv
    <2> QED BY <2>1, OpenRecord
  <1> QED BY <1>1, <1>2, <1>3, <1>4 DEF RecordsKept, RowsAsWritten

LEMMA RecordsStart == CsvInit /\ WrittenWithoutEscapes(doc) => CsvInv
  <1> SUFFICES ASSUME CsvInit, NEW n \in Nat, NEW ends, NEW upto, NEW names, WrittenAs(doc, n, ends, upto, names)
               PROVE  CsvInv
    BY DEF WrittenWithoutEscapes
  <1>1. /\ pc = "start" /\ line = Nil /\ parsed = <<>> /\ rowdone = TRUE /\ headers = doc.headers /\ rows = <<>>
    BY DEF CsvInit
  <1>2. RecordsInv(n, ends, upto, names)
    BY <1>1 DEF RecordsInv
  <1> QED BY <1>2 DEF CsvInv

LEMMA RecordsStep == CsvInv /\ [CsvNext]_csvVars => CsvInv'
  <1> SUFFICES ASSUME NEW n \in Nat, NEW ends, NEW upto, NEW names, WrittenAs(doc, n, ends, upto, names),
                      RecordsInv(n, ends, upto, names), [CsvNext]_csvVars
               PROVE  WrittenAs(doc', n, ends, upto, names) /\ RecordsInv(n, ends, upto, names)'
    BY DEF CsvInv
  <1>1. CASE Start
    <2>1. parsed = <<>> /\ rowdone = TRUE /\ headers = doc.headers /\ rows = <<>>
      BY <1>1 DEF Start, RecordsInv
    <2>2. InRows(n, ends, upto, names)' /\ doc' = doc /\ pc' = "rows"
      BY <1>1, <2>1, StartStep
    <2> QED BY <2>2 DEF RecordsInv
  <1>2. ASSUME SkipEmptyLine \/ ReturnRow \/ ContinueRow
        PROVE  WrittenAs(doc', n, ends, upto, names) /\ RecordsInv(n, ends, upto, names)'
    <2>1. pc = "rows" /\ doc' = doc
      BY <1>2 DEF SkipEmptyLine, ReturnRow, ContinueRow, ParseRow
    <2>2. InRows(n, ends, upto, names)
      BY <2>1 DEF RecordsInv
    <2>3. InRows(n, ends, upto, names)'
      BY <1>2, <2>2, SkipStep, ReturnStep, ContinueStep
    <2>4. pc' = pc
      <3>1. CASE SkipEmptyLine \/ ReturnRow
        BY <3>1 DEF SkipEmptyLine, ReturnRow
      <3>2. CASE ContinueRow
        BY <2>2, <3>2, ContinueStep
      <3> QED BY <1>2, <3>1, <3>2
    <2> QED BY <2>1, <2>3, <2>4 DEF RecordsInv
  <1>3. CASE EndOfRows
    <2>1. pc = "rows" /\ line = Nil /\ pc' = "done" /\ doc' = doc /\ rows' = rows
      BY <1>3 DEF EndOfRows
    <2>2. rows = doc.table
      <3>1. InRows(n, ends, upto, names)
        BY <2>1 DEF RecordsInv
      <3> QED BY <2>1, <3>1, EndStep
    <2> QED BY <2>1, <2>2 DEF RecordsInv
  <1>4. CASE UNCHANGED csvVars
    <2>1. /\ doc' = doc /\ its' = its /\ line' = line /\ parsed' = parsed /\ fldCnt' = fldCnt
          /\ rowdone' = rowdone /\ headers' = headers /\ rows' = rows /\ pc' = pc
      BY <1>4 DEF csvVars
    <2>2. OpenCount' = OpenCount
      BY <2>1 DEF OpenCount
    <2>3. InRows(n, ends, upto, names) => InRows(n, ends, upto, names)'
      BY <2>1, <2>2 DEF InRows
    <2> QED BY <2>1, <2>3 DEF RecordsInv
  <1> QED BY <1>1, <1>2, <1>3, <1>4 DEF CsvNext

\* rows() returns the records of a text without escape characters that is split at "\n",
\* in their order and with their values as they were meant, each under the name of its
\* column, and goes on in the next line where a quoted value holds a line end, however
\* t_csv_split, t_csv_parse and t_csv_pushfield have to take the text apart.  Texts with
\* the escape character, or written for doublequote = false, are documented but not read
\* as documented (t_csv_l.c:70): the theorem is not about them.
THEOREM WrittenRecordsAreKept == CsvSpec /\ WrittenWithoutEscapes(doc) => []RecordsKept
  <1> QED BY RecordsStart, RecordsStep, RecordsAreKept, PTL DEF CsvSpec
===============================================================================
