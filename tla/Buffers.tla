------------------------------- MODULE Buffers -------------------------------
(***************************************************************************)
(* t.Buffer and t.Buffer.Segment: blocks of bytes of a fixed length, and   *)
(* windows on them that move (t_buf_l.c, t_buf_seg.c, t_buf.c).  Several   *)
(* windows may lie on one buffer.  A call that raises an error changes     *)
(* nothing and is left out: the checks before it are the guards.           *)
(***************************************************************************)
EXTENDS Integers, Sequences

CONSTANTS
    Bufs, Segs,     \* the buffers and segments a program creates
    Bytes,          \* the values of a byte; they contain 0
    MaxLen,         \* bound: the length of a buffer
    Strings,        \* the strings a program writes, sequences of bytes
    Nums,           \* the numbers it gives as positions and lengths
    NoObject

ASSUME BufferAssumption ==
    /\ 0 \in Bytes /\ Bytes \subseteq 0..255 /\ MaxLen \in Nat \ {0}
    /\ Strings \subseteq Seq(Bytes) \ {<<>>} /\ Nums \subseteq Int
    /\ NoObject \notin Bufs \cup Segs \cup Seq(Bytes) /\ Bufs \cap Segs = {}
    /\ NoObject \notin [buf : Bufs, idx : Int, len : Int] \cup [from : Int, passed : Int]

VARIABLES
    bytes,       \* the bytes of each buffer, NoObject when it does not exist
    seg,       \* [buf, idx, len] of each segment, NoObject when it does not exist
    walk,      \* history: where a segment was set and what next() made of it:
               \* the bytes it passed and how many steps it took
    call       \* history: the last call, as [op, obj] and its arguments

bufVars == <<bytes, seg, walk, call>>

Buffers   == {b \in Bufs : bytes[b] # NoObject}
Segments  == {s \in Segs : seg[s] # NoObject}
Objects   == Buffers \cup Segments

\* t_buf_tolstring: the memory a buffer or a segment stands for.
Window(o) ==
    IF o \in Bufs THEN [buf |-> o, idx |-> 1, len |-> Len(bytes[o])] ELSE seg[o]

BufferLen(o) == Len(bytes[Window(o).buf])

ByteAt(o, i) == bytes[Window(o).buf][Window(o).idx + i - 1]

\* Mutant: the positions of a segment count from 0 like those of C.
CopiedFromZero(o, i, src) ==
    LET w == Window(o)
    IN  [bytes EXCEPT ![w.buf] =
            [p \in 1..Len(@) |-> LET k == p - (w.idx + i) + 1
                                 IN  IF k \in 1..Len(src) THEN src[k] ELSE @[p]]]

\* memcpy of src to byte i of object o, wherever the object ends.
Copied(o, i, src) ==
    LET w == Window(o)
    IN  [bytes EXCEPT ![w.buf] =
            [p \in 1..Len(@) |-> LET k == p - (w.idx + i - 1) + 1
                                 IN  IF k \in 1..Len(src) THEN src[k] ELSE @[p]]]

Zeros(n) == [i \in 1..n |-> 0]

BufInit ==
    /\ bytes = [b \in Bufs |-> NoObject] /\ seg = [s \in Segs |-> NoObject]
    /\ walk = [s \in Segs |-> NoObject]
    /\ call = [op |-> "none", obj |-> NoObject]

Called(op, o) == call' = [op |-> op, obj |-> o]

(***************************************************************************)
(* Buffers.                                                                *)
(***************************************************************************)

Create(b, content) ==
    /\ bytes[b] = NoObject
    /\ bytes' = [bytes EXCEPT ![b] = content]
    /\ Called("create", b)
    /\ UNCHANGED <<seg, walk>>

\* Buffer(n), with n > 0.
NewBuffer(b, n) == n > 0 /\ Create(b, Zeros(n))

\* Buffer(o, n), Buffer(o): the bytes of an object, cut or filled up to n.
NewFrom(b, o, n) ==
    /\ n > 0
    /\ Create(b, [i \in 1..n |-> IF i <= Window(o).len THEN ByteAt(o, i) ELSE 0])

\* Buffer + Buffer
Concat(b, b1, b2) ==
    /\ Len(bytes[b1]) + Len(bytes[b2]) <= MaxLen
    /\ Create(b, bytes[b1] \o bytes[b2])

Clear(o) ==
    /\ bytes' = Copied(o, 1, Zeros(Window(o).len))
    /\ Called("clear", o)
    /\ UNCHANGED <<seg, walk>>

\* lt_buf_write checks a size_t: 1 <= len fails for 0 alone, and idx + len - 1 is
\* small again when a negative len is not below -idx.
WriteAllowed(o, idx, len) ==
    /\ 1 <= idx /\ idx <= Window(o).len
    /\ len # 0
    /\ 0 <= idx + len - 1 /\ idx + len - 1 <= Window(o).len

\* n bytes from where a string of Lua begins: a byte 0 ends it, and behind it is
\* memory of which nothing is known.
Memory(src, n, behind) ==
    [i \in 1..n |-> IF i <= Len(src) THEN src[i] ELSE IF i = Len(src) + 1 THEN 0 ELSE behind[i]]

\* o:write(src, idx, len): nothing compares len with the string.  A negative len is
\* a number of bytes that no memory holds: the copy runs over the end of the window
\* and of the buffer, and the process does not survive it.
Write(o, src, idx, len, behind) ==
    /\ WriteAllowed(o, idx, len)
    /\ IF len > 0
       THEN /\ bytes' = Copied(o, idx, Memory(src, len, behind))
            /\ Called("write", o)
       ELSE /\ bytes' = Copied(o, idx, Memory(src, BufferLen(o), behind))
            /\ Called("overrun", o)
    /\ UNCHANGED <<seg, walk>>

\* buf[idx] = val stores at the C index idx, which is the byte after idx, and for the
\* last one the byte behind the buffer; the check of the value looks at idx instead.
SetByte(b, idx, val) ==
    /\ idx \in 1..Len(bytes[b])
    /\ bytes' = Copied(b, idx + 1, <<val>>)
    /\ Called("setbyte", b)
    /\ UNCHANGED <<seg, walk>>

\* Mutant: what is left of a read that begins before the object is one byte too long.
ReadRangeLong(n, pos, len) ==
    LET s0 == IF pos >= 0 THEN pos ELSE n + pos + 1
        s1 == IF len < 0 THEN s0 + len + 1 ELSE s0
        l1 == IF len < 0 THEN -len ELSE len
        s2 == IF s1 < 1 THEN 1 ELSE s1
        l2 == IF s1 < 1 THEN l1 + s1 ELSE l1
        l3 == IF s2 + l2 > n THEN n - s2 + 1 ELSE l2
    IN  [idx |-> s2, len |-> IF l3 > 0 THEN l3 ELSE 0]

\* o:read(start, len): negative positions count from the end, a negative length
\* ends at the position; what lies outside of the object is left out.
ReadRange(n, pos, len) ==
    LET s0 == IF pos >= 0 THEN pos ELSE n + pos + 1
        s1 == IF len < 0 THEN s0 + len + 1 ELSE s0
        l1 == IF len < 0 THEN -len ELSE len
        s2 == IF s1 < 1 THEN 1 ELSE s1
        l2 == IF s1 < 1 THEN l1 + s1 - 1 ELSE l1
        l3 == IF s2 + l2 > n THEN n - s2 + 1 ELSE l2
    IN  [idx |-> s2, len |-> IF l3 > 0 THEN l3 ELSE 0]

Read(o, pos, len) ==
    LET r == ReadRange(Window(o).len, pos, len)
    IN  [i \in 1..r.len |-> ByteAt(o, r.idx + i - 1)]

\* A byte as C's char holds it, which is signed.
SignedChar(b) == IF b >= 128 THEN b - 256 ELSE b

\* buf[i] and seg[i]: nil when there is no such byte, else a number that is negative
\* for a byte of 128 and more.
BufferIndex(b, i)  == IF i \in 1..Len(bytes[b]) THEN SignedChar(bytes[b][i]) ELSE NoObject
SegmentIndex(s, i) == IF i \in 1..seg[s].len THEN SignedChar(ByteAt(s, i)) ELSE NoObject

\* toHex() and toBin(): the digits of each byte, by shifts of the signed char.
HexDigits(o) ==
    [i \in 1..Window(o).len |->
        LET c == SignedChar(ByteAt(o, i)) IN <<(c \div 16) % 16, c % 16>>]
Weight == <<128, 64, 32, 16, 8, 4, 2, 1>>
BinDigits(o) ==
    [i \in 1..Window(o).len |-> [x \in 1..8 |-> (SignedChar(ByteAt(o, i)) \div Weight[x]) % 2]]

\* o1 == o2: strncmp compares up to the first byte that is 0 in both.
SameText(o1, o2) ==
    /\ Window(o1).len = Window(o2).len
    /\ \A i \in 1..Window(o1).len :
          ByteAt(o1, i) # ByteAt(o2, i) => \E k \in 1..(i - 1) : ByteAt(o1, k) = 0

(***************************************************************************)
(* Segments.                                                               *)
(***************************************************************************)

\* t_buf_seg_set
Set(s, b, idx, len) ==
    /\ 1 <= idx /\ idx <= Len(bytes[b])
    /\ len >= 0 /\ idx + len - 1 <= Len(bytes[b])
    /\ seg' = [seg EXCEPT ![s] = [buf |-> b, idx |-> idx, len |-> len]]

\* A call that places the segment anew begins a new walk.
Placed(s, op, b, idx, len) ==
    /\ Set(s, b, idx, len)
    /\ walk' = [walk EXCEPT ![s] = [from |-> idx, passed |-> len]]
    /\ Called(op, s)
    /\ UNCHANGED bytes

\* Buffer.Segment(buf, idx, len)
NewSegment(s, b, idx, len) == seg[s] = NoObject /\ Placed(s, "segment", b, idx, len)

Shift(s, val) == Placed(s, "shift", seg[s].buf, seg[s].idx + val, seg[s].len)

\* seg.start = val, seg.size = val, seg.last = val
SetStart(s, val) == Placed(s, "start", seg[s].buf, val, seg[s].len + seg[s].idx - val)
SetSize(s, val)  == Placed(s, "size", seg[s].buf, seg[s].idx, val)
SetLast(s, val)  == Placed(s, "last", seg[s].buf, seg[s].idx, val - seg[s].idx)

AtEnd(s) == seg[s].idx + seg[s].len > Len(bytes[seg[s].buf])

\* Mutant: the last window is cut one byte short.
NextLenShort(s) ==
    LET n == Len(bytes[seg[s].buf])
    IN  IF seg[s].idx + 2 * seg[s].len > n THEN n - seg[s].idx - seg[s].len ELSE seg[s].len

NextLen(s) ==
    LET n == Len(bytes[seg[s].buf])
    IN  IF seg[s].idx + 2 * seg[s].len > n THEN n - seg[s].idx - seg[s].len + 1 ELSE seg[s].len

\* seg:next() returns true ...
NextWindow(s) ==
    /\ ~AtEnd(s)
    /\ Set(s, seg[s].buf, seg[s].idx + seg[s].len, NextLen(s))
    /\ walk' = [walk EXCEPT ![s].passed = @ + NextLen(s)]
    /\ Called("next", s)
    /\ UNCHANGED bytes

\* ... and false.
NextFails(s) ==
    /\ AtEnd(s)
    /\ Called("end", s)
    /\ UNCHANGED <<bytes, seg, walk>>

\* seg[idx] = val
SetSegmentByte(s, idx, val) ==
    /\ idx \in 1..seg[s].len
    /\ bytes' = Copied(s, idx, <<val>>)
    /\ Called("setbyte", s)
    /\ UNCHANGED <<seg, walk>>

CreateCall(b) ==
    \/ \E n \in 1..MaxLen : NewBuffer(b, n)
    \/ \E str \in Strings : Len(str) <= MaxLen /\ Create(b, str)
    \/ \E o \in Objects, n \in 1..MaxLen : NewFrom(b, o, n)
    \/ \E b1, b2 \in Buffers : Concat(b, b1, b2)

BytesCall(o) ==
    \/ Clear(o)
    \/ \E str \in Strings, idx, len \in Nums :
           \E behind \in [(Len(str) + 2)..BufferLen(o) -> Bytes] : Write(o, str, idx, len, behind)
    \/ \E idx \in Nums, val \in Bytes :
           IF o \in Bufs THEN SetByte(o, idx, val) ELSE SetSegmentByte(o, idx, val)

SegmentCall(s) ==
    \/ NextWindow(s) \/ NextFails(s)
    \/ \E val \in Nums : Shift(s, val) \/ SetStart(s, val) \/ SetSize(s, val) \/ SetLast(s, val)

Alive == call.op # "overrun"

BufNext ==
    /\ Alive
    /\ \/ \E b \in Bufs : CreateCall(b)
       \/ \E o \in Objects : BytesCall(o)
       \/ \E s \in Segs, b \in Buffers, idx, len \in Nums : NewSegment(s, b, idx, len)
       \/ \E s \in Segments : SegmentCall(s)

BufSpec == BufInit /\ [][BufNext]_bufVars

(***************************************************************************)
(* Properties.                                                             *)
(***************************************************************************)

BufTypeOK ==
    /\ \A b \in Buffers : bytes[b] \in Seq(Bytes)
    /\ \A s \in Segments :
          /\ seg[s] \in [buf : Buffers, idx : Int, len : Int]
          /\ walk[s] \in [from : Int, passed : Int]

\* No sequence of calls moves a segment out of its buffer: every byte of a segment
\* is a byte of its buffer, so that t_buf_tolstring gives memory of the buffer
\* alone to whoever reads or writes the segment (t_buf_seg_set, its six callers).
SegmentsInside ==
    \A s \in Segments :
        /\ seg[s].idx >= 1 /\ seg[s].len >= 0
        /\ seg[s].idx <= Len(bytes[seg[s].buf])
        /\ seg[s].idx + seg[s].len - 1 <= Len(bytes[seg[s].buf])

\* A loop over seg:next() sees every byte from where the segment was set to the
\* end of the buffer once: the windows follow each other without a gap and
\* without overlap, next() returns false only after the last byte, and a window
\* with bytes is followed by one with bytes, so that the loop comes to the end.
NextMissesNothing ==
    \A s \in Segments :
        /\ walk[s].passed = seg[s].idx + seg[s].len - walk[s].from
        /\ AtEnd(s) => walk[s].passed = Len(bytes[seg[s].buf]) - walk[s].from + 1
        /\ ~AtEnd(s) /\ seg[s].len > 0 => NextLen(s) > 0

\* A call through an object changes bytes inside of its window only, whatever else
\* lies on the same buffer and however long the string is that it is given, and no
\* buffer changes its length.  The exception is a negative length that passes the
\* check "requested length out of range" of lt_buf_write (t_buf_l.c:167): such a
\* write runs over the end of its window and ends the process.
OnlyInWindow ==
    [][Alive' => \A b \in Buffers :
          /\ Len(bytes'[b]) = Len(bytes[b])
          /\ \A i \in 1..Len(bytes[b]) :
                bytes'[b][i] # bytes[b][i] =>
                    /\ Window(call'.obj).buf = b
                    /\ i - Window(call'.obj).idx \in 0..(Window(call'.obj).len - 1)
      ]_bufVars

\* The positions of n bytes that read(pos, len) asks for (docs/Buffer.rst): from
\* pos on, or the ones that end at pos when len is negative.
Asked(n, pos, len) ==
    LET first == IF pos < 0 THEN n + 1 + pos ELSE pos
    IN  {p \in 1..n : IF len < 0 THEN first + len < p /\ p <= first
                                 ELSE first <= p /\ p < first + len}

\* Whatever a program looks at an object with, it sees the bytes of its window:
\* read() returns those that were asked for, all of them and no others, whatever
\* signs and sizes its arguments have; toHex() and toBin() write each byte in
\* digits that give it back although the char they shift is negative; o[i] is nil
\* outside and tells the byte inside.  In two places the code gives less than is
\* documented, and this says what it gives.  A byte of 128 or more reads as a
\* negative number, 256 less than itself, where docs/Buffer.rst:132 has bytes
\* "between 0 and 255" and test/t_buf.lua:66 compares with string.byte().  And "=="
\* holds exactly when the lengths are the same and the bytes are, up to the first
\* byte 0 the two have in common, where strncmp stops: docs/Buffer.Segment.rst:124
\* wants "lenght and content" to be identical.
ReadsWhatIsAsked ==
    \A o \in Objects :
        /\ \A pos, len \in Nums :
              LET r == ReadRange(Window(o).len, pos, len)
              IN  Asked(Window(o).len, pos, len) = r.idx..(r.idx + r.len - 1)
        /\ \A i \in 1..Window(o).len :
              LET hex == HexDigits(o)[i]
                  bin == BinDigits(o)[i]
              IN  /\ 16 * hex[1] + hex[2] = ByteAt(o, i)
                  /\ \A x \in 1..8 : bin[x] = (ByteAt(o, i) \div Weight[x]) % 2
        /\ \A i \in Nums :
              LET val == IF o \in Bufs THEN BufferIndex(o, i) ELSE SegmentIndex(o, i)
              IN  IF i \notin 1..Window(o).len THEN val = NoObject
                  ELSE LET byte == Read(o, i, 1)[1]
                       IN  val = byte \/ (byte >= 128 /\ val = byte - 256)
        /\ \A p \in Objects :
              LET a == Read(o, 1, Window(o).len)
                  b == Read(p, 1, Window(p).len)
              IN  SameText(o, p) <=>
                    /\ Len(a) = Len(b)
                    /\ \A i \in 1..Len(a) :
                          a[i] # b[i] => \E k \in 1..(i - 1) : a[k] = 0 /\ b[k] = 0
==============================================================================
