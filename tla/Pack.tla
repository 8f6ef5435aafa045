--------------------------------- MODULE Pack ---------------------------------
(***************************************************************************)
(* t.Pack: packers of bits and bytes made from format strings, combined    *)
(* into arrays, sequences and structs, and called on a buffer to read or   *)
(* write it (t_pck_l.c, t_pck__format.c, t_pck__readwrite.c; x86, where    *)
(* IS_LITTLE_ENDIAN holds).  A byte has NB bits and a lua_Integer MXINT    *)
(* bytes, so that small ones have all the cases of 8 and 8.  The creators  *)
(* of combinators and the offset of a field, t_pck_idx_*, are not part of  *)
(* the repository: they are modelled from their use.                       *)
(***************************************************************************)
EXTENDS Integers, Sequences, SequencesExt

CONSTANTS
    NB, MXINT,
    NativeSize,   \* bytes of the types whose size is the machine's
    Size,         \* the bytes of the buffer that packers are called on
    Formats,      \* format strings: sequences of [opt, n], n = 0 for no number
    FormatLists,   \* arguments of Pack(f, g): sequences of format strings
    Structs,      \* arguments of Pack({k = f}, ...): sequences of [key, fmt]
    MaxFields,    \* bound: the fields of an array
    None

ASSUME PackAssumption == NB \in Nat \ {0} /\ MXINT \in Nat \ {0} /\ Size \in Nat \ {0}

VARIABLES
    mem,            \* the bytes of the buffer, and the one behind it
    pck,            \* the packer the program made last
    defaultEndian   \* _default_endian of t_pck_l.c: TRUE for little endian

packVars == <<mem, pck, defaultEndian>>

MXBIT  == MXINT * NB
Byte   == 0..(2^NB - 1)
Number(digits, base) == FoldLeft(LAMBDA acc, d : acc * base + d, 0, digits)
Undefined == <<"undefined", 0>>

(***************************************************************************)
(* Packers: atomic ones, [t, s, little, signed] with s the size in bits,   *)
(* and combinators, [t, s, m] with s the number of the elements m.         *)
(***************************************************************************)

Packer(t, s, little, signed) == [t |-> t, s |-> s, little |-> little, signed |-> signed]
Atomic(p) == p.t \in {"Bool", "Int", "Float", "Raw"}
Array(p, n) == [t |-> "Array", s |-> n, m |-> <<p>>]
Sequence(ps) == [t |-> "Sequence", s |-> Len(ps), m |-> ps]
Struct(ks, ps) == [t |-> "Struct", s |-> Len(ps), m |-> ps, keys |-> ks]

\* t_pck_format: the name under which an atomic packer is cached and shared.
FormatKey(p) ==
    CASE p.t = "Bool"  -> <<"Bool">>
      [] p.t = "Int"   -> <<"Int", p.s, p.signed, p.little>>
      [] p.t = "Float" -> <<"Float", p.s, p.little>>
      [] p.t = "Raw"   -> <<"Raw", p.s \div NB>>

\* The packer of one option, under the endianness in force.
PackerOf(tok, little) ==
    LET o == tok.opt
        n == IF tok.n = 0 THEN (IF o \in {"i", "I"} THEN NativeSize["i"] ELSE 1) ELSE tok.n
    IN  CASE o \in {"b", "h", "l", "j"} -> Packer("Int", NativeSize[o] * NB, little, TRUE)
          [] o \in {"B", "H", "L", "J", "T"} -> Packer("Int", NativeSize[o] * NB, little, FALSE)
          [] o \in {"i", "I"} -> Packer("Int", n * NB, little, o = "i")
          [] o \in {"f", "d", "n"} -> Packer("Float", NativeSize[o] * NB, little, FALSE)
          [] o = "c" -> Packer("Raw", n * NB, FALSE, FALSE)
          [] o = "v" -> Packer("Bool", 1, FALSE, FALSE)
          [] o \in {"r", "R"} -> Packer("Int", n, FALSE, o = "r")

InLimits(tok) ==
    CASE tok.opt \in {"i", "I"} -> tok.n <= MXINT
      [] tok.opt \in {"r", "R"} -> tok.n <= MXBIT
      [] OTHER -> TRUE

\* t_pck_parseFmt, option by option: '<' and '>' hold for all that follows.
\* The parser starts with the _default_endian of its own file, which nothing sets.
Options(fmt) ==
    FoldLeft(LAMBDA acc, tok :
                 IF tok.opt \in {"<", ">"} THEN [acc EXCEPT !.little = tok.opt = "<"]
                 ELSE [acc EXCEPT !.packers = Append(@, PackerOf(tok, acc.little))],
             [little |-> TRUE, packers |-> <<>>], fmt).packers

\* t_pck_getPacker: one option is a packer, several are a sequence.
FromFormat(fmt) ==
    LET ps == Options(fmt) IN IF Len(ps) > 1 THEN Sequence(ps) ELSE ps[1]

Parses(fmt) == (\A i \in DOMAIN fmt : InLimits(fmt[i])) /\ Len(Options(fmt)) > 0

\* t_pck_getSize: a sequence or struct with an empty element has no size.
RECURSIVE SizeOf(_)
SizeOf(p) ==
    IF Atomic(p) \/ p.s = 0 THEN p.s
    ELSE IF p.t = "Array" THEN p.s * SizeOf(p.m[1])
    ELSE LET sizes == [i \in 1..p.s |-> SizeOf(p.m[i])]
         IN  IF \E i \in 1..p.s : sizes[i] = 0 THEN 0
             ELSE FoldLeft(LAMBDA a, b : a + b, 0, sizes)

(***************************************************************************)
(* Reading and writing one value at bit ofs.                               *)
(***************************************************************************)

BitAt(m, k) == (m[k \div NB + 1] \div 2^(NB - 1 - (k % NB))) % 2
BytesAt(m, ofs, n) == SubSeq(m, ofs \div NB + 1, ofs \div NB + n)

WithBits(m, ofs, bits) ==
    [i \in DOMAIN m |->
        Number([j \in 1..NB |->
            LET k == (i - 1) * NB + j - 1 - ofs
            IN  IF k \in 0..(Len(bits) - 1) THEN bits[k + 1] ELSE BitAt(m, k + ofs)], 2)]

WithBytes(m, ofs, bytes) ==
    [i \in DOMAIN m |-> LET k == i - ofs \div NB
                        IN  IF k \in DOMAIN bytes THEN bytes[k] ELSE m[i]]

Unaligned(p, ofs) == ofs % NB # 0 \/ p.s % NB # 0

\* t_pck_getIntValue; more than MXINT bytes do not fit into its val.
IntValue(m, p, ofs) ==
    LET o    == ofs % NB
        n    == (p.s + o - 1) \div NB + 1
        raw  == Number(BytesAt(m, ofs, n), 2^NB)
        val  == IF Unaligned(p, ofs) THEN ((raw * 2^(MXBIT - n * NB + o)) % 2^MXBIT) \div 2^(MXBIT - p.s)
                ELSE IF p.little THEN Number(Reverse(BytesAt(m, ofs, n)), 2^NB) ELSE raw
    IN  IF n > MXINT THEN Undefined
        ELSE IF p.signed /\ val >= 2^(p.s - 1) THEN <<"Int", val - 2^p.s>>
        ELSE IF val >= 2^(MXBIT - 1) THEN <<"Int", val - 2^MXBIT>>
        ELSE <<"Int", val>>

\* t_pck_read; what it raises is no value.  A float is the bytes it has in memory.
ReadValue(m, p, ofs) ==
    CASE p.t = "Bool"  -> <<"Bool", BitAt(m, ofs) = 1>>
      [] p.t = "Int"   -> IntValue(m, p, ofs)
      [] p.t \in {"Float", "Raw"} /\ ofs % NB # 0 -> <<"error", p.t>>
      [] p.t = "Float" -> <<"Float", IF p.little THEN BytesAt(m, ofs, p.s \div NB)
                                     ELSE Reverse(BytesAt(m, ofs, p.s \div NB))>>
      [] p.t = "Raw"   -> <<"Raw", BytesAt(m, ofs, p.s \div NB)>>

Msk(p) == 2^(p.s - 1)
Negative(p, v) == p.signed /\ p.s < MXBIT /\ v < 0

\* The bits setIntValue stores for the integer v, as an unsigned number.
Stored(p, v) ==
    LET x == ((v % 2^MXBIT) + Msk(p)) % 2^MXBIT
    IN  IF ~Negative(p, v) THEN v % 2^MXBIT
        ELSE IF (x \div Msk(p)) % 2 = 1 THEN x - Msk(p) ELSE x + Msk(p)

\* Its check of the value; to shift by all MXBIT bits has no defined result, so
\* that the value may pass and may not.
Fits(p, v) ==
    LET k == IF p.signed /\ p.s < MXBIT /\ ~Negative(p, v) THEN p.s - 1 ELSE p.s
    IN  k < MXBIT => Stored(p, v) \div 2^k = 0

\* Whether t_pck_write takes the value.  Floats and strings are not checked for the
\* border they start at, and go to the byte in which the offset lies.
Accepts(p, v) ==
    CASE p.t = "Int" -> Fits(p, v)
      [] p.t = "Raw" -> Len(v) <= p.s \div NB
      [] OTHER -> TRUE

\* Mutant: bits are stored from the byte's border on.
WrittenAtBorder(m, p, ofs, v) ==
    IF p.t = "Int"
    THEN WithBits(m, ofs - (ofs % NB), [j \in 1..p.s |-> (Stored(p, v) \div 2^(p.s - j)) % 2])
    ELSE m

\* t_pck_write: the memory after it.
Written(m, p, ofs, v) ==
    CASE p.t = "Bool" -> WithBits(m, ofs, <<IF v THEN 1 ELSE 0>>)
      [] p.t = "Int" /\ Unaligned(p, ofs) ->
             WithBits(m, ofs, [j \in 1..p.s |-> (Stored(p, v) \div 2^(p.s - j)) % 2])
      [] p.t = "Int" /\ ~Unaligned(p, ofs) ->
             LET low == [k \in 1..(p.s \div NB) |-> (Stored(p, v) \div 2^(NB * (k - 1))) % 2^NB]
             IN  WithBytes(m, ofs, IF p.little THEN low ELSE Reverse(low))
      [] p.t \in {"Float", "Raw"} -> WithBytes(m, ofs, v)

Values(p) ==
    CASE p.t = "Bool"  -> BOOLEAN
      [] p.t = "Int"   -> (-(2^(MXBIT - 1)))..(2^(MXBIT - 1) - 1)
      [] p.t = "Float" -> [1..(p.s \div NB) -> Byte]
      [] p.t = "Raw"   -> UNION {[1..n -> Byte] : n \in 0..(p.s \div NB + 1)}

(***************************************************************************)
(* Combinators.                                                            *)
(***************************************************************************)

\* t_pck_idx_getPackFromStack: the packer of element i; those of an array are one.
ElementPacker(p, i) == IF p.t = "Array" THEN p.m[1] ELSE p.m[i]

\* #p
Length(p) == p.s
Elements(p) == [i \in 1..Length(p) |-> ElementPacker(p, i)]

\* The fields of a packer and where they begin (t_pck_idx_getOffset).
RECURSIVE Fields(_, _)
Fields(p, ofs) ==
    IF Atomic(p) THEN <<[p |-> p, ofs |-> ofs]>>
    ELSE FoldLeft(LAMBDA acc, e : [ofs |-> acc.ofs + SizeOf(e), fs |-> acc.fs \o Fields(e, acc.ofs)],
                  [ofs |-> ofs, fs |-> <<>>], Elements(p)).fs

\* Mutant: the elements of a combinator are all read from its first bit.
RECURSIVE CallReadFirst(_, _, _)
CallReadFirst(m, p, ofs) ==
    IF Atomic(p) THEN [vals |-> <<ReadValue(m, p, ofs)>>, ofs |-> ofs + p.s]
    ELSE [vals |-> FoldLeft(LAMBDA acc, e : acc \o CallReadFirst(m, e, ofs).vals, <<>>, Elements(p)),
          ofs  |-> ofs + SizeOf(p)]

\* t_pck__callread: the values in their order, and the offset behind them.
RECURSIVE CallRead(_, _, _)
CallRead(m, p, ofs) ==
    IF Atomic(p) THEN [vals |-> <<ReadValue(m, p, ofs)>>, ofs |-> ofs + p.s]
    ELSE FoldLeft(LAMBDA acc, e : LET r == CallRead(m, e, acc.ofs)
                                  IN  [vals |-> acc.vals \o r.vals, ofs |-> r.ofs],
                  [vals |-> <<>>, ofs |-> ofs], Elements(p))

\* Pack.size(p), Pack.offset(f): in whole bytes, and in bits.
GetSize(p)   == <<SizeOf(p) \div NB, SizeOf(p)>>
GetOffset(f) == <<f.ofs \div NB, f.ofs>>

\* The check of lt_pck_idx__call: a byte more than there is passes.
LongEnough(p, ofs) == Size * NB + NB >= ofs + SizeOf(p)

(***************************************************************************)
(* What a program does.                                                    *)
(***************************************************************************)

PackInit ==
    /\ mem \in [1..(Size + 1) -> {0, 2^NB - 1}] /\ pck = None /\ defaultEndian = TRUE

SetDefaultEndian(little) ==
    defaultEndian' = little /\ UNCHANGED <<mem, pck>>

Made(p) == pck' = p /\ UNCHANGED <<mem, defaultEndian>>

PackFormat(fmt) == Parses(fmt) /\ Made(FromFormat(fmt))

\* Pack(f, g): each string is parsed for itself.
PackSequence(fmts) ==
    (\A i \in DOMAIN fmts : Parses(fmts[i])) /\ Made(Sequence([i \in DOMAIN fmts |-> FromFormat(fmts[i])]))

\* Pack(p, n)
PackArray(n) == pck # None /\ n > 0 /\ Made(Array(pck, n))

\* Pack({k = f}, ...); t_pck_readArguments refuses a key that is there already.
PackStruct(args) ==
    /\ \A i, j \in DOMAIN args : i # j => args[i].key # args[j].key
    /\ \A i \in DOMAIN args : Parses(args[i].fmt)
    /\ Made(Struct([i \in DOMAIN args |-> args[i].key], [i \in DOMAIN args |-> FromFormat(args[i].fmt)]))

\* A field of a packer, called on the buffer with a value.
Call(f, v) ==
    /\ LongEnough(f.p, f.ofs) /\ Accepts(f.p, v)
    /\ mem' = Written(mem, f.p, f.ofs, v)
    /\ UNCHANGED <<pck, defaultEndian>>

PackNext ==
    \/ \E little \in BOOLEAN : SetDefaultEndian(little)
    \/ \E fmt \in Formats : PackFormat(fmt)
    \/ \E fmts \in FormatLists : PackSequence(fmts)
    \/ \E n \in 2..MaxFields : pck # None /\ Len(Fields(pck, 0)) * n <= MaxFields /\ PackArray(n)
    \/ \E args \in Structs : PackStruct(args)
    \/ pck # None /\ \E i \in DOMAIN Fields(pck, 0) :
           LET f == Fields(pck, 0)[i] IN \E v \in Values(f.p) : Call(f, v)

(***************************************************************************)
(* Properties.                                                             *)
(***************************************************************************)

Inside(f) == f.ofs + f.p.s <= Size * NB
Callable  == IF pck = None THEN {} ELSE {f \in ToSet(Fields(pck, 0)) : Inside(f)}

\* Whether a field can be read back: its bits lie within the bytes of one integer,
\* floats and strings begin at a byte, and floats are little endian, the order in
\* which all are written.
ReadsBack(f) ==
    CASE f.p.t = "Int" -> (f.ofs % NB) + f.p.s <= MXBIT
      [] f.p.t = "Raw" -> f.ofs % NB = 0
      [] f.p.t = "Float" -> f.ofs % NB = 0 /\ (f.p.little \/ f.p.s = NB)
      [] OTHER -> TRUE

\* A value written through a packer is the value read through it, with any size,
\* sign, byte order and position in the bytes, and every bit outside of the field
\* keeps its value (t_pck_setIntValue against t_pck_getIntValue).
WriteIsExact ==
    \A f \in Callable : \A v \in Values(f.p) :
        ReadsBack(f) /\ Accepts(f.p, v) /\ (f.p.t = "Int" => f.p.s < MXBIT) =>
            LET m2 == Written(mem, f.p, f.ofs, v)
            IN  /\ IF f.p.t = "Raw" THEN SubSeq(ReadValue(m2, f.p, f.ofs)[2], 1, Len(v)) = v
                   ELSE ReadValue(m2, f.p, f.ofs) = <<f.p.t, v>>
                /\ \A k \in 0..((Size + 1) * NB - 1) :
                      k \notin f.ofs..(f.ofs + f.p.s - 1) => BitAt(m2, k) = BitAt(mem, k)

\* An integer is taken exactly when the packer's bits can express it ("packed value
\* must fit the value range for the packer size"); packers of MXBIT bits are left
\* out, for which the check itself is undefined.
RangeIsExact ==
    \A f \in Callable : f.p.t = "Int" /\ f.p.s < MXBIT =>
        \A v \in Values(f.p) :
            Fits(f.p, v) <=> IF f.p.signed THEN -Msk(f.p) <= v /\ v < Msk(f.p)
                             ELSE 0 <= v /\ v < 2^f.p.s

\* A combinator reads what its fields read one by one at their offsets, however the
\* combinators are nested and the fields cross the bytes, and ends where its size
\* says; a field that begins at a border is at the byte that its offset says, and the
\* last one ends with the packer (t_pck__callread against t_pck_getSize).
CombinatorsReadFields ==
    pck # None /\ SizeOf(pck) <= Size * NB =>
        LET r == CallRead(mem, pck, 0)
            fs == Fields(pck, 0)
            last == fs[Len(fs)]
        IN  /\ r.ofs = GetSize(pck)[2]
            /\ GetOffset(last)[2] + GetSize(last.p)[2] = GetSize(pck)[2]
            /\ \A i \in DOMAIN fs : fs[i].p.t = "Raw" /\ fs[i].ofs % NB = 0 =>
                  r.vals[i][2] = SubSeq(mem, GetOffset(fs[i])[1] + 1, GetOffset(fs[i])[1] + GetSize(fs[i].p)[1])
            /\ r.vals = [i \in DOMAIN fs |-> ReadValue(mem, fs[i].p, fs[i].ofs)]

\* Packers that share a cached object have the same type, size, sign and byte order.
SharedAreSame ==
    \A f, g \in Callable : FormatKey(f.p) = FormatKey(g.p) => f.p = g.p

\* Packers are exact: what is taken, what is written and what is shared.
PackersExact == RangeIsExact /\ WriteIsExact /\ SharedAreSame
===============================================================================
