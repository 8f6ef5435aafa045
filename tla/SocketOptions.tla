---------------------------- MODULE SocketOptions ----------------------------
(***************************************************************************)
(* The options of a socket as its fields (__index and __newindex of        *)
(* t_net_sck.c, getSocketOption and setSocketOption of p_net_sck_unx.c).   *)
(* An option of the table t_net_sck_options is kept by the kernel as a bit *)
(* of the descriptor's flags, as an int, or as a time of seconds and       *)
(* microseconds.  What a socket was created as is read there too, by the   *)
(* names in the tables of constants (t_net_fml.c, t_net_sck_ptc.c and      *)
(* t_net_sck_typ.c, with the short names that Family.lua, Protocol.lua and *)
(* Type.lua add), of which some numbers have several.                      *)
(***************************************************************************)
EXTENDS Integers, Sequences

CONSTANTS
  OptionNumbers,  \* the numbers that a program assigns
  PerSec     \* milliseconds in a second, and microseconds in a millisecond

ASSUME OptionAssumption == OptionNumbers \subseteq Int /\ PerSec \in Nat \ {0}

VARIABLES
  isA,      \* kernel: the family, the type and the protocol of the socket
  args,     \* history: the arguments that Socket() was called with
  flags,    \* F_GETFL, the access mode left out, and F_GETFD: sets of bits
  value,    \* kernel: the value of each option that setsockopt() sets
  asked     \* history: what was assigned last to each option without an error

optionVars == <<isA, args, flags, value, asked>>

Options == {"nonblock", "closeexec", "keepalive", "recvlow", "recvtimeout"}
Kind == [nonblock |-> "fcntl", closeexec |-> "fcntl", keepalive |-> "bool",
         recvlow |-> "int", recvtimeout |-> "time"]
FlagWord == [nonblock |-> "status", closeexec |-> "descriptor"]
FlagOptions == {o \in Options : Kind[o] = "fcntl"}

\* "append" stands for the other status flags of the descriptor.
OptionsOfNew(f, v) ==
  /\ f \in {[status |-> {}, descriptor |-> {}], [status |-> {"append"}, descriptor |-> {}]}
  /\ v = [o \in Options \ FlagOptions |-> IF Kind[o] = "time" THEN <<0, 0>> ELSE 0]

-----------------------------------------------------------------------------
(***************************************************************************)
(* The tables of constants, in the order of the files, and Socket().       *)
(***************************************************************************)

Named(name, nr) == [name |-> name, nr |-> nr]
FamilyTable == <<Named("AF_UNSPEC", 0), Named("AF_LOCAL", 1), Named("AF_UNIX", 1),
                 Named("AF_FILE", 1), Named("AF_INET", 2), Named("AF_INET6", 10),
                 Named("AF_NETLINK", 16), Named("AF_ROUTE", 16)>>
TypeTable == <<Named("SOCK_STREAM", 1), Named("SOCK_DGRAM", 2), Named("SOCK_RAW", 3)>>
ProtocolTable == <<Named("IPPROTO_HOPOPTS", 0), Named("IPPROTO_TCP", 6), Named("IPPROTO_UDP", 17)>>
Table == [family |-> FamilyTable, type |-> TypeTable, protocol |-> ProtocolTable]

\* table[nr]: each entry sets its name for the number, so the last one stays.
NameOf(table, nr) ==
  LET I == {i \in DOMAIN table : table[i].nr = nr}
  IN  IF I = {} THEN "" ELSE table[CHOOSE i \in I : \A j \in I : j <= i].name

\* An argument is left out, a number, or a name.  A name may be short (INET, Inet, inet),
\* which is the same entry, or one of the further names for AF_INET and AF_INET6.
Arguments(table) ==
  {[form |-> "none"]} \cup {[form |-> "number", nr |-> table[i].nr] : i \in DOMAIN table}
                      \cup {[form |-> "name", entry |-> i] : i \in DOMAIN table}
NumberOf(table, arg, default) ==
  IF arg.form = "none" THEN default ELSE IF arg.form = "number" THEN arg.nr ELSE table[arg.entry].nr

\* The numbers that the arguments stand for.  Without a type, that of the protocol.
TypeFor(protocol) == IF protocol = 6 THEN 1 ELSE IF protocol = 17 THEN 2 ELSE 3
Meant(a) ==
  LET nr == NumberOf(ProtocolTable, a.protocol, 6)
  IN  [protocol |-> nr, family |-> NumberOf(FamilyTable, a.family, 2),
       type |-> NumberOf(TypeTable, a.type, TypeFor(nr))]

\* lt_net_sck_New() passes 0 for AF_UNIX, so that no socket of it is made.
ToKernel(k) == [k EXCEPT !.family = IF @ = 1 THEN 0 ELSE @]

\* socket(): a stream or datagram socket takes its own protocol or 0, which stands for it, a
\* raw one any but 0, and netlink has no streams.
SocketTakes(k) ==
  \/ k.family \in {2, 10} /\ k.type = 1 /\ k.protocol \in {0, 6}
  \/ k.family \in {2, 10} /\ k.type = 2 /\ k.protocol \in {0, 17}
  \/ k.family \in {2, 10} /\ k.type = 3 /\ k.protocol # 0
  \/ k.family = 1 /\ k.protocol = 0
  \/ k.family = 16 /\ k.type # 1 /\ k.protocol = 0
SocketKeeps(k) ==
  [k EXCEPT !.protocol = IF @ = 0 /\ k.family \in {2, 10} THEN (IF k.type = 1 THEN 6 ELSE 17) ELSE @]

\* When socket() refuses, no socket is made and a message is returned in its place.  Bound:
\* until an option is assigned, as a new socket has nothing of the one before.
Create(a) ==
  /\ DOMAIN asked = {} /\ SocketTakes(ToKernel(Meant(a)))
  /\ isA' = SocketKeeps(ToKernel(Meant(a))) /\ args' = a
  /\ OptionsOfNew(flags', value') /\ asked' = [o \in {} |-> 0]

\* Socket()
OptionInit ==
  /\ args = [family |-> [form |-> "none"], type |-> [form |-> "none"], protocol |-> [form |-> "none"]]
  /\ isA = Meant(args) /\ OptionsOfNew(flags, value) /\ asked = [o \in {} |-> 0]

-----------------------------------------------------------------------------
(***************************************************************************)
(* The options.                                                            *)
(***************************************************************************)

Cut(n, d) == IF n >= 0 THEN n \div d ELSE -((-n) \div d)   \* C's / and %
Rest(n, d) == n - d * Cut(n, d)

\* What the kernel takes: microseconds are not negative, and numbers that it adjusts are
\* left out.  A negative time is none.
Accepts(o, v) == IF Kind[o] = "time" THEN Rest(v, PerSec) >= 0 ELSE Kind[o] = "int" => v > 0
KernelKeeps(o, v) == IF Kind[o] = "time" /\ v[1] < 0 THEN <<0, 0>> ELSE v

\* Mutant: the milliseconds are not made microseconds.
AsTimeUnscaled(v) == <<Cut(v, PerSec), Rest(v, PerSec)>>
AsTime(v) == <<Cut(v, PerSec), Rest(v, PerSec) * PerSec>>
Encoded(o, v) ==
  IF Kind[o] = "time" THEN AsTime(v) ELSE IF Kind[o] = "bool" THEN (IF v THEN 1 ELSE 0) ELSE v

\* sck[o].  The three that only read give a name.
Get(o) ==
  IF o \in DOMAIN isA THEN NameOf(Table[o], isA[o])
  ELSE IF Kind[o] = "fcntl" THEN o \in flags[FlagWord[o]]
  ELSE IF Kind[o] = "bool" THEN value[o] # 0
  ELSE IF Kind[o] = "time" THEN value[o][1] * PerSec + Cut(value[o][2], PerSec) ELSE value[o]

\* sck[o] = v: a flag that is false is taken from the flags with "ival &= opt->option",
\* which keeps it and drops the others; and a word of 0 is taken for an error, so that
\* closeexec cannot be set.
SetFlag(o, v) ==
  LET w == FlagWord[o]
  IN  /\ w = "descriptor" => flags[w] # {}
      /\ flags' = [flags EXCEPT ![w] = IF v THEN @ \cup {o} ELSE @ \cap {o}]
      /\ asked' = [p \in DOMAIN asked \cup {o} |-> IF p = o THEN v ELSE asked[p]]
      /\ UNCHANGED <<value, isA, args>>

SetValue(o, v) ==
  /\ Accepts(o, v)
  /\ value' = [value EXCEPT ![o] = KernelKeeps(o, Encoded(o, v))]
  /\ asked' = [p \in DOMAIN asked \cup {o} |-> IF p = o THEN v ELSE asked[p]]
  /\ UNCHANGED <<flags, isA, args>>

Assignable(o) == IF Kind[o] \in {"fcntl", "bool"} THEN BOOLEAN ELSE OptionNumbers

OptionNext ==
  \/ \E f \in Arguments(FamilyTable), t \in Arguments(TypeTable), p \in Arguments(ProtocolTable) :
       Create([family |-> f, type |-> t, protocol |-> p])
  \/ \E o \in FlagOptions, v \in BOOLEAN : SetFlag(o, v)
  \/ \E o \in Options \ FlagOptions : \E v \in Assignable(o) : SetValue(o, v)

OptionSpec == OptionInit /\ [][OptionNext]_optionVars

(***************************************************************************)
(* Properties.                                                             *)
(***************************************************************************)

\* An option reads as what was assigned to it last, whatever was assigned to others since.
\* The exceptions are false for a flag, since nonblock stays set (p_net_sck_unx.c:367),
\* and a negative time.
ValuesReadBack ==
  \A o \in DOMAIN asked :
    Get(o) = asked[o] \/ (IF Kind[o] = "time" THEN asked[o] < 0 ELSE o \in FlagOptions /\ ~asked[o])

\* A socket reads as a name of the very family, type and protocol that its creator asked
\* for, in whatever form; protocol 0 leaves the choice to the kernel.
ReadsAsCreated ==
  \A o \in DOMAIN isA : \E i \in DOMAIN Table[o] :
    /\ Table[o][i].name = Get(o)
    /\ Meant(args)[o] = Table[o][i].nr \/ (o = "protocol" /\ Meant(args)[o] = 0)

OptionsReadBack == ValuesReadBack /\ ReadsAsCreated
===============================================================================
