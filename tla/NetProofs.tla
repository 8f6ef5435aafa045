------------------------------- MODULE NetProofs -------------------------------
(***************************************************************************)
(* Proofs about the parts of t.Net that do not depend on the loop: an      *)
(* address keeps what it was set to, whatever bytes of other families are  *)
(* in its storage; a socket reads as what it was created as and its        *)
(* options as what was assigned; the tables of interfaces tell all that    *)
(* the machine's chain of entries holds; and a select() over tables of     *)
(* sockets tells all that are ready.                                       *)
(***************************************************************************)
EXTENDS Address, SocketOptions, Interfaces, NetSelect, FiniteSetTheorems, WellFoundedInduction,
  TLAPS

(***************************************************************************)
(* Address.  The invariant does not ask for the family of the address: the *)
(* port and the IP survive a time in which it is that of no IP address.    *)
(***************************************************************************)
AdrFields == {"family", "port", "low", "h1", "h2"}
IsAdr(a) == DOMAIN a = AdrFields /\ a.family \in Families

AddressInv ==
  /\ IsAdr(adr)
  /\ said \in [ip : IPs \cup {Other}, port : Nat \cup {Other}]
  /\ said.ip # Other => IpOf(adr) = said.ip
  /\ said.port # Other => adr.port = said.port

LEMMA IPsAre == \A ip \in IPs : \/ Len(ip) = 1 /\ ip = <<ip[1]>> /\ ip[1] \in Words
                                \/ Len(ip) = 2 /\ ip = <<ip[1], ip[2]>> /\ ip[1] \in Words /\ ip[2] \in Words
BY DEF IPs

\* Setting the IP leaves the port alone, and what it sets is what is read.
LEMMA WithIpSets ==
  ASSUME NEW a, IsAdr(a), NEW ip \in IPs
  PROVE  /\ IsAdr(WithIp(a, ip)) /\ IsIp(WithIp(a, ip))
         /\ IpOf(WithIp(a, ip)) = ip
         /\ WithIp(a, ip).port = a.port
<1>1. CASE Len(ip) = 1
  <2>1. ip = <<ip[1]>>
    BY <1>1, IPsAre
  <2>2. WithIp(a, ip) = Overlay(a, [family |-> "inet", low |-> ip[1]])
    BY <1>1 DEF WithIp
  <2>3. QED
    BY <2>1, <2>2 DEF Overlay, IsAdr, AdrFields, Families, IsIp, IpOf
<1>2. CASE Len(ip) = 2
  <2>1. ip = <<ip[1], ip[2]>>
    BY <1>2, IPsAre
  <2>2. WithIp(a, ip) = Overlay(a, [family |-> "inet6", h1 |-> ip[1], h2 |-> ip[2]])
    BY <1>2 DEF WithIp
  <2>3. QED
    BY <2>1, <2>2 DEF Overlay, IsAdr, AdrFields, Families, IsIp, IpOf
<1>3. QED
  BY <1>1, <1>2, IPsAre

\* Setting the port leaves the family and the IP alone.
LEMMA WithPortSets ==
  ASSUME NEW a, IsAdr(a), NEW port \in Nat
  PROVE  /\ IsAdr(WithPort(a, port)) /\ IpOf(WithPort(a, port)) = IpOf(a)
         /\ WithPort(a, port).family = a.family
         /\ WithPort(a, port).port = IF IsIp(a) THEN port % PortEnd ELSE a.port
BY DEF WithPort, IsAdr, AdrFields, IpOf, IsIp

LEMMA PortsAre == \A port \in Nat : port % PortEnd \in Nat
BY AddressAssumption

LEMMA ZeroIs == IsAdr(Zero) /\ IsIp(Zero) /\ IpOf(Zero) = <<0>> /\ Zero.port = 0 /\ <<0>> \in IPs
BY AddressAssumption DEF Zero, IsAdr, AdrFields, Families, IsIp, IpOf, IPs

LEMMA SockaddrIs ==
  ASSUME NEW ip \in IPs, NEW port \in Nat
  PROVE  /\ IsAdr(Sockaddr(ip, port)) /\ IsIp(Sockaddr(ip, port))
         /\ IpOf(Sockaddr(ip, port)) = ip
         /\ Sockaddr(ip, port).port = port % PortEnd
<1> DEFINE a == WithIp(Zero, ip)
<1>1. IsAdr(a) /\ IsIp(a) /\ IpOf(a) = ip
  BY ZeroIs, WithIpSets
<1>2. Sockaddr(ip, port) = WithPort(a, port)
  BY DEF Sockaddr
<1> HIDE DEF a
<1>3. QED
  BY <1>1, <1>2, WithPortSets DEF IsIp

\* The three ways to leave the invariant intact.
LEMMA NewAddress ==
  ASSUME NEW ip \in IPs, NEW port \in Nat, adr' = Sockaddr(ip, port),
         said' = [ip |-> ip, port |-> port % PortEnd]
  PROVE  AddressInv'
BY SockaddrIs, PortsAre DEF AddressInv

LEMMA CopyInv == AddressInv /\ CopyAddress => AddressInv'
<1> SUFFICES ASSUME AddressInv, CopyAddress PROVE AddressInv'
  OBVIOUS
<1> USE DEF AddressInv
<1>1. PICK ip \in IPs :
        /\ Len(ip) = Len(IpOf(adr)) /\ \A i \in DOMAIN ip : IpOf(adr)[i] \in {ip[i], Other}
        /\ adr' = Overlay(WithIp(Zero, ip), [port |-> adr.port])
        /\ UNCHANGED said
  BY DEF CopyAddress
<1> DEFINE a == WithIp(Zero, ip)
<1>2. IsAdr(a) /\ IsIp(a) /\ IpOf(a) = ip
  BY ZeroIs, WithIpSets
<1> HIDE DEF a
<1>3. IsAdr(adr') /\ IpOf(adr') = ip /\ adr'.port = adr.port
  BY <1>1, <1>2 DEF Overlay, IsAdr, AdrFields, IpOf, a
<1>4. said.ip # Other => ip = said.ip
  <2> SUFFICES ASSUME said.ip # Other PROVE ip = said.ip
    OBVIOUS
  <2>1. said.ip \in IPs /\ IpOf(adr) = said.ip
    OBVIOUS
  <2>2. \A w \in Words : w # Other
    BY AddressAssumption
  <2>3. QED
    BY <2>1, <2>2, <1>1, IPsAre
<1>5. QED
  BY <1>1, <1>3, <1>4

LEMMA FillInv ==
  ASSUME AddressInv, NEW ip \in IPs, NEW port \in Nat, Fill(ip, port)
  PROVE  AddressInv'
<1> USE DEF AddressInv
<1> DEFINE room == Capacity(adr) \cap Answer(ip)
           full == Sockaddr(ip, port)
<1>1. IsAdr(full) /\ IsIp(full) /\ IpOf(full) = ip /\ full.port = port % PortEnd
  BY SockaddrIs
<1>2. /\ adr' = Overlay(adr, [x \in room |-> full[x]])
      /\ said' = [ip |-> IF Answer(ip) \subseteq room THEN ip ELSE Other, port |-> port % PortEnd]
  BY DEF Fill
<1>3. "family" \in room /\ "port" \in room /\ "low" \in room /\ "h1" \in room
  BY DEF Capacity, Answer
<1> HIDE DEF room, full
<1>4. IsAdr(adr') /\ adr'.family = full.family /\ adr'.port = full.port
      /\ adr'.low = full.low /\ adr'.h1 = full.h1 /\ ("h2" \in room => adr'.h2 = full.h2)
  BY <1>1, <1>2, <1>3 DEF Overlay, IsAdr, AdrFields
<1>5. Answer(ip) \subseteq room => IpOf(adr') = ip
  <2>1. Len(ip) = 2 => "h2" \in Answer(ip)
    BY DEF Answer
  <2>2. full.family = "inet6" => Len(ip) = 2
    BY <1>1, IPsAre DEF IpOf
  <2>3. QED
    BY <2>1, <2>2, <1>1, <1>4 DEF IpOf
<1>6. QED
  BY <1>1, <1>2, <1>4, <1>5, PortsAre

LEMMA ListenInv ==
  ASSUME AddressInv, NEW ip \in IPs, NEW port \in Nat, ListenAt(ip, port)
  PROVE  AddressInv'
<1>1. CASE adr' = Zero /\ said' = [ip |-> <<0>>, port |-> 0]
  BY <1>1, ZeroIs DEF AddressInv
<1>2. CASE adr' = Sockaddr(ip, port) /\ said' = [ip |-> ip, port |-> port % PortEnd]
  BY <1>2, NewAddress
<1>3. CASE adr' = Sockaddr(ip, 0) /\ said' = [ip |-> ip, port |-> 0 % PortEnd]
  BY <1>3, NewAddress
<1>4. CASE adr' = Sockaddr(<<0>>, port) /\ said' = [ip |-> <<0>>, port |-> port % PortEnd]
  BY <1>4, NewAddress, ZeroIs
<1>5. CASE UNCHANGED addressVars
  BY <1>5 DEF addressVars, AddressInv
<1>6. 0 % PortEnd = 0
  BY AddressAssumption
<1>7. QED
  BY <1>1, <1>2, <1>3, <1>4, <1>5, <1>6
  DEF ListenAt, Takes, Keeps, ListenAddress, NoArg, NumArg, HostArg, AdrArg, addressVars

LEMMA BindInv ==
  ASSUME AddressInv, NEW ip \in IPs, NEW port \in Nat, BindAt(ip, port)
  PROVE  AddressInv'
<1>1. CASE adr' = Zero /\ said' \in {[ip |-> <<0>>, port |-> 0], [ip |-> Other, port |-> 0]}
  BY <1>1, ZeroIs DEF AddressInv
<1>2. CASE adr' = Sockaddr(ip, port) /\ said' = [ip |-> ip, port |-> port % PortEnd]
  BY <1>2, NewAddress
<1>3. CASE adr' = Sockaddr(<<0>>, port) /\ said' = [ip |-> <<0>>, port |-> port % PortEnd]
  BY <1>3, NewAddress, ZeroIs
<1>4. CASE UNCHANGED addressVars
  BY <1>4 DEF addressVars, AddressInv
<1>5. 0 % PortEnd = 0
  BY AddressAssumption
<1>6. QED
  BY <1>1, <1>2, <1>3, <1>4, <1>5
  DEF BindAt, Takes, Keeps, BindAddress, NoArg, NumArg, HostArg, AdrArg, addressVars

LEMMA AddressNextInv == AddressInv /\ [AddressNext]_addressVars => AddressInv'
<1> SUFFICES ASSUME AddressInv, [AddressNext]_addressVars PROVE AddressInv'
  OBVIOUS
<1>1. CASE CopyAddress
  BY <1>1, CopyInv
<1>2. ASSUME NEW ip \in IPs, NEW port \in {0, 1, PortEnd},
             Construct(ip, port) \/ ListenAt(ip, port) \/ BindAt(ip, port)
      PROVE  AddressInv'
  BY <1>2, AddressAssumption, NewAddress, ListenInv, BindInv DEF Construct
<1>3. ASSUME NEW ip \in IPs, SetIp(ip) PROVE AddressInv'
  BY <1>3, WithIpSets DEF SetIp, AddressInv
<1>4. ASSUME NEW n \in 1..4, SetPath(n) PROVE AddressInv'
  <2>1. \A i \in 1..n : Layout[i] \in {"port", "low", "h1", "h2"}
    BY DEF Layout
  <2>2. \A f \in {Layout[i] : i \in 1..n} : f # "family"
    BY <2>1
  <2>3. IsAdr(WithPath(adr, n))
    BY <2>2 DEF WithPath, Overlay, AddressInv, IsAdr, AdrFields, Families
  <2>4. QED
    BY <1>4, <2>3 DEF SetPath, AddressInv
<1>5. ASSUME NEW port \in {0, 1, PortEnd}, SetPort(port) PROVE AddressInv'
  <2>1. port \in Nat /\ port % PortEnd \in Nat
    BY AddressAssumption, PortsAre
  <2>2. /\ IsAdr(adr') /\ IpOf(adr') = IpOf(adr)
        /\ adr'.port = IF IsIp(adr) THEN port % PortEnd ELSE adr.port
    BY <1>5, <2>1, WithPortSets DEF SetPort, AddressInv
  <2>3. said' = IF IsIp(adr) THEN [said EXCEPT !.port = port % PortEnd] ELSE said
    BY <1>5 DEF SetPort
  <2>4. QED
    BY <2>1, <2>2, <2>3 DEF AddressInv
<1>6. ASSUME NEW f \in Families, SetFamily(f) PROVE AddressInv'
  BY <1>6 DEF SetFamily, AddressInv, IsAdr, AdrFields, IpOf
<1>7. ASSUME NEW ip \in IPs, NEW port \in {0, 1}, Fill(ip, port) PROVE AddressInv'
  BY <1>7, FillInv
<1>8. CASE UNCHANGED addressVars
  BY <1>8 DEF addressVars, AddressInv
<1>9. QED
  BY <1>1, <1>2, <1>3, <1>4, <1>5, <1>6, <1>7, <1>8 DEF AddressNext

LEMMA AddressInvKeeps == AddressInv => AddressKeeps
<1> SUFFICES ASSUME AddressInv, IsIp(adr), Other \notin {said.ip, said.port},
                    NEW ip \in IPs, NEW port \in {0, 1}
             PROVE  Equal(adr, Sockaddr(ip, port)) <=> said = [ip |-> ip, port |-> port]
  BY DEF AddressKeeps, AddressInv
<1>1. IpOf(adr) = said.ip /\ adr.port = said.port /\ said = [ip |-> said.ip, port |-> said.port]
  BY DEF AddressInv
<1>2. IpOf(Sockaddr(ip, port)) = ip /\ IsIp(Sockaddr(ip, port))
  BY SockaddrIs
<1>3. Sockaddr(ip, port).port = port
  BY SockaddrIs, AddressAssumption
<1>4. \A a, b : IsIp(a) /\ IsIp(b) /\ IpOf(a) = IpOf(b) => a.family = b.family
  BY DEF IsIp, IpOf
<1>5. QED
  BY <1>1, <1>2, <1>3, <1>4 DEF Equal

\* t_net_adr.c: an address reads as the IP and the port it was set to last, each on its
\* own, and is equal to those and only those of the same IP and port.
THEOREM AddressesKeep == AddressSpec => []AddressKeeps
<1>1. AddressInit => AddressInv
  BY ZeroIs DEF AddressInit, AddressInv
<1>2. QED
  BY <1>1, AddressNextInv, AddressInvKeeps, PTL DEF AddressSpec

(***************************************************************************)
(* SocketOptions.  The kernel keeps what it was given for the socket that  *)
(* was asked for last, and the value of each option is of its kind.        *)
(***************************************************************************)
ArgumentsFit ==
  /\ args.family \in Arguments(FamilyTable)
  /\ args.type \in Arguments(TypeTable)
  /\ args.protocol \in Arguments(ProtocolTable)

CreatedInv ==
  /\ ArgumentsFit
  /\ SocketTakes(ToKernel(Meant(args)))
  /\ isA = SocketKeeps(ToKernel(Meant(args)))

AskedFits ==
  /\ DOMAIN asked \subseteq Options
  /\ \A o \in DOMAIN asked : asked[o] \in Assignable(o)

KernelFits == DOMAIN flags = {"status", "descriptor"} /\ DOMAIN value = Options \ FlagOptions

OptionInv == CreatedInv /\ AskedFits /\ KernelFits /\ ValuesReadBack

LEMMA FlagOptionsAre == FlagOptions = {"nonblock", "closeexec"}
BY DEF FlagOptions, Options, Kind

\* Of the numbers up to 8 in a set one is the largest.
LEMMA LargestUpTo8 ==
  ASSUME NEW I, I \subseteq 1..8, I # {}
  PROVE  \E i \in I : \A j \in I : j <= i
<1> DEFINE top == IF 8 \in I THEN 8 ELSE IF 7 \in I THEN 7 ELSE IF 6 \in I THEN 6 ELSE IF 5 \in I THEN 5
                  ELSE IF 4 \in I THEN 4 ELSE IF 3 \in I THEN 3 ELSE IF 2 \in I THEN 2 ELSE 1
<1>1. \A j \in I : j \in {1, 2, 3, 4, 5, 6, 7, 8}
  OBVIOUS
<1>2. top \in I
  BY <1>1
<1>3. \A j \in I : j <= top
  BY <1>1
<1>4. QED
  BY <1>2, <1>3

\* What a number reads as is the name of an entry with that number.
LEMMA NameOfEntry ==
  ASSUME NEW table, DOMAIN table \subseteq 1..8, NEW i \in DOMAIN table, NEW nr, table[i].nr = nr
  PROVE  \E k \in DOMAIN table : table[k].nr = nr /\ table[k].name = NameOf(table, nr)
<1> DEFINE I == {k \in DOMAIN table : table[k].nr = nr}
<1>1. I \subseteq 1..8 /\ i \in I
  OBVIOUS
<1>2. \E k \in I : \A j \in I : j <= k
  BY <1>1, LargestUpTo8
<1> DEFINE last == CHOOSE k \in I : \A j \in I : j <= k
<1>3. last \in I
  BY <1>2
<1>4. NameOf(table, nr) = table[last].name
  BY <1>1 DEF NameOf
<1>5. QED
  BY <1>3, <1>4

LEMMA TablesAre ==
  /\ DOMAIN FamilyTable = 1..8 /\ DOMAIN TypeTable = 1..3 /\ DOMAIN ProtocolTable = 1..3
  /\ FamilyTable[5].nr = 2 /\ FamilyTable[6].nr = 10 /\ FamilyTable[7].nr = 16
  /\ TypeTable[1].nr = 1 /\ TypeTable[2].nr = 2 /\ TypeTable[3].nr = 3
  /\ ProtocolTable[1].nr = 0 /\ ProtocolTable[2].nr = 6 /\ ProtocolTable[3].nr = 17
  /\ \A i \in 1..3 : TypeTable[i].nr \in {1, 2, 3}
  /\ \A i \in 1..3 : ProtocolTable[i].nr \in {0, 6, 17}
BY DEF FamilyTable, TypeTable, ProtocolTable, Named

\* The type and the protocol that are meant are among those of the tables.
LEMMA MeantAre ==
  ASSUME ArgumentsFit
  PROVE  /\ Meant(args).type \in {1, 2, 3}
         /\ Meant(args).protocol \in {0, 6, 17}
         /\ Meant(args) = [protocol |-> Meant(args).protocol, family |-> Meant(args).family,
                           type |-> Meant(args).type]
<1>1. NumberOf(ProtocolTable, args.protocol, 6) \in {0, 6, 17}
  BY TablesAre DEF ArgumentsFit, Arguments, NumberOf
<1>2. \A d \in {1, 2, 3} : NumberOf(TypeTable, args.type, d) \in {1, 2, 3}
  BY TablesAre DEF ArgumentsFit, Arguments, NumberOf
<1>3. \A p : TypeFor(p) \in {1, 2, 3}
  BY DEF TypeFor
<1>4. QED
  BY <1>1, <1>2, <1>3 DEF Meant

LEMMA CreatedReads == CreatedInv => ReadsAsCreated
<1> SUFFICES ASSUME CreatedInv PROVE ReadsAsCreated
  OBVIOUS
<1> DEFINE m == Meant(args)
<1>1. /\ m.type \in {1, 2, 3} /\ m.protocol \in {0, 6, 17}
      /\ m = [protocol |-> m.protocol, family |-> m.family, type |-> m.type]
  BY MeantAre DEF CreatedInv
<1>2. SocketTakes(ToKernel(m)) /\ isA = SocketKeeps(ToKernel(m))
  BY DEF CreatedInv
<1> HIDE DEF m
<1>3. /\ DOMAIN isA = {"family", "type", "protocol"}
      /\ isA.family = m.family /\ m.family \in {2, 10, 16}
      /\ isA.type = m.type
      /\ isA.protocol \in {0, 6, 17} /\ (isA.protocol = m.protocol \/ m.protocol = 0)
  BY <1>1, <1>2 DEF SocketTakes, SocketKeeps, ToKernel
<1>4. \A o \in DOMAIN isA : Get(o) = NameOf(Table[o], isA[o])
  BY DEF Get
<1>5. \E i \in DOMAIN FamilyTable : FamilyTable[i].nr = isA.family /\ FamilyTable[i].name = NameOf(FamilyTable, isA.family)
  <2>1. \E i \in DOMAIN FamilyTable : FamilyTable[i].nr = isA.family
    BY <1>3, TablesAre
  <2>2. DOMAIN FamilyTable \subseteq 1..8
    BY TablesAre
  <2>3. QED
    BY <2>1, <2>2, NameOfEntry
<1>6. \E i \in DOMAIN TypeTable : TypeTable[i].nr = isA.type /\ TypeTable[i].name = NameOf(TypeTable, isA.type)
  <2>1. \E i \in DOMAIN TypeTable : TypeTable[i].nr = isA.type
    BY <1>1, <1>3, TablesAre
  <2>2. DOMAIN TypeTable \subseteq 1..8
    BY TablesAre
  <2>3. QED
    BY <2>1, <2>2, NameOfEntry
<1>7. \E i \in DOMAIN ProtocolTable : ProtocolTable[i].nr = isA.protocol
                                      /\ ProtocolTable[i].name = NameOf(ProtocolTable, isA.protocol)
  <2>1. \E i \in DOMAIN ProtocolTable : ProtocolTable[i].nr = isA.protocol
    BY <1>3, TablesAre
  <2>2. DOMAIN ProtocolTable \subseteq 1..8
    BY TablesAre
  <2>3. QED
    BY <2>1, <2>2, NameOfEntry
<1>8. Table.family = FamilyTable /\ Table.type = TypeTable /\ Table.protocol = ProtocolTable
  BY DEF Table
<1>9. QED
  BY <1>3, <1>4, <1>5, <1>6, <1>7, <1>8 DEF ReadsAsCreated, m

\* A time of milliseconds is put together again from its two parts.
LEMMA TimeReads ==
  ASSUME NEW v \in Int, Rest(v, PerSec) >= 0
  PROVE  Cut(v, PerSec) * PerSec + Cut(Rest(v, PerSec) * PerSec, PerSec) = v
<1> DEFINE r == Rest(v, PerSec)
           q == Cut(v, PerSec)
<1>1. PerSec \in Int /\ PerSec > 0
  BY OptionAssumption
<1>2. q \in Int
  BY <1>1 DEF Cut
<1>3. r = v - PerSec * q /\ r >= 0
  BY DEF Rest
<1> HIDE DEF q, r
<1>4. r \in Int /\ r * PerSec \in Int /\ r * PerSec >= 0
  BY <1>1, <1>2, <1>3
<1>5. (r * PerSec) \div PerSec = r
  BY <1>1, <1>4
<1>6. Cut(r * PerSec, PerSec) = r
  BY <1>4, <1>5 DEF Cut
<1>7. q * PerSec = PerSec * q
  BY <1>1, <1>2
<1>8. QED
  BY <1>1, <1>2, <1>3, <1>6, <1>7 DEF q, r

LEMMA CreateInv ==
  ASSUME NEW f \in Arguments(FamilyTable), NEW t \in Arguments(TypeTable), NEW p \in Arguments(ProtocolTable),
         Create([family |-> f, type |-> t, protocol |-> p])
  PROVE  OptionInv'
<1>1. CreatedInv'
  BY DEF Create, CreatedInv, ArgumentsFit
<1>2. (AskedFits /\ KernelFits /\ ValuesReadBack)'
  BY DEF Create, OptionsOfNew, AskedFits, KernelFits, ValuesReadBack
<1>3. QED
  BY <1>1, <1>2 DEF OptionInv

LEMMA SetFlagInv ==
  ASSUME OptionInv, NEW o \in FlagOptions, NEW v \in BOOLEAN, SetFlag(o, v)
  PROVE  OptionInv'
<1> USE DEF OptionInv
<1>1. CreatedInv'
  BY DEF SetFlag, CreatedInv, ArgumentsFit
<1>2. /\ asked' = [p \in DOMAIN asked \cup {o} |-> IF p = o THEN v ELSE asked[p]]
      /\ flags' = [flags EXCEPT ![FlagWord[o]] = IF v THEN @ \cup {o} ELSE @ \cap {o}]
      /\ UNCHANGED <<value, isA, args>>
  BY DEF SetFlag
<1>3. Kind[o] = "fcntl" /\ o \in Options
  BY DEF FlagOptions
<1>4. AskedFits' /\ KernelFits'
  BY <1>2, <1>3 DEF AskedFits, KernelFits, Assignable
<1>5. ValuesReadBack'
  <2> SUFFICES ASSUME NEW p \in DOMAIN asked'
               PROVE (\/ Get(p) = asked[p]
                      \/ IF Kind[p] = "time" THEN asked[p] < 0 ELSE p \in FlagOptions /\ ~asked[p])'
    BY DEF ValuesReadBack
  <2>1. DOMAIN isA = {"family", "type", "protocol"}
    BY MeantAre DEF CreatedInv, SocketKeeps, ToKernel
  <2>2. CASE p = o
    <3>1. CASE v
      <4>1. o \in flags'[FlagWord[o]]
        BY <1>2, <3>1, FlagOptionsAre DEF KernelFits, FlagWord
      <4>2. Get(o)' = TRUE
        BY <4>1, <1>2, <1>3, <2>1, FlagOptionsAre DEF Get
      <4>3. QED
        BY <2>2, <3>1, <4>2, <1>2
    <3>2. CASE ~v
      BY <2>2, <3>2, <1>2, <1>3
    <3>3. QED
      BY <3>1, <3>2
  <2>3. CASE p # o
    <3>1. p \in DOMAIN asked /\ asked'[p] = asked[p] /\ p \in Options
      BY <1>2, <2>3 DEF AskedFits
    <3>2. Get(p)' = Get(p)
      <4>1. CASE p \in FlagOptions
        <5>1. FlagWord[p] # FlagWord[o] /\ FlagWord[p] \in {"status", "descriptor"}
          BY <4>1, <2>3, FlagOptionsAre DEF FlagWord
        <5>2. flags'[FlagWord[p]] = flags[FlagWord[p]]
          BY <5>1, <1>2 DEF KernelFits
        <5>3. QED
          BY <5>2, <1>2, <4>1 DEF Get, FlagOptions
      <4>2. CASE p \notin FlagOptions
        BY <4>2, <3>1, <1>2 DEF Get, FlagOptions
      <4>3. QED
        BY <4>1, <4>2
    <3>3. QED
      BY <3>1, <3>2 DEF ValuesReadBack
  <2>4. QED
    BY <2>2, <2>3
<1>6. QED
  BY <1>1, <1>4, <1>5

LEMMA SetValueInv ==
  ASSUME OptionInv, NEW o \in Options \ FlagOptions, NEW v \in Assignable(o), SetValue(o, v)
  PROVE  OptionInv'
<1> USE DEF OptionInv
<1>1. CreatedInv'
  BY DEF SetValue, CreatedInv, ArgumentsFit
<1>2. /\ asked' = [p \in DOMAIN asked \cup {o} |-> IF p = o THEN v ELSE asked[p]]
      /\ value' = [value EXCEPT ![o] = KernelKeeps(o, Encoded(o, v))]
      /\ UNCHANGED <<flags, isA, args>>
      /\ Accepts(o, v)
  BY DEF SetValue
<1>3. AskedFits' /\ KernelFits'
  BY <1>2 DEF AskedFits, KernelFits, Assignable
<1>4. ValuesReadBack'
  <2> SUFFICES ASSUME NEW p \in DOMAIN asked'
               PROVE (\/ Get(p) = asked[p]
                      \/ IF Kind[p] = "time" THEN asked[p] < 0 ELSE p \in FlagOptions /\ ~asked[p])'
    BY DEF ValuesReadBack
  <2>1. DOMAIN isA = {"family", "type", "protocol"}
    BY MeantAre DEF CreatedInv, SocketKeeps, ToKernel
  <2>2. CASE p = o
    <3>1. value'[o] = KernelKeeps(o, Encoded(o, v)) /\ asked'[o] = v
      BY <1>2 DEF KernelFits
    <3>2. o \notin DOMAIN isA /\ Kind[o] # "fcntl"
      BY <2>1 DEF Options, FlagOptions
    <3>3. CASE Kind[o] = "bool"
      <4>1. v \in BOOLEAN
        BY <3>3 DEF Assignable
      <4>2. value'[o] = IF v THEN 1 ELSE 0
        BY <3>1, <3>3 DEF KernelKeeps, Encoded
      <4>3. Get(o)' = (value'[o] # 0)
        BY <3>2, <3>3, <1>2 DEF Get
      <4>4. Get(o)' = v
        BY <4>1, <4>2, <4>3
      <4>5. QED
        BY <4>4, <3>1, <2>2
    <3>4. CASE Kind[o] = "int"
      BY <3>1, <3>2, <3>4, <2>2, <1>2 DEF Get, KernelKeeps, Encoded
    <3>5. CASE Kind[o] = "time"
      <4>1. v \in Int /\ Rest(v, PerSec) >= 0
        BY <3>5, <1>2, OptionAssumption DEF Assignable, Accepts
      <4>2. CASE Cut(v, PerSec) < 0
        <5>1. v < 0
          BY <4>1, <4>2, OptionAssumption DEF Cut
        <5>2. QED
          BY <5>1, <3>5, <2>2, <3>1
      <4>3. CASE ~(Cut(v, PerSec) < 0)
        <5>1. value'[o] = <<Cut(v, PerSec), Rest(v, PerSec) * PerSec>>
          BY <4>3, <3>1, <3>5 DEF KernelKeeps, Encoded, AsTime
        <5>2. Get(o)' = value'[o][1] * PerSec + Cut(value'[o][2], PerSec)
          BY <3>2, <3>5, <1>2 DEF Get
        <5>3. Get(o)' = v
          BY <5>1, <5>2, <4>1, TimeReads
        <5>4. QED
          BY <5>3, <3>1, <2>2
      <4>4. QED
        BY <4>2, <4>3
    <3>6. QED
      BY <3>3, <3>4, <3>5, <3>2 DEF Kind, Options
  <2>3. CASE p # o
    <3>1. p \in DOMAIN asked /\ asked'[p] = asked[p] /\ p \in Options
      BY <1>2, <2>3 DEF AskedFits
    <3>2. value'[p] = value[p]
      BY <1>2, <2>3
    <3>3. Get(p)' = Get(p)
      BY <1>2, <3>2 DEF Get
    <3>4. QED
      BY <3>1, <3>3 DEF ValuesReadBack
  <2>4. QED
    BY <2>2, <2>3
<1>5. QED
  BY <1>1, <1>3, <1>4

LEMMA OptionInitInv == OptionInit => OptionInv
<1> SUFFICES ASSUME OptionInit PROVE OptionInv
  OBVIOUS
<1>1. args = [family |-> [form |-> "none"], type |-> [form |-> "none"], protocol |-> [form |-> "none"]]
      /\ isA = Meant(args)
  BY DEF OptionInit
<1>2. Meant(args) = [protocol |-> 6, family |-> 2, type |-> 1]
  BY <1>1 DEF Meant, NumberOf, TypeFor
<1>3. ArgumentsFit
  BY <1>1 DEF ArgumentsFit, Arguments
<1>4. ToKernel(Meant(args)) = Meant(args) /\ SocketTakes(Meant(args)) /\ SocketKeeps(Meant(args)) = Meant(args)
  BY <1>2 DEF ToKernel, SocketTakes, SocketKeeps
<1>5. AskedFits /\ KernelFits /\ ValuesReadBack
  BY DEF OptionInit, OptionsOfNew, AskedFits, KernelFits, ValuesReadBack
<1>6. QED
  BY <1>1, <1>3, <1>4, <1>5 DEF OptionInv, CreatedInv

LEMMA OptionNextInv == OptionInv /\ [OptionNext]_optionVars => OptionInv'
<1> SUFFICES ASSUME OptionInv, [OptionNext]_optionVars PROVE OptionInv'
  OBVIOUS
<1>1. ASSUME NEW f \in Arguments(FamilyTable), NEW t \in Arguments(TypeTable), NEW p \in Arguments(ProtocolTable),
             Create([family |-> f, type |-> t, protocol |-> p])
      PROVE  OptionInv'
  BY <1>1, CreateInv
<1>2. ASSUME NEW o \in FlagOptions, NEW v \in BOOLEAN, SetFlag(o, v) PROVE OptionInv'
  BY <1>2, SetFlagInv
<1>3. ASSUME NEW o \in Options \ FlagOptions, NEW v \in Assignable(o), SetValue(o, v) PROVE OptionInv'
  BY <1>3, SetValueInv
<1>4. CASE UNCHANGED optionVars
  BY <1>4 DEF optionVars, OptionInv, CreatedInv, ArgumentsFit, AskedFits, KernelFits, ValuesReadBack, Get
<1>5. QED
  BY <1>1, <1>2, <1>3, <1>4 DEF OptionNext

\* t_net_sck.c and p_net_sck_unx.c: whatever was assigned in between, a socket reads as the
\* family, type and protocol it was created as, and its options as what was assigned last.
THEOREM SocketsReadBack == OptionSpec => []OptionsReadBack
<1>1. OptionInv => OptionsReadBack
  BY CreatedReads DEF OptionInv, OptionsReadBack
<1>2. QED
  BY <1>1, OptionInitInv, OptionNextInv, PTL DEF OptionSpec

(***************************************************************************)
(* Interfaces.  A table r of an interface tells of the entries E of a      *)
(* chain c; the loop over the chain adds one entry to E in each round.     *)
(***************************************************************************)
AddressTables(c) == {MakeAddresses(c[i]) : i \in DOMAIN c}

TableFits(c, r) ==
  /\ DOMAIN r = {"flags", "stats", "hw_address", "list"}
  /\ r.stats \in Nat \cup {Absent}
  /\ DOMAIN r.list = InetFamilies
  /\ \A f \in InetFamilies : r.list[f] \in Seq(AddressTables(c))

TellsFlags(c, E, r) ==
  LET I == {i \in E : c[i].flags # {}}
  IN  IF I = {} THEN r.flags = {}
      ELSE \E i \in I : r.flags = c[i].flags /\ \A j \in I : i <= j

TellsStats(c, E, r) ==
  LET I == {i \in E : c[i].family = "packet" /\ c[i].data # Absent}
  IN  IF I = {} THEN r.stats = Absent /\ r.hw_address = Absent
      ELSE \E i \in I : /\ r.stats = c[i].data /\ r.hw_address = c[i].addr
                        /\ \A j \in I : j <= i

TellsAddresses(c, E, f, list) ==
  LET I == {i \in E : c[i].family = f}
  IN  \E from \in [DOMAIN list -> I] :
        /\ \A k \in DOMAIN list : list[k] = MakeAddresses(c[from[k]])
        /\ \A k, m \in DOMAIN list : k < m => from[k] < from[m]
        /\ \A i \in I : \E k \in DOMAIN list : from[k] = i

Tells(c, E, r) ==
  /\ TableFits(c, r) /\ TellsFlags(c, E, r) /\ TellsStats(c, E, r)
  /\ \A f \in InetFamilies : TellsAddresses(c, E, f, r.list[f])

LEMMA ChainsAre ==
  ASSUME NEW c \in Chains \cup {<< >>}
  PROVE  /\ DOMAIN c = 1..Len(c) /\ Len(c) \in Nat
         /\ \A i \in DOMAIN c : /\ c[i].name # Absent /\ c[i].data \in Nat \cup {Absent}
                                /\ c[i].name = LoName => "IFF_BROADCAST" \notin c[i].flags
<1>1. CASE c \in Chains
  <2>1. c \in Seq({c[i] : i \in DOMAIN c})
    BY <1>1, InterfaceAssumption
  <2>2. DOMAIN c = 1..Len(c) /\ Len(c) \in Nat
    BY <2>1
  <2>3. \A i \in DOMAIN c : EntryFits(c[i]) /\ (c[i].name = LoName => "IFF_BROADCAST" \notin c[i].flags)
    BY <1>1, InterfaceAssumption
  <2>4. QED
    BY <2>2, <2>3 DEF EntryFits
<1>2. CASE c = << >>
  BY <1>2
<1>3. QED
  BY <1>1, <1>2

\* What a round of the loop adds to the table.
LEMMA GatheredIs ==
  ASSUME NEW c \in Chains \cup {<< >>}, NEW k \in DOMAIN c, NEW r, TableFits(c, r)
  PROVE  LET e == c[k]
             g == Gathered(r, e)
         IN  /\ TableFits(c, g)
             /\ g.flags = IF r.flags = {} THEN e.flags ELSE r.flags
             /\ IF e.family = "packet" /\ e.data # Absent
                  THEN g.stats = e.data /\ g.hw_address = e.addr
                  ELSE g.stats = r.stats /\ g.hw_address = r.hw_address
             /\ \A f \in InetFamilies :
                  g.list[f] = IF e.family = f THEN Append(r.list[f], MakeAddresses(e)) ELSE r.list[f]
<1> DEFINE e == c[k]
           p == ParseFlags(r, e)
           a == GetAddresses(p, e)
           g == Gathered(r, e)
           S == AddressTables(c)
<1>1. e.data \in Nat \cup {Absent} /\ MakeAddresses(e) \in S
  BY ChainsAre DEF AddressTables
<1>2. /\ DOMAIN p = DOMAIN r /\ p.stats = r.stats /\ p.hw_address = r.hw_address /\ p.list = r.list
      /\ p.flags = IF r.flags = {} THEN e.flags ELSE r.flags
  BY DEF ParseFlags, TableFits
<1> HIDE DEF p, S
<1>3. /\ DOMAIN a = DOMAIN r /\ a.stats = r.stats /\ a.hw_address = r.hw_address /\ a.flags = p.flags
      /\ DOMAIN a.list = InetFamilies
      /\ \A f \in InetFamilies :
           a.list[f] = IF e.family = f THEN Append(r.list[f], MakeAddresses(e)) ELSE r.list[f]
  <2>1. CASE e.family \in InetFamilies
    <3> DEFINE list == r.list
               longer == [list EXCEPT ![e.family] = Append(list[e.family], MakeAddresses(e))]
    <3>1. a = [p EXCEPT !.list = longer]
      BY <1>2, <2>1 DEF GetAddresses
    <3>2. /\ DOMAIN longer = InetFamilies
          /\ \A f \in InetFamilies :
               longer[f] = IF e.family = f THEN Append(r.list[f], MakeAddresses(e)) ELSE r.list[f]
      <4>1. DOMAIN list = InetFamilies
        BY DEF TableFits
      <4> HIDE DEF list
      <4>2. /\ DOMAIN longer = InetFamilies
            /\ \A f \in InetFamilies :
                 longer[f] = IF e.family = f THEN Append(list[f], MakeAddresses(e)) ELSE list[f]
        BY <4>1, <2>1
      <4>3. QED
        BY <4>2 DEF list
    <3> HIDE DEF a, longer
    <3>3. QED
      BY <1>2, <3>1, <3>2 DEF TableFits
  <2>2. CASE e.family \notin InetFamilies
    BY <1>2, <2>2 DEF GetAddresses, TableFits
  <2>3. QED
    BY <2>1, <2>2
<1>4. g = GetStats(a, e)
  BY DEF Gathered, p
<1> HIDE DEF a, e, g
<1>5. /\ DOMAIN g = DOMAIN r /\ g.flags = a.flags /\ g.list = a.list
      /\ IF e.family = "packet" /\ e.data # Absent
           THEN g.stats = e.data /\ g.hw_address = e.addr
           ELSE g.stats = r.stats /\ g.hw_address = r.hw_address
  BY <1>3, <1>4 DEF GetStats, TableFits
<1>6. \A f \in InetFamilies : a.list[f] \in Seq(S)
  <2> SUFFICES ASSUME NEW f \in InetFamilies PROVE a.list[f] \in Seq(S)
    OBVIOUS
  <2>1. r.list[f] \in Seq(S)
    BY DEF TableFits, S
  <2>2. Append(r.list[f], MakeAddresses(e)) \in Seq(S)
    BY <2>1, <1>1
  <2>3. QED
    BY <2>1, <2>2, <1>3
<1>7. TableFits(c, g)
  BY <1>1, <1>3, <1>5, <1>6 DEF TableFits, S
<1>8. QED
  BY <1>2, <1>3, <1>5, <1>7 DEF e, g

LEMMA TellsFlagsStep ==
  ASSUME NEW c, NEW k \in Int, NEW E, E \subseteq 1..k - 1, NEW r, NEW g,
         TellsFlags(c, E, r), g.flags = IF r.flags = {} THEN c[k].flags ELSE r.flags
  PROVE  TellsFlags(c, E \cup {k}, g)
<1> DEFINE I == {i \in E : c[i].flags # {}}
           J == {i \in E \cup {k} : c[i].flags # {}}
<1>1. \A i \in I : i \in Int /\ i < k
  OBVIOUS
<1>2. J = IF c[k].flags = {} THEN I ELSE I \cup {k}
  OBVIOUS
<1>3. CASE I = {}
  <2>1. r.flags = {} /\ g.flags = c[k].flags
    BY <1>3 DEF TellsFlags
  <2>2. J = IF c[k].flags = {} THEN {} ELSE {k}
    BY <1>2, <1>3
  <2> HIDE DEF I, J
  <2>3. IF J = {} THEN g.flags = {} ELSE \E i \in J : g.flags = c[i].flags /\ \A j \in J : i <= j
    BY <2>1, <2>2
  <2>4. QED
    BY <2>3 DEF TellsFlags, J
<1>4. CASE I # {}
  <2>1. PICK i \in I : r.flags = c[i].flags /\ \A j \in I : i <= j
    BY <1>4 DEF TellsFlags
  <2>2. g.flags = c[i].flags
    BY <2>1
  <2>3. i \in J /\ \A j \in J : i <= j
    BY <1>1, <1>2, <2>1
  <2> HIDE DEF I, J
  <2>4. IF J = {} THEN g.flags = {} ELSE \E m \in J : g.flags = c[m].flags /\ \A j \in J : m <= j
    BY <2>2, <2>3
  <2>5. QED
    BY <2>4 DEF TellsFlags, J
<1>5. QED
  BY <1>3, <1>4

LEMMA TellsStatsStep ==
  ASSUME NEW c, NEW k \in Int, NEW E, E \subseteq 1..k - 1, NEW r, NEW g, TellsStats(c, E, r),
         IF c[k].family = "packet" /\ c[k].data # Absent
           THEN g.stats = c[k].data /\ g.hw_address = c[k].addr
           ELSE g.stats = r.stats /\ g.hw_address = r.hw_address
  PROVE  TellsStats(c, E \cup {k}, g)
<1> DEFINE Is(i) == c[i].family = "packet" /\ c[i].data # Absent
           I == {i \in E : Is(i)}
           J == {i \in E \cup {k} : Is(i)}
<1>1. \A i \in I : i \in Int /\ i < k
  OBVIOUS
<1>2. J = IF Is(k) THEN I \cup {k} ELSE I
  OBVIOUS
<1>3. CASE Is(k)
  <2>1. g.stats = c[k].data /\ g.hw_address = c[k].addr
    BY <1>3
  <2>2. k \in J /\ \A j \in J : j <= k
    BY <1>1, <1>2, <1>3
  <2> HIDE DEF J
  <2>3. IF J = {} THEN g.stats = Absent /\ g.hw_address = Absent
        ELSE \E i \in J : g.stats = c[i].data /\ g.hw_address = c[i].addr /\ \A j \in J : j <= i
    BY <2>1, <2>2
  <2>4. QED
    BY <2>3 DEF TellsStats, J
<1>4. CASE ~Is(k)
  <2>1. g.stats = r.stats /\ g.hw_address = r.hw_address
    BY <1>4
  <2>2. J = I
    BY <1>2, <1>4
  <2>3. IF I = {} THEN r.stats = Absent /\ r.hw_address = Absent
        ELSE \E i \in I : r.stats = c[i].data /\ r.hw_address = c[i].addr /\ \A j \in I : j <= i
    BY DEF TellsStats
  <2> HIDE DEF I, J
  <2>4. IF J = {} THEN g.stats = Absent /\ g.hw_address = Absent
        ELSE \E i \in J : g.stats = c[i].data /\ g.hw_address = c[i].addr /\ \A j \in J : j <= i
    BY <2>1, <2>2, <2>3
  <2>5. QED
    BY <2>4 DEF TellsStats, J
<1>5. QED
  BY <1>3, <1>4

LEMMA TellsAddressesStep ==
  ASSUME NEW c, NEW k \in Int, NEW E, E \subseteq 1..k - 1, NEW f, NEW S, NEW list \in Seq(S),
         TellsAddresses(c, E, f, list), MakeAddresses(c[k]) \in S
  PROVE  TellsAddresses(c, E \cup {k}, f,
                        IF c[k].family = f THEN Append(list, MakeAddresses(c[k])) ELSE list)
<1> DEFINE I == {i \in E : c[i].family = f}
           J == {i \in E \cup {k} : c[i].family = f}
<1>1. PICK from \in [DOMAIN list -> I] :
        /\ \A n \in DOMAIN list : list[n] = MakeAddresses(c[from[n]])
        /\ \A n, m \in DOMAIN list : n < m => from[n] < from[m]
        /\ \A i \in I : \E n \in DOMAIN list : from[n] = i
  BY DEF TellsAddresses
<1>2. \A i \in I : i \in Int /\ i < k
  OBVIOUS
<1>3. J = IF c[k].family = f THEN I \cup {k} ELSE I
  OBVIOUS
<1>4. CASE c[k].family = f
  <2> DEFINE longer == Append(list, MakeAddresses(c[k]))
             n1 == Len(list) + 1
             more == [n \in 1..n1 |-> IF n = n1 THEN k ELSE from[n]]
  <2>1. /\ DOMAIN list = 1..Len(list) /\ Len(list) \in Nat /\ DOMAIN longer = 1..n1
        /\ longer[n1] = MakeAddresses(c[k])
        /\ \A n \in DOMAIN list : longer[n] = list[n]
    OBVIOUS
  <2>2. J = I \cup {k}
    BY <1>3, <1>4
  <2> HIDE DEF I, J, longer
  <2>3. n1 \in Int /\ \A n \in 1..n1 : n = n1 \/ (n \in DOMAIN list /\ n < n1)
    BY <2>1
  <2>4. more[n1] = k /\ \A n \in DOMAIN list : more[n] = from[n] /\ n \in 1..n1
    BY <2>1
  <2> HIDE DEF n1, more
  <2>5. more \in [1..n1 -> J]
    <3>1. \A n \in 1..n1 : more[n] \in J
      BY <1>1, <2>2, <2>3, <2>4
    <3>2. QED
      BY <3>1 DEF more
  <2>6. \A n \in 1..n1 : longer[n] = MakeAddresses(c[more[n]])
    BY <1>1, <2>1, <2>3, <2>4
  <2>7. \A n, m \in 1..n1 : n < m => more[n] < more[m]
    <3> SUFFICES ASSUME NEW n \in 1..n1, NEW m \in 1..n1, n < m PROVE more[n] < more[m]
      OBVIOUS
    <3>1. n \in DOMAIN list /\ more[n] = from[n] /\ from[n] \in I
      BY <1>1, <2>3, <2>4
    <3>2. CASE m = n1
      BY <3>1, <3>2, <2>4, <1>2
    <3>3. CASE m # n1
      BY <3>1, <3>3, <1>1, <2>3, <2>4
    <3>4. QED
      BY <3>2, <3>3
  <2>8. \A i \in J : \E n \in 1..n1 : more[n] = i
    <3> SUFFICES ASSUME NEW i \in J PROVE \E n \in 1..n1 : more[n] = i
      OBVIOUS
    <3>1. CASE i = k
      BY <3>1, <2>4, <2>1 DEF n1
    <3>2. CASE i \in I
      BY <3>2, <1>1, <2>4
    <3>3. QED
      BY <3>1, <3>2, <2>2
  <2>9. \E to \in [DOMAIN longer -> J] :
          /\ \A n \in DOMAIN longer : longer[n] = MakeAddresses(c[to[n]])
          /\ \A n, m \in DOMAIN longer : n < m => to[n] < to[m]
          /\ \A i \in J : \E n \in DOMAIN longer : to[n] = i
    <3>1. DOMAIN longer = 1..n1
      BY <2>1
    <3>2. more \in [DOMAIN longer -> J]
      BY <3>1, <2>5
    <3>3. QED
      BY <3>1, <3>2, <2>6, <2>7, <2>8
  <2>10. TellsAddresses(c, E \cup {k}, f, longer)
    BY <2>9 DEF TellsAddresses, J
  <2>11. QED
    BY <2>10, <1>4 DEF longer
<1>5. CASE c[k].family # f
  <2>1. J = I
    BY <1>3, <1>5
  <2>2. TellsAddresses(c, E \cup {k}, f, list)
    BY <2>1, <1>1 DEF TellsAddresses
  <2>3. QED
    BY <2>2, <1>5
<1>6. QED
  BY <1>4, <1>5

\* A round of the loop over the chain.
LEMMA TellsStep ==
  ASSUME NEW c \in Chains \cup {<< >>}, NEW k \in DOMAIN c, NEW E, E \subseteq 1..k - 1,
         NEW r, Tells(c, E, r)
  PROVE  Tells(c, E \cup {k}, Gathered(r, c[k]))
<1> DEFINE e == c[k]
           g == Gathered(r, e)
<1>1. /\ TableFits(c, g)
      /\ g.flags = IF r.flags = {} THEN e.flags ELSE r.flags
      /\ IF e.family = "packet" /\ e.data # Absent
           THEN g.stats = e.data /\ g.hw_address = e.addr
           ELSE g.stats = r.stats /\ g.hw_address = r.hw_address
      /\ \A f \in InetFamilies :
           g.list[f] = IF e.family = f THEN Append(r.list[f], MakeAddresses(e)) ELSE r.list[f]
  BY GatheredIs DEF Tells
<1>2. k \in Int
  BY ChainsAre
<1> HIDE DEF g
<1>3. TellsFlags(c, E \cup {k}, g)
  BY <1>1, <1>2, TellsFlagsStep DEF Tells
<1>4. TellsStats(c, E \cup {k}, g)
  BY <1>1, <1>2, TellsStatsStep DEF Tells
<1>5. ASSUME NEW f \in InetFamilies PROVE TellsAddresses(c, E \cup {k}, f, g.list[f])
  <2> DEFINE S == AddressTables(c)
             list == r.list[f]
  <2>1. list \in Seq(S) /\ TellsAddresses(c, E, f, list)
    BY DEF Tells, TableFits
  <2>2. MakeAddresses(c[k]) \in S
    BY DEF AddressTables
  <2>3. g.list[f] = IF c[k].family = f THEN Append(list, MakeAddresses(c[k])) ELSE list
    BY <1>1
  <2> HIDE DEF S, list
  <2>4. TellsAddresses(c, E \cup {k}, f,
                       IF c[k].family = f THEN Append(list, MakeAddresses(c[k])) ELSE list)
    BY <2>1, <2>2, <1>2, TellsAddressesStep
  <2>5. QED
    BY <2>3, <2>4
<1>6. QED
  BY <1>1, <1>3, <1>4, <1>5 DEF Tells, g

LEMMA TellsNothing ==
  ASSUME NEW c PROVE Tells(c, {}, NewTable)
<1>1. TableFits(c, NewTable)
  BY DEF TableFits, NewTable, InetFamilies
<1>2. TellsFlags(c, {}, NewTable) /\ TellsStats(c, {}, NewTable)
  BY DEF TellsFlags, TellsStats, NewTable
<1>3. ASSUME NEW f \in InetFamilies PROVE TellsAddresses(c, {}, f, << >>)
  <2> DEFINE none == [n \in {} |-> 0]
  <2>1. none \in [DOMAIN << >> -> {i \in {} : c[i].family = f}]
    OBVIOUS
  <2>2. QED
    BY <2>1 DEF TellsAddresses
<1>4. \A f \in InetFamilies : NewTable.list[f] = << >>
  BY DEF NewTable
<1>5. QED
  BY <1>1, <1>2, <1>3, <1>4 DEF Tells

TablesInv ==
  /\ chain \in Chains \cup {<< >>} /\ ifa \in 1..Len(chain) + 1
  /\ \A n \in DOMAIN told : want \in {Absent, n} /\ EntriesOf(n) # {}
  /\ \A i \in 1..ifa - 1 : want \in {Absent, chain[i].name} => chain[i].name \in DOMAIN told
  /\ \A n \in DOMAIN told : Tells(chain, EntriesOf(n), told[n])

(***************************************************************************)
(* default().  The loopback device never serves, so that it is the         *)
(* candidate only until one that serves is seen; and of two that were      *)
(* compared both have a number.                                            *)
(***************************************************************************)
Seen == {n \in DOMAIN told \ unseen : Serves(n)}

DefaultInv ==
  /\ unseen \subseteq DOMAIN told
  /\ ifa <= Len(chain) => unseen = {} /\ ~failed
  /\ failed => unseen = {}
  /\ byDefault /\ ifa > Len(chain) /\ ~failed =>
       /\ IF Seen = {} THEN IsLo(candidate) ELSE candidate \in Seen
       /\ \A n \in Seen : n # candidate => /\ {told[n].stats, told[candidate].stats} \subseteq Nat
                                           /\ told[n].stats <= told[candidate].stats

InterfaceInv == TablesInv /\ DefaultInv

LEMMA TablesInvTells == TablesInv => TablesTell
<1> SUFFICES ASSUME TablesInv, NEW n \in DOMAIN told
             PROVE  FlagsOfFirst(n) /\ StatsOfLast(n) /\ \A f \in InetFamilies : EachAddressOnce(n, f)
  BY DEF TablesInv, TablesTell
<1>1. TellsFlags(chain, EntriesOf(n), told[n]) => FlagsOfFirst(n)
  BY DEF TellsFlags, FlagsOfFirst
<1>2. TellsStats(chain, EntriesOf(n), told[n]) => StatsOfLast(n)
  BY DEF TellsStats, StatsOfLast
<1>3. \A f \in InetFamilies : TellsAddresses(chain, EntriesOf(n), f, told[n].list[f]) => EachAddressOnce(n, f)
  BY DEF TellsAddresses, EachAddressOnce
<1>4. QED
  BY <1>1, <1>2, <1>3 DEF TablesInv, Tells

\* No table has the name nil, and that of the loopback device does not serve.
LEMMA LoNeverServes ==
  ASSUME TablesInv
  PROVE  Absent \notin DOMAIN told /\ (LoName \in DOMAIN told => ~Serves(LoName))
<1>1. ASSUME NEW n, NEW i \in EntriesOf(n)
      PROVE  i \in DOMAIN chain /\ chain[i].name = n
  BY ChainsAre DEF EntriesOf, TablesInv
<1>2. Absent \notin DOMAIN told
  BY <1>1, ChainsAre DEF TablesInv
<1>3. ASSUME LoName \in DOMAIN told PROVE "IFF_BROADCAST" \notin told[LoName].flags
  <2>1. TellsFlags(chain, EntriesOf(LoName), told[LoName])
    BY <1>3 DEF TablesInv, Tells
  <2>2. \/ told[LoName].flags = {}
        \/ \E i \in EntriesOf(LoName) : told[LoName].flags = chain[i].flags
    BY <2>1 DEF TellsFlags
  <2>3. QED
    BY <2>2, <1>1, ChainsAre DEF TablesInv
<1>4. QED
  BY <1>2, <1>3 DEF Serves

LEMMA InterfaceInitInv == InterfaceInit => InterfaceInv
BY DEF InterfaceInit, InterfaceInv, TablesInv, DefaultInv

LEMMA GetInterfacesInv ==
  ASSUME NEW c \in Chains, NEW w, NEW d \in BOOLEAN, GetInterfaces(c, w, d)
  PROVE  InterfaceInv'
<1>1. Len(c) \in Nat
  BY ChainsAre
<1>2. /\ chain' = c /\ ifa' = 1 /\ DOMAIN told' = {}
      /\ candidate' = Absent /\ unseen' = {} /\ failed' = FALSE
  BY DEF GetInterfaces
<1>3. TablesInv'
  BY <1>1, <1>2 DEF TablesInv
<1>4. DefaultInv'
  BY <1>1, <1>2 DEF DefaultInv, Seen, IsLo
<1>5. QED
  BY <1>3, <1>4 DEF InterfaceInv

LEMMA NextEntryTables == TablesInv /\ NextEntry => TablesInv'
<1> SUFFICES ASSUME TablesInv, NextEntry PROVE TablesInv'
  OBVIOUS
<1> DEFINE e == chain[ifa]
           old == IF e.name \in DOMAIN told THEN told[e.name] ELSE NewTable
           new == [n \in DOMAIN told \cup {e.name} |-> IF n = e.name THEN Gathered(old, e) ELSE told[n]]
<1>1. /\ ifa <= Len(chain) /\ ifa' = ifa + 1
      /\ told' = IF want \in {Absent, e.name} THEN new ELSE told
      /\ UNCHANGED <<chain, want>>
  BY DEF NextEntry
<1>2. Len(chain) \in Nat /\ ifa \in Int /\ ifa \in DOMAIN chain /\ chain \in Chains \cup {<< >>}
  BY <1>1, ChainsAre DEF TablesInv
<1>3. \A n : EntriesOf(n)' = IF n = e.name THEN EntriesOf(n) \cup {ifa} ELSE EntriesOf(n)
  BY <1>1, <1>2 DEF EntriesOf
<1>4. \A n : EntriesOf(n) \subseteq 1..ifa - 1
  BY DEF EntriesOf
<1>5. chain' \in Chains \cup {<< >>} /\ ifa' \in 1..Len(chain') + 1
  BY <1>1, <1>2 DEF TablesInv
<1>6. CASE want \in {Absent, e.name}
  <2>1. told' = new
    BY <1>1, <1>6
  <2>2. Tells(chain, EntriesOf(e.name), old)
    <3>1. CASE e.name \in DOMAIN told
      BY <3>1 DEF TablesInv
    <3>2. CASE e.name \notin DOMAIN told
      <4>1. EntriesOf(e.name) = {}
        BY <3>2, <1>6 DEF TablesInv, EntriesOf
      <4>2. QED
        BY <3>2, <4>1, TellsNothing
    <3>3. QED
      BY <3>1, <3>2
  <2> HIDE DEF old
  <2>3. Tells(chain, EntriesOf(e.name) \cup {ifa}, Gathered(old, e))
    BY <2>2, <1>2, <1>4, TellsStep
  <2>4. ASSUME NEW n \in DOMAIN told'
        PROVE  /\ want' \in {Absent, n} /\ EntriesOf(n)' # {}
               /\ Tells(chain', EntriesOf(n)', told'[n])
    <3>1. CASE n = e.name
      <4>1. told'[n] = Gathered(old, e)
        BY <2>1, <3>1
      <4>2. QED
        BY <3>1, <4>1, <2>3, <1>1, <1>3, <1>6
    <3>2. CASE n # e.name
      <4>1. n \in DOMAIN told /\ told'[n] = told[n]
        BY <2>1, <3>2
      <4>2. EntriesOf(n)' = EntriesOf(n)
        BY <3>2, <1>3
      <4>3. QED
        BY <4>1, <4>2, <1>1 DEF TablesInv
    <3>3. QED
      BY <3>1, <3>2
  <2>5. ASSUME NEW i \in 1..ifa' - 1, want' \in {Absent, chain'[i].name}
        PROVE  chain'[i].name \in DOMAIN told'
    <3>1. CASE i = ifa
      BY <3>1, <2>1, <1>1
    <3>2. CASE i # ifa
      <4>1. i \in 1..ifa - 1
        BY <3>2, <1>1, <1>2
      <4>2. QED
        BY <4>1, <2>5, <2>1, <1>1 DEF TablesInv
    <3>3. QED
      BY <3>1, <3>2
  <2>6. QED
    BY <1>5, <2>4, <2>5 DEF TablesInv
<1>7. CASE want \notin {Absent, e.name}
  <2>1. told' = told
    BY <1>1, <1>7
  <2>2. \A n \in DOMAIN told : n # e.name
    BY <1>7 DEF TablesInv
  <2>3. ASSUME NEW n \in DOMAIN told'
        PROVE  /\ want' \in {Absent, n} /\ EntriesOf(n)' # {}
               /\ Tells(chain', EntriesOf(n)', told'[n])
    <3>1. n \in DOMAIN told /\ EntriesOf(n)' = EntriesOf(n)
      BY <2>1, <2>2, <1>3
    <3>2. QED
      BY <3>1, <2>1, <1>1 DEF TablesInv
  <2>4. ASSUME NEW i \in 1..ifa' - 1, want' \in {Absent, chain'[i].name}
        PROVE  chain'[i].name \in DOMAIN told'
    <3>1. i # ifa
      BY <2>4, <1>1, <1>7
    <3>2. i \in 1..ifa - 1
      BY <3>1, <1>1, <1>2
    <3>3. QED
      BY <3>2, <2>4, <2>1, <1>1 DEF TablesInv
  <2>5. QED
    BY <1>5, <2>3, <2>4 DEF TablesInv
<1>8. QED
  BY <1>6, <1>7

LEMMA NextEntryDefault == TablesInv /\ DefaultInv /\ NextEntry => DefaultInv'
<1> SUFFICES ASSUME TablesInv, DefaultInv, NextEntry PROVE DefaultInv'
  OBVIOUS
<1>1. /\ ifa <= Len(chain) /\ ifa' = ifa + 1
      /\ UNCHANGED <<chain, byDefault, failed>>
  BY DEF NextEntry
<1>2. ifa \in Int /\ Len(chain) \in Nat
  BY ChainsAre DEF TablesInv
<1>3. CASE byDefault /\ ifa = Len(chain)
  <2>1. /\ unseen' = DOMAIN told'
        /\ candidate' = IF LoName \in DOMAIN told' THEN LoName ELSE Absent
    BY <1>3 DEF NextEntry
  <2>2. Seen' = {}
    BY <2>1 DEF Seen
  <2>3. IsLo(candidate)'
    BY <2>1 DEF IsLo
  <2>4. ~failed'
    BY <1>1 DEF DefaultInv
  <2>5. QED
    BY <1>1, <1>2, <1>3, <2>1, <2>2, <2>3, <2>4 DEF DefaultInv
<1>4. CASE ~(byDefault /\ ifa = Len(chain))
  <2>1. unseen' = {}
    BY <1>4 DEF NextEntry
  <2>2. ~(byDefault' /\ ifa' > Len(chain'))
    BY <1>1, <1>2, <1>4
  <2>3. ~failed'
    BY <1>1 DEF DefaultInv
  <2>4. QED
    BY <2>1, <2>2, <2>3 DEF DefaultInv
<1>5. QED
  BY <1>3, <1>4

LEMMA VisitInv ==
  ASSUME TablesInv, DefaultInv, NEW n \in unseen, VisitInterface(n)
  PROVE  DefaultInv'
<1> DEFINE fails == Serves(n) /\ ~IsLo(candidate) /\ Absent \in {told[n].stats, told[candidate].stats}
           better == Serves(n) /\ (IsLo(candidate) \/ told[n].stats > told[candidate].stats)
<1>1. /\ failed' = fails
      /\ unseen' = IF fails THEN {} ELSE unseen \ {n}
      /\ candidate' = IF ~fails /\ better THEN n ELSE candidate
      /\ UNCHANGED <<chain, ifa, told, byDefault>>
  BY DEF VisitInterface
<1>2. /\ n \in DOMAIN told /\ ~(ifa <= Len(chain)) /\ ~failed
      /\ unseen' \subseteq DOMAIN told'
      /\ ifa' <= Len(chain') => unseen' = {} /\ ~failed'
      /\ failed' => unseen' = {}
  BY <1>1 DEF DefaultInv
<1>3. ASSUME byDefault, ifa > Len(chain), ~fails
      PROVE  /\ IF Seen' = {} THEN IsLo(candidate)' ELSE candidate' \in Seen'
             /\ \A m \in Seen' : m # candidate' =>
                  /\ {told[m].stats, told[candidate'].stats} \subseteq Nat
                  /\ told[m].stats <= told[candidate'].stats
  <2> HIDE DEF better
  <2>1. /\ IF Seen = {} THEN IsLo(candidate) ELSE candidate \in Seen
        /\ \A m \in Seen : m # candidate => /\ {told[m].stats, told[candidate].stats} \subseteq Nat
                                            /\ told[m].stats <= told[candidate].stats
    BY <1>2, <1>3 DEF DefaultInv
  <2>2. Seen' = IF Serves(n) THEN Seen \cup {n} ELSE Seen
    BY <1>1, <1>2, <1>3 DEF Seen, Serves
  <2>3. \A m : IsLo(m)' = IsLo(m)
    BY <1>1 DEF IsLo
  <2>4. \A m \in Seen : m \in DOMAIN told /\ ~IsLo(m)
    BY LoNeverServes DEF Seen, IsLo
  <2>5. IsLo(candidate) <=> Seen = {}
    BY <2>1, <2>4
  <2>6. CASE ~Serves(n)
    BY <2>1, <2>2, <2>3, <2>6, <1>1 DEF better
  <2>7. CASE Serves(n) /\ IsLo(candidate)
    <3>1. candidate' = n /\ Seen' = {n}
      BY <2>2, <2>5, <2>7, <1>1, <1>3 DEF better
    <3>2. QED
      BY <3>1
  <2>8. CASE Serves(n) /\ ~IsLo(candidate)
    <3>1. candidate \in Seen
      BY <2>1, <2>5, <2>8
    <3>2. \A m \in DOMAIN told : told[m].stats \in Nat \cup {Absent}
      BY DEF TablesInv, Tells, TableFits
    <3>3. told[n].stats \in Nat /\ told[candidate].stats \in Nat
      BY <1>2, <1>3, <2>8, <3>1, <3>2 DEF Seen
    <3>4. Seen' = Seen \cup {n}
      BY <2>2, <2>8
    <3>5. CASE told[n].stats > told[candidate].stats
      <4>1. candidate' = n
        BY <3>5, <2>8, <1>1, <1>3 DEF better
      <4>2. \A m \in Seen : told[m].stats \in Nat /\ told[m].stats <= told[candidate].stats
        BY <2>1, <3>3
      <4>3. \A m \in Seen : told[m].stats <= told[n].stats
        BY <4>2, <3>3, <3>5
      <4>4. QED
        BY <4>1, <4>2, <4>3, <3>3, <3>4
    <3>6. CASE ~(told[n].stats > told[candidate].stats)
      <4>1. candidate' = candidate
        BY <3>6, <2>8, <1>1 DEF better
      <4>2. told[n].stats <= told[candidate].stats
        BY <3>3, <3>6
      <4>3. QED
        BY <4>1, <4>2, <3>1, <3>3, <3>4, <2>1
    <3>7. QED
      BY <3>5, <3>6
  <2>9. QED
    BY <2>6, <2>7, <2>8
<1>4. QED
  BY <1>1, <1>2, <1>3 DEF DefaultInv

LEMMA VisitTables ==
  ASSUME TablesInv, UNCHANGED <<chain, ifa, want, told>>
  PROVE  TablesInv'
BY DEF TablesInv, EntriesOf

LEMMA InterfaceNextInv == InterfaceInv /\ [InterfaceNext]_interfaceVars => InterfaceInv'
<1> SUFFICES ASSUME InterfaceInv, [InterfaceNext]_interfaceVars PROVE InterfaceInv'
  OBVIOUS
<1> USE DEF InterfaceInv
<1>1. ASSUME NEW c \in Chains, NEW w, NEW d \in BOOLEAN, GetInterfaces(c, w, d) PROVE InterfaceInv'
  BY <1>1, GetInterfacesInv
<1>2. CASE NextEntry
  BY <1>2, NextEntryTables, NextEntryDefault
<1>3. ASSUME NEW n \in unseen, VisitInterface(n) PROVE InterfaceInv'
  <2>1. UNCHANGED <<chain, ifa, want, told>>
    BY <1>3 DEF VisitInterface
  <2>2. QED
    BY <2>1, <1>3, VisitTables, VisitInv
<1>4. CASE UNCHANGED interfaceVars
  <2>1. UNCHANGED <<chain, ifa, want, told>> /\ UNCHANGED <<byDefault, unseen, candidate, failed>>
    BY <1>4 DEF interfaceVars
  <2>2. TablesInv'
    BY <2>1, VisitTables
  <2>3. DefaultInv'
    BY <2>1 DEF DefaultInv, Seen, Serves, IsLo
  <2>4. QED
    BY <2>2, <2>3
<1>5. QED
  BY <1>1, <1>2, <1>3, <1>4 DEF InterfaceNext

LEMMA DefaultInvBusiest == DefaultInv => BusiestIsDefault
<1> SUFFICES ASSUME DefaultInv, byDefault, ifa > Len(chain), ~failed
             PROVE  /\ IF Seen = {} THEN IsLo(candidate) ELSE candidate \in Seen
                    /\ \A n \in Seen : n # candidate => told[n].stats <= told[candidate].stats
  BY DEF BusiestIsDefault, Seen
<1>1. QED
  BY DEF DefaultInv

\* p_net_ifc_lnx.c and Interface.lua: for every chain of entries, whatever order they are in,
\* the tables tell each entry once and in its place, and default() keeps the interface that
\* has received the most bytes of those it saw and that serve, whatever order pairs() visits
\* them in (docs/Net.Interface.rst:119-122 has the transmitted bytes).
THEOREM InterfacesAreTold == InterfaceSpec => []InterfacesTold
<1>1. InterfaceInv => InterfacesTold
  BY TablesInvTells, DefaultInvBusiest DEF InterfaceInv, InterfacesTold
<1>2. QED
  BY <1>1, InterfaceInitInv, InterfaceNextInv, PTL DEF InterfaceSpec

(***************************************************************************)
(* NetSelect.  The scan is a recursive function; that there is one, and    *)
(* what it is after each entry (Scanned), is shown by way of the least     *)
(* entry at which it would fail.  What ends a scan early is its count, so  *)
(* that a scan which ends early has found as many entries as sockets were  *)
(* still to be found: these are all of them, as no socket counts twice.    *)
(***************************************************************************)
Accs == [left : Int, out : Seq(Entries), over : BOOLEAN]
NoneYet(n) == [left |-> n, out |-> <<>>, over |-> FALSE]
Ready(tbl, bits) == {i \in 1..Len(tbl) : tbl[i][1] \in bits}

\* The entries in acc.out are the ones at from in tbl, all of those up to the k-th unless
\* the scan is over.
Places(from, tbl, bits, k, acc) ==
  /\ from \in [1..Len(acc.out) -> Ready(tbl, bits)]
  /\ \A j \in 1..Len(acc.out) : acc.out[j] = tbl[from[j]] /\ from[j] <= k
  /\ \A j, m \in 1..Len(acc.out) : j < m => from[j] < from[m]
  /\ acc.over \/ \A i \in Ready(tbl, bits) : i <= k => \E j \in 1..Len(acc.out) : from[j] = i

Scanned(tbl, bits, n, k, acc) ==
  /\ acc \in Accs
  /\ acc.left = n - Len(acc.out)
  /\ acc.over => acc.left = 0
  /\ \E from : Places(from, tbl, bits, k, acc)

\* A set of numbers has a smallest element.
LessThan == {ss \in Nat \X Nat : ss[1] < ss[2]}

LEMMA LeastNumber ==
  ASSUME NEW S \in SUBSET Nat, S # {}
  PROVE  \E x \in S : \A y \in S : x <= y
<1>1. IsWellFoundedOn(LessThan, Nat)
  BY NatLessThanWellFounded DEF LessThan, OpToRel
<1>2. PICK x \in S : \A y \in S : ~(<<y, x>> \in LessThan)
  BY <1>1, WFMin
<1>3. ASSUME NEW y \in S
      PROVE  x <= y
  <2>1. x \in Nat /\ y \in Nat /\ ~(<<y, x>> \in LessThan)
    BY <1>2
  <2>2. QED
    BY <2>1 DEF LessThan
<1>4. QED
  BY <1>3

LEMMA ScanIs ==
  ASSUME NEW tbl \in Seq(Entries), NEW bits, NEW n
  PROVE  LET r == Scan(tbl, bits, n)
         IN  r = [k \in 0..Len(tbl) |-> IF k = 0 THEN NoneYet(n) ELSE Visit(r[k - 1], tbl[k], bits)]
<1> DEFINE L == Len(tbl)
           Upto(j, f) == [k \in 0..j |-> IF k = 0 THEN NoneYet(n) ELSE Visit(f[k - 1], tbl[k], bits)]
           r == Scan(tbl, bits, n)
           D == {j \in 0..L : ~\E f : f = Upto(j, f)}
<1>1. L \in Nat
  OBVIOUS
<1>2. r = CHOOSE f : f = Upto(L, f)
  BY DEF Scan, NoneYet
<1>3. D = {}
  <2> SUFFICES ASSUME D # {} PROVE FALSE
    OBVIOUS
  <2>1. PICK j \in D : \A m \in D : j <= m
    <3>1. D \in SUBSET Nat
      BY <1>1
    <3> HIDE DEF D
    <3>2. QED
      BY <3>1, LeastNumber
  <2>2. j \in Nat /\ j \in 0..L
    BY <1>1
  <2>3. ~\E f : f = Upto(j, f)
    BY <2>1
  <2>4. CASE j = 0
    <3> DEFINE f == [k \in 0..0 |-> NoneYet(n)]
    <3>1. f = Upto(0, f)
      OBVIOUS
    <3>2. QED
      BY <2>3, <2>4, <3>1
  <2>5. CASE j # 0
    <3>1. j - 1 \in 0..L /\ j - 1 \notin D
      BY <1>1, <2>1, <2>2, <2>5
    <3>2. PICK f : f = Upto(j - 1, f)
      BY <3>1
    <3> DEFINE g == [k \in 0..j |-> IF k <= j - 1 THEN f[k] ELSE Visit(f[j - 1], tbl[j], bits)]
    <3>3. ASSUME NEW k \in 0..j
          PROVE  g[k] = IF k = 0 THEN NoneYet(n) ELSE Visit(g[k - 1], tbl[k], bits)
      <4>1. CASE k <= j - 1
        <5>1. k \in 0..(j - 1) /\ g[k] = f[k]
          BY <2>2, <4>1
        <5>2. f[k] = IF k = 0 THEN NoneYet(n) ELSE Visit(f[k - 1], tbl[k], bits)
          BY <3>2, <5>1
        <5>3. k # 0 => g[k - 1] = f[k - 1]
          BY <2>2, <4>1
        <5>4. QED
          BY <5>1, <5>2, <5>3
      <4>2. CASE ~(k <= j - 1)
        <5>1. k = j /\ k # 0 /\ g[k - 1] = f[j - 1]
          BY <2>2, <2>5, <4>2
        <5>2. QED
          BY <4>2, <5>1
      <4>3. QED
        BY <4>1, <4>2
    <3>4. g = Upto(j, g)
      BY <3>3
    <3>5. QED
      BY <2>3, <3>4
  <2>6. QED
    BY <2>4, <2>5
<1>4. \E f : f = Upto(L, f)
  BY <1>1, <1>3
<1> HIDE DEF r, Upto
<1>5. r = Upto(L, r)
  BY <1>2, <1>4
<1>6. QED
  BY <1>5 DEF r, Upto

LEMMA VisitScans ==
  ASSUME NEW tbl \in Seq(Entries), NEW bits, NEW n \in Int, NEW k \in 1..Len(tbl), NEW acc,
         Scanned(tbl, bits, n, k - 1, acc)
  PROVE  Scanned(tbl, bits, n, k, Visit(acc, tbl[k], bits))
<1> DEFINE next == Visit(acc, tbl[k], bits)
           m == Len(acc.out)
<1>1. PICK from : Places(from, tbl, bits, k - 1, acc)
  BY DEF Scanned
<1>2. acc \in Accs /\ acc.left = n - m /\ (acc.over => acc.left = 0) /\ m \in Nat
  BY DEF Scanned, Accs
<1>3. tbl[k] \in Entries /\ Len(tbl) \in Nat /\ k \in Nat
  OBVIOUS
<1>4. \A i \in Ready(tbl, bits) : i \in Nat /\ tbl[i][1] \in bits
  BY DEF Ready
<1>5. CASE acc.over \/ tbl[k][1] \notin bits
  <2>1. next = acc
    BY <1>5 DEF Visit
  <2>2. ~acc.over => k \notin Ready(tbl, bits)
    BY <1>4, <1>5
  <2>3. Places(from, tbl, bits, k, acc)
    <3>1. \A j \in 1..m : from[j] \in Nat /\ from[j] <= k
      BY <1>1, <1>3, <1>4 DEF Places
    <3>2. ~acc.over => \A i \in Ready(tbl, bits) : i <= k => i <= k - 1
      BY <1>3, <1>4, <2>2
    <3>3. QED
      BY <1>1, <3>1, <3>2 DEF Places
  <2>4. QED
    BY <1>2, <2>1, <2>3 DEF Scanned
<1>6. CASE ~acc.over /\ tbl[k][1] \in bits
  <2>1. next = [left |-> acc.left - 1, out |-> Append(acc.out, tbl[k]), over |-> acc.left = 1]
    BY <1>6 DEF Visit
  <2>2. /\ next \in Accs /\ Len(next.out) = m + 1 /\ next.out[m + 1] = tbl[k]
        /\ \A j \in 1..m : next.out[j] = acc.out[j]
    BY <1>2, <1>3, <2>1 DEF Accs
  <2>3. next.left = n - (m + 1) /\ (next.over => next.left = 0)
    <3>1. acc.left \in Int
      BY <1>2 DEF Accs
    <3>2. next.left = acc.left - 1 /\ next.over = (acc.left = 1)
      BY <2>1
    <3>3. next.over => acc.left = 1
      BY <3>2
    <3> HIDE DEF next, m
    <3>4. QED
      BY <1>2, <3>1, <3>2, <3>3
  <2> DEFINE new == [j \in 1..(m + 1) |-> IF j = m + 1 THEN k ELSE from[j]]
  <2>4. new[m + 1] = k /\ \A j \in 1..m : new[j] = from[j]
    BY <1>2
  <2>5. k \in Ready(tbl, bits)
    BY <1>3, <1>6 DEF Ready
  <2>6. ASSUME NEW j \in 1..m
        PROVE  from[j] \in Ready(tbl, bits) /\ from[j] \in Nat /\ from[j] < k
    <3>1. from[j] \in Ready(tbl, bits) /\ from[j] <= k - 1
      BY <1>1 DEF Places
    <3>2. from[j] \in Nat
      BY <1>4, <3>1
    <3>3. QED
      BY <1>3, <3>1, <3>2
  <2>7. DOMAIN new = 1..(m + 1)
    OBVIOUS
  <2>8. \A j \in 1..(m + 1) : j = m + 1 \/ j \in 1..m
    BY <1>2
  <2>9. new \in [1..(m + 1) -> Ready(tbl, bits)]
    BY <2>5, <2>6, <2>8
  <2> HIDE DEF new, next
  <2>10. Places(new, tbl, bits, k, next)
    <3>1. \A j \in 1..(m + 1) : next.out[j] = tbl[new[j]] /\ new[j] <= k
      <4> TAKE j \in 1..(m + 1)
      <4>1. CASE j = m + 1
        BY <1>3, <2>2, <2>4, <4>1
      <4>2. CASE j # m + 1
        <5>1. j \in 1..m
          BY <2>8, <4>2
        <5>2. acc.out[j] = tbl[from[j]]
          BY <1>1, <5>1 DEF Places
        <5>3. QED
          BY <1>3, <2>2, <2>4, <2>6, <5>1, <5>2
      <4>3. QED
        BY <4>1, <4>2
    <3>2. \A j, p \in 1..(m + 1) : j < p => new[j] < new[p]
      <4> TAKE j, p \in 1..(m + 1)
      <4> HAVE j < p
      <4>1. j \in 1..m
        BY <1>2
      <4>2. CASE p = m + 1
        BY <2>4, <2>6, <4>1, <4>2
      <4>3. CASE p # m + 1
        BY <1>1, <2>4, <2>8, <4>1, <4>3 DEF Places
      <4>4. QED
        BY <4>2, <4>3
    <3>3. ASSUME NEW i \in Ready(tbl, bits), i <= k
          PROVE  \E j \in 1..(m + 1) : new[j] = i
      <4>1. CASE i = k
        BY <1>2, <2>4, <4>1
      <4>2. CASE i # k
        <5>1. i <= k - 1
          BY <1>3, <1>4, <3>3, <4>2
        <5>2. PICK j \in 1..m : from[j] = i
          BY <1>1, <1>6, <5>1 DEF Places
        <5>3. QED
          BY <1>2, <2>4, <5>2
      <4>3. QED
        BY <4>1, <4>2
    <3>4. QED
      BY <2>2, <2>9, <3>1, <3>2, <3>3 DEF Places
  <2>11. QED
    BY <2>2, <2>3, <2>10 DEF Scanned, next
<1>7. QED
  BY <1>2, <1>5, <1>6 DEF Accs

LEMMA ScanHolds ==
  ASSUME NEW tbl \in Seq(Entries), NEW bits, NEW n \in Int
  PROVE  Scanned(tbl, bits, n, Len(tbl), Found(tbl, bits, n))
<1> DEFINE L == Len(tbl)
           r == Scan(tbl, bits, n)
           D == {k \in 0..L : ~Scanned(tbl, bits, n, k, r[k])}
<1>1. L \in Nat
  OBVIOUS
<1>2. r = [k \in 0..L |-> IF k = 0 THEN NoneYet(n) ELSE Visit(r[k - 1], tbl[k], bits)]
  BY ScanIs
<1> HIDE DEF r
<1>3. D = {}
  <2> SUFFICES ASSUME D # {} PROVE FALSE
    OBVIOUS
  <2>1. PICK k \in D : \A m \in D : k <= m
    <3>1. D \in SUBSET Nat
      BY <1>1
    <3> HIDE DEF D
    <3>2. QED
      BY <3>1, LeastNumber
  <2>2. k \in Nat /\ k \in 0..L /\ ~Scanned(tbl, bits, n, k, r[k])
    BY <1>1, <2>1
  <2>3. CASE k = 0
    <3>1. r[0] = NoneYet(n)
      BY <1>1, <1>2
    <3>2. NoneYet(n) \in Accs /\ Len(NoneYet(n).out) = 0 /\ NoneYet(n).left = n /\ ~NoneYet(n).over
      BY DEF NoneYet, Accs
    <3> DEFINE from == [j \in 1..0 |-> 0]
    <3>3. Places(from, tbl, bits, 0, NoneYet(n))
      BY <3>2 DEF Places, Ready
    <3>4. Scanned(tbl, bits, n, 0, NoneYet(n))
      BY <3>2, <3>3 DEF Scanned
    <3>5. QED
      BY <2>2, <2>3, <3>1, <3>4
  <2>4. CASE k # 0
    <3>1. k - 1 \in 0..L /\ k - 1 \notin D /\ k \in 1..Len(tbl)
      BY <1>1, <2>1, <2>2, <2>4
    <3>2. Scanned(tbl, bits, n, k - 1, r[k - 1])
      BY <3>1
    <3>3. r[k] = Visit(r[k - 1], tbl[k], bits)
      BY <1>2, <2>2, <2>4
    <3>4. QED
      BY <2>2, <3>1, <3>2, <3>3, VisitScans
  <2>5. QED
    BY <2>3, <2>4
<1>4. Scanned(tbl, bits, n, L, r[L])
  BY <1>1, <1>3
<1>5. QED
  BY <1>4 DEF Found, r

\* No socket is twice in the table: the entries that are ready are as many as the sockets.
LEMMA ReadyAreBits ==
  ASSUME NEW tbl \in Seq(Entries), NEW bits \in SUBSET FdSet(tbl), Once(tbl)
  PROVE  /\ IsFiniteSet(Ready(tbl, bits)) /\ IsFiniteSet(bits)
         /\ Cardinality(bits) \in Nat /\ Cardinality(Ready(tbl, bits)) = Cardinality(bits)
<1> DEFINE I == Ready(tbl, bits)
           f == [i \in I |-> tbl[i][1]]
<1>1. DOMAIN tbl = 1..Len(tbl) /\ Len(tbl) \in Nat
  OBVIOUS
<1>2. IsFiniteSet(I)
  <2>1. I \in SUBSET (1..Len(tbl))
    BY DEF Ready
  <2>2. IsFiniteSet(1..Len(tbl))
    BY <1>1, FS_Interval
  <2>3. QED
    BY <2>1, <2>2, FS_Subset
<1>3. \A i \in I : i \in DOMAIN tbl /\ tbl[i][1] \in bits
  BY <1>1 DEF Ready
<1>4. f \in [I -> bits]
  BY <1>3
<1>5. \A i, j \in I : f[i] = f[j] => i = j
  BY <1>3 DEF Once
<1>6. \A b \in bits : \E i \in I : f[i] = b
  BY <1>1 DEF FdSet, Ready
<1> HIDE DEF f, I
<1>7. f \in Bijection(I, bits)
  BY <1>4, <1>5, <1>6 DEF Bijection, Injection, Surjection, IsInjective
<1>8. ExistsBijection(I, bits)
  BY <1>7 DEF ExistsBijection
<1>9. IsFiniteSet(bits) /\ Cardinality(bits) = Cardinality(I)
  BY <1>2, <1>8, FS_Bijection
<1>10. Cardinality(bits) \in Nat
  BY <1>9, FS_CardinalityType
<1>11. QED
  BY <1>2, <1>9, <1>10 DEF I

LEMMA FoundIsExact ==
  ASSUME NEW tbl \in Seq(Entries), NEW bits \in SUBSET FdSet(tbl), Once(tbl),
         NEW n \in Int, Cardinality(bits) <= n
  PROVE  /\ HoldsReady(Found(tbl, bits, n).out, tbl, bits)
         /\ Found(tbl, bits, n).left = n - Cardinality(bits)
<1> DEFINE acc == Found(tbl, bits, n)
           I == Ready(tbl, bits)
           m == Len(acc.out)
<1>1. Scanned(tbl, bits, n, Len(tbl), acc)
  BY ScanHolds
<1> HIDE DEF acc
<1>2. PICK from : Places(from, tbl, bits, Len(tbl), acc)
  BY <1>1 DEF Scanned
<1>3. acc \in Accs /\ m \in Nat /\ DOMAIN acc.out = 1..m
  BY <1>1 DEF Scanned, Accs
<1>4. /\ from \in [1..m -> I]
      /\ \A j \in 1..m : acc.out[j] = tbl[from[j]]
      /\ \A j, p \in 1..m : j < p => from[j] < from[p]
      /\ acc.over \/ \A i \in I : i <= Len(tbl) => \E j \in 1..m : from[j] = i
  BY <1>2 DEF Places
<1>5. IsFiniteSet(I) /\ Cardinality(I) = Cardinality(bits) /\ Cardinality(bits) \in Nat
  BY ReadyAreBits
<1>6. \A i \in I : i \in 1..Len(tbl)
  BY DEF Ready
<1>7. acc.left = n - m /\ (acc.over => acc.left = 0)
  BY <1>1 DEF Scanned
<1> HIDE DEF m, I
<1>8. from \in Injection(1..m, I)
  <2>1. \A j, p \in 1..m : from[j] = from[p] => j = p
    <3> TAKE j, p \in 1..m
    <3> HAVE from[j] = from[p]
    <3>1. from[j] \in I /\ from[j] \in Int
      BY <1>4, <1>6
    <3>2. ~(j < p) /\ ~(p < j)
      BY <1>4, <3>1
    <3>3. QED
      BY <3>2
  <2>2. QED
    BY <1>4, <2>1 DEF Injection, IsInjective
<1>9. IsFiniteSet(1..m) /\ Cardinality(1..m) = m
  BY <1>3, FS_Interval, 1 \in Int, m \in Int
<1>10. m <= Cardinality(I) /\ (m = Cardinality(I) <=> from \in Surjection(1..m, I))
  BY <1>5, <1>8, <1>9, FS_Injection
<1>11. m = Cardinality(I)
  <2>1. CASE acc.over
    <3>1. acc.left = 0 /\ acc.left = n - m
      BY <1>7, <2>1
    <3>2. QED
      BY <1>3, <1>5, <1>10, <3>1
  <2>2. CASE ~acc.over
    <3>1. \A i \in I : \E j \in 1..m : from[j] = i
      BY <1>4, <1>6, <2>2
    <3>2. from \in Surjection(1..m, I)
      BY <1>4, <3>1 DEF Surjection
    <3>3. QED
      BY <1>10, <3>2
  <2>3. QED
    BY <2>1, <2>2
<1>12. \A i \in I : \E j \in 1..m : from[j] = i
  BY <1>10, <1>11 DEF Surjection
<1>13. HoldsReady(acc.out, tbl, bits)
  <2>1. I = {i \in DOMAIN tbl : tbl[i][1] \in bits}
    BY DEF I, Ready
  <2> DEFINE J == {i \in DOMAIN tbl : tbl[i][1] \in bits}
  <2>2. /\ from \in [DOMAIN acc.out -> J]
        /\ \A k \in DOMAIN acc.out : acc.out[k] = tbl[from[k]]
        /\ \A k, p \in DOMAIN acc.out : k < p => from[k] < from[p]
        /\ \A i \in J : \E k \in DOMAIN acc.out : from[k] = i
    BY <1>3, <1>4, <1>12, <2>1
  <2>3. QED
    BY <2>2, Zenon DEF HoldsReady
<1>14. acc.left = n - Cardinality(bits)
  BY <1>7, <1>5, <1>11
<1>15. QED
  BY <1>13, <1>14 DEF acc

LEMMA TablesAreSequences == Tables2 \subseteq Seq(Entries)
<1> SUFFICES ASSUME NEW tbl \in Tables2 PROVE tbl \in Seq(Entries)
  OBVIOUS
<1>1. PICK m \in 0..MaxEntries : tbl \in [1..m -> Entries]
  BY DEF Tables2, SeqOf
<1>2. m \in Nat
  BY NetSelectAssumption
<1>3. QED
  BY <1>1, <1>2

\* A call of Net.Socket.select() that succeeds returns exactly the sockets that are ready,
\* in order, for tables of any length.
THEOREM SelectTellsAll == NetSelectSpec => []SelectIsExact
<1>1. NetSelectInit => SelectIsExact
  BY DEF NetSelectInit, NoCall, SelectIsExact
<1>2. SelectIsExact /\ [NetSelectNext]_call => SelectIsExact'
  <2> SUFFICES ASSUME SelectIsExact, [NetSelectNext]_call PROVE SelectIsExact'
    OBVIOUS
  <2>1. CASE UNCHANGED call
    BY <2>1 DEF SelectIsExact
  <2>2. ASSUME NEW rd \in Tables2, NEW wr \in Tables2, SelectFails(rd, wr)
        PROVE  SelectIsExact'
    BY <2>2 DEF SelectFails, SelectIsExact
  <2>3. ASSUME NEW rd \in Tables2, NEW wr \in Tables2, NEW rbits \in SUBSET FdSet(rd),
               NEW wbits \in SUBSET FdSet(wr), SelectCall(rd, wr, rbits, wbits)
        PROVE  SelectIsExact'
    <3> DEFINE n == Cardinality(rbits) + Cardinality(wbits)
               r == Found(rd, rbits, n)
               w == Found(wr, wbits, r.left)
    <3>1. /\ call'.rd = rd /\ call'.wr = wr /\ call'.rbits = rbits /\ call'.wbits = wbits
          /\ call'.out[1] = r.out /\ call'.out[2] = w.out
      BY <2>3 DEF SelectCall, Results
    <3> SUFFICES ASSUME Once(rd), Once(wr)
                 PROVE  HoldsReady(r.out, rd, rbits) /\ HoldsReady(w.out, wr, wbits)
      BY <3>1 DEF SelectIsExact
    <3>2. rd \in Seq(Entries) /\ wr \in Seq(Entries)
      BY TablesAreSequences
    <3>3. Cardinality(rbits) \in Nat /\ Cardinality(wbits) \in Nat
      BY <3>2, ReadyAreBits
    <3>4. n \in Int /\ Cardinality(rbits) <= n
      BY <3>3
    <3> HIDE DEF r, n
    <3>5. HoldsReady(r.out, rd, rbits) /\ r.left = n - Cardinality(rbits)
      BY <3>2, <3>4, FoundIsExact DEF r
    <3>6. r.left \in Int /\ Cardinality(wbits) <= r.left
      BY <3>3, <3>5 DEF n
    <3>7. HoldsReady(w.out, wr, wbits)
      BY <3>2, <3>6, FoundIsExact
    <3>8. QED
      BY <3>5, <3>7
  <2>4. QED
    BY <2>1, <2>2, <2>3 DEF NetSelectNext
<1>3. QED
  BY <1>1, <1>2, PTL DEF NetSelectSpec
===============================================================================
