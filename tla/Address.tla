------------------------------- MODULE Address -------------------------------
(***************************************************************************)
(* t.Net.Address (src/src/t_net_adr.c and the macros of t_net_l.h): a      *)
(* sockaddr_storage that is read as an IPv4, an IPv6 or a UNIX address.    *)
(* The port is at the same place for the first two; the IPv4 address is    *)
(* where IPv6 has its flowinfo ("low"), and the IPv6 address behind it:    *)
(* eight bytes ("h1") within the length of an IPv4 address, and eight      *)
(* beyond ("h2").  A path lies over all of them.                           *)
(***************************************************************************)
EXTENDS Naturals, Sequences

CONSTANTS
  Words,    \* the values a part of an IP address may have, with 0
  PortEnd,  \* 2^16
  Other     \* the bytes of a path, or what nobody set

ASSUME AddressAssumption == 0 \in Words /\ Other \notin Words \cup Nat /\ PortEnd \in Nat \ {0, 1}

VARIABLES
  adr,   \* [family, port, low, h1, h2]
  said   \* history: [ip, port] that were set last, or Other

addressVars == <<adr, said>>

Families == {"unspec", "inet", "inet6", "unix"}
IPs == {<<w>> : w \in Words} \cup (Words \X Words)
Layout == <<"port", "low", "h1", "h2">>
Zero == [family |-> "inet", port |-> 0, low |-> 0, h1 |-> 0, h2 |-> 0]

\* Writes bytes without looking at what they mean.
Overlay(a, parts) == [x \in DOMAIN a |-> IF x \in DOMAIN parts THEN parts[x] ELSE a[x]]

\* SOCK_ADDR_SS_ADDR: what is not IPv6 is read as IPv4.
IpOf(a) == IF a.family = "inet6" THEN <<a.h1, a.h2>> ELSE <<a.low>>

\* Mutant: the address starts from nothing.
WithIpAfresh(a, ip) ==
  IF Len(ip) = 2 THEN Overlay(Zero, [family |-> "inet6", h1 |-> ip[1], h2 |-> ip[2]])
  ELSE Overlay(Zero, [family |-> "inet", low |-> ip[1]])
\* t_net_adr_setAddr for a text that is an IPv6 or an IPv4 address.
WithIp(a, ip) ==
  IF Len(ip) = 2 THEN Overlay(a, [family |-> "inet6", h1 |-> ip[1], h2 |-> ip[2]])
  ELSE Overlay(a, [family |-> "inet", low |-> ip[1]])

\* ... and for any other text: a path, which covers the first n parts.
WithPath(a, n) ==
  Overlay(Overlay(a, [family |-> "unix"]), [x \in {Layout[i] : i \in 1..n} |-> Other])

IsIp(a) == a.family \in {"inet", "inet6"}

\* t_net_adr_setPort: 65536 is allowed and becomes 0; no other family has a port.
WithPort(a, port) == IF IsIp(a) THEN [a EXCEPT !.port = port % PortEnd] ELSE a

\* lt_net_adr__eq
Equal(a, b) == a.family = b.family /\ IsIp(a) /\ IpOf(a) = IpOf(b) /\ a.port = b.port

\* What the kernel's answer is, as bytes: that of an IPv4 address ends after h1.
Sockaddr(ip, port) == WithPort(WithIp(Zero, ip), port)
Capacity(a) == IF a.family = "inet6" THEN {"family", "port", "low", "h1", "h2"}
               ELSE {"family", "port", "low", "h1"}
Answer(ip) == IF Len(ip) = 2 THEN {"family", "port", "low", "h1", "h2"}
              ELSE {"family", "port", "low", "h1"}

\* Arguments of the calls of Socket.lua; "adr" is the address object of the program.
NoArg      == [kind |-> "nil"]
AdrArg     == [kind |-> "adr"]
HostArg(ip) == [kind |-> "host", ip |-> ip]
NumArg(n)  == [kind |-> "num", n |-> n]

\* getAddressArgs, of which the backlog is left out: a number alone is one.
ListenAddress(host, port, default) ==
  CASE host.kind = "adr"  -> adr
    [] host.kind = "host" -> Sockaddr(host.ip, IF port.kind = "num" THEN port.n ELSE 0)
    [] host.kind = "num" /\ port.kind = "num" -> Sockaddr(<<0>>, host.n)
    [] OTHER -> default

\* getAddress, of bind() and connect(), in the forms of the docs: a host without a port
\* counts for nothing.
BindAddress(host, port) ==
  CASE host.kind = "adr" -> adr
    [] host.kind = "num" /\ port.kind = "nil" -> Sockaddr(<<0>>, host.n)
    [] host.kind = "host" /\ port.kind = "num" -> Sockaddr(host.ip, port.n)
    [] OTHER -> Zero
-----------------------------------------------------------------------------
AddressInit == adr = Zero /\ said = [ip |-> <<0>>, port |-> 0]

\* Address(ip, port): an IPv4 address without the first, port 0 without the second.
Construct(ip, port) ==
  /\ adr' = Sockaddr(ip, port)
  /\ said' = [ip |-> ip, port |-> port % PortEnd]

\* Address(adr): by way of the text of its IP, whatever it is the address of.
CopyAddress ==
  \E ip \in IPs :
    /\ Len(ip) = Len(IpOf(adr)) /\ \A i \in DOMAIN ip : IpOf(adr)[i] \in {ip[i], Other}
    /\ adr' = Overlay(WithIp(Zero, ip), [port |-> adr.port])
    /\ UNCHANGED said

SetIp(ip) == adr' = WithIp(adr, ip) /\ said' = [said EXCEPT !.ip = ip]
SetPath(n) == adr' = WithPath(adr, n) /\ said' = [ip |-> Other, port |-> Other]
SetPort(port) ==
  /\ adr' = WithPort(adr, port)
  /\ said' = IF IsIp(adr) THEN [said EXCEPT !.port = port % PortEnd] ELSE said
SetFamily(f) ==
  /\ adr' = [adr EXCEPT !.family = f]
  /\ said' = IF f = adr.family THEN said ELSE [said EXCEPT !.ip = Other]

\* getsockname(), accept() and recv(): the kernel writes as much of the address as
\* the family of the object has room for (SOCK_ADDR_SS_LEN).
Fill(ip, port) ==
  LET room == Capacity(adr) \cap Answer(ip)
      full == Sockaddr(ip, port)
  IN  /\ adr' = Overlay(adr, [x \in room |-> full[x]])
      /\ said' = [ip |-> IF Answer(ip) \subseteq room THEN ip ELSE Other, port |-> port % PortEnd]

\* listen() and bind() hand the address a to the program, which meant ip and port.
Takes(a, ip, port) == adr' = a /\ said' = [ip |-> ip, port |-> port % PortEnd]
Keeps(a)           == adr' = a /\ UNCHANGED said

\* Socket.listen(): (), (bl), (port, bl), (host), (host, port), (adr), with a backlog or not.
ListenAt(ip, port) ==
  \/ Takes(ListenAddress(NoArg, NoArg, Zero), <<0>>, 0)
  \/ Takes(ListenAddress(NumArg(port), NoArg, Zero), <<0>>, 0)
  \/ Takes(ListenAddress(NumArg(port), NumArg(1), Zero), <<0>>, port)
  \/ Takes(ListenAddress(HostArg(ip), NoArg, Zero), ip, 0)
  \/ Takes(ListenAddress(HostArg(ip), NumArg(port), Zero), ip, port)
  \/ Keeps(ListenAddress(AdrArg, NumArg(port), Zero))

\* bind() and connect(): (), (port), (host, port), (adr); and (host), which the docs
\* offer as well and which gives another host.
BindAt(ip, port) ==
  \/ Takes(BindAddress(NoArg, NoArg), <<0>>, 0)
  \/ Takes(BindAddress(NumArg(port), NoArg), <<0>>, port)
  \/ Takes(BindAddress(HostArg(ip), NumArg(port)), ip, port)
  \/ Takes(BindAddress(HostArg(ip), NoArg), Other, 0)
  \/ Keeps(BindAddress(AdrArg, NoArg))

AddressNext ==
  \/ CopyAddress
  \/ \E ip \in IPs, port \in {0, 1, PortEnd} :
       Construct(ip, port) \/ ListenAt(ip, port) \/ BindAt(ip, port)
  \/ \E ip \in IPs : SetIp(ip)
  \/ \E n \in 1..4 : SetPath(n)
  \/ \E port \in {0, 1, PortEnd} : SetPort(port)
  \/ \E f \in Families : SetFamily(f)
  \/ \E ip \in IPs, port \in {0, 1} : Fill(ip, port)

AddressSpec == AddressInit /\ [][AddressNext]_addressVars

(***************************************************************************)
(* Properties.                                                             *)
(***************************************************************************)

\* The IP and the port of an IPv4 or IPv6 address are those set last, each on its own and
\* in any order, and "==" agrees with them for any other address, whatever bytes of other
\* families are still in the storage.  That holds from where they are set again after a
\* path took their place, "family" was changed, or the kernel wrote an IPv6 address to an
\* object of another family: half of it is missing then (t_net_l.h:114, p_net_sck_unx.c:204).
AddressKeeps ==
  IsIp(adr) =>
    /\ said.ip # Other => IpOf(adr) = said.ip
    /\ said.port # Other => adr.port = said.port
    /\ Other \notin {said.ip, said.port} =>
         \A ip \in IPs, port \in {0, 1} : Equal(adr, Sockaddr(ip, port)) <=> said = [ip |-> ip, port |-> port]
===============================================================================
