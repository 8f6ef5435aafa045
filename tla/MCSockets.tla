------------------------------ MODULE MCSockets ------------------------------
(***************************************************************************)
(* Small instances in one run, of which the initial state chooses          *)
(* one.  "calls": a server, a client and the connection make every call of *)
(* a socket, without a loop.  "reuse": sockets that nobody                 *)
(* connects, of which the numbers are given out again while the loop still *)
(* knows them; the events the kernel may report do not depend on the data. *)
(* "handles": EventLoop alone, with two descriptors, so that a batch has   *)
(* two events of which the first callback can change what the second       *)
(* meets, and a task.  "select": SelectLoop alone.  "addresses", "ready",  *)
(* "options" and "interfaces": Address, NetSelect, SocketOptions and       *)
(* Interfaces.                                                             *)
(***************************************************************************)
EXTENDS SocketLoop, SelectLoop, Address, NetSelect, SocketOptions, Interfaces, TLC

CONSTANTS t1, s1, s2, s3

VARIABLE job

OneTask == {t1}
ShortDelays == {1}
UpToOne == {0, 1}
ThreeSocks == {s1, s2, s3}
NumberedEntries == {<<1, 0>>, <<2, 0>>}
KeyedEntries == {<<2, 1>>}
SomeNumbers == {-4, -1, 0, 1, 7}

\* The links of the machine in their order, then up to two addresses.  A label of eth0 has
\* its flags and no link of its own; an unconfigured tunnel has neither flags nor address.
Running == {"IFF_UP", "IFF_BROADCAST", "IFF_RUNNING", "IFF_MULTICAST"}
Link(n, bits, rx) == [name |-> n, family |-> "packet", flags |-> bits, data |-> rx,
                      addr |-> n, mask |-> Absent, far |-> Absent]
Inet(n, f, a) == [name |-> n, family |-> f, flags |-> Running, data |-> Absent, addr |-> a,
                  mask |-> "mask", far |-> IF f = "inet" THEN a ELSE Absent]
LoLink == Link("lo", {"IFF_UP", "IFF_RUNNING"}, 4)
Tunnel == [Link("tunl0", {}, Absent) EXCEPT !.family = "none", !.addr = Absent]
SomeLinks ==
  {<<LoLink, Link("eth0", Running, n), Link("eth1", b, 2)>>
     : n \in {1, 3}, b \in {Running, {"IFF_BROADCAST", "IFF_MULTICAST"}}}
  \cup {<<Link("eth0", Running, 1), Tunnel>>, <<LoLink, Link("docker0", Running, 5)>>}
SomeAddresses == {Inet("eth0", "inet", "a"), Inet("eth0", "inet", "b"),
                  Inet("eth0", "inet6", "c"), Inet("eth0:1", "inet", "d")}
SomeChains == {l \o a : l \in SomeLinks, a \in {<< >>} \cup {<<b, c>> : b, c \in SomeAddresses}}
Swaps == Permutations(ThreeSocks)

MCInit ==
  /\ job \in {"calls", "reuse", "handles", "select", "addresses", "ready", "options", "interfaces"}
  /\ SocketLoopInit /\ AddressInit /\ NetSelectInit /\ InterfaceInit
  /\ SelectInit /\ (job = "select" \/ (fdMax = MaxNumber /\ marks = {}))
  /\ OptionInit /\ (job = "options" \/ flags.status = {})

\* A new socket, or a socket or descriptor call of the loop.
Reuse ==
  \/ LuaRuns /\ (\E s \in Socks : New(s)) /\ UNCHANGED <<vars, historyVars>>
  \/ CloseSocket
  \/ \E s \in Socks, m \in Masks : Observe(s, m) \/ Unobserve(s, m)
  \/ PollSockets \/ DispatchSocket \/ OtherSteps

MCNext ==
  /\ UNCHANGED job
  /\ \/ job = "calls" /\ (CallSocket \/ CloseSocket)
     \/ job = "reuse" /\ Reuse
     \/ job = "handles" /\ Next /\ UNCHANGED <<sockVars, historyVars>>
     \/ job = "select" /\ SelectNext /\ UNCHANGED <<taskVars, loopVars, sockVars, historyVars>>
     \/ job = "ready" /\ NetSelectNext /\ UNCHANGED socketLoopVars
     \/ job = "options" /\ OptionNext /\ UNCHANGED socketLoopVars
     \/ job = "interfaces" /\ InterfaceNext /\ UNCHANGED socketLoopVars
     \/ job = "addresses" /\ AddressNext /\ UNCHANGED socketLoopVars
  /\ job # "ready" => UNCHANGED call
  /\ job # "interfaces" => UNCHANGED interfaceVars
  /\ job # "options" => UNCHANGED optionVars
  /\ job # "addresses" => UNCHANGED addressVars
  /\ job # "select" => UNCHANGED <<fdMax, marks, scanVars, changed>>

MCSpec ==
  MCInit /\ [][MCNext]_<<socketLoopVars, selectVars, addressVars, call, optionVars, interfaceVars, job>>
===============================================================================
