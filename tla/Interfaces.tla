------------------------------ MODULE Interfaces ------------------------------
(***************************************************************************)
(* The network interfaces of the machine (p_net_ifc_lnx.c, t_net_ifc.c,    *)
(* Net/Interface.lua).  getifaddrs() returns a chain of entries, in which  *)
(* an interface has one entry for its link and one for each of its         *)
(* addresses, and list() and get() gather from them one table per name.    *)
(* default() picks one of the tables.                                      *)
(***************************************************************************)
EXTENDS Integers, Sequences

CONSTANTS
  Chains,     \* the chains getifaddrs() may return
  LoName,     \* "lo"
  Dockers,    \* the names that match 'docker'
  Absent      \* NULL in an entry, nil in a table

Flags == {"IFF_UP", "IFF_BROADCAST", "IFF_RUNNING", "IFF_MULTICAST"}
InetFamilies == {"inet", "inet6"}
EntryFits(e) ==
  /\ e = [name |-> e.name, family |-> e.family, flags |-> e.flags, data |-> e.data,
          addr |-> e.addr, mask |-> e.mask, far |-> e.far]
  /\ e.name # Absent /\ e.flags \in SUBSET Flags /\ e.data \in Nat \cup {Absent}

\* The kernel gives the loopback device no broadcast address.
ASSUME InterfaceAssumption ==
  /\ Absent \notin Nat
  /\ \A c \in Chains :
       /\ c \in Seq({c[i] : i \in DOMAIN c}) /\ \A i \in DOMAIN c : EntryFits(c[i])
       /\ \A i \in DOMAIN c : c[i].name = LoName => "IFF_BROADCAST" \notin c[i].flags

VARIABLES
  chain,      \* what getifaddrs() returned to the call that runs
  ifa,        \* the entry that is next
  want,       \* if_name, Absent for NULL
  told,       \* the tables made so far, by name
  byDefault,  \* the list is the one that default() looks at
  unseen,     \* the names pairs() has still to visit
  candidate,  \* the name of the table default() keeps, Absent for nil
  failed      \* default() indexed the stats of a table without them

interfaceVars == <<chain, ifa, want, told, byDefault, unseen, candidate, failed>>

InterfaceInit ==
  /\ chain = << >> /\ ifa = 1 /\ want = Absent /\ told = [n \in {} |-> 0]
  /\ byDefault = FALSE /\ unseen = {} /\ candidate = Absent /\ failed = FALSE

(***************************************************************************)
(* One table per name.                                                     *)
(***************************************************************************)

\* There is no table of flags without flags.
NewTable == [flags |-> {}, stats |-> Absent, hw_address |-> Absent,
             list |-> [f \in InetFamilies |-> << >>]]

ParseFlags(r, e) == IF r.flags = {} THEN [r EXCEPT !.flags = e.flags] ELSE r

\* The last address of an entry is one field of a union.
MakeAddresses(e) ==
  [address |-> e.addr, netmask |-> e.mask,
   broadcast |-> IF "IFF_BROADCAST" \in e.flags THEN e.far ELSE Absent,
   peer |-> IF "IFF_BROADCAST" \in e.flags THEN Absent ELSE e.far]

\* Mutant: each address starts the table of its family anew.
GetAddressesAnew(r, e) ==
  IF e.family \in InetFamilies
    THEN [r EXCEPT !.list[e.family] = <<MakeAddresses(e)>>] ELSE r
GetAddresses(r, e) ==
  IF e.family \in InetFamilies
    THEN [r EXCEPT !.list[e.family] = Append(@, MakeAddresses(e))] ELSE r

GetStats(r, e) ==
  IF e.family = "packet" /\ e.data # Absent
    THEN [r EXCEPT !.stats = e.data, !.hw_address = e.addr] ELSE r

Gathered(r, e) == GetStats(GetAddresses(ParseFlags(r, e), e), e)

\* list(), get(name), default(): the chain is the machine's at the time of the call.
GetInterfaces(c, w, d) ==
  /\ ifa > Len(chain) /\ unseen = {} /\ (d => w = Absent)
  /\ chain' = c /\ ifa' = 1 /\ want' = w /\ told' = [n \in {} |-> 0]
  /\ byDefault' = d /\ candidate' = Absent /\ failed' = FALSE
  /\ UNCHANGED unseen

\* A round of the loop over the chain, and the first lines of default() after the last.
NextEntry ==
  LET e == chain[ifa]
      old == IF e.name \in DOMAIN told THEN told[e.name] ELSE NewTable
      new == [n \in DOMAIN told \cup {e.name} |-> IF n = e.name THEN Gathered(old, e) ELSE told[n]]
  IN  /\ ifa <= Len(chain) /\ ifa' = ifa + 1
      /\ told' = IF want \in {Absent, e.name} THEN new ELSE told
      /\ LET last == byDefault /\ ifa = Len(chain)
         IN  /\ unseen' = IF last THEN DOMAIN told' ELSE {}
             /\ candidate' = IF last /\ LoName \in DOMAIN told' THEN LoName ELSE Absent
      /\ UNCHANGED <<chain, want, byDefault, failed>>

(***************************************************************************)
(* Net.ifc.default().                                                      *)
(***************************************************************************)

Serves(n) ==
  /\ n \notin Dockers
  /\ {"IFF_RUNNING", "IFF_BROADCAST", "IFF_UP", "IFF_MULTICAST"} \subseteq told[n].flags

IsLo(n) == n = IF LoName \in DOMAIN told THEN LoName ELSE Absent

\* Without a candidate the stats are not looked at; else both must be there.
VisitInterface(n) ==
  /\ n \in unseen
  /\ LET compares == Serves(n) /\ ~IsLo(candidate)
         fails == compares /\ Absent \in {told[n].stats, told[candidate].stats}
         better == Serves(n) /\ (IsLo(candidate) \/ told[n].stats > told[candidate].stats)
     IN  /\ failed' = fails
         /\ unseen' = IF fails THEN {} ELSE unseen \ {n}
         /\ candidate' = IF ~fails /\ better THEN n ELSE candidate
  /\ UNCHANGED <<chain, ifa, want, told, byDefault>>

InterfaceNext ==
  \/ \E c \in Chains : \E w \in {c[i].name : i \in DOMAIN c} \cup {Absent}, d \in BOOLEAN :
       GetInterfaces(c, w, d)
  \/ NextEntry
  \/ \E n \in unseen : VisitInterface(n)

InterfaceSpec == InterfaceInit /\ [][InterfaceNext]_interfaceVars

(***************************************************************************)
(* Properties.                                                             *)
(***************************************************************************)

\* The entries of n that were read.
EntriesOf(n) == {i \in 1..ifa - 1 : chain[i].name = n}

\* The flags are those of the first entry that has any, the stats and the hardware address
\* those of the last entry of the link.
FlagsOfFirst(n) ==
  LET I == {i \in EntriesOf(n) : chain[i].flags # {}}
  IN  IF I = {} THEN told[n].flags = {}
      ELSE \E i \in I : told[n].flags = chain[i].flags /\ \A j \in I : i <= j

StatsOfLast(n) ==
  LET I == {i \in EntriesOf(n) : chain[i].family = "packet" /\ chain[i].data # Absent}
  IN  IF I = {} THEN told[n].stats = Absent /\ told[n].hw_address = Absent
      ELSE \E i \in I : /\ told[n].stats = chain[i].data /\ told[n].hw_address = chain[i].addr
                        /\ \A j \in I : j <= i

\* The k-th address told is that of the entry from[k]; none is left out, told twice or
\* out of its place.
EachAddressOnce(n, f) ==
  LET I == {i \in EntriesOf(n) : chain[i].family = f}
      list == told[n].list[f]
  IN  \E from \in [DOMAIN list -> I] :
        /\ \A k \in DOMAIN list : list[k] = MakeAddresses(chain[from[k]])
        /\ \A k, m \in DOMAIN list : k < m => from[k] < from[m]
        /\ \A i \in I : \E k \in DOMAIN list : from[k] = i

\* A table tells of its interface all that the chain holds, whether it is one of list() or
\* that of get(), and a name without entries has no table.
TablesTell ==
  /\ \A n \in DOMAIN told : want \in {Absent, n} /\ EntriesOf(n) # {}
  /\ \A i \in 1..ifa - 1 : want \in {Absent, chain[i].name} => chain[i].name \in DOMAIN told
  /\ \A n \in DOMAIN told :
       FlagsOfFirst(n) /\ StatsOfLast(n) /\ \A f \in InetFamilies : EachAddressOnce(n, f)

\* In whatever order pairs() visits the tables, default() keeps one that serves if it saw
\* any, and none it saw has received more; unless it raised an error.  This is what the code
\* makes sure of, and in two places not what docs/Net.Interface.rst:119-122 says: there the
\* default is the interface "with the most transmitted bytes", and the code compares
\* rx_bytes; and there the loopback is returned "*IF* it suffices above flags", and the code
\* returns it whenever no other interface serves, although it has no IFF_BROADCAST.
BusiestIsDefault ==
  byDefault /\ ifa > Len(chain) /\ ~failed =>
    LET seen == {n \in DOMAIN told \ unseen : Serves(n)}
    IN  /\ IF seen = {} THEN IsLo(candidate) ELSE candidate \in seen
        /\ \A n \in seen : n # candidate => told[n].stats <= told[candidate].stats

InterfacesTold == TablesTell /\ BusiestIsDefault
===============================================================================
