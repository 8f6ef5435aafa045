-------------------------------- MODULE LuaSet --------------------------------
(***************************************************************************)
(* t.Set (Set.lua): sets whose elements are the keys of a Lua table.  The  *)
(* constructor stores true under each element, an assignment stores what   *)
(* it is given, and the operators look at keys in some places and at       *)
(* values in others.                                                       *)
(***************************************************************************)
EXTENDS LuaTable

CONSTANTS Sets, Elems, NoSet

ASSUME SetAssumption == NoSet \notin BOOLEAN

VARIABLES
    prx,        \* the table of each set, NoSet before it is made
    meant,      \* the elements each set was meant to have
    truthful    \* every value that was stored counts as true

setVars == <<prx, meant, truthful>>

MadeSets == {s \in Sets : prx[s] # NoSet}
MakeSet(s, tbl, elems) ==
    /\ prx' = [prx EXCEPT ![s] = tbl]
    /\ meant' = [meant EXCEPT ![s] = elems]

SetInit == prx = [s \in Sets |-> NoSet] /\ meant = [s \in Sets |-> {}] /\ truthful = TRUE

\* Set(tbl), Set(tbl, true) and Set(): the values or the keys of a table.
NewSet(s, elems) ==
    /\ MakeSet(s, [e \in elems |-> TRUE], elems)
    /\ UNCHANGED truthful

\* set[e] = val (__newindex), set[e] = nil
Store(s, e, val) ==
    /\ MakeSet(s, With(prx[s], e, val), meant[s] \cup {e})
    /\ truthful' = (truthful /\ val)
Discard(s, e) ==
    /\ MakeSet(s, Without(prx[s], e), meant[s] \ {e})
    /\ UNCHANGED truthful

\* a + b, a * b, a ^ b, a - b
UnionOf(a, b)    == Merge(prx[a], prx[b], TRUE)
SectionOf(a, b)   == Merge(prx[a], prx[b], FALSE)
SymmetricOf(a, b) == Complement(prx[a], prx[b], TRUE)
ComplementOf(a, b) == Complement(prx[a], prx[b], FALSE)

Combine(s, a, b) ==
    /\ \/ MakeSet(s, UnionOf(a, b), meant[a] \cup meant[b])
       \/ MakeSet(s, SectionOf(a, b), meant[a] \cap meant[b])
       \/ MakeSet(s, SymmetricOf(a, b), (meant[a] \ meant[b]) \cup (meant[b] \ meant[a]))
       \/ MakeSet(s, ComplementOf(a, b), meant[a] \ meant[b])
    /\ UNCHANGED truthful

\* a == b, a < b, a <= b, a % b
EqOf(a, b) == HasKeysOf(prx[a], prx[b], FALSE) /\ HasKeysOf(prx[b], prx[a], FALSE)
LtOf(a, b) == HasKeysOf(prx[b], prx[a], FALSE) /\ ~HasKeysOf(prx[a], prx[b], FALSE)
LeOf(a, b) == HasKeysOf(prx[b], prx[a], FALSE)
Disjoint(a, b) == HasKeysOf(prx[a], prx[b], TRUE)

SetNext ==
    \/ \E s \in Sets, elems \in SUBSET Elems : NewSet(s, elems)
    \/ \E s \in MadeSets, e \in Elems : Discard(s, e) \/ \E val \in BOOLEAN : Store(s, e, val)
    \/ \E s \in Sets, a, b \in MadeSets : Combine(s, a, b)

SetSpec == SetInit /\ [][SetNext]_setVars

(***************************************************************************)
(* Properties.                                                             *)
(***************************************************************************)

\* While no false is stored, the tables are the sets that the calls describe, and the
\* comparisons are those of sets.  (A false that is stored counts as an element for
\* #, pairs and the comparisons and as none for a * b and a + b, although Set.lua:12
\* says that what is stored is always replaced by true.)
SetsAreSets ==
    truthful =>
        /\ \A s \in MadeSets : DOMAIN prx[s] = meant[s] /\ Count(prx[s]) = Cardinality(meant[s])
        /\ \A a, b \in MadeSets :
              /\ EqOf(a, b) <=> meant[a] = meant[b]
              /\ LtOf(a, b) <=> meant[a] \subseteq meant[b] /\ meant[a] # meant[b]
              /\ LeOf(a, b) <=> meant[a] \subseteq meant[b]
              /\ Disjoint(a, b) <=> meant[a] \cap meant[b] = {}
===============================================================================
