------------------------------ MODULE OrderedMap ------------------------------
(***************************************************************************)
(* What docs/OrderedHashTable.rst promises: tables that are sequences of   *)
(* pairs with distinct keys.  An element is found by its key or its        *)
(* position, new ones come last or are inserted, and removing one leaves   *)
(* no hole.                                                                *)
(***************************************************************************)
EXTENDS Integers, Sequences

CONSTANTS Ohts, OhtKeys, OhtVals, NoTable

VARIABLE items      \* the pairs of each table, NoTable before it is made

Has(t, k) == \E i \in 1..Len(items[t]) : items[t][i].key = k
Becomes(t, s) == items' = [items EXCEPT ![t] = s]

MapInit == items = [t \in Ohts |-> NoTable]

Create(t) == items[t] = NoTable /\ Becomes(t, <<>>)
Copy(t, u) == items[t] = NoTable /\ items[u] # NoTable /\ Becomes(t, items[u])

Append1(t, k, v) == ~Has(t, k) /\ Becomes(t, Append(items[t], [key |-> k, val |-> v]))

\* The value changes, the key and the place do not.
Replace(t, i, v) ==
    Becomes(t, [j \in 1..Len(items[t]) |->
                   IF j = i THEN [key |-> items[t][i].key, val |-> v] ELSE items[t][j]])

Insert1(t, i, k, v) ==
    /\ ~Has(t, k)
    /\ Becomes(t, [j \in 1..(Len(items[t]) + 1) |->
                      IF j < i THEN items[t][j]
                      ELSE IF j = i THEN [key |-> k, val |-> v] ELSE items[t][j - 1]])

Remove(t, i) ==
    Becomes(t, [j \in 1..(Len(items[t]) - 1) |-> IF j < i THEN items[t][j] ELSE items[t][j + 1]])

MapCall(t) ==
    \/ \E k \in OhtKeys, v \in OhtVals :
           Append1(t, k, v) \/ \E i \in 1..Len(items[t]) : Insert1(t, i, k, v)
    \/ \E i \in 1..Len(items[t]) : Remove(t, i) \/ \E v \in OhtVals : Replace(t, i, v)

MapNext ==
    \E t \in Ohts :
        \/ Create(t)
        \/ \E u \in Ohts : Copy(t, u)
        \/ items[t] # NoTable /\ MapCall(t)

MapSpec == MapInit /\ [][MapNext]_items
===============================================================================
