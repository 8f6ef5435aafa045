------------------------------- MODULE LuaTable -------------------------------
(***************************************************************************)
(* The functions on plain Lua tables that Set, OrderedHashTable and Suite  *)
(* are built from (Table.lua, OrderedHashTable.lua).  A Lua table is a     *)
(* function on the keys that have a value.  An ordered one has a key per   *)
(* position and a value per key in the same table; the two parts are told  *)
(* apart here as arr and hash, since a key is not an integer.              *)
(***************************************************************************)
EXTENDS Integers, Sequences, FiniteSets

EmptyTable == [k \in {} |-> TRUE]
With(tbl, key, val)  == [k \in DOMAIN tbl \cup {key} |-> IF k = key THEN val ELSE tbl[k]]
Without(tbl, key)    == [k \in DOMAIN tbl \ {key} |-> tbl[k]]

\* table.insert and table.remove
InsertedAt(s, i, e) ==
    [j \in 1..(Len(s) + 1) |-> IF j < i THEN s[j] ELSE IF j = i THEN e ELSE s[j - 1]]
RemovedAt(s, i) == [j \in 1..(Len(s) - 1) |-> IF j < i THEN s[j] ELSE s[j + 1]]

\* A value that a condition takes for true.
Truthy(tbl, key) == key \in DOMAIN tbl /\ tbl[key] # FALSE

\* Mutant: the union takes only what the first table has as well.
MergeCommon(t1, t2, union) ==
    LET common == {k \in DOMAIN t2 : Truthy(t1, k)}
    IN  [k \in (IF union THEN common \cup DOMAIN t1 ELSE common) |->
            IF k \in DOMAIN t2 THEN t2[k] ELSE t1[k]]

\* t_merge; a key that only t1 has keeps its place in a union unless its value is false.
Merge(t1, t2, union) ==
    LET taken == {k \in DOMAIN t2 : union \/ Truthy(t1, k)}
        kept  == IF union THEN {k \in DOMAIN t1 \ DOMAIN t2 : t1[k] # FALSE} ELSE {}
    IN  [k \in taken \cup kept |-> IF k \in DOMAIN t2 THEN t2[k] ELSE t1[k]]

\* t_complement
Complement(t1, t2, sym) ==
    LET only1 == DOMAIN t1 \ DOMAIN t2
        only2 == IF sym THEN DOMAIN t2 \ DOMAIN t1 ELSE {}
    IN  [k \in only1 \cup only2 |-> IF k \in only1 THEN t1[k] ELSE t2[k]]

\* t_contains: t1 has all keys of t2, or none of them.
HasKeysOf(t1, t2, disjunct) == \A k \in DOMAIN t2 : (k \notin DOMAIN t1) = disjunct

\* t_count
Count(tbl) == Cardinality(DOMAIN tbl)

\* getIndex, 0 for nil
GetIndex(o, key) ==
    IF \E i \in 1..Len(o.arr) : o.arr[i] = key
    THEN CHOOSE i \in 1..Len(o.arr) : o.arr[i] = key /\ \A j \in 1..(i - 1) : o.arr[j] # key
    ELSE 0

\* setElement for a key: a new one becomes the last.
SetByKey(o, key, val) ==
    [arr  |-> IF key \in DOMAIN o.hash THEN o.arr ELSE Append(o.arr, key),
     hash |-> With(o.hash, key, val)]

\* setElement for a position: the value there is replaced.
SetByIndex(o, i, val) == [arr |-> o.arr, hash |-> With(o.hash, o.arr[i], val)]

\* Mutant: the last key takes the place of the removed one.
DeletedSwap(o, i) ==
    [arr |-> [j \in 1..(Len(o.arr) - 1) |-> IF j = i THEN o.arr[Len(o.arr)] ELSE o.arr[j]],
     hash |-> Without(o.hash, o.arr[i])]

\* setElement with nil
Deleted(o, i) == [arr |-> RemovedAt(o.arr, i), hash |-> Without(o.hash, o.arr[i])]

\* insertElem
Inserted(o, i, key, val) == [arr |-> InsertedAt(o.arr, i, key), hash |-> With(o.hash, key, val)]

EmptyOht == [arr |-> <<>>, hash |-> EmptyTable]
===============================================================================
