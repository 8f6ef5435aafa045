--------------------------- MODULE OrderedHashTable ---------------------------
(***************************************************************************)
(* t.OrderedHashTable: tables with the calls that change them, and a loop  *)
(* over one of them whose body may change it (OrderedHashTable.lua).  A    *)
(* call that raises an error changes nothing and is left out; one of them  *)
(* is oht[i] = nil beyond the elements, which docs/OrderedHashTable.rst:   *)
(* 153-157 says to have no effect.  Keys are no integers and inserted      *)
(* values are not nil: insert() checks neither (OrderedHashTable.lua:      *)
(* 84-89), and with either of them would take the two parts out of step.   *)
(***************************************************************************)
EXTENDS LuaTable

CONSTANTS Ohts, OhtKeys, OhtVals, NoTable,
    MaxArgs,    \* bound: the pairs given to the constructor
    MaxSeen     \* bound: the steps of a loop

ASSUME OhtAssumption == NoTable \notin Ohts /\ MaxArgs \in Nat /\ MaxSeen \in Nat

Pairs  == [key : OhtKeys, val : OhtVals]
Hashes == UNION {[S -> OhtVals] : S \in SUBSET OhtKeys}
OhtRecs == [arr : Seq(OhtKeys), hash : Hashes]
LoopRecs == [of : Ohts, idx : Nat, seen : Seq(OhtKeys), there : SUBSET OhtKeys,
             removed : SUBSET OhtKeys, inserted : BOOLEAN]

ASSUME NoTableAssumption == NoTable \notin OhtRecs \cup LoopRecs \cup Seq(Pairs)

VARIABLES
    oht,        \* [arr, hash] of each table, NoTable before it is made
    args,       \* the pairs a constructor has still to read
    loop        \* the loop over a table: [of, idx], and what it saw

ohtVars == <<oht, args, loop>>

Tables == {t \in Ohts : oht[t] # NoTable}
OhtLen(t) == Len(oht[t].arr)
Becomes(t, o) == oht' = [oht EXCEPT ![t] = o]

\* What the history of a loop over t keeps of a change.
Changed(t, removed, inserted) ==
    loop' = IF loop # NoTable /\ loop.of = t
            THEN [loop EXCEPT !.removed = @ \cup removed, !.inserted = @ \/ inserted] ELSE loop

OhtInit == oht = [t \in Ohts |-> NoTable] /\ args = [t \in Ohts |-> <<>>] /\ loop = NoTable

\* OrderedHashTable({k = v}, ...) makes the table ...
New(t, pairs) ==
    /\ oht[t] = NoTable
    /\ Becomes(t, EmptyOht)
    /\ args' = [args EXCEPT ![t] = pairs]
    /\ UNCHANGED loop

\* ... and reads the pairs one by one (readArgs).
ReadArg(t) ==
    /\ args[t] # <<>>
    /\ Becomes(t, SetByKey(oht[t], Head(args[t]).key, Head(args[t]).val))
    /\ args' = [args EXCEPT ![t] = Tail(@)]
    /\ UNCHANGED loop

\* OrderedHashTable(u): the copy shares nothing with u.
Clone(t, u) ==
    /\ oht[t] = NoTable /\ args[u] = <<>>
    /\ Becomes(t, oht[u])
    /\ UNCHANGED <<args, loop>>

\* oht[key] = val
SetKey(t, key, val) ==
    /\ Becomes(t, SetByKey(oht[t], key, val))
    /\ Changed(t, {}, FALSE) /\ UNCHANGED args

\* oht[i] = val: the last element cannot be replaced in this way.
SetIndex(t, i, val) ==
    /\ 0 < i /\ i < OhtLen(t)
    /\ Becomes(t, SetByIndex(oht[t], i, val))
    /\ Changed(t, {}, FALSE) /\ UNCHANGED args

\* oht[key] = nil, oht[i] = nil
RemoveIndex(t, i) ==
    /\ i \in 1..OhtLen(t)
    /\ Becomes(t, Deleted(oht[t], i))
    /\ Changed(t, {oht[t].arr[i]}, FALSE) /\ UNCHANGED args
RemoveKey(t, key) == RemoveIndex(t, GetIndex(oht[t], key))

\* OrderedHashTable.insert(oht, i, key, val), not behind the last element either.
Insert(t, i, key, val) ==
    /\ 0 < i /\ i < OhtLen(t) /\ key \notin DOMAIN oht[t].hash
    /\ Becomes(t, Inserted(oht[t], i, key, val))
    /\ Changed(t, {}, TRUE) /\ UNCHANGED args

\* for k, v in pairs(oht): iters keeps a position of its own.
Begin(t) ==
    /\ loop = NoTable
    /\ loop' = [of |-> t, idx |-> 0, seen |-> <<>>, there |-> DOMAIN oht[t].hash,
                removed |-> {}, inserted |-> FALSE]
    /\ UNCHANGED <<oht, args>>

\* Mutant: the position is advanced before the key is read.
StepAhead(t) ==
    /\ loop # NoTable /\ loop.of = t /\ loop.idx + 1 < OhtLen(t) /\ Len(loop.seen) < MaxSeen
    /\ loop' = [loop EXCEPT !.idx = @ + 1, !.seen = Append(@, oht[t].arr[loop.idx + 2])]
    /\ UNCHANGED <<oht, args>>

Step(t) ==
    /\ loop # NoTable /\ loop.of = t /\ loop.idx < OhtLen(t) /\ Len(loop.seen) < MaxSeen
    /\ loop' = [loop EXCEPT !.idx = @ + 1, !.seen = Append(@, oht[t].arr[loop.idx + 1])]
    /\ UNCHANGED <<oht, args>>

\* oht[i], OrderedHashTable.values(), .table(); oht == other compares both parts.
ElementAt(o, i) == o.hash[o.arr[i]]
OhtValues(o)    == [i \in 1..Len(o.arr) |-> ElementAt(o, i)]
TableOf(o)      == [k \in {o.arr[i] : i \in 1..Len(o.arr)} |-> o.hash[k]]
EqualTables(o, u) == o.arr = u.arr /\ o.hash = u.hash

End == loop # NoTable /\ loop' = NoTable /\ UNCHANGED <<oht, args>>

OhtCall(t) ==
    \/ \E key \in OhtKeys : RemoveKey(t, key) \/ \E val \in OhtVals : SetKey(t, key, val)
    \/ \E i \in 1..OhtLen(t) :
          \/ RemoveIndex(t, i)
          \/ \E val \in OhtVals : SetIndex(t, i, val) \/ \E key \in OhtKeys : Insert(t, i, key, val)
    \/ Begin(t) \/ Step(t)

OhtNext ==
    \/ \E t \in Ohts, n \in 0..MaxArgs : \E pairs \in [1..n -> Pairs] : New(t, pairs)
    \/ \E t \in Tables : ReadArg(t)
    \/ \E t \in Ohts, u \in Tables : Clone(t, u)
    \/ \E t \in Tables : args[t] = <<>> /\ OhtCall(t)
    \/ End

OhtSpec == OhtInit /\ [][OhtNext]_ohtVars

(***************************************************************************)
(* Properties.                                                             *)
(***************************************************************************)

\* Each key has one position and each position a key with a value: the one Lua table
\* that holds both never gets out of step (OrderedHashTable.lua:5-14).
InStep(o) ==
    /\ \A i \in 1..Len(o.arr) : o.arr[i] \in DOMAIN o.hash
    /\ \A k \in DOMAIN o.hash : \E i \in 1..Len(o.arr) : o.arr[i] = k
    /\ \A i, j \in 1..Len(o.arr) : o.arr[i] = o.arr[j] => i = j
OhtInv ==
    /\ oht \in [Ohts -> {NoTable} \cup OhtRecs]
    /\ args \in [Ohts -> Seq(Pairs)]
    /\ \A t \in Ohts : oht[t] = NoTable => args[t] = <<>>
    /\ \A t \in Tables : InStep(oht[t])

\* The tables are the ordered maps that the documentation describes: elements keep
\* their order under every mix of calls by key and by position, and a clone shares
\* nothing with its original.
Items(o) == [i \in 1..Len(o.arr) |-> [key |-> o.arr[i], val |-> o.hash[o.arr[i]]]]
Map == INSTANCE OrderedMap WITH items <- [t \in Ohts |-> IF oht[t] = NoTable THEN NoTable ELSE Items(oht[t])]
ImplementsOrderedMap == Map!MapSpec

\* While the body of a loop has removed nothing, each element before the loop's position
\* that was there at the beginning has been seen.  While it has inserted nothing, the keys
\* that it did not remove have been seen once, in the order in which the table has them;
\* values may be assigned and elements appended.  No more holds: a body that removes the
\* element it is at misses the next (iters, OrderedHashTable.lua:115-123), and one that
\* inserts an element before it sees the same one again.
LoopSeesElements ==
    loop # NoTable =>
        LET arr  == oht[loop.of].arr
            seen == loop.seen
        IN  /\ loop.removed = {} =>
                  \A i \in 1..loop.idx :
                      arr[i] \in loop.there => \E j \in 1..Len(seen) : seen[j] = arr[i]
            /\ ~loop.inserted =>
                  /\ \A i, j \in 1..Len(seen) : seen[i] = seen[j] /\ i # j => seen[i] \in loop.removed
                  /\ \A i, j \in 1..Len(seen) :
                        i < j /\ {seen[i], seen[j]} \cap loop.removed = {} =>
                            \E p, q \in 1..Len(arr) : p < q /\ arr[p] = seen[i] /\ arr[q] = seen[j]

\* All ways to read a table tell the same: by key, by position, as a list of values and
\* as a plain table; each key is at its index, and two tables are equal when they hold
\* the same elements in the same order, however they came to it.
ReadersAgree ==
    \A t \in Tables :
        /\ TableOf(oht[t]) = oht[t].hash
        /\ \A i \in 1..OhtLen(t) :
              /\ GetIndex(oht[t], oht[t].arr[i]) = i
              /\ OhtValues(oht[t])[i] = oht[t].hash[oht[t].arr[i]]
        /\ \A u \in Tables : EqualTables(oht[t], oht[u]) <=> Items(oht[t]) = Items(oht[u])

\* What a program reads from a table, at once or in a loop, is what is in it.
OhtServes == LoopSeesElements /\ ReadersAgree
===============================================================================
