------------------------------ MODULE TableTools ------------------------------
(***************************************************************************)
(* t.Table on tables that hold tables (Table.lua): copies, comparison,     *)
(* search and the functions over all elements.  A program builds a tree of *)
(* tables, makes a new one from its root, and goes on writing to the new   *)
(* one.  A table with a hole has no defined length: # gives any border.    *)
(***************************************************************************)
EXTENDS Integers, FiniteSets, FiniteSetsExt

CONSTANTS
    Depth,      \* bound: the tables of the original; each may hold those after it
    MaxKey,     \* bound: the keys of a table
    Atoms,      \* the values that are no tables
    NoValue

Root     == 1
NewTable == Depth + 1           \* the table that clone or map returns
CloneAt(k) == Depth + 1 + k     \* the copy that a deep clone has at key k
Heap   == 1..(Depth + 1 + MaxKey)
Places == 1..MaxKey
TreeValues == Atoms \cup Heap

ASSUME TableAssumption ==
    /\ Depth \in Nat \ {0} /\ MaxKey \in Nat \ {0}
    /\ Atoms \cap Heap = {} /\ NoValue \notin TreeValues /\ NoValue \notin {"clone", "deep", "map"}

VARIABLES
    heap,       \* the elements of each table: [Places -> values], NoValue for none
    made,       \* the call that made the new table, NoValue before it
    before,     \* history: what the original and the new table held then
    writes      \* history: the length of the path of the last write to the new table

tableVars == <<heap, made, before, writes>>

IsTable(v)  == v \in Heap
KeysOf(t)  == {k \in Places : heap[t][k] # NoValue}
Borders(t)  == {n \in 0..MaxKey : (n = 0 \/ n \in KeysOf(t)) /\ (n + 1) \notin KeysOf(t)}

(***************************************************************************)
(* Functions that return something.                                        *)
(***************************************************************************)

\* The two loops of t_equals go over the keys of both.
SameKeys(t, u) == KeysOf(t) = KeysOf(u)

\* t_equals: what it may return, the lengths being what they may be.
Equality ==
    LET eq[p \in TreeValues \X TreeValues] ==
            LET v == p[1]
                w == p[2]
                parts  == [k \in KeysOf(v) \cap KeysOf(w) |-> eq[<<heap[v][k], heap[w][k]>>]]
                same   == /\ Borders(v) \cap Borders(w) # {} /\ SameKeys(v, w)
                          /\ \A k \in DOMAIN parts : TRUE \in parts[k]
                differ == \/ Cardinality(Borders(v) \cup Borders(w)) > 1 \/ ~SameKeys(v, w)
                          \/ \E k \in DOMAIN parts : FALSE \in parts[k]
            IN  IF v = w THEN {TRUE}
                ELSE IF ~IsTable(v) \/ ~IsTable(w) THEN {FALSE}
                ELSE {r \in BOOLEAN : IF r THEN same ELSE differ}
    IN  eq
Equals(v, w) == Equality[<<v, w>>]

\* t_find, with an index and without: the keys that it may return.
FindFrom(t, v, idx) ==
    {LET at == {i \in idx..n : heap[t][i] = v} IN IF at = {} THEN NoValue ELSE Min(at) : n \in Borders(t)}
Find(t, v) ==
    LET at == {k \in KeysOf(t) : heap[t][k] = v} IN IF at = {} THEN {NoValue} ELSE at

\* t_intersects, t_isempty
Intersects(t, u) == \E k \in KeysOf(u) : heap[t][k] # NoValue
IsEmpty(t) == KeysOf(t) = {} /\ \A n \in Borders(t) : n = 0

\* The content of a value, all tables resolved.
Contents(h) ==
    LET c[v \in TreeValues \cup {NoValue}] ==
            IF IsTable(v) THEN <<"table", [k \in Places |-> c[h[v][k]]]>> ELSE <<"atom", v>>
    IN  c
Content(h, v) == Contents(h)[v]

(***************************************************************************)
(* What a program does.                                                    *)
(***************************************************************************)

TableInit ==
    /\ heap = [t \in Heap |-> [k \in Places |-> NoValue]]
    /\ made = NoValue /\ before = NoValue /\ writes = 0

\* The original is built.
PutElement(t, k, v) ==
    /\ made = NoValue /\ (IsTable(v) => v > t)
    /\ heap' = [heap EXCEPT ![t][k] = v]
    /\ UNCHANGED <<made, before, writes>>

Makes(op, h) ==
    /\ made = NoValue /\ made' = op /\ heap' = h
    /\ before' = [root |-> Content(heap, Root), new |-> Content(h, NewTable)]
    /\ UNCHANGED writes

\* Mutant: a deep clone takes the tables in the root as they are.
DeepShares == [heap EXCEPT ![NewTable] = heap[Root]]

\* t_clone(tbl, true): the call for a table in it is not a deep one.
Deep ==
    [t \in Heap |->
        IF t = NewTable THEN [k \in Places |-> IF IsTable(heap[Root][k]) THEN CloneAt(k) ELSE heap[Root][k]]
        ELSE IF t > NewTable /\ IsTable(heap[Root][t - NewTable]) THEN heap[heap[Root][t - NewTable]]
        ELSE heap[t]]

CloneTable(deep) ==
    IF deep THEN Makes("deep", Deep) ELSE Makes("clone", [heap EXCEPT ![NewTable] = heap[Root]])

\* t_map and t_foreach with a function that gives f[v] for v.
Applied(f) == [k \in Places |-> IF heap[Root][k] = NoValue THEN NoValue ELSE f[heap[Root][k]]]
MapTable(f)     == Makes("map", [heap EXCEPT ![NewTable] = Applied(f)])
ForEach(f) == made = NoValue /\ heap' = [heap EXCEPT ![Root] = Applied(f)] /\ UNCHANGED <<made, before, writes>>

\* A function that takes the atoms out, or one that puts a in place of all values.
Functions == {[v \in Atoms \cup Heap |-> IF v \in Atoms THEN NoValue ELSE v]}
                 \cup {[v \in Atoms \cup Heap |-> a] : a \in Atoms}

\* new[k] = v, new[j][k] = v, new[i][j][k] = v
WriteTo(t, k, v, n) ==
    /\ made # NoValue /\ writes = 0 /\ IsTable(t)
    /\ heap' = [heap EXCEPT ![t][k] = v] /\ writes' = n
    /\ UNCHANGED <<made, before>>
WriteNew(k, v) ==
    \/ WriteTo(NewTable, k, v, 1)
    \/ \E j \in Places : WriteTo(heap[NewTable][j], k, v, 2)
    \/ \E i, j \in Places : IsTable(heap[NewTable][i]) /\ WriteTo(heap[heap[NewTable][i]][j], k, v, 3)

TableNext ==
    \/ \E t \in 1..Depth, k \in Places, v \in Atoms \cup 1..Depth : PutElement(t, k, v)
    \/ \E deep \in BOOLEAN : CloneTable(deep)
    \/ \E f \in Functions : MapTable(f) \/ ForEach(f)
    \/ \E k \in Places, v \in Atoms \cup {NoValue} : WriteNew(k, v)

TableSpec == TableInit /\ [][TableNext]_tableVars

(***************************************************************************)
(* Properties.                                                             *)
(***************************************************************************)

Used     == {NewTable} \cup {t \in Heap : KeysOf(t) # {}}
Whole(t) == KeysOf(t) = 1..Cardinality(KeysOf(t))

\* equals() compares contents, however deep they are: contents that differ are never
\* equal, and without holes the same contents are (with a hole, # may differ for
\* the same content and they may not be); find() gives a place of the value or nil
\* when there is none, the first from idx on; isempty() and intersects() agree with
\* the keys.
EqualsIsContent ==
    \A t, u \in Used :
        LET same == Content(heap, t) = Content(heap, u)
        IN  /\ TRUE \in Equals(t, u) <=> same
            /\ (\A w \in Used : Whole(w)) => Equals(t, u) = {same}
            /\ IsEmpty(t) <=> Content(heap, t) = <<"table", [k \in Places |-> <<"atom", NoValue>>]>>
            /\ Whole(t) => \A v \in Atoms, idx \in Places : \A i \in FindFrom(t, v, idx) :
                  /\ i # NoValue => i \in Find(t, v) /\ \A j \in idx..(i - 1) : heap[t][j] # v
                  /\ i = NoValue => Find(t, v) \subseteq {NoValue} \cup 1..(idx - 1)
            /\ IsEmpty(t) \/ IsEmpty(u) => ~Intersects(t, u)

\* What a program writes to a copy does not show in the original: with clone() in the
\* table itself, with a deep one in the tables it holds too, which no other holds; the
\* ones these hold are shared.  Until then both have the same content.
CopiesStayApart ==
    /\ writes = 1 \/ (writes = 2 /\ made = "deep") => Content(heap, Root) = before.root
    /\ made \in {"clone", "deep"} => before.new = before.root
    /\ made = "deep" => \A j, k \in Places :
          IsTable(heap[NewTable][j]) /\ heap[NewTable][j] = heap[NewTable][k] => j = k

\* The functions of t.Table do to a tree of tables what they promise.
TablesKept == EqualsIsContent /\ CopiesStayApart
===============================================================================
