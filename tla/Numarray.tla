------------------------------- MODULE Numarray -------------------------------
(***************************************************************************)
(* t.Numarray: an array of integers of a fixed length (t_nry_l.c).         *)
(* Integers have LongBits bits and the int that reverse uses has IntBits.  *)
(***************************************************************************)
EXTENDS Integers, Sequences, SequencesExt

CONSTANTS LongBits, IntBits,
    Numbers,    \* the integers a program stores
    MaxArray    \* bound: the length of an array

ASSUME NumarrayAssumption ==
    /\ IntBits \in Nat \ {0} /\ LongBits \in Nat /\ IntBits < LongBits
    /\ Numbers \subseteq (-(2^(LongBits - 1)))..(2^(LongBits - 1) - 1)

VARIABLES
    array,      \* the values, <<>> before there is an array
    logical     \* history: what a program that stored them would expect

nryVars == <<array, logical>>

AsInt(v) == LET m == v % 2^IntBits IN IF m < 2^(IntBits - 1) THEN m ELSE m - 2^IntBits

NryInit == array = <<>> /\ logical = <<>>

\* Numarray(n), Numarray(v1, v2, ...); a copy is the same array again.
NewSized(n) == array = <<>> /\ array' = [i \in 1..n |-> 0] /\ logical' = array'
NewOf(values) == array = <<>> /\ Len(values) > 1 /\ array' = values /\ logical' = values

SetElement(i, v) ==
    /\ i \in 1..Len(array)
    /\ array' = [array EXCEPT ![i] = v] /\ logical' = [logical EXCEPT ![i] = v]

\* The lower value goes by way of an int.
Swap(a, i, j) == [a EXCEPT ![i] = a[j], ![j] = AsInt(a[i])]

\* The array after each of n swaps from both ends to the middle.
Swapping(a, n) ==
    LET x[k \in 0..n] == IF k = 0 THEN a ELSE Swap(x[k - 1], k, Len(a) - k + 1)
    IN  x

\* Mutant: the loop goes one pair too far.
ReversedTooFar(a) == Swapping(a, Len(a) \div 2 + 1)[Len(a) \div 2 + 1]
Reversed(a) == Swapping(a, Len(a) \div 2)[Len(a) \div 2]

ReverseArray == array # <<>> /\ array' = Reversed(array) /\ logical' = Reverse(logical)

\* for i, v in pairs(array): what t_nry_iter returns from i on.
Iterating(a) ==
    LET it[i \in 0..Len(a)] ==
          IF i + 1 > Len(a) THEN <<>> ELSE <<<<i + 1, a[i + 1]>>>> \o it[i + 1]
    IN  it
Iterated(a, i) == Iterating(a)[i]

EqualArrays(a, b) == Len(a) = Len(b) /\ \A i \in DOMAIN a : a[i] = b[i]

NryNext ==
    \/ \E n \in 1..MaxArray : NewSized(n)
    \/ \E n \in 2..MaxArray : \E values \in [1..n -> Numbers] : NewOf(values)
    \/ \E i \in 0..(MaxArray + 1), v \in Numbers : SetElement(i, v)
    \/ ReverseArray

NrySpec == NryInit /\ [][NryNext]_nryVars

\* An array holds what was stored in it, in the order reverse leaves it in, as long
\* as its numbers fit an int; iterating gives each element once, in order.
HoldsWhatWasStored ==
    (\A i \in DOMAIN logical : logical[i] = AsInt(logical[i])) =>
        /\ EqualArrays(array, logical)
        /\ Iterated(array, 0) = [i \in DOMAIN logical |-> <<i, logical[i]>>]
===============================================================================
