------------------------------ MODULE NetSelect ------------------------------
(***************************************************************************)
(* Net.Socket.select() (lt_net_sck_Select of t_net_sck.c with              *)
(* p_net_sck_mkFdSet): two tables of sockets in, two tables of those that  *)
(* are ready out.  A table is a sequence in the order of lua_next; an      *)
(* entry has a socket and either a numeric key or a name.                  *)
(***************************************************************************)
EXTENDS Naturals, Sequences, FiniteSets, SequencesExt

CONSTANTS
  Numbered,   \* the entries with numeric keys
  Keyed,      \* the entries with names
  MaxEntries  \* bound: the entries of a table

ASSUME NetSelectAssumption == MaxEntries \in Nat

VARIABLE call   \* history: the last call, [rd, wr, rbits, wbits, ok, out]

Entries == Numbered \cup Keyed
Tables2 == SeqOf(Entries, MaxEntries)
FdSet(tbl) == {tbl[i][1] : i \in DOMAIN tbl}   \* p_net_sck_mkFdSet

\* Mutant: the scan ends when one socket is left.
VisitShort(acc, e, bits) ==
  IF acc.over \/ e[1] \notin bits THEN acc
  ELSE [left |-> acc.left - 1, out |-> Append(acc.out, e), over |-> acc.left = 2]
\* A socket that is ready is put into the result; the scan ends when rdyScks gets 0.
Visit(acc, e, bits) ==
  IF acc.over \/ e[1] \notin bits THEN acc
  ELSE [left |-> acc.left - 1, out |-> Append(acc.out, e), over |-> acc.left = 1]

\* The scan of one table, with n sockets that are still to be found: where it is after
\* each of the entries.
Scan(tbl, bits, n) ==
  LET acc[k \in 0..Len(tbl)] ==
        IF k = 0 THEN [left |-> n, out |-> <<>>, over |-> FALSE] ELSE Visit(acc[k - 1], tbl[k], bits)
  IN  acc
Found(tbl, bits, n) == Scan(tbl, bits, n)[Len(tbl)]

Results(rd, wr, rbits, wbits, n) ==
  LET r == Found(rd, rbits, n)
  IN  <<r.out, Found(wr, wbits, r.left).out>>

NoCall == [ok |-> FALSE, out |-> << <<>>, <<>> >>]
NetSelectInit == call = NoCall

\* select() leaves the bits of what is ready and returns their number; when it fails,
\* it returns -1 and leaves the sets as they are.
SelectCall(rd, wr, rbits, wbits) ==
  call' = [rd |-> rd, wr |-> wr, rbits |-> rbits, wbits |-> wbits, ok |-> TRUE,
           out |-> Results(rd, wr, rbits, wbits, Cardinality(rbits) + Cardinality(wbits))]
SelectFails(rd, wr) ==
  call' = [ok |-> FALSE, out |-> Results(rd, wr, FdSet(rd), FdSet(wr), 0 - 1)]

\* A call keeps nothing for the next one.
NetSelectNext ==
  call = NoCall /\ \E rd, wr \in Tables2 :
    \/ \E rbits \in SUBSET FdSet(rd), wbits \in SUBSET FdSet(wr) :
         rbits \cup wbits # {} /\ SelectCall(rd, wr, rbits, wbits)
    \/ SelectFails(rd, wr)

NetSelectSpec == NetSelectInit /\ [][NetSelectNext]_call

(***************************************************************************)
(* Properties.                                                             *)
(***************************************************************************)

Once(tbl) == \A i, j \in DOMAIN tbl : tbl[i][1] = tbl[j][1] => i = j

\* The k-th entry of out is the one at from[k] in tbl; none of those in bits is left out,
\* told twice or out of its place.
HoldsReady(out, tbl, bits) ==
  LET I == {i \in DOMAIN tbl : tbl[i][1] \in bits}
  IN  \E from \in [DOMAIN out -> I] :
        /\ \A k \in DOMAIN out : out[k] = tbl[from[k]]
        /\ \A k, m \in DOMAIN out : k < m => from[k] < from[m]
        /\ \A i \in I : \E k \in DOMAIN out : from[k] = i

\* The two results hold every socket that is ready and no other one, in order, although
\* both scans share one count and end early, provided that no table has a socket twice:
\* one that is counted once is then found twice, and the last one is not looked at.
\* (After a select() that failed everything is reported as ready.)
SelectIsExact ==
  call.ok /\ Once(call.rd) /\ Once(call.wr) =>
    HoldsReady(call.out[1], call.rd, call.rbits) /\ HoldsReady(call.out[2], call.wr, call.wbits)
===============================================================================
