------------------------------- MODULE MCValues -------------------------------
(***************************************************************************)
(* The instances of the components that hold or convert values and know    *)
(* nothing of each other: Csv, HttpRequest, Buffers, Pack, Encode,         *)
(* Numarray, OrderedHashTable, LuaSet, Suite and TableTools.  job chooses  *)
(* one of them for a behaviour, so that their states add up instead of     *)
(* multiplying.                                                            *)
(***************************************************************************)
EXTENDS MCCsv, MCRequest, Buffers, Pack, Encode, Numarray, OrderedHashTable, LuaSet, Suite, TableTools

CONSTANTS n1, n2, n3, x1, x2

VARIABLE job

\* Packers: bytes of two bits, integers of two bytes, a buffer of three.
Tok(o, n) == [opt |-> o, n |-> n]
MCNativeSize ==
    [o \in {"b", "B", "f", "h", "H", "l", "L", "j", "J", "T", "i", "d", "n"} |->
        IF o \in {"b", "B", "f"} THEN 1 ELSE 2]
MCFormats ==
    { <<Tok("b", 0)>>, <<Tok("H", 0)>>, <<Tok(">", 0), Tok("h", 0)>>, <<Tok("R", 3)>>,
      <<Tok("r", 3)>>, <<Tok("R", 5)>>, <<Tok("I", 0)>>, <<Tok("c", 2)>>, <<Tok("d", 0)>>,
      <<Tok(">", 0), Tok("d", 0)>>, <<Tok("v", 0), Tok("c", 0)>>,
      <<Tok("v", 0), Tok("r", 2), Tok("R", 1)>>, <<Tok("v", 0), Tok("I", 2)>>,
      <<Tok(">", 0), Tok("B", 0), Tok("I", 1), Tok("<", 0), Tok("b", 0)>> }
MCFormatLists ==
    { << <<Tok(">", 0), Tok("h", 0)>>, <<Tok("H", 0)>> >>,
      << <<Tok("b", 0)>>, <<Tok("B", 0)>> >>,
      << <<Tok("R", 3)>>, <<Tok("v", 0), Tok("r", 2)>> >> }
Named(key, fmt) == [key |-> key, fmt |-> fmt]
MCStructs ==
    { << Named("a", <<Tok("R", 3)>>), Named("b", <<Tok("r", 2), Tok("v", 0)>>) >>,
      << Named("a", <<Tok("R", 3)>>), Named("a", <<Tok("r", 2)>>) >> }

\* Encoders: bytes of four bits.
MCTexts == {<<>>, <<5>>, <<7, 0>>, <<3, 12, 9>>}
MCKeys == {<<6>>, <<1, 15, 4>>}
MCPoly == [alg \in {"8", "16", "ccitt", "32"} |->
              CASE alg = "8" -> 5 [] alg = "16" -> 137 [] alg = "ccitt" -> 33 [] alg = "32" -> 33800]

\* Arrays: integers of four bits, an int of three.
MCNumbers == {-8, -1, 0, 3, 6}

\* Buffers of up to three bytes, so that the last window of a walk can be a shorter
\* one, and positions on both sides of every limit; 200 is negative as a char.
MCBytes == {0, 200}
MCStrings == {<<200>>, <<200, 0>>, <<200, 0, 200>>}
MCNums == -3..4

\* Two tables without loops, or loops over one table whose values do not matter.
OneTable == \A t, u \in Ohts : oht[t] # NoTable /\ oht[u] # NoTable => t = u
OneValue == \A t \in Tables : \A k \in DOMAIN oht[t].hash : oht[t].hash[k] = CHOOSE v \in OhtVals : TRUE

\* Names of test functions, two of which have the same text.
MCTextOf == n1 :> x1 @@ n2 :> x1 @@ n3 :> x2

MCHead == CHOOSE h \in MCHeads : TRUE
MCDocument == CHOOSE d \in MCDocuments : TRUE
FirstPlan  == <<n1, n2, n3>>

Init ==
    /\ job \in {"csv", "request", "buffers", "pack", "encode", "numarray", "tables", "loop", "set", "suite", "tree"}
    /\ CsvInit /\ (job = "csv" \/ doc = MCDocument)
    /\ RequestInit /\ (job = "request" \/ head = MCHead)
    /\ PackInit /\ (job = "pack" \/ mem = [i \in 1..(Size + 1) |-> 0])
    /\ SuiteInit /\ (job = "suite" \/ plan = FirstPlan)
    /\ BufInit /\ EncInit /\ NryInit /\ OhtInit /\ SetInit /\ TableInit

\* The variables of the other components.
Others(j) ==
    /\ job = j /\ UNCHANGED job
    /\ j # "csv" => UNCHANGED csvVars
    /\ j # "request" => UNCHANGED requestVars
    /\ j # "buffers" => UNCHANGED bufVars
    /\ j # "pack" => UNCHANGED packVars
    /\ j # "encode" => UNCHANGED encVars
    /\ j # "numarray" => UNCHANGED nryVars
    /\ j \notin {"tables", "loop"} => UNCHANGED ohtVars
    /\ j # "set" => UNCHANGED setVars
    /\ j # "suite" => UNCHANGED suiteVars
    /\ j # "tree" => UNCHANGED tableVars

Next ==
    \/ Others("csv") /\ CsvNext
    \/ Others("request") /\ RequestNext
    \/ Others("buffers") /\ BufNext
    \/ Others("pack") /\ PackNext
    \/ Others("encode") /\ EncNext
    \/ Others("numarray") /\ NryNext
    \/ Others("tables") /\ OhtNext /\ loop' = NoTable
    \/ Others("loop") /\ OhtNext /\ (OneTable /\ OneValue)'
    \/ Others("set") /\ SetNext
    \/ Others("suite") /\ SuiteNext
    \/ Others("tree") /\ TableNext

Spec == Init /\ [][Next]_<<csvVars, requestVars, bufVars, packVars, encVars, nryVars, ohtVars, setVars, suiteVars, tableVars, job>>
===============================================================================
