------------------------------- MODULE MCRequest ------------------------------
(***************************************************************************)
(* The requests of HttpRequest: without and with lines, one of them        *)
(* continued, with each of the two lines the parser understands, with both *)
(* ends of lines, and with a body of two pieces.                           *)
(***************************************************************************)
EXTENDS HttpRequest

CrLf == <<"cr", "lf">>
LfOnly == <<"lf">>

OtherLine == [name |-> "other", value |-> <<"x">>]
ColonLine == [name |-> "colon", value |-> <<"x", ":", "x">>]
FoldedLine == [name |-> "folded", value |-> <<"x", "cr", "lf", "sp", "x">>]
NoColonLine == [name |-> "none", value |-> <<"x">>]
LengthLine == [name |-> "content-length", value |-> <<"2">>]
CloseLine == [name |-> "connection", value |-> <<"close">>]
KeepLine == [name |-> "connection", value |-> <<"keep-alive">>]

RequestLines ==
  {<<>>, <<OtherLine>>, <<FoldedLine, CloseLine, NoColonLine>>, <<ColonLine, KeepLine>>, <<LengthLine, FoldedLine>>,
   <<KeepLine, OtherLine, CloseLine>>}

MCHeads ==
  {h \in [version : {"1.0", "1.1"}, eol : {CrLf, LfOnly}, lines : RequestLines,
          body : {<<>>, <<"b", "b">>}] :
     h.body # <<>> => \E i \in DOMAIN h.lines : h.lines[i] = LengthLine}
  \cup {[version |-> "bad", eol |-> CrLf, lines |-> <<OtherLine>>, body |-> <<>>]}
=============================================================================
