-------------------------------- MODULE MCCsv --------------------------------
(***************************************************************************)
(* Texts for Csv: small tables, written with quotation marks and doubled   *)
(* ones in them, with every value that needs care.  Escape characters,     *)
(* which docs/Csv.rst describes as well, are not read by the code.         *)
(***************************************************************************)
EXTENDS Csv

Doubled(v) == FlattenSeq([i \in DOMAIN v |-> IF v[i] = Qte THEN <<Qte, Qte>> ELSE <<v[i]>>])
Quoted(v)  == [value |-> v, text |-> <<Qte>> \o Doubled(v) \o <<Qte>>]
Naked(v)   == [value |-> v, text |-> v]
Missing    == [value |-> Nil, text |-> <<>>]

QuotedValues == {<<>>, <<"a">>, <<Dlm>>, <<"\n">>, <<Qte>>, <<Qte, "a">>, <<"a", Qte>>,
    <<Qte, Qte>>, <<"a", Qte, Dlm>>, <<" ", "a", " ">>, <<"\n", Qte, "\n">>,
    <<"a", "\n", "\n", "b">>, <<Qte, "\n">>, <<"a", "\r", "\n", "b">>}
NakedValues  == {<<"a">>, <<"a", "b">>, <<"a", " ", "b">>, <<"a", Qte>>}
FieldTexts == {Quoted(v) : v \in QuotedValues} \cup {Naked(v) : v \in NakedValues} \cup {Missing}

Blanks  == {<<>>, <<" ">>}
Padded  == {[value |-> f.value, text |-> b \o f.text \o e] : f \in FieldTexts, b, e \in Blanks}

Row(f, g) == <<f.value, g.value>>
LineOf(f, g, eol) == f.text \o <<Dlm>> \o g.text \o eol
Unix == <<"\n">>
Dos  == <<"\r", "\n">>

AsTable(rs, names) ==
    [i \in DOMAIN rs |-> [fields |-> rs[i],
        named |-> IF names THEN <<"h">> :> rs[i][1] @@ <<"k">> :> rs[i][2] ELSE Nil]]

\* Two records, the second with a value over two lines; with the names of the
\* columns, a line to skip and an empty line, or without them and without the
\* last line end.
Document(f, g, eol, split, names) ==
    LET h == Quoted(<<"b", "\n", "b">>)
        k == Naked(<<"c">>)
    IN  [text |-> IF names
                  THEN <<"s">> \o eol \o <<"h", Dlm, "k">> \o eol \o LineOf(f, g, eol)
                       \o (IF eol = split THEN eol ELSE <<>>) \o LineOf(h, k, eol)
                  ELSE LineOf(f, g, eol) \o LineOf(h, k, <<>>),
         eol |-> split, keep |-> FALSE, skip |-> IF names THEN 1 ELSE 0,
         names |-> names, headers |-> Nil,
         table |-> AsTable(<<Row(f, g), Row(h, k)>>, names)]

\* Text with '\r' '\n' line ends that is split at '\n' keeps the '\r' in its lines:
\* there the last column is not quoted and not missing.
InUnix == Padded \X FieldTexts
InDos  == FieldTexts \X {Naked(v) : v \in NakedValues}
MCDocuments ==
    {Document(p[1], p[2], Unix, Unix, n) : p \in InUnix, n \in BOOLEAN}
    \cup {Document(p[1], p[2], Dos, Unix, n) : p \in InDos, n \in BOOLEAN}
    \cup {Document(f, g, Dos, Dos, n) :
              f, g \in {x \in FieldTexts : x.value = Nil \/ "\r" \notin ToSet(x.value)}, n \in BOOLEAN}

\* Where the parts of such a document end, and how many records are before.
Laid(f, g, eol, names) ==
    LET h     == Len(eol)
        one   == Len(LineOf(f, g, eol))
        two   == Len(LineOf(Quoted(<<"b", "\n", "b">>), Naked(<<"c">>), <<>>))
        parts == IF names THEN <<1 + h, 3 + h, one>> \o (IF eol = Unix THEN <<1>> ELSE <<>>) \o <<two + h, 1>>
                 ELSE <<one, two + 1>>
        recs  == IF names THEN <<0, 0, 1>> \o (IF eol = Unix THEN <<0>> ELSE <<>>) \o <<1, 0>> ELSE <<1, 1>>
        Sum(s) == [x \in 0..Len(s) |-> FoldLeft(LAMBDA a, b : a + b, 0, SubSeq(s, 1, x))]
    IN  WrittenAs(Document(f, g, eol, Unix, names), Len(parts), Sum(parts), Sum(recs),
                  IF names THEN << <<"h">>, <<"k">> >> ELSE Nil)

\* The documents that are split at '\n' are written as Csv says, all without escapes.
ASSUME DocumentsAssumption ==
    /\ \A n \in BOOLEAN : /\ \A p \in InUnix : Laid(p[1], p[2], Unix, n)
                          /\ \A p \in InDos : Laid(p[1], p[2], Dos, n)
    /\ \A d \in MCDocuments : EscapeChar \notin ToSet(d.text)
==============================================================================
