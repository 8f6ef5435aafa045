--------------------------------- MODULE Csv ---------------------------------
(***************************************************************************)
(* The CSV reader: the parser of one line (t_csv_l.c), the splitting of a  *)
(* text into lines by an iterator, and csv:rows(), which puts a record     *)
(* that spans several lines together (lua/t/Csv.lua).  The text, and the   *)
(* table its author meant, are chosen initially.                           *)
(*                                                                         *)
(* Positions in a text count from 1, those of the C code from 0.           *)
(***************************************************************************)
EXTENDS Integers, FiniteSets, Sequences, SequencesExt

CONSTANTS
    Dlm, Qte,     \* the dialect's delimiter and quotation character
    Documents,    \* [text, eol, keep, skip, names, headers, table]: what rows()
                  \* is given, and the table that the text was written for
    Nil

ASSUME DialectAssumption == Dlm # Qte /\ {Dlm, Qte} \cap {"\n", "\r", " "} = {}

VARIABLES
    doc,          \* the document
    its,          \* how much of its text the iterator has returned
    line,         \* what is parsed next, Nil at the end
    parsed, fldCnt, rowdone,    \* the record that is read, as in rows()
    headers,      \* Nil or the names of the columns
    rows,         \* the records that were returned, with their named fields
    pc

csvVars == <<doc, its, line, parsed, fldCnt, rowdone, headers, rows, pc>>

(***************************************************************************)
(* t_csv_parse, a state machine over the characters of a line.             *)
(***************************************************************************)

Put(row, n, v) ==
    [i \in 1..(IF n > Len(row) THEN n ELSE Len(row)) |->
        IF i = n THEN v ELSE IF i <= Len(row) THEN row[i] ELSE Nil]

\* luaL_gsub of two quotation characters by one.
Undoubling(s) ==
    LET u[i \in 0..Len(s)] ==
            IF i = 0 THEN [out |-> <<>>, odd |-> 0]
            ELSE LET m == u[i - 1]
                 IN  IF s[i] = Qte /\ m.odd = 1 THEN [m EXCEPT !.odd = 0]
                     ELSE [out |-> Append(m.out, s[i]), odd |-> IF s[i] = Qte THEN 1 ELSE 0]
    IN  u
Undoubled(s) == Undoubling(s)[Len(s)].out

Stripped(s) == SubSeq(s, 1, SelectLastInSeq(s, LAMBDA c : c # "\r"))

\* The field of text s that the parser has found, and where it goes.
PushField(s, r, ste) ==
    LET data  == Stripped(SubSeq(s, r.beg, r.beg + r.len - 1))
        field == IF r.len = 0 /\ r.ste = "FldBeg" THEN Nil
                 ELSE IF r.hdb = 1 THEN Undoubled(data) ELSE data
    IN  [r EXCEPT !.row = Put(@, r.cnt + 1, field), !.cnt = @ + 1, !.ste = ste]

\* At a delimiter or at the end of the line the field ends, with len bytes.
FieldEnds(s, r, c, len) ==
    PushField(s, [r EXCEPT !.len = len], IF c = Dlm THEN "FldBeg" ELSE "RecDne")

Ends(c) == c \in {Dlm, "\n"}

\* Blanks do not make the field longer until something follows them.
Grown(r, c, i) == IF c = " " THEN r.len ELSE i - r.beg

NakedTurn(s, r, c, i) ==
    IF Ends(c) THEN FieldEnds(s, r, c, r.len + 1)
    ELSE [r EXCEPT !.len = Grown(r, c, i)]

QuotedTurn(r, c, i) ==
    [r EXCEPT !.len = i - r.beg, !.ste = IF c = Qte THEN "QteOne" ELSE "DatQte"]

\* After the quotation character that may have closed the field.
QuoteOneTurn(s, r, c, i) ==
    CASE Ends(c) -> FieldEnds(s, r, c, r.len)
      [] c = Qte -> [r EXCEPT !.ste = "QteTwo"]
      [] OTHER   -> [r EXCEPT !.len = Grown(r, c, i)]

\* Mutant: what follows two quotation characters is data, whatever it is.
QuoteTwoCloses(r, c, i) ==
    [r EXCEPT !.hdb = 1, !.len = i - r.beg, !.ste = "DatQte"]

QuoteTwoTurn(r, c, i) ==
    [r EXCEPT !.hdb = 1, !.len = i - r.beg,
              !.ste = IF c = Qte THEN "QteOne" ELSE "DatQte"]

BeginTurn(s, r, c, i) ==
    LET new == [r EXCEPT !.beg = i, !.fld = i, !.hdb = 0, !.len = 0]
    IN  CASE c = Qte -> [new EXCEPT !.ste = "Qte1st"]
          [] c = " " -> new
          [] Ends(c) -> FieldEnds(s, new, c, 0)
          [] OTHER   -> [new EXCEPT !.ste = "DatNkd"]

QuoteFirstTurn(r, c, i) ==
    [r EXCEPT !.beg = i, !.ste = IF c = Qte THEN "Qte2nd" ELSE "DatQte"]

\* After two quotation characters at the beginning of a field.
QuoteSecondTurn(s, r, c) ==
    CASE Ends(c) -> FieldEnds(s, r, c, r.len)
      [] c = Qte -> [r EXCEPT !.ste = "QteTwo"]
      [] OTHER   -> r

Turn(s, r, i) ==
    CASE r.ste = "DatNkd" -> NakedTurn(s, r, s[i], i)
      [] r.ste = "DatQte" -> QuotedTurn(r, s[i], i)
      [] r.ste = "QteOne" -> QuoteOneTurn(s, r, s[i], i)
      [] r.ste = "QteTwo" -> QuoteTwoTurn(r, s[i], i)
      [] r.ste = "FldBeg" -> BeginTurn(s, r, s[i], i)
      [] r.ste = "Qte1st" -> QuoteFirstTurn(r, s[i], i)
      [] r.ste = "Qte2nd" -> QuoteSecondTurn(s, r, s[i])
      [] r.ste = "RecDne" -> r

\* Csv.parseLine: parses s into a row that has cnt fields.  A record is done
\* at its line end; at the end of s nothing else can happen to it.
Parser(s, row, cnt) ==
    LET p[i \in 0..Len(s)] ==
            IF i = 0
            THEN [ste |-> "FldBeg", beg |-> 1, len |-> 0, fld |-> 1, hdb |-> 0, cnt |-> cnt, row |-> row]
            ELSE Turn(s, p[i - 1], i)
    IN  p
ParseLine(s, row, cnt) ==
    LET r == Parser(s, row, cnt)[Len(s)]
    IN  [ste |-> r.ste, rest |-> SubSeq(s, r.fld, Len(s)), cnt |-> r.cnt, row |-> r.row]

\* What the caller is told of the record.
Done(p) == p.ste = "RecDne"

(***************************************************************************)
(* t_csv_split: one call of the iterator that Csv.split returns.           *)
(***************************************************************************)

\* How many characters of the delimiter the text ends in, from one character
\* to the next; it begins again at the first when one does not match.
Matched(dlm, d, c) ==
    IF c = dlm[d + 1] THEN d + 1 ELSE IF c = dlm[1] THEN 1 ELSE 0

\* The position of the end of the next delimiter, 0 when there is none.
Matching(text, dlm, from) ==
    LET f[i \in from..Len(text)] ==
            IF i = from THEN [d |-> 0, at |-> 0]
            ELSE LET m == f[i - 1]
                     d == Matched(dlm, m.d, text[i])
                 IN  IF m.at > 0 THEN m ELSE [d |-> d, at |-> IF d = Len(dlm) THEN i ELSE 0]
    IN  f
DelimiterEnd(text, dlm, from) == Matching(text, dlm, from)[Len(text)].at

\* What a call returns and how much of the text it has then returned.
Split(text, dlm, keep, from) ==
    LET end == DelimiterEnd(text, dlm, from)
    IN  IF from > Len(text) THEN [token |-> Nil, its |-> from]
        ELSE IF end = 0
        THEN [token |-> SubSeq(text, from + 1, Len(text)), its |-> Len(text) + 1]
        ELSE [token |-> SubSeq(text, from + 1, IF keep THEN end ELSE end - Len(dlm)),
              its |-> end]

Source(from) == Split(doc.text, doc.eol, doc.keep, from)

Skipping ==
    LET k[n \in 0..doc.skip] == IF n = 0 THEN 0 ELSE Source(k[n - 1]).its
    IN  k
Skipped == Skipping[doc.skip]

(***************************************************************************)
(* csv:rows()                                                              *)
(***************************************************************************)

CsvInit ==
    /\ doc \in Documents
    /\ its = 0 /\ line = Nil /\ parsed = <<>> /\ fldCnt = 0 /\ rowdone = TRUE
    /\ headers = doc.headers /\ rows = <<>> /\ pc = "start"

\* The call of rows(): skips lines, reads the first, and takes the names of the
\* columns from it.
Start ==
    LET first == Source(Skipped)
        names == ParseLine(Append(first.token, "\n"), <<>>, 0)
        next  == Source(first.its)
    IN  /\ pc = "start"
        /\ IF doc.names /\ first.token = Nil
           THEN pc' = "error" /\ UNCHANGED <<its, line, headers, rowdone, fldCnt>>
           ELSE /\ pc' = "rows"
                /\ IF doc.names
                   THEN /\ its' = next.its /\ line' = next.token
                        /\ headers' = names.row
                        /\ rowdone' = Done(names) /\ fldCnt' = names.cnt
                   ELSE /\ its' = first.its /\ line' = first.token
                        /\ UNCHANGED <<headers, rowdone, fldCnt>>
        /\ UNCHANGED <<doc, parsed, rows>>

\* use_headers: the fields under their names, up to the first column without one.
NamedFields(row) ==
    LET nils  == {i \in DOMAIN headers : headers[i] = Nil}
        last  == IF nils = {} THEN Len(headers) ELSE Min(nils) - 1
        under == [name \in {headers[i] : i \in 1..last} |->
                     LET i == Max({j \in 1..last : headers[j] = name})
                     IN  IF i <= Len(row) THEN row[i] ELSE Nil]
    IN  IF headers = Nil THEN Nil ELSE under

Parsed == ParseLine(Append(line, "\n"), parsed, IF rowdone THEN 0 ELSE fldCnt)

ParseRow ==
    /\ pc = "rows" /\ line # Nil
    /\ rowdone' = Done(Parsed) /\ fldCnt' = Parsed.cnt
    /\ UNCHANGED <<doc, headers>>

SkipEmptyLine ==
    /\ ParseRow
    /\ line = <<>>
    /\ parsed' = Parsed.row
    /\ line' = Source(its).token /\ its' = Source(its).its
    /\ UNCHANGED <<rows, pc>>

ReturnRow ==
    /\ ParseRow
    /\ line # <<>> /\ Done(Parsed)
    /\ rows' = Append(rows, [fields |-> Parsed.row, named |-> NamedFields(Parsed.row)])
    /\ parsed' = <<>>
    /\ line' = Source(its).token /\ its' = Source(its).its
    /\ UNCHANGED pc

\* The record goes on in the next line: what was read of its last field is read
\* again with it.  Without a next line nil is concatenated, an error.
ContinueRow ==
    /\ ParseRow
    /\ line # <<>> /\ ~Done(Parsed)
    /\ parsed' = Parsed.row
    /\ IF Source(its).token = Nil
       THEN pc' = "error" /\ UNCHANGED <<line, its>>
       ELSE /\ line' = Parsed.rest \o Source(its).token
            /\ its' = Source(its).its
            /\ UNCHANGED pc
    /\ UNCHANGED rows

EndOfRows ==
    /\ pc = "rows" /\ line = Nil
    /\ pc' = "done"
    /\ UNCHANGED <<doc, its, line, parsed, fldCnt, rowdone, headers, rows>>

CsvNext == Start \/ SkipEmptyLine \/ ReturnRow \/ ContinueRow \/ EndOfRows

CsvSpec == CsvInit /\ [][CsvNext]_csvVars

(***************************************************************************)
(* Texts without an escape character, a hypothesis of the proof: a value   *)
(* with a delimiter or a line end is between quotation characters, and a   *)
(* quotation character in such a value is doubled.  t is the text with a   *)
(* last line end, from..to are the positions of a field or a record in it. *)
(*                                                                         *)
(* The documentation has other texts: the escape character may stand       *)
(* before a delimiter or a quotation character, and must where doublequote *)
(* is false (docs/Csv.rst:80-123).  rows() passes both options on          *)
(* (Csv.lua:43, 51; its second one is named doublequoted), but the parser  *)
(* uses neither ("TODO: handle escape char", t_csv_l.c:70): it takes a     *)
(* backslash for any other character and doubled quotation characters for  *)
(* one under every dialect.  Such texts are not among those described      *)
(* here, and nothing is claimed of them.  On the other hand a quotation    *)
(* character is taken as it is here, as the code does, in a field that     *)
(* does not begin with one; the documentation is silent about those.       *)
(***************************************************************************)

EscapeChar == "\\"     \* the default escapechar

Blank(t, from, to) == \A i \in from..to : t[i] = " "
Returns(t, from, to) == \A i \in from..to : t[i] = "\r"
OneLine(t, from, to) == \A i \in from..to : t[i] # "\n"

\* The place of the k-th character of a quoted value that opens at q.
PlaceIn(q, v, k) == q + k + Cardinality({j \in 1..(k - 1) : v[j] = Qte})

\* The first m characters of a quoted value; its quotation characters are doubled.
HeldAt(t, q, v, m) ==
    \A k \in 1..m : LET p == PlaceIn(q, v, k)
                    IN  t[p] = v[k] /\ (v[k] = Qte => t[p + 1] = Qte)

NakedFrom(t, b, to, v) ==
    LET end == b + Len(v)
    IN  /\ Len(v) > 0 /\ end - 1 <= to
        /\ \A k \in 1..Len(v) : t[b + k - 1] = v[k] /\ v[k] \notin {Dlm, "\n"}
        /\ v[1] \notin {" ", Qte} /\ v[Len(v)] \notin {" ", "\r"}
        /\ Blank(t, end, to) \/ Returns(t, end, to)

QuotedFrom(t, q, to, v) ==
    LET end == PlaceIn(q, v, Len(v) + 1)
    IN  /\ end <= to /\ t[q] = Qte /\ t[end] = Qte
        /\ HeldAt(t, q, v, Len(v))
        /\ v = <<>> \/ v[Len(v)] # "\r"
        /\ Blank(t, end + 1, to)

FieldAt(t, from, to, v) ==
    \/ v = Nil /\ Blank(t, from, to)
    \/ /\ v \in Seq(ToSet(t))
       /\ \E b \in from..to : /\ Blank(t, from, b - 1)
                              /\ NakedFrom(t, b, to, v) \/ QuotedFrom(t, b, to, v)

RecordAt(t, from, to, fields) ==
    LET n == Len(fields)
    IN  /\ from <= to /\ n > 0
        /\ \E cut \in [0..n -> {from - 1, to + 1} \cup {i \in from..to : t[i] = Dlm}] :
              /\ cut[0] = from - 1 /\ cut[n] = to + 1
              /\ \A k \in 1..n :
                    /\ cut[k - 1] < cut[k] /\ (k < n => t[cut[k]] = Dlm)
                    /\ FieldAt(t, cut[k - 1] + 1, cut[k] - 1, fields[k])

\* The fields of a record under the names of their columns.
Titled(names, fields) ==
    IF names = Nil THEN Nil
    ELSE [name \in ToSet(names) |->
             LET i == CHOOSE i \in DOMAIN names : names[i] = name
             IN  IF i <= Len(fields) THEN fields[i] ELSE Nil]

\* The text of d is split into n parts, the x-th of which ends before the line end at
\* ends[x]: lines to skip, the names of the columns, records and empty lines; upto[x]
\* records are in the first x of them.
WrittenAs(d, n, ends, upto, names) ==
    LET t     == Append(d.text, "\n")
        texts == Seq(ToSet(t))
        start == d.skip + IF d.names THEN 1 ELSE 0
    IN  /\ d.text \in texts /\ d.skip \in Nat /\ d.names \in BOOLEAN /\ Nil \notin texts
        /\ d.eol = <<"\n">> /\ d.keep = FALSE
        /\ d.table \in Seq([fields : Seq(texts \cup {Nil}), named : {Titled(names, r.fields) : r \in ToSet(d.table)}])
        /\ \A r \in ToSet(d.table) : r.named = Titled(names, r.fields)
        /\ IF names = Nil THEN ~d.names
           ELSE names \in Seq(texts) /\ \A i, j \in DOMAIN names : names[i] = names[j] => i = j
        /\ d.names \/ names = d.headers
        /\ start <= n /\ ends \in [0..n -> 0..Len(t)] /\ upto \in [0..n -> 0..Len(d.table)]
        /\ ends[0] = 0 /\ ends[n] = Len(t) /\ upto[0] = 0 /\ upto[n] = Len(d.table)
        /\ \A x \in 1..n :
              LET from == ends[x - 1] + 1
                  to   == ends[x] - 1
              IN  /\ from <= to + 1 /\ t[to + 1] = "\n"
                  /\ x <= start => upto[x] = 0 /\ OneLine(t, from, to)
                  /\ x = d.skip + 1 /\ d.names => RecordAt(t, from, to, names)
                  /\ x > start =>
                        \/ from = to + 1 /\ upto[x] = upto[x - 1]
                        \/ upto[x] = upto[x - 1] + 1 /\ RecordAt(t, from, to, d.table[upto[x]].fields)

WrittenWithoutEscapes(d) ==
    /\ EscapeChar \notin ToSet(d.text)
    /\ \E n \in Nat : \E ends, upto, names : WrittenAs(d, n, ends, upto, names)

(***************************************************************************)
(* Properties.                                                             *)
(***************************************************************************)

\* The values of a table may hold delimiters, quotation characters, blanks and line
\* breaks.  When it is written with quotation marks around such values and doubled
\* ones inside, without escape characters, rows() returns the records that were
\* written, one after the other, each field under its column's name, and reports no
\* error: pushfield must undo the doubling, parse must trim only what is outside of
\* the quotation marks, and a record must survive being read in several turns.  What
\* the documentation says of escapechar and of doublequote = false is not done by the
\* code and not claimed here.
RowsAsWritten ==
    /\ pc # "error"
    /\ IsPrefix(rows, doc.table)
    /\ pc = "done" => rows = doc.table

\* Between the lines of a record nothing of it is lost or read twice: the row has
\* the fields before the open one, and what is parsed next begins with it.
FieldsKept ==
    pc = "rows" /\ ~rowdone =>
        /\ Len(rows) < Len(doc.table)
        /\ fldCnt <= Len(parsed)
        /\ IsStrictPrefix(SubSeq(parsed, 1, fldCnt), doc.table[Len(rows) + 1].fields)
        /\ Head(line) = Qte

\* The records of a text without escapes come out as they were written, and no part of
\* one gets lost on the way.
RecordsKept == RowsAsWritten /\ FieldsKept
==============================================================================
