----------------------------- MODULE HttpRequest ------------------------------
(***************************************************************************)
(* A request of t.Http and its parser: src/src/t_htp_req.c, called from    *)
(* receive of lua/t/Http/Request.lua with each piece of text the client's  *)
(* socket yields.  The parser keeps no position between two pieces: it     *)
(* returns the text it could not use, which receive puts in front of the   *)
(* next piece.  A text is a sequence of symbols: the separators the parser *)
(* looks for, and a symbol for each word it does not look into.            *)
(***************************************************************************)
EXTENDS SequencesExt, Integers

\* The requests clients send: [version, eol, lines, body], where lines is a
\* sequence of [name, value]; the name of a line without a colon is "none".
CONSTANT Heads

VARIABLES
  head,     \* the request the client sends
  got,      \* how many symbols of its text have arrived
  request,  \* t.Http.Request: [state, version, keepAlive, contentLength,
            \* headers, tail]; contentLength is {} for nil
  raised,   \* history: the parser raised an error
  unlucky   \* history: a piece ended where the parser loses a character,
            \* between the last two of the header, or behind the URL's blank
            \* with a line end in the memory that the parser then reads

requestVars == <<head, got, request, raised, unlucky>>
-----------------------------------------------------------------------------
(***************************************************************************)
(* The text of a request.  The method is in two symbols, since its first   *)
(* character is the one that is looked at; "u" is a part of the URL.       *)
(***************************************************************************)
HeaderLine(l, eol) ==
  (IF l.name = "none" THEN <<>> ELSE <<l.name, ":", "sp">>) \o l.value \o eol

\* What stands before the version.
UrlText == <<"M", "ethod", "sp", "u", "u", "sp">>

HeadText(h) ==
  UrlText \o <<h.version>> \o h.eol
    \o FlattenSeq([i \in DOMAIN h.lines |-> HeaderLine(h.lines[i], h.eol)]) \o h.eol

RequestText(h) == HeadText(h) \o h.body

\* The characters of a symbol, as far as the parser counts them.
SymbolWidth(s) ==
  CASE s = "ethod" -> 2 [] s = "u" -> 5 [] s \in {"1.0", "1.1", "bad"} -> 8 [] OTHER -> 1

Chars(t) == FoldLeft(LAMBDA n, s : n + SymbolWidth(s), 0, t)

Space == {"sp", "cr", "lf"}

\* eat_lws
EatSpace(t) ==
  LET rest == {i \in DOMAIN t : t[i] \notin Space}
  IN IF rest = {} THEN <<>> ELSE SubSeq(t, Min(rest), Len(t))

At(t, i) == IF i \in DOMAIN t THEN t[i] ELSE "end"
-----------------------------------------------------------------------------
(***************************************************************************)
(* The stages of lt_htp_req_parse.  Each takes a request q and the text t  *)
(* and says whether there was enough text (ok), what is left of it, and    *)
(* whether it raises an error.                                             *)
(***************************************************************************)
Parsing(q, t, ok) == [request |-> q, rest |-> t, ok |-> ok, raised |-> FALSE]
Error(q) == [request |-> q, rest |-> <<>>, ok |-> FALSE, raised |-> TRUE]

\* The longest method has eleven characters; a method is known by its first.
ParseMethod(q, t) ==
  IF Chars(t) <= 11 THEN Parsing(q, t, FALSE)
  ELSE IF t[1] # "M" THEN Error(q)
  ELSE Parsing([q EXCEPT !.state = "uri"], SubSeq(t, 3, Len(t)), TRUE)

\* The URL ends at the first blank; its path and query are left out.
ParseUrl(q, t) ==
  LET u == EatSpace(t)
      ends == {i \in DOMAIN u : u[i] = "sp"}
  IN IF ends = {} THEN Parsing(q, t, FALSE)
     ELSE Parsing([q EXCEPT !.state = "version"], SubSeq(u, Min(ends), Len(u)), TRUE)

\* A digit that belongs to no version is an error.
IsVersion(s) == s # "bad"

\* The header ends with the line of the version, whose "cr" or "lf" is v[2].
HeaderEmpty(v) == At(v, 4) = "cr" \/ (At(v, 2) = "lf" /\ At(v, 3) = "lf")

(***************************************************************************)
(* The line of the version must be complete, and the text go on far enough *)
(* to see whether the header ends with it.  When there is no text but the  *)
(* blank behind the URL, the runner is one beyond the last character, and  *)
(* the size_t end - r is the largest there is: the parser looks for the    *)
(* end of the line in what the memory holds behind the text.  If it finds  *)
(* one there, it believes the version too, and then the rest of the text   *)
(* begins beyond its end and has a negative length, an error.              *)
(***************************************************************************)
ParseVersion(q, t, behind) ==
  LET wraps == EatSpace(t) = <<>>
      v == IF wraps THEN behind ELSE EatSpace(t)
      Longer(n) == wraps \/ Chars(v) - 1 > n
      told == [q EXCEPT !.version = v[1],
                        !.keepAlive = @ /\ v[1] # "1.0",
                        !.state = IF HeaderEmpty(v) THEN "done" ELSE "headers"]
  IN IF ~((Longer(10) /\ At(v, 2) = "cr") \/ (Longer(8) /\ At(v, 2) = "lf"))
     THEN Parsing(q, t, FALSE)
     ELSE IF ~IsVersion(v[1]) THEN Error(q)
     ELSE IF wraps THEN Error(told)
     ELSE Parsing(told, Tail(v), TRUE)

WithHeader(headers, name, value) ==
  [n \in DOMAIN headers \cup {name} |-> IF n = name THEN value ELSE headers[n]]

\* t_htp_req_handleHeader for the line that ends with the "lf" at e: it takes
\* the character before for a "cr" that does not belong to the value.
HandleHeader(q, name, t, v, e) ==
  LET value == SubSeq(t, v, e - 2)
  IN [q EXCEPT
        !.headers = WithHeader(@, name, value),
        !.contentLength = IF name = "content-length" THEN {value} ELSE @,
        !.keepAlive = IF name # "connection" THEN @
                      ELSE (t[v] = "keep-alive") \/ (@ /\ t[v] # "close")]

\* A line that begins with a space continues the one before.
EndsLine(t, i) == t[i] = "lf" /\ t[i + 1] # "sp"

(***************************************************************************)
(* One turn of the loop in t_htp_req_parseHeaders, at the symbol i: a is   *)
(* what the loop knows.  eating is TRUE within eat_lws; inValue is rs; key *)
(* and value are where k and v point; end is where the rest begins, once   *)
(* the empty line is found.                                                *)
(***************************************************************************)
HeaderTurn(t, a, i) ==
  LET b == [a EXCEPT !.eating = FALSE,
                     !.key = IF a.eating /\ ~a.inValue THEN i ELSE @,
                     !.value = IF a.eating /\ a.inValue THEN i ELSE @]
  IN CASE a.end > 0 -> a
       [] a.end = 0 /\ a.eating /\ t[i] \in Space -> a
       [] a.end = 0 /\ ~(a.eating /\ t[i] \in Space) /\ EndsLine(t, i) ->
            [b EXCEPT
               !.request = IF b.inValue
                           THEN HandleHeader(@, t[b.key], t, b.value, i)
                           ELSE [@ EXCEPT !.headers =
                                   WithHeader(@, "none", SubSeq(t, b.key, i - 2))],
               !.inValue = FALSE,
               !.key = i + 1,
               !.end = IF t[i + 1] = "lf" THEN i + 1
                       ELSE IF t[i + 1] = "cr" THEN i + 3 ELSE 0]
       [] a.end = 0 /\ ~a.eating /\ ~a.inValue /\ t[i] = ":" ->
            [b EXCEPT !.inValue = TRUE, !.eating = TRUE]
       [] OTHER -> b

\* The header table holds strings, so every content-length, zero included,
\* announces a body.  The empty line may not have arrived whole: the rest then
\* begins beyond the text and has a negative length, an error.
ParseHeaders(q, t) ==
  LET start == [request |-> q, eating |-> TRUE, inValue |-> FALSE,
                key |-> 1, value |-> 1, end |-> 0]
      a == FoldLeft(LAMBDA x, i : HeaderTurn(t, x, i), start, [i \in 1..(Len(t) - 1) |-> i])
      done == [a.request EXCEPT
                 !.state = IF "content-length" \in DOMAIN a.request.headers
                           THEN "body" ELSE "done"]
  IN IF a.end = 0 THEN Parsing(a.request, t, FALSE)
     ELSE IF a.end > Len(t) + 1 THEN Error(done)
     ELSE Parsing(done, SubSeq(t, a.end, Len(t)), TRUE)

\* One stage after the other, from the one the request is in.
Parse(q, t, behind) ==
  LET a == IF q.state = "method" THEN ParseMethod(q, t) ELSE Parsing(q, t, TRUE)
      b == IF a.ok /\ q.state \in {"method", "uri"}
           THEN ParseUrl(a.request, a.rest) ELSE a
      c == IF b.ok /\ q.state \in {"method", "uri", "version"}
           THEN ParseVersion(b.request, b.rest, behind) ELSE b
  IN IF c.ok /\ q.state \in {"method", "uri", "version", "headers"}
     THEN ParseHeaders(c.request, c.rest) ELSE c

\* Of the rest a single character is taken for none.
Kept(rest) == IF Chars(rest) = 1 THEN <<>> ELSE rest
-----------------------------------------------------------------------------
NewRequest ==
  [state |-> "method", version |-> "none", keepAlive |-> TRUE, contentLength |-> {},
   headers |-> <<>>, tail |-> <<>>]

RequestInit ==
  /\ head \in Heads
  /\ got = 0
  /\ request = NewRequest
  /\ raised = FALSE
  /\ unlucky = FALSE

\* What receive gives the parser: what was left over, and the new text.
NewTextOnly(n) == SubSeq(RequestText(head), got + 1, got + n)
Unparsed(n) == request.tail \o SubSeq(RequestText(head), got + 1, got + n)

\* What the memory behind a text may hold, as far as the parser would look:
\* no end of a line, or one behind a digit of any kind.
Behind == {<<>>, <<"bad", "cr">>, <<"1.0", "lf">>, <<"1.1", "cr", "lf", "cr">>}

\* receive: n symbols arrive.  An error leaves receive before it stores what
\* is left.
Receive(n, behind) ==
  LET p == Parse(request, Unparsed(n), behind)
      end == Len(HeadText(head))
  IN /\ request.state # "done" /\ ~raised
     /\ got + n <= Len(RequestText(head))
     /\ got' = got + n
     /\ request' = [p.request EXCEPT
          !.tail = IF p.raised THEN request.tail
                   ELSE IF p.request.state = "done" THEN <<>> ELSE Kept(p.rest)]
     /\ raised' = (raised \/ p.raised)
     /\ unlucky' = \/ unlucky
                   \/ got' \in {1, end - 1, end + 1}
                   \/ got' = Len(UrlText) /\ behind # <<>>
     /\ UNCHANGED head

RequestNext ==
  \E n \in 1..Len(RequestText(head)), behind \in Behind : Receive(n, behind)

RequestSpec == RequestInit /\ [][RequestNext]_requestVars
-----------------------------------------------------------------------------
(***************************************************************************)
(* Properties.                                                             *)
(***************************************************************************)

\* What the client's lines say of a name: the last one counts.
LastValue(h, name) ==
  LET of == {i \in DOMAIN h.lines : h.lines[i].name = name}
  IN h.lines[Max(of)].value

NamesIn(h) == {h.lines[i].name : i \in DOMAIN h.lines}

\* The request the client means.
Meant(h) ==
  [state |-> IF "content-length" \in NamesIn(h) THEN "body" ELSE "done",
   version |-> h.version,
   keepAlive |-> IF "connection" \in NamesIn(h)
                 THEN LastValue(h, "connection") = <<"keep-alive">> ELSE h.version = "1.1",
   contentLength |-> IF "content-length" \in NamesIn(h) THEN {LastValue(h, "content-length")} ELSE {},
   headers |-> [n \in NamesIn(h) |-> LastValue(h, n)],
   tail |-> IF "content-length" \in NamesIn(h) THEN h.body ELSE <<>>]

Legal(h) == h.version # "bad"
Arrived == got = Len(RequestText(head)) \/ request.state = "done"

\* The request is understood whatever the pieces its text arrives in, unless
\* one of them ends where a character gets lost, or where the parser believes
\* memory that is not text.  Lines must end with "cr" and "lf" when there are
\* any, or their values lose their last character.
UnderstoodAtEnd ==
  (Legal(head) /\ Arrived /\ ~unlucky /\ (head.eol = <<"lf">> => head.lines = <<>>)) =>
    request = Meant(head) /\ ~raised

\* What a program is handed before all has arrived is true.  No piece makes the
\* parser see the end of a header that is not there: the body begins when the header
\* has arrived, but for the last "lf".  And what the request says of a line before
\* the end of the header is what the client sent: no line is cut short or taken for
\* the continuation of another.
HeaderReadRight ==
  /\ (request.state \in {"body", "done"} /\ ~raised) => got >= Len(HeadText(head)) - 1
  /\ head.eol = <<"cr", "lf">> =>
       \A n \in DOMAIN request.headers :
         \E i \in DOMAIN head.lines :
           head.lines[i].name = n /\ head.lines[i].value = request.headers[n]

\* Both: what a program gets to see of a request while it arrives and in the end.
Understood == UnderstoodAtEnd /\ HeaderReadRight

\* lt_htp_req_parse: "preserve the state, store unparsed string in Lua and
\* re-parse upon next incoming data", whatever the pieces are: stated for those of
\* which the header has arrived, but perhaps for its last "lf".
PiecesDoNotMatter ==
  (Legal(head) /\ Arrived /\ got >= Len(HeadText(head)) - 1 /\ head.eol = <<"cr", "lf">>) => request = Meant(head) /\ ~raised
=============================================================================
