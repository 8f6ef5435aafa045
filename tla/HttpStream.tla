------------------------------ MODULE HttpStream ------------------------------
(***************************************************************************)
(* The streams of t.Http: one client connection each, between the server's *)
(* listening socket (lua/t/Http/Server.lua), the loop that watches the     *)
(* client's socket (Descriptors), and the program, which answers requests  *)
(* through response objects (lua/t/Http/Response.lua) whenever it likes,   *)
(* also long after the callback that handed them out.  What a client sends *)
(* is abstracted to how far its request gets (src/src/t_htp_req.c), what   *)
(* it is sent to pieces: one for each call of a response that adds text.   *)
(***************************************************************************)
EXTENDS Descriptors, Sequences

CONSTANTS
  Clients,    \* the connections clients open
  Responses,  \* the response objects the server can make
  MaxPieces,  \* bound: the pieces of a response
  None        \* nil: no socket, no response, no client

ASSUME HttpAssumption ==
  /\ MaxPieces \in Nat
  /\ None \notin Fds \cup Responses \cup Clients

VARIABLES
  stream,    \* client -> [life, socket, request, keepAlive, isOnOutLoop,
             \* response]: the Stream made for it
  response,  \* response -> [client, state, buf, made]: buf counts the pieces
             \* still in the buffer, made those ever put there
  wire,      \* history: client -> the response of each piece it was sent
  raised     \* history: an error has left a callback of the loop

streamVars == <<stream, response, wire, raised>>
httpVars == <<handleVars, streamVars>>

(***************************************************************************)
(* stream.requests never holds more than the request that is being         *)
(* received, because getRequest makes one only when the list is empty.  So *)
(* every request has the id 1, and so has every response: stream.responses *)
(* holds one response at most, whatever the program still has to answer.   *)
(***************************************************************************)
NoStream ==
  [life |-> "none", socket |-> None, request |-> "none", keepAlive |-> TRUE,
   isOnOutLoop |-> FALSE, response |-> None]

NewStream(fd) == [NoStream EXCEPT !.life = "open", !.socket = fd]

NoResponse == [client |-> None, state |-> "none", buf |-> 0, made |-> 0]

NewResponse(c) == [client |-> c, state |-> "zero", buf |-> 0, made |-> 0]

Open(c) == stream[c].life = "open"
InUse(fd) == \E c \in Clients : stream[c].socket = fd

\* What the loop watches the client's socket for.
Watching(c) ==
  IF Open(c) /\ stream[c].socket \in Watched THEN interest[stream[c].socket] ELSE {}

\* destroy: the socket is closed, the tables and the stream's entry in the
\* server are gone.
Destroyed(st, c) ==
  [st EXCEPT ![c] = [@ EXCEPT !.life = "closed", !.socket = None,
                              !.request = "none", !.response = None]]
-----------------------------------------------------------------------------
Init ==
  /\ HandleInit
  /\ stream = [c \in Clients |-> NoStream]
  /\ response = [r \in Responses |-> NoResponse]
  /\ wire = [c \in Clients |-> <<>>]
  /\ raised = FALSE

(***************************************************************************)
(* The server accepts a client: one round of the loop in accept_cb.        *)
(***************************************************************************)

Accept(c, fd) ==
  /\ stream[c].life = "none"
  /\ ~InUse(fd)
  /\ AddHandle(fd, {"read"})
  /\ stream' = [stream EXCEPT ![c] = NewStream(fd)]
  /\ UNCHANGED <<response, wire, raised>>

\* addHandle raises an error: the socket is garbage, which closes it.
AcceptFails(c, fd) ==
  /\ stream[c].life = "none"
  /\ ~InUse(fd)
  /\ AddHandleFails(fd)
  /\ stream' = Destroyed(stream, c)
  /\ raised' = TRUE
  /\ UNCHANGED <<response, wire>>

(***************************************************************************)
(* recv, the callback for reading.                                         *)
(***************************************************************************)

\* How far the parser may get with the text it receives for a request: it
\* has no case for the state Body.
Parsed(state) == IF state = "body" THEN {"body"} ELSE {"head", "body", "done"}

\* The client hung up, or receiving failed.
RecvNothing(c) ==
  /\ "read" \in Watching(c)
  /\ RemoveHandle(stream[c].socket, {"read", "write"})
  /\ stream' = Destroyed(stream, c)
  /\ UNCHANGED <<response, wire, raised>>

\* The header is not complete yet.
RecvHead(c) ==
  /\ "read" \in Watching(c)
  /\ "head" \in Parsed(stream[c].request)
  /\ stream' = [stream EXCEPT ![c].request = "head"]
  /\ UNCHANGED <<handleVars, response, wire, raised>>

\* The parser raises an error: an unknown method or version.
RecvIllegal(c) ==
  /\ "read" \in Watching(c)
  /\ "head" \in Parsed(stream[c].request)
  /\ stream' = [stream EXCEPT ![c].request = "head"]
  /\ raised' = TRUE
  /\ UNCHANGED <<handleVars, response, wire>>

\* The header is complete and announces a body, or more of the body arrives:
\* the parser never leaves the state Body, and the callback is called again,
\* with another response.
RecvBody(c, r) ==
  /\ "read" \in Watching(c)
  /\ response[r].state = "none"
  /\ "body" \in Parsed(stream[c].request)
  /\ stream' = [stream EXCEPT ![c].request = "body"]
  /\ response' = [response EXCEPT ![r] = NewResponse(c)]
  /\ UNCHANGED <<handleVars, wire, raised>>

RecvRequestKeepsReading(c, r, keep) ==
  /\ "read" \in Watching(c)
  /\ "done" \in Parsed(stream[c].request)
  /\ response[r].state = "none"
  /\ stream' = [stream EXCEPT ![c].request = "none", ![c].keepAlive = keep]
  /\ response' = [response EXCEPT ![r] = NewResponse(c)]
  /\ UNCHANGED <<handleVars, wire, raised>>

\* The request is done; its header says whether the client keeps the stream.
RecvRequest(c, r, keep) ==
  /\ "read" \in Watching(c)
  /\ "done" \in Parsed(stream[c].request)
  /\ response[r].state = "none"
  /\ stream' = [stream EXCEPT ![c].request = "none", ![c].keepAlive = keep]
  /\ IF keep
     THEN UNCHANGED handleVars
     ELSE RemoveHandle(stream[c].socket, {"read"})
  /\ response' = [response EXCEPT ![r] = NewResponse(c)]
  /\ UNCHANGED <<wire, raised>>

(***************************************************************************)
(* respond and send: what is left of a call that was made with the stream  *)
(* st[c], whose response is r, and the responses rs.                       *)
(***************************************************************************)

ReleasedNever(st, c) == st
Released(st, c) == [st EXCEPT ![c].response = None]

\* isOnOutLoop stays set.
OffLoop(s) ==
  IF s.isOnOutLoop THEN RemoveHandle(s.socket, {"write"}) ELSE UNCHANGED handleVars

\* The client's socket takes the whole buffer.  A response that is done is
\* released, and a stream the client does not keep is destroyed with it;
\* respond then takes that stream's socket, nil, off the loop: an error.
SendAll(c, r, st, rs) ==
  LET done == rs[r].state = "done"
      sent == [i \in 1..rs[r].buf |-> r]
  IN /\ response' = [rs EXCEPT ![r].buf = 0]
     /\ wire' = [wire EXCEPT ![c] = @ \o sent]
     /\ IF done /\ ~st[c].keepAlive
        THEN /\ stream' = Destroyed(st, c)
             /\ Close(st[c].socket)
             /\ raised' = (raised \/ st[c].isOnOutLoop)
        ELSE /\ stream' = IF done THEN Released(st, c) ELSE st
             /\ OffLoop(st[c])
             /\ UNCHANGED raised

SendSomeAgain(c, r, st, rs, n) ==
  /\ n < rs[r].buf
  /\ response' = [rs EXCEPT ![r].buf = @ - n + 1]
  /\ wire' = [wire EXCEPT ![c] = @ \o [i \in 1..n |-> r]]
  /\ stream' = st
  /\ UNCHANGED <<handleVars, raised>>

\* It takes n pieces, less than the buffer holds.  The rest stays there, and
\* nothing is asked of the loop.
SendSome(c, r, st, rs, n) ==
  /\ n < rs[r].buf
  /\ response' = [rs EXCEPT ![r].buf = @ - n]
  /\ wire' = [wire EXCEPT ![c] = @ \o [i \in 1..n |-> r]]
  /\ stream' = st
  /\ UNCHANGED <<handleVars, raised>>

\* It takes nothing now (EAGAIN): the loop will call respond.
SendBlocks(c, r, st, rs) ==
  /\ rs[r].buf > 0
  /\ response' = rs
  /\ IF st[c].isOnOutLoop
     THEN stream' = st /\ UNCHANGED <<handleVars, raised>>
     ELSE \/ /\ AddHandle(st[c].socket, {"write"})
             /\ stream' = [st EXCEPT ![c].isOnOutLoop = TRUE]
             /\ UNCHANGED raised
          \/ /\ AddHandleFails(st[c].socket)
             /\ stream' = st
             /\ raised' = TRUE
  /\ UNCHANGED wire

\* Sending fails for good.  removeHandle ignores a descriptor that is not
\* observed, and raises an error for one the kernel does not know.
SendFails(c, r, st, rs) ==
  LET fd == st[c].socket
  IN /\ response' = rs
     /\ IF fd \in Observed \ Watched
        THEN stream' = st /\ raised' = TRUE /\ UNCHANGED handleVars
        ELSE /\ IF fd \in Observed
                THEN RemoveHandle(fd, {"read", "write"})
                ELSE UNCHANGED handleVars
             /\ stream' = Destroyed(st, c)
             /\ UNCHANGED raised
     /\ UNCHANGED wire

Respond(c, r, st, rs) ==
  \/ SendAll(c, r, st, rs)
  \/ \E n \in 1..MaxPieces : SendSome(c, r, st, rs, n)
  \/ SendBlocks(c, r, st, rs)
  \/ SendFails(c, r, st, rs)

(***************************************************************************)
(* The program adds text to a response: rs are the responses with it.      *)
(***************************************************************************)

RegisteredLast(c, r) == [stream EXCEPT ![c].response = r]

\* The table's place is given to a response when it is free.
Registered(c, r) ==
  IF stream[c].response = None THEN [stream EXCEPT ![c].response = r] ELSE stream

\* addResponse; a stream that was destroyed has no table, which is an error.
AddResponse(c, r, rs) ==
  LET st == Registered(c, r)
  IN \/ /\ ~Open(c)
        /\ response' = rs
        /\ raised' = TRUE
        /\ UNCHANGED <<handleVars, stream, wire>>
     \/ /\ Open(c)
        /\ st[c].isOnOutLoop
        /\ stream' = st
        /\ response' = rs
        /\ UNCHANGED <<handleVars, wire, raised>>
     \/ /\ Open(c)
        /\ ~st[c].isOnOutLoop
        /\ Respond(c, st[c].response, st, rs)

Filled(r, n, state) ==
  LET a == response[r]
  IN [response EXCEPT ![r] =
        [a EXCEPT !.state = state, !.buf = a.buf + n, !.made = a.made + n]]

\* response:writeHead and response:write.  A program adds nothing to a response
\* it has finished: the code does not look.
Write(r) ==
  /\ response[r].state \in {"zero", "written"}
  /\ response[r].made < MaxPieces
  /\ AddResponse(response[r].client, r, Filled(r, 1, "written"))

\* response:finish; it adds nothing when neither a message nor the end of a
\* chunked body is due.
Finish(r, n) ==
  /\ response[r].state \in {"zero", "written"}
  /\ response[r].state = "zero" => n = 1
  /\ response[r].made + n <= MaxPieces
  /\ AddResponse(response[r].client, r, Filled(r, n, "done"))

\* The loop calls respond: the socket is ready for writing.  There always is
\* a response then (WaitsForResponse).
Writable(c) ==
  /\ "write" \in Watching(c)
  /\ stream[c].response # None
  /\ Respond(c, stream[c].response, stream, response)

Recv(c) ==
  \/ RecvNothing(c) \/ RecvHead(c) \/ RecvIllegal(c)
  \/ \E r \in Responses : RecvBody(c, r) \/ \E keep \in BOOLEAN : RecvRequest(c, r, keep)

Next ==
  \/ \E c \in Clients, fd \in Fds : Accept(c, fd) \/ AcceptFails(c, fd)
  \/ \E c \in Clients : Recv(c) \/ Writable(c)
  \/ \E r \in Responses : Write(r) \/ \E n \in 0..1 : Finish(r, n)

Spec == Init /\ [][Next]_httpVars
-----------------------------------------------------------------------------
(***************************************************************************)
(* Properties.                                                             *)
(***************************************************************************)

\* The types, and which parts of a stream go together.
StreamTypeOK ==
  /\ HandleTypeOK
  /\ \A c \in Clients :
       LET s == stream[c]
       IN /\ s \in [life : {"none", "open", "closed"}, socket : Fds \cup {None},
                    request : {"none", "head", "body"}, keepAlive : BOOLEAN,
                    isOnOutLoop : BOOLEAN, response : Responses \cup {None}]
          /\ s.life = "open" <=> s.socket # None
          /\ s.response # None => s.life = "open" /\ response[s.response].client = c
  /\ \A r \in Responses :
       /\ response[r] \in [client : Clients \cup {None}, buf : 0..MaxPieces, made : 0..MaxPieces,
                           state : {"none", "zero", "written", "done"}]
       /\ response[r].state # "none" <=> response[r].client # None
  /\ \A c \in Clients : wire[c] \in Seq(Responses)
  /\ raised \in BOOLEAN

Sent(c, r) == {i \in DOMAIN wire[c] : wire[c][i] = r}

\* No piece is lost or sent twice: each is in the buffer or was sent, through
\* partial sends, sockets that block and responses that take turns.
PiecesKept ==
  \A r \in Responses :
    response[r].client # None =>
      response[r].made = response[r].buf + Cardinality(Sent(response[r].client, r))

\* Two responses of a client are never mixed up on its connection: when the
\* pieces of the next one begin, the one before is done and all sent.
OneAtATime ==
  \A c \in Clients : \A i, j \in DOMAIN wire[c] :
    (i < j /\ wire[c][i] # wire[c][j]) =>
      LET before == response[wire[c][i]]
      IN /\ before.state = "done" /\ before.buf = 0
         /\ \A k \in DOMAIN wire[c] : k > j => wire[c][k] # wire[c][i]

\* What the program takes isOnOutLoop for: the loop will call respond.
FlagTells(c) == Open(c) /\ stream[c].isOnOutLoop => "write" \in Watching(c)

\* A finished response with nothing left to send gives up its place, so that
\* the next one can have it, unless the loop watches the socket for writing, and
\* so is going to call respond, or has refused to (a node without a mask).  This
\* is said of streams whose isOnOutLoop tells the truth.  It no longer does once
\* respond took the socket off the loop (line 105, WaitsWhenOnLoop): from then on
\* finish() without text leaves an empty response in its place for ever.
DoneIsReleased ==
  \A c \in Clients : LET r == stream[c].response IN
    (r # None /\ response[r].state = "done" /\ response[r].buf = 0 /\ FlagTells(c)) =>
      "write" \in Watching(c) \/ stream[c].socket \in Observed \ Watched

\* respond is called only while there is a response to send.
WaitsForResponse ==
  \A c \in Clients : "write" \in Watching(c) =>
    stream[c].response # None /\ stream[c].isOnOutLoop

\* A stream reads as long as its client keeps it, and no longer: after a
\* request that closes the stream no other is taken.
ReadsWhileKept ==
  \A c \in Clients : Open(c) => ("read" \in Watching(c) <=> stream[c].keepAlive)

\* The loop watches a stream for what it can go on with, and for nothing else: what it
\* would call back for in vain comes back at once, and what it misses never comes.
LoopWatchesStream == WaitsForResponse /\ ReadsWhileKept

\* Stream.lua says of isOnOutLoop "we must wait for writing to resume again"
\* and of respond's early end "socket is on the loop; wait for readyness".
WaitsWhenOnLoop == \A c \in Clients : FlagTells(c)

\* Stream.lua: "a stream can have multiple request/response pairs".  Every
\* finished response that is not all sent has a place from which it will be.
PairsAnswered ==
  \A r \in Responses : LET c == response[r].client IN
    (response[r].state = "done" /\ response[r].buf > 0 /\ Open(c)) => stream[c].response = r
=============================================================================
