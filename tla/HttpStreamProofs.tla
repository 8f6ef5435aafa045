-------------------------- MODULE HttpStreamProofs ---------------------------
(***************************************************************************)
(* Proofs about HttpStream: its types, that its streams use the loop as    *)
(* Descriptors allows, so that everything proved about these holds under   *)
(* the streams of the server; then that responses are sent one at a time   *)
(* and whole, give up their place, and that the loop watches each stream   *)
(* for what it can go on with.                                             *)
(***************************************************************************)
EXTENDS HttpStream, DescriptorsProofs, SequenceTheorems

Streams ==
  [life : {"none", "open", "closed"}, socket : Fds \cup {None},
   request : {"none", "head", "body"}, keepAlive : BOOLEAN,
   isOnOutLoop : BOOLEAN, response : Responses \cup {None}]

Answers ==
  [client : Clients \cup {None}, state : {"none", "zero", "written", "done"},
   buf : 0..MaxPieces, made : 0..MaxPieces]

(***************************************************************************)
(* The invariant, of the streams st and the responses rs: respond works on *)
(* such a pair in the middle of a step.                                    *)
(***************************************************************************)
StreamsFit(st, rs) ==
  /\ st \in [Clients -> Streams]
  /\ \A c \in Clients :
       /\ st[c].life = "open" <=> st[c].socket # None
       /\ st[c].response # None => st[c].life = "open" /\ rs[st[c].response].client = c

AnswersFit(rs) ==
  /\ rs \in [Responses -> Answers]
  /\ \A r \in Responses :
       /\ rs[r].state # "none" <=> rs[r].client # None
       /\ rs[r].buf <= rs[r].made

HistoryFits == wire \in [Clients -> Seq(Responses)] /\ raised \in BOOLEAN

StreamInv == StreamsFit(stream, response) /\ AnswersFit(response) /\ HistoryFits
-----------------------------------------------------------------------------
(***************************************************************************)
(* What the operations do to one stream or one response.                   *)
(***************************************************************************)

\* A destroyed stream has neither a socket nor a response.
LEMMA DestroyedFits ==
  ASSUME NEW st, NEW rs, StreamsFit(st, rs), NEW c \in Clients
  PROVE  StreamsFit(Destroyed(st, c), rs)
<1> DEFINE d == Destroyed(st, c)
           gone == [st[c] EXCEPT !.life = "closed", !.socket = None,
                                 !.request = "none", !.response = None]
<1>1. st \in [Clients -> Streams]
  BY DEF StreamsFit
<1>2. gone \in Streams /\ gone.life = "closed" /\ gone.socket = None /\ gone.response = None
  <2>1. st[c] \in Streams
    BY <1>1
  <2>2. QED
    BY <2>1 DEF Streams
<1> HIDE DEF gone
<1>3. d = [st EXCEPT ![c] = gone]
  BY DEF Destroyed, gone
<1> HIDE DEF d
<1>4. d \in [Clients -> Streams]
  BY <1>1, <1>2, <1>3
<1>5. d[c] = gone /\ \A e \in Clients : e # c => d[e] = st[e]
  BY <1>1, <1>3
<1>6. QED
  BY <1>2, <1>4, <1>5 DEF StreamsFit, d

\* Giving a stream a response of its own, or none, and setting its other
\* fields, keeps the streams in order.
LEMMA ChangedFits ==
  ASSUME NEW st, NEW rs, StreamsFit(st, rs), NEW c \in Clients, NEW s \in Streams,
         s.life = st[c].life, s.socket = st[c].socket,
         s.response # None => s.life = "open" /\ rs[s.response].client = c
  PROVE  StreamsFit([st EXCEPT ![c] = s], rs)
<1> DEFINE d == [st EXCEPT ![c] = s]
<1>1. st \in [Clients -> Streams]
  BY DEF StreamsFit
<1>2. d \in [Clients -> Streams] /\ d[c] = s /\ \A e \in Clients : e # c => d[e] = st[e]
  BY <1>1
<1> HIDE DEF d
<1>3. QED
  BY <1>2 DEF StreamsFit, d

\* A response may change its state and its pieces, but not its client.
LEMMA AnsweredFits ==
  ASSUME NEW st, NEW rs, StreamsFit(st, rs), AnswersFit(rs), NEW r \in Responses,
         NEW a \in Answers, a.client = rs[r].client,
         a.state # "none" <=> a.client # None, a.buf <= a.made
  PROVE  StreamsFit(st, [rs EXCEPT ![r] = a]) /\ AnswersFit([rs EXCEPT ![r] = a])
<1> DEFINE d == [rs EXCEPT ![r] = a]
<1>1. rs \in [Responses -> Answers]
  BY DEF AnswersFit
<1>2. d \in [Responses -> Answers] /\ d[r] = a /\ \A q \in Responses : q # r => d[q] = rs[q]
  BY <1>1
<1>3. \A q \in Responses : d[q].client = rs[q].client
  BY <1>2
<1> HIDE DEF d
<1>4. AnswersFit(d)
  BY <1>2 DEF AnswersFit
<1>5. StreamsFit(st, d)
  <2>1. \A c \in Clients : st[c].response \in Responses \cup {None}
    BY DEF StreamsFit, Streams
  <2>2. QED
    BY <1>3, <2>1 DEF StreamsFit
<1>6. QED
  BY <1>4, <1>5 DEF d

\* What is sent to a client is added to its history.
LEMMA SentFits ==
  ASSUME wire \in [Clients -> Seq(Responses)], NEW c \in Clients, NEW r \in Responses, NEW n \in Nat
  PROVE  [wire EXCEPT ![c] = @ \o [i \in 1..n |-> r]] \in [Clients -> Seq(Responses)]
<1>1. [i \in 1..n |-> r] \in Seq(Responses)
  OBVIOUS
<1>2. wire[c] \o [i \in 1..n |-> r] \in Seq(Responses)
  BY <1>1, ConcatProperties
<1>3. QED
  BY <1>2
-----------------------------------------------------------------------------
(***************************************************************************)
(* respond keeps the invariant, in each of the ways a send may end.        *)
(***************************************************************************)
LEMMA RespondFits ==
  ASSUME NEW st, NEW rs, StreamsFit(st, rs), AnswersFit(rs), HistoryFits,
         NEW c \in Clients, NEW r \in Responses, st[c].life = "open", st[c].response = r,
         Respond(c, r, st, rs)
  PROVE  StreamInv'
<1>1. /\ st[c] \in Streams
      /\ rs[r] \in Answers
      /\ rs[r].state # "none" <=> rs[r].client # None
      /\ rs[r].buf \in Nat /\ rs[r].made \in 0..MaxPieces /\ rs[r].buf <= rs[r].made
      /\ rs[r].client = c
  BY HttpAssumption DEF StreamsFit, AnswersFit, Answers
<1>2. MaxPieces \in Nat
  BY HttpAssumption
<1>3. ASSUME NEW n \in 0..rs[r].buf
      PROVE  LET left == [rs EXCEPT ![r].buf = n]
             IN StreamsFit(st, left) /\ AnswersFit(left)
  <2> DEFINE a == [rs[r] EXCEPT !.buf = n]
  <2>1. a \in Answers /\ a.client = rs[r].client /\ a.state = rs[r].state
        /\ a.buf = n /\ a.made = rs[r].made
    BY <1>1, <1>2 DEF Answers
  <2>2. [rs EXCEPT ![r].buf = n] = [rs EXCEPT ![r] = a]
    OBVIOUS
  <2> HIDE DEF a
  <2>3. a.buf <= a.made
    BY <1>1, <2>1
  <2>4. QED
    BY <1>1, <2>1, <2>2, <2>3, AnsweredFits
<1>4. CASE SendAll(c, r, st, rs)
  <2> DEFINE left == [rs EXCEPT ![r].buf = 0]
  <2>1. StreamsFit(st, left) /\ AnswersFit(left)
    BY <1>1, <1>3
  <2>2. response' = left
    BY <1>4 DEF SendAll
  <2>3. wire' \in [Clients -> Seq(Responses)]
    BY <1>1, <1>4, SentFits DEF SendAll, HistoryFits
  <2> HIDE DEF left
  <2>4. CASE rs[r].state = "done" /\ ~st[c].keepAlive
    <3>1. stream' = Destroyed(st, c) /\ raised' = (raised \/ st[c].isOnOutLoop)
      BY <1>4, <2>4 DEF SendAll
    <3>2. raised' \in BOOLEAN
      BY <3>1
    <3>3. QED
      BY <2>1, <2>2, <2>3, <3>1, <3>2, DestroyedFits DEF StreamInv, HistoryFits
  <2>5. CASE ~(rs[r].state = "done" /\ ~st[c].keepAlive)
    <3>1. /\ stream' = IF rs[r].state = "done" THEN Released(st, c) ELSE st
          /\ raised' = raised
      BY <1>4, <2>5 DEF SendAll
    <3>2. StreamsFit(Released(st, c), left)
      <4> DEFINE s == [st[c] EXCEPT !.response = None]
      <4>1. s \in Streams /\ s.life = st[c].life /\ s.socket = st[c].socket /\ s.response = None
        BY <1>1 DEF Streams
      <4>2. Released(st, c) = [st EXCEPT ![c] = s]
        BY DEF Released
      <4> HIDE DEF s
      <4>3. s.response # None => s.life = "open" /\ left[s.response].client = c
        BY <4>1
      <4>4. StreamsFit([st EXCEPT ![c] = s], left)
        BY <2>1, <4>1, <4>3, ChangedFits
      <4>5. QED
        BY <4>2, <4>4
    <3>3. QED
      BY <2>1, <2>2, <2>3, <3>1, <3>2 DEF StreamInv, HistoryFits
  <2>6. QED
    BY <2>4, <2>5
<1>5. ASSUME NEW n \in 1..MaxPieces, SendSome(c, r, st, rs, n)
      PROVE  StreamInv'
  <2> DEFINE left == [rs EXCEPT ![r].buf = rs[r].buf - n]
  <2>1. rs[r].buf - n \in 0..rs[r].buf
    BY <1>1, <1>2, <1>5 DEF SendSome
  <2>2. StreamsFit(st, left) /\ AnswersFit(left)
    BY <1>3, <2>1
  <2>3. response' = left /\ stream' = st /\ raised' = raised
    BY <1>5 DEF SendSome
  <2>4. wire' \in [Clients -> Seq(Responses)]
    BY <1>2, <1>5, SentFits DEF SendSome, HistoryFits
  <2> HIDE DEF left
  <2>5. QED
    BY <2>2, <2>3, <2>4 DEF StreamInv, HistoryFits
<1>6. CASE SendBlocks(c, r, st, rs)
  <2> DEFINE s == [st[c] EXCEPT !.isOnOutLoop = TRUE]
             on == [st EXCEPT ![c].isOnOutLoop = TRUE]
  <2>1. s \in Streams /\ s.life = st[c].life /\ s.socket = st[c].socket
        /\ s.response = st[c].response
    BY <1>1 DEF Streams
  <2>2. on = [st EXCEPT ![c] = s]
    OBVIOUS
  <2> HIDE DEF s
  <2>3. s.response # None => s.life = "open" /\ rs[s.response].client = c
    BY <2>1 DEF StreamsFit
  <2>4. StreamsFit([st EXCEPT ![c] = s], rs)
    BY <2>1, <2>3, ChangedFits
  <2>5. StreamsFit(on, rs)
    BY <2>2, <2>4
  <2>6. response' = rs /\ wire' = wire /\ raised' \in BOOLEAN /\ (stream' = st \/ stream' = on)
    BY <1>6 DEF SendBlocks, HistoryFits
  <2> HIDE DEF on
  <2>7. QED
    BY <2>5, <2>6 DEF StreamInv, HistoryFits
<1>7. CASE SendFails(c, r, st, rs)
  <2>1. /\ response' = rs /\ wire' = wire /\ raised' \in BOOLEAN
        /\ stream' = st \/ stream' = Destroyed(st, c)
    BY <1>7 DEF SendFails, HistoryFits
  <2>2. QED
    BY <2>1, DestroyedFits DEF StreamInv, HistoryFits
<1>8. QED
  BY <1>4, <1>5, <1>6, <1>7 DEF Respond
-----------------------------------------------------------------------------
(***************************************************************************)
(* The other steps.                                                        *)
(***************************************************************************)

LEMMA StreamInit == Init => StreamInv
<1> SUFFICES ASSUME Init PROVE StreamInv
  OBVIOUS
<1>1. NoStream \in Streams /\ NoStream.life = "none" /\ NoStream.socket = None
      /\ NoStream.response = None
  BY DEF NoStream, Streams
<1>2. /\ NoResponse \in Answers /\ NoResponse.state = "none" /\ NoResponse.client = None
      /\ NoResponse.buf = 0 /\ NoResponse.made = 0
  BY HttpAssumption DEF NoResponse, Answers
<1>3. StreamsFit(stream, response)
  BY <1>1 DEF Init, StreamsFit
<1>4. AnswersFit(response)
  BY <1>2 DEF Init, AnswersFit
<1>5. <<>> \in Seq(Responses)
  OBVIOUS
<1>6. QED
  BY <1>3, <1>4, <1>5 DEF Init, StreamInv, HistoryFits

\* A client is accepted, or its socket is closed again.
LEMMA AcceptFits ==
  ASSUME StreamInv, NEW c \in Clients, NEW fd \in Fds, Accept(c, fd) \/ AcceptFails(c, fd)
  PROVE  StreamInv'
<1> USE DEF StreamInv
<1>1. CASE Accept(c, fd)
  <2> DEFINE s == NewStream(fd)
  <2>1. s \in Streams /\ s.life = "open" /\ s.socket = fd /\ s.response = None /\ fd # None
    BY HttpAssumption DEF NewStream, NoStream, Streams
  <2> HIDE DEF s
  <2>2. stream' = [stream EXCEPT ![c] = s] /\ UNCHANGED <<response, wire, raised>>
    BY <1>1 DEF Accept, s
  <2>3. stream \in [Clients -> Streams]
    BY DEF StreamsFit
  <2>4. /\ stream' \in [Clients -> Streams]
        /\ stream'[c] = s
        /\ \A e \in Clients : e # c => stream'[e] = stream[e]
    BY <2>1, <2>2, <2>3
  <2>5. StreamsFit(stream', response)
    BY <2>1, <2>4 DEF StreamsFit
  <2>6. QED
    BY <2>2, <2>5 DEF HistoryFits
<1>2. CASE AcceptFails(c, fd)
  <2>1. stream' = Destroyed(stream, c) /\ raised' = TRUE /\ UNCHANGED <<response, wire>>
    BY <1>2 DEF AcceptFails
  <2>2. QED
    BY <2>1, DestroyedFits DEF HistoryFits
<1>3. QED
  BY <1>1, <1>2

\* A stream receives: it goes, or its request gets further and may be handed
\* out with a new response.
LEMMA RecvFits ==
  ASSUME StreamInv, NEW c \in Clients, Recv(c)
  PROVE  StreamInv'
<1> USE DEF StreamInv
<1>1. stream \in [Clients -> Streams] /\ stream[c] \in Streams
  BY DEF StreamsFit
<1>2. ASSUME NEW q \in {"none", "head", "body"}, NEW k \in BOOLEAN, NEW rs, StreamsFit(stream, rs)
      PROVE  /\ StreamsFit([stream EXCEPT ![c].request = q], rs)
             /\ StreamsFit([stream EXCEPT ![c].request = q, ![c].keepAlive = k], rs)
  <2> DEFINE s == [stream[c] EXCEPT !.request = q]
             t == [stream[c] EXCEPT !.request = q, !.keepAlive = k]
  <2>1. /\ s \in Streams /\ s.life = stream[c].life /\ s.socket = stream[c].socket
        /\ s.response = stream[c].response
    BY <1>1 DEF Streams
  <2>2. /\ t \in Streams /\ t.life = stream[c].life /\ t.socket = stream[c].socket
        /\ t.response = stream[c].response
    BY <1>1 DEF Streams
  <2>3. /\ [stream EXCEPT ![c].request = q] = [stream EXCEPT ![c] = s]
        /\ [stream EXCEPT ![c].request = q, ![c].keepAlive = k] = [stream EXCEPT ![c] = t]
    BY <1>1
  <2> HIDE DEF s, t
  <2>4. stream[c].response # None =>
          stream[c].life = "open" /\ rs[stream[c].response].client = c
    BY <1>2 DEF StreamsFit
  <2>5. StreamsFit([stream EXCEPT ![c] = s], rs)
    BY <1>2, <2>1, <2>4, ChangedFits
  <2>6. StreamsFit([stream EXCEPT ![c] = t], rs)
    BY <1>2, <2>2, <2>4, ChangedFits
  <2>7. QED
    BY <2>3, <2>5, <2>6
<1>3. ASSUME NEW r \in Responses, response[r].state = "none"
      PROVE  LET rs == [response EXCEPT ![r] = NewResponse(c)]
             IN StreamsFit(stream, rs) /\ AnswersFit(rs)
  <2> DEFINE a == NewResponse(c)
             rs == [response EXCEPT ![r] = a]
  <2>1. a \in Answers /\ a.client = c /\ a.state = "zero" /\ a.buf = 0 /\ a.made = 0 /\ c # None
    <3>1. a = [client |-> c, state |-> "zero", buf |-> 0, made |-> 0]
      BY DEF NewResponse
    <3>2. c # None /\ 0 \in 0..MaxPieces
      BY HttpAssumption
    <3>3. QED
      BY <3>1, <3>2 DEF Answers
  <2> HIDE DEF a
  <2>2. response[r].client = None
    BY <1>3 DEF AnswersFit
  <2>3. /\ rs \in [Responses -> Answers]
        /\ rs[r] = a
        /\ \A q \in Responses : q # r => rs[q] = response[q]
    BY <2>1 DEF AnswersFit
  <2> HIDE DEF rs
  <2>4. \A e \in Clients : stream[e].response # r
    BY <2>2, HttpAssumption DEF StreamsFit
  <2>5. \A e \in Clients : stream[e].response \in Responses \cup {None}
    BY DEF StreamsFit, Streams
  <2>6. StreamsFit(stream, rs)
    BY <2>3, <2>4, <2>5 DEF StreamsFit
  <2>7. AnswersFit(rs)
    BY <2>1, <2>3 DEF AnswersFit
  <2>8. QED
    BY <2>6, <2>7 DEF rs, a
<1>4. CASE RecvNothing(c)
  <2>1. stream' = Destroyed(stream, c) /\ UNCHANGED <<response, wire, raised>>
    BY <1>4 DEF RecvNothing
  <2>2. QED
    BY <2>1, DestroyedFits DEF HistoryFits
<1>5. CASE RecvHead(c) \/ RecvIllegal(c)
  <2>1. /\ stream' = [stream EXCEPT ![c].request = "head"]
        /\ raised' \in BOOLEAN /\ UNCHANGED <<response, wire>>
    BY <1>5 DEF RecvHead, RecvIllegal, HistoryFits
  <2>2. StreamsFit([stream EXCEPT ![c].request = "head"], response)
    BY <1>2
  <2>3. QED
    BY <2>1, <2>2 DEF HistoryFits
<1>6. ASSUME NEW r \in Responses, RecvBody(c, r)
      PROVE  StreamInv'
  <2>1. /\ stream' = [stream EXCEPT ![c].request = "body"]
        /\ response' = [response EXCEPT ![r] = NewResponse(c)]
        /\ response[r].state = "none" /\ UNCHANGED <<wire, raised>>
    BY <1>6 DEF RecvBody
  <2>2. StreamsFit(stream, response') /\ AnswersFit(response')
    BY <1>3, <2>1
  <2>3. StreamsFit(stream', response')
    BY <1>2, <2>1, <2>2
  <2>4. QED
    BY <2>1, <2>2, <2>3 DEF HistoryFits
<1>7. ASSUME NEW r \in Responses, NEW keep \in BOOLEAN, RecvRequest(c, r, keep)
      PROVE  StreamInv'
  <2>1. /\ stream' = [stream EXCEPT ![c].request = "none", ![c].keepAlive = keep]
        /\ response' = [response EXCEPT ![r] = NewResponse(c)]
        /\ response[r].state = "none" /\ UNCHANGED <<wire, raised>>
    BY <1>7 DEF RecvRequest
  <2>2. StreamsFit(stream, response') /\ AnswersFit(response')
    BY <1>3, <2>1
  <2>3. StreamsFit(stream', response')
    BY <1>2, <2>1, <2>2
  <2>4. QED
    BY <2>1, <2>2, <2>3 DEF HistoryFits
<1>8. QED
  BY <1>4, <1>5, <1>6, <1>7 DEF Recv
\* The program adds text to a response, which takes the free place.
LEMMA FilledFits ==
  ASSUME StreamInv, NEW r \in Responses, response[r].state \in {"zero", "written"},
         NEW n \in 0..1, response[r].made + n <= MaxPieces, NEW state \in {"written", "done"}
  PROVE  LET c == response[r].client
             rs == Filled(r, n, state)
             st == Registered(c, r)
         IN /\ c \in Clients /\ StreamsFit(stream, rs) /\ AnswersFit(rs)
            /\ Open(c) => /\ StreamsFit(st, rs) /\ st[c].life = "open"
                          /\ st[c].response \in Responses
<1> DEFINE c == response[r].client
           rs == Filled(r, n, state)
           a == [response[r] EXCEPT !.state = state, !.buf = response[r].buf + n,
                                    !.made = response[r].made + n]
           st == Registered(c, r)
<1> USE DEF StreamInv
<1>1. /\ response[r] \in Answers
      /\ response[r].buf \in Nat /\ response[r].made \in Nat
      /\ response[r].buf <= response[r].made
      /\ MaxPieces \in Nat /\ n \in Nat
  BY HttpAssumption DEF AnswersFit, Answers
<1>2. c \in Clients
  BY <1>1 DEF AnswersFit, Answers
<1>3. /\ a \in Answers /\ a.client = c /\ a.state = state
      /\ a.buf = response[r].buf + n /\ a.made = response[r].made + n
  <2>1. response[r].buf + n \in 0..MaxPieces /\ response[r].made + n \in 0..MaxPieces
    BY <1>1
  <2>2. QED
    BY <1>1, <2>1 DEF Answers
<1>4. rs = [response EXCEPT ![r] = a]
  BY DEF Filled
<1> HIDE DEF a
<1>5. StreamsFit(stream, rs) /\ AnswersFit(rs)
  <2>1. a.state # "none" <=> a.client # None
    BY <1>2, <1>3, HttpAssumption
  <2>2. a.buf <= a.made
    BY <1>1, <1>3
  <2>3. StreamsFit(stream, response) /\ AnswersFit(response) /\ a.client = response[r].client
    BY <1>3
  <2>4. /\ StreamsFit(stream, [response EXCEPT ![r] = a])
        /\ AnswersFit([response EXCEPT ![r] = a])
    BY <1>3, <2>1, <2>2, <2>3, AnsweredFits
  <2>5. QED
    BY <1>4, <2>4
<1>6. rs[r].client = c
  BY <1>3, <1>4 DEF AnswersFit
<1> HIDE DEF rs, c
<1>7. stream \in [Clients -> Streams] /\ stream[c] \in Streams
  BY <1>2 DEF StreamsFit
<1>8. ASSUME Open(c)
      PROVE  /\ StreamsFit(st, rs) /\ st[c].life = "open"
             /\ st[c].response \in Responses
  <2>1. CASE stream[c].response = None
    <3> DEFINE s == [stream[c] EXCEPT !.response = r]
    <3>1. /\ s \in Streams /\ s.life = stream[c].life /\ s.socket = stream[c].socket
          /\ s.response = r
      BY <1>7 DEF Streams
    <3>2. st = [stream EXCEPT ![c] = s]
      BY <2>1 DEF Registered
    <3> HIDE DEF s
    <3>3. s.life = "open" /\ rs[s.response].client = c
      BY <1>6, <1>8, <3>1 DEF Open
    <3>4. StreamsFit([stream EXCEPT ![c] = s], rs)
      BY <1>2, <1>5, <3>1, <3>3, ChangedFits
    <3>5. st[c] = s
      BY <1>2, <1>7, <3>2
    <3>6. QED
      BY <3>1, <3>2, <3>3, <3>4, <3>5
  <2>2. CASE stream[c].response # None
    <3>1. st = stream
      BY <2>2 DEF Registered
    <3>2. stream[c].response \in Responses
      BY <1>7, <2>2 DEF Streams
    <3>3. QED
      BY <1>5, <1>8, <3>1, <3>2 DEF Open
  <2>3. QED
    BY <2>1, <2>2
<1>9. QED
  BY <1>2, <1>5, <1>8 DEF c, rs

\* Doing so may send it.
LEMMA AnswerFits ==
  ASSUME StreamInv, NEW r \in Responses, response[r].state \in {"zero", "written"},
         NEW n \in 0..1, response[r].made + n <= MaxPieces, NEW state \in {"written", "done"},
         AddResponse(response[r].client, r, Filled(r, n, state))
  PROVE  StreamInv'
<1> DEFINE c == response[r].client
           rs == Filled(r, n, state)
           st == Registered(c, r)
<1>1. /\ c \in Clients /\ StreamsFit(stream, rs) /\ AnswersFit(rs)
      /\ Open(c) => /\ StreamsFit(st, rs) /\ st[c].life = "open"
                    /\ st[c].response \in Responses
  BY FilledFits
<1>2. HistoryFits
  BY DEF StreamInv
<1> USE DEF StreamInv
<1> HIDE DEF c, rs, st
<1>3. CASE ~Open(c)
  <2>1. response' = rs /\ raised' = TRUE /\ UNCHANGED <<stream, wire>>
    BY <1>3 DEF AddResponse, rs, c
  <2>2. QED
    BY <1>1, <2>1 DEF HistoryFits
<1>4. CASE Open(c) /\ st[c].isOnOutLoop
  <2>1. stream' = st /\ response' = rs /\ UNCHANGED <<wire, raised>>
    BY <1>4 DEF AddResponse, rs, c, st
  <2>2. QED
    BY <1>1, <1>4, <2>1 DEF HistoryFits
<1>5. CASE Open(c) /\ ~st[c].isOnOutLoop
  <2>1. Respond(c, st[c].response, st, rs)
    BY <1>5 DEF AddResponse, rs, c, st
  <2>2. QED
    BY <1>1, <1>2, <1>5, <2>1, RespondFits
<1>6. QED
  BY <1>3, <1>4, <1>5

LEMMA StreamStep == StreamInv /\ [Next]_httpVars => StreamInv'
<1> SUFFICES ASSUME StreamInv, [Next]_httpVars PROVE StreamInv'
  OBVIOUS
<1>1. ASSUME NEW c \in Clients, NEW fd \in Fds, Accept(c, fd) \/ AcceptFails(c, fd)
      PROVE  StreamInv'
  BY <1>1, AcceptFits
<1>2. ASSUME NEW c \in Clients, Recv(c)
      PROVE  StreamInv'
  BY <1>2, RecvFits
<1>3. ASSUME NEW c \in Clients, Writable(c)
      PROVE  StreamInv'
  <2>1. Open(c) /\ stream[c].response \in Responses
    <3>1. Open(c)
      BY <1>3 DEF Writable, Watching
    <3>2. stream[c].response # None
      BY <1>3 DEF Writable
    <3>3. QED
      BY <3>1, <3>2 DEF StreamInv, StreamsFit, Streams
  <2>2. Respond(c, stream[c].response, stream, response)
    BY <1>3 DEF Writable
  <2>3. QED
    BY <2>1, <2>2, RespondFits DEF StreamInv, Open
<1>4. ASSUME NEW r \in Responses, Write(r)
      PROVE  StreamInv'
  <2>1. response[r].made + 1 <= MaxPieces
    BY <1>4, HttpAssumption DEF Write, StreamInv, AnswersFit, Answers
  <2>2. QED
    BY <1>4, <2>1, AnswerFits DEF Write
<1>5. ASSUME NEW r \in Responses, NEW n \in 0..1, Finish(r, n)
      PROVE  StreamInv'
  BY <1>5, AnswerFits DEF Finish
<1>6. CASE UNCHANGED httpVars
  BY <1>6 DEF httpVars, streamVars, StreamInv, StreamsFit, AnswersFit, HistoryFits
<1>7. QED
  BY <1>1, <1>2, <1>3, <1>4, <1>5, <1>6 DEF Next

\* The streams, their responses and what was sent fit together in every
\* reachable state (Stream.lua, Response.lua).
THEOREM StreamInvariant == Spec => []StreamInv
<1>1. QED
  BY StreamInit, StreamStep, PTL DEF Spec
-----------------------------------------------------------------------------
(***************************************************************************)
(* The streams and the loop.                                               *)
(***************************************************************************)

\* Whatever respond does, it makes at most one call of the loop and closes
\* the socket at most once, in an order that is one step of Descriptors.
LEMMA RespondHandles ==
  ASSUME NEW st, NEW rs, NEW c, NEW r, st[c].socket \in Fds, Respond(c, r, st, rs)
  PROVE  [HandleNext]_handleVars
<1> DEFINE fd == st[c].socket
<1>1. {"read"} \in Masks /\ {"write"} \in Masks /\ {"read", "write"} \in Masks
  BY DEF Masks, Dir
<1>2. CASE SendAll(c, r, st, rs)
  <2>1. Close(fd) \/ OffLoop(st[c])
    BY <1>2 DEF SendAll
  <2>2. QED
    BY <1>1, <2>1 DEF OffLoop, HandleNext
<1>3. CASE \E n \in 1..MaxPieces : SendSome(c, r, st, rs, n)
  BY <1>3 DEF SendSome
<1>4. CASE SendBlocks(c, r, st, rs)
  <2>1. UNCHANGED handleVars \/ AddHandle(fd, {"write"}) \/ AddHandleFails(fd)
    BY <1>4 DEF SendBlocks
  <2>2. QED
    BY <1>1, <2>1 DEF HandleNext
<1>5. CASE SendFails(c, r, st, rs)
  <2>1. UNCHANGED handleVars \/ RemoveHandle(fd, {"read", "write"})
    BY <1>5 DEF SendFails
  <2>2. QED
    BY <1>1, <2>1 DEF HandleNext
<1>6. QED
  BY <1>2, <1>3, <1>4, <1>5 DEF Respond

LEMMA StepOfStreams == StreamInv /\ [Next]_httpVars => [HandleNext]_handleVars
<1> SUFFICES ASSUME StreamInv, [Next]_httpVars PROVE [HandleNext]_handleVars
  OBVIOUS
<1>1. {"read"} \in Masks /\ {"write"} \in Masks /\ {"read", "write"} \in Masks
  BY DEF Masks, Dir
<1>2. \A c \in Clients : Open(c) => stream[c].socket \in Fds
  BY DEF StreamInv, StreamsFit, Streams, Open
<1>3. ASSUME NEW c \in Clients, NEW fd \in Fds, Accept(c, fd) \/ AcceptFails(c, fd)
      PROVE  [HandleNext]_handleVars
  <2>1. AddHandle(fd, {"read"}) \/ AddHandleFails(fd)
    BY <1>3 DEF Accept, AcceptFails
  <2>2. QED
    BY <1>1, <2>1 DEF HandleNext
<1>4. ASSUME NEW c \in Clients, Recv(c)
      PROVE  [HandleNext]_handleVars
  <2> DEFINE fd == stream[c].socket
  <2>1. fd \in Fds
    BY <1>2, <1>4 DEF Recv, RecvNothing, RecvHead, RecvIllegal, RecvBody, RecvRequest, Watching
  <2>2. \/ UNCHANGED handleVars
        \/ RemoveHandle(fd, {"read"}) \/ RemoveHandle(fd, {"read", "write"})
    BY <1>4 DEF Recv, RecvNothing, RecvHead, RecvIllegal, RecvBody, RecvRequest
  <2> HIDE DEF fd
  <2>3. QED
    BY <1>1, <2>1, <2>2 DEF HandleNext
<1>5. ASSUME NEW c \in Clients, Writable(c)
      PROVE  [HandleNext]_handleVars
  <2>1. stream[c].socket \in Fds
    BY <1>2, <1>5 DEF Writable, Watching
  <2>2. QED
    BY <1>5, <2>1, RespondHandles DEF Writable
<1>6. ASSUME NEW r \in Responses, response[r].state \in {"zero", "written"}, NEW rs,
             AddResponse(response[r].client, r, rs)
      PROVE  [HandleNext]_handleVars
  <2> DEFINE c == response[r].client
             st == Registered(c, r)
  <2>1. CASE Open(c) /\ ~st[c].isOnOutLoop
    <3>1. c \in Clients
      BY <1>6 DEF StreamInv, AnswersFit, Answers
    <3>2. st[c].socket = stream[c].socket
      <4>1. stream \in [Clients -> Streams] /\ stream[c] \in Streams
        BY <3>1 DEF StreamInv, StreamsFit
      <4>2. [stream[c] EXCEPT !.response = r].socket = stream[c].socket
        BY <4>1 DEF Streams
      <4>3. QED
        BY <3>1, <4>1, <4>2 DEF Registered
    <3>3. st[c].socket \in Fds
      BY <1>2, <2>1, <3>1, <3>2
    <3>4. Respond(c, st[c].response, st, rs)
      BY <1>6, <2>1 DEF AddResponse
    <3> HIDE DEF c, st
    <3>5. QED
      BY <3>3, <3>4, RespondHandles
  <2>2. CASE ~(Open(c) /\ ~st[c].isOnOutLoop)
    BY <1>6, <2>2 DEF AddResponse
  <2>3. QED
    BY <2>1, <2>2
<1>7. ASSUME NEW r \in Responses, Write(r) \/ \E n \in 0..1 : Finish(r, n)
      PROVE  [HandleNext]_handleVars
  BY <1>6, <1>7 DEF Write, Finish
<1>8. CASE UNCHANGED httpVars
  BY <1>8 DEF httpVars
<1>9. QED
  BY <1>3, <1>4, <1>5, <1>7, <1>8 DEF Next

\* The server's streams use the loop only through addHandle and removeHandle,
\* and close their sockets: they are one of the programs Descriptors allows.
THEOREM StreamsImplementHandles == Spec => HandleSpec
<1>1. Init => HandleInit
  BY DEF Init
<1>2. QED
  BY <1>1, StepOfStreams, StreamInvariant, PTL DEF Spec, HandleSpec

\* Under the streams fdCount, the nodes and epoll stay in step, also when a
\* stream is destroyed while its socket is on the loop.
THEOREM StreamHandles == Spec => [](CountMatchesNodes /\ KernelAgrees)
<1>1. QED
  BY StreamsImplementHandles, CountIsExact, KernelFollows, PTL

\* Type correctness of the server's streams, for any number of clients,
\* descriptors and responses.
THEOREM StreamTypes == Spec => []StreamTypeOK
<1>1. StreamInv /\ HandleInv => StreamTypeOK
  <2> SUFFICES ASSUME StreamInv, HandleInv PROVE StreamTypeOK
    OBVIOUS
  <2>1. HandleTypeOK
    BY DEF HandleInv
  <2>2. ASSUME NEW c \in Clients
        PROVE  LET s == stream[c]
               IN /\ s \in [life : {"none", "open", "closed"}, socket : Fds \cup {None},
                            request : {"none", "head", "body"}, keepAlive : BOOLEAN,
                            isOnOutLoop : BOOLEAN, response : Responses \cup {None}]
                  /\ s.life = "open" <=> s.socket # None
                  /\ s.response # None => s.life = "open" /\ response[s.response].client = c
    BY DEF StreamInv, StreamsFit, Streams
  <2>3. ASSUME NEW r \in Responses
        PROVE  /\ response[r] \in [client : Clients \cup {None}, buf : 0..MaxPieces,
                                   made : 0..MaxPieces,
                                   state : {"none", "zero", "written", "done"}]
               /\ response[r].state # "none" <=> response[r].client # None
    BY DEF StreamInv, AnswersFit, Answers
  <2>4. (\A c \in Clients : wire[c] \in Seq(Responses)) /\ raised \in BOOLEAN
    BY DEF StreamInv, HistoryFits
  <2>5. QED
    BY <2>1, <2>2, <2>3, <2>4 DEF StreamTypeOK
<1>2. QED
  BY <1>1, StreamInvariant, StreamsImplementHandles, HandleInvariant, PTL
-----------------------------------------------------------------------------
(***************************************************************************)
(* A client is sent one response at a time.  OneAtATime is not inductive:  *)
(* that a response which left the stream's table never comes back needs    *)
(* that it left finished, and that the table only takes responses the      *)
(* program has not finished.                                               *)
(***************************************************************************)

\* Nothing of the response is, or ever will be, left to send.
Finished(rs, r) == rs[r].state = "done" /\ rs[r].buf = 0

(***************************************************************************)
(* The order on the connection of c, w, given the streams and responses:   *)
(* what was sent belongs to the response in the table or to finished ones, *)
(* and what came before another response does not come again.  Nothing was *)
(* sent before there is a stream.                                          *)
(***************************************************************************)
Ordered(c, st, rs, w) ==
  /\ \A i \in DOMAIN w :
       /\ st[c].life # "none" /\ w[i] \in Responses /\ rs[w[i]].client = c
       /\ st[c].life = "open" => w[i] = st[c].response \/ Finished(rs, w[i])
  /\ \A i, j \in DOMAIN w : (i < j /\ w[i] # w[j]) =>
       /\ Finished(rs, w[i])
       /\ w[i] # st[c].response
       /\ \A k \in DOMAIN w : k > j => w[k] # w[i]

OrderInv == \A c \in Clients : Ordered(c, stream, response, wire[c])
-----------------------------------------------------------------------------
\* The order depends on what was sent, and on little of its stream.
LEMMA OrderedSame ==
  ASSUME NEW c, NEW st, NEW rs, NEW w, Ordered(c, st, rs, w), NEW st2, NEW rs2,
         st2[c].life = st[c].life, st2[c].response = st[c].response,
         \A i \in DOMAIN w : rs2[w[i]] = rs[w[i]]
  PROVE  Ordered(c, st2, rs2, w)
BY DEF Ordered, Finished

\* A stream that closes keeps the order.
LEMMA OrderedClosed ==
  ASSUME NEW c, NEW st, NEW rs, NEW w, Ordered(c, st, rs, w), NEW st2,
         st2[c].life = "closed", st2[c].response = None
  PROVE  Ordered(c, st2, rs, w)
BY HttpAssumption DEF Ordered

\* The program adds text to a response that it has not finished.
LEMMA OrderedFilled ==
  ASSUME NEW c, NEW st, NEW rs, NEW w, Ordered(c, st, rs, w), NEW rs2, NEW r,
         rs[r].state # "done", rs2[r].client = rs[r].client,
         \A q \in Responses : q # r => rs2[q] = rs[q]
  PROVE  Ordered(c, st, rs2, w)
<1>1. \A i \in DOMAIN w : /\ w[i] \in Responses
                          /\ rs2[w[i]].client = rs[w[i]].client
                          /\ Finished(rs, w[i]) => Finished(rs2, w[i])
  BY DEF Ordered, Finished
<1>2. QED
  BY <1>1 DEF Ordered

\* A response that is not finished takes the free place of the table.
LEMMA OrderedRegistered ==
  ASSUME NEW c, NEW st, NEW rs, NEW w, Ordered(c, st, rs, w),
         st[c].life = "open", st[c].response = None, NEW r, rs[r].state # "done",
         NEW st2, st2[c].life = "open", st2[c].response = r
  PROVE  Ordered(c, st2, rs, w)
<1>1. \A i \in DOMAIN w : w[i] \in Responses /\ w[i] # None /\ Finished(rs, w[i]) /\ w[i] # r
  BY HttpAssumption DEF Ordered, Finished
<1>2. QED
  BY <1>1 DEF Ordered

\* n pieces of the response in the table are sent.
LEMMA OrderedSent ==
  ASSUME NEW c, NEW st, NEW rs, NEW w \in Seq(Responses), Ordered(c, st, rs, w),
         st[c].life = "open", NEW r \in Responses, st[c].response = r, rs[r].client = c,
         NEW n \in Nat, NEW rs2, rs2[r].client = c,
         \A q \in Responses : q # r => rs2[q] = rs[q]
  PROVE  Ordered(c, st, rs2, w \o [i \in 1..n |-> r])
<1> DEFINE tail == [i \in 1..n |-> r]
           v == w \o tail
<1>1. tail \in Seq(Responses) /\ Len(tail) = n
  OBVIOUS
<1>2. Len(w) \in Nat /\ DOMAIN w = 1..Len(w)
  BY LenProperties
<1>3. /\ v \in Seq(Responses)
      /\ DOMAIN v = 1..Len(w) + n
      /\ \A i \in 1..Len(w) + n : v[i] = IF i <= Len(w) THEN w[i] ELSE r
  <2>1. /\ v \in Seq(Responses)
        /\ Len(v) = Len(w) + n
        /\ \A i \in 1..Len(w) + n : v[i] = IF i <= Len(w) THEN w[i] ELSE tail[i - Len(w)]
    BY <1>1, ConcatProperties
  <2>2. \A i \in 1..Len(w) + n : ~(i <= Len(w)) => tail[i - Len(w)] = r
    BY <1>2
  <2> HIDE DEF v, tail
  <2>3. DOMAIN v = 1..Len(w) + n
    BY <2>1, LenProperties
  <2>4. QED
    BY <2>1, <2>2, <2>3
<1> HIDE DEF v
<1>4. \A i \in 1..Len(w) : w[i] # r =>
        /\ w[i] \in Responses /\ rs2[w[i]].client = c /\ Finished(rs2, w[i])
  BY <1>2 DEF Ordered, Finished
<1>5. ASSUME NEW i \in DOMAIN v
      PROVE  /\ v[i] \in Responses /\ rs2[v[i]].client = c
             /\ v[i] = r \/ Finished(rs2, v[i])
  BY <1>2, <1>3, <1>4, <1>5
<1>6. ASSUME NEW i \in DOMAIN v, NEW j \in DOMAIN v, i < j, v[i] # v[j]
      PROVE  v[i] # r
  <2>1. CASE j <= Len(w)
    <3>1. i \in DOMAIN w /\ j \in DOMAIN w /\ v[i] = w[i] /\ v[j] = w[j]
      BY <1>2, <1>3, <1>6, <2>1
    <3>2. QED
      BY <1>6, <3>1 DEF Ordered
  <2>2. CASE ~(j <= Len(w))
    BY <1>3, <1>6, <2>2
  <2>3. QED
    BY <2>1, <2>2
<1>7. ASSUME NEW i \in DOMAIN v, NEW j \in DOMAIN v, i < j, v[i] # v[j],
             NEW k \in DOMAIN v, k > j
      PROVE  v[k] # v[i]
  <2>1. v[i] # r
    BY <1>6, <1>7
  <2>2. CASE k <= Len(w)
    <3>1. /\ i \in DOMAIN w /\ j \in DOMAIN w /\ k \in DOMAIN w
          /\ v[i] = w[i] /\ v[j] = w[j] /\ v[k] = w[k]
      BY <1>2, <1>3, <1>7, <2>2
    <3>2. QED
      BY <1>7, <3>1 DEF Ordered
  <2>3. CASE ~(k <= Len(w))
    BY <1>3, <2>1, <2>3
  <2>4. QED
    BY <2>2, <2>3
<1>8. Ordered(c, st, rs2, v)
  BY <1>5, <1>6, <1>7 DEF Ordered
<1>9. QED
  BY <1>8 DEF v, tail

\* A finished response leaves the table.
LEMMA OrderedReleased ==
  ASSUME NEW c, NEW st, NEW rs, NEW w, Ordered(c, st, rs, w),
         st[c].life = "open" => Finished(rs, st[c].response),
         NEW st2, st2[c].life = st[c].life, st2[c].response = None
  PROVE  Ordered(c, st2, rs, w)
BY HttpAssumption DEF Ordered

\* What happens to a response of another client, and to another stream,
\* keeps the order.
LEMMA OrderedElsewhere ==
  ASSUME NEW e, NEW st, NEW rs, NEW w, Ordered(e, st, rs, w), NEW r, rs[r].client # e,
         NEW st2, st2[e].life = st[e].life, st2[e].response = st[e].response,
         NEW rs2, \A q \in Responses : q # r => rs2[q] = rs[q]
  PROVE  Ordered(e, st2, rs2, w)
<1>1. \A i \in DOMAIN w : rs2[w[i]] = rs[w[i]]
  BY DEF Ordered
<1>2. QED
  BY <1>1, OrderedSame
-----------------------------------------------------------------------------
(***************************************************************************)
(* The steps.                                                              *)
(***************************************************************************)

\* Whatever way a send ends, respond keeps the order.
LEMMA RespondOrdered ==
  ASSUME NEW st, NEW rs, StreamsFit(st, rs), AnswersFit(rs), HistoryFits,
         \A e \in Clients : Ordered(e, st, rs, wire[e]),
         NEW c \in Clients, NEW r \in Responses, st[c].life = "open", st[c].response = r,
         Respond(c, r, st, rs)
  PROVE  OrderInv'
<1>1. /\ st \in [Clients -> Streams] /\ st[c] \in Streams
      /\ rs \in [Responses -> Answers] /\ rs[r] \in Answers
      /\ rs[r].client = c /\ rs[r].buf \in Nat
      /\ wire \in [Clients -> Seq(Responses)]
  BY HttpAssumption DEF StreamsFit, AnswersFit, Answers, HistoryFits
<1>2. ASSUME NEW n \in Nat, NEW m, response' = [rs EXCEPT ![r].buf = m],
             wire' = [wire EXCEPT ![c] = @ \o [i \in 1..n |-> r]]
      PROVE  /\ Ordered(c, st, response', wire'[c])
             /\ response'[r].state = rs[r].state /\ response'[r].buf = m
             /\ \A e \in Clients : e # c => wire'[e] = wire[e]
             /\ \A q \in Responses : q # r => response'[q] = rs[q]
  <2>1. /\ response'[r] = [rs[r] EXCEPT !.buf = m]
        /\ \A q \in Responses : q # r => response'[q] = rs[q]
    BY <1>1, <1>2
  <2>2. /\ response'[r].client = c /\ response'[r].state = rs[r].state
        /\ response'[r].buf = m
    BY <1>1, <2>1 DEF Answers
  <2>3. /\ wire'[c] = wire[c] \o [i \in 1..n |-> r]
        /\ \A e \in Clients : e # c => wire'[e] = wire[e]
    BY <1>1, <1>2
  <2>4. Ordered(c, st, rs, wire[c]) /\ wire[c] \in Seq(Responses)
    BY <1>1
  <2>5. Ordered(c, st, response', wire[c] \o [i \in 1..n |-> r])
    <3> DEFINE rs2 == response'
               w == wire[c]
    <3>1. /\ rs2[r].client = c /\ Ordered(c, st, rs, w) /\ w \in Seq(Responses)
          /\ \A q \in Responses : q # r => rs2[q] = rs[q]
          /\ st[c].life = "open" /\ st[c].response = r /\ rs[r].client = c
      BY <1>1, <2>1, <2>2, <2>4
    <3> HIDE DEF rs2, w
    <3>2. Ordered(c, st, rs2, w \o [i \in 1..n |-> r])
      BY <3>1, OrderedSent
    <3>3. QED
      BY <3>2 DEF rs2, w
  <2>6. QED
    BY <2>1, <2>2, <2>3, <2>5
<1>3. ASSUME NEW e \in Clients, e # c, stream'[e] = st[e], wire'[e] = wire[e],
             \A q \in Responses : q # r => response'[q] = rs[q]
      PROVE  Ordered(e, stream', response', wire'[e])
  <2> DEFINE st2 == stream'
             rs2 == response'
             w == wire[e]
  <2>1. /\ Ordered(e, st, rs, w) /\ rs[r].client # e
        /\ st2[e].life = st[e].life /\ st2[e].response = st[e].response
        /\ \A q \in Responses : q # r => rs2[q] = rs[q]
    BY <1>1, <1>3
  <2>2. wire'[e] = w
    BY <1>3
  <2> HIDE DEF st2, rs2, w
  <2>3. Ordered(e, st2, rs2, w)
    BY <2>1, OrderedElsewhere
  <2>4. QED
    BY <2>2, <2>3 DEF st2, rs2
<1>4. CASE SendAll(c, r, st, rs)
  <2>1. /\ response' = [rs EXCEPT ![r].buf = 0]
        /\ wire' = [wire EXCEPT ![c] = @ \o [i \in 1..rs[r].buf |-> r]]
    BY <1>4 DEF SendAll
  <2>2. /\ Ordered(c, st, response', wire'[c])
        /\ response'[r].state = rs[r].state /\ response'[r].buf = 0
        /\ \A e \in Clients : e # c => wire'[e] = wire[e]
        /\ \A q \in Responses : q # r => response'[q] = rs[q]
    BY <1>1, <1>2, <2>1
  <2>3. /\ \A e \in Clients : e # c => stream'[e] = st[e]
        /\ \/ stream' = st
           \/ /\ stream'[c].response = None
              /\ \/ stream'[c].life = "closed"
                 \/ rs[r].state = "done" /\ stream'[c].life = st[c].life
    <3>1. \/ stream' = Destroyed(st, c)
          \/ rs[r].state = "done" /\ stream' = Released(st, c)
          \/ stream' = st
      BY <1>4 DEF SendAll
    <3>2. CASE stream' = Destroyed(st, c)
      BY <1>1, <3>2 DEF Destroyed, Streams
    <3>3. CASE rs[r].state = "done" /\ stream' = Released(st, c)
      BY <1>1, <3>3 DEF Released, Streams
    <3>4. QED
      BY <3>1, <3>2, <3>3
  <2>4. Ordered(c, stream', response', wire'[c])
    <3>1. CASE stream' = st
      BY <2>2, <3>1
    <3>2. CASE stream'[c].response = None /\ stream'[c].life = "closed"
      BY <2>2, <3>2, OrderedClosed
    <3>3. CASE /\ stream'[c].response = None
               /\ rs[r].state = "done" /\ stream'[c].life = st[c].life
      <4>1. Finished(response', st[c].response)
        BY <2>2, <3>3 DEF Finished
      <4>2. QED
        BY <2>2, <3>3, <4>1, OrderedReleased
    <3>4. QED
      BY <2>3, <3>1, <3>2, <3>3
  <2>5. QED
    BY <1>3, <2>2, <2>3, <2>4 DEF OrderInv
<1>5. ASSUME NEW n \in 1..MaxPieces, SendSome(c, r, st, rs, n)
      PROVE  OrderInv'
  <2>1. /\ response' = [rs EXCEPT ![r].buf = rs[r].buf - n]
        /\ wire' = [wire EXCEPT ![c] = @ \o [i \in 1..n |-> r]]
        /\ stream' = st
    BY <1>5 DEF SendSome
  <2>2. n \in Nat
    BY HttpAssumption
  <2>3. /\ Ordered(c, st, response', wire'[c])
        /\ \A e \in Clients : e # c => wire'[e] = wire[e]
        /\ \A q \in Responses : q # r => response'[q] = rs[q]
    BY <1>2, <2>1, <2>2
  <2>4. QED
    BY <1>3, <2>1, <2>3 DEF OrderInv
<1>6. ASSUME response' = rs, wire' = wire, \A e \in Clients : e # c => stream'[e] = st[e],
             Ordered(c, stream', rs, wire[c])
      PROVE  OrderInv'
  BY <1>3, <1>6 DEF OrderInv
<1>7. CASE SendBlocks(c, r, st, rs)
  <2>1. /\ response' = rs /\ wire' = wire
        /\ stream' = st \/ stream' = [st EXCEPT ![c].isOnOutLoop = TRUE]
    BY <1>7 DEF SendBlocks
  <2>2. /\ stream'[c].life = st[c].life /\ stream'[c].response = st[c].response
        /\ \A e \in Clients : e # c => stream'[e] = st[e]
    BY <1>1, <2>1 DEF Streams
  <2>3. Ordered(c, st, rs, wire[c])
    OBVIOUS
  <2>4. Ordered(c, stream', rs, wire[c])
    BY <2>2, <2>3, OrderedSame
  <2>5. QED
    BY <1>6, <2>1, <2>2, <2>4
<1>8. CASE SendFails(c, r, st, rs)
  <2>1. /\ response' = rs /\ wire' = wire
        /\ stream' = st \/ stream' = Destroyed(st, c)
    BY <1>8 DEF SendFails
  <2>2. CASE stream' = st
    BY <1>6, <2>1, <2>2
  <2>3. CASE stream' = Destroyed(st, c)
    <3>1. /\ stream'[c].life = "closed" /\ stream'[c].response = None
          /\ \A e \in Clients : e # c => stream'[e] = st[e]
      BY <1>1, <2>3 DEF Destroyed, Streams
    <3>2. Ordered(c, st, rs, wire[c])
      OBVIOUS
    <3>3. Ordered(c, stream', rs, wire[c])
      BY <3>1, <3>2, OrderedClosed
    <3>4. QED
      BY <1>6, <2>1, <3>1, <3>3
  <2>4. QED
    BY <2>1, <2>2, <2>3
<1>9. QED
  BY <1>4, <1>5, <1>7, <1>8 DEF Respond

\* A new stream, on which nothing was sent.
LEMMA AcceptOrdered ==
  ASSUME StreamInv, OrderInv, NEW c \in Clients, NEW fd \in Fds,
         Accept(c, fd) \/ AcceptFails(c, fd)
  PROVE  OrderInv'
<1> DEFINE st2 == stream'
<1>1. stream \in [Clients -> Streams] /\ stream[c] \in Streams /\ stream[c].life = "none"
  BY DEF StreamInv, StreamsFit, Accept, AcceptFails
<1>2. /\ wire' = wire /\ response' = response
      /\ \/ st2 = [stream EXCEPT ![c] = NewStream(fd)]
         \/ st2 = Destroyed(stream, c)
  BY DEF Accept, AcceptFails
<1>3. ASSUME NEW e \in Clients, e # c
      PROVE  st2[e] = stream[e]
  BY <1>1, <1>2, <1>3 DEF Destroyed
<1> HIDE DEF st2
<1>4. DOMAIN wire[c] = {}
  BY <1>1 DEF OrderInv, Ordered
<1>5. Ordered(c, st2, response, wire[c])
  BY <1>4 DEF Ordered
<1>6. ASSUME NEW e \in Clients, e # c
      PROVE  Ordered(e, st2, response, wire[e])
  <2>1. Ordered(e, stream, response, wire[e])
    BY DEF OrderInv
  <2>2. QED
    BY <1>3, <1>6, <2>1, OrderedSame
<1>7. QED
  BY <1>2, <1>5, <1>6 DEF OrderInv, st2

\* Receiving hands out a response of which nothing was sent.
LEMMA RecvOrdered ==
  ASSUME StreamInv, OrderInv, NEW c \in Clients, Recv(c)
  PROVE  OrderInv'
<1> DEFINE st2 == stream'
           rs2 == response'
<1>1. stream \in [Clients -> Streams] /\ stream[c] \in Streams
  BY DEF StreamInv, StreamsFit
<1>2. \A e \in Clients : Ordered(e, stream, response, wire[e])
  BY DEF OrderInv
<1>3. CASE RecvNothing(c)
  <2>1. rs2 = response /\ wire' = wire /\ st2 = Destroyed(stream, c)
    BY <1>3 DEF RecvNothing
  <2>2. /\ st2[c].life = "closed" /\ st2[c].response = None
        /\ \A e \in Clients : e # c => st2[e] = stream[e]
    BY <1>1, <2>1 DEF Destroyed, Streams
  <2> HIDE DEF st2, rs2
  <2>3. Ordered(c, st2, response, wire[c])
    BY <1>2, <2>2, OrderedClosed
  <2>4. ASSUME NEW e \in Clients, e # c
        PROVE  Ordered(e, st2, response, wire[e])
    BY <1>2, <2>2, <2>4, OrderedSame
  <2>5. QED
    BY <2>1, <2>3, <2>4 DEF OrderInv, st2, rs2
<1>4. ASSUME NEW r \in Responses, response[r].client = None,
             \A e \in Clients : /\ st2[e].life = stream[e].life
                                /\ st2[e].response = stream[e].response,
             \A q \in Responses : q # r => rs2[q] = response[q], wire' = wire
      PROVE  OrderInv'
  <2> HIDE DEF st2, rs2
  <2>1. ASSUME NEW e \in Clients
        PROVE  Ordered(e, st2, rs2, wire[e])
    <3>1. response[r].client # e
      BY <1>4, HttpAssumption
    <3>2. Ordered(e, stream, response, wire[e])
      BY <1>2
    <3>3. QED
      BY <1>4, <3>1, <3>2, OrderedElsewhere
  <2>2. QED
    BY <1>4, <2>1 DEF OrderInv, st2, rs2
<1>5. ASSUME NEW q, NEW k,
             \/ st2 = [stream EXCEPT ![c].request = q]
             \/ st2 = [stream EXCEPT ![c].request = q, ![c].keepAlive = k]
      PROVE  \A e \in Clients : /\ st2[e].life = stream[e].life
                                /\ st2[e].response = stream[e].response
  BY <1>1, <1>5 DEF Streams
<1>6. CASE RecvHead(c) \/ RecvIllegal(c)
  <2>1. /\ st2 = [stream EXCEPT ![c].request = "head"]
        /\ rs2 = response /\ wire' = wire
    BY <1>6 DEF RecvHead, RecvIllegal
  <2>2. \A e \in Clients : /\ st2[e].life = stream[e].life
                           /\ st2[e].response = stream[e].response
    BY <1>5, <2>1
  <2> HIDE DEF st2, rs2
  <2>3. ASSUME NEW e \in Clients
        PROVE  Ordered(e, st2, response, wire[e])
    BY <1>2, <2>2, OrderedSame
  <2>4. QED
    BY <2>1, <2>3 DEF OrderInv, st2, rs2
<1>7. ASSUME NEW r \in Responses, RecvBody(c, r) \/ \E keep \in BOOLEAN : RecvRequest(c, r, keep)
      PROVE  OrderInv'
  <2>1. /\ response[r].state = "none" /\ wire' = wire
        /\ rs2 = [response EXCEPT ![r] = NewResponse(c)]
    BY <1>7 DEF RecvBody, RecvRequest
  <2>2. \E q, k : \/ st2 = [stream EXCEPT ![c].request = q]
                  \/ st2 = [stream EXCEPT ![c].request = q, ![c].keepAlive = k]
    BY <1>7 DEF RecvBody, RecvRequest
  <2>3. \A e \in Clients : /\ st2[e].life = stream[e].life
                           /\ st2[e].response = stream[e].response
    BY <1>5, <2>2
  <2>4. response[r].client = None
    BY <2>1 DEF StreamInv, AnswersFit
  <2>5. \A q \in Responses : q # r => rs2[q] = response[q]
    BY <2>1 DEF StreamInv, AnswersFit
  <2>6. QED
    BY <1>4, <2>1, <2>3, <2>4, <2>5
<1>8. QED
  BY <1>3, <1>6, <1>7 DEF Recv

\* The program adds text to a response that it has not finished.
LEMMA AnswerOrdered ==
  ASSUME StreamInv, OrderInv, NEW r \in Responses, response[r].state \in {"zero", "written"},
         NEW n \in 0..1, response[r].made + n <= MaxPieces, NEW state \in {"written", "done"},
         AddResponse(response[r].client, r, Filled(r, n, state))
  PROVE  OrderInv'
<1> DEFINE c == response[r].client
           rs == Filled(r, n, state)
           st == Registered(c, r)
<1>1. /\ stream \in [Clients -> Streams] /\ response \in [Responses -> Answers]
      /\ response[r] \in Answers /\ c \in Clients
  BY DEF StreamInv, StreamsFit, AnswersFit, Answers
<1>2. Open(c) => StreamsFit(st, rs) /\ AnswersFit(rs)
  BY FilledFits
<1>3. /\ rs[r].client = c
      /\ \A q \in Responses : q # r => rs[q] = response[q]
  BY <1>1 DEF Filled, Answers
<1> HIDE DEF rs
<1>4. ASSUME NEW e \in Clients
      PROVE  Ordered(e, stream, rs, wire[e])
  <2>1. Ordered(e, stream, response, wire[e]) /\ response[r].state # "done"
    BY DEF OrderInv
  <2>2. QED
    BY <1>3, <2>1, OrderedFilled
<1>5. ASSUME NEW e \in Clients, Open(c)
      PROVE  Ordered(e, st, rs, wire[e])
  <2>1. CASE stream[c].response # None
    BY <1>4, <2>1 DEF Registered
  <2>2. CASE stream[c].response = None
    <3>1. /\ st[c].life = "open" /\ st[c].response = r
          /\ e # c => st[e] = stream[e]
      BY <1>1, <1>5, <2>2 DEF Registered, Open, Streams
    <3> HIDE DEF st
    <3>2. Ordered(e, stream, response, wire[e]) /\ response[r].state # "done"
      BY DEF OrderInv
    <3>3. Ordered(e, st, response, wire[e])
      <4>1. CASE e = c
        BY <1>5, <2>2, <3>1, <3>2, <4>1, OrderedRegistered DEF Open
      <4>2. CASE e # c
        BY <3>1, <3>2, <4>2, OrderedSame
      <4>3. QED
        BY <4>1, <4>2
    <3>4. QED
      BY <1>3, <3>2, <3>3, OrderedFilled
  <2>3. QED
    BY <2>1, <2>2
<1> HIDE DEF st
<1>6. CASE ~Open(c)
  <2>1. response' = rs /\ UNCHANGED <<stream, wire>>
    BY <1>6 DEF AddResponse, rs, c
  <2>2. QED
    BY <1>4, <2>1 DEF OrderInv
<1>7. CASE Open(c) /\ st[c].isOnOutLoop
  <2>1. stream' = st /\ response' = rs /\ UNCHANGED wire
    BY <1>7 DEF AddResponse, rs, c, st
  <2>2. QED
    BY <1>5, <1>7, <2>1 DEF OrderInv
<1>8. CASE Open(c) /\ ~st[c].isOnOutLoop
  <2>1. Respond(c, st[c].response, st, rs)
    BY <1>8 DEF AddResponse, rs, c, st
  <2>2. st[c].life = "open" /\ st[c].response \in Responses
    BY <1>8, FilledFits DEF st, c
  <2>3. HistoryFits /\ \A e \in Clients : Ordered(e, st, rs, wire[e])
    BY <1>5, <1>8 DEF StreamInv
  <2>4. QED
    BY <1>1, <1>2, <1>8, <2>1, <2>2, <2>3, RespondOrdered
<1>9. QED
  BY <1>6, <1>7, <1>8

LEMMA OrderStep == StreamInv /\ OrderInv /\ [Next]_httpVars => OrderInv'
<1> SUFFICES ASSUME StreamInv, OrderInv, [Next]_httpVars PROVE OrderInv'
  OBVIOUS
<1>1. ASSUME NEW c \in Clients, NEW fd \in Fds, Accept(c, fd) \/ AcceptFails(c, fd)
      PROVE  OrderInv'
  BY <1>1, AcceptOrdered
<1>2. ASSUME NEW c \in Clients, Recv(c)
      PROVE  OrderInv'
  BY <1>2, RecvOrdered
<1>3. ASSUME NEW c \in Clients, Writable(c)
      PROVE  OrderInv'
  <2>1. stream[c].life = "open" /\ stream[c].response \in Responses
    BY <1>3 DEF Writable, Watching, Open, StreamInv, StreamsFit, Streams
  <2>2. Respond(c, stream[c].response, stream, response)
    BY <1>3 DEF Writable
  <2>3. QED
    BY <2>1, <2>2, RespondOrdered DEF StreamInv, OrderInv
<1>4. ASSUME NEW r \in Responses, Write(r)
      PROVE  OrderInv'
  <2>1. response[r].made + 1 <= MaxPieces
    BY <1>4, HttpAssumption DEF Write, StreamInv, AnswersFit, Answers
  <2>2. QED
    BY <1>4, <2>1, AnswerOrdered DEF Write
<1>5. ASSUME NEW r \in Responses, NEW n \in 0..1, Finish(r, n)
      PROVE  OrderInv'
  BY <1>5, AnswerOrdered DEF Finish
<1>6. CASE UNCHANGED httpVars
  BY <1>6 DEF httpVars, streamVars, OrderInv, Ordered, Finished
<1>7. QED
  BY <1>1, <1>2, <1>3, <1>4, <1>5, <1>6 DEF Next

\* On every connection the pieces of two responses are never mixed, for any
\* number of clients and responses, whatever the program answers when, and
\* however the client's socket takes it (Stream.lua: addResponse, respond).
THEOREM StreamOrder == Spec => []OneAtATime
<1>1. Init => OrderInv
  BY DEF Init, OrderInv, Ordered
<1>2. OrderInv => OneAtATime
  BY DEF OrderInv, Ordered, Finished, OneAtATime
<1>3. QED
  BY <1>1, <1>2, OrderStep, StreamInvariant, PTL DEF Spec
-----------------------------------------------------------------------------
(***************************************************************************)
(* No piece is lost or sent twice.  Kept is inductive relative to OrderInv *)
(* (nothing was sent yet of a response that is handed out), and stated of  *)
(* the responses and the history that respond has made so far.             *)
(***************************************************************************)

Pieces(w, r) == {i \in DOMAIN w : w[i] = r}

Kept(rs, wi) ==
  \A r \in Responses : rs[r].client # None =>
    rs[r].made = rs[r].buf + Cardinality(Pieces(wi[rs[r].client], r))

LEMMA NextInterval ==
  ASSUME NEW k \in Nat, NEW n \in Nat
  PROVE  IsFiniteSet(k + 1 .. k + n) /\ Cardinality(k + 1 .. k + n) = n
<1> DEFINE a == k + 1
           b == k + n
<1>1. a \in Int /\ b \in Int /\ (IF a > b THEN 0 ELSE b - a + 1) = n
  OBVIOUS
<1> HIDE DEF a, b
<1>2. IsFiniteSet(a..b) /\ Cardinality(a..b) = IF a > b THEN 0 ELSE b - a + 1
  BY <1>1, FS_Interval
<1>3. QED
  BY <1>1, <1>2 DEF a, b

LEMMA PiecesCount ==
  ASSUME NEW w \in Seq(Responses), NEW r
  PROVE  IsFiniteSet(Pieces(w, r)) /\ Cardinality(Pieces(w, r)) \in Nat
<1>1. DOMAIN w = 1..Len(w) /\ Len(w) \in Nat
  BY LenProperties
<1>2. IsFiniteSet(1..Len(w))
  BY <1>1, FS_Interval
<1>3. Pieces(w, r) \in SUBSET (1..Len(w))
  BY <1>1 DEF Pieces
<1>4. QED
  BY <1>2, <1>3, FS_Subset, FS_CardinalityType

\* What is sent of one response is added to its pieces, and to no other's.
LEMMA PiecesSent ==
  ASSUME NEW w \in Seq(Responses), NEW r \in Responses, NEW n \in Nat
  PROVE  LET v == w \o [i \in 1..n |-> r]
         IN /\ Cardinality(Pieces(v, r)) = Cardinality(Pieces(w, r)) + n
            /\ \A q : q # r => Pieces(v, q) = Pieces(w, q)
<1> DEFINE tail == [i \in 1..n |-> r]
           v == w \o tail
           new == Len(w) + 1 .. Len(w) + n
<1>1. tail \in Seq(Responses) /\ Len(tail) = n
  OBVIOUS
<1>2. Len(w) \in Nat /\ DOMAIN w = 1..Len(w)
  BY LenProperties
<1>3. /\ DOMAIN v = 1..Len(w) + n
      /\ \A i \in 1..Len(w) + n : v[i] = IF i <= Len(w) THEN w[i] ELSE r
  <2>1. /\ v \in Seq(Responses)
        /\ Len(v) = Len(w) + n
        /\ \A i \in 1..Len(w) + n : v[i] = IF i <= Len(w) THEN w[i] ELSE tail[i - Len(w)]
    BY <1>1, ConcatProperties
  <2>2. \A i \in 1..Len(w) + n : ~(i <= Len(w)) => tail[i - Len(w)] = r
    BY <1>2
  <2> HIDE DEF v, tail
  <2>3. DOMAIN v = 1..Len(w) + n
    BY <2>1, LenProperties
  <2>4. QED
    BY <2>1, <2>2, <2>3
<1> HIDE DEF v
<1>4. Pieces(v, r) = Pieces(w, r) \cup new
  BY <1>2, <1>3 DEF Pieces
<1>5. ASSUME NEW q, q # r
      PROVE  Pieces(v, q) = Pieces(w, q)
  BY <1>2, <1>3, <1>5 DEF Pieces
<1>6. IsFiniteSet(new) /\ Cardinality(new) = n
  BY <1>2, NextInterval
<1>7. Pieces(w, r) \cap new = {}
  BY <1>2 DEF Pieces
<1>8. Cardinality(Pieces(v, r)) = Cardinality(Pieces(w, r)) + n
  <2> HIDE DEF new
  <2>1. IsFiniteSet(Pieces(w, r)) /\ Cardinality(Pieces(w, r)) \in Nat
    BY PiecesCount
  <2>2. Cardinality(Pieces(v, r)) =
          Cardinality(Pieces(w, r)) + Cardinality(new) - Cardinality(Pieces(w, r) \cap new)
    BY <1>4, <1>6, <2>1, FS_Union
  <2>3. Cardinality(Pieces(w, r) \cap new) = 0
    BY <1>7, FS_EmptySet
  <2>4. QED
    BY <1>6, <2>1, <2>2, <2>3
<1>9. QED
  BY <1>5, <1>8 DEF v, tail

\* What leaves the buffer of a response is sent to its client.
LEMMA SentKept ==
  ASSUME NEW rs \in [Responses -> Answers], HistoryFits, Kept(rs, wire), NEW c \in Clients, NEW r \in Responses,
         rs[r].client = c, NEW n \in 0..rs[r].buf,
         NEW rs2, rs2 = [rs EXCEPT ![r].buf = rs[r].buf - n],
         NEW wi, wi = [wire EXCEPT ![c] = @ \o [i \in 1..n |-> r]]
  PROVE  Kept(rs2, wi)
<1>1. /\ wire \in [Clients -> Seq(Responses)] /\ wire[c] \in Seq(Responses) /\ n \in Nat
      /\ rs[r].buf \in Nat /\ rs[r].made \in Nat /\ rs[r] \in Answers /\ c # None
  BY HttpAssumption DEF HistoryFits, Answers
<1>2. /\ Cardinality(Pieces(wi[c], r)) = Cardinality(Pieces(wire[c], r)) + n
      /\ \A q : q # r => Pieces(wi[c], q) = Pieces(wire[c], q)
      /\ \A e \in Clients : e # c => wi[e] = wire[e]
  <2>1. /\ wi[c] = wire[c] \o [i \in 1..n |-> r]
        /\ \A e \in Clients : e # c => wi[e] = wire[e]
    BY <1>1
  <2>2. QED
    BY <1>1, <2>1, PiecesSent
<1>3. /\ rs2[r].client = c /\ rs2[r].made = rs[r].made /\ rs2[r].buf = rs[r].buf - n
      /\ \A q \in Responses : q # r => rs2[q] = rs[q]
  BY <1>1 DEF Answers
<1>4. rs2[r].made = rs2[r].buf + Cardinality(Pieces(wi[c], r))
  <2>1. rs[r].made = rs[r].buf + Cardinality(Pieces(wire[c], r))
    BY <1>1 DEF Kept
  <2>2. Cardinality(Pieces(wire[c], r)) \in Nat
    BY <1>1, PiecesCount
  <2>3. QED
    BY <1>1, <1>2, <1>3, <2>1, <2>2
<1>5. ASSUME NEW q \in Responses, q # r, rs2[q].client # None
      PROVE  rs2[q].made = rs2[q].buf + Cardinality(Pieces(wi[rs2[q].client], q))
  <2>1. rs2[q] = rs[q] /\ rs[q].client \in Clients
    BY <1>3, <1>5 DEF Answers
  <2>2. Pieces(wi[rs[q].client], q) = Pieces(wire[rs[q].client], q)
    BY <1>2, <1>5, <2>1
  <2>3. QED
    BY <1>5, <2>1, <2>2 DEF Kept
<1>6. QED
  BY <1>3, <1>4, <1>5 DEF Kept

\* respond moves pieces from the buffer to the client, and nothing else.
LEMMA RespondKept ==
  ASSUME NEW st, NEW rs, StreamsFit(st, rs), AnswersFit(rs), HistoryFits, Kept(rs, wire),
         NEW c \in Clients, NEW r \in Responses, st[c].response = r,
         Respond(c, r, st, rs)
  PROVE  Kept(response, wire)'
<1>1. rs \in [Responses -> Answers] /\ rs[r].client = c /\ rs[r].buf \in Nat /\ MaxPieces \in Nat
  BY HttpAssumption DEF StreamsFit, AnswersFit, Answers
<1>2. CASE SendAll(c, r, st, rs)
  <2>1. /\ response' = [rs EXCEPT ![r].buf = rs[r].buf - rs[r].buf]
        /\ wire' = [wire EXCEPT ![c] = @ \o [i \in 1..rs[r].buf |-> r]]
    <3>1. rs[r].buf - rs[r].buf = 0
      BY <1>1
    <3>2. QED
      BY <1>2, <3>1, Zenon DEF SendAll
  <2>2. rs[r].buf \in 0..rs[r].buf
    BY <1>1
  <2>3. QED
    BY <1>1, <2>1, <2>2, SentKept
<1>3. ASSUME NEW n \in 1..MaxPieces, SendSome(c, r, st, rs, n)
      PROVE  Kept(response, wire)'
  <2>1. /\ response' = [rs EXCEPT ![r].buf = rs[r].buf - n]
        /\ wire' = [wire EXCEPT ![c] = @ \o [i \in 1..n |-> r]]
        /\ n < rs[r].buf
    BY <1>3 DEF SendSome
  <2>2. n \in 0..rs[r].buf
    BY <1>1, <2>1
  <2>3. QED
    BY <1>1, <2>1, <2>2, SentKept
<1>4. CASE SendBlocks(c, r, st, rs) \/ SendFails(c, r, st, rs)
  BY <1>4 DEF SendBlocks, SendFails
<1>5. QED
  BY <1>2, <1>3, <1>4 DEF Respond

\* A response that is handed out has no pieces, made or sent.
LEMMA RecvKept ==
  ASSUME StreamInv, OrderInv, Kept(response, wire), NEW c \in Clients, Recv(c)
  PROVE  Kept(response, wire)'
<1>1. ASSUME NEW r \in Responses, RecvBody(c, r) \/ \E keep \in BOOLEAN : RecvRequest(c, r, keep)
      PROVE  Kept(response, wire)'
  <2>1. /\ response' = [response EXCEPT ![r] = NewResponse(c)] /\ wire' = wire
        /\ response[r].state = "none"
    BY <1>1 DEF RecvBody, RecvRequest
  <2>2. response[r].client = None /\ response \in [Responses -> Answers]
    BY <2>1 DEF StreamInv, AnswersFit
  <2>3. \A i \in DOMAIN wire[c] : response[wire[c][i]].client = c
    BY DEF OrderInv, Ordered
  <2>4. Pieces(wire[c], r) = {}
    BY <2>2, <2>3, HttpAssumption DEF Pieces
  <2>5. response'[r] = [client |-> c, state |-> "zero", buf |-> 0, made |-> 0]
    BY <2>1, <2>2 DEF NewResponse
  <2>6. response'[r].made = response'[r].buf + Cardinality(Pieces(wire'[response'[r].client], r))
    BY <2>1, <2>4, <2>5, FS_EmptySet
  <2>7. \A q \in Responses : q # r => response'[q] = response[q]
    BY <2>1, <2>2
  <2>8. QED
    BY <2>1, <2>6, <2>7 DEF Kept
<1>2. CASE RecvNothing(c) \/ RecvHead(c) \/ RecvIllegal(c)
  BY <1>2 DEF RecvNothing, RecvHead, RecvIllegal
<1>3. QED
  BY <1>1, <1>2 DEF Recv

\* What the program adds to a response goes to its buffer.
LEMMA AnswerKept ==
  ASSUME StreamInv, Kept(response, wire), NEW r \in Responses, response[r].state \in {"zero", "written"},
         NEW n \in 0..1, response[r].made + n <= MaxPieces, NEW state \in {"written", "done"},
         AddResponse(response[r].client, r, Filled(r, n, state))
  PROVE  Kept(response, wire)'
<1> DEFINE c == response[r].client
           rs == Filled(r, n, state)
           st == Registered(c, r)
<1>1. /\ c \in Clients /\ StreamsFit(stream, rs) /\ AnswersFit(rs) /\ HistoryFits
      /\ Open(c) => /\ StreamsFit(st, rs) /\ st[c].life = "open"
                    /\ st[c].response \in Responses
  BY FilledFits DEF StreamInv
<1>2. Kept(rs, wire)
  <2>1. response \in [Responses -> Answers] /\ response[r] \in Answers
        /\ response[r].buf \in Nat /\ response[r].made \in Nat /\ c # None
    BY <1>1, HttpAssumption DEF StreamInv, AnswersFit, Answers
  <2>2. /\ rs[r].client = c /\ rs[r].buf = response[r].buf + n /\ rs[r].made = response[r].made + n
        /\ \A q \in Responses : q # r => rs[q] = response[q]
    BY <2>1 DEF Filled, Answers
  <2>3. response[r].made = response[r].buf + Cardinality(Pieces(wire[c], r))
    BY <2>1 DEF Kept
  <2>4. Cardinality(Pieces(wire[c], r)) \in Nat
    BY <1>1, PiecesCount DEF HistoryFits
  <2> HIDE DEF rs, c
  <2>5. rs[r].made = rs[r].buf + Cardinality(Pieces(wire[c], r))
    BY <2>1, <2>2, <2>3, <2>4
  <2>6. QED
    BY <2>2, <2>5 DEF Kept
<1> HIDE DEF rs, st, c
<1>3. \/ response' = rs /\ wire' = wire
      \/ Open(c) /\ Respond(c, st[c].response, st, rs)
  BY DEF AddResponse, rs, st, c
<1>4. CASE response' = rs /\ wire' = wire
  BY <1>2, <1>4
<1>5. CASE Open(c) /\ Respond(c, st[c].response, st, rs)
  BY <1>1, <1>2, <1>5, RespondKept
<1>6. QED
  BY <1>3, <1>4, <1>5

LEMMA KeptStep == StreamInv /\ OrderInv /\ Kept(response, wire) /\ [Next]_httpVars => Kept(response, wire)'
<1> SUFFICES ASSUME StreamInv, OrderInv, Kept(response, wire), [Next]_httpVars PROVE Kept(response, wire)'
  OBVIOUS
<1>1. CASE UNCHANGED <<response, wire>>
  BY <1>1
<1>2. ASSUME NEW c \in Clients, NEW fd \in Fds, Accept(c, fd) \/ AcceptFails(c, fd)
      PROVE  Kept(response, wire)'
  BY <1>1, <1>2 DEF Accept, AcceptFails
<1>3. ASSUME NEW c \in Clients, Writable(c)
      PROVE  Kept(response, wire)'
  <2>1. stream[c].response \in Responses
    BY <1>3 DEF Writable, StreamInv, StreamsFit, Streams
  <2>2. Respond(c, stream[c].response, stream, response)
    BY <1>3 DEF Writable
  <2>3. QED
    BY <2>1, <2>2, RespondKept DEF StreamInv
<1>4. ASSUME NEW r \in Responses, Write(r)
      PROVE  Kept(response, wire)'
  <2>1. response[r].made + 1 <= MaxPieces
    BY <1>4, HttpAssumption DEF Write, StreamInv, AnswersFit, Answers
  <2>2. QED
    BY <1>4, <2>1, AnswerKept DEF Write
<1>5. ASSUME NEW r \in Responses, NEW n \in 0..1, Finish(r, n)
      PROVE  Kept(response, wire)'
  BY <1>5, AnswerKept DEF Finish
<1>6. QED
  BY <1>1, <1>2, <1>3, <1>4, <1>5, RecvKept DEF Next, httpVars, streamVars

\* No piece of a response is lost or sent twice, however sends are cut, block
\* and fail, and whichever response has the place (Stream.lua: respond, send).
THEOREM StreamKeepsPieces == Spec => []PiecesKept
<1>1. Init => OrderInv /\ Kept(response, wire)
  BY DEF Init, OrderInv, Ordered, Kept, NoResponse
<1>2. Kept(response, wire) <=> PiecesKept
  BY DEF Kept, PiecesKept, Pieces, Sent
<1>3. QED
  BY <1>1, <1>2, OrderStep, KeptStep, StreamInvariant, PTL DEF Spec
-----------------------------------------------------------------------------
(***************************************************************************)
(* The loop watches each stream for what it can go on with.  What makes    *)
(* this inductive is that open streams have different sockets, and that    *)
(* nothing else is watched: so what one stream does with the loop leaves   *)
(* the others alone, and a new one starts on a descriptor without a mask.  *)
(***************************************************************************)

WatchIn(in, fd) == IF fd \in DOMAIN in THEN in[fd] ELSE {}

\* What is watched, w, suits the stream s.
Suits(w, s) ==
  /\ "read" \in w <=> s.keepAlive
  /\ "write" \in w => s.response # None /\ s.isOnOutLoop

Served(st, in) ==
  /\ \A c, d \in Clients :
       (st[c].life = "open" /\ st[d].life = "open" /\ c # d) => st[c].socket # st[d].socket
  /\ \A fd \in DOMAIN in : \E c \in Clients : st[c].life = "open" /\ st[c].socket = fd
  /\ \A c \in Clients : st[c].life = "open" => Suits(WatchIn(in, st[c].socket), st[c])

\* The stream s does not keep a response that is finished, unless isOnOutLoop says that
\* the loop is going to call respond, or the loop has refused to (the socket is in stuck).
GivesUp(s, rs, stuck) ==
  (s.response # None /\ Finished(rs, s.response)) => s.isOnOutLoop \/ s.socket \in stuck

ServedInv ==
  /\ Served(stream, interest)
  /\ \A c \in Clients : GivesUp(stream[c], response, Observed \ Watched)

(***************************************************************************)
(* What the calls of the loop do to the descriptor they are made for, and  *)
(* that they leave the others alone.                                       *)
(***************************************************************************)
Elsewhere(fd) ==
  \A x : x # fd => /\ x \in Observed' <=> x \in Observed
                   /\ x \in Watched' <=> x \in Watched
                   /\ x \in Watched => interest'[x] = interest[x]

LEMMA AddWatches ==
  ASSUME NEW fd, NEW m, AddHandle(fd, m)
  PROVE  /\ Elsewhere(fd) /\ fd \in Watched' /\ interest'[fd] = NodeOf(fd).msk \cup m
         /\ NodeOf(fd).msk = {} \/ fd \in Watched
<1> DEFINE new == [msk |-> NodeOf(fd).msk \cup m, fns |-> NodeOf(fd).fns \cup Stored(m)]
           w == NodeOf(fd).msk \cup m
<1>1. node' = Put(node, fd, new) /\ interest' = Put(interest, fd, w) /\ KernelAdds(fd)
  BY DEF AddHandle
<1> HIDE DEF new, w
<1>2. /\ DOMAIN node' = DOMAIN node \cup {fd}
      /\ DOMAIN interest' = DOMAIN interest \cup {fd} /\ interest'[fd] = w
      /\ \A x \in DOMAIN interest : x # fd => interest'[x] = interest[x]
  BY <1>1 DEF Put
<1>3. QED
  BY <1>1, <1>2 DEF Elsewhere, Observed, Watched, KernelAdds, w

LEMMA AddFailsWatches ==
  ASSUME NEW fd, AddHandleFails(fd)
  PROVE  Elsewhere(fd) /\ fd \in Observed' /\ interest' = interest
<1>1. node' = Put(node, fd, NodeOf(fd)) /\ interest' = interest
  BY DEF AddHandleFails
<1>2. DOMAIN node' = DOMAIN node \cup {fd}
  BY <1>1 DEF Put
<1>3. QED
  BY <1>1, <1>2 DEF Elsewhere, Observed, Watched

LEMMA RemoveWatches ==
  ASSUME HandleInv, NEW fd, NEW m, RemoveHandle(fd, m)
  PROVE  /\ Elsewhere(fd) /\ fd \in Watched
         /\ WatchIn(interest', fd) = interest[fd] \ m
         /\ interest[fd] \subseteq m => fd \notin Watched'
<1> DEFINE left == node[fd].msk \ m
<1>1. fd \in Observed /\ fd \in Watched /\ interest[fd] = node[fd].msk
  BY DEF RemoveHandle, HandleInv, KernelAgrees
<1>2. CASE left # {}
  <2>1. node' = [node EXCEPT ![fd].msk = left] /\ interest' = [interest EXCEPT ![fd] = left]
    BY <1>2 DEF RemoveHandle
  <2> HIDE DEF left
  <2>2. /\ DOMAIN node' = DOMAIN node /\ DOMAIN interest' = DOMAIN interest
        /\ interest'[fd] = left /\ \A x \in DOMAIN interest : x # fd => interest'[x] = interest[x]
    BY <1>1, <2>1 DEF Watched
  <2>3. Elsewhere(fd) /\ WatchIn(interest', fd) = left
    BY <1>1, <2>2 DEF Elsewhere, Observed, Watched, WatchIn
  <2>4. QED
    BY <1>1, <1>2, <2>3 DEF left
<1>3. CASE left = {}
  <2>1. node' = Drop(node, {fd}) /\ interest' = Drop(interest, {fd})
    BY <1>3 DEF RemoveHandle
  <2>2. /\ DOMAIN node' = DOMAIN node \ {fd} /\ DOMAIN interest' = DOMAIN interest \ {fd}
        /\ \A x \in DOMAIN interest : x # fd => interest'[x] = interest[x]
    BY <2>1 DEF Drop, Restrict
  <2>3. Elsewhere(fd) /\ WatchIn(interest', fd) = {} /\ fd \notin Watched'
    BY <2>2 DEF Elsewhere, Observed, Watched, WatchIn
  <2>4. QED
    BY <1>1, <1>3, <2>3
<1>4. QED
  BY <1>2, <1>3

LEMMA CloseWatches ==
  ASSUME NEW fd, Close(fd)
  PROVE  Elsewhere(fd) /\ fd \notin Watched'
<1>1. node' = node /\ interest' = Drop(interest, {fd})
  BY DEF Close
<1>2. /\ DOMAIN interest' = DOMAIN interest \ {fd}
      /\ \A x \in DOMAIN interest : x # fd => interest'[x] = interest[x]
  BY <1>1 DEF Drop, Restrict
<1>3. QED
  BY <1>1, <1>2 DEF Elsewhere, Observed, Watched

LEMMA SameWatches == ASSUME UNCHANGED handleVars, NEW fd PROVE Elsewhere(fd) /\ interest' = interest
  BY DEF handleVars, Elsewhere, Observed, Watched

(***************************************************************************)
(* A step in which one stream goes on: st and rs are the streams and the   *)
(* responses that the step has made so far.                                *)
(***************************************************************************)
Alone(c, st, rs) ==
  \A e \in Clients : e # c =>
    /\ stream'[e] = st[e]
    /\ st[e].response # None => response'[st[e].response] = rs[st[e].response]

LEMMA OneGoesOn ==
  ASSUME NEW c \in Clients, NEW st \in [Clients -> Streams], NEW rs, Alone(c, st, rs),
         Served(st, interest), st[c].life = "open", NEW fd, fd = st[c].socket, Elsewhere(fd),
         \A e \in Clients : e # c => GivesUp(st[e], rs, Observed \ Watched),
         \A e \in Clients : st[e].response # None => st[e].life = "open",
         \/ stream'[c].life # "open" /\ stream'[c].response = None /\ fd \notin Watched'
         \/ /\ stream'[c].life = "open" /\ stream'[c].socket = fd
            /\ Suits(WatchIn(interest', fd), stream'[c])
            /\ GivesUp(stream'[c], response', Observed' \ Watched')
  PROVE  ServedInv'
<1> DEFINE st2 == stream'
           in2 == interest'
           rs2 == response'
<1>1. \A e \in Clients : e # c => st2[e] = st[e]
  BY DEF Alone
<1>2. \A e \in Clients : (e # c /\ st[e].life = "open") => st[e].socket # fd
  BY DEF Served
<1>3. \A x : x # fd => (x \in DOMAIN in2 <=> x \in DOMAIN interest) /\ WatchIn(in2, x) = WatchIn(interest, x)
  BY DEF Elsewhere, WatchIn, Watched
<1>4. \A d, e \in Clients :
        (st2[d].life = "open" /\ st2[e].life = "open" /\ d # e) => st2[d].socket # st2[e].socket
  BY <1>1, <1>2 DEF Served
<1>5. \A x \in DOMAIN in2 : \E e \in Clients : st2[e].life = "open" /\ st2[e].socket = x
  <2> SUFFICES ASSUME NEW x \in DOMAIN in2
               PROVE  \E e \in Clients : st2[e].life = "open" /\ st2[e].socket = x
    OBVIOUS
  <2>1. CASE x = fd
    BY <2>1 DEF Watched
  <2>2. CASE x # fd
    <3>1. PICK e \in Clients : st[e].life = "open" /\ st[e].socket = x
      BY <1>3, <2>2 DEF Served
    <3>2. QED
      BY <1>1, <2>2, <3>1
  <2>3. QED
    BY <2>1, <2>2
<1>6. \A e \in Clients : st2[e].life = "open" => Suits(WatchIn(in2, st2[e].socket), st2[e])
  <2> SUFFICES ASSUME NEW e \in Clients, st2[e].life = "open"
               PROVE  Suits(WatchIn(in2, st2[e].socket), st2[e])
    OBVIOUS
  <2>1. CASE e = c
    BY <2>1
  <2>2. CASE e # c
    <3>1. st2[e] = st[e] /\ Suits(WatchIn(interest, st[e].socket), st[e]) /\ st[e].socket # fd
      BY <1>1, <1>2, <2>2 DEF Served
    <3>2. QED
      BY <1>3, <3>1
  <2>3. QED
    BY <2>1, <2>2
<1>7. \A e \in Clients : GivesUp(st2[e], rs2, Observed' \ Watched')
  <2> SUFFICES ASSUME NEW e \in Clients
               PROVE  GivesUp(st2[e], rs2, Observed' \ Watched')
    OBVIOUS
  <2>1. CASE e = c
    BY <2>1 DEF GivesUp
  <2>2. CASE e # c
    <3>1. /\ st2[e] = st[e] /\ GivesUp(st[e], rs, Observed \ Watched)
          /\ st[e].response # None => st[e].socket # fd /\ rs2[st[e].response] = rs[st[e].response]
      BY <1>1, <1>2, <2>2 DEF Alone
    <3>2. \A x : x # fd => (x \in Observed \ Watched <=> x \in Observed' \ Watched')
      BY DEF Elsewhere
    <3> HIDE DEF st2, rs2
    <3>3. QED
      BY <3>1, <3>2 DEF GivesUp, Finished
  <2>3. QED
    BY <2>1, <2>2
<1>8. Served(st2, in2)
  BY <1>4, <1>5, <1>6 DEF Served
<1>9. QED
  BY <1>7, <1>8 DEF ServedInv

\* What respond leaves behind is alone the response it sent and its stream.
LEMMA RespondAlone ==
  ASSUME NEW st, NEW rs, StreamsFit(st, rs), AnswersFit(rs), NEW c \in Clients, NEW r \in Responses,
         st[c].response = r, Respond(c, r, st, rs)
  PROVE  Alone(c, st, rs)
<1>1. st \in [Clients -> Streams] /\ rs \in [Responses -> Answers]
  BY DEF StreamsFit, AnswersFit
<1>2. ASSUME NEW e \in Clients, e # c
      PROVE  st[e].response # r /\ (st[e].response # None => st[e].response \in Responses)
  <2>1. rs[r].client = c /\ r # None
    BY HttpAssumption DEF StreamsFit
  <2>2. QED
    BY <1>1, <1>2, <2>1 DEF StreamsFit, Streams
<1>3. \A q \in Responses : q # r => response'[q] = rs[q]
  BY <1>1 DEF Respond, SendAll, SendSome, SendBlocks, SendFails
<1>4. \/ stream' \in {st, Destroyed(st, c), Released(st, c)}
      \/ stream' = [st EXCEPT ![c].isOnOutLoop = TRUE]
  BY DEF Respond, SendAll, SendSome, SendBlocks, SendFails
<1>5. \A e \in Clients : e # c => stream'[e] = st[e]
  BY <1>1, <1>4 DEF Destroyed, Released
<1>6. QED
  BY <1>2, <1>3, <1>5 DEF Alone

\* However a send ends, the loop watches the stream for what is left to do.
LEMMA RespondServed ==
  ASSUME HandleInv, NEW st, NEW rs, StreamsFit(st, rs), AnswersFit(rs), Served(st, interest),
         NEW c \in Clients, NEW r \in Responses, st[c].life = "open", st[c].response = r,
         \A e \in Clients : e # c => GivesUp(st[e], rs, Observed \ Watched),
         Respond(c, r, st, rs)
  PROVE  ServedInv'
<1> DEFINE fd == st[c].socket
           w == WatchIn(interest, fd)
           s2 == stream'[c]
<1>1. /\ st \in [Clients -> Streams] /\ st[c] \in Streams /\ fd \in Fds /\ r # None
      /\ rs \in [Responses -> Answers] /\ rs[r] \in Answers /\ rs[r].buf \in Nat
      /\ \A e \in Clients : st[e].response # None => st[e].life = "open"
  BY HttpAssumption DEF StreamsFit, AnswersFit, Streams, Answers
<1>2. Alone(c, st, rs)
  BY RespondAlone
<1>3. Suits(w, st[c])
  BY DEF Served
<1>4. ASSUME Elsewhere(fd),
             \/ s2.life # "open" /\ s2.response = None /\ fd \notin Watched'
             \/ /\ s2.life = "open" /\ s2.socket = fd
                /\ Suits(WatchIn(interest', fd), s2)
                /\ GivesUp(s2, response', Observed' \ Watched')
      PROVE  ServedInv'
  BY <1>1, <1>2, <1>4, OneGoesOn
<1>5. fd \in Watched => interest[fd] \subseteq Dir /\ interest[fd] = NodeOf(fd).msk /\ w = interest[fd]
  BY DEF HandleInv, HandleTypeOK, KernelAgrees, NodeOf, WatchIn, Watched, Masks
<1>6. fd \notin Watched => w = {}
  BY DEF WatchIn, Watched
<1> HIDE DEF fd, w
<1>7. ASSUME stream' = Destroyed(st, c)
      PROVE  s2.life # "open" /\ s2.response = None
  BY <1>1, <1>7 DEF Destroyed, Streams
<1>8. CASE SendAll(c, r, st, rs)
  <2>1. CASE rs[r].state = "done" /\ ~st[c].keepAlive
    <3>1. stream' = Destroyed(st, c) /\ Close(fd)
      BY <1>8, <2>1 DEF SendAll, fd
    <3>2. QED
      BY <1>4, <1>7, <3>1, CloseWatches
  <2>2. CASE ~(rs[r].state = "done" /\ ~st[c].keepAlive)
    <3>1. /\ stream' = IF rs[r].state = "done" THEN Released(st, c) ELSE st
          /\ OffLoop(st[c])
      BY <1>8, <2>2 DEF SendAll
    <3>2. /\ s2.life = "open" /\ s2.socket = fd /\ s2.keepAlive = st[c].keepAlive
          /\ s2.response = IF rs[r].state = "done" THEN None ELSE r
      BY <1>1, <3>1 DEF Released, Streams, fd
    <3>3. response'[r].state = rs[r].state
      BY <1>1, <1>8 DEF SendAll, Answers
    <3>4. GivesUp(s2, response', Observed' \ Watched')
      BY <3>2, <3>3 DEF GivesUp, Finished
    <3>5. Elsewhere(fd) /\ WatchIn(interest', fd) = w \ {"write"}
      <4>1. CASE st[c].isOnOutLoop
        <5>1. RemoveHandle(fd, {"write"})
          BY <3>1, <4>1 DEF OffLoop, fd
        <5>2. Elsewhere(fd) /\ fd \in Watched /\ WatchIn(interest', fd) = interest[fd] \ {"write"}
          BY <5>1, RemoveWatches
        <5>3. QED
          BY <1>5, <5>2
      <4>2. CASE ~st[c].isOnOutLoop
        <5>1. Elsewhere(fd) /\ interest' = interest
          BY <3>1, <4>2, SameWatches DEF OffLoop
        <5>2. "write" \notin w
          BY <1>3, <4>2 DEF Suits
        <5>3. QED
          BY <5>1, <5>2 DEF w
      <4>3. QED
        BY <4>1, <4>2
    <3>6. Suits(WatchIn(interest', fd), s2)
      BY <1>3, <3>2, <3>5 DEF Suits
    <3>7. QED
      BY <1>4, <3>2, <3>4, <3>5, <3>6
  <2>3. QED
    BY <2>1, <2>2
<1>9. ASSUME NEW n \in 1..MaxPieces, SendSome(c, r, st, rs, n)
      PROVE  ServedInv'
  <2>1. stream' = st /\ UNCHANGED handleVars /\ n < rs[r].buf
        /\ response' = [rs EXCEPT ![r].buf = rs[r].buf - n]
    BY <1>9 DEF SendSome
  <2>2. response'[r].buf = rs[r].buf - n /\ n \in Nat
    BY <1>1, <2>1, HttpAssumption DEF Answers
  <2>3. response'[r].buf # 0
    BY <1>1, <2>1, <2>2
  <2>4. Elsewhere(fd) /\ interest' = interest
    BY <2>1, SameWatches
  <2>5. GivesUp(s2, response', Observed' \ Watched')
    BY <2>1, <2>3 DEF GivesUp, Finished
  <2>6. s2.life = "open" /\ s2.socket = fd /\ Suits(WatchIn(interest', fd), s2)
    BY <1>3, <2>1, <2>4 DEF w, fd
  <2>7. QED
    BY <1>4, <2>4, <2>5, <2>6
<1>10. CASE SendBlocks(c, r, st, rs)
  <2>1. rs[r].buf > 0 /\ response' = rs
    BY <1>10 DEF SendBlocks
  <2>2. ASSUME s2.response = r
        PROVE  GivesUp(s2, response', Observed' \ Watched')
    BY <1>1, <2>1, <2>2 DEF GivesUp, Finished
  <2>3. CASE UNCHANGED handleVars /\ stream' = st
    <3>1. Elsewhere(fd) /\ interest' = interest
      BY <2>3, SameWatches
    <3>2. s2.life = "open" /\ s2.socket = fd /\ Suits(WatchIn(interest', fd), s2)
      BY <1>3, <2>3, <3>1 DEF w, fd
    <3>3. GivesUp(s2, response', Observed' \ Watched')
      BY <2>2, <2>3
    <3>4. QED
      BY <1>4, <3>1, <3>2, <3>3
  <2>4. CASE AddHandle(fd, {"write"}) /\ stream' = [st EXCEPT ![c].isOnOutLoop = TRUE]
    <3>1. /\ Elsewhere(fd) /\ fd \in Watched' /\ interest'[fd] = NodeOf(fd).msk \cup {"write"}
          /\ NodeOf(fd).msk = {} \/ fd \in Watched
      BY <2>4, AddWatches
    <3>2. /\ s2.life = "open" /\ s2.socket = fd /\ s2.keepAlive = st[c].keepAlive
          /\ s2.response = r /\ s2.isOnOutLoop = TRUE
      BY <1>1, <2>4 DEF Streams, fd
    <3>3. WatchIn(interest', fd) = w \cup {"write"}
      BY <1>5, <1>6, <3>1 DEF WatchIn, Watched
    <3>4. Suits(WatchIn(interest', fd), s2)
      BY <1>1, <1>3, <3>2, <3>3 DEF Suits
    <3>5. GivesUp(s2, response', Observed' \ Watched')
      BY <2>2, <3>2
    <3>6. QED
      BY <1>4, <3>1, <3>2, <3>4, <3>5
  <2>5. CASE AddHandleFails(fd) /\ stream' = st
    <3>1. Elsewhere(fd) /\ interest' = interest
      BY <2>5, AddFailsWatches
    <3>2. s2.life = "open" /\ s2.socket = fd /\ Suits(WatchIn(interest', fd), s2)
      BY <1>3, <2>5, <3>1 DEF w, fd
    <3>3. GivesUp(s2, response', Observed' \ Watched')
      BY <2>2, <2>5
    <3>4. QED
      BY <1>4, <3>1, <3>2, <3>3
  <2>6. QED
    BY <1>10, <2>3, <2>4, <2>5 DEF SendBlocks, fd
<1>11. CASE SendFails(c, r, st, rs)
  <2>1. CASE fd \in Observed \ Watched
    <3>1. stream' = st /\ response' = rs /\ UNCHANGED handleVars
      BY <1>11, <2>1 DEF SendFails, fd
    <3>2. Elsewhere(fd) /\ interest' = interest /\ Observed' = Observed /\ Watched' = Watched
      BY <3>1, SameWatches DEF handleVars, Observed, Watched
    <3>3. s2.life = "open" /\ s2.socket = fd /\ Suits(WatchIn(interest', fd), s2)
      BY <1>3, <3>1, <3>2 DEF w, fd
    <3>4. GivesUp(s2, response', Observed' \ Watched')
      BY <2>1, <3>2, <3>3 DEF GivesUp
    <3>5. QED
      BY <1>4, <3>2, <3>3, <3>4
  <2>2. CASE fd \in Observed \cap Watched
    <3>1. stream' = Destroyed(st, c) /\ RemoveHandle(fd, Dir)
      BY <1>11, <2>2 DEF SendFails, Dir, fd
    <3>2. Elsewhere(fd) /\ fd \notin Watched'
      BY <1>5, <2>2, <3>1, RemoveWatches
    <3>3. QED
      BY <1>4, <1>7, <3>1, <3>2
  <2>3. CASE fd \notin Observed
    <3>1. stream' = Destroyed(st, c) /\ UNCHANGED handleVars
      BY <1>11, <2>3 DEF SendFails, fd
    <3>2. Elsewhere(fd) /\ fd \notin Watched'
      BY <2>3, <3>1, SameWatches DEF HandleInv, KernelAgrees, Watched, handleVars
    <3>3. QED
      BY <1>4, <1>7, <3>1, <3>2
  <2>4. QED
    BY <2>1, <2>2, <2>3
<1>12. QED
  BY <1>8, <1>9, <1>10, <1>11 DEF Respond

\* A new stream gets a descriptor that nothing is watched for.
LEMMA AcceptServed ==
  ASSUME HandleInv, StreamInv, ServedInv, NEW c \in Clients, NEW fd \in Fds,
         Accept(c, fd) \/ AcceptFails(c, fd)
  PROVE  ServedInv'
<1> DEFINE st2 == stream'
           in2 == interest'
<1>1. /\ stream \in [Clients -> Streams] /\ stream[c] \in Streams /\ stream[c].life = "none"
      /\ response' = response
      /\ \A e \in Clients : stream[e].socket # fd
      /\ \A e \in Clients : stream[e].response # None => stream[e].life = "open"
  BY DEF StreamInv, StreamsFit, Accept, AcceptFails, InUse
<1>2. Served(stream, interest) /\ \A e \in Clients : GivesUp(stream[e], response, Observed \ Watched)
  BY DEF ServedInv
<1>3. CASE Accept(c, fd)
  <2>1. AddHandle(fd, {"read"}) /\ st2 = [stream EXCEPT ![c] = NewStream(fd)]
    BY <1>3 DEF Accept
  <2>2. fd \notin Watched
    BY <1>1, <1>2 DEF Served, Watched
  <2>3. Elsewhere(fd) /\ fd \in Watched' /\ interest'[fd] = {"read"}
    BY <2>1, <2>2, AddWatches
  <2>4. st2[c] = NewStream(fd) /\ \A e \in Clients : e # c => st2[e] = stream[e]
    BY <1>1, <2>1
  <2> HIDE DEF st2
  <2>5. /\ NewStream(fd).life = "open" /\ NewStream(fd).socket = fd
        /\ NewStream(fd).response = None /\ NewStream(fd).keepAlive = TRUE
    BY DEF NewStream, NoStream
  <2>6. /\ \A x : x # fd => WatchIn(in2, x) = WatchIn(interest, x)
        /\ \A x \in DOMAIN in2 : x # fd => x \in DOMAIN interest
        /\ WatchIn(in2, fd) = {"read"}
    BY <2>3 DEF Elsewhere, WatchIn, Watched
  <2> HIDE DEF in2
  <2>7. \A d, e \in Clients :
          (st2[d].life = "open" /\ st2[e].life = "open" /\ d # e) => st2[d].socket # st2[e].socket
    BY <1>1, <1>2, <2>4, <2>5 DEF Served
  <2>8. \A x \in DOMAIN in2 : \E e \in Clients : st2[e].life = "open" /\ st2[e].socket = x
    <3> SUFFICES ASSUME NEW x \in DOMAIN in2
                 PROVE  \E e \in Clients : st2[e].life = "open" /\ st2[e].socket = x
      OBVIOUS
    <3>1. CASE x = fd
      BY <2>4, <2>5, <3>1
    <3>2. CASE x # fd
      <4>1. PICK e \in Clients : stream[e].life = "open" /\ stream[e].socket = x
        BY <1>2, <2>6, <3>2 DEF Served
      <4>2. QED
        BY <1>1, <2>4, <4>1
    <3>3. QED
      BY <3>1, <3>2
  <2>9. \A e \in Clients : st2[e].life = "open" => Suits(WatchIn(in2, st2[e].socket), st2[e])
    <3> SUFFICES ASSUME NEW e \in Clients, st2[e].life = "open"
                 PROVE  Suits(WatchIn(in2, st2[e].socket), st2[e])
      OBVIOUS
    <3>1. CASE e = c
      BY <2>4, <2>5, <2>6, <3>1 DEF Suits
    <3>2. CASE e # c
      BY <1>1, <1>2, <2>4, <2>6, <3>2 DEF Served
    <3>3. QED
      BY <3>1, <3>2
  <2>10. \A e \in Clients : GivesUp(st2[e], response, Observed' \ Watched')
    <3> SUFFICES ASSUME NEW e \in Clients
                 PROVE  GivesUp(st2[e], response, Observed' \ Watched')
      OBVIOUS
    <3>1. CASE e = c
      BY <2>4, <2>5, <3>1 DEF GivesUp
    <3>2. CASE e # c
      <4>1. st2[e] = stream[e] /\ GivesUp(stream[e], response, Observed \ Watched)
        BY <1>2, <2>4, <3>2
      <4>2. stream[e].socket \in Observed \ Watched => stream[e].socket \in Observed' \ Watched'
        BY <1>1, <2>3 DEF Elsewhere
      <4>3. QED
        BY <4>1, <4>2 DEF GivesUp
    <3>3. QED
      BY <3>1, <3>2
  <2>11. Served(st2, in2)
    BY <2>7, <2>8, <2>9 DEF Served
  <2>12. QED
    BY <1>1, <2>10, <2>11 DEF ServedInv, st2, in2
<1>4. CASE AcceptFails(c, fd)
  <2>1. AddHandleFails(fd) /\ st2 = Destroyed(stream, c)
    BY <1>4 DEF AcceptFails
  <2>2. Elsewhere(fd) /\ interest' = interest
    BY <2>1, AddFailsWatches
  <2>3. /\ st2[c].life = "closed" /\ st2[c].response = None
        /\ \A e \in Clients : e # c => st2[e] = stream[e]
    BY <1>1, <2>1 DEF Destroyed, Streams
  <2> HIDE DEF st2
  <2>4. Served(st2, interest)
    <3>1. \A e \in Clients : st2[e].life = "open" <=> stream[e].life = "open" /\ e # c
      BY <1>1, <2>3
    <3>2. \A x \in DOMAIN interest : \E e \in Clients : st2[e].life = "open" /\ st2[e].socket = x
      BY <1>1, <1>2, <2>3 DEF Served
    <3>3. QED
      BY <1>2, <2>3, <3>1, <3>2 DEF Served
  <2>5. \A e \in Clients : GivesUp(st2[e], response, Observed' \ Watched')
    <3> SUFFICES ASSUME NEW e \in Clients
                 PROVE  GivesUp(st2[e], response, Observed' \ Watched')
      OBVIOUS
    <3>1. CASE e = c
      BY <2>3, <3>1 DEF GivesUp
    <3>2. CASE e # c
      <4>1. st2[e] = stream[e] /\ GivesUp(stream[e], response, Observed \ Watched)
        BY <1>2, <2>3, <3>2
      <4>2. stream[e].socket \in Observed \ Watched => stream[e].socket \in Observed' \ Watched'
        BY <1>1, <2>2 DEF Elsewhere
      <4>3. QED
        BY <4>1, <4>2 DEF GivesUp
    <3>3. QED
      BY <3>1, <3>2
  <2>6. QED
    BY <1>1, <2>2, <2>4, <2>5 DEF ServedInv, st2
<1>5. QED
  BY <1>3, <1>4

\* A stream goes on reading, or stops with the last request.
LEMMA RecvServed ==
  ASSUME HandleInv, StreamInv, ServedInv, NEW c \in Clients, Recv(c)
  PROVE  ServedInv'
<1> DEFINE fd == stream[c].socket
           w == WatchIn(interest, fd)
           s2 == stream'[c]
<1>1. /\ stream \in [Clients -> Streams] /\ stream[c] \in Streams
      /\ \A e \in Clients : stream[e].response # None =>
           /\ stream[e].life = "open" /\ stream[e].response \in Responses
           /\ response[stream[e].response].client = e
      /\ response \in [Responses -> Answers]
  BY DEF StreamInv, StreamsFit, AnswersFit, Streams
<1>2. "read" \in Watching(c)
  BY DEF Recv, RecvNothing, RecvHead, RecvIllegal, RecvBody, RecvRequest
<1>3. /\ stream[c].life = "open" /\ fd \in Watched /\ w = interest[fd] /\ "read" \in w
      /\ w = interest[fd] /\ w \subseteq Dir
  BY <1>2 DEF Watching, Open, WatchIn, Watched, HandleInv, HandleTypeOK, Masks
<1>4. Served(stream, interest) /\ \A e \in Clients : GivesUp(stream[e], response, Observed \ Watched)
  BY DEF ServedInv
<1>5. Suits(w, stream[c]) /\ stream[c].keepAlive
  BY <1>3, <1>4 DEF Served, Suits
<1>6. Alone(c, stream, response)
  <2>1. \A e \in Clients : e # c => stream'[e] = stream[e]
    <3>1. \/ stream' = Destroyed(stream, c)
          \/ \E q : stream' = [stream EXCEPT ![c].request = q]
          \/ \E q, k : stream' = [stream EXCEPT ![c].request = q, ![c].keepAlive = k]
      BY DEF Recv, RecvNothing, RecvHead, RecvIllegal, RecvBody, RecvRequest
    <3>2. QED
      BY <1>1, <3>1 DEF Destroyed
  <2>2. \A q \in Responses : response[q].client # None => response'[q] = response[q]
    <3>1. response' = response \/ \E r \in Responses :
            response[r].state = "none" /\ response' = [response EXCEPT ![r] = NewResponse(c)]
      BY DEF Recv, RecvNothing, RecvHead, RecvIllegal, RecvBody, RecvRequest
    <3>2. QED
      BY <1>1, <3>1 DEF StreamInv, AnswersFit
  <2>3. QED
    BY <1>1, <2>1, <2>2, HttpAssumption DEF Alone
<1>7. ASSUME Elsewhere(fd),
             \/ s2.life # "open" /\ s2.response = None /\ fd \notin Watched'
             \/ /\ s2.life = "open" /\ s2.socket = fd
                /\ Suits(WatchIn(interest', fd), s2)
                /\ GivesUp(s2, response', Observed' \ Watched')
      PROVE  ServedInv'
  <2>1. \A e \in Clients : e # c => GivesUp(stream[e], response, Observed \ Watched)
    BY <1>4
  <2>2. \A e \in Clients : stream[e].response # None => stream[e].life = "open"
    BY <1>1
  <2>3. stream \in [Clients -> Streams] /\ stream[c].life = "open" /\ Served(stream, interest)
    BY <1>1, <1>3, <1>4
  <2>4. QED
    BY <1>6, <1>7, <2>1, <2>2, <2>3, OneGoesOn
<1>8. ASSUME Watched' = Watched \/ stream[c].isOnOutLoop \/ fd \notin Observed \ Watched,
             Observed' = Observed \/ fd \notin Observed \ Watched,
             s2.response = stream[c].response, s2.isOnOutLoop = stream[c].isOnOutLoop,
             s2.socket = fd
      PROVE  GivesUp(s2, response', Observed' \ Watched')
  <2>1. stream[c].response # None => response'[stream[c].response] = response[stream[c].response]
    <3>1. response' = response \/ \E r \in Responses :
            response[r].state = "none" /\ response' = [response EXCEPT ![r] = NewResponse(c)]
      BY DEF Recv, RecvNothing, RecvHead, RecvIllegal, RecvBody, RecvRequest
    <3>2. QED
      BY <1>1, <3>1, HttpAssumption DEF StreamInv, AnswersFit
  <2>2. GivesUp(stream[c], response, Observed \ Watched)
    BY <1>4
  <2>3. QED
    BY <1>3, <1>8, <2>1, <2>2 DEF GivesUp, Finished
<1> HIDE DEF fd, w
<1>9. CASE RecvNothing(c)
  <2>1. RemoveHandle(fd, Dir) /\ stream' = Destroyed(stream, c)
    BY <1>9 DEF RecvNothing, Dir, fd
  <2>2. s2.life # "open" /\ s2.response = None
    BY <1>1, <2>1 DEF Destroyed, Streams
  <2>3. Elsewhere(fd) /\ fd \notin Watched'
    BY <1>3, <2>1, RemoveWatches
  <2>4. QED
    BY <1>7, <2>2, <2>3
<1>10. ASSUME UNCHANGED handleVars, s2.life = "open", s2.socket = fd, s2.keepAlive = TRUE,
              s2.response = stream[c].response, s2.isOnOutLoop = stream[c].isOnOutLoop
       PROVE  ServedInv'
  <2>1. Elsewhere(fd) /\ interest' = interest /\ Observed' = Observed /\ Watched' = Watched
    BY <1>10, SameWatches DEF handleVars, Observed, Watched
  <2>2. Suits(WatchIn(interest', fd), s2)
    BY <1>5, <1>10, <2>1 DEF Suits, w
  <2>3. GivesUp(s2, response', Observed' \ Watched')
    BY <1>8, <1>10, <2>1
  <2>4. QED
    BY <1>7, <1>10, <2>1, <2>2, <2>3
<1>11. CASE RecvHead(c) \/ RecvIllegal(c) \/ \E r \in Responses : RecvBody(c, r)
  <2>1. UNCHANGED handleVars /\ \E q : stream' = [stream EXCEPT ![c].request = q]
    BY <1>11 DEF RecvHead, RecvIllegal, RecvBody
  <2>2. /\ s2.life = "open" /\ s2.socket = fd /\ s2.keepAlive = TRUE
        /\ s2.response = stream[c].response /\ s2.isOnOutLoop = stream[c].isOnOutLoop
    BY <1>1, <1>3, <1>5, <2>1 DEF Streams, fd
  <2>3. QED
    BY <1>10, <2>1, <2>2
<1>12. ASSUME NEW r \in Responses, NEW keep \in BOOLEAN, RecvRequest(c, r, keep)
       PROVE  ServedInv'
  <2>1. stream' = [stream EXCEPT ![c].request = "none", ![c].keepAlive = keep]
        /\ IF keep THEN UNCHANGED handleVars ELSE RemoveHandle(fd, {"read"})
    BY <1>12 DEF RecvRequest, fd
  <2>2. /\ s2.life = "open" /\ s2.socket = fd /\ s2.keepAlive = keep
        /\ s2.response = stream[c].response /\ s2.isOnOutLoop = stream[c].isOnOutLoop
    BY <1>1, <1>3, <2>1 DEF Streams, fd
  <2>3. CASE keep
    BY <1>10, <2>1, <2>2, <2>3
  <2>4. CASE ~keep
    <3>1. Elsewhere(fd) /\ WatchIn(interest', fd) = w \ {"read"}
      BY <1>3, <2>1, <2>4, RemoveWatches
    <3>2. Suits(WatchIn(interest', fd), s2)
      BY <1>5, <2>2, <2>4, <3>1 DEF Suits
    <3>3. GivesUp(s2, response', Observed' \ Watched')
      BY <1>3, <1>8, <2>2
    <3>4. QED
      BY <1>7, <2>2, <3>1, <3>2, <3>3
  <2>5. QED
    BY <2>3, <2>4
<1>13. QED
  BY <1>9, <1>11, <1>12 DEF Recv

\* The program adds text: the response may be sent at once.
LEMMA AnswerServed ==
  ASSUME HandleInv, StreamInv, ServedInv, NEW r \in Responses,
         response[r].state \in {"zero", "written"},
         NEW n \in 0..1, response[r].made + n <= MaxPieces, NEW state \in {"written", "done"},
         AddResponse(response[r].client, r, Filled(r, n, state))
  PROVE  ServedInv'
<1> DEFINE c == response[r].client
           rs == Filled(r, n, state)
           st == Registered(c, r)
<1>1. /\ c \in Clients /\ StreamsFit(stream, rs) /\ AnswersFit(rs)
      /\ Open(c) => /\ StreamsFit(st, rs) /\ st[c].life = "open"
                    /\ st[c].response \in Responses
  BY FilledFits
<1>2. /\ stream \in [Clients -> Streams] /\ response \in [Responses -> Answers] /\ r # None
  BY HttpAssumption DEF StreamInv, StreamsFit, AnswersFit
<1>3. Served(stream, interest) /\ \A e \in Clients : GivesUp(stream[e], response, Observed \ Watched)
  BY DEF ServedInv
<1>4. \A e \in Clients : e # c => GivesUp(stream[e], rs, Observed \ Watched)
  <2> SUFFICES ASSUME NEW e \in Clients, e # c
               PROVE  GivesUp(stream[e], rs, Observed \ Watched)
    OBVIOUS
  <2>1. stream[e].response # None => stream[e].response \in Responses /\ stream[e].response # r
    BY DEF StreamInv, StreamsFit, Streams
  <2>2. \A q \in Responses : q # r => rs[q] = response[q]
    BY <1>2 DEF Filled
  <2>3. QED
    BY <1>3, <2>1, <2>2 DEF GivesUp, Finished
<1>5. /\ \A e \in Clients : e # c => st[e] = stream[e]
      /\ st[c] = IF stream[c].response = None THEN [stream[c] EXCEPT !.response = r] ELSE stream[c]
  BY <1>1, <1>2 DEF Registered
<1>6. /\ st[c].life = stream[c].life /\ st[c].socket = stream[c].socket
      /\ st[c].keepAlive = stream[c].keepAlive /\ st[c].isOnOutLoop = stream[c].isOnOutLoop
      /\ stream[c].response # None => st[c].response # None
  <2>1. stream[c] \in Streams
    BY <1>1, <1>2
  <2>2. QED
    BY <1>5, <2>1 DEF Streams
<1> HIDE DEF st, rs, c
<1>7. Served(st, interest)
  <2>1. \A e \in Clients : st[e].life = stream[e].life /\ st[e].socket = stream[e].socket
    BY <1>1, <1>5, <1>6
  <2>2. \A e \in Clients : \A w : Suits(w, stream[e]) => Suits(w, st[e])
    <3> SUFFICES ASSUME NEW e \in Clients, NEW w, Suits(w, stream[e]) PROVE Suits(w, st[e])
      OBVIOUS
    <3>1. CASE e = c
      BY <1>6, <3>1 DEF Suits
    <3>2. CASE e # c
      BY <1>5, <3>2
    <3>3. QED
      BY <3>1, <3>2
  <2>3. ASSUME NEW e \in Clients, st[e].life = "open"
        PROVE  Suits(WatchIn(interest, st[e].socket), st[e])
    <3>1. Suits(WatchIn(interest, stream[e].socket), stream[e])
      BY <1>3, <2>1, <2>3 DEF Served
    <3>2. QED
      BY <2>1, <2>2, <3>1
  <2>4. QED
    BY <1>3, <2>1, <2>3 DEF Served
<1>8. CASE ~Open(c)
  <2>1. response' = rs /\ UNCHANGED <<handleVars, stream>>
    BY <1>8 DEF AddResponse, rs, c
  <2>2. stream[c].response = None
    BY <1>1, <1>8 DEF StreamInv, StreamsFit, Open
  <2>3. \A e \in Clients : GivesUp(stream[e], rs, Observed \ Watched)
    BY <1>4, <2>2 DEF GivesUp
  <2>4. QED
    BY <1>3, <2>1, <2>3 DEF ServedInv, handleVars, Observed, Watched
<1>9. CASE Open(c) /\ st[c].isOnOutLoop
  <2>1. stream' = st /\ response' = rs /\ UNCHANGED handleVars
    BY <1>9 DEF AddResponse, rs, c, st
  <2>2. \A e \in Clients : GivesUp(st[e], rs, Observed \ Watched)
    BY <1>4, <1>5, <1>9 DEF GivesUp
  <2>3. QED
    BY <1>7, <2>1, <2>2 DEF ServedInv, handleVars, Observed, Watched
<1>10. CASE Open(c) /\ ~st[c].isOnOutLoop
  <2>1. Respond(c, st[c].response, st, rs)
    BY <1>10 DEF AddResponse, rs, c, st
  <2>2. \A e \in Clients : e # c => GivesUp(st[e], rs, Observed \ Watched)
    BY <1>4, <1>5
  <2>3. QED
    BY <1>1, <1>7, <1>10, <2>1, <2>2, RespondServed
<1>11. QED
  BY <1>8, <1>9, <1>10

LEMMA ServedStep == HandleInv /\ StreamInv /\ ServedInv /\ [Next]_httpVars => ServedInv'
<1> SUFFICES ASSUME HandleInv, StreamInv, ServedInv, [Next]_httpVars PROVE ServedInv'
  OBVIOUS
<1>1. ASSUME NEW c \in Clients, Writable(c)
      PROVE  ServedInv'
  <2>1. stream[c].life = "open" /\ stream[c].response \in Responses
    BY <1>1 DEF Writable, Watching, Open, StreamInv, StreamsFit, Streams
  <2>2. Respond(c, stream[c].response, stream, response)
    BY <1>1 DEF Writable
  <2>3. QED
    BY <2>1, <2>2, RespondServed DEF StreamInv, ServedInv
<1>2. ASSUME NEW r \in Responses, Write(r)
      PROVE  ServedInv'
  <2>1. response[r].made + 1 <= MaxPieces
    BY <1>2, HttpAssumption DEF Write, StreamInv, AnswersFit, Answers
  <2>2. QED
    BY <1>2, <2>1, AnswerServed DEF Write
<1>3. ASSUME NEW r \in Responses, NEW n \in 0..1, Finish(r, n)
      PROVE  ServedInv'
  BY <1>3, AnswerServed DEF Finish
<1>4. CASE UNCHANGED httpVars
  <2>1. UNCHANGED <<stream, response, interest>> /\ Observed' = Observed /\ Watched' = Watched
    BY <1>4 DEF httpVars, handleVars, streamVars, Observed, Watched
  <2>2. QED
    BY <2>1 DEF ServedInv
<1>5. QED
  BY <1>1, <1>2, <1>3, <1>4, AcceptServed, RecvServed DEF Next

LEMMA ServedInit == Init => ServedInv
  BY EmptySeq DEF Init, HandleInit, ServedInv, Served, GivesUp, NoStream, WatchIn

LEMMA ServedInvariant == Spec => [](StreamInv /\ ServedInv)
  BY ServedInit, ServedStep, StreamInvariant, StreamsImplementHandles, HandleInvariant, PTL DEF Spec

\* The loop calls respond only when there is a response to send, and recv as long as the
\* client keeps the stream and no longer (Stream.lua: recv, respond), for any number of
\* clients whose sockets take each other's descriptors, and whatever calls fail.
THEOREM StreamIsWatched == Spec => []LoopWatchesStream
<1>1. StreamInv /\ ServedInv => LoopWatchesStream
  <2> SUFFICES ASSUME StreamInv, ServedInv, NEW c \in Clients, Open(c)
               PROVE  Suits(Watching(c), stream[c])
    BY DEF LoopWatchesStream, WaitsForResponse, ReadsWhileKept, Suits, Watching
  <2>1. Watching(c) = WatchIn(interest, stream[c].socket)
    BY DEF Watching, WatchIn, Watched
  <2>2. QED
    BY <2>1 DEF ServedInv, Served, Open
<1>2. QED
  BY <1>1, ServedInvariant, PTL

\* A finished response that is all sent gives up its place in the stream's table
\* (Stream.lua: respond), unless the loop watches the socket for writing or has refused
\* to, on every stream whose isOnOutLoop tells whether the loop does.
THEOREM StreamReleases == Spec => []DoneIsReleased
<1>1. StreamInv /\ ServedInv => DoneIsReleased
  <2> SUFFICES ASSUME StreamInv, ServedInv, NEW c \in Clients, stream[c].response # None,
                      Finished(response, stream[c].response), FlagTells(c)
               PROVE  "write" \in Watching(c) \/ stream[c].socket \in Observed \ Watched
    BY DEF DoneIsReleased, Finished
  <2>1. stream[c].isOnOutLoop \/ stream[c].socket \in Observed \ Watched
    BY DEF ServedInv, GivesUp
  <2>2. Open(c)
    BY DEF StreamInv, StreamsFit, Streams, Open
  <2>3. QED
    BY <2>1, <2>2 DEF FlagTells
<1>2. QED
  BY <1>1, ServedInvariant, PTL
=============================================================================
