------------------------------- MODULE Sockets -------------------------------
(***************************************************************************)
(* t.Net.Socket for streams: the objects of t_net_sck.c and Socket.lua,    *)
(* each with a descriptor number, and as much of the kernel as they are    *)
(* about: the numbers in use, of which socket() and accept() give out the  *)
(* lowest free one, and the sockets behind them.  A call that fails and    *)
(* changes nothing is left out.                                            *)
(***************************************************************************)
EXTENDS Sequences, Descriptors

CONSTANTS
  Socks,     \* the socket objects of a program
  Ports,     \* the port numbers, without 0
  MaxFiles,  \* bound: the sockets the kernel makes
  MaxData,   \* bound: the bytes in a socket's receive buffer
  NoSock     \* the fd of an object that does not exist

ASSUME SocketAssumption ==
  /\ Fds \subseteq Nat \ {0} /\ Ports \subseteq Nat \ {0}
  /\ NoSock \notin Fds \cup {-1}

VARIABLES
  fd,       \* sck->fd of each object, or NoSock
  made,     \* history: the kernel's socket each object was made for, 0 after close()
  open,     \* kernel: the socket behind each number in use
  file,     \* kernel: the sockets, in the order in which they were made
  lost,     \* history: close() failed
  report    \* history: what the last call returned, or None

sockVars == <<fd, made, open, file, lost, report>>

None == [op |-> "none"]

(***************************************************************************)
(* The kernel.                                                             *)
(***************************************************************************)
Fresh == [st |-> "fresh", port |-> 0, peer |-> 0, queue |-> <<>>, data |-> 0, fin |-> FALSE]
Accepted(peer) == [Fresh EXCEPT !.st = "connected", !.peer = peer]

FreeFds == Fds \ DOMAIN open
LowestFd == CHOOSE n \in FreeFds : \A m \in FreeFds : n <= m
Opened(n) == Put(open, LowestFd, n)

Taken(f, port) == \E n \in DOMAIN f : f[n].port = port
\* The ports that bind() to port may choose; 0 stands for any.
FreePorts(f, port) == {p \in Ports : (port = 0 \/ p = port) /\ ~Taken(f, p)}

CanBind(f, n, port) == f[n].st = "fresh" /\ FreePorts(f, port) # {}
BoundTo(f, n, p)    == [f EXCEPT ![n].st = "bound", ![n].port = p]

\* What listen() makes of the sockets: a fresh one gets a port of its own.
Listens(f, n) ==
  CASE f[n].st = "fresh" -> {[BoundTo(f, n, p) EXCEPT ![n].st = "listening"] : p \in FreePorts(f, 0)}
    [] f[n].st = "bound" -> {[f EXCEPT ![n].st = "listening"]}
    [] OTHER -> {f}

\* The last reference to n is gone: its peer, and those it did not accept, get no more data.
Gone(n) ==
  [m \in DOMAIN file |->
    IF m = n THEN [Fresh EXCEPT !.st = "closed"]
    ELSE IF file[m].peer = n \/ \E i \in DOMAIN file[n].queue : file[m].peer = file[n].queue[i]
    THEN [file[m] EXCEPT !.fin = TRUE] ELSE file[m]]

(***************************************************************************)
(* The calls.                                                              *)
(***************************************************************************)
SockInit ==
  /\ fd = [s \in Socks |-> NoSock] /\ made = [s \in Socks |-> 0]
  /\ open = <<>> /\ file = <<>> /\ lost = FALSE /\ report = None

Exists(s) == fd[s] # NoSock
IsOpen(s) == fd[s] \in DOMAIN open
FileOf(s) == open[fd[s]]

\* An object gets the number of a new socket, and the kernel's sockets become f.
Gets(s, n, f) ==
  /\ FreeFds # {}
  /\ fd' = [fd EXCEPT ![s] = LowestFd]
  /\ made' = [made EXCEPT ![s] = n]
  /\ open' = Opened(n)
  /\ file' = f
  /\ UNCHANGED lost

Changes(f) == file' = f /\ UNCHANGED <<fd, made, open, lost>>

\* Socket(): when socket() fails the program gets a message instead of an object.
New(s) ==
  /\ ~Exists(s) /\ Len(file) < MaxFiles
  /\ Gets(s, Len(file) + 1, Append(file, Fresh))
  /\ report' = None

\* sck:bind(port)
Bind(s, port) ==
  /\ IsOpen(s) /\ CanBind(file, FileOf(s), port)
  /\ \E p \in FreePorts(file, port) : Changes(BoundTo(file, FileOf(s), p))
  /\ report' = None

Listening(s, port, sure) == [op |-> "listen", sock |-> s, port |-> port, sure |-> sure]

\* Mutant: the result of bind() is not looked at.
SocketListenAnyway(s, port) ==
  LET n == Len(file) + 1
      f == Append(file, Fresh)
  IN  /\ ~Exists(s) /\ n <= MaxFiles
      /\ \E g \in IF CanBind(f, n, port) THEN {BoundTo(f, n, p) : p \in FreePorts(f, port)} ELSE {f} :
         \E h \in Listens(g, n) :
           /\ Gets(s, n, h)
           /\ report' = Listening(s, IF port = 0 THEN h[n].port ELSE port, TRUE)

\* Socket.listen(port): a new socket; when it cannot be bound, the program gets nil and
\* the object waits to be collected.  The result of listen() is not looked at.
SocketListen(s, port) ==
  LET n == Len(file) + 1
      f == Append(file, Fresh)
  IN  /\ ~Exists(s) /\ n <= MaxFiles
      /\ \/ /\ CanBind(f, n, port)
            /\ \E p \in FreePorts(f, port) : \E h \in Listens(BoundTo(f, n, p), n) :
                 /\ Gets(s, n, h)
                 /\ report' = Listening(s, IF port = 0 THEN h[n].port ELSE port, TRUE)
         \/ ~CanBind(f, n, port) /\ Gets(s, n, f) /\ report' = None

\* sck:listen(port): neither the result of bind() nor that of listen() is looked at.
SckListen(s, port) ==
  /\ IsOpen(s)
  /\ LET n == FileOf(s)
         binds == CanBind(file, n, port)
     IN \E g \in IF binds THEN {BoundTo(file, n, p) : p \in FreePorts(file, port)} ELSE {file} :
        \E h \in Listens(g, n) :
          /\ Changes(h)
          /\ report' = Listening(s, IF port = 0 THEN h[n].port ELSE port, binds)

\* sck:listen(): the address is the one that the socket has.
SckListenBound(s) ==
  /\ IsOpen(s)
  /\ \E h \in Listens(file, FileOf(s)) :
       /\ Changes(h)
       /\ report' = Listening(s, h[FileOf(s)].port, h[FileOf(s)].st = "listening")

\* sck:connect(adr): the server's socket is made when the connection is.
Connect(s, srv) ==
  /\ IsOpen(s) /\ file[FileOf(s)].st \in {"fresh", "bound"}
  /\ srv \in DOMAIN file /\ file[srv].st = "listening" /\ Len(file) < MaxFiles
  /\ LET n == Len(file) + 1
     IN  Changes(Append([file EXCEPT ![FileOf(s)].st = "connected", ![FileOf(s)].peer = n,
                                     ![srv].queue = Append(@, n)], Accepted(FileOf(s))))
  /\ report' = None

\* srv:accept(): when it fails, the object gets the number -1 and is lost at once.
Accept(srv, s) ==
  /\ IsOpen(srv) /\ ~Exists(s)
  /\ file[FileOf(srv)].queue # <<>>
  /\ Gets(s, Head(file[FileOf(srv)].queue), [file EXCEPT ![FileOf(srv)].queue = Tail(@)])
  /\ report' = None

Least(m, n) == IF m < n THEN m ELSE n

\* sck:send(msg, max): the kernel takes some of the bytes, for a peer that can read them.
Send(s, len, max) ==
  /\ IsOpen(s) /\ file[FileOf(s)].peer \in DOMAIN file
  /\ LET peer == file[FileOf(s)].peer
     IN  /\ file[peer].st = "connected" /\ ~file[peer].fin
         /\ \E n \in 0..Least(max, len) :
              /\ file[peer].data + n <= MaxData
              /\ Changes([file EXCEPT ![peer].data = @ + n])
  /\ report' = None

\* recvfrom(): the bytes there are, 0 after the last of a connection that ended, -1 else.
Received(n, max) ==
  IF file[n].data > 0 THEN Least(file[n].data, max) ELSE IF file[n].fin \/ max = 0 THEN 0 ELSE -1

\* Mutant: whatever is less than a byte is nothing.
RecvReturnsNothing(n) == IF n < 1 THEN "nothing" ELSE "data"
\* nil or false and 0, the data, or false and a message.
RecvReturns(n) == IF n = 0 THEN "nothing" ELSE IF n = -1 THEN "error" ELSE "data"

\* sck:recv(max), sck:recv(buf, max)
Recv(s, max) ==
  /\ IsOpen(s) /\ file[FileOf(s)].st = "connected"
  /\ LET n == Received(FileOf(s), max)
     IN  /\ Changes([file EXCEPT ![FileOf(s)].data = IF n > 0 THEN @ - n ELSE @])
         /\ report' = [op |-> RecvReturns(n), sock |-> s, max |-> max]

\* sck:shutdown(): no more is received, or no more sent.
Shutdown(s) ==
  /\ IsOpen(s) /\ file[FileOf(s)].st = "connected"
  /\ \E n \in {FileOf(s), file[FileOf(s)].peer} \cap DOMAIN file : Changes([file EXCEPT ![n].fin = TRUE])
  /\ report' = None

\* Mutant: the object keeps its number.
ClosedKeeps(s) == [fd EXCEPT ![s] = @]
\* p_net_sck_close: the object forgets its number ...
Closed(s) == [fd EXCEPT ![s] = -1]

\* close(): the number is free again, also when an error is reported.
KernelCloses(k) ==
  /\ k \in DOMAIN open
  /\ open' = Drop(open, {k})
  /\ file' = Gone(open[k])

CloseSck(s) ==
  /\ KernelCloses(fd[s])
  /\ fd' = Closed(s)
  /\ made' = [made EXCEPT ![s] = 0]
  /\ report' = None /\ UNCHANGED lost

\* ... unless close() reports an error.
CloseSckFails(s) ==
  /\ KernelCloses(fd[s])
  /\ lost' = TRUE
  /\ report' = None /\ UNCHANGED <<fd, made>>

\* __gc of an object that nobody uses any more closes it once more.
CollectClosed(s) ==
  /\ Exists(s) /\ ~IsOpen(s)
  /\ fd' = [fd EXCEPT ![s] = NoSock] /\ made' = [made EXCEPT ![s] = 0]
  /\ report' = None /\ UNCHANGED <<open, file, lost>>
CollectOpen(s) ==
  /\ KernelCloses(fd[s])
  /\ fd' = [fd EXCEPT ![s] = NoSock] /\ made' = [made EXCEPT ![s] = 0]
  /\ report' = None /\ UNCHANGED lost

\* The calls that close no descriptor.
SockCall(s) ==
  \/ New(s)
  \/ \E port \in Ports \cup {0} : Bind(s, port) \/ SocketListen(s, port) \/ SckListen(s, port)
  \/ SckListenBound(s)
  \/ \E srv \in DOMAIN file : Connect(s, srv)
  \/ \E srv \in Socks : Accept(srv, s)
  \/ \E len, max \in 0..MaxData : Send(s, len, max)
  \/ \E max \in 0..MaxData : Recv(s, max)
  \/ Shutdown(s)
  \/ CollectClosed(s)

(***************************************************************************)
(* Properties.                                                             *)
(***************************************************************************)

\* The number in an object is that of the socket it was made for, as long as it has one:
\* no call on it, no second close() and no __gc reaches a socket that got the number
\* later.  (p_net_sck_unx.c:61 keeps the number when close() reports an error; the kernel
\* has released it by then, so that the promise ends there.)
OwnsItsFile ==
  ~lost => \A s \in Socks :
    IF made[s] = 0 THEN fd[s] \in {NoSock, -1} ELSE IsOpen(s) /\ FileOf(s) = made[s]

\* The address that Socket.listen() and sck:listen() return is the one that the socket
\* listens on, also where the system chose the port (Socket.lua:76-101); for sck:listen()
\* provided that bind() and listen() worked, which it does not look at.
AddressIsTrue ==
  report.op = "listen" /\ report.sure =>
    file[FileOf(report.sock)].st = "listening" /\ file[FileOf(report.sock)].port = report.port

\* recv() returns nothing, and no error, only when nothing will ever come; a program
\* that asks for no bytes, with 0 or an empty segment, gets the same answer.
NothingMeansEnd ==
  report.op = "nothing" /\ report.max > 0 =>
    file[FileOf(report.sock)].fin /\ file[FileOf(report.sock)].data = 0
===============================================================================
