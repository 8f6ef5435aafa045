----------------------------- MODULE SocketsProofs -----------------------------
(***************************************************************************)
(* Theorems on Sockets and SocketLoop: for any number of objects, numbers, *)
(* ports and sockets of the kernel, with or without a loop, an object's    *)
(* number is that of its own socket, an address that is returned is true,  *)
(* and recv() tells an end from a pause.                                   *)
(*                                                                         *)
(* OwnsItsFile is not inductive: one must know as well that no two objects *)
(* have the same number, which needs that LowestFd is a free one.          *)
(*                                                                         *)
(* That an event reaches its own socket is about the whole batch: an event *)
(* that still waits is for a socket that has kept its number or is closed, *)
(* whatever the callbacks before it did (ReachInv).                        *)
(***************************************************************************)
EXTENDS SocketLoop, DescriptorsProofs, FiniteSetTheorems, WellFoundedInduction, TLAPS

\* A socket of the kernel, of which the connections that wait are among the first k.
Files(k) == [st : {"fresh", "bound", "listening", "connected", "closed"}, port : Nat, peer : Nat,
             queue : Seq(1..k), data : Nat, fin : BOOLEAN]

SockFits ==
  /\ fd \in [Socks -> Fds \cup {-1, NoSock}] /\ made \in [Socks -> Nat]
  /\ DOMAIN open \subseteq Fds /\ \A k \in DOMAIN open : open[k] \in DOMAIN file
  /\ file \in Seq(Files(Len(file)))

Owned ==
  ~lost => \A s \in Socks :
    /\ IF made[s] = 0 THEN fd[s] \in {NoSock, -1} ELSE IsOpen(s) /\ FileOf(s) = made[s]
    /\ \A r \in Socks : s # r /\ made[s] # 0 /\ made[r] # 0 => fd[s] # fd[r]

SockInv == SockFits /\ Owned

-----------------------------------------------------------------------------
(***************************************************************************)
(* The kernel.                                                             *)
(***************************************************************************)

\* A finite set of numbers has a smallest element.
LEMMA HasLeast ==
  ASSUME NEW B, B \subseteq Nat, B # {}, IsFiniteSet(B)
  PROVE  \E n \in B : \A m \in B : n <= m
<1> DEFINE Below(n) == {m \in B : m < n}
           T == {Below(n) : n \in B}
<1>1. T # {} /\ T \subseteq FiniteSubsetsOf(B)
  <2>1. \A n \in B : Below(n) \in SUBSET B
    OBVIOUS
  <2>2. \A n \in B : IsFiniteSet(Below(n))
    BY <2>1, FS_Subset
  <2>3. QED
    BY <2>1, <2>2 DEF FiniteSubsetsOf
<1>2. PICK x \in T : \A y \in T : ~ (<<y, x>> \in StrictSubsetOrdering(B))
  BY <1>1, FS_StrictSubsetOrderingWellFounded, WFMin
<1>3. PICK n \in B : x = Below(n)
  OBVIOUS
<1>4. \A m \in B : n <= m
  <2> SUFFICES ASSUME NEW m \in B, m < n PROVE FALSE
    OBVIOUS
  <2>1. Below(m) \subseteq Below(n) /\ m \in Below(n) /\ m \notin Below(m)
    <3>1. B \subseteq Int /\ m \in Int /\ n \in Int
      OBVIOUS
    <3>2. \A k \in Int : k < m => k < n
      BY <3>1
    <3>3. ~(m < m)
      BY <3>1
    <3>4. QED
      BY <3>1, <3>2, <3>3
  <2>2. <<Below(m), Below(n)>> \in StrictSubsetOrdering(B)
    BY <2>1 DEF StrictSubsetOrdering
  <2>3. QED
    BY <1>2, <1>3, <2>2
<1>5. QED
  BY <1>4

\* The number that is given out is a free one.
LEMMA LowestIsFree ==
  ASSUME FreeFds # {}
  PROVE  LowestFd \in Fds /\ LowestFd \notin DOMAIN open
<1>1. FreeFds \subseteq Nat /\ IsFiniteSet(FreeFds)
  <2>1. FreeFds \subseteq Fds
    BY DEF FreeFds
  <2>2. QED
    BY <2>1, SocketAssumption, FdsAssumption, FS_Subset
<1>2. \E n \in FreeFds : \A m \in FreeFds : n <= m
  BY <1>1, HasLeast
<1>3. LowestFd \in FreeFds
  BY <1>2 DEF LowestFd
<1>4. QED
  BY <1>3 DEF FreeFds

LEMMA FilesExcept ==
  ASSUME NEW k \in Nat, NEW r \in Files(k)
  PROVE  /\ \A x \in {"fresh", "bound", "listening", "connected", "closed"} :
              [r EXCEPT !.st = x] \in Files(k)
         /\ \A p \in Nat : [r EXCEPT !.port = p] \in Files(k) /\ [r EXCEPT !.peer = p] \in Files(k)
         /\ \A q \in Seq(1..k) : [r EXCEPT !.queue = q] \in Files(k)
         /\ \A n \in Nat : [r EXCEPT !.data = n] \in Files(k)
         /\ \A b \in BOOLEAN : [r EXCEPT !.fin = b] \in Files(k)
<1>1. ASSUME NEW x \in {"fresh", "bound", "listening", "connected", "closed"}
      PROVE  [r EXCEPT !.st = x] \in Files(k)
  BY DEF Files
<1>2. ASSUME NEW p \in Nat PROVE [r EXCEPT !.port = p] \in Files(k) /\ [r EXCEPT !.peer = p] \in Files(k)
  BY DEF Files
<1>3. ASSUME NEW q \in Seq(1..k) PROVE [r EXCEPT !.queue = q] \in Files(k)
  BY DEF Files
<1>4. ASSUME NEW n \in Nat PROVE [r EXCEPT !.data = n] \in Files(k)
  BY DEF Files
<1>5. ASSUME NEW b \in BOOLEAN PROVE [r EXCEPT !.fin = b] \in Files(k)
  BY DEF Files
<1>6. QED
  BY <1>1, <1>2, <1>3, <1>4, <1>5

LEMMA FreshFits ==
  ASSUME NEW k \in Nat
  PROVE
  /\ Fresh \in Files(k) /\ [Fresh EXCEPT !.st = "closed"] \in Files(k)
  /\ \A n \in Nat : Accepted(n) \in Files(k)
<1>1. Fresh \in Files(k)
  BY DEF Fresh, Files
<1>2. [Fresh EXCEPT !.st = "closed"] \in Files(k)
  BY <1>1, FilesExcept
<1>3. ASSUME NEW n \in Nat PROVE Accepted(n) \in Files(k)
  <2>1. Accepted(n) = [[Fresh EXCEPT !.st = "connected"] EXCEPT !.peer = n]
    BY DEF Accepted
  <2>2. [Fresh EXCEPT !.st = "connected"] \in Files(k)
    BY <1>1, FilesExcept
  <2>3. [[Fresh EXCEPT !.st = "connected"] EXCEPT !.peer = n] \in Files(k)
    BY <2>2, FilesExcept
  <2>4. QED
    BY <2>1, <2>3
<1>4. QED
  BY <1>1, <1>2, <1>3

LEMMA ExceptFits ==
  ASSUME NEW k \in Nat, NEW f \in Seq(Files(k)), NEW n \in DOMAIN f, NEW r \in Files(k)
  PROVE  /\ [f EXCEPT ![n] = r] \in Seq(Files(k))
         /\ DOMAIN [f EXCEPT ![n] = r] = DOMAIN f
         /\ [f EXCEPT ![n] = r][n] = r
  OBVIOUS

\* bind() and listen() on socket n of f.
LEMMA BoundFits ==
  ASSUME NEW k \in Nat, NEW f \in Seq(Files(k)), NEW n \in DOMAIN f, NEW p \in Nat
  PROVE  /\ BoundTo(f, n, p) \in Seq(Files(k)) /\ DOMAIN BoundTo(f, n, p) = DOMAIN f
         /\ BoundTo(f, n, p)[n].st = "bound" /\ BoundTo(f, n, p)[n].port = p
<1> DEFINE r == [[f[n] EXCEPT !.st = "bound"] EXCEPT !.port = p]
<1>1. f[n] \in Files(k)
  OBVIOUS
<1>2. [f[n] EXCEPT !.st = "bound"] \in Files(k)
  BY <1>1, FilesExcept
<1>3. r \in Files(k) /\ r.port = p /\ r.st = "bound"
  BY <1>2, FilesExcept DEF Files
<1>4. BoundTo(f, n, p) = [f EXCEPT ![n] = r]
  BY DEF BoundTo
<1> HIDE DEF r
<1>5. QED
  BY <1>3, <1>4, ExceptFits

LEMMA ListenFits ==
  ASSUME NEW k \in Nat, NEW f \in Seq(Files(k)), NEW n \in DOMAIN f, NEW h \in Listens(f, n)
  PROVE  /\ h \in Seq(Files(k)) /\ DOMAIN h = DOMAIN f
         /\ f[n].st = "bound" => h[n].st = "listening" /\ h[n].port = f[n].port
<1>1. ASSUME NEW g \in Seq(Files(k)), n \in DOMAIN g
      PROVE  LET l == [g EXCEPT ![n].st = "listening"]
             IN  /\ l \in Seq(Files(k)) /\ DOMAIN l = DOMAIN g
                 /\ l[n].st = "listening" /\ l[n].port = g[n].port
  <2> DEFINE r == [g[n] EXCEPT !.st = "listening"]
  <2>1. r \in Files(k) /\ r.st = "listening" /\ r.port = g[n].port
    <3>1. g[n] \in Files(k)
      BY <1>1
    <3>2. r \in Files(k)
      BY <3>1, FilesExcept
    <3>3. QED
      BY <3>1 DEF Files
  <2>2. [g EXCEPT ![n].st = "listening"] = [g EXCEPT ![n] = r]
    OBVIOUS
  <2> HIDE DEF r
  <2>3. [g EXCEPT ![n] = r] \in Seq(Files(k)) /\ DOMAIN [g EXCEPT ![n] = r] = DOMAIN g /\ [g EXCEPT ![n] = r][n] = r
    BY <1>1, <2>1, ExceptFits
  <2>4. QED
    BY <2>1, <2>2, <2>3
<1>2. CASE f[n].st = "fresh"
  <2>1. PICK p \in FreePorts(f, 0) : h = [BoundTo(f, n, p) EXCEPT ![n].st = "listening"]
    BY <1>2 DEF Listens
  <2>2. p \in Nat
    BY SocketAssumption DEF FreePorts
  <2>3. BoundTo(f, n, p) \in Seq(Files(k)) /\ DOMAIN BoundTo(f, n, p) = DOMAIN f
    BY <2>2, BoundFits
  <2>4. QED
    BY <1>1, <1>2, <2>1, <2>3
<1>3. CASE f[n].st = "bound"
  <2>1. h = [f EXCEPT ![n].st = "listening"]
    BY <1>3 DEF Listens
  <2>2. QED
    BY <1>1, <2>1
<1>4. CASE f[n].st \notin {"fresh", "bound"}
  BY <1>4 DEF Listens
<1>5. QED
  BY <1>2, <1>3, <1>4

\* close() of the last reference.
LEMMA GoneFits ==
  ASSUME SockFits, NEW n \in DOMAIN file
  PROVE  Gone(n) \in Seq(Files(Len(file))) /\ Len(Gone(n)) = Len(file)
<1> DEFINE k == Len(file)
<1> DEFINE G(m) == IF m = n THEN [Fresh EXCEPT !.st = "closed"]
                   ELSE IF file[m].peer = n \/ \E i \in DOMAIN file[n].queue : file[m].peer = file[n].queue[i]
                   THEN [file[m] EXCEPT !.fin = TRUE] ELSE file[m]
<1>1. DOMAIN file = 1..Len(file) /\ Len(file) \in Nat
  BY DEF SockFits
<1>2. ASSUME NEW m \in 1..Len(file) PROVE G(m) \in Files(k)
  <2>1. file[m] \in Files(k)
    BY <1>1 DEF SockFits
  <2>2. [file[m] EXCEPT !.fin = TRUE] \in Files(k)
    BY <1>1, <2>1, FilesExcept
  <2>3. QED
    BY <2>1, <2>2, FreshFits
<1>3. Gone(n) = [m \in 1..Len(file) |-> G(m)]
  BY <1>1 DEF Gone
<1> HIDE DEF G
<1>4. QED
  BY <1>1, <1>2, <1>3
-----------------------------------------------------------------------------
(***************************************************************************)
(* The three ways in which a call changes the state.                       *)
(***************************************************************************)

\* A call on the sockets of the kernel alone.
LEMMA ChangesKeep ==
  ASSUME SockInv, NEW f, f \in Seq(Files(Len(f))), Len(file) <= Len(f), Changes(f)
  PROVE  SockInv'
<1>1. DOMAIN file = 1..Len(file) /\ DOMAIN f = 1..Len(f) /\ Len(f) \in Nat /\ Len(file) \in Nat
  BY DEF SockInv, SockFits
<1>2. SockFits'
  BY <1>1 DEF SockInv, SockFits, Changes
<1>3. Owned'
  BY DEF SockInv, Owned, Changes, IsOpen, FileOf
<1>4. QED
  BY <1>2, <1>3 DEF SockInv

\* An object gets a number.
LEMMA GetsKeep ==
  ASSUME SockInv, NEW s \in Socks, ~Exists(s), NEW f, f \in Seq(Files(Len(f))), Len(file) <= Len(f),
         NEW n \in DOMAIN f, Gets(s, n, f)
  PROVE  SockInv'
<1> DEFINE k == LowestFd
<1>1. DOMAIN file = 1..Len(file) /\ DOMAIN f = 1..Len(f) /\ Len(f) \in Nat /\ Len(file) \in Nat
  BY DEF SockInv, SockFits
<1>2. k \in Fds /\ k \notin DOMAIN open
  BY LowestIsFree DEF Gets
<1> HIDE DEF k
<1>3. fd' = [fd EXCEPT ![s] = k] /\ made' = [made EXCEPT ![s] = n] /\ file' = f /\ lost' = lost
      /\ open' = [y \in DOMAIN open \cup {k} |-> IF y = k THEN n ELSE open[y]]
  BY DEF Gets, Opened, Put, k
<1>4. SockFits'
  <2>1. fd' \in [Socks -> Fds \cup {-1, NoSock}] /\ made' \in [Socks -> Nat]
    BY <1>1, <1>2, <1>3 DEF SockInv, SockFits
  <2>2. DOMAIN open' \subseteq Fds /\ \A m \in DOMAIN open' : open'[m] \in DOMAIN file'
    BY <1>1, <1>2, <1>3 DEF SockInv, SockFits
  <2>3. QED
    BY <1>3, <2>1, <2>2 DEF SockFits
<1>5. Owned'
  <2> SUFFICES ASSUME ~lost' , NEW r \in Socks
               PROVE  /\ IF made'[r] = 0 THEN fd'[r] \in {NoSock, -1} ELSE IsOpen(r)' /\ FileOf(r)' = made'[r]
                      /\ \A q \in Socks : r # q /\ made'[r] # 0 /\ made'[q] # 0 => fd'[r] # fd'[q]
    BY DEF Owned
  <2>1. /\ \A q \in Socks \ {s} : fd'[q] = fd[q] /\ made'[q] = made[q]
        /\ fd'[s] = k /\ made'[s] = n
    BY <1>3 DEF SockInv, SockFits
  <2>2. \A q \in Socks \ {s} : made[q] # 0 => fd[q] \in DOMAIN open /\ fd[q] # k
    BY <1>2, <1>3 DEF SockInv, Owned, IsOpen
  <2>3. open'[k] = n /\ k \in DOMAIN open' /\ \A y \in DOMAIN open : y \in DOMAIN open' /\ (y # k => open'[y] = open[y])
    BY <1>2, <1>3
  <2>4. n # 0
    BY <1>1
  <2>5. IF made'[r] = 0 THEN fd'[r] \in {NoSock, -1} ELSE IsOpen(r)' /\ FileOf(r)' = made'[r]
    <3>1. CASE r = s
      BY <2>1, <2>3, <2>4, <3>1 DEF IsOpen, FileOf
    <3>2. CASE r # s
      <4>1. IF made[r] = 0 THEN fd[r] \in {NoSock, -1} ELSE IsOpen(r) /\ FileOf(r) = made[r]
        BY <1>3 DEF SockInv, Owned
      <4>2. QED
        BY <2>1, <2>2, <2>3, <3>2, <4>1 DEF IsOpen, FileOf
    <3>3. QED
      BY <3>1, <3>2
  <2>6. ASSUME NEW q \in Socks, r # q, made'[r] # 0, made'[q] # 0 PROVE fd'[r] # fd'[q]
    <3>1. CASE r = s \/ q = s
      BY <2>1, <2>2, <2>6, <3>1
    <3>2. CASE r # s /\ q # s
      BY <1>3, <2>1, <2>6, <3>2 DEF SockInv, Owned
    <3>3. QED
      BY <3>1, <3>2
  <2>7. QED
    BY <2>5, <2>6
<1>6. QED
  BY <1>4, <1>5 DEF SockInv

\* An object gives its number back, or loses it after it was closed.
LEMMA ClosesKeep ==
  ASSUME SockInv, NEW s \in Socks, NEW x \in {-1, NoSock},
         fd' = [fd EXCEPT ![s] = x], made' = [made EXCEPT ![s] = 0], lost' = lost,
         KernelCloses(fd[s]) \/ (~IsOpen(s) /\ open' = open /\ file' = file)
  PROVE  SockInv'
<1>1. SockFits'
  <2>1. fd' \in [Socks -> Fds \cup {-1, NoSock}] /\ made' \in [Socks -> Nat]
    BY DEF SockInv, SockFits
  <2>2. CASE KernelCloses(fd[s])
    <3>1. open[fd[s]] \in DOMAIN file
      BY <2>2 DEF KernelCloses, SockInv, SockFits
    <3>2. file' \in Seq(Files(Len(file))) /\ Len(file') = Len(file)
      BY <2>2, <3>1, GoneFits DEF KernelCloses, SockInv
    <3>3. DOMAIN file' = DOMAIN file
      BY <3>2 DEF SockInv, SockFits
    <3>4. DOMAIN open' \subseteq DOMAIN open /\ \A m \in DOMAIN open' : open'[m] = open[m]
      BY <2>2 DEF KernelCloses, Drop, Restrict
    <3>5. QED
      BY <2>1, <3>2, <3>3, <3>4 DEF SockInv, SockFits
  <2>3. CASE open' = open /\ file' = file
    BY <2>1, <2>3 DEF SockInv, SockFits
  <2>4. QED
    BY <2>2, <2>3
<1>2. Owned'
  <2> SUFFICES ASSUME ~lost' , NEW r \in Socks
               PROVE  /\ IF made'[r] = 0 THEN fd'[r] \in {NoSock, -1} ELSE IsOpen(r)' /\ FileOf(r)' = made'[r]
                      /\ \A q \in Socks : r # q /\ made'[r] # 0 /\ made'[q] # 0 => fd'[r] # fd'[q]
    BY DEF Owned
  <2>1. /\ \A q \in Socks \ {s} : fd'[q] = fd[q] /\ made'[q] = made[q]
        /\ fd'[s] = x /\ made'[s] = 0
    BY DEF SockInv, SockFits
  <2>2. made[s] = 0 => ~IsOpen(s)
    BY SocketAssumption DEF SockInv, SockFits, Owned, IsOpen
  <2>3. ASSUME NEW q \in Socks \ {s}, made[q] # 0
        PROVE  fd[q] \in DOMAIN open' /\ open'[fd[q]] = open[fd[q]]
    <3>1. IsOpen(q)
      BY <2>3 DEF SockInv, Owned
    <3>2. CASE KernelCloses(fd[s])
      <4>1. made[s] # 0
        BY <2>2, <3>2 DEF KernelCloses, IsOpen
      <4>2. fd[q] # fd[s]
        BY <2>3, <4>1 DEF SockInv, Owned
      <4>3. QED
        BY <3>1, <3>2, <4>2 DEF KernelCloses, Drop, Restrict, IsOpen
    <3>3. CASE open' = open
      BY <3>1, <3>3 DEF IsOpen
    <3>4. QED
      BY <3>2, <3>3
  <2>4. IF made'[r] = 0 THEN fd'[r] \in {NoSock, -1} ELSE IsOpen(r)' /\ FileOf(r)' = made'[r]
    <3>1. CASE r = s
      BY <2>1, <3>1
    <3>2. CASE r # s
      <4>1. IF made[r] = 0 THEN fd[r] \in {NoSock, -1} ELSE IsOpen(r) /\ FileOf(r) = made[r]
        BY DEF SockInv, Owned
      <4>2. QED
        BY <2>1, <2>3, <3>2, <4>1 DEF IsOpen, FileOf
    <3>3. QED
      BY <3>1, <3>2
  <2>5. \A q \in Socks : r # q /\ made'[r] # 0 /\ made'[q] # 0 => fd'[r] # fd'[q]
    BY <2>1 DEF SockInv, Owned
  <2>6. QED
    BY <2>4, <2>5
<1>3. QED
  BY <1>1, <1>2 DEF SockInv
-----------------------------------------------------------------------------
(***************************************************************************)
(* The calls.                                                              *)
(***************************************************************************)
LEMMA SameLength ==
  ASSUME NEW S, NEW f \in Seq(S), NEW g \in Seq(S), DOMAIN f = DOMAIN g
  PROVE  Len(f) = Len(g)
<1>1. DOMAIN f = 1..Len(f) /\ DOMAIN g = 1..Len(g) /\ Len(f) \in Nat /\ Len(g) \in Nat
  OBVIOUS
<1>2. ASSUME NEW a \in Nat, NEW b \in Nat, 1..a = 1..b PROVE a = b
  <2>1. a <= b
    <3>1. a \in 1..a \/ a = 0
      OBVIOUS
    <3>2. QED
      BY <1>2, <3>1
  <2>2. b <= a
    <3>1. b \in 1..b \/ b = 0
      OBVIOUS
    <3>2. QED
      BY <1>2, <3>1
  <2>3. QED
    BY <2>1, <2>2
<1>3. 1..Len(f) = 1..Len(g)
  BY <1>1
<1>4. QED
  BY <1>1, <1>2, <1>3

LEMMA TypeOfFile ==
  ASSUME SockInv
  PROVE  /\ Len(file) \in Nat /\ DOMAIN file = 1..Len(file)
         /\ file \in Seq(Files(Len(file))) /\ \A n \in DOMAIN file : file[n] \in Files(Len(file))
         /\ \A s \in Socks : IsOpen(s) => FileOf(s) \in DOMAIN file
  BY DEF SockInv, SockFits, IsOpen, FileOf

\* One more socket.
LEMMA MoreFiles ==
  ASSUME NEW k \in Nat, NEW f \in Seq(Files(k)), Len(f) = k, NEW r \in Files(k + 1)
  PROVE  /\ Append(f, r) \in Seq(Files(k + 1)) /\ Len(Append(f, r)) = k + 1
         /\ DOMAIN Append(f, r) = 1..(k + 1) /\ Append(f, r)[k + 1] = r
<1>1. Files(k) \subseteq Files(k + 1)
  <2>1. 1..k \subseteq 1..(k + 1)
    OBVIOUS
  <2>2. \A q \in Seq(1..k) : q \in Seq(1..(k + 1))
    BY <2>1
  <2>3. QED
    BY <2>2 DEF Files
<1>2. f \in Seq(Files(k + 1))
  BY <1>1
<1> HIDE DEF Files
<1>3. QED
  BY <1>2

LEMMA NewKeeps ==
  ASSUME SockInv, NEW s \in Socks, New(s)
  PROVE  SockInv' /\ report' = None
<1> DEFINE k == Len(file)
           f == Append(file, Fresh)
<1>1. k \in Nat /\ k + 1 \in Nat /\ file \in Seq(Files(k))
  BY TypeOfFile
<1>2. f \in Seq(Files(k + 1)) /\ Len(f) = k + 1 /\ DOMAIN f = 1..(k + 1)
  BY <1>1, FreshFits, MoreFiles
<1>3. ~Exists(s) /\ Gets(s, k + 1, f) /\ report' = None
  BY DEF New
<1> HIDE DEF k, f
<1>4. Len(file) <= Len(f) /\ k + 1 \in DOMAIN f
  BY <1>1, <1>2 DEF k
<1>5. QED
  BY <1>2, <1>3, <1>4, GetsKeep

LEMMA BindKeeps ==
  ASSUME SockInv, NEW s \in Socks, NEW port \in Ports \cup {0}, Bind(s, port)
  PROVE  SockInv' /\ report' = None
<1> DEFINE n == FileOf(s)
<1>1. PICK p \in FreePorts(file, port) : Changes(BoundTo(file, n, p))
  BY DEF Bind
<1>2. p \in Nat /\ n \in DOMAIN file /\ IsOpen(s)
  BY SocketAssumption, TypeOfFile DEF FreePorts, Bind
<1> HIDE DEF n
<1>3. BoundTo(file, n, p) \in Seq(Files(Len(file))) /\ DOMAIN BoundTo(file, n, p) = DOMAIN file
  <2>1. Len(file) \in Nat /\ file \in Seq(Files(Len(file)))
    BY TypeOfFile
  <2> QED BY ONLY <1>2, <2>1, BoundFits
<1>4. Len(BoundTo(file, n, p)) = Len(file) /\ Len(file) \in Nat
  BY <1>3, TypeOfFile, SameLength
<1>5. SockInv'
  BY <1>1, <1>3, <1>4, ChangesKeep
<1>6. QED
  BY <1>5 DEF Bind

\* The new socket of Socket.listen() has the address that is returned.
LEMMA SocketListenKeeps ==
  ASSUME SockInv, NEW s \in Socks, NEW port \in Ports \cup {0}, SocketListen(s, port)
  PROVE  SockInv' /\ AddressIsTrue' /\ report'.op # "nothing"
<1> DEFINE k == Len(file)
           n == k + 1
           f == Append(file, Fresh)
<1>1. k \in Nat /\ n \in Nat /\ file \in Seq(Files(k))
  BY TypeOfFile
<1>2. f \in Seq(Files(n)) /\ Len(f) = n /\ DOMAIN f = 1..n
  BY <1>1, FreshFits, MoreFiles
<1>3. Len(file) <= Len(f) /\ n \in DOMAIN f /\ Len(file) <= n
  BY <1>1, <1>2
<1>4. ~Exists(s)
  BY DEF SocketListen
<1>5. CASE CanBind(f, n, port) /\
            \E p \in FreePorts(f, port) : \E h \in Listens(BoundTo(f, n, p), n) :
              /\ Gets(s, n, h)
              /\ report' = Listening(s, IF port = 0 THEN h[n].port ELSE port, TRUE)
  <2> HIDE DEF k, n, f
  <2>0. PICK p \in FreePorts(f, port) : \E h \in Listens(BoundTo(f, n, p), n) :
             Gets(s, n, h) /\ report' = Listening(s, IF port = 0 THEN h[n].port ELSE port, TRUE)
    BY <1>5
  <2>1. PICK h \in Listens(BoundTo(f, n, p), n) :
             Gets(s, n, h) /\ report' = Listening(s, IF port = 0 THEN h[n].port ELSE port, TRUE)
    BY <2>0
  <2>2. p \in Nat /\ (port # 0 => p = port)
    BY SocketAssumption DEF FreePorts
  <2> DEFINE g == BoundTo(f, n, p)
  <2>3. g \in Seq(Files(n)) /\ DOMAIN g = DOMAIN f /\ g[n].st = "bound" /\ g[n].port = p
    <3>1. /\ BoundTo(f, n, p) \in Seq(Files(n)) /\ DOMAIN BoundTo(f, n, p) = DOMAIN f
          /\ BoundTo(f, n, p)[n].st = "bound" /\ BoundTo(f, n, p)[n].port = p
      <4>1. n \in Nat /\ f \in Seq(Files(n)) /\ n \in DOMAIN f /\ p \in Nat
        BY <1>1, <1>2, <1>3, <2>2
      <4>2. QED
        BY ONLY <4>1, BoundFits
    <3>2. QED
      BY <3>1
  <2>4. h \in Listens(g, n)
    BY <2>1
  <2> HIDE DEF g
  <2>5. h \in Seq(Files(n)) /\ DOMAIN h = DOMAIN f /\ h[n].st = "listening" /\ h[n].port = p
    <3>1. n \in DOMAIN g
      BY <1>3, <2>3
    <3>2. h \in Seq(Files(n)) /\ DOMAIN h = DOMAIN g
          /\ (g[n].st = "bound" => h[n].st = "listening" /\ h[n].port = g[n].port)
      BY <1>1, <2>3, <2>4, <3>1, ListenFits
    <3>3. QED
      BY <2>3, <3>2
  <2>6. Len(h) = n
    BY <1>2, <2>5, SameLength
  <2>7. SockInv'
    BY <1>3, <1>4, <2>1, <2>5, <2>6, GetsKeep
  <2>8. FileOf(s)' = n /\ file' = h
    <3>1. fd'[s] = LowestFd
      BY <2>1 DEF Gets, SockInv, SockFits
    <3>2. QED
      BY <2>1, <3>1 DEF Gets, Opened, Put, FileOf
  <2>9. AddressIsTrue' /\ report'.op # "nothing"
    BY <2>1, <2>2, <2>5, <2>8 DEF AddressIsTrue, Listening, FileOf
  <2>10. QED
    BY <2>7, <2>9
<1>6. CASE Gets(s, n, f) /\ report' = None
  <2>1. SockInv'
    <3> HIDE DEF k, n, f
    <3>1. QED
      BY <1>2, <1>3, <1>4, <1>6, GetsKeep
  <2>2. QED
    BY <1>6, <2>1 DEF AddressIsTrue, None
<1>7. QED
  BY <1>5, <1>6 DEF SocketListen

\* So has the socket of sck:listen(port), when it could be bound ...
LEMMA SckListenKeeps ==
  ASSUME SockInv, NEW s \in Socks, NEW port \in Ports \cup {0}, SckListen(s, port)
  PROVE  SockInv' /\ AddressIsTrue' /\ report'.op # "nothing"
<1> DEFINE n == FileOf(s)
           k == Len(file)
           binds == CanBind(file, n, port)
<1>1. PICK g \in IF binds THEN {BoundTo(file, n, p) : p \in FreePorts(file, port)} ELSE {file} :
        \E h \in Listens(g, n) :
          Changes(h) /\ report' = Listening(s, IF port = 0 THEN h[n].port ELSE port, binds)
  BY DEF SckListen
<1>2. n \in DOMAIN file /\ k \in Nat /\ file \in Seq(Files(k))
  BY TypeOfFile DEF SckListen
<1> HIDE DEF n, k, binds
<1>3. g \in Seq(Files(k)) /\ DOMAIN g = DOMAIN file
      /\ (binds => g[n].st = "bound" /\ (port # 0 => g[n].port = port))
  <2>1. CASE ~binds
    BY <1>1, <1>2, <2>1
  <2>2. CASE binds
    <3>1. PICK p \in FreePorts(file, port) : g = BoundTo(file, n, p)
      BY <1>1, <2>2
    <3>2. p \in Nat /\ (port # 0 => p = port)
      BY SocketAssumption DEF FreePorts
    <3>3. QED
      BY <1>2, <3>1, <3>2, BoundFits
  <2>3. QED
    BY <2>1, <2>2
<1>4. PICK h \in Listens(g, n) :
        Changes(h) /\ report' = Listening(s, IF port = 0 THEN h[n].port ELSE port, binds)
  BY <1>1
<1>5. h \in Seq(Files(k)) /\ DOMAIN h = DOMAIN file
      /\ (g[n].st = "bound" => h[n].st = "listening" /\ h[n].port = g[n].port)
  <2>1. n \in DOMAIN g
    BY <1>2, <1>3
  <2>2. QED
    BY <1>2, <1>3, <2>1, ListenFits
<1>6. Len(h) = k
  BY <1>2, <1>5, SameLength DEF k
<1>7. SockInv'
  BY <1>2, <1>4, <1>5, <1>6, ChangesKeep DEF k
<1>8. AddressIsTrue'
  <2>1. FileOf(s)' = n /\ file' = h
    BY <1>4 DEF Changes, FileOf, n
  <2>2. QED
    BY <1>3, <1>4, <1>5, <2>1 DEF AddressIsTrue, Listening, FileOf
<1>9. QED
  BY <1>4, <1>7, <1>8 DEF Listening

\* ... and that of sck:listen() in any case.
LEMMA SckListenBoundKeeps ==
  ASSUME SockInv, NEW s \in Socks, SckListenBound(s)
  PROVE  SockInv' /\ AddressIsTrue' /\ report'.op # "nothing"
<1> DEFINE n == FileOf(s)
           k == Len(file)
<1>1. PICK h \in Listens(file, n) : Changes(h) /\ report' = Listening(s, h[n].port, h[n].st = "listening")
  BY DEF SckListenBound
<1>2. n \in DOMAIN file /\ k \in Nat /\ file \in Seq(Files(k))
  BY TypeOfFile DEF SckListenBound
<1> HIDE DEF n, k
<1>3. h \in Seq(Files(k)) /\ DOMAIN h = DOMAIN file
  BY <1>2, ListenFits
<1>4. Len(h) = k
  BY <1>2, <1>3, SameLength DEF k
<1>5. SockInv'
  BY <1>1, <1>2, <1>3, <1>4, ChangesKeep DEF k
<1>6. FileOf(s)' = n /\ file' = h
  BY <1>1 DEF Changes, FileOf, n
<1>7. QED
  BY <1>1, <1>5, <1>6 DEF AddressIsTrue, Listening, FileOf

LEMMA ConnectKeeps ==
  ASSUME SockInv, NEW s \in Socks, NEW srv \in DOMAIN file, Connect(s, srv)
  PROVE  SockInv' /\ report' = None
<1> DEFINE a == FileOf(s)
           k == Len(file)
           n == k + 1
           r1 == [[file[a] EXCEPT !.st = "connected"] EXCEPT !.peer = n]
           f1 == [file EXCEPT ![a] = r1]
           r2 == [f1[srv] EXCEPT !.queue = Append(f1[srv].queue, n)]
           f2 == [f1 EXCEPT ![srv] = r2]
<1>1. a \in DOMAIN file /\ k \in Nat /\ n \in Nat /\ file \in Seq(Files(k)) /\ file \in Seq(Files(n))
      /\ DOMAIN file = 1..k
  <2>1. a \in DOMAIN file /\ k \in Nat /\ n \in Nat /\ file \in Seq(Files(k)) /\ DOMAIN file = 1..k
    BY TypeOfFile DEF Connect
  <2>2. Files(k) \subseteq Files(n)
    <3>1. 1..k \subseteq 1..n
      BY <2>1
    <3>2. \A q \in Seq(1..k) : q \in Seq(1..n)
      BY <3>1
    <3>3. QED
      BY <3>2 DEF Files
  <2>3. file \in Seq(Files(n))
    <3> HIDE DEF n
    <3>1. QED
      BY <2>1, <2>2
  <2>4. QED
    BY <2>1, <2>3
<1>2. f1 \in Seq(Files(n)) /\ DOMAIN f1 = DOMAIN file
  <2>1. r1 \in Files(n)
    <3>1. file[a] \in Files(n)
      BY <1>1
    <3>2. [file[a] EXCEPT !.st = "connected"] \in Files(n)
      BY <1>1, <3>1, FilesExcept
    <3>3. QED
      BY <1>1, <3>2, FilesExcept
  <2> HIDE DEF r1, n, k, a
  <2>2. QED
    BY <1>1, <2>1, ExceptFits
<1>3. f2 \in Seq(Files(n)) /\ DOMAIN f2 = DOMAIN file
  <2> HIDE DEF f1
  <2>1. f1[srv] \in Files(n)
    BY <1>2
  <2>2. Append(f1[srv].queue, n) \in Seq(1..n)
    <3>1. f1[srv].queue \in Seq(1..n)
      <4> HIDE DEF n
      <4>1. QED
        BY <2>1 DEF Files
    <3>2. n \in 1..n
      BY <1>1
    <3>3. QED
      BY <3>1, <3>2
  <2>3. r2 \in Files(n)
    BY <1>1, <2>1, <2>2, FilesExcept
  <2> HIDE DEF r2, n
  <2>4. QED
    BY <1>1, <1>2, <2>3, ExceptFits
<1>4. [file EXCEPT ![a].st = "connected", ![a].peer = n, ![srv].queue = Append(@, n)] = f2
  OBVIOUS
<1>5. Changes(Append(f2, Accepted(a))) /\ report' = None
  BY <1>4 DEF Connect
<1> HIDE DEF f2, k, a, n
<1>6. Len(f2) = k
  <2>1. f2 \in Seq(Files(n)) /\ file \in Seq(Files(n)) /\ DOMAIN f2 = DOMAIN file
    BY <1>1, <1>3
  <2>2. QED
    BY <2>1, SameLength DEF k
<1>7. Accepted(a) \in Files(n)
  BY <1>1, FreshFits
<1>8. Append(f2, Accepted(a)) \in Seq(Files(n)) /\ Len(Append(f2, Accepted(a))) = n /\ k <= n
  BY <1>1, <1>3, <1>6, <1>7 DEF n
<1>9. QED
  BY <1>5, <1>8, ChangesKeep DEF k

LEMMA AcceptKeeps ==
  ASSUME SockInv, NEW srv \in Socks, NEW s \in Socks, Accept(srv, s)
  PROVE  SockInv' /\ report' = None
<1> DEFINE a == FileOf(srv)
           k == Len(file)
           r == [file[a] EXCEPT !.queue = Tail(file[a].queue)]
           f == [file EXCEPT ![a] = r]
           n == Head(file[a].queue)
<1>1. a \in DOMAIN file /\ k \in Nat /\ file \in Seq(Files(k)) /\ file[a] \in Files(k) /\ DOMAIN file = 1..k
  BY TypeOfFile DEF Accept
<1>2. Gets(s, n, f) /\ report' = None /\ ~Exists(s) /\ file[a].queue # <<>>
  BY DEF Accept
<1>3. Tail(file[a].queue) \in Seq(1..k) /\ n \in 1..k
  <2>1. file[a].queue \in Seq(1..k)
    BY <1>1 DEF Files
  <2>2. ASSUME NEW q \in Seq(1..k), q # <<>> PROVE Tail(q) \in Seq(1..k) /\ Head(q) \in 1..k
    <3> DEFINE S == 1..k
    <3>1. q \in Seq(S)
      BY <2>2
    <3> HIDE DEF S
    <3>2. Tail(q) \in Seq(S) /\ Head(q) \in S
      BY <2>2, <3>1
    <3>3. QED
      BY <3>2 DEF S
  <2>3. QED
    BY <1>2, <2>1, <2>2
<1>4. r \in Files(k)
  BY <1>1, <1>3, FilesExcept
<1> HIDE DEF r, n, k, a
<1>5. f \in Seq(Files(k)) /\ DOMAIN f = DOMAIN file
  BY <1>1, <1>4, ExceptFits
<1> HIDE DEF f
<1>6. Len(f) = k
  BY <1>1, <1>5, SameLength DEF k
<1>7. n \in DOMAIN f /\ Len(file) <= Len(f)
  BY <1>1, <1>3, <1>5, <1>6 DEF k
<1>8. QED
  BY <1>2, <1>5, <1>6, <1>7, GetsKeep

\* A call that changes one socket of the kernel.
LEMMA OneFileKeeps ==
  ASSUME SockInv, NEW n \in DOMAIN file, NEW r \in Files(Len(file)), Changes([file EXCEPT ![n] = r])
  PROVE  SockInv'
<1> DEFINE k == Len(file)
           f == [file EXCEPT ![n] = r]
<1>1. k \in Nat /\ file \in Seq(Files(k))
  BY TypeOfFile
<1> HIDE DEF k
<1>2. f \in Seq(Files(k)) /\ DOMAIN f = DOMAIN file
  BY <1>1, ExceptFits DEF k
<1> HIDE DEF f
<1>3. Len(f) = k
  BY <1>1, <1>2, SameLength DEF k
<1>4. Changes(f)
  BY DEF f
<1>5. QED
  BY <1>1, <1>2, <1>3, <1>4, ChangesKeep DEF k

LEMMA SendKeeps ==
  ASSUME SockInv, NEW s \in Socks, NEW len \in 0..MaxData, NEW max \in 0..MaxData, Send(s, len, max)
  PROVE  SockInv' /\ report' = None
<1> DEFINE p == file[FileOf(s)].peer
<1>1. p \in DOMAIN file
  BY DEF Send
<1>2. PICK n \in 0..Least(max, len) : Changes([file EXCEPT ![p].data = @ + n])
  BY DEF Send
<1> DEFINE r == [file[p] EXCEPT !.data = file[p].data + n]
<1> HIDE DEF p
<1>3. r \in Files(Len(file))
  <2>1. file[p] \in Files(Len(file)) /\ Len(file) \in Nat
    BY <1>1, TypeOfFile
  <2>2. file[p].data + n \in Nat
    BY <2>1 DEF Files
  <2>3. QED
    BY <2>1, <2>2, FilesExcept
<1>4. Changes([file EXCEPT ![p] = r])
  BY <1>2
<1> HIDE DEF r
<1>5. QED
  BY <1>1, <1>3, <1>4, OneFileKeeps DEF Send

\* recv() tells the end.
LEMMA RecvKeeps ==
  ASSUME SockInv, NEW s \in Socks, NEW max \in 0..MaxData, Recv(s, max)
  PROVE  SockInv' /\ NothingMeansEnd' /\ report'.op # "listen"
<1> DEFINE n == FileOf(s)
           got == Received(n, max)
           r == [file[n] EXCEPT !.data = IF got > 0 THEN file[n].data - got ELSE file[n].data]
<1>1. n \in DOMAIN file /\ Len(file) \in Nat /\ file[n] \in Files(Len(file)) /\ file[n].data \in Nat
  BY TypeOfFile DEF Recv, Files
<1>2. got \in Int /\ got <= file[n].data /\ max \in Nat
  BY <1>1 DEF Received, Least
<1>3. (got = 0 /\ max > 0) => file[n].fin /\ file[n].data = 0
  <2> HIDE DEF n
  <2>1. QED
    BY <1>1, <1>2 DEF Received, Least
<1>4. Changes([file EXCEPT ![n] = r]) /\ report' = [op |-> RecvReturns(got), sock |-> s, max |-> max]
  BY DEF Recv
<1>5. r \in Files(Len(file))
  <2> HIDE DEF got
  <2>1. (IF got > 0 THEN file[n].data - got ELSE file[n].data) \in Nat
    BY <1>1, <1>2
  <2>2. QED
    BY <1>1, <2>1, FilesExcept
<1>6. got = 0 => r = file[n]
  <2>1. r = [file[n] EXCEPT !.data = IF got > 0 THEN @ - got ELSE @]
    OBVIOUS
  <2>2. got = 0 => (IF got > 0 THEN file[n].data - got ELSE file[n].data) = file[n].data
    OBVIOUS
  <2>3. [file[n] EXCEPT !.data = file[n].data] = file[n]
    BY <1>1 DEF Files
  <2>4. QED
    BY <2>2, <2>3
<1> HIDE DEF r, got, n
<1>7. SockInv'
  BY <1>1, <1>4, <1>5, OneFileKeeps
<1>8. NothingMeansEnd'
  <2> SUFFICES ASSUME report'.op = "nothing", report'.max > 0
               PROVE  (file[FileOf(report.sock)].fin /\ file[FileOf(report.sock)].data = 0)'
    BY DEF NothingMeansEnd
  <2>1. got = 0 /\ report'.sock = s /\ max > 0
    BY <1>4 DEF RecvReturns
  <2>2. FileOf(s)' = n
    BY <1>4 DEF Changes, FileOf, n
  <2>3. file'[n] = file[n]
    BY <1>1, <1>4, <1>6, <2>1 DEF Changes
  <2>4. QED
    BY <1>3, <2>1, <2>2, <2>3 DEF FileOf
<1>9. report'.op # "listen"
  BY <1>4 DEF RecvReturns
<1>10. QED
  BY <1>7, <1>8, <1>9

LEMMA ShutdownKeeps ==
  ASSUME SockInv, NEW s \in Socks, Shutdown(s)
  PROVE  SockInv' /\ report' = None
<1>1. PICK n \in {FileOf(s), file[FileOf(s)].peer} \cap DOMAIN file : Changes([file EXCEPT ![n].fin = TRUE])
  BY DEF Shutdown
<1> DEFINE r == [file[n] EXCEPT !.fin = TRUE]
<1>2. r \in Files(Len(file))
  BY TypeOfFile, FilesExcept
<1>3. Changes([file EXCEPT ![n] = r])
  BY <1>1
<1> HIDE DEF r
<1>4. QED
  BY <1>2, <1>3, OneFileKeeps DEF Shutdown
-----------------------------------------------------------------------------
(***************************************************************************)
(* Sockets, with or without a loop.                                        *)
(***************************************************************************)
SockPromises == SockInv /\ AddressIsTrue /\ NothingMeansEnd

LEMMA CallKeeps ==
  ASSUME SockInv, NEW s \in Socks, SockCall(s)
  PROVE  SockPromises'
<1>1. ASSUME SockInv', report' = None PROVE SockPromises'
  BY <1>1 DEF SockPromises, None, AddressIsTrue, NothingMeansEnd
<1>2. ASSUME SockInv', AddressIsTrue', report'.op # "nothing" PROVE SockPromises'
  BY <1>2 DEF SockPromises, NothingMeansEnd
<1>3. CASE New(s)
  BY <1>1, <1>3, NewKeeps
<1>4. ASSUME NEW port \in Ports \cup {0}, Bind(s, port) \/ SocketListen(s, port) \/ SckListen(s, port)
      PROVE  SockPromises'
  BY <1>1, <1>2, <1>4, BindKeeps, SocketListenKeeps, SckListenKeeps
<1>5. CASE SckListenBound(s)
  BY <1>2, <1>5, SckListenBoundKeeps
<1>6. ASSUME NEW srv \in DOMAIN file, Connect(s, srv) PROVE SockPromises'
  BY <1>1, <1>6, ConnectKeeps
<1>7. ASSUME NEW srv \in Socks, Accept(srv, s) PROVE SockPromises'
  BY <1>1, <1>7, AcceptKeeps
<1>8. ASSUME NEW len \in 0..MaxData, NEW max \in 0..MaxData, Send(s, len, max) PROVE SockPromises'
  BY <1>1, <1>8, SendKeeps
<1>9. ASSUME NEW max \in 0..MaxData, Recv(s, max) PROVE SockPromises'
  BY <1>9, RecvKeeps DEF SockPromises, AddressIsTrue
<1>10. CASE Shutdown(s)
  BY <1>1, <1>10, ShutdownKeeps
<1>11. CASE CollectClosed(s)
  <2>1. SockInv'
    BY <1>11, ClosesKeep DEF CollectClosed
  <2>2. QED
    BY <1>1, <1>11, <2>1 DEF CollectClosed
<1>12. QED
  BY <1>3, <1>4, <1>5, <1>6, <1>7, <1>8, <1>9, <1>10, <1>11 DEF SockCall

LEMMA CloseKeeps ==
  ASSUME SockInv, NEW s \in Socks, CloseSck(s) \/ CloseSckFails(s) \/ CollectOpen(s)
  PROVE  SockPromises'
<1>1. report' = None
  BY DEF CloseSck, CloseSckFails, CollectOpen
<1>2. ASSUME CloseSck(s) PROVE SockInv'
  BY <1>2, ClosesKeep DEF CloseSck, Closed
<1>3. ASSUME CollectOpen(s) PROVE SockInv'
  BY <1>3, ClosesKeep DEF CollectOpen
<1>4. ASSUME CloseSckFails(s) PROVE SockInv'
  <2>1. open[fd[s]] \in DOMAIN file
    BY <1>4 DEF CloseSckFails, KernelCloses, SockInv, SockFits
  <2>2. file' \in Seq(Files(Len(file))) /\ Len(file') = Len(file)
    BY <1>4, <2>1, GoneFits DEF CloseSckFails, KernelCloses, SockInv
  <2>3. DOMAIN file' = DOMAIN file
    BY <2>2 DEF SockInv, SockFits
  <2>4. DOMAIN open' \subseteq DOMAIN open /\ \A m \in DOMAIN open' : open'[m] = open[m]
    BY <1>4 DEF CloseSckFails, KernelCloses, Drop, Restrict
  <2>5. SockFits'
    BY <1>4, <2>2, <2>3, <2>4 DEF CloseSckFails, SockInv, SockFits
  <2>6. QED
    BY <1>4, <2>5 DEF CloseSckFails, SockInv, Owned
<1>5. QED
  BY <1>1, <1>2, <1>3, <1>4 DEF SockPromises, None, AddressIsTrue, NothingMeansEnd

LEMMA SameSockets ==
  ASSUME SockPromises, report' = None \/ report' = report, UNCHANGED <<fd, made, open, file, lost>>
  PROVE  SockPromises'
<1>1. SockInv'
  BY DEF SockPromises, SockInv, SockFits, Owned, IsOpen, FileOf
<1>2. CASE report' = None
  BY <1>1, <1>2 DEF SockPromises, None, AddressIsTrue, NothingMeansEnd
<1>3. CASE report' = report
  BY <1>1, <1>3 DEF SockPromises, AddressIsTrue, NothingMeansEnd, FileOf
<1>4. QED
  BY <1>2, <1>3

LEMMA SocketsBegin ==
  ASSUME SockInit
  PROVE  SockPromises
<1>1. SockFits
  BY DEF SockInit, SockFits
<1>2. Owned
  BY <1>1 DEF SockInit, Owned
<1>3. QED
  BY <1>1, <1>2 DEF SockInit, SockPromises, SockInv, None, AddressIsTrue, NothingMeansEnd

LEMMA SocketLoopKeeps ==
  ASSUME SockPromises, [SocketLoopNext]_socketLoopVars
  PROVE  SockPromises'
<1>1. CASE CallSocket
  BY <1>1, CallKeeps DEF CallSocket, SockPromises
<1>2. CASE CloseSocket
  BY <1>2, CloseKeeps DEF CloseSocket, SockPromises
<1>3. CASE \E s \in Socks, m \in Masks : Observe(s, m) \/ Unobserve(s, m)
  BY <1>3, SameSockets DEF Observe, Unobserve
<1>4. CASE PollSockets \/ DispatchSocket \/ OtherSteps
  BY <1>4, SameSockets DEF PollSockets, DispatchSocket, OtherSteps, sockVars
<1>5. CASE UNCHANGED socketLoopVars
  BY <1>5, SameSockets DEF socketLoopVars, sockVars
<1>6. QED
  BY <1>1, <1>2, <1>3, <1>4, <1>5 DEF SocketLoopNext

LEMMA SocketInvariant == SocketLoopSpec => []SockPromises
<1>1. SocketLoopInit => SockPromises
  BY SocketsBegin DEF SocketLoopInit
<1>2. SockPromises /\ [SocketLoopNext]_socketLoopVars => SockPromises'
  BY SocketLoopKeeps
<1>3. QED
  BY <1>1, <1>2, PTL DEF SocketLoopSpec

\* On a loop that calls back at any time, the number in an object is that of the socket
\* it was made for, as long as close() has not failed (t_net_sck.c, p_net_sck_unx.c).
THEOREM NumbersAreOwned == SocketLoopSpec => []OwnsItsFile
<1>1. SockPromises => OwnsItsFile
  BY DEF SockPromises, SockInv, Owned, OwnsItsFile
<1>2. QED
  BY <1>1, SocketInvariant, PTL

\* An address that Socket.listen() or sck:listen() returns is the one the socket listens
\* on, whatever port the system chose and whoever took one before (Socket.lua:76-101).
THEOREM AddressesAreTrue == SocketLoopSpec => []AddressIsTrue
<1>1. SockPromises => AddressIsTrue
  BY DEF SockPromises
<1>2. QED
  BY <1>1, SocketInvariant, PTL

\* recv() answers with nothing, and no error, only when nothing will ever come, unless
\* no bytes were asked for (lt_net_sck_recv of t_net_sck.c).
THEOREM NothingIsTheEnd == SocketLoopSpec => []NothingMeansEnd
<1>1. SockPromises => NothingMeansEnd
  BY DEF SockPromises
<1>2. QED
  BY <1>1, SocketInvariant, PTL
-----------------------------------------------------------------------------
(***************************************************************************)
(* Sockets on a loop: the callback that runs for an event.                 *)
(***************************************************************************)

\* A call on f leaves closed what is closed.
StaysClosed == \A n \in DOMAIN file : n \in DOMAIN file' /\ (file[n].st = "closed" => file'[n].st = "closed")

LEMMA BoundKeepsClosed ==
  ASSUME NEW k \in Nat, NEW f \in Seq(Files(k)), NEW n \in DOMAIN f, f[n].st # "closed", NEW p \in Nat
  PROVE  \A m \in DOMAIN f : f[m].st = "closed" => BoundTo(f, n, p)[m].st = "closed"
<1>1. \A m \in DOMAIN f : m # n => BoundTo(f, n, p)[m] = f[m]
  BY DEF BoundTo
<1>2. QED
  BY <1>1

LEMMA ListenKeepsClosed ==
  ASSUME NEW k \in Nat, NEW f \in Seq(Files(k)), NEW n \in DOMAIN f, NEW h \in Listens(f, n)
  PROVE  \A m \in DOMAIN f : f[m].st = "closed" => h[m].st = "closed"
<1>1. CASE f[n].st = "fresh"
  <2>1. PICK p \in FreePorts(f, 0) : h = [BoundTo(f, n, p) EXCEPT ![n].st = "listening"]
    BY <1>1 DEF Listens
  <2>2. p \in Nat
    BY SocketAssumption DEF FreePorts
  <2>3. DOMAIN BoundTo(f, n, p) = DOMAIN f
    BY DEF BoundTo
  <2>4. \A m \in DOMAIN f : m # n => h[m] = BoundTo(f, n, p)[m]
    BY <2>1, <2>3
  <2>5. QED
    BY <1>1, <2>2, <2>4, BoundKeepsClosed
<1>2. CASE f[n].st = "bound"
  <2>1. h = [f EXCEPT ![n].st = "listening"]
    BY <1>2 DEF Listens
  <2>2. \A m \in DOMAIN f : m # n => h[m] = f[m]
    BY <2>1
  <2>3. QED
    BY <1>2, <2>2
<1>3. CASE f[n].st \notin {"fresh", "bound"}
  BY <1>3 DEF Listens
<1>4. QED
  BY <1>1, <1>2, <1>3

LEMMA GoneKeepsClosed ==
  ASSUME NEW n \in DOMAIN file
  PROVE  /\ DOMAIN Gone(n) = DOMAIN file /\ Gone(n)[n].st = "closed"
         /\ \A m \in DOMAIN file : file[m].st = "closed" => Gone(n)[m].st = "closed"
<1>1. [Fresh EXCEPT !.st = "closed"].st = "closed"
  BY DEF Fresh
<1>2. DOMAIN Gone(n) = DOMAIN file
  BY DEF Gone
<1>3. Gone(n)[n].st = "closed"
  BY <1>1 DEF Gone
<1>4. ASSUME NEW m \in DOMAIN file, m # n, file[m].st = "closed" PROVE Gone(n)[m].st = "closed"
  <2>1. [file[m] EXCEPT !.fin = TRUE].st = file[m].st
    OBVIOUS
  <2>2. Gone(n)[m] = [file[m] EXCEPT !.fin = TRUE] \/ Gone(n)[m] = file[m]
    BY <1>4 DEF Gone
  <2>3. QED
    BY <1>4, <2>1, <2>2
<1>5. QED
  BY <1>2, <1>3, <1>4

\* ... and takes no number away.
StaysOpen == \A k \in DOMAIN open : k \in DOMAIN open' /\ open'[k] = open[k]

LEMMA GetsStays ==
  ASSUME SockInv, NEW s \in Socks, NEW n, NEW f, Gets(s, n, f)
  PROVE  StaysOpen
<1>1. LowestFd \notin DOMAIN open
  BY LowestIsFree DEF Gets
<1>2. open' = [y \in DOMAIN open \cup {LowestFd} |-> IF y = LowestFd THEN n ELSE open[y]]
  BY DEF Gets, Opened, Put
<1>3. QED
  BY <1>1, <1>2 DEF StaysOpen

LEMMA NewStays ==
  ASSUME SockInv, NEW s \in Socks, New(s)
  PROVE  StaysClosed /\ StaysOpen
<1>1. Gets(s, Len(file) + 1, Append(file, Fresh))
  BY DEF New
<1>2. file' = Append(file, Fresh)
  BY <1>1 DEF Gets
<1>3. file \in Seq(Files(Len(file)))
  BY TypeOfFile
<1>4. StaysClosed
  BY <1>2, <1>3 DEF StaysClosed
<1>5. QED
  BY <1>1, <1>4, GetsStays

LEMMA BindStays ==
  ASSUME SockInv, NEW s \in Socks, NEW port \in Ports \cup {0}, Bind(s, port)
  PROVE  StaysClosed /\ StaysOpen
<1>1. PICK p \in FreePorts(file, port) : Changes(BoundTo(file, FileOf(s), p))
  BY DEF Bind
<1>2. p \in Nat
  BY SocketAssumption DEF FreePorts
<1>3. FileOf(s) \in DOMAIN file /\ file[FileOf(s)].st # "closed"
  BY TypeOfFile DEF Bind, CanBind
<1>4. Len(file) \in Nat /\ file \in Seq(Files(Len(file)))
  BY TypeOfFile
<1>5. \A m \in DOMAIN file : file[m].st = "closed" => BoundTo(file, FileOf(s), p)[m].st = "closed"
  BY <1>2, <1>3, <1>4, BoundKeepsClosed
<1>6. DOMAIN BoundTo(file, FileOf(s), p) = DOMAIN file
  BY DEF BoundTo
<1>7. file' = BoundTo(file, FileOf(s), p) /\ open' = open
  BY <1>1 DEF Changes
<1>8. QED
  BY <1>5, <1>6, <1>7 DEF StaysClosed, StaysOpen

LEMMA SocketListenStays ==
  ASSUME SockInv, NEW s \in Socks, NEW port \in Ports \cup {0}, SocketListen(s, port)
  PROVE  StaysClosed /\ StaysOpen
<1> DEFINE k == Len(file)
           n == k + 1
           f == Append(file, Fresh)
<1>1. k \in Nat /\ file \in Seq(Files(k)) /\ DOMAIN file = 1..k
  BY TypeOfFile
<1>2. n \in Nat /\ f \in Seq(Files(n)) /\ n \in DOMAIN f /\ f[n] = Fresh /\ DOMAIN f = 1..n
      /\ \A m \in DOMAIN file : m \in DOMAIN f /\ f[m] = file[m]
  <2>1. Fresh \in Files(k + 1)
    BY <1>1, FreshFits
  <2>2. f \in Seq(Files(k + 1)) /\ DOMAIN f = 1..(k + 1) /\ f[k + 1] = Fresh
    BY <1>1, <2>1, MoreFiles DEF k
  <2>3. \A m \in 1..k : m \in 1..(k + 1) /\ f[m] = file[m]
    BY <1>1
  <2>4. QED
    BY <1>1, <2>2, <2>3
<1>3. f[n].st # "closed"
  BY <1>2 DEF Fresh
<1>4. CASE CanBind(f, n, port) /\ \E p \in FreePorts(f, port) : \E h \in Listens(BoundTo(f, n, p), n) :
                 /\ Gets(s, n, h)
                 /\ report' = Listening(s, IF port = 0 THEN h[n].port ELSE port, TRUE)
  <2>1. PICK p \in FreePorts(f, port) : \E h \in Listens(BoundTo(f, n, p), n) : Gets(s, n, h)
    BY <1>4
  <2>2. PICK h \in Listens(BoundTo(f, n, p), n) : Gets(s, n, h)
    BY <2>1
  <2>3. p \in Nat
    BY SocketAssumption DEF FreePorts
  <2> DEFINE g == BoundTo(f, n, p)
  <2> HIDE DEF f, n, k
  <2>4. n \in Nat /\ f \in Seq(Files(n)) /\ n \in DOMAIN f
    BY <1>2
  <2>5. g \in Seq(Files(n)) /\ DOMAIN g = DOMAIN f
    BY ONLY <2>3, <2>4, BoundFits
  <2>6. \A m \in DOMAIN f : f[m].st = "closed" => g[m].st = "closed"
    BY ONLY <1>3, <2>3, <2>4, BoundKeepsClosed
  <2>7. h \in Listens(g, n)
    BY <2>2
  <2> HIDE DEF g
  <2>8. DOMAIN h = DOMAIN g /\ \A m \in DOMAIN g : g[m].st = "closed" => h[m].st = "closed"
    <3>1. n \in DOMAIN g
      BY <2>4, <2>5
    <3>2. QED
      BY ONLY <2>4, <2>5, <2>7, <3>1, ListenFits, ListenKeepsClosed
  <2>9. file' = h
    BY <2>2 DEF Gets
  <2>10. StaysClosed
    BY <1>2, <2>5, <2>6, <2>8, <2>9 DEF StaysClosed
  <2>11. QED
    BY <2>2, <2>10, GetsStays
<1>5. CASE Gets(s, n, f)
  <2>1. file' = f
    BY <1>5 DEF Gets
  <2>2. StaysClosed
    BY <1>2, <2>1 DEF StaysClosed
  <2>3. QED
    BY <1>5, <2>2, GetsStays
<1>6. QED
  BY <1>4, <1>5 DEF SocketListen

LEMMA SckListenStays ==
  ASSUME SockInv, NEW s \in Socks, NEW port \in Ports \cup {0}, SckListen(s, port)
  PROVE  StaysClosed /\ StaysOpen
<1> DEFINE n == FileOf(s)
           k == Len(file)
           binds == CanBind(file, n, port)
<1>1. PICK g \in IF binds THEN {BoundTo(file, n, p) : p \in FreePorts(file, port)} ELSE {file} :
        \E h \in Listens(g, n) : Changes(h)
  BY DEF SckListen
<1>2. PICK h \in Listens(g, n) : Changes(h)
  BY <1>1
<1>3. n \in DOMAIN file /\ k \in Nat /\ file \in Seq(Files(k))
  BY TypeOfFile DEF SckListen
<1>4. /\ g \in Seq(Files(k)) /\ DOMAIN g = DOMAIN file
      /\ \A m \in DOMAIN file : file[m].st = "closed" => g[m].st = "closed"
  <2>1. CASE binds
    <3>1. PICK p \in FreePorts(file, port) : g = BoundTo(file, n, p)
      BY <1>1, <2>1
    <3>2. p \in Nat
      BY SocketAssumption DEF FreePorts
    <3>3. file[n].st # "closed"
      BY <2>1 DEF CanBind
    <3> HIDE DEF n, k, binds
    <3>4. g \in Seq(Files(k)) /\ DOMAIN g = DOMAIN file
      BY <1>3, <3>1, <3>2, BoundFits
    <3>5. \A m \in DOMAIN file : file[m].st = "closed" => g[m].st = "closed"
      BY <1>3, <3>1, <3>2, <3>3, BoundKeepsClosed
    <3>6. QED
      BY <3>4, <3>5
  <2>2. CASE ~binds
    BY <1>1, <1>3, <2>2
  <2>3. QED
    BY <2>1, <2>2
<1> HIDE DEF n, k, binds
<1>5. DOMAIN h = DOMAIN g /\ \A m \in DOMAIN g : g[m].st = "closed" => h[m].st = "closed"
  <2>1. n \in DOMAIN g
    BY <1>3, <1>4
  <2>2. QED
    BY <1>2, <1>3, <1>4, <2>1, ListenFits, ListenKeepsClosed
<1>6. file' = h /\ open' = open
  BY <1>2 DEF Changes
<1>7. QED
  BY <1>4, <1>5, <1>6 DEF StaysClosed, StaysOpen

LEMMA SckListenBoundStays ==
  ASSUME SockInv, NEW s \in Socks, SckListenBound(s)
  PROVE  StaysClosed /\ StaysOpen
<1> DEFINE n == FileOf(s)
           k == Len(file)
<1>1. PICK h \in Listens(file, n) : Changes(h)
  BY DEF SckListenBound
<1>2. n \in DOMAIN file /\ k \in Nat /\ file \in Seq(Files(k))
  BY TypeOfFile DEF SckListenBound
<1> HIDE DEF n, k
<1>3. DOMAIN h = DOMAIN file /\ \A m \in DOMAIN file : file[m].st = "closed" => h[m].st = "closed"
  BY <1>2, <1>1, ListenFits, ListenKeepsClosed
<1>4. file' = h /\ open' = open
  BY <1>1 DEF Changes
<1>5. QED
  BY <1>3, <1>4 DEF StaysClosed, StaysOpen

LEMMA ConnectStays ==
  ASSUME SockInv, NEW s \in Socks, NEW srv \in DOMAIN file, Connect(s, srv)
  PROVE  StaysClosed /\ StaysOpen
<1> DEFINE a == FileOf(s)
           k == Len(file)
           f == [file EXCEPT ![a].st = "connected", ![a].peer = k + 1, ![srv].queue = Append(@, k + 1)]
<1>1. Changes(Append(f, Accepted(a))) /\ file[a].st # "closed" /\ file[srv].st # "closed"
  BY DEF Connect
<1>2. k \in Nat /\ DOMAIN file = 1..k /\ file \in Seq(Files(k))
  BY TypeOfFile
<1>3. DOMAIN f = 1..k /\ \A m \in 1..k : m # a /\ m # srv => f[m] = file[m]
  BY <1>2
<1>4. f = [m \in 1..k |-> f[m]]
  BY <1>2
<1> HIDE DEF f, k
<1>5. Len(f) = k
  BY <1>2, <1>4
<1> HIDE DEF a
<1> DEFINE S == {f[m] : m \in 1..k} \cup {Accepted(a)}
<1>6. f \in Seq(S) /\ Accepted(a) \in S
  <2>1. \A m \in 1..k : f[m] \in S
    OBVIOUS
  <2> HIDE DEF S
  <2>2. f \in [1..k -> S]
    BY <1>4, <2>1
  <2>3. f \in Seq(S)
    BY <1>2, <2>2
  <2>4. QED
    BY <2>3 DEF S
<1> HIDE DEF S
<1>7. /\ DOMAIN Append(f, Accepted(a)) = 1..(k + 1)
      /\ \A m \in 1..k : Append(f, Accepted(a))[m] = f[m]
  BY <1>2, <1>5, <1>6
<1>8. file' = Append(f, Accepted(a)) /\ open' = open
  BY <1>1 DEF Changes
<1>9. 1..k \subseteq 1..(k + 1)
  BY <1>2
<1> DEFINE g == Append(f, Accepted(a))
<1> HIDE DEF g
<1>10. ASSUME NEW m \in 1..k PROVE m \in DOMAIN g /\ (file[m].st = "closed" => g[m].st = "closed")
  <2>1. m \in DOMAIN g /\ g[m] = f[m]
    BY <1>7, <1>9 DEF g
  <2>2. file[m].st = "closed" => m # a /\ m # srv
    BY <1>1
  <2>3. QED
    BY <1>3, <2>1, <2>2
<1>11. file' = g
  BY <1>8 DEF g
<1>12. QED
  BY <1>2, <1>8, <1>10, <1>11 DEF StaysClosed, StaysOpen

LEMMA OneFileStays ==
  ASSUME NEW n, NEW r, Changes([file EXCEPT ![n] = r]), n \in DOMAIN file => r.st = file[n].st
  PROVE  StaysClosed /\ StaysOpen
<1>1. file' = [file EXCEPT ![n] = r] /\ open' = open
  BY DEF Changes
<1>2. \A m \in DOMAIN file : file'[m] = IF m = n THEN r ELSE file[m]
  BY <1>1
<1>3. QED
  BY <1>1, <1>2 DEF StaysClosed, StaysOpen

LEMMA AcceptStays ==
  ASSUME SockInv, NEW srv \in Socks, NEW s \in Socks, Accept(srv, s)
  PROVE  StaysClosed /\ StaysOpen
<1> DEFINE a == FileOf(srv)
           r == [file[a] EXCEPT !.queue = Tail(@)]
           f == [file EXCEPT ![a] = r]
<1>1. Gets(s, Head(file[a].queue), f)
  BY DEF Accept
<1>2. file' = f
  BY <1>1 DEF Gets
<1>3. r.st = file[a].st
  OBVIOUS
<1> HIDE DEF r
<1>4. \A m \in DOMAIN file : file'[m] = IF m = a THEN r ELSE file[m]
  BY <1>2
<1>5. StaysClosed
  BY <1>2, <1>3, <1>4 DEF StaysClosed
<1>6. QED
  BY <1>1, <1>5, GetsStays

LEMMA CallStays ==
  ASSUME SockInv, NEW s \in Socks, SockCall(s)
  PROVE  StaysClosed /\ StaysOpen
<1>1. ASSUME NEW n, NEW r, r.st = file[n].st, Changes([file EXCEPT ![n] = r])
      PROVE  StaysClosed /\ StaysOpen
  BY <1>1, OneFileStays
<1>2. CASE New(s) \/ SckListenBound(s)
  BY <1>2, NewStays, SckListenBoundStays
<1>3. ASSUME NEW port \in Ports \cup {0}, Bind(s, port) \/ SocketListen(s, port) \/ SckListen(s, port)
      PROVE  StaysClosed /\ StaysOpen
  BY <1>3, BindStays, SocketListenStays, SckListenStays
<1>4. ASSUME NEW srv \in DOMAIN file, Connect(s, srv) PROVE StaysClosed /\ StaysOpen
  BY <1>4, ConnectStays
<1>5. ASSUME NEW srv \in Socks, Accept(srv, s) PROVE StaysClosed /\ StaysOpen
  BY <1>5, AcceptStays
<1>6. ASSUME NEW len \in 0..MaxData, NEW max \in 0..MaxData, Send(s, len, max)
      PROVE  StaysClosed /\ StaysOpen
  <2> DEFINE p == file[FileOf(s)].peer
  <2>1. PICK n \in 0..Least(max, len) : Changes([file EXCEPT ![p].data = @ + n])
    BY <1>6 DEF Send
  <2> HIDE DEF p
  <2> DEFINE r == [file[p] EXCEPT !.data = @ + n]
  <2>2. Changes([file EXCEPT ![p] = r]) /\ r.st = file[p].st
    BY <2>1
  <2> HIDE DEF r
  <2>3. QED
    BY <1>1, <2>2
<1>7. ASSUME NEW max \in 0..MaxData, Recv(s, max) PROVE StaysClosed /\ StaysOpen
  <2> DEFINE n == FileOf(s)
             got == Received(n, max)
             r == [file[n] EXCEPT !.data = IF got > 0 THEN @ - got ELSE @]
  <2>1. Changes([file EXCEPT ![n].data = IF got > 0 THEN @ - got ELSE @])
    BY <1>7 DEF Recv
  <2> HIDE DEF n, got
  <2>2. Changes([file EXCEPT ![n] = r]) /\ r.st = file[n].st
    BY <2>1
  <2> HIDE DEF r
  <2>3. QED
    BY <1>1, <2>2
<1>8. CASE Shutdown(s)
  <2>1. PICK n \in {FileOf(s), file[FileOf(s)].peer} \cap DOMAIN file : Changes([file EXCEPT ![n].fin = TRUE])
    BY <1>8 DEF Shutdown
  <2> DEFINE r == [file[n] EXCEPT !.fin = TRUE]
  <2>2. Changes([file EXCEPT ![n] = r]) /\ r.st = file[n].st
    BY <2>1
  <2> HIDE DEF r
  <2>3. QED
    BY <1>1, <2>2
<1>9. CASE CollectClosed(s)
  BY <1>9 DEF CollectClosed, StaysClosed, StaysOpen
<1>10. QED
  BY <1>2, <1>3, <1>4, <1>5, <1>6, <1>7, <1>8, <1>9 DEF SockCall

\* The sockets and the loop.  What the kernel watches is in use, and a callback stored for
\* it was added for the socket behind the number; a node that has a callback is watched,
\* or its descriptor was closed under the loop.
OwnCallbacks ==
  \A k \in Watched :
    /\ k \in DOMAIN open
    /\ \A d \in node[k].fns : d \in Dir => added[k][d] = open[k]

NothingIdle == \A k \in Observed : node[k].msk = {} => node[k].fns = {}

Tables ==
  /\ added \in [Fds -> [Dir -> Nat]]
  /\ events \in Seq([fd : Fds, ready : Masks])

\* An event that waits is for a socket that still has its number and its callbacks, if any,
\* unless it was closed.
Waits(k, n) ==
  /\ n \in DOMAIN file
  /\ \/ file[n].st = "closed"
     \/ /\ k \in DOMAIN open /\ open[k] = n
        /\ k \in Watched \/ k \notin Observed \/ node[k].fns = {}

BatchWaits ==
  origin # <<>> => \A i \in 1..Len(events) : LET k == events[i].fd IN k \in DOMAIN origin /\ Waits(k, origin[k])

ReachInv == SockPromises /\ HandleInv /\ Tables /\ NothingIdle /\ OwnCallbacks /\ BatchWaits

\* The loop's part of a step is one of Descriptors.
LEMMA SocketHandles ==
  ASSUME SockPromises, HandleInv, [SocketLoopNext]_socketLoopVars
  PROVE  HandleInv' /\ [HandleNext]_handleVars
<1> SUFFICES [HandleNext]_handleVars
  BY HandleNextInv
<1>1. CASE CallSocket
  BY <1>1 DEF CallSocket, vars
<1>2. CASE CloseSocket
  <2>1. PICK s \in Socks : Close(fd[s]) /\ (CloseSck(s) \/ CloseSckFails(s) \/ CollectOpen(s))
    BY <1>2 DEF CloseSocket
  <2>2. fd[s] \in Fds
    BY <2>1 DEF CloseSck, CloseSckFails, CollectOpen, KernelCloses, SockPromises, SockInv, SockFits
  <2>3. QED
    BY <2>1, <2>2 DEF HandleNext
<1>3. ASSUME NEW s \in Socks, NEW m \in Masks, Observe(s, m) \/ Unobserve(s, m) PROVE HandleNext
  <2>1. fd[s] \in Fds
    BY <1>3 DEF Observe, Unobserve, Watchable
  <2>2. AddHandle(fd[s], m) \/ AddHandleFails(fd[s]) \/ RemoveHandle(fd[s], m)
    BY <1>3 DEF Observe, Unobserve
  <2>3. QED
    BY <2>1, <2>2 DEF HandleNext
<1>4. CASE PollSockets \/ DispatchSocket \/ OtherSteps
  BY <1>4 DEF PollSockets, DispatchSocket, OtherSteps, PollEvents, Dispatch, RunCall, PollInterrupted,
     PollTimesOut, DispatchMissing, HandlerReturns, HandlerFails, StartTasks, EndIteration
<1>5. CASE UNCHANGED socketLoopVars
  BY <1>5 DEF socketLoopVars, vars
<1>6. QED
  BY <1>1, <1>2, <1>3, <1>4, <1>5 DEF SocketLoopNext

\* Calls that close nothing and leave the loop alone.
LEMMA QuietCallsReach ==
  ASSUME ReachInv, StaysClosed, StaysOpen, UNCHANGED <<vars, historyVars>>
  PROVE  Tables' /\ NothingIdle' /\ OwnCallbacks' /\ BatchWaits'
<1>1. node' = node /\ interest' = interest /\ events' = events /\ added' = added /\ origin' = origin
  BY DEF vars, handleVars, loopVars, historyVars
<1>2. Tables' /\ NothingIdle'
  BY <1>1 DEF ReachInv, Tables, NothingIdle, Observed
<1>3. OwnCallbacks'
  BY <1>1 DEF ReachInv, OwnCallbacks, StaysOpen, Watched
<1>4. ASSUME NEW k, NEW n, Waits(k, n) PROVE Waits(k, n)'
  BY <1>1, <1>4 DEF Waits, StaysOpen, StaysClosed, Watched, Observed
<1>5. BatchWaits'
  BY <1>1, <1>4 DEF ReachInv, BatchWaits
<1>6. QED
  BY <1>2, <1>3, <1>5

\* A number is closed under the loop: the events for what was behind it find it closed.
LEMMA ClosingReaches ==
  ASSUME ReachInv, NEW c, Close(c), KernelCloses(c), UNCHANGED <<events, added, origin>>
  PROVE  Tables' /\ NothingIdle' /\ OwnCallbacks' /\ BatchWaits'
<1>1. /\ node' = node
      /\ Watched' = Watched \ {c}
      /\ DOMAIN open' = DOMAIN open \ {c} /\ \A k \in DOMAIN open' : open'[k] = open[k]
  BY DEF Close, KernelCloses, Watched, Drop, Restrict
<1>2. open[c] \in DOMAIN file
  BY DEF KernelCloses, ReachInv, SockPromises, SockInv, SockFits
<1>3. /\ DOMAIN file' = DOMAIN file /\ file'[open[c]].st = "closed"
      /\ \A m \in DOMAIN file : file[m].st = "closed" => file'[m].st = "closed"
  BY <1>2, GoneKeepsClosed DEF KernelCloses
<1>4. Tables' /\ NothingIdle'
  BY <1>1 DEF ReachInv, Tables, NothingIdle, Observed
<1>5. OwnCallbacks'
  BY <1>1 DEF ReachInv, OwnCallbacks
<1>6. ASSUME NEW k, NEW n, Waits(k, n) PROVE Waits(k, n)'
  <2>1. CASE file[n].st = "closed" \/ (open[k] = n /\ k = c)
    BY <1>3, <1>6, <2>1 DEF Waits
  <2>2. CASE k # c /\ file[n].st # "closed"
    <3>1. /\ n \in DOMAIN file' /\ k \in DOMAIN open' /\ open'[k] = n
          /\ k \in Watched \/ k \notin Observed \/ node[k].fns = {}
      BY <1>1, <1>3, <1>6, <2>2 DEF Waits
    <3>2. k \in Watched => k \in Watched'
      BY <1>1, <2>2
    <3>3. k \notin Observed => k \notin Observed'
      BY <1>1 DEF Observed
    <3>4. node'[k] = node[k]
      BY <1>1
    <3>5. QED
      BY <3>1, <3>2, <3>3, <3>4 DEF Waits
  <2>3. QED
    BY <1>6, <2>1, <2>2 DEF Waits
<1>7. BatchWaits'
  BY <1>6 DEF ReachInv, BatchWaits
<1>8. QED
  BY <1>4, <1>5, <1>7

\* addHandle gives the node of c the callback of a socket that is behind c.
LEMMA AddingReaches ==
  ASSUME ReachInv, NEW c \in Fds, c \in DOMAIN open, NEW m \in Masks, AddHandle(c, m),
         added' = [added EXCEPT ![c] = [d \in Dir |-> IF d \in Stored(m) THEN open[c] ELSE @[d]]],
         UNCHANGED <<open, file, events, origin>>
  PROVE  Tables' /\ NothingIdle' /\ OwnCallbacks' /\ BatchWaits'
<1> DEFINE old == NodeOf(c)
           new == [msk |-> old.msk \cup m, fns |-> old.fns \cup Stored(m)]
<1>1. /\ KernelAdds(c)
      /\ Observed' = Observed \cup {c} /\ node'[c] = new
      /\ \A k \in Observed : k # c => node'[k] = node[k]
      /\ Watched' = Watched \cup {c}
  BY DEF AddHandle, Put, Observed, Watched
<1>2. /\ \A k \in Fds : k # c => added'[k] = added[k]
      /\ \A d \in Dir : added'[c][d] = IF d \in Stored(m) THEN open[c] ELSE added[c][d]
  BY DEF ReachInv, Tables
<1>3. Watched \subseteq Observed /\ Watched \subseteq Fds
  BY DEF ReachInv, HandleInv, HandleTypeOK, KernelAgrees
<1>4. c \notin Watched => old.fns = {}
  <2>1. ASSUME c \notin Watched PROVE old.msk = {}
    BY <1>1, <2>1 DEF KernelAdds
  <2>2. CASE c \in Observed
    BY <2>1, <2>2 DEF ReachInv, NothingIdle, NodeOf
  <2>3. CASE c \notin Observed
    BY <2>3 DEF NodeOf
  <2>4. QED
    BY <2>2, <2>3
<1>5. c \in Watched => old = node[c]
  BY <1>3 DEF NodeOf
<1>6. Tables'
  <2>1. open[c] \in Nat
    BY DEF ReachInv, SockPromises, SockInv, SockFits
  <2>2. [d \in Dir |-> IF d \in Stored(m) THEN open[c] ELSE added[c][d]] \in [Dir -> Nat]
    BY <2>1 DEF ReachInv, Tables
  <2>3. added' \in [Fds -> [Dir -> Nat]]
    BY <2>2 DEF ReachInv, Tables
  <2>4. QED
    BY <2>3 DEF ReachInv, Tables
<1>7. NothingIdle'
  <2>1. new.msk # {}
    BY DEF Masks
  <2> HIDE DEF new
  <2>2. QED
    BY <1>1, <2>1 DEF ReachInv, NothingIdle
<1>8. OwnCallbacks'
  <2> SUFFICES ASSUME NEW k \in Watched'
               PROVE  k \in DOMAIN open' /\ \A d \in node'[k].fns : d \in Dir => added'[k][d] = open'[k]
    BY DEF OwnCallbacks
  <2>1. CASE k # c
    BY <1>1, <1>2, <1>3, <2>1 DEF ReachInv, OwnCallbacks
  <2>2. CASE k = c
    <3>1. ASSUME NEW d \in new.fns, d \in Dir, d \notin Stored(m) PROVE added[c][d] = open[c]
      <4>1. d \in old.fns
        BY <3>1
      <4>2. c \in Watched /\ d \in node[c].fns
        BY <1>4, <1>5, <4>1
      <4>3. QED
        BY <3>1, <4>2 DEF ReachInv, OwnCallbacks
    <3> HIDE DEF new
    <3>2. QED
      BY <1>1, <1>2, <2>2, <3>1
  <2>3. QED
    BY <2>1, <2>2
<1>9. ASSUME NEW k, NEW n, Waits(k, n) PROVE Waits(k, n)'
  BY <1>1, <1>9 DEF Waits
<1>10. BatchWaits'
  BY <1>9 DEF ReachInv, BatchWaits
<1>11. QED
  BY <1>6, <1>7, <1>8, <1>10

\* An addHandle that fails leaves at most a node without callbacks.
LEMMA AddingFailsReaches ==
  ASSUME ReachInv, NEW c \in Fds, AddHandleFails(c), UNCHANGED <<open, file, events, added, origin>>
  PROVE  Tables' /\ NothingIdle' /\ OwnCallbacks' /\ BatchWaits'
<1>1. /\ Observed' = Observed \cup {c} /\ interest' = interest
      /\ \A k \in Observed : node'[k] = node[k]
      /\ c \notin Observed => node'[c].fns = {}
  BY DEF AddHandleFails, Put, Observed, NodeOf
<1>2. Watched' = Watched /\ Watched \subseteq Observed
  BY <1>1 DEF Watched, ReachInv, HandleInv, KernelAgrees
<1>3. Tables'
  BY DEF ReachInv, Tables
<1>4. NothingIdle'
  BY <1>1 DEF ReachInv, NothingIdle
<1>5. OwnCallbacks'
  BY <1>1, <1>2 DEF ReachInv, OwnCallbacks
<1>6. ASSUME NEW k, NEW n, Waits(k, n) PROVE Waits(k, n)'
  BY <1>1, <1>2, <1>6 DEF Waits
<1>7. BatchWaits'
  BY <1>6 DEF ReachInv, BatchWaits
<1>8. QED
  BY <1>3, <1>4, <1>5, <1>7

\* removeHandle keeps the callbacks of a node and what they were added for, or drops both.
LEMMA RemovingReaches ==
  ASSUME ReachInv, NEW c \in Fds, NEW m \in Masks, RemoveHandle(c, m),
         added' = IF c \in DOMAIN node' THEN added ELSE [added EXCEPT ![c] = Nobody],
         UNCHANGED <<open, file, events, origin>>
  PROVE  Tables' /\ NothingIdle' /\ OwnCallbacks' /\ BatchWaits'
<1> DEFINE left == node[c].msk \ m
<1>1. c \in Observed /\ c \in Watched /\ Watched \subseteq Fds
  BY DEF RemoveHandle, ReachInv, HandleInv, HandleTypeOK
<1>2. CASE left # {}
  <2>1. node' = [node EXCEPT ![c].msk = left] /\ interest' = [interest EXCEPT ![c] = left]
    BY <1>2 DEF RemoveHandle
  <2>2. /\ Observed' = Observed /\ Watched' = Watched /\ added' = added
        /\ \A k \in Observed : k # c => node'[k] = node[k]
        /\ node'[c].msk = left /\ node'[c].fns = node[c].fns
    <3>1. node[c] \in [msk : SUBSET Dir, fns : SUBSET Dir]
      BY <1>1 DEF ReachInv, HandleInv, HandleTypeOK
    <3>2. [node[c] EXCEPT !.msk = left].msk = left /\ [node[c] EXCEPT !.msk = left].fns = node[c].fns
      BY <3>1
    <3>3. node'[c] = [node[c] EXCEPT !.msk = left]
      BY <1>1, <2>1 DEF Observed
    <3>4. QED
      BY <1>1, <2>1, <3>2, <3>3 DEF Observed, Watched
  <2> HIDE DEF left
  <2>3. Tables' /\ NothingIdle'
    BY <1>1, <1>2, <2>2 DEF ReachInv, Tables, NothingIdle
  <2>4. OwnCallbacks'
    <3>1. Watched \subseteq Observed
      BY DEF ReachInv, HandleInv, KernelAgrees
    <3>2. \A k \in Watched : node'[k].fns = node[k].fns
      BY <2>2, <3>1
    <3>3. QED
      BY <2>2, <3>2 DEF ReachInv, OwnCallbacks
  <2>5. ASSUME NEW k, NEW n, Waits(k, n) PROVE Waits(k, n)'
    BY <2>2, <2>5, <1>1 DEF Waits
  <2>6. BatchWaits'
    BY <2>5 DEF ReachInv, BatchWaits
  <2>7. QED
    BY <2>3, <2>4, <2>6
<1>3. CASE left = {}
  <2>1. node' = Drop(node, {c}) /\ interest' = Drop(interest, {c})
    BY <1>3 DEF RemoveHandle
  <2>2. /\ Observed' = Observed \ {c} /\ Watched' = Watched \ {c}
        /\ \A k \in Observed' : node'[k] = node[k]
    BY <2>1 DEF Observed, Watched, Drop, Restrict
  <2>3. added' = [added EXCEPT ![c] = Nobody]
    BY <2>2 DEF Observed
  <2>4. Tables' /\ NothingIdle'
    <3>1. Nobody \in [Dir -> Nat]
      BY DEF Nobody
    <3>2. added' \in [Fds -> [Dir -> Nat]]
      BY <2>3, <3>1 DEF ReachInv, Tables
    <3>3. QED
      BY <2>2, <3>2 DEF ReachInv, Tables, NothingIdle
  <2>5. OwnCallbacks'
    <3>1. Watched \subseteq Observed
      BY DEF ReachInv, HandleInv, KernelAgrees
    <3>2. \A k \in Watched' : k \in Watched /\ node'[k] = node[k] /\ added'[k] = added[k]
      BY <1>1, <2>2, <2>3, <3>1 DEF ReachInv, Tables
    <3>3. QED
      BY <3>2 DEF ReachInv, OwnCallbacks
  <2>6. ASSUME NEW k, NEW n, Waits(k, n) PROVE Waits(k, n)'
    BY <2>2, <2>6 DEF Waits
  <2>7. BatchWaits'
    BY <2>6 DEF ReachInv, BatchWaits
  <2>8. QED
    BY <2>4, <2>5, <2>7
<1>4. QED
  BY <1>2, <1>3

\* A poll reports what the kernel watches, which is in use.
LEMMA PollReaches ==
  ASSUME ReachInv, PollEvents, origin' = open, UNCHANGED <<sockVars, added>>
  PROVE  Tables' /\ NothingIdle' /\ OwnCallbacks' /\ BatchWaits'
<1>1. node' = node /\ interest' = interest /\ open' = open /\ file' = file
  BY DEF PollEvents, handleVars, sockVars
<1>2. PICK n \in 1..Cardinality(Watched) : events' \in [1..n -> Reports]
  BY DEF PollEvents, Batches
<1>3. Watched \subseteq Fds /\ Cardinality(Watched) \in Nat
  BY FdsAssumption, FS_Subset, FS_CardinalityType DEF ReachInv, HandleInv, HandleTypeOK
<1>4. n \in Nat
  BY <1>2, <1>3
<1>5. Reports \subseteq [fd : Fds, ready : Masks] /\ \A e \in Reports : e.fd \in Watched
  <2>1. Reports \subseteq [fd : Watched, ready : Masks]
    BY DEF Reports
  <2>2. QED
    BY <1>3, <2>1
<1>6. events' \in Seq([fd : Fds, ready : Masks]) /\ Len(events') = n
      /\ \A i \in 1..n : events'[i].fd \in Watched
  <2>1. \A i \in 1..n : events'[i] \in Reports
    BY <1>2
  <2>2. events' \in [1..n -> [fd : Fds, ready : Masks]]
    BY <1>2, <1>5
  <2> DEFINE S == [fd : Fds, ready : Masks]
  <2> HIDE DEF S
  <2>3. events' \in [1..n -> S]
    BY <2>2 DEF S
  <2>4. events' \in Seq(S) /\ Len(events') = n
    BY <1>4, <2>3
  <2>5. QED
    BY <1>5, <2>1, <2>4 DEF S
<1>7. Tables'
  BY <1>6 DEF ReachInv, Tables
<1>8. NothingIdle' /\ OwnCallbacks'
  BY <1>1 DEF ReachInv, NothingIdle, OwnCallbacks, Observed, Watched
<1>9. ASSUME NEW k \in Watched PROVE k \in DOMAIN origin' /\ Waits(k, origin[k])'
  <2>1. k \in DOMAIN open
    BY DEF ReachInv, OwnCallbacks
  <2>2. open[k] \in DOMAIN file
    BY <2>1 DEF ReachInv, SockPromises, SockInv, SockFits
  <2>3. QED
    BY <1>1, <2>1, <2>2 DEF Waits, Watched
<1>10. BatchWaits'
  BY <1>6, <1>9 DEF BatchWaits
<1>11. QED
  BY <1>7, <1>8, <1>10

\* The other steps of the loop leave events out, in their order.
LEMMA LoopStepsReach ==
  ASSUME ReachInv, UNCHANGED <<handleVars, sockVars, added>>,
         events' = events \/ events' = <<>> \/ (events # <<>> /\ events' = Tail(events)),
         origin' \in {origin, <<>>}
  PROVE  Tables' /\ NothingIdle' /\ OwnCallbacks' /\ BatchWaits'
<1>1. node' = node /\ interest' = interest /\ open' = open /\ file' = file
  BY DEF handleVars, sockVars
<1>2. NothingIdle' /\ OwnCallbacks'
  BY <1>1 DEF ReachInv, NothingIdle, OwnCallbacks, Observed, Watched
<1>3. ASSUME NEW k, NEW n, Waits(k, n) PROVE Waits(k, n)'
  BY <1>1, <1>3 DEF Waits, Watched, Observed
<1> DEFINE E == [fd : Fds, ready : Masks]
<1>4. events \in Seq(E) /\ added' \in [Fds -> [Dir -> Nat]]
  BY DEF ReachInv, Tables
<1>5. BatchWaits
  BY DEF ReachInv
<1> HIDE DEF E
<1>6. CASE events' = events
  <2>1. BatchWaits'
    BY <1>3, <1>5, <1>6 DEF BatchWaits
  <2>2. QED
    BY <1>2, <1>4, <1>6, <2>1 DEF Tables, E
<1>7. CASE events' = <<>>
  BY <1>2, <1>4, <1>7 DEF Tables, BatchWaits
<1>8. CASE events # <<>> /\ events' = Tail(events)
  <2>1. /\ events' \in Seq(E) /\ Len(events') = Len(events) - 1 /\ Len(events) \in Nat
        /\ \A i \in 1..Len(events') : events'[i] = events[i + 1]
    BY <1>4, <1>8
  <2>2. \A i \in 1..Len(events') : i + 1 \in 1..Len(events)
    <3> DEFINE n == Len(events)
    <3>1. n \in Nat /\ Len(events') = n - 1
      BY <2>1
    <3> HIDE DEF n
    <3>2. \A i \in 1..(n - 1) : i + 1 \in 1..n
      BY <3>1
    <3>3. QED
      BY <3>1, <3>2 DEF n
  <2>3. BatchWaits'
    BY <1>3, <1>5, <2>1, <2>2 DEF BatchWaits
  <2>4. QED
    BY <1>2, <1>4, <2>1, <2>3 DEF Tables, E
<1>9. QED
  BY <1>6, <1>7, <1>8

LEMMA ReachStep ==
  ASSUME ReachInv, [SocketLoopNext]_socketLoopVars
  PROVE  ReachInv'
<1>1. SockPromises' /\ HandleInv'
  BY SocketLoopKeeps, SocketHandles DEF ReachInv
<1> DEFINE Kept == Tables' /\ NothingIdle' /\ OwnCallbacks' /\ BatchWaits'
<1>2. CASE CallSocket
  <2>1. PICK s \in Socks : SockCall(s)
    BY <1>2 DEF CallSocket
  <2>2. StaysClosed /\ StaysOpen
    BY <2>1, CallStays DEF ReachInv, SockPromises
  <2>3. QED
    BY <1>1, <1>2, <2>2, QuietCallsReach DEF CallSocket, ReachInv
<1>3. CASE CloseSocket
  <2>1. PICK s \in Socks : Close(fd[s]) /\ (CloseSck(s) \/ CloseSckFails(s) \/ CollectOpen(s))
    BY <1>3 DEF CloseSocket
  <2>2. KernelCloses(fd[s])
    BY <2>1 DEF CloseSck, CloseSckFails, CollectOpen
  <2>3. UNCHANGED <<events, added, origin>>
    BY <1>3 DEF CloseSocket, loopVars, historyVars
  <2>4. QED
    BY <1>1, <2>1, <2>2, <2>3, ClosingReaches DEF ReachInv
<1>4. ASSUME NEW s \in Socks, NEW m \in Masks, Observe(s, m) PROVE ReachInv'
  <2>1. fd[s] \in Fds /\ UNCHANGED <<open, file, events, origin>>
    BY <1>4 DEF Observe, Watchable, loopVars
  <2>2. CASE IsOpen(s) /\ AddHandle(fd[s], m)
              /\ added' = [added EXCEPT ![fd[s]] = [d \in Dir |-> IF d \in Stored(m) THEN FileOf(s) ELSE @[d]]]
    BY <1>1, <2>1, <2>2, AddingReaches DEF IsOpen, FileOf, ReachInv
  <2>3. CASE AddHandleFails(fd[s]) /\ UNCHANGED added
    BY <1>1, <2>1, <2>3, AddingFailsReaches DEF ReachInv
  <2>4. QED
    BY <1>4, <2>2, <2>3 DEF Observe
<1>5. ASSUME NEW s \in Socks, NEW m \in Masks, Unobserve(s, m) PROVE ReachInv'
  <2>1. fd[s] \in Fds /\ RemoveHandle(fd[s], m) /\ UNCHANGED <<open, file, events, origin>>
        /\ added' = IF fd[s] \in DOMAIN node' THEN added ELSE [added EXCEPT ![fd[s]] = Nobody]
    BY <1>5 DEF Unobserve, Watchable, loopVars
  <2>2. QED
    BY <1>1, <2>1, RemovingReaches DEF ReachInv
<1>6. CASE PollSockets
  BY <1>1, <1>6, PollReaches DEF PollSockets, ReachInv
<1>7. ASSUME DispatchSocket \/ OtherSteps \/ UNCHANGED socketLoopVars PROVE ReachInv'
  <2>1. UNCHANGED <<handleVars, sockVars, added>> /\ origin' \in {origin, <<>>}
    BY <1>7 DEF DispatchSocket, OtherSteps, Dispatch, RunCall, PollInterrupted, PollTimesOut,
       DispatchMissing, HandlerReturns, HandlerFails, StartTasks, EndIteration, socketLoopVars,
       vars, historyVars
  <2>2. events' = events \/ events' = <<>> \/ (events # <<>> /\ events' = Tail(events))
    BY <1>7 DEF DispatchSocket, OtherSteps, Dispatch, RunCall, PollInterrupted, PollTimesOut,
       DispatchMissing, HandlerReturns, HandlerFails, StartTasks, EndIteration, socketLoopVars,
       vars, loopVars
  <2>3. QED
    BY <1>1, <2>1, <2>2, LoopStepsReach DEF ReachInv
<1>8. QED
  BY <1>2, <1>3, <1>4, <1>5, <1>6, <1>7 DEF SocketLoopNext

LEMMA ReachInvariant == SocketLoopSpec => []ReachInv
<1>1. SocketLoopInit => ReachInv
  <2> SUFFICES ASSUME SocketLoopInit PROVE ReachInv
    OBVIOUS
  <2>1. SockPromises /\ HandleInv
    BY SocketsBegin, HandleInitInv DEF SocketLoopInit, Init
  <2>2. DOMAIN node = {} /\ DOMAIN interest = {} /\ events = <<>> /\ origin = <<>>
    BY DEF SocketLoopInit, Init, HandleInit
  <2>3. Nobody \in [Dir -> Nat]
    BY DEF Nobody
  <2>4. Tables
    BY <2>2, <2>3 DEF Tables, SocketLoopInit
  <2>5. NothingIdle /\ OwnCallbacks /\ BatchWaits
    BY <2>2 DEF NothingIdle, OwnCallbacks, BatchWaits, Observed, Watched
  <2>6. QED
    BY <2>1, <2>4, <2>5 DEF ReachInv
<1>2. ReachInv /\ [SocketLoopNext]_socketLoopVars => ReachInv'
  BY ReachStep
<1>3. QED
  BY <1>1, <1>2, PTL DEF SocketLoopSpec

\* The direction of an event that is handled is one that has a callback.
LEMMA DirectionHasCallback ==
  ASSUME NEW e, HasCallback(e), e.ready \subseteq Dir
  PROVE  Direction(e) \in node[e.fd].fns /\ Direction(e) \in Dir
BY DEF HasCallback, Direction, Dir

\* The callback that runs for an event is one that was added for the socket that has the
\* event, also after sockets were closed without removeHandle() and their numbers given to
\* others, unless a callback of the same batch closed it (p_ael_epl.c, t_ael_dnd.c).
THEOREM EventsFindTheirOwn == SocketLoopSpec => EventsReachTheirOwn
<1> DEFINE A == at = "events" /\ at' = "handler" /\ origin # <<>> =>
                  LET e == events[1]
                      n == origin[e.fd]
                  IN  file[n].st = "closed" \/ added[e.fd][Direction(e)] = n
<1>1. ReachInv /\ [SocketLoopNext]_socketLoopVars => [A]_socketLoopVars
  <2> SUFFICES ASSUME ReachInv, SocketLoopNext, at = "events", at' = "handler", origin # <<>>
               PROVE  file[origin[events[1].fd]].st = "closed"
                      \/ added[events[1].fd][Direction(events[1])] = origin[events[1].fd]
    OBVIOUS
  <2>1. DispatchSocket
    BY DEF SocketLoopNext, CallSocket, CloseSocket, Observe, Unobserve, PollSockets, OtherSteps,
       vars, loopVars, PollEvents, RunCall, PollInterrupted, PollTimesOut, DispatchMissing,
       HandlerReturns, HandlerFails, StartTasks, EndIteration
  <2>2. events # <<>> /\ events[1].fd \in Observed /\ HasCallback(events[1])
    BY <2>1 DEF DispatchSocket, Dispatch
  <2> DEFINE e == events[1]
             k == e.fd
             d == Direction(e)
  <2>3. 1 \in 1..Len(events) /\ e.ready \subseteq Dir
    <3>1. events \in Seq([fd : Fds, ready : Masks])
      BY DEF ReachInv, Tables
    <3> DEFINE S == [fd : Fds, ready : Masks]
    <3> HIDE DEF S
    <3>2. events \in Seq(S) /\ events # <<>>
      BY <2>2, <3>1 DEF S
    <3>3. 1 \in 1..Len(events) /\ e \in S
      BY <3>2
    <3>4. e.ready \in Masks
      BY <3>3 DEF S
    <3>5. QED
      BY <3>3, <3>4 DEF Masks
  <2>4. Waits(k, origin[k])
    BY <2>3 DEF ReachInv, BatchWaits
  <2>5. d \in node[k].fns /\ d \in Dir
    BY <2>2, <2>3, DirectionHasCallback
  <2> HIDE DEF d
  <2>6. CASE file[origin[k]].st = "closed"
    BY <2>6
  <2>7. CASE file[origin[k]].st # "closed"
    <3>1. open[k] = origin[k] /\ k \in Watched
      BY <2>2, <2>4, <2>5, <2>7 DEF Waits
    <3>2. added[k][d] = open[k]
      BY <2>5, <3>1 DEF ReachInv, OwnCallbacks
    <3>3. QED
      BY <3>1, <3>2 DEF d
  <2>8. QED
    BY <2>6, <2>7
<1>2. EventsReachTheirOwn <=> [][A]_socketLoopVars
  BY DEF EventsReachTheirOwn
<1> HIDE DEF A
<1>3. QED
  BY <1>1, <1>2, ReachInvariant, PTL DEF SocketLoopSpec
===============================================================================
