# TLA+ models of lua-t

lua-t is a Lua library written in C and Lua: an event loop, non-blocking
sockets, an HTTP server built on both, and a number of data modules (buffers,
packers, CSV, encoders, ordered tables). This directory holds TLA+ modules for
it, TLC configurations that check them on small instances, and TLAPS proofs of
what matters most for every instance. Paths are relative to the root of the
repository; `PROJECT.json` maps each definition to the lines it models.

    tlc -workers 2 -config Sockets.cfg MCSockets       # model-check a run
    tlapm TaskQueueProofs.tla                          # check proofs

## 1. The system

### Components

| Component | State | Operations | Modelled in |
|---|---|---|---|
| Loop: timed tasks (`src/t_ael_tsk.c`) | linked list `tskHead` of `t_ael_tsk{tout, nxt}` ordered by remaining time, `ael->tout` | insert, remove, adjust, process, execute; `addTask`, `cancelTask`, `clean` | `TaskList`, `TaskQueue`, `Timers` |
| Loop: descriptors (`src/t_ael_dnd.c`, `src/p_ael_epl.c`, part of `src/t_ael_l.c`) | table fd -> node `{msk, read fn, write fn}`, `fdCount`, the kernel's epoll interest list | `addHandle`, `removeHandle`, `clean`, execute | `Descriptors` |
| Loop: run (`src/t_ael_l.c`) | `ael->run`, the batch of events of one poll, the time an iteration takes | `run`, `stop`, poll | `EventLoop`, `LoopTimes` |
| Loop: select backend (`src/p_ael_sel.c`) | two fd sets, the largest number, the scan | as above | `SelectLoop` |
| Sockets (`src/t_net_sck.c`, `src/p_net_sck_unx.c`, `lua/t/Net/Socket.lua`) | an object's descriptor, the kernel's sockets, options, the tables of families, types and protocols | create, bind, listen, connect, accept, send, recv, shutdown, close, select, options | `Sockets`, `NetSelect`, `SocketOptions`; on a loop `SocketLoop` |
| Addresses and interfaces (`src/t_net_adr.c`, `src/p_net_ifc_lnx.c`, `lua/t/Net/{Address,Interface}.lua`) | one `sockaddr_storage` for all families; the chain of `getifaddrs()` and the tables made from it | set, get, compare, copy, filled by the kernel; list, get, default | `Address`, `Interfaces` |
| HTTP server and stream (`lua/t/Http/{Server,Stream,Response}.lua`) | per client: socket, requests, responses, `keepAlive`, `isOnOutLoop`; per response: state, buffer | accept, recv, respond, send, addResponse, destroy; writeHead, write, finish | `HttpStream` |
| HTTP request parser (`lua/t/Http/Request.lua`, `src/t_htp_req.c`) | parser state, tail, headers, content length | receive, parse | `HttpRequest`; `HttpStream` has the steps of the request's state |
| Buffer and segment (`src/t_buf*.c`) | bytes of a fixed length; windows with a position and a length | read, write, clear, index, next, set | `Buffers` |
| Pack (`src/t_pck_*.c`) | a cached tree of packers with byte and bit offsets, the default byte order | make from formats, combine, read and write a buffer | `Pack` |
| CSV (`src/t_csv_l.c`, `lua/t/Csv.lua`) | parser state, the record so far, the line | parse a line, rows | `Csv` |
| Encode: RC4, CRC, Base64 (`src/t_enc_*.c`) | cipher state, tables, running sum | crypt, calc, reset, encode, decode | `Encode` |
| Numarray (`src/t_nry_l.c`) | integers | create, index, reverse, iterate, compare | `Numarray` |
| OrderedHashTable, Set, Table (`lua/t/*.lua`) | keys by position and values by key in one Lua table; elements as keys | by key and by position, loops; set algebra; clone, map, equals | `OrderedHashTable`, `OrderedMap`, `LuaSet`, `TableTools`, `LuaTable` |
| Test runner (`lua/t/Test.lua`, `lua/t/Test/Suite.lua`) | results by the text of a name | run, skip, todo | `Suite` |
| WebSocket, HTTP constants, the old test runner in C, the unused HTTP server in C, helpers | | | no, see section 5 |

### How they interact

The program is single-threaded. `loop:run()` repeats an iteration: poll for at
most `ael->tout` milliseconds, run the callback of each ready descriptor, then
let `t_ael_tsk_process` age the tasks by what the iteration took and run those
that are due. Every callback is Lua code that may call the whole API, so the
list, the node table, `fdCount`, `tout` and `run` may change between any two
steps of the loop, and an error in a callback unwinds out of `run()` and leaves
them as they are. The kernel's interest list is a second copy of the node table
that `epoll_ctl` keeps in step, unless a call fails or the program closes a
descriptor itself. Where there is no epoll, `select()` takes its place: its sets
are kept by the calls and scanned by number.

A socket object holds a descriptor's number, and the loop looks it up when
`addHandle` is called. Nothing tells the loop that the socket was closed: its
node stays, and the kernel gives the number to the next socket.

The HTTP server registers its listening socket with the loop; accepting makes a
stream whose `recv` is the read callback of the client's socket. `recv` hands
requests and responses to the program, which may write to a response in that
callback or at any later time. Writing calls `Stream.respond`, which sends what
it can, and asks the loop to call it again when the socket is ready for writing
(`isOnOutLoop`).

### What is hard

* re-entrance: a task's callback cancels, cleans or re-arms tasks, itself
  included, while it is in the list; a descriptor's callback removes another
  descriptor of the batch; a response is written while another is being sent;
* two copies that must agree: `tout` and the head of the list, `fdCount` and
  the nodes, nodes and epoll, `isOnOutLoop` and what the loop watches;
* numbers that are used again: a closed socket's number goes to the next one
  while nodes, events and objects still hold it;
* partial failure: `epoll_ctl` fails after the node was counted, `clean` stops
  half-way, a callback raises an error, a send takes a part or nothing;
* time: whole milliseconds are passed on and the rest is lost, a `lua_Integer`
  becomes an `int`, negative delays collide with `T_AEL_NOTIMEOUT`;
* progress: `stop()` must end `run()` whatever the callbacks do; a busy
  descriptor must not keep tasks from running;
* input in pieces: requests, CSV rows, ciphers and checksums go on from one call
  to the next, and a piece may end anywhere;
* one storage for several things: the bytes of a buffer under overlapping
  windows, bits of one word, an address read as three families, the positions
  and the values of an ordered table.

`PROJECT.json` lists each such hazard at its line under "hazards", with the
properties that cover it or the reason why none does.

### What makes each component correct

| Component | Properties |
|---|---|
| Tasks | the list is sorted, ends and has no task twice; due tasks run earliest first and no pass leaves one behind; `tout` is no shorter than the head's time and is `T_AEL_NOTIMEOUT` exactly when nothing is pending |
| Descriptors | `fdCount` is the number of nodes; epoll watches what the nodes ask for; a read event has a callback |
| Run | `run()` returns exactly when it was stopped or nothing is left; `stop()` ends it; no task runs early; tasks run |
| select backend | a scan serves every descriptor that was reported and that no callback touched |
| Sockets | an object's number is that of its own socket; an address that is returned is the one listened on; `recv` tells the end from a pause; an event reaches the callback of its own socket; `Net.select` returns the sockets that are ready; an option reads as it was set, and a socket as the kind it was created as |
| Addresses and interfaces | IP and port are those set last, whatever else was in the storage; each address of an interface is told once and in order; the default is the interface that received most of those that serve |
| Requests | the same request is understood whatever pieces its text arrives in; the end of a header is not seen before it is there; no header line is cut or joined to another |
| Streams | no piece of a response is lost, doubled or mixed with another response's; a finished response gives up its place as long as `isOnOutLoop` tells the truth; the loop calls `respond` only when there is something to send; reading stops when the client ends the connection, and not before |
| Buffers | a window never leaves its buffer; a call that the process survives changes bytes of its window alone; a walk over windows misses no byte; `read` returns what was asked for |
| Pack | what was written is read, with every other bit left alone; a combinator reads what its fields read; packers that share an object are the same |
| CSV | the rows of a file without escape characters are the records its author wrote, however they are spread over lines |
| Encoders | the result does not depend on how the text is cut into calls; the sums are polynomial remainders; decoding inverts encoding |
| Tables and sets | both halves of an ordered table agree and it is an ordered map; a loop sees what it should; set operators are those of sets; a copy is apart from its original |
| Suite | tests with names of different texts are all reported in order, the failed ones collected; those of one text share one result |

## 2. The modules

    Timers  <---implements---  TaskQueue  <---implements---  TaskList
                                   |
                               EventLoop  (EXTENDS TaskQueue, Descriptors)
                                /      \
                         LoopTimes   SocketLoop  (EXTENDS EventLoop, Sockets)

    Descriptors  <---extended by---  EventLoop, Sockets, SelectLoop, HttpStream
    Sockets, Address, NetSelect, SocketOptions, Interfaces          (t.Net)
    OrderedMap  <---implements---  OrderedHashTable     (EXTENDS LuaTable)
    LuaTable  <---extended by---  LuaSet, OrderedHashTable, Suite
    HttpRequest, Csv, Buffers, Pack, Encode, Numarray, TableTools

* **Timers** - what the timer half of the loop promises: a set of pending
  tasks. A pass lets time elapse, fires due tasks earliest first, and settles
  only when none is due.
* **TaskQueue** - the same as a sorted sequence with `ael->tout`. `Slot`,
  `Inserted`, `ToutInserted`, `Removed`, `ToutRemoved`, `Adjusted` are the
  functions of `t_ael_tsk.c`; `AddTask`, `CancelTask`, `CleanTasks` the calls
  of the API; `Process`, `ExecuteHead`, `Finish`, `CallbackFails`,
  `ProcessDone` the steps of `t_ael_tsk_process` and `t_ael_tsk_execute`, cut
  where Lua code runs. `running` is the task whose callback runs; meanwhile
  every call of the API is possible (`InLua`).
* **TaskList** - the linked list itself: `head`, `nxt` per task, the walks of
  insertion and removal, and the links that tasks keep when they leave the
  list. Its refinement mapping follows the links into TaskQueue's sequence.
* **Descriptors** - node table, `fdCount`, epoll's interest list. Every call
  of the API is one action, with a variant for the failing `epoll_ctl`;
  `CleanHandles` may stop anywhere. `Close` is the program closing a
  descriptor under the loop. `torn` is a history variable.
* **EventLoop** - `lt_ael_run` around both. `at` is the place in an iteration:
  "lua" (outside), "poll", "events", "handler" (a descriptor's callback),
  "tasks". `PollEvents`, `PollTimesOut`, `PollInterrupted` are the outcomes of
  `epoll_wait`; `Dispatch` and `DispatchMissing` handle an event;
  `HandlerReturns`, `HandlerFails`, `TaskReturns`, `TaskFails` end callbacks;
  `StartTasks` measures the iteration; `EndIteration` decides whether `run()`
  goes on. `run()` called from inside a callback is left out.
* **LoopTimes** - EventLoop with history variables for the real time each task
  still has to wait, to ask whether one runs early.
* **HttpStream** - the streams of a server on the loop's descriptors. A request
  is how far the parser got ("head", "body", done); a response is its state and
  the number of pieces in its buffer; `wire` is the history of what each client
  was sent. `SendAll`, `SendSome`, `SendBlocks`, `SendFails` are the outcomes
  of `send`; `Respond` is called from `AddResponse` (the program writes) and
  from `Writable` (the loop). Since `respond` runs in the middle of `Write` and
  `Finish`, it is written over the streams and responses the call has made so
  far (`st`, `rs`). The callbacks of the loop are taken one at a time, as the
  loop runs them; which one is next is left open.
* **HttpRequest** - one request and the parser. A client's text is a sequence of
  symbols, the separators the parser looks for and one symbol for each word;
  `Receive` is `receive` of `Request.lua` with the next symbols, `Parse` is
  `lt_htp_req_parse` with its four stages, which return the text they could not
  use. `Width` says how many characters a symbol stands for, where the code
  counts them. `unlucky` is a history variable: a piece ended at one of the places
  where the code loses text, or behind the URL's blank, where `size_t l = end - r`
  wraps and the parser looks for the end of the version's line in the memory behind
  the text (`Behind` is what that may hold).
* **SelectLoop** - Descriptors where `select()` polls: `fd_set` and `fdMax`,
  which start with whatever the memory holds (`marks`, `MaxNumber`), the scan
  (`pos`, `left`) and the callbacks that change both while it goes on. `ran` and
  `changed` are history.
* **Sockets** - the objects with their numbers, and of the kernel the numbers in
  use (`open`) and the sockets behind them (`file`). `socket()` and `accept()`
  take the lowest free number. `SocketListen`, `SckListen` and `SckListenBound`
  are the three forms of `listen`, with the results they look at and those they
  do not. `CloseSckFails` is a `close()` that reports an error and leaves the
  number in the object. `made`, `lost` and `report` are history.
* **SocketLoop** - sockets on a loop: every call of Sockets and EventLoop, with
  `Close` of Descriptors for each socket that is closed. `added` (the socket a
  callback was stored for) and `origin` (what the numbers stood for when a batch
  was reported) are history, to ask whether events reach their own callback.
* **Address** - the storage of an address as parts that overlay each other: the
  IPv4 address lies where IPv6 has its flowinfo, a path over all of them.
  `ListenAddress` and `BindAddress` are what the Lua wrappers make of their
  arguments.
* **NetSelect** - the two scans of `Net.Socket.select`, which share one count.
* **SocketOptions** - options as flag bits, ints and times of two fields; and
  what `Socket()` makes of its arguments, each left out, a number or a name,
  through tables in which several names share a number.
* **Interfaces** - the loop over the chain of entries, which fills one table per
  name, and the loop of `default()` over these tables in the order of `pairs()`.
* **Buffers** - bytes and windows; every call that writes names in `call` the
  object it was made through. `write` takes any position and length, as nothing
  compares the length with the string: behind the string it copies a 0 and then what
  the memory holds (`Memory`); a negative length that passes the check (`WriteAllowed`)
  runs over the window, and the process ends with it ("overrun"). `walk` is history: what a walk with `next` passed.
* **Pack** - packers as records with the fields of `struct t_pck`. `ReadValue`
  and `Written` are the bit arithmetic of `t_pck__readwrite.c`, `CallRead` and
  `Fields` the descent into combinators. Bytes of `NB` bits and integers of
  `MXINT` bytes keep the arithmetic and make it small. `t_pck_idx_*` is declared
  and not in the repository: it is modelled from its use.
* **Csv** - `Turn` is one character of the parser's automaton; `Parser` is its state
  after each character of a line, and `ParseLine` what the call returns; the steps of
  a behaviour are those of the iterator. `WrittenWithoutEscapes` describes the texts in
  which values are quoted and quotation characters in them doubled, of any length and
  with any values: the theorem is about these, and the documents of the run are among
  them (below). The escape character of `docs/Csv.rst` is not read by the code and is
  in none of them (section 6).
* **Encode** - RC4 as state and stream, the checksums with the tables their code
  builds, Base64 by groups. A byte has `4 * S` bits.
* **Numarray** - with the width of its integers and of the `int` in `reverse`.
* **LuaTable, OrderedHashTable, OrderedMap** - a Lua table as a function;
  `arr` and `hash` are the two halves of an ordered one; `loop` is a loop over
  one of them whose body calls anything. OrderedMap is what the documentation
  promises: sequences of pairs with distinct keys. Keys are no integers and values
  not nil (section 6).
* **LuaSet, TableTools, Suite** - sets, with the places that look at keys and
  those that look at values; trees of tables with copies that share; suites.
* **MCTaskList, MCLoop, MCTimes, MCHttp, MCRequest** are the instances of one
  module each. **MCSockets** and **MCValues** put several components that know
  nothing of each other into one run: a variable `job`, chosen initially, says
  which of them takes the steps of a behaviour, so that their states add up and
  do not multiply. MCCsv has the texts of Csv, and an assumption, which TLC evaluates,
  that those which are split at line feeds are written as `WrittenAs` says.
* **TaskQueueProofs, TaskListProofs, DescriptorsProofs, EventLoopProofs** (with
  LoopTimes and SelectLoop)**, SocketsProofs** (with SocketLoop)**, NetProofs**
  (Address, SocketOptions, Interfaces, NetSelect)**, HttpStreamProofs, ValuesProofs**
  (Buffers, the ordered table, LuaSet, Suite, Numarray, TableTools, Csv) - the proofs.

Operators that are used nowhere but differ slightly from the one they stand
before (`SlotReversed`, `ReleasedNever`, ...) are plausible bugs: put in the
place of that operator they break the property that `PROJECT.json` names under
"mutants".

### What is abstracted

Tasks and responses are identities: the code allocates a new object for each,
so `AddTask` takes a task that is neither in the list nor running. Callbacks
are arbitrary sequences of calls of the API, one step each. Text is abstracted
to what the code tells apart: the pieces a response's calls add, the separators
of a request or a CSV line and one symbol for each word. A partial send splits
the buffer between pieces. A descriptor is its number, as in the code: after
`close` the number may stand for something else. Reading from a stream's socket
yields whatever leads to the request's next states. Bytes, words and integers
have fewer bits than the machine's. A call that raises an error and changes
nothing is left out. Event handlers of a server, formatting, printing and, but
for socket objects, garbage collection are left out.

## 3. The runs

| Run | Instance | Shows |
|---|---|---|
| `tasklist` | `TaskList`, 3 tasks, delays and elapsed times 0..2 | the pointer operations never make a cycle and implement TaskQueue, with tasks added, cancelled, cleaned away and re-armed from callbacks |
| `loop_timers` | `LoopTimes`, 2 tasks, 1 descriptor, delays 0..3, `IntMax` 2 | the list's order and timeout in the running loop, Timers' promises, and no early task when it was armed outside of a descriptor's callback |
| `loop_live` | `EventLoop`, 2 tasks, 2 descriptors, delay 1 | `stop()` ends `run()`; tasks of a loop that keeps measuring whole milliseconds are run |
| `loop_sockets` | one of: all calls of 3 sockets; 3 sockets on a loop; `EventLoop` with 1 task and 2 descriptors; `SelectLoop`; `Address`; `NetSelect`; `SocketOptions`; `Interfaces` | nodes, count and kernel stay in step when callbacks change them inside a batch; `run()` returns exactly when stopped or when nothing is left; numbers are owned and events reach their own callback although numbers are given out again; `select()` loses nothing; addresses, ready sockets and options are the ones that were set; interfaces are told as the kernel lists them |
| `http_streams` | `HttpStream`, 2 clients, 2 descriptors, 3 responses of up to 2 pieces | no piece lost, doubled or mixed; places are released; the loop watches what the stream needs |
| `values` | one of: 29 requests cut into pieces in every way; CSV files with the values of `MCCsv`; 2 buffers and a segment; packers; encoders; an array; 2 ordered tables; a loop over one; 2 sets; a suite of 3 tests; trees of 3 tables | the request understood is the one the client means, whatever the pieces, but for the places of `http_pieces`; records come out as written; windows, bits, sums, tables, sets, copies and results hold what they are meant to hold |
| `loop_documented_end`, `loop_early`, `loop_stale_timeout`, `http_waits`, `http_pairs`, `http_pieces` | the same instances, smaller where that suffices | findings, section 6 |

### Bounds

* *Three tasks* in `tasklist`: a task then has a predecessor and a successor
  when it is inserted, removed, cleaned away or re-armed, which is every case
  of the walks over the list. In the loop two tasks give a head and another.
* *Delays and elapsed times of 0 to 2 or 3 milliseconds* make tasks overdue,
  due, equal and apart; the code only compares and subtracts them.
  Negative delays are excluded from the runs, and from the theorems only
  where they are wrong (`PendingHasTimeout`, `EndsWhenDone` speak of
  non-negative ones).
* `TicksPerMs = 2`: an iteration may be shorter than a millisecond, which is
  what the loss of fractions needs. `MaxTicks` bounds one iteration by the
  longest delay of the instance.
* `IntMax = 7` is beyond every delay; `IntMax = 2` in MCTimes is below one, so
  that a delay wraps when it is passed to `epoll_wait`.
* *Two descriptors*: one callback of a batch changes what the next event
  meets, also in `loop_live`, where the next event may find no node.
* *Three socket objects, three sockets of the kernel (`MaxFiles`), numbers 1 and
  2*: a server, a client and the connection; or a number that is given to a
  second socket while the loop still knows it for the first. `MaxFiles` is what
  ends the making of sockets. *Two ports* make one taken. `MaxData = 1` separates
  an empty receive buffer from one with data; `recv` is asked for 0 or 1 byte.
  The sockets are interchangeable (`Swaps`).
* `MaxNumber = 3` lets the memory that `fd_set` and `fdMax` are made of hold more
  than any descriptor. `Words` and `PortEnd = 4` are two values for each part of
  an address, and ports of which one is beyond the width. `MaxEntries = 3` lets
  a table of `Net.select` have a socket twice. `PerSec = 4` gives times with
  seconds, with a rest, and negative ones. A socket is created anew only until an
  option is assigned: nothing of it is left then.
* *Chains of interfaces* have the loopback, an `eth0`, and an `eth1`, a docker
  bridge or a tunnel, with up to two addresses, in several orders, and an address
  with a label, which is an interface of its own without a link.
* *Two clients, two descriptors*: a client gets the number another one's
  socket had, or both are open at the same time. *Three responses*: a client
  has one in the table, one waiting and a third one made later. `MaxPieces = 2`
  lets a send take a part. The numbers of clients and of responses are also what
  ends a behaviour of `HttpStream`, so its runs do not check deadlock.
* *Requests of up to three lines* have a line with a colon in its value, a
  continued one, one without a colon, one given before another of its kind
  (`Connection`), and the two lines the parser understands. Pieces of every length
  put the end of a piece between any two symbols, so before and after each
  character that the parser looks ahead at. Values of no characters, and the
  `?`, `=` and `&` of a URL, are left out.
* *CSV*: tables of up to two rows with each value that needs care (a delimiter,
  a quote, a line break, blanks, nothing), each way to quote it, both ends of
  lines, with and without names.
* *Buffers of up to three bytes*: the last window of a walk by two is a shorter
  one. Positions and lengths of -3 to 4 lie on both sides of every limit; the
  byte 200 is negative as a `char`.
* *Packers*: bytes of two bits (`NB`), integers of two bytes (`MXINT`), a buffer
  of three (`Size`) and one behind it: a field begins and ends at a border or
  between two, and covers one, two or three bytes. An array has up to
  `MaxFields = 4` fields.
* *Encoders*: with `S = 1` a byte has four bits, RC4 sixteen places, and a sum
  four to sixteen bits. Texts of one to three bytes and their concatenations up
  to `MaxText = 6` give Base64 each number of "=".
* *Arrays* of up to `MaxArray = 4` elements of `LongBits = 4` bits; the `int` of
  `reverse` has three, so that -8 and 6 do not fit.
* *Ordered tables*: three keys, two values, two tables, so that each can be
  compared with a copy; calls with several arguments take `MaxArgs = 1` pair in
  addition, a loop makes up to `MaxSeen = 3` turns. Where a loop runs there is one
  table and one value.
* *Trees*: `Depth = 3` tables of up to `MaxKey = 2` keys: a table in a table in
  the root, shared or not.
* `MCValues` and `MCSockets` come to an end where their texts do, so that they do
  not check deadlock. The model values of MCHttp are interchangeable: its runs use
  symmetry, and check invariants only.

### Fairness

`FairSpec` of EventLoop assumes that the thread runs (`WF` on the steps that
wait for nothing), that callbacks return or raise an error, and that a poll with
a timeout ends (`WF` on `Poll` while `~WaitsForever(tout)`). The code is
one thread, so the first is the scheduler's part; the second is the program's,
which the loop cannot enforce; the third is what `epoll_wait` promises.
Nothing is assumed of the environment: no descriptor ever has to become ready,
no program has to call `run()`. `StopReturns` is checked for delays of at least
a millisecond: a callback that re-adds a task with a delay of zero keeps
`t_ael_tsk_process` from ever ending, which is a hazard and not a property.
`HttpStream` has no liveness properties: which response is ever sent depends on
the program and the client. The other components do what they are called for and
wait for nothing.

## 4. The proofs

All theorems are for arbitrary constants that meet the named assumptions:
`TaskAssumption` and `ListAssumption` (delays are integers, elapsed times
naturals, `NoTask` is no task; the linked list is one of finitely many tasks),
`FdsAssumption` (finitely many descriptors), `LoopAssumption` (ticks to
milliseconds; a measured time is in `Elapsed`), `HttpAssumption` (`None` is
neither a descriptor, a response nor a client), `SelectAssumption` and
`SocketAssumption` (descriptors and ports are numbers), `AddressAssumption`
(words and ports), `OptionAssumption` (options are integers),
`InterfaceAssumption` (the entries of a chain have the fields of `ifaddrs`, and
the loopback has no broadcast address), `BufferAssumption` (strings are sequences
of bytes, sizes naturals), `OhtAssumption`, `NoTableAssumption` and
`SetAssumption` (the values that stand for nothing are not tables or sets),
`SuiteAssumption` (the texts of names), `NumarrayAssumption` (an `int` is shorter
than a `long`), `TableAssumption` (tables are no atoms, there is a depth and a
largest key), and `DialectAssumption` (the delimiter and the quotation character
differ, and neither is a blank or ends a line). `WrittenRecordsAreKept` is the only
theorem with a hypothesis about what a program is given, `WrittenWithoutEscapes(doc)`:
the values of the text are quoted where they must be, quotation characters in them are
doubled, there is no escape character, and the text is split at line feeds.

| Module | Theorem | Says |
|---|---|---|
| TaskQueueProofs | `TaskTypes`, `TasksInOrder`, `TimeoutNeverShort`, `TimeoutTells` | type correctness and the invariants of `loop_timers` |
| | `QueueImplementsTimers` | TaskSpec implements Timers |
| DescriptorsProofs | `CountIsExact`, `KernelFollows`, `ReadCallback` | fdCount, nodes and epoll are in step; a read event has a callback |
| EventLoopProofs | `LoopImplementsTasks`, `LoopImplementsHandles` | the loop uses its tasks and descriptors only as TaskQueue and Descriptors allow |
| | `LoopTasks`, `LoopImplementsTimers`, `LoopHandles` | so what was proved of the parts holds in the running loop |
| | `TasksAreNotEarly` | `NotEarly`, for all delays, negative ones included |
| | `RunEndsWhenDone` | `EndsWhenDone`, for non-negative delays |
| | `SelectServesAll` | `SelectLosesNothing`, for whatever the memory held |
| TaskListProofs | `ListsEnd` | `ListEnds`: no cycle of links, for any number of tasks |
| | `ListIsQueue`, `ListStaysInOrder` | ListSpec implements TaskQueue, so the order that was proved of the sequence holds along the links |
| SocketsProofs | `NumbersAreOwned`, `AddressesAreTrue`, `NothingIsTheEnd` | `OwnsItsFile`, `AddressIsTrue` and `NothingMeansEnd` on a running loop |
| | `EventsFindTheirOwn` | `EventsReachTheirOwn`: the callback of an event is that of the socket it was reported for, unless that one is closed |
| NetProofs | `AddressesKeep` | `AddressKeeps` |
| | `SocketsReadBack` | `OptionsReadBack` |
| | `InterfacesAreTold` | `InterfacesTold`, for every chain of entries |
| | `SelectTellsAll` | `SelectIsExact`, for tables of any length |
| HttpStreamProofs | `StreamTypes` | type correctness of the streams |
| | `StreamsImplementHandles`, `StreamHandles` | the streams use the loop only as Descriptors allows, so fdCount, nodes and epoll agree under them |
| | `StreamOrder` | `OneAtATime` |
| | `StreamKeepsPieces` | `PiecesKept` |
| | `StreamIsWatched`, `StreamReleases` | `LoopWatchesStream`, `DoneIsReleased` |
| ValuesProofs | `SegmentsStayInside`, `WalksMissNothing`, `CallsStayInWindow` | windows stay in their buffers; walks; `OnlyInWindow` |
| | `ReadRangeIsAsked`, `ReadsAreAnswered` | the range `read` takes, and `ReadsWhatIsAsked`, for all integers |
| | `TablesAreOrderedMaps` | OhtSpec implements OrderedMap |
| | `ReadersTellTheSame`, `ReadersAndLoopsServe` | `ReadersAgree`, `OhtServes` |
| | `SetsStaySets` | `SetsAreSets` |
| | `SuitesReport` | `SuiteReports` |
| | `ArraysHold` | `HoldsWhatWasStored`, for arrays of any length |
| | `TreesOfTablesAreKept` | `TablesKept`, for trees of any depth and tables of any size |
| | `WrittenRecordsAreKept` | `RecordsKept`, for texts of any length without escape characters that are split at line feeds |

*Tasks.* The inductive invariant adds to the order of the list what the other
properties need of each other: that `tout` is `T_AEL_NOTIMEOUT` when the list is
empty, and that otherwise it is `T_AEL_NOTIMEOUT` too or at least what the head
has left; `PendingHasTimeout` adds that no delay in the list is negative unless
a program passed one. Insertion and removal are
lemmas about sorted sequences (`Slot`, `Inserted`, `Removed`, `Adjusted`), used
by every action. The refinement maps the sequence to the set of its entries:
`ExecuteHead` is `Fire` because the head of a sorted list is a minimum,
`ProcessDone` is `Settle` because nothing behind a head that is not due is due.

*The linked list.* `ListInv` says that the pointers lead from the head through a
sequence of tasks, each once, and then nowhere. What the code's walks compute is a
recursive function, of which the prover has no induction: `WalkMeets` shows that
the function which the sequence gives solves its equation, and that two solutions
have no first place where they differ. With it, `Sequence(list)` is that sequence,
and each pointer operation is TaskQueue's operation on it; a link that a task
keeps when it leaves the list does not matter, as nothing leads to it. The
theorems of TaskQueueProofs are then instantiated with the mapping.

*Descriptors.* `HandleInv` is the conjunction of the types and the three
invariants. `KernelAgrees` needs the history variable `torn`, since a descriptor
that the program closed is known to the node table and not to the kernel.

*Loop.* Every step of EventLoop is a step of TaskQueue and of Descriptors or
leaves their variables alone; that `ticks` is bounded gives the elapsed time in
`Elapsed`. With the invariants of both parts, the test of `lt_ael_run` (`tout`
and `fdCount`) is the test of the list and the table, which is `EndsWhenDone`.

*Time.* `NotEarly` needs `TimeInv`: what a task really has to wait, with what the
iteration has taken so far, is at most what its entry in the list says, unless a
descriptor's callback armed it. The list is aged by whole milliseconds, so it
loses no more than really passed (`AdjustedAged`); and wherever else a task is
armed, the time of the iteration is zero (`PlaceInv`), so that nothing from before
is taken off it. Only a descriptor's callback runs in the middle of that time,
which is the finding `loop_early`.

*select().* What has to be carried through a scan is a count: the directions that
are ready at the numbers still to come, less those a callback changed, are no
more than `left`, and no observed number is beyond `fdMax`. So the scan cannot end
while one of them waits.

*Sockets.* `OwnsItsFile` is not inductive: `SockInv` adds that no two objects have
the same number, which needs that a number that is given out is a free one
(`LowestIsFree`, from the smallest element of a finite set), and that connections
that wait are sockets that exist. The other two speak of the last call alone and
follow from the types. `EventsReachTheirOwn` needs `ReachInv` on top: what epoll
watches is a number in use whose callbacks were added for the socket behind it,
a node without a mask has no callbacks, and an event that waits in the batch is
for a socket that still has its number or is closed. That no call can undo this
rests on two facts of the kernel, that a closed socket stays closed and that
only `close` takes a number away (`StaysClosed`, `StaysOpen`).

*Addresses, options, interfaces.* An address keeps its IP and port while its
family is another one, as the parts that lie over each other are the same ones
(`AddressInv`). That options read back is inductive once what was assigned and what
the kernel keeps have their types (`AskedFits`, `KernelFits`); a step is arithmetic on
seconds and milliseconds. A socket is what its arguments stand for (`CreatedInv`), and
the name read from a table has the same number as the one given, also where it is
another name. For interfaces `TablesInv` relates each table to the entries that were
read so far, its addresses by a map to the entries they came from, and `DefaultInv`
adds to the property that two tables which were compared both have a number; it
needs that the loopback never serves.

*Tables of sockets and arrays.* `SelectIsExact` follows from what a scan is after
each entry (`Scanned`): it has told the ready entries so far, in their order, or it
is over and its count is used up; as each socket is counted once, a scan that is over
has told as many entries as are ready, so all of them. `NryInv` is
`HoldsWhatWasStored` one element at a time: a number that does not fit an `int` spoils
its own place alone. `reverse` is the closed form `Swapped` after each swap.

*Streams.* `StreamInv` relates each stream and its responses: a stream is open
exactly when it has a socket, a response in its table is one of its own. It is
stated for any pair `st`, `rs`, as `respond` works on the pair that the call
around it has made. `OneAtATime` is not inductive: `OrderInv` adds that what an
open stream has sent belongs to the response in its table or to responses that
are finished and empty, that an earlier response is never the one in the table,
and that nothing was sent before there was a stream. Then a response that takes
the free place is new on the wire, since the program has not finished it.
`PiecesKept` is inductive once `OrderInv` is known, which says on whose wire a
response can be. The other two are parts of `ServedInv`: open streams have
different sockets and the loop watches no others, each is watched for what its
state asks for (`Suits`), and a finished, empty response gives up its place unless `isOnOutLoop` is set: where that
flag tells whether the loop watches the socket for writing (`FlagTells`), this is
`DoneIsReleased`. Where it does not, `http_waits` shows a stream that never goes on. Its
proof is one of frames: what a call does to the node of one socket leaves the
streams of the other sockets as they were.

*Buffers.* `BufIInv` adds that the buffer of a segment exists. Buffers are made
under free names and keep their length, so a window that passed the check of
`t_buf_seg_set` once stays inside; the arithmetic of the checks is in lemmas.
A `write` that passes the checks with a positive length fits in its window
(`WriteInside`), and what it copies are bytes, those behind the string too.
`ReadsWhatIsAsked` needs that every byte is in 0..255, also those written as a
negative `char`; the rest is arithmetic of a byte and its digits.

*Tables.* `OhtInv` (the keys in `arr` are distinct and those of `hash`) is
inductive by itself. A lemma for each helper says what it does to the elements in
their order, and the steps of the refinement are these lemmas. A loop needs where
the keys it has seen are now (`LoopInv`): at or before its position and in the order in
which they were seen, unless they were removed. That is lost when the body inserts, as
that every element behind the position was seen is lost when it removes: `OhtServes`
claims the one only of bodies that inserted nothing, the other of those that removed
nothing. `SuiteInv` says the same as `SuiteReports` of the run so far, with the
case that runs and the table of results; a result that takes the place of an earlier
one keeps the position of the text, and a text that no case had before comes last.

*Trees of tables.* A table holds only tables of a smaller rank (`IsTree`), which every
call keeps: a program builds the original from its leaves, a copy ranks above all of
it. That is why the recursive functions which resolve and compare tables are defined
everywhere (`ContentsAre`, `EqualsAre`): below the least rank at which there is no
such function there is one, and it goes on by one rank. The same way `equals()` is
right of two values if it is of all in them (`EqualsExact`), where a table without
holes has one border and one with holes at least one. `TreeInv` adds what
`CopiesStayApart` needs: which tables a deep copy holds, so that a write one level
below it does not reach a table of the original, and that nothing in the original
refers to the copy (`OriginalKept`).

*Records of a text.* The hypothesis of `WrittenRecordsAreKept` is
`WrittenWithoutEscapes(doc)`: no escape character is in the text, which is a sequence of parts, each of which ends before a line feed (skipped
lines, the names of the columns, records, empty lines). Every field of a record is
missing, naked (no delimiter or line feed in it, nothing that is trimmed at its ends) or quoted,
with its quotation characters doubled and any other character as it is; blanks may
stand around it, carriage returns after a naked one. No value ends in a carriage
return, as `t_csv_pushfield` strips it, and no two columns have one name. The argument
goes up in four steps. The state after each character is one of eight records, and what
`Turn` makes of it at a blank, a quotation character or an end is a lemma each
(`BeginIs`, `NakedIs`, `QuotedIs`, `ClosedIs`). From a field's beginning to its end the
parser reads that field and puts its value into the row (`MissingField`, `NakedField`,
`QuotedField`, with `UndoubledIs` and `StrippedIs` for what `t_csv_pushfield` does). Up to a
line feed inside of a value the parser stops in that value and hands out the text from its
first quotation character (`FieldCut`), so a turn of `rows()` either ends the record
or leaves the fields before the open one and the text from it on (`RecordParsed`).
`CsvInv` is the invariant: so many parts have been read, the records in them have been
returned, and what is parsed next with the text still to come is what is left of the
next part. `IsPrefix` alone is not inductive, as it says nothing of a record that is half
read. The claims about all characters of a field or a text are proved at the least
position at which they would fail.

### Only model-checked

Checked on the instances above and not proved: `RecordsKept` for texts that are split at
"\r\n" (the proof is for line feeds, `"\r"` before them included), and `Understood`,
`PackersExact`, `CombinatorsReadFields` and `EncodersExact`, which are
about what recursive operators and folds compute from data of any length and depth:
that takes induction over the data, and the library's induction theorems cannot be
instantiated by the installed provers. (Where one loop runs over one sequence, as in
`NetSelect`, `Numarray`, `TaskList` and `Csv`, or over one tree, as in `TableTools`, it is a
recursive function instead, and the least argument at which a claim about it would
fail takes the place of induction.)
Liveness
(`StopReturns`, `MeasuredTaskSettles`) stays with TLC: it needs fairness, which
the proof system does not reason about.

## 5. Not modelled

Left out of components that are modelled:

* `run()` called from a callback, collecting a loop, and the functions that only
  read (`time`, `show`, `tostring`, index);
* `Server.listen` and the server's event handlers, the text of responses, the
  method's name and the query of a request, the headers `Expect`, `TLS` and
  `Upgrade`; the stream's timeout is commented out in `Server.lua`;
* datagram sockets, and the text of an address or an interface;
* the iterator and the registry entries of packers, `keys`, `values`, `asstring`
  and `pprint` of tables, the text of a suite's report.

Not modelled at all:

* *WebSocket* (`src/t_htp_wsk.c`, `lua/t/Http/WebSocket.lua`): nothing upgrades a
  stream to it, and its functions keep no state;
* *HTTP constants*: tables without behaviour;
* *the test runner in C* (`src/t_tst_l.c`, `src/t_tst_cse.c`): superseded by
  `Test.lua` and commented out of the build (`src/Makefile`);
* *`src/__unused`*: the former HTTP server in C, kept and not built;
* *helpers* (`src/t.c`, `src/t_dbg.c`): error messages, type checks, debug output.

`PROJECT.json` lists the same under "components". What may come next: the parts of
`Understood` that do not depend on a whole fold, as lemmas about one stage of the
parser.

## 6. Findings

Each is a run that ends in a violation of what a document or a comment of the
repository says.

| Run | Property | What the code does |
|---|---|---|
| `loop_documented_end` | `RunEndsAsDocumented` | a callback that removes a descriptor which has an event later in the batch makes `run()` raise a type error (`src/p_ael_epl.c:208`) |
| `loop_early` | `NeverEarly` | a task added in a descriptor's callback is aged by the whole iteration, including the time before it was added, and runs early (`src/t_ael_l.c:403`) |
| `loop_stale_timeout` | `PollWaitsForHead` | `ael->tout` is not aged with the tasks: after an event the next poll may wait for the head's full delay again (`src/t_ael_tsk.c:38`) |
| `http_waits` | `WaitsWhenOnLoop` | `isOnOutLoop` is set to true where the write handle is removed: a kept stream that blocked once never sends again (`lua/t/Http/Stream.lua:105`) |
| `http_pairs` | `PairsAnswered` | every response has the id 1, so one that is finished while another has the place is never sent (`lua/t/Http/Stream.lua:153`) |
| `http_pieces` | `PiecesDoNotMatter` | a header whose last `\n` comes in another piece raises an error, since the rest of the text gets a negative length (`src/t_htp_req.c:330`); a rest of one character is dropped (`src/t_htp_req.c:410`); behind the blank after the URL the parser reads memory that is not text (`src/t_htp_req.c:260`) |

### Where the code gives less than its documents say

The following disagreements are no runs of their own. Each is disclosed at the property
it touches, which says what the code does or leaves the case out, and under "hazards".

| Document | Says | Code | Property |
|---|---|---|---|
| `docs/Csv.rst:80-123` | `escapechar` protects delimiters and quotation characters, and is the only way to when `doublequote` is false | both are passed to the parser (`lua/t/Csv.lua:43, 51`, the second named `doublequoted`), which uses neither (`src/t_csv_l.c:70`, "TODO: handle escape char"): a backslash is a character as any other, and doubled quotation characters are always one | `RecordsKept` is about texts without escape characters |
| `docs/Net.Interface.rst:119-122` | `default()` is the interface "with the most transmitted bytes", the loopback only "*IF* it suffices above flags" | compares `rx_bytes`, and returns the loopback whenever nothing else serves (`lua/t/Net/Interface.lua:36-45`) | `InterfacesTold` says what the code does |
| `docs/Buffer.rst:132`, `test/t_buf.lua:66` | a byte is between 0 and 255, and what `string.byte()` gives | `buf[i]` is a `char`: from 128 on it is less by 256 (`src/t_buf_l.c:329`) | `ReadsWhatIsAsked` says what the code does |
| `docs/Buffer.Segment.rst:123-126` | `==` when length and content are identical | `strncmp` stops at the first byte 0 the two have in common (`src/t_buf_l.c:248`) | `ReadsWhatIsAsked` says what the code does |
| `src/t_buf_l.c:167` | "requested length out of range" | the length is a `size_t`: a negative one passes when it is not below `1 - idx`, and the length is not compared with the string | `OnlyInWindow` excepts the write with a negative length, and holds whatever is copied from behind the string |
| `docs/Test.Suite.rst:77-79, 130-134, 144-147` | results in order of execution, each failed one collected, each under its name | kept by `tostring(name)` (`lua/t/Test/Suite.lua:90, 94`): of the tests `1` and `"1"` the later replaces the result of the earlier at its position | `SuiteReports` says what is documented of tests whose names have different texts, and what the code does of the others |
| `docs/OrderedHashTable.rst:153-157` | `oht[i] = nil` has no effect where there is no element | raises an error and changes nothing | none |
| `docs/Net.Socket.rst:113, 246` | `bind` and `connect` take a host without a port | the host is forgotten (`lua/t/Net/Socket.lua:58`) | `AddressKeeps` says nothing of the host then |

Further, a flag option is cleared by keeping only it (`src/p_net_sck_unx.c:367`), a deep
clone copies one level (`lua/t/Table.lua:115`), `default()` raises an error for an
address with a label (`lua/t/Net/Interface.lua:40`), `OrderedHashTable.insert` takes
integer keys and nil values, with which the two parts of a table get out of step
(`lua/t/OrderedHashTable.lua:84-89`; the calls of the model have neither), a set stores
what is assigned to it, false included (`lua/t/Set.lua:61`, where `SetsAreSets` ends),
and `equals()` does not return for two tables that hold themselves (`lua/t/Table.lua:68`;
the tables of the model are trees).
