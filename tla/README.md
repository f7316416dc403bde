# simplesvr in TLA+

Models, model checks and proofs of simplesvr, a small C++ copy of Tornado: a
single-threaded event loop, TCP streams, an HTTP server and a DNS resolver over
it, and containers in shared memory. Paths like `IOStream.cpp:203` are under
`src/tornado/` unless they begin with `test/`.

Run the checks in this directory:

    tlc -workers 2 -config MCIOStream.cfg MCIOStream    # one run, see "Runs"
    tlapm TimeoutQueueProofs.tla                        # one module of proofs

`PROJECT.json` is the index: components, runs, theorems, hazards, findings, the
source lines that each definition models (`map`) and, for each property, a
mutation of the model that makes it fail (`mutants`; their definitions stand
next to what they mutate, marked "Mutant of").

## The system

In one process everything happens in one thread, in `IOLoop::start`. Objects
talk by calls downwards (application -> HTTPConnection -> IOStream -> IOLoop) and
by callbacks upwards, and most of the latter go through `IOLoop::addCallback`:
they run in the loop's next iteration. What makes this hard is never two
threads. It is that (a) a callback may call back into the object that is
iterating, (b) what was true when a callback was queued or an event reported
need not be when it is delivered, (c) the kernel and the peer move between any
two system calls, and c-ares inside any call of it, and (d) the shared memory is
that of several processes, which may die between any two statements.

| Component | State | Operations | Talks to | Hard about it | What makes it correct |
|---|---|---|---|---|---|
| **Buffer** (`Buffer.h/.cpp`) | an array, a read index, a write index | append, retrieve, read to string, search, ensureWritableBytes / hasWritten | used by IOStream | room in total but not behind the write index: compaction | a FIFO of bytes that uses its whole capacity |
| **TimeoutQueue** (`TimeoutQueue.h/.cpp`) | pending timers with two indexes, an id counter | add, erase, runOnce, runLoop | called by IOLoop; calls timers, which add and erase | callbacks change the queue being run; ids wrap | each timer has one fate; never early; in order; ids unique |
| **IOLoop, EPollImpl** (`IOLoop.*`, `EPoll.*`) | running flag, callback queue, handler table and count, timers, epoll set | addHandler, updateHandler, removeHandler, addCallback, addTimeout, removeTimeout, addSignalHandler, start, stop | everything | callbacks queued by callbacks, removals during a dispatch, more events than one report holds, how long to sleep, when to end | order, nothing starved, no oversleeping, ends for a reason |
| **IOStream** (`IOStream.*`) | two Buffers, the pending read (by length, delimiter or until close), four callbacks, the events asked for | connect, readBytes, readUntil, readUntilClose, writeBytes, justWriteBytesToBuff, setCloseCallback, close, handleEvents | posts to IOLoop | partial reads and writes; which events to watch; closing with bytes or requests pending | every request answered once or the stream closed; no byte lost; no interest lost |
| **TcpServer** (`TcpServer.*`) | the listening socket | listen, start, stop, handleConnection | IOLoop, makes IOStreams | listens that fail half-way, ECONNABORTED, EMFILE, numbers used again | handlers match their files; the backlog is served; stop ends it |
| **App** (`App.*`) | a self-renewing timer, signal handler | start, stop, runOneLoop, SIGTERM | IOLoop | stop() inside its own timer | stops when told, and leaves nothing |
| **HTTPConnection, HTTPServer** (`HttpServer.*`) | the request, request_finished_ | startRun, onHeaders, onRequestBody, onWriteComplete, finish | reads and writes a stream; calls the application | who closes, and when; who keeps the objects alive | no assert of the stream is met; the whole response goes out, then the connection closes |
| **HTTPHeaders and the parsers** (`HttpServer.*`) | headers, cookies, arguments, last_key_ | parseHttpRequest, parse, parseLine, parseCookies, parseQs, parseBodyArguments | HTTPConnection | continuations, repeated keys, empty pieces | the maps say what the text says; refused exactly when malformed |
| **RequestHandler, Application** (`Web.*`) | finished_, status, the body | execute, write, finish, send_error; stop | answers a connection | the handler may finish later than it was asked | as HTTPConnection |
| **Resolver** (`Resolver.*`) | one callback, one timer id, one state of a socket; the c-ares channel | gethostbyname, on_timer, process_fd, sock_state_callback, run_callback | IOLoop, c-ares | the timer races the answer; callbacks start the next lookup; a second socket | one answer per lookup, nothing left in the loop |
| **shm containers** (`shm/container.hpp`) | a named segment with the objects, a TimerQueue with its next id | attach; add, erase, getExpirationTimer | boost::interprocess, other processes | two processes attach at once; a creator dies; a copy and its erases are not atomic | one container per name; no timer lost or handed out twice |
| shm message queue (`shm/mq.hpp`), Logging, Util, util/*, tests | none that others read | forwarding, formatting, system calls | | | |

All but the last row is modelled.

## Modules

    ByteQueue <- Buffer <- IOStream <- HttpConnection        <- : is used by
                 TimeoutQueue <- IOLoop <- TcpServer, App    (or is implemented by)
                 Resolver      HttpParser      ShmContainer <- ShmTimerQueue

**ByteQueue** says what Buffer promises: a sequence of at most Capacity bytes,
and what each call returns. **Buffer** is the code: an array of Capacity cells,
`read_index`, `write_index`, and the operations of `Buffer.cpp` with
`MakeSpace` (the compaction) where the code calls it. Uninitialised cells hold
`Junk`. `BQ` is the refinement mapping; the property `RefinesByteQueue`
is ByteQueue's specification under it.

**TimeoutQueue** keeps `timeouts`, `nextId` (modulo `IdModulus`, 2^64 in the
code) and, while a run is on, `run` and the local vector `batch`. `Add` and
`Erase` can be called between runs and inside a callback; `Fire` calls the next
callback, `NextPass` and `EndRun` are the loop of `runInternal`. `now` is
arbitrary, so a clock that is set back is covered here.

**IOLoop** instantiates TimeoutQueue for its timers. `phase` is the place
`start()` has reached, `frame` the application code on the stack. While
`frame` is not `none` the API may be called any number of times; `Return` goes
back to the loop. epoll is its interest set and ready list, kept in the order
of last report as the kernel does, and `EventsNum` bounds one report. The
60 s cap, the zero timeout when callbacks are queued and the time to the next
timer are `PollTimeout`.

**IOStream** keeps the object's members in the record `s`; the read buffer is a
record of module Buffer and operated on with its operators, so that compaction
and the missing `beginWrite` in `readToBuffer` are the code's. A call that
reaches `handleRead` or `handleWrite` leaves `pc` at `reading` or `writing`, and
each `read(2)` and `write(2)` is a step, so that the peer can send, close or
reset in between. The callbacks the stream gives to the loop are appended to
`s.posted` and never removed there: `posted` is also the history of what was
delivered. That the loop runs them in order and eventually is what IOLoop's
`CallbacksFIFO` and `CallbackRuns` say.

**HttpConnection** is the application of one stream. It instantiates IOStream
(`Stream`) and drives it: a method that calls the stream several times is one
step per call, `then` says which comes next, and only the stream's own loops
and the network run in between. An iteration of the loop is `Iterate` (take the
batch of posted callbacks), the callbacks in order (`Called`), `Poll`,
`Dispatch`. What parsing a header or a body yields is a choice: refused, no
body, a body, a body with 100-continue. Handlers finish in their callback or at
any later time, with any of the bodies in `BodyLens`.

**HttpParser** is what that choice abstracts: the parsers by themselves. A text
is a sequence of tokens (the separators, a space, letters), a step is one call,
on any text of the bounds. The reference definition it is checked against
(`Pieces`, `Means`, `ValueUpTo`) says where things stand in the text and uses
none of the splitting and accumulating of the code.

**TcpServer** and **App** extend IOLoop and are its application code: `at`
(`app_at`) says where that code is, and each call it makes of the loop or the
kernel is one step, so that the loop's own steps are those of module IOLoop.
TcpServer has the kernel's table of descriptors (`file`: numbers are given out again once
closed), whose handler is behind each number (`owner`), and the backlog; what
handleStream makes of a connection is cut down to keep it and read, or drop
it. The signal handler there is that of `Web.cpp`'s Application.

**Resolver** has `cb`, `timer` and `state` as the code does, one of each, and
`stack`, the calls in progress: c-ares runs only inside `gethostbyname`,
`process_fd`, `on_timer` and the destructor, may open, change and close
sockets and end queries there, and calls back. `strained` remembers what went
beyond one lookup, one socket and one timer at a time, and the properties say
what still holds after each strain.

**ShmContainer** is the constructor that all containers of `container.hpp` have:
open, or create and construct, or find and check, by several processes, with
the name removed by `ShmRemove` and deaths at any step. **ShmTimerQueue** is the
TimerQueue on top: ids modulo `IdModulus` (2^32), an `insert` that refuses an
id in use, a copy of what has expired and one erase per node.

MC modules name model values and sets; there is one .cfg for each run.

## Runs

States are distinct states. Deadlock is checked in `buffer`, `timeout_queue` and
`ioloop`, where some call is always possible. It is not elsewhere: once closed,
destroyed or stopped, with the bounded calls used up, the others rightly stop.

| Run | States | Shows |
|---|---|---|
| `buffer` | 12,700 | every call does what the byte FIFO's call of that name does |
| `timeout_queue` | 350,000 | one fate per timer, unique ids, firing rules, runs drain |
| `ioloop` | 376,000 | handler count, no oversleep, callbacks once and in order; callbacks, timers and ready descriptors are not starved |
| `iostream` | 1.53 million | interest, answers, byte accounts, until-close, close; reads and writes resolve, a dead peer is noticed |
| `iostream_intact` | violation | the read buffer is overwritten (finding 1) |
| `http` | 27,500 | asserts, ownership, whole responses, closing |
| `http_parser` | 954,000 | headers, cookies and arguments are what the text says; refused for a reason, and always then |
| `tcp_server` | 80,000 | handlers match files, the backlog is served, SIGTERM ends the server |
| `app` | 50,000 | SIGTERM ends the App; a loop that ends leaves nothing |
| `resolver` | 189,000 | own answers, which asserts can fail after what, an idle resolver is clean, lookups resolve |
| `resolver_assert` | violation | the assert of on_timer fails (finding 2) |
| `shm_timers` | 701,000 | one container, NULL only if early, timers conserved, which waits last |

Bounds, and why they are enough:

- **Buffer**: capacity 4, calls of up to 2 bytes, 2 byte values, delimiters of
  one and two bytes. Full, empty, and "room only after compaction" all occur,
  and a delimiter can straddle what was left and what was added.
- **TimeoutQueue**: 5 adds with ids modulo 3: ids wrap twice, past 0, and
  collide with pending ones. Two instants and delays 0 and 1 give timers that
  are due, not due, and due at once when added in a callback.
- **IOLoop**: 2 descriptors with one event per report (so one has to wait), 2
  callbacks with 2 pending (so one can queue another, or itself), a timer, a
  clock of 2 ticks with a poll cap of 2. `Conditions` contains READ only: WRITE
  is treated alike by the loop. `Requests` has the empty set, so that a
  descriptor can be muted. Several timers at once are `timeout_queue`'s, and
  that the loop uses its queue as that module says is a theorem
  (`TimersAreAQueue`). No symmetry: the run checks liveness.
- **IOStream**: capacity 4, chunks of 2, and 3 bytes from the peer of which the
  second is a delimiter: a chunk can end before, at and after what was asked
  for, and the buffer fills when unread bytes stay. Writes of 2 and 5 with a
  kernel that takes one byte at a time: partial writes, blocked writes and a
  write that does not fit. 2 reads, so that a callback's next read meets the
  leftovers of the last. In the violation run capacity 5 excludes a full
  buffer as the cause.
- **HttpConnection**: a request of 2 bytes and a third byte too many, responses
  of 1 to 3 bytes that leave the kernel one by one.
- **HttpParser**: three header lines (a field, a continuation of it or of an
  earlier one, a repetition), all texts of up to 3 tokens as queries and longer
  ones with a repeated key; values with spaces, continuations, `;`, `=` twice.
- **TcpServer**: three descriptors for a signalfd, the listening socket and
  connections, so that the table runs full (EMFILE) and numbers come back; two
  clients, two events per report, so that one can be stale when dispatched.
- **App**: four timers, delays of none, one, and beyond the clock's end; two
  descriptors for two calls of start().
- **Resolver**: three lookups (one that ends inside another that ends inside a
  third) over two sockets. **ShmTimerQueue**: two processes, two segments (one
  removed and made again), three adds with ids modulo 3 and room for two.

Fairness:

- The thread is scheduled: weak fairness of the code's own steps (`LoopStep`,
  `StreamStep`, `ServerStep`, `AppCodeStep`), and application code returns
  (`Return`). Time passes (`Tick`).
- The kernel completes or gives up `connect(2)` (its own time-out), and the
  peer's kernel takes the data it is sent (`PeerReceives`); where it does not, a
  blocked write lasts, as in the code. A peer is never assumed to send, close or
  reset. IOStream's fairness of `Poll` and `Dispatch` for one stream is what
  IOLoop's `ReadyIsDispatched` shows.
- Resolver: a call that has begun goes on and returns, timers run, and a name
  server answers a query whose socket is watched. The last is a strong fairness
  (of `ProcessFd`, and of the answer once c-ares is given the socket): retries
  and other events may come in between, but a server that is asked again and
  again is taken to answer once.
- ShmTimerQueue: a process that is in the constructor and lives goes on. Deaths
  need no fairness.

## Proofs

| Module | Theorems | Say, for all values of the constants |
|---|---|---|
| BufferProofs | `TypeCorrect`, `Refinement` | the indexes stay well formed; Buffer implements ByteQueue |
| TimeoutQueueProofs | `Invariance`, `TypeCorrect`, `FateIsOne`, `IdsAreUnique`, `FiringIsDisciplined`, `RunsEndDrained`, `RefusalNeedsWrap` | all properties of the run `timeout_queue` |
| IOLoopProofs | `Invariance`, `TypeCorrect`, `CountIsRight`, `CallbacksInOrder`, `NeverOversleeps`, `EndsForAReason`, `TimersAreAQueue` | all safety properties of the run `ioloop`; its timers implement TimeoutQueue |
| IOLoopProofs, of App and TcpServer | `AppEndsStopped`, `HandlersMatch` | `EndsStopped`, `HandlersOwnTheirFiles`: the safety properties of `app` and `tcp_server` |
| IOStreamProofs | `TypeCorrect`, `NoInterestLost`, `OneAnswer`, `ClosedForGood`, `AllBytesAccounted`, `InOrder`, `RestIsComplete` | the members keep their types; all safety properties of the run `iostream` |
| HttpConnectionProofs | `AssertsNeverFail`, `OwnerOutlivesWrite`, `ResponsesAreWhole` | all safety properties of the run `http` |
| HttpParserProofs | `HeadersMeanTheirLines`, `MapsMeanTheirTexts`, `RefusedForItsFault` | all properties of the run `http_parser` |
| ResolverProofs | `TypeCorrect`, `AnswersAreOwn`, `AssertsAreExplained`, `IdleStaysClean` | all safety properties of the run `resolver` |
| ShmProofs | `TypeCorrect`, `OneContainerAlways`, `NullOnlyIfEarlyAlways`, `ConservedAlways` | all safety properties of the run `shm_timers` |

The assumptions are those named in each module (`BufferAssumption`,
`TimeoutQueueAssumption`, ...): types of the constants, a modulus of at least 2,
chunks that fit a buffer. TLC evaluates them in the runs. A `TypeOK` is part of
these proofs and of no run; TLC has checked it, and the strengthenings below, as
invariants of the runs' instances before they were proved.

- *Buffer*: TypeOK is inductive as it stands. The refinement rests on a lemma
  for each buffer function saying what it does to `Contents`, the bytes between
  the indexes; each operation is then a step of ByteQueue.
- *TimeoutQueue*: the properties are not inductive. `Bookkeeping` adds what they
  need: the batch holds only events that are due, of runOnce only ones from
  before the run and none that belongs in front of a called one; an idle queue
  has an empty batch; everything due and still queued in a run was added in it.
  `IInv` is the conjunction; there is one lemma for each operation. That a
  refusal needs a wrap rests on `IdsAreStamps`: before the wrap, an id is the
  number of the add().
- *IOLoop*: the swap of the callback queue into the local batch keeps the order
  only if that batch is empty; `LoopInv` says it is, outside of the callback
  phase, and that the handler set is finite, so that its cardinality counts.
  `TimersAreAQueue` maps every step of the loop to a step of TimeoutQueue or to
  none.
- *App*: `AppInv` adds to it that a loop no `IOLoop::stop()` has ended runs, and
  that an App that runs has its signal handler registered, but for the moment
  between the handler's removal and its call of `stop()`. So the loop runs out of
  handlers only after App was stopped.
- *IOStream*: between two system calls the interest is not yet what it should
  be. `Interest` says who may lack what: inside a call of the API only what it
  has just asked for, inside handleEvents everything, which is enough because a
  write callback waits for bytes that are still in the buffer. `Balanced`
  relates the pending request to its callback and the answers to the calls.
  `Onward(t, u)` is what a method may make of an open stream: it is transitive and
  holds of each of them, so that a step of any length closes the stream with its
  close callback posted last; `AtRest` keeps a closed one out of the write loop.
  `Typed` and `Counted` are the types, where the work is in what compaction and
  the misplaced `read(2)` do to the indexes. `Stock` is the data: what was handed
  out, followed by what is buffered, is what `read(2)` took, byte for byte until
  one lands on unread bytes; the lemmas of BufferProofs say what each call makes
  of that. `ErrorIsReal` says that handleEvents is told of an error only when the
  connection failed: a stream that closes because its peer did has read it all.
- *HttpConnection*: `Keeps(t, u)` is what a step of the stream from t to u may
  not do to the connection; each method of the stream keeps, and Keeps is
  transitive, so that the actions are short. The invariant is `Starting` (nothing
  happens before the first read), `InTurn` (a read that has been answered is not
  pending), `OneWriteCallback`, `Owned` (the close callback is with the stream,
  or queued behind the write callback) and `Warned` (an error event comes from a
  connection that failed).
- *TcpServer*: `Place` says what runs on top of what, `Listening` that the
  listening file and the server's handler are socket_'s, `Closing` that what is
  closed next has no handler any more.
- *HttpParser*: the model splits, trims and collects with folds, as the code
  does with loops; its properties speak of positions in the texts. A fold is
  unrolled into its steps from the definition of FoldLeft, and an induction along
  it is made by its smallest counterexample, a least number (`LeastOf`). Then
  `SplitCuts` and `PiecesAreCut` say that the pieces of a split are what stands
  between neighbouring separators, `TrimmedItem` that trimming an item moves no
  "=", `PairsHold` and `PairsMean` that the last pair with a key is the one kept.
  Of the header lines, `FieldLine` and `ContinuationLine` say that one line more
  keeps the map what the lines mean; `ParserInv` is that, what parse keeps of the
  last line, and of each other map that it is what its text means once parsed.
- *Resolver*: three parts that do not speak of each other, `Answering` (cb_),
  `Timing` (timer_) and `OneSocket` (state_), over the shape of the calls in
  progress (`Nested`).
- *Shm*: OneContainer needs that every segment but the named one has lost its
  name; Conserved needs that one process is in an operation of a segment
  (`WorkInv`), that what it will erase is still there, and that a number is that
  of one timer (`NumberInv`). With these `PlaceInv` is inductive.

Model-checked only: the twelve liveness properties (`CallbackRuns`, `ReadResolves`,
`SigtermEnds`, ...), as TLAPS does no fairness or ENABLED. Every invariant and
every action property of the passing runs is also a theorem.

## Findings

1. **Overwritten input** (`IOStream.cpp:558`, run `iostream_intact`).
   `readToBuffer` reads to `data()`, the oldest unread byte, and then extends the
   end. A second `read(2)` before the application took the first bytes destroys
   them and delivers uninitialised ones. `IntactUnlessOverlaid` shows that this
   is the only way the order of bytes is lost.
2. **Assert on the timer** (`Resolver.cpp:153`, run `resolver_assert`). There is
   one `timer_`, and `gethostbyname` sets it when c-ares has returned
   (`Resolver.cpp:179-181`). A lookup that overlaps another, or one that c-ares
   answers at once, leaves a timer in the loop that is not in `timer_`; when it
   fires the assert ends the process. `AssertsExplained` shows that nothing else
   does.

Other things the models make visible, each allowed for by name in a property or
simply part of the model:

- A loop that ends because nothing is left leaves `running_` set (`IOLoop.cpp:155`)
  and the next `start()` returns at once (`IOLoop.cpp:121`). An App started again
  believes it runs, and a third start() meets `assert(!running_)` (`App.cpp:32`).
- `App::stop()` alone does not end the loop, the signal handler keeps it;
  `IOLoop::stop()` followed by another start leaves two chains of timers
  (therefore "of the first run" in `SigtermEnds`). Signalfds are never read or
  closed.
- A `readBytes` whose bytes arrived together with the end of the stream, or with
  a full buffer, is closed without an answer (`IOStream.cpp:450`); a comment at
  `IOStream.cpp:533` heads a disabled test for it.
- An empty response stays in the buffer with no WRITE interest and the connection
  stays open (`Web.cpp:163`, `IOStream.cpp:141`): the exception in
  `FinishedCloses`.
- If writing 100-continue closes the stream, the read that follows stores in it a
  callback that owns the connection: neither is destroyed (`HttpServer.cpp:203`,
  `389-391`).
- A form is looked for in the header Content-Encoding, not Content-Type
  (`HttpServer.cpp:296`); an empty query, a trailing separator and a value with
  `=` are refused.
- A `listen()` that fails after `socket(2)` leaves `socket_` set
  (`TcpServer.cpp:63`), and a second call meets the assert.
- `TimerQueue` does not check the pointer `nextId_` (`container.hpp:482`, `498`),
  and a creator that dies leaves those that attach waiting for ever.
- `IOStream.cpp:571` says `erron`, which is declared nowhere, so the file as it
  stands does not compile; it is modelled as `errno`, as in the lines next to it.

## Not modelled

Of the modelled components:

- errno values passed to callbacks, log text, getters, `print`.
- SIGPIPE: `WriteFails` is a process that ignores it.
- Descriptor numbers in IOStream: a closed descriptor that the process has
  reused. A read of a closed stream fails with EBADF in the model. (In TcpServer
  they are modelled.)
- C++ object lifetime, but for `OwnedUntilWritten`: in particular a handler that
  removes itself destroys the function being run.
- `start()` called inside a handler after `stop()`; descriptors out of range of
  the handler table; empty callbacks; calls on a client's socket before
  `connect()`. IOLoop's clock does not go back.
- `HTTPCode` (a table), the map from paths to handlers, getters of the request.
- The shm containers' forwarding calls, their data and `destroy()`; a death
  inside the update of a tree node; two processes in one container at once,
  which is a data race: callers are taken to let one in at a time.

Not at all: `shm/mq.hpp` (two forwarding calls), Logging, Util and util/*, the
tests. None of them keeps state that the rest reads; what would be left to check
is formatting and coding.
