# A TLA+ model of miniMuduo

miniMuduo (`src/src`) is a C++ reactor library: one `EventLoop` per thread, channels over epoll,
timers over a timerfd, TCP servers and clients built on them, and a small HTTP server. This
directory models its control in TLA+, checks it with TLC on small instances and proves the central
results with TLAPS for every number of threads, functors, timers, channels and bytes.

## The system

| Part | State | Operations | What makes it hard |
|---|---|---|---|
| `EventLoop` | `quit_`, `looping_`, `callingPendingFunctors_`, `pendingFunctors_`, the eventfd | `loop`, `quit`, `runInLoop`, `queueInLoop`, `wakeup`, `handleRead`, `doPendingFunctors` | other threads push and quit at every point of the loop; the eventfd must be written exactly when the owner could sleep |
| `EventLoopThread` | `loop_`, the thread, a condition variable | `startLoop`, `threadFunc`, destructor | the loop lives on the stack of the other thread |
| `EventLoopThreadPool` | `next_`, `numThreads_` | `start`, `getNextLoop` | round robin at its limit |
| `Channel`, `EPoller`, `Poller` | events, index, `channels_`, the epoll set / `pollfds_` | `enable...`, `disable...`, `update`, `remove`, `poll`, `handleEvent` | three views of the same registration |
| `TimerQueue` | `timers_`, `activeTimers_`, `cancelingTimers_`, the timerfd | `addTimer`, `cancel`, `handleRead`, `reset` | cancels from inside a batch, timers in the past, a cancel that overtakes the add |
| `Acceptor`, `TcpServer` | `connections_`, listening socket | `start`, `newConnection`, `removeConnection` | a removal crosses from the connection's loop to the base loop and back |
| `TcpConnection` | `state_`, channel, buffers, shared pointers | `send`, `shutdown`, `connectEstablished`, `connectDestroyed`, the handlers | functors that hold the connection and functors that do not; `state_` tested in one thread and used in another |
| `Connector`, `TcpClient` | `state_`, `connect_`, `retryDelayMs_`, retry timer, connection | `connect`, `disconnect`, `stop`, retry, destructor | a retry timer, a late answer and a stop |
| `Buffer` | two indices and a vector | append, retrieve, prepend, `makeSpace`, `shrink`, `readFd` | index arithmetic |
| HTTP | parse state, request | `parseRequest`, `onMessage`, `onRequest` | input in pieces, several requests per connection |

`Socket`, `SocketsOps`, `InetAddress`, `TimeUtil` wrap system calls and format values; they have no
state of their own.

## Modules

| Module | Code | Content |
|---|---|---|
| `TaskQueue` | the promise of `EventLoop` | a FIFO queue of functors |
| `EventLoop` | `EventLoop.cpp` | the owner thread step by step, any number of other threads |
| `EventLoopThread` | `EventLoopThread.cpp` | `EventLoop` composed with its creator and `threadFunc` |
| `EventLoopProofs` | | the theorems about `EventLoop` and `EventLoopThread` |
| `TcpServer` | `TcpServer.cpp`, `TcpConnection.cpp`, `Acceptor.cpp`, `EventLoopThreadPool.cpp`, `Channel.cpp`, `EPoller.cpp` | connections on several loops |
| `MCTcpServer` | | the symmetry of connections, for TLC |
| `TcpServerSteps` | | the inductive invariant of `TcpServer`, and one lemma for each action |
| `TcpServerProofs` | | the theorems about `TcpServer` |
| `Output` | `TcpConnection.cpp` | the output of one connection byte by byte: `send` and `shutdown` in any thread, partial writes, the high water mark |
| `MCOutput` | | the callers' messages |
| `OutputProofs` | | the theorems about `Output` |
| `Channel` | `Channel.hpp`, `Channel.cpp` | the events a channel wants, and the methods that change them |
| `Watching` | the promise of a poller | which channels are watched for what, and what `poll` may report |
| `EPoller` | `EPoller.cpp` | `index_`, `channels_`, the kernel's entries, the growth of `events_` |
| `Poller` | `Poller.cpp` | the variant made of poll(2): the array, the negated descriptors, the move of the last element |
| `Pollers`, `MCPollers` | `EventLoop::updateChannel`, `removeChannel` | both pollers under the same calls |
| `PollersProofs` | | the theorems about `EPoller` and `Poller` |
| `TimerQueue` | `TimerQueue.cpp`, `Timer.cpp` | timers, the timerfd, the clock |
| `TimerQueueProofs` | | the theorems about `TimerQueue` |
| `TcpClient` | `TcpClient.cpp`, `Connector.cpp` | one client in its loop: attempts, retries, reconnections |
| `TcpClientProofs` | | the theorems about `TcpClient` |
| `Buffer` | `Buffer.hpp`, `Buffer.cpp` | the vector, its two indices and the bytes it should hold |
| `HttpServer` | `http/HttpContext.cpp`, `http/HttpServer.cpp` | one connection: lines in pieces through `Buffer` to the parser and the answers |
| `HttpHeaders` | `http/HttpContext.cpp` | what the same lines say with headers as the example of the code has them |
| `HttpProofs` | | the theorems about `Buffer` and `HttpServer` |

A member `x_` of a class is the variable `x`; an action has the name of the method, or of the part
of the method, that it models. `PROJECT.json` gives the lines of every definition.

**EventLoop.** A step is what a thread does between two accesses to shared state: a critical
section of `mutex_` is one step, and a push and the `wakeup()` that follows it are two, so the owner
may do anything in between. `early` is a history variable: the functors the owner queued before it
entered `loop()`. These are pushed without a wakeup and wait for the first event or the 10 s
timeout; the properties except them. Functors still pending when the loop is quit never run.

**EventLoopThread.** Extends `EventLoop`; the new thread is the owner, the creator one of the
other threads. `fault` records a use of a null or destroyed loop, after which nothing is claimed.
`loop_` outlives the `EventLoop`, which lies on the stack of `threadFunc`: the destructor calls `quit()` on a
dead loop when somebody has quit it before, as `test6.cpp` does, and even the second half of its own
`quit()` may come too late. `LoopIsAlive` says that these are the only ways.

**TcpServer.** A loop is reduced to what `EventLoop` guarantees: poll, the callbacks of the active
channels, the functors queued so far in order. A connection is freed when nothing refers to it:
neither `connections_`, nor the user, nor a functor that captured a `TcpConnectionPtr`
(`Referenced`). Functors that captured `this` do not count, and running one later sets `fault`.
The kernel's side of a socket is what the peer did (`open`, `fin`, `reset`; `gone` once the error
was read), unread data and whether the write side was shut down. A failed `assert` also sets
`fault`: the build does not define `NDEBUG`. The write complete callback is taken to be installed.
`handleClose` leaves `state_` as it is until `connectDestroyed` runs in another turn of the loop. A `send()`
of another thread that runs in between enables the disabled channel again; with a `shutdown()` on top
the connection is closed twice and `assert(n == 1)` in `removeConnectionInLoop` fails. The history field
`late` marks such a `send()`, and `OnlyLateOutputBreaksClose` says that nothing else does this. Calls of
another thread are split at each access to shared state: the test of `state_`, the store of `kDisconnecting` in
`shutdown()`, which overwrites whatever the loop has stored since the test, and the push of the functor.

**Output.** One connection while it is open: outputs are sequences of bytes, `write()` takes any part of
what it is given, and other threads test `state_`, store it and queue their functors in separate steps.
`asked`, `taken`, `ends`, `sent`, `crossed` and `late` are histories: the messages of each caller, the functors run
and the messages sent in the loop, how many bytes `sendInLoop` had taken after each, those bytes, whether the
buffer has reached the mark and how, and whether a `send()` ran after the shutdown. `OutputInOrder` relates
them: `taken` and then the functors that wait hold each message of a caller once and in its order, `sent` is
cut by `ends` into exactly the messages of `taken`, and the wire followed by the buffer is `sent`. A late send
is real: `handleWrite` reads the `kDisconnecting` that another thread stored, and so may shut the write side
down ahead of functors of that thread's earlier `send()`. `highWaterMark_` has no initializer and no
setter, so `Init` chooses it; only the overload for a `Buffer` reports the mark, and `send(Buffer *)` in another
thread does nothing (a TODO in the code). A peer that resets is in `TcpServer`.

**Channel, EPoller, Poller.** A descriptor may have two channels, that of a `Connector` and that of the
connection made of its socket; the owners never register both at once (`Free`). `EPoller` keeps for each
channel its `index_` and for the kernel the set of entries; an assert that fails or an `epoll_ctl` that is
refused sets `fault`. `Watching` says what a poller is for, and `EPoller` implements it. `Pollers` gives
every call to both pollers. `Poller` is not a drop-in replacement, and the differences are these: a channel
that has wanted no events once stays ignored (`Poller.cpp:60`), a channel that was removed cannot be
registered again because `index_` is not reset, and one that was registered with no events cannot be
removed. `PollersAgree` says that every channel that was not silenced so is watched by both for the same events,
wherever its row of the array was moved, and `PollerFailsFor` that no other use fails an assert.

**TimerQueue.** One unit of time is the 100 us that the timerfd waits at least. The timerfd runs on
`CLOCK_MONOTONIC` and `get_now()` on the system clock, so it may be readable one unit early. A timer
is identified by its sequence number. `addTimer` in another thread reads that number after it has queued the
timer (`TimerQueue.cpp:79`), when the loop may have deleted it and a new `Timer` may have been given its address:
`adding` holds, for each thread inside `addTimer`, the timer that was last at the address, and the id read is
that timer's or, from freed memory, that of no timer (other garbage is taken to match none). Such a stray id may cancel
a timer of somebody else, and the model lets it. `StaleIdIsSpent` bounds the damage: the id is read too late
only for a timer that has run and does not repeat, or that was itself cancelled through a stray id.

**TcpClient.** `Connector` and `TcpClient` are one state machine in one loop; its timers are reduced
to what `TimerQueue` guarantees (a timer fires once, later, unless it is cancelled). The connection is
reduced to up and down. The retry delay is kept in milliseconds, with the doubling and the limit of
`Connector::retry`; how long a delay lasts is not modelled, but no dispatch of the loop is taken to last
as long as the shortest delay, 500 ms: a functor queued before a retry is set up runs before the retry. The
user calls `connect`, `disconnect` and `stop` in its connection callback or in another thread, and destroys the
client in the loop's thread. Both threads are split at their accesses to what they share (the two `connect_`,
`timerId_`, `connection_`, the functors): `connector.at` says where the loop is inside `restart`, `startInLoop`,
`retry` or on its way from `handleWrite` to `newConnection`, so that a `stop()` of another thread may fall between each
test of `connect_` and what follows it. Two such places let a stopped client connect once more: `handleWrite` has tested
`connect_` and goes on to `newConnection`, and `removeConnection` has tested that of the client and calls `restart()`, which
sets the Connector's again. `stopped` is then `"late"` until that connection is made, and `StopIsFinal` says
that there is no other way and no second connection. A `stop()` between the test in `retry` and the store of `timerId_`
cancels the previous timer and leaves the new one: it fires, finds `connect_` cleared and does nothing, but until
then the client is not idle.
No path but `restart()` sets `Connector::state_` back from `kConnected`, so a second `connect()` of a client
without `enableRetry` fails the assert in `startInLoop`, as does a `connect()` during an attempt. The destructor
frees the connection and the `Connector` at once, and the functors that captured them use freed memory.
The history field `busy` marks a `connect()` or a destructor called on a client that is not idle, and the
properties speak of the behaviours without one. A `stop()`
of another thread reads `timerId_` and cancels after it has cleared `connect_`; a `connect()` in between loses its
retry timer to that cancel, and counts as `busy`. A client destroyed by a timer of the batch in which
its own retry timer expires is not modelled (`TimerQueue` keeps the batch).

**Buffer.** The methods are functions from buffers to buffers, byte by byte; the actions call them and
keep in `content` the sequence that should be readable. `kCheapPrepend` and `kInitialSize` are constants,
8 and 1024 in the code. The asserts of `retrieve` and `prepend` on their arguments are obligations
of the caller and guard the calls; the asserts inside `ensureWriteableBytes` and `makeSpace` are checked.

**HttpServer.** Extends `Buffer`, whose `buf` is the input buffer of the connection. A byte is CR, LF or a
whole text, one of the kinds of line the parser tells apart (`KnownTexts`). `handleRead` is a sequence of
steps of its thread: `HandleRead` is `readFd` and the entry into `onMessage`, then comes a step for each round of
the loop of `parseRequest`, and the round that ends the loop is also the rest of `onMessage`, with the callback,
the answer and the reset. `hasMore` is the variable of that name, TRUE from the entry to the return; until then only the
client can do anything else. The histories are the bytes of the client (`stream`), how many lines the parser has
taken (`done`), and for each line its text, where it ends and what the lines up to it say (`lines`). `Said` is the reference, built
by `Read` line by line from whole lines, without a buffer, messages or the fields of the context. A request line that is
refused after its method was set stays in the buffer, and the assert in `setMethod` fails when the next
message parses it again: that is `fault`, and `FaultOnlyAfterRefusal` says when it happens. `query_` survives `reset()`
because `swap` leaves it out; the model has it so, and `Said` carries the query over in the same way:
`RequestsAsSent` says that nothing else of one request reaches the next.

## Runs

| Run | Question | Result |
|---|---|---|
| `event_loop` | two threads and three functors: lost wakeups, order, refinement of `TaskQueue`, liveness | holds |
| `event_loop_thread` | start and destruction of a loop thread; who uses a destroyed loop | holds |
| `destructor_returns` | does `~EventLoopThread` always return? | violated: `loop()` clears `quit_` after the loop is published |
| `tcp_server` | two connections on one or two loops, calls from connection and message callbacks | holds |
| `tcp_server_any` | calls from every callback and another thread; what can break the close; a connection whose peer is gone is freed | holds |
| `tcp_server_complete` | sending from the write complete callback, as `test11.cpp` does | violated: a functor with a raw `this` runs after the connection is freed |
| `output` | two threads and the loop send three messages and shut down; order, shutdown, high water mark | holds |
| `pollers` | three channels, two of them for one descriptor, under `EPoller` and `Poller` | holds |
| `timer_queue` | two timers, added and cancelled by the owner, by callbacks and by another thread: cancelled timers, the timerfd, every timer expires | holds |
| `tcp_client` | one attempt at a time, none forgotten, stop is final, a client that keeps trying connects, one that is idle can be destroyed | holds |
| `http` | requests through the buffer and the parser, however the lines are cut into messages | holds |
| `http_headers` | are header lines with a colon read as headers, as in the example in `HttpContext.cpp`? | violated: the separator is `;`, and such a line ends the request |

**Bounds.** Two foreign threads let one be between push and wakeup while the other acts; three
functors let one run, one wait in the batch and one in the vector. `WakeupMax = 2` makes the counter
of the eventfd saturate. Two connections share a loop of the pool or the base loop (with two loops in the
pool, where they sit on different ones, the run also passes but takes four minutes); `QueueMax` limits how many calls of
the user wait at a time. Two timers and five units of time are enough for a timer that expires while
another repeats, is cancelled or is added in the past. Two connections and four timer ids let a
client reconnect and a late timer meet its successor; `ConnectMax` limits the user's calls of
`connect`, and after a call on a busy client the user makes no other. Three messages of one or two bytes let one be
split, one wait in the buffer and one in a functor; a mark of 0 is never reported, one of 1 is reached
by any byte that is buffered and one of 3 by the second message at the earliest. Three channels let the last element of `pollfds_` move into the
place of another, and `kInitEventListSize = 1` makes `events_` overflow and grow. Five lines are a
request with a header and a second request; messages of up to six bytes cut every line and CRLF, and hold
one request and the beginning of the next. The input buffer begins with 1 + 2 bytes, so that it is moved and enlarged. The clock and the counters stop at their
bounds, and a loop that has nothing to do is not polled again, so `TcpServer`, `TcpClient`,
`HttpServer`, `Output`, `EventLoop` and `TimerQueue` may stop: deadlock is not checked where the cfg says so.
The modules with most of the state also define their types (`TypeOK`), which the proofs use. TLC finds that they
hold in the same instances; the cfg files leave them out.

**Fairness.** Threads keep running, user code returns (weak fairness of a loop's steps and of a
wakeup under way). `epoll_wait` rotates its ready list, so it does not leave a ready eventfd out for
ever (strong fairness of a poll that reports it). The timeout of `poll`, the user and the peers get
no fairness; the clock advances up to its bound. `ShutdownHappens` assumes a peer that reads, or the
output never drains. `ConnectsInTheEnd` assumes in addition what it is about: a
server that is reachable again and again, as strong fairness of the successful outcome at each point where
an attempt can fail.

## Proofs

`EventLoopProofs` proves, for every set of threads and functors and every positive `WakeupMax`:

* `TypeCorrect`: `Spec => []TypeOK`.
* `WakeupInvariant`: `Spec => [](TypeOK /\ WakeupInv)`. `NoLostWakeup` alone is not inductive: it
  speaks of the owner inside `poll` only. `WakeupInv` says what holds on the way there: outside the
  stretch from the handling of events to the swap, every functor queued since `loop()` was entered
  has a wakeup in the eventfd or on its way, and `callingPendingFunctors_` marks exactly
  `doPendingFunctors`. The read of the eventfd, which consumes a wakeup, lies inside that stretch.
* `NoWakeupIsLost`: `Spec => []NoLostWakeup`, from the above.
* `ImplementsTaskQueue`: `Spec => TaskQueueSpec`, with the batch followed by the vector as the queue.

The only assumption is `WakeupMax \in Nat \ {0}`.

Of `EventLoopThread` it proves, for every set of threads with the creator among them:

* `ImplementsEventLoop`: every step of the composition is a step of `EventLoop` or leaves the loop alone, so
  that `NoWakeupIsLostInThread` follows from the induction above.
* `LoopIsAlwaysAlive`: `ThreadSpec => []LoopIsAlive`.
  `ThreadInv` adds what it rests on: `loop_` is set from the construction of the loop on and the creator
  has waited for that, the loop is left only after a `quit()`, and the destructor begins when no other thread is
  inside a call.

`TcpServerSteps` and `TcpServerProofs` prove, for any number of connections, of loops in the pool and of queued
functors:

* `ServerInvariant`: `Spec => []Inv`, for any user. None of the properties is inductive: whether a functor
  that is about to run finds the connection in order depends on what else is queued for it, in which loop, and
  on the callback a loop is in. `Inv` is stated over `todo`, the functors a loop has still to run, the
  batch and the vector in one sequence that grows at its end and shrinks at its head. `RefInv` says who may refer
  to a connection and from which loop; `LifeInv` says that each of `connectEstablished`, `removeConnectionInLoop`
  and `connectDestroyed` is queued at most once, and what state, channel and events go with a connection that
  is open, closing or gone. `LifeInv` is claimed of a connection without late output (see `TcpServer` above): with
  it the channel is enabled during the removal and the rest does not hold. Most steps of one connection, and
  every step of another, are `Calm` for it: one lemma shows that such a step keeps its invariant.
* `ConnectedIsAlwaysAlive`, `OutputIsAlwaysAsked`, `OnlyLateOutputFails`, `FreedAfterRemoval`: from `Inv`.
* `QuietUserNoFault` and `QuietUserFreesUnregistered`: `NoFault` and `FreedIsUnregistered` under the hypothesis
  `Quiet`, that `send` and `shutdown` are called in the connection and message callbacks only. The
  hypothesis is needed: the run `tcp_server_complete` shows a use after free without it. `QuietInv` adds that no call
  waits in a queue and that a write complete callback, which captured `this`, is queued before
  `connectDestroyed`, which frees the connection.

The assumptions are those of `TcpServer` on its constants (`PoolMax` is a natural number, `CallsFrom` names
callbacks or another thread).

`TcpClientProofs` proves, for any set of connections, any number of calls and of queued functors:

* `IdleCallsNeverFail`: `Endless => (Spec => []NoFault)`, `OneAttemptAtATime` (`[]OneAttempt`), `AttemptIsNeverLost`
  (`[]NeverIdle`) and `StopIsAlwaysFinal` (`StopIsFinal`), all from one inductive invariant. It says nothing of a client
  that was `busy` except its types: from then on asserts may fail. Of the others, `Good` says that no assert has
  failed, which callbacks and functors belong to which phase of the loop (`LoopInv`), that of a retry timer, a call of
  `connect()`, a queued `startInLoop` and a method under way in the loop there is one, and only while `state_` is `kDisconnected` (`AttemptInv`), that
  `resetChannel` runs before the next attempt (`ChannelInv`), what a connection and its `connectDestroyed` can still meet
  (`ConnInv`), and what `stop()` and the destructor leave behind (`StopInv`). The order of functors is stated
  over `todo`, as in `TcpServer`.
* `Endless` is the hypothesis that `TimerIds` is not finite. A timer gets the next value of a 64-bit counter
  as its sequence number; the model gives it an id that neither a timer, an event nor a queued cancel refers to, so that
  TLC needs four of them. With finitely many ids a retry could find none that is free; `Types` therefore says that only
  finitely many are in use.

The other assumption is that 0, which stands for no connection, is not in `Conns`.

`TimerQueueProofs` proves, for every number of timers (0, which stands for none, is not one of them), every
interval and every bound:

* `QueueInvariant`: `Spec => []QueueInv`. `SetsAgree` and `CancelledStaysCancelled` are not inductive:
  what a cancel may forget depends on whether a batch is under way and on the functors still queued.
  `QueueInv` says that the batch exists exactly while `callingExpiredTimers_` is set, that a timer whose
  `addTimerInLoop` waits is queued once and in no set, that single timers do not come back, and which timer an
  address held in `addTimer` or an id already returned belongs to.
* `NoTimerIsMissed`, `StaleIdsAreSpent`, `SetsAlwaysAgree`, `CancelIsFinal`, `SingleTimersRunOnce`: the
  safety properties, from the same induction. The first one needs `ArmInv`, a part of `QueueInv`: `reset` does
  not arm the timerfd when the earliest expiration is `time_point{}`, and that is harmless only because such a
  timer was added by a callback of the batch, which armed the timerfd for it.

`PollersProofs` proves, for every finite set of channels, every assignment of descriptors and
every positive `kInitEventListSize`:

* `KernelAlwaysAgrees`: `Spec => []KernelAgrees`. The property is inductive together with the types: `index_`
  says what the kernel knows, a channel that is not at `kAdded` wants nothing, and a descriptor has one
  registered channel. Every assert of `updateChannel` and `removeChannel` follows from it.
* `ImplementsWatching`: `Spec => WatchingSpec`, with the kernel's entries as what is watched.
* `PollersAlwaysAgree`: `BothSpec => []PollersAgree`, and `PollerFailsInTwoUses`: `BothSpec => PollerFailsFor`.
  `TableInv` says which row of `pollfds_` belongs to which channel, one for one, and what the history variables
  mean for it. That `removeChannel` finds the owner of the last row by its descriptor, negated or not,
  is right because registered channels have different descriptors, so EPoller's invariant is needed for Poller's.
  `BothImplementEPoller` carries the first two theorems over to the two pollers side by side.

`OutputProofs` proves, for every set of threads and bytes, all non-empty messages and any mark, the
inductive invariant `OutputInv` and from it `OutputAlwaysInOrder`, `AlwaysDrained` and `MarkAlwaysReported`.
`sendInLoop` keeps the order of the bytes because it writes directly only over an empty buffer, and that is
known from `writing` because the two agree; so the second property is needed for the first. A message
that is queued goes to the end of the line of functors and one that the loop sends itself goes ahead of those that
wait. That keeps each caller's order only because a functor that waits is never the loop's own (`Foreign`);
the messages are whole because no end lies behind the bytes taken (`Within`). Numbering the messages of a caller
makes their order a statement about any two functors, which needs no induction over the line.

`HttpProofs` proves of `Buffer`, for every `kCheapPrepend`, `kInitialSize` and bound (natural numbers), that
the buffer holds `content` (`BufferHoldsContent`), and from it `IndicesStayInside`, `NoByteIsLost`,
`AssertsNeverFail` and `GrowthIsNeeded`. The lemmas are in two layers: what a copy, a move or an
enlargement does to a vector and its indices, and that each method is such a step. TLC sees the buffer as
the input buffer of `HttpServer`; `GrowsOnlyWhenFull` speaks of single calls and is proved only.

Of `HttpServer` it proves, for every set of lines among `KnownTexts`, any number of them and all sizes, the invariant
`HttpInv` (`HttpInvariant`) and from it `RequestsStayAsSent`, `AnswersUntilClosed`, `FaultsOnlyAfterRefusal`,
`MessagesAnswerRequests` and `HttpBytesKept`. None of the properties is inductive: they do not say where
the bytes are. `InputInv` does: `content` begins in `stream` where the lines taken end, and the wire where `content`
ends, whatever the messages were. With it `findCRLF` finds a CRLF exactly when the next line has arrived, and the
text before it is that line (`NextLine`). `ContextInv` says that the context is what `Said` has of the lines
taken. `RefusalInv` says when a context that expects a request line has a method already: only when the next line
is bad and the connection was shut down for it; a bad line is never taken, so this stays so, and it is
why the failing assert comes after the refusal. `Said` is a history that grows with `lines`, so that no induction over the
lines is needed. The assumptions are those on the sizes, and that the texts other than the empty line and CR and LF are bytes.

Liveness (fairness and ENABLED) is outside the prover's reach and stays with TLC. So do `ConnectsInTheEnd`,
`ShutdownHappens` and the other liveness properties of the runs.

## Not modelled

* `~TcpServer` is defaulted. It destroys `connections_` before the loops of the pool, so every connection that is
  left is freed while its loop still polls it: the server may be destroyed only when it has none. The
  destructor is not an action.
* `EventLoopThreadPool::start` runs one `startLoop` after the other; `EventLoopThread` has one of them.
* `Buffer::swap` exchanges two buffers; `Buffer::shrink` has no caller, and would leave the indices as they are.
* Paths, bodies and the text of HTTP answers; the parser does not depend on them.
* `Socket`, `SocketsOps`, `InetAddress`, `TimeUtil`: wrappers of system calls and formatting. What the
  calls do to a socket is in `TcpServer` (`WriteOutcomes`, `ErrorTaken`), `Output` (`DirectWrites`) and `TcpClient`.
* Destruction of a client from a second thread, and of an `EventLoop` that other objects still use.
