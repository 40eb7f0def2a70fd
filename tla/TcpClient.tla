----------------------------- MODULE TcpClient -----------------------------
(***************************************************************************)
(* TcpClient.cpp and Connector.cpp: a client on one loop that connects,    *)
(* retries with growing delays, hands the socket to a TcpConnection and,   *)
(* with enableRetry, connects again when that is closed.  The user calls   *)
(* connect, disconnect and stop in its connection callback or in another   *)
(* thread, and destroys the client in the loop's thread.  A step is what a *)
(* thread does up to its next access to what both threads use: the two     *)
(* connect_, timerId_, connection_ and the functors.  Of the TcpConnection *)
(* only its life is modelled (TcpServer has the rest), of the loop what    *)
(* EventLoop and TimerQueue guarantee: poll, the callbacks, then the       *)
(* functors in order; no dispatch takes the 500 ms of the shortest retry   *)
(* delay.                                                                  *)
(***************************************************************************)
EXTENDS Naturals, Sequences, FiniteSets, FiniteSetsExt, Functions

CONSTANTS
  Conns,        \* names for TcpConnections, used again when one is freed
  TimerIds,     \* names for retry timers, used again when nothing refers to one
  ConnectMax,   \* how often the user calls connect()
  QueueMax      \* bound: another thread calls only while fewer functors wait than this

ASSUME ClientAssumption == ConnectMax \in Nat /\ QueueMax \in Nat /\ 0 \notin Conns

kInitRetryDelayMs == 500
kMaxRetryDelayMs  == 30 * 1000

VARIABLES
  connector,    \* the members of the Connector and its outstanding retry timers; at: what the loop
                \*   is about to do inside its methods; read: the timerId_ that stop() in another
                \*   thread has read; history: a connect() failed for good, the client was
                \*   destroyed, connect() or the destructor was called on a busy client
  retry, connect, connection,    \* TcpClient::retry_, connect_, connection_
  conn,         \* state_ of each TcpConnection; "none" while it does not exist
  loop,         \* where the loop is: what poll reported, the batch, the callback of the user
  pending,      \* the functors queued in the loop
  call,         \* what another thread has still to do of connect(), disconnect() or stop()
  connects,     \* history: the calls of connect()
  stopped       \* history: stop() was called; "late": when the loop had already decided to
                \*   connect once more, until that connection is made

clientVars == <<retry, connect, connection>>
userVars   == <<call, connects, stopped>>
vars == <<connector, clientVars, conn, loop, pending, userVars>>

None == [op |-> "none"]

\* The events poll reports and the functors in the loop.
Events   == [op : {"writable", "failed"}] \cup [op : {"timer"}, t : TimerIds]
              \cup [op : {"closed"}, c : Conns]
Functor  == [op : {"start", "reset"}] \cup [op : {"cancel"}, t : TimerIds \cup {0}]
              \cup [op : {"destroyed", "shutdown"}, c : Conns]

TypeOK ==
  /\ connector \in
       [connect : BOOLEAN, state : {"kDisconnected", "kConnecting", "kConnected"},
        channel : {"none", "registered", "removed"},
        retryDelayMs : kInitRetryDelayMs..kMaxRetryDelayMs,
        timerId : TimerIds \cup {0}, timers : SUBSET TimerIds,
        at : {"none", "restart", "start", "connect", "retry", "new"}, read : TimerIds \cup {0},
        gaveUp : BOOLEAN, destroyed : BOOLEAN, busy : BOOLEAN,
        fault : {"none", "state", "channel", "connection", "freed"}]
  /\ retry \in BOOLEAN /\ connect \in BOOLEAN
  /\ connection \in Conns \cup {0}
  /\ conn \in [Conns -> {"none", "kConnected", "kDisconnecting", "kDisconnected"}]
  /\ loop.phase \in {"poll", "dispatch", "run"}
  /\ loop.due \subseteq Events
  /\ loop.batch \in Seq(Functor)
  /\ loop.user \in {None} \cup [op : {"up", "down"}, c : Conns]
  /\ pending \in Seq(Functor)
  /\ call \in {"none", "start", "queue", "shutdown", "stop", "cancel", "queueCancel"}
  /\ connects \in 0..ConnectMax /\ stopped \in {"no", "late", "yes"}

Init ==
  /\ connector = [connect |-> FALSE, state |-> "kDisconnected", channel |-> "none",
                  retryDelayMs |-> kInitRetryDelayMs, timerId |-> 0, timers |-> {},
                  at |-> "none", read |-> 0, gaveUp |-> FALSE, destroyed |-> FALSE, busy |-> FALSE, fault |-> "none"]
  /\ retry \in BOOLEAN /\ connect = TRUE /\ connection = 0
  /\ conn = [c \in Conns |-> "none"]
  /\ loop = [phase |-> "poll", due |-> {}, batch |-> <<>>, user |-> None]
  /\ pending = <<>>
  /\ call = "none" /\ connects = 0 /\ stopped = "no"

Fail(k, f) == [k EXCEPT !.fault = f]
-----------------------------------------------------------------------------
(* The Connector, in the loop: what a method makes of its members. *)

\* A TimerId nothing refers to; sequence numbers of timers are never used twice.
NewTimer(k) ==
  CHOOSE t \in TimerIds :
    /\ t \notin k.timers \cup {k.timerId, k.read}
    /\ \A f \in Range(pending) \cup Range(loop.batch) : f.op = "cancel" => f.t # t
    /\ [op |-> "timer", t |-> t] \notin loop.due

Longer(ms) == Min({ms * 2, kMaxRetryDelayMs})

\* retry, up to its test of connect_ ...
Retry(k) == [k EXCEPT !.state = "kDisconnected", !.at = IF k.connect THEN "retry" ELSE "none"]

\* Mutant: no timer is started.
RunAfterNever(k) == [k EXCEPT !.at = "none", !.retryDelayMs = Longer(@)]

\* ... and the rest of it, the timer and timerId_.
RunAfter(k) ==
  [k EXCEPT !.at = "none", !.retryDelayMs = Longer(@),
            !.timers = @ \cup {NewTimer(k)}, !.timerId = NewTimer(k)]

Connecting(k) ==
  IF k.channel = "none" THEN [k EXCEPT !.state = "kConnecting", !.channel = "registered", !.at = "none"]
  ELSE Fail(k, "channel")

\* connect(): under way; an error that is tried again; an error that is not.
Connect(k) ==
  {Connecting([k EXCEPT !.gaveUp = FALSE]), Retry([k EXCEPT !.gaveUp = FALSE]),
   [k EXCEPT !.gaveUp = TRUE, !.at = "none"]}

\* startInLoop, up to its test of connect_.
StartInLoop(k) ==
  IF k.destroyed THEN Fail(k, "freed")
  ELSE IF k.state # "kDisconnected" THEN Fail(k, "state")
  ELSE [k EXCEPT !.at = IF k.connect THEN "connect" ELSE "none"]

\* restart, up to startInLoop.
Restart(k) ==
  [k EXCEPT !.state = "kDisconnected", !.retryDelayMs = kInitRetryDelayMs, !.connect = TRUE,
            !.at = "start"]

\* Mutant: the retry timer is not cancelled.
StopUncancelled(k) == [k EXCEPT !.connect = FALSE]

\* stop(), called in the loop's thread.
Stop(k) == [k EXCEPT !.connect = FALSE, !.timers = @ \ {k.timerId}]

\* Mutant: the channel is not taken out of the poller.
RemovedLate(k) == k

\* removeAndResetChannel, which queues resetChannel.
Removed(k) == [k EXCEPT !.channel = "removed"]

\* resetChannel destroys the channel, which must not be registered with the poller.
ResetChannel(k) ==
  IF k.channel = "registered" THEN Fail(k, "channel") ELSE [k EXCEPT !.channel = "none"]

\* What will start a connection or waits for one: a retry timer, a queued functor, the call
\* of connect() in another thread, the channel, a method that is under way in the loop.
Attempts ==
  {[op |-> "timer", t |-> t] : t \in connector.timers}
    \cup {f \in Range(pending) \cup Range(loop.batch) : f.op = "start"}
    \cup {[op |-> "call"] : o \in {call} \cap {"start", "queue"}}
    \cup {[op |-> o] : o \in {connector.channel} \cap {"registered"}}
    \cup {[op |-> "method"] : o \in {connector.at} \cap {"restart", "start", "connect", "retry"}}

\* connect() is for a client that is idle: no attempt, no connection, no call in another thread.
Busy == Attempts # {} \/ connector.state # "kDisconnected" \/ call # "none"
-----------------------------------------------------------------------------
(* The callbacks of the loop. *)

\* What poll() may report: the outcome of a connection attempt, a retry timer, a close.
Ready ==
  (IF connector.channel = "registered" THEN [op : {"writable", "failed"}] ELSE {})
    \cup [op : {"timer"}, t : connector.timers] \cup [op : {"closed"}, c : {connection} \ {0}]

PollReturns(due) ==
  /\ loop.phase = "poll" /\ connector.at = "none"
  /\ due # {} \/ pending # <<>>
  /\ ~([op : {"writable", "failed"}] \subseteq due)
  /\ loop' = [loop EXCEPT !.phase = "dispatch", !.due = due]
  /\ UNCHANGED <<connector, clientVars, conn, pending, userVars>>

\* The loop is neither in a method of the Connector nor in a callback of the user.
Between == connector.at = "none" /\ loop.user = None

Handles(e) == loop.phase = "dispatch" /\ Between /\ e \in loop.due

AfterEvent(e) == loop' = [loop EXCEPT !.due = @ \ {e}]

\* Mutant: a socket that was connected after stop() is handed over.
HandleWriteUnchecked ==
  /\ Handles([op |-> "writable"])
  /\ connector.state = "kConnecting"
  /\ pending' = Append(pending, [op |-> "reset"])
  /\ connector' = [Removed(connector) EXCEPT !.state = "kConnected", !.at = "new"]
  /\ AfterEvent([op |-> "writable"])
  /\ UNCHANGED <<clientVars, conn, userVars>>

\* Connector::handleWrite, up to its test of connect_ or that of retry: an error or a
\* connection to itself, or a connected socket, which is closed after a stop().
HandleWrite ==
  /\ Handles([op |-> "writable"])
  /\ IF connector.state = "kConnecting"
     THEN /\ pending' = Append(pending, [op |-> "reset"])
          /\ \/ connector' = Retry(Removed(connector))
             \/ connector' = [Removed(connector) EXCEPT !.state = "kConnected",
                                !.at = IF connector.connect THEN "new" ELSE "none"]
     ELSE /\ connector' = IF connector.state = "kDisconnected" THEN connector
                          ELSE Fail(connector, "state")
          /\ UNCHANGED pending
  /\ AfterEvent([op |-> "writable"])
  /\ UNCHANGED <<clientVars, conn, userVars>>

\* Connector::handleError; handleWrite, which the same events call next, finds
\* kDisconnected and does nothing.
HandleError ==
  /\ Handles([op |-> "failed"])
  /\ IF connector.state = "kConnecting"
     THEN /\ connector' = Retry(Removed(connector))
          /\ pending' = Append(pending, [op |-> "reset"])
     ELSE /\ connector' = Fail(connector, "state")
          /\ UNCHANGED pending
  /\ AfterEvent([op |-> "failed"])
  /\ UNCHANGED <<clientVars, conn, userVars>>

\* A retry timer runs startInLoop, unless a callback before it has cancelled it.
TimerExpires(t) ==
  /\ Handles([op |-> "timer", t |-> t])
  /\ connector' = IF t \in connector.timers
                  THEN StartInLoop([connector EXCEPT !.timers = @ \ {t}]) ELSE connector
  /\ AfterEvent([op |-> "timer", t |-> t])
  /\ UNCHANGED <<clientVars, conn, pending, userVars>>

\* handleClose of the connection and TcpClient::removeConnection, up to its test of connect_.
RemoveConnection(c) ==
  /\ Handles([op |-> "closed", c |-> c])
  /\ IF connection = c
     THEN /\ connection' = 0
          /\ pending' = Append(pending, [op |-> "destroyed", c |-> c])
          /\ connector' = [connector EXCEPT !.at = IF retry /\ connect THEN "restart" ELSE "none"]
     ELSE /\ connector' = Fail(connector, "connection")
          /\ UNCHANGED <<connection, pending>>
  /\ AfterEvent([op |-> "closed", c |-> c])
  /\ UNCHANGED <<retry, connect, conn, userVars>>
-----------------------------------------------------------------------------
(* The methods of the Connector under way in the loop. *)

Goes(at, ks) ==
  /\ connector.at = at
  /\ connector' \in ks
  /\ UNCHANGED <<clientVars, conn, loop, pending, userVars>>

RestartStores    == Goes("restart", {Restart(connector)})
RestartStarts    == Goes("start", {StartInLoop(connector)})
StartConnects    == Goes("connect", Connect(connector))
RetryStartsTimer == Goes("retry", {RunAfter(connector)})

\* TcpClient::newConnection with connectEstablished, up to the callback of the user.
NewConnection(c) ==
  /\ connector.at = "new"
  /\ conn[c] = "none"
  /\ connection' = c
  /\ conn' = [conn EXCEPT ![c] = "kConnected"]
  /\ connector' = [connector EXCEPT !.at = "none"]
  /\ loop' = [loop EXCEPT !.user = [op |-> "up", c |-> c]]
  /\ stopped' = IF stopped = "late" THEN "yes" ELSE stopped
  /\ UNCHANGED <<retry, connect, pending, call, connects>>
-----------------------------------------------------------------------------
(* The functors of the loop. *)

SwapFunctors ==
  /\ loop.phase = "dispatch" /\ loop.due = {} /\ Between
  /\ loop' = [loop EXCEPT !.phase = "run", !.batch = pending]
  /\ pending' = <<>>
  /\ UNCHANGED <<connector, clientVars, conn, userVars>>

EndBatch ==
  /\ loop.phase = "run" /\ loop.batch = <<>> /\ Between
  /\ loop' = [loop EXCEPT !.phase = "poll"]
  /\ UNCHANGED <<connector, clientVars, conn, pending, userVars>>

Calls(op) ==
  /\ loop.phase = "run" /\ Between
  /\ loop.batch # <<>> /\ Head(loop.batch).op = op

AfterFunctor(u) == loop' = [loop EXCEPT !.batch = Tail(@), !.user = u]

StartFunctor ==
  /\ Calls("start")
  /\ connector' = StartInLoop(connector)
  /\ AfterFunctor(None)
  /\ UNCHANGED <<clientVars, conn, pending, userVars>>

ResetFunctor ==
  /\ Calls("reset")
  /\ connector' = ResetChannel(connector)
  /\ AfterFunctor(None)
  /\ UNCHANGED <<clientVars, conn, pending, userVars>>

CancelFunctor ==
  /\ Calls("cancel")
  /\ connector' = [connector EXCEPT !.timers = @ \ {Head(loop.batch).t}]
  /\ AfterFunctor(None)
  /\ UNCHANGED <<clientVars, conn, pending, userVars>>

\* shutdownInLoop; its effect is that the peer may close, which it may do anyway.
ShutdownFunctor ==
  /\ Calls("shutdown")
  /\ connector' = IF conn[Head(loop.batch).c] = "none" THEN Fail(connector, "connection")
                  ELSE connector
  /\ AfterFunctor(None)
  /\ UNCHANGED <<clientVars, conn, pending, userVars>>

\* connectDestroyed, up to the callback of the user.
ConnectDestroyed ==
  /\ Calls("destroyed")
  /\ LET c == Head(loop.batch).c
     IN IF conn[c] \in {"kConnected", "kDisconnecting"}
        THEN /\ conn' = [conn EXCEPT ![c] = "kDisconnected"]
             /\ AfterFunctor([op |-> "down", c |-> c])
             /\ UNCHANGED connector
        ELSE /\ connector' = Fail(connector, "connection")
             /\ AfterFunctor(None)
             /\ UNCHANGED conn
  /\ UNCHANGED <<clientVars, pending, userVars>>
-----------------------------------------------------------------------------
(* The user, in the connection callback. *)

InCallback == connector.at = "none" /\ loop.user # None

\* The callback returns; after connectDestroyed the connection is freed.
CallbackReturns ==
  /\ InCallback
  /\ loop' = [loop EXCEPT !.user = None]
  /\ conn' = IF loop.user.op = "down" THEN [conn EXCEPT ![loop.user.c] = "none"] ELSE conn
  /\ UNCHANGED <<connector, clientVars, pending, userVars>>

\* connect(), before loop() or in the callback.
OwnerConnect ==
  /\ connects < ConnectMax
  /\ connects = 0 \/ InCallback
  /\ connects' = connects + 1
  /\ stopped' = "no"
  /\ connect' = TRUE
  /\ connector' = StartInLoop([connector EXCEPT !.connect = TRUE, !.busy = @ \/ Busy])
  /\ UNCHANGED <<retry, connection, conn, loop, pending, call>>

\* TcpConnection::shutdown on the client's connection, but for its functor.
ShutdownConnection ==
  IF connection # 0 /\ conn[connection] = "kConnected"
  THEN conn' = [conn EXCEPT ![connection] = "kDisconnecting"] ELSE UNCHANGED conn

OwnerDisconnect ==
  /\ InCallback
  /\ connect' = FALSE
  /\ ShutdownConnection
  /\ UNCHANGED <<connector, retry, connection, loop, pending, userVars>>

OwnerStop ==
  /\ InCallback
  /\ connect' = FALSE
  /\ connector' = Stop(connector)
  /\ stopped' = "yes"
  /\ UNCHANGED <<retry, connection, conn, loop, pending, call, connects>>

\* ~TcpClient and ~Connector, in the callback of another channel or in a functor, when no
\* other thread uses the client.  The connection is freed with the client, and the Connector,
\* which must have no channel: functors that refer to it use freed memory.  The function that
\* the destructor has a timer call is empty.
Destroy ==
  /\ loop.phase # "poll" /\ Between /\ call = "none"
  /\ connector' = LET k == [Stop(connector) EXCEPT !.destroyed = TRUE, !.busy =
                              \/ @ \/ connection # 0 \/ connector.channel # "none"
                              \/ [op |-> "start"] \in Range(pending) \cup Range(loop.batch)]
                   IN IF k.channel = "none" THEN k ELSE Fail(k, "channel")
  /\ connection' = 0
  /\ conn' = [c \in Conns |-> IF c = connection THEN "none" ELSE conn[c]]
  /\ UNCHANGED <<retry, connect, loop, pending, userVars>>
-----------------------------------------------------------------------------
(* The user, in another thread. *)

Room == Len(pending) < QueueMax

\* connect() sets connect_; the rest is Connector::start.
ThreadConnect ==
  /\ call = "none" /\ connects < ConnectMax /\ Room
  /\ connects' = connects + 1
  /\ stopped' = "no"
  /\ connect' = TRUE
  /\ connector' = [connector EXCEPT !.busy = @ \/ Busy]
  /\ call' = "start"
  /\ UNCHANGED <<retry, connection, conn, loop, pending>>

ThreadStarts ==
  /\ call = "start"
  /\ connector' = [connector EXCEPT !.connect = TRUE]
  /\ stopped' = "no"
  /\ call' = "queue"
  /\ UNCHANGED <<clientVars, conn, loop, pending, connects>>

ThreadQueuesStart ==
  /\ call = "queue"
  /\ pending' = Append(pending, [op |-> "start"])
  /\ call' = "none"
  /\ UNCHANGED <<connector, clientVars, conn, loop, connects, stopped>>

\* disconnect() and stop() clear connect_ first.
ThreadClearsConnect(then) ==
  /\ call = "none" /\ connects > 0 /\ Room
  /\ connect' = FALSE
  /\ call' = then
  /\ UNCHANGED <<connector, retry, connection, conn, loop, pending, connects, stopped>>

\* The rest of disconnect(), under mutex_.
ThreadShutsDown ==
  /\ call = "shutdown"
  /\ ShutdownConnection
  /\ pending' = IF connection # 0 /\ conn[connection] = "kConnected"
                THEN Append(pending, [op |-> "shutdown", c |-> connection]) ELSE pending
  /\ call' = "none"
  /\ UNCHANGED <<connector, clientVars, loop, connects, stopped>>

\* The rest of stop() is Connector::stop.  It comes late when the loop has tested connect_ and
\* is about to make the connection, or has tested that of the client and is about to set it.
ThreadStops ==
  /\ call = "stop"
  /\ connector' = [connector EXCEPT !.connect = FALSE]
  /\ stopped' = IF connector.at \in {"restart", "new"} THEN "late" ELSE "yes"
  /\ call' = "cancel"
  /\ UNCHANGED <<clientVars, conn, loop, pending, connects>>

ThreadReadsTimerId ==
  /\ call = "cancel"
  /\ connector' = [connector EXCEPT !.read = connector.timerId]
  /\ call' = "queueCancel"
  /\ UNCHANGED <<clientVars, conn, loop, pending, connects, stopped>>

ThreadCancels ==
  /\ call = "queueCancel"
  /\ pending' = Append(pending, [op |-> "cancel", t |-> connector.read])
  /\ connector' = [connector EXCEPT !.read = 0]
  /\ call' = "none"
  /\ UNCHANGED <<clientVars, conn, loop, connects, stopped>>
-----------------------------------------------------------------------------
LoopStep ==
  \/ SwapFunctors \/ EndBatch \/ CallbackReturns
  \/ RestartStores \/ RestartStarts \/ StartConnects \/ RetryStartsTimer
  \/ HandleWrite \/ HandleError
  \/ StartFunctor \/ ResetFunctor \/ CancelFunctor \/ ShutdownFunctor \/ ConnectDestroyed
  \/ \E t \in TimerIds : TimerExpires(t)
  \/ \E c \in Conns : NewConnection(c) \/ RemoveConnection(c)

\* A call of the user.  After one on a busy client it makes no other (a bound), and none after
\* the destructor.
UserCalls ==
  /\ ~connector.busy /\ ~connector.destroyed
  /\ \/ OwnerConnect \/ OwnerDisconnect \/ OwnerStop \/ Destroy \/ ThreadConnect
     \/ \E then \in {"shutdown", "stop"} : ThreadClearsConnect(then)

\* Another thread goes on with its call.
CallStep ==
  \/ ThreadStarts \/ ThreadQueuesStart \/ ThreadShutsDown
  \/ ThreadStops \/ ThreadReadsTimerId \/ ThreadCancels

Polls(due) == connector.fault = "none" /\ PollReturns(due)

\* A failed assert ends the program.
Next ==
  \/ /\ connector.fault = "none"
     /\ LoopStep \/ CallStep \/ UserCalls
  \/ \E due \in SUBSET Ready : Polls(due)

(***************************************************************************)
(* The loop keeps running, callbacks return, another thread finishes the   *)
(* call it has begun, and poll reports an event that lasts.  The server    *)
(* can be reached in the end: connect() does not fail every time, nor does *)
(* every attempt it has begun.                                             *)
(***************************************************************************)
Fairness ==
  LET Alive == connector.fault = "none"
  IN /\ WF_vars(Alive /\ LoopStep)
     /\ WF_vars(Alive /\ CallStep)
     /\ WF_vars(\E due \in SUBSET Ready : Polls(due))
     /\ \A op \in {"writable", "timer"} :
          SF_vars(\E due \in SUBSET Ready : (\E e \in due : e.op = op) /\ Polls(due))
     /\ SF_vars(Alive /\ StartConnects /\ connector'.state = "kConnecting")
     /\ SF_vars(Alive /\ HandleWrite /\ connector'.state = "kConnected")

Spec == Init /\ [][Next]_vars /\ Fairness
-----------------------------------------------------------------------------
(* Properties *)

\* As long as connect() and the destructor are called on an idle client, no assert of the
\* Connector, of removeConnection or of the connection fails, resetChannel never destroys a
\* registered channel, and nothing is left behind that uses the destroyed client (startInLoop,
\* connecting, handleWrite, handleError, removeConnection, ~TcpClient, ~Connector).
NoFault == connector.fault # "none" => connector.busy

\* There is at most one connection, attempt or retry at a time (retry, restart, connecting).
OneAttempt ==
  ~connector.busy => (\A a, b \in Attempts : a = b) /\ (connection # 0 => Attempts = {})

\* While the client is to connect and the Connector is not connected, an attempt is under way
\* or due, unless connect() failed with an error it does not try again (connect, retry,
\* restart).  With connect() in one thread during stop() in another, the late cancel() of stop()
\* can take away the timer of the new attempt: such a client was busy.
NeverIdle ==
  connect /\ connector.connect /\ connector.state # "kConnected"
      /\ ~connector.gaveUp /\ ~connector.busy
    => Attempts # {}

\* After a stop(), in the loop's thread or another, no connection is made until connect().
\* There are two exceptions, for a stop() in another thread, and each makes one connection and
\* no other: handleWrite has already tested connect_ and is about to call newConnection, or
\* removeConnection has tested that of the client and calls restart(), which sets the
\* Connector's connect_ again (stop, handleWrite, newConnection, removeConnection, restart, retry).
StopIsFinal ==
  [][stopped = "yes" /\ stopped' = "yes" /\ ~connector.busy => connection' \in {connection, 0}]_vars

\* A client that is not stopped is connected in the end, if the server can be reached and
\* connect() does not fail for good: no retry is lost (retry, startInLoop, handleWrite).
ConnectsInTheEnd ==
  (connects > 0 /\ connect /\ connector.connect)
    ~> (connector.state = "kConnected" \/ ~connect \/ ~connector.connect \/ connector.gaveUp
          \/ connector.busy)
=============================================================================
