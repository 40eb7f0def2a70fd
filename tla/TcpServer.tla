------------------------------ MODULE TcpServer ------------------------------
(***************************************************************************)
(* TcpServer.cpp, TcpConnection.cpp, Acceptor.cpp, EventLoopThreadPool.cpp *)
(* and Channel::handleEvent: the base loop accepts connections and hands   *)
(* each to a loop of the pool; the life of a connection is spread over     *)
(* functors that the loops queue to each other.  Functors that captured a  *)
(* shared_ptr keep the connection alive, those that captured "this" do not.*)
(*                                                                         *)
(* A loop is reduced to what EventLoop is shown to guarantee: poll, then   *)
(* the callbacks of the active channels, then the functors queued so far,  *)
(* in order.  A step is one handler or functor, up to the callback of the  *)
(* user it makes; code of the user runs in steps of its own.               *)
(***************************************************************************)
EXTENDS Naturals, Sequences, FiniteSets, Functions

CONSTANTS
  Conns,       \* the connections clients make, each one accepted at most once
  PoolMax,     \* bound: the most threads setThreadNum asks for
  CallsFrom,   \* from where the user calls send and shutdown: its callbacks, another thread
  QueueMax     \* bound: the user calls only while each loop has fewer functors than this

ASSUME PoolAssumption == PoolMax \in Nat /\ QueueMax \in Nat \ {0}

Base  == 0
Loops == 0..PoolMax

UserCallbacks == {"up", "message", "complete", "down"}

ASSUME CallsFromAssumption == CallsFrom \subseteq UserCallbacks \cup {"thread"}

VARIABLES
  numThreads,    \* EventLoopThreadPool::numThreads_, set once before start()
  listening,     \* the acceptor's channel is enabled
  connections,   \* TcpServer::connections_
  next,          \* EventLoopThreadPool::next_
  home,          \* TcpConnection::loop_
  conn,          \* the members of each TcpConnection and of its Channel; late is history:
                 \*   output was buffered after the channel was disabled
  sock,          \* its socket, as the kernel sees it
  loop,          \* where each loop is
  pending,       \* the functors queued in each loop
  kept,          \* the connections the user keeps a TcpConnectionPtr to
  call,          \* the call another thread is in, once it has tested state_: what it does next
  fault          \* the failed assert, or the use of freed memory, that ended the program

vars == <<numThreads, listening, connections, next, home, conn, sock, loop, pending, kept, call, fault>>

States    == {"none", "kConnecting", "kConnected", "kDisconnecting", "kDisconnected"}
Callbacks == {"close", "error", "read", "write"}
Ops       == {"established", "remove", "destroyed", "send", "shutdown", "complete", "completeBound"}

\* The functors that captured a TcpConnectionPtr; the others captured "this".
Holding == {"established", "remove", "destroyed", "completeBound"}

Functor == [op : Ops, c : Conns]
NoCall  == [op |-> "none"]

TypeOK ==
  /\ numThreads \in 0..PoolMax
  /\ listening \in BOOLEAN
  /\ connections \subseteq Conns /\ kept \subseteq Conns
  /\ next \in 0..PoolMax /\ (next = 0 \/ next < numThreads)
  /\ home \in [Conns -> Loops]
  /\ conn \in [Conns -> [state : States, index : {"kNew", "kAdded", "kDeleted"},
                         events : SUBSET {"R", "W"}, out : BOOLEAN, late : BOOLEAN]]
  /\ sock \in [Conns -> [peer : {"open", "fin", "reset", "gone"}, data : BOOLEAN, shut : BOOLEAN]]
  /\ \A l \in Loops :
       /\ pending[l] \in Seq(Functor)
       /\ loop[l].phase \in {"poll", "dispatch", "run"}
       /\ loop[l].active \in [Conns -> SUBSET Callbacks]
       /\ loop[l].accept \in BOOLEAN
       /\ loop[l].at \subseteq Conns /\ Cardinality(loop[l].at) <= 1
       /\ loop[l].batch \in Seq(Functor) /\ loop[l].pos \in 1..(Len(loop[l].batch) + 1)
       /\ loop[l].user \in {NoCall} \cup [op : UserCallbacks, c : Conns]
  /\ call \in {NoCall} \cup [op : {"send", "store", "shutdown"}, c : Conns]
  /\ fault \in {"none", "freed", "erase", "state"}

Init ==
  /\ numThreads \in 0..PoolMax
  /\ listening = FALSE
  /\ connections = {} /\ kept = {}
  /\ next = 0
  /\ home = [c \in Conns |-> Base]
  /\ conn = [c \in Conns |-> [state |-> "none", index |-> "kNew", events |-> {}, out |-> FALSE,
                           late |-> FALSE]]
  /\ sock = [c \in Conns |-> [peer |-> "open", data |-> FALSE, shut |-> FALSE]]
  /\ loop = [l \in Loops |-> [phase |-> "poll", active |-> [c \in Conns |-> {}], accept |-> FALSE,
                              at |-> {}, batch |-> <<>>, pos |-> 1, user |-> NoCall]]
  /\ pending = [l \in Loops |-> <<>>]
  /\ call = NoCall
  /\ fault = "none"

\* A TcpConnection is freed when the last TcpConnectionPtr to it is gone; the functors of
\* a batch are destroyed together when doPendingFunctors returns.
Referenced(c) ==
  \/ c \in connections \cup kept
  \/ call # NoCall /\ call.c = c
  \/ \E l \in Loops :
       \/ loop[l].user # NoCall /\ loop[l].user.c = c
       \/ \E f \in Range(pending[l]) \cup Range(loop[l].batch) : f.c = c /\ f.op \in Holding

Freed(c) == conn[c].state # "none" /\ ~Referenced(c)
-----------------------------------------------------------------------------
(* Channel and EPoller: what an update makes of the channel of a connection. *)

\* EPoller::updateChannel, for a channel that wants the events e.
Update(k, e) ==
  [k EXCEPT !.events = e,
            !.index = IF k.index = "kAdded" /\ e = {} THEN "kDeleted" ELSE "kAdded"]

EnableReading(k)  == Update(k, k.events \cup {"R"})
EnableWriting(k)  == Update(k, k.events \cup {"W"})
DisableWriting(k) == Update(k, k.events \ {"W"})
DisableAll(k)     == Update(k, {})
IsWriting(k)      == "W" \in k.events

\* Channel::handleEvent: the callbacks that the events epoll_wait reports lead to.  The
\* kernel reports a hangup and an error whether or not the channel asked for events.
Due(c, writable) ==
  LET s    == sock[c]
      hup  == s.peer \in {"reset", "gone"} \/ (s.peer = "fin" /\ s.shut)
      in   == "R" \in conn[c].events /\ (s.data \/ s.peer # "open")
      out  == "W" \in conn[c].events /\ (writable \/ s.shut \/ s.peer \in {"reset", "gone"})
  IN IF conn[c].index # "kAdded" THEN {}
     ELSE {k \in Callbacks : \/ k = "close" /\ hup /\ ~in
                             \/ k = "error" /\ s.peer = "reset"
                             \/ k = "read"  /\ in
                             \/ k = "write" /\ out}

\* write() on the socket takes everything, or part of it (or would block), or fails.
WriteOutcomes(c) ==
  IF sock[c].shut \/ sock[c].peer \in {"reset", "gone"} THEN {"error"} ELSE {"all", "part"}

\* A call that fails reports the pending error of the socket once.
ErrorTaken(s) == IF s.peer = "reset" THEN [s EXCEPT !.peer = "gone"] ELSE s

Push(l, f) == [pending EXCEPT ![l] = Append(@, f)]
-----------------------------------------------------------------------------
(* TcpConnection, in its loop. *)

\* Output waits in outputBuffer_ and the channel asks for writability.
Buffered(c) ==
  LET k == [conn[c] EXCEPT !.out = TRUE, !.late = @ \/ conn[c].events = {}]
  IN IF IsWriting(k) THEN k ELSE EnableWriting(k)

\* sendInLoop(const std::string &).
SendString(c) ==
  IF ~IsWriting(conn[c]) /\ ~conn[c].out
  THEN \E n \in WriteOutcomes(c) :
         /\ sock' = IF n = "error" THEN [sock EXCEPT ![c] = ErrorTaken(@)] ELSE sock
         /\ conn' = IF n = "all" THEN conn
                    ELSE [conn EXCEPT ![c] = Buffered(c)]
         /\ pending' = IF n = "all" THEN Push(home[c], [op |-> "complete", c |-> c]) ELSE pending
  ELSE /\ conn' = [conn EXCEPT ![c] = Buffered(c)]
       /\ UNCHANGED <<sock, pending>>

\* sendInLoop(const void *, size_t): gives up when disconnected or when the write fails.
SendBuffer(c) ==
  IF conn[c].state = "kDisconnected" THEN UNCHANGED <<conn, sock, pending>>
  ELSE IF ~IsWriting(conn[c]) /\ ~conn[c].out
  THEN \E n \in WriteOutcomes(c) :
         /\ sock' = IF n = "error" THEN [sock EXCEPT ![c] = ErrorTaken(@)] ELSE sock
         /\ conn' = IF n # "part" THEN conn
                    ELSE [conn EXCEPT ![c] = Buffered(c)]
         /\ pending' = IF n = "all" THEN Push(home[c], [op |-> "completeBound", c |-> c])
                       ELSE pending
  ELSE /\ conn' = [conn EXCEPT ![c] = Buffered(c)]
       /\ UNCHANGED <<sock, pending>>

ShutdownInLoop(c) ==
  sock' = IF IsWriting(conn[c]) THEN sock ELSE [sock EXCEPT ![c].shut = TRUE]

\* Mutant: the connection is not erased from connections_.
RemoveUnerased(c) ==
  /\ pending' = Push(home[c], [op |-> "destroyed", c |-> c])
  /\ UNCHANGED <<connections, fault>>

\* Mutant: connectDestroyed is not queued.
RemoveUndestroyed(c) ==
  /\ connections' = connections \ {c}
  /\ UNCHANGED <<pending, fault>>

\* TcpServer::removeConnectionInLoop, in the base loop.
RemoveConnectionInLoop(c) ==
  IF c \in connections
  THEN /\ connections' = connections \ {c}
       /\ pending' = Push(home[c], [op |-> "destroyed", c |-> c])
       /\ UNCHANGED fault
  ELSE /\ fault' = "erase"
       /\ UNCHANGED <<connections, pending>>

RemoveConnection(l, c) ==
  IF l = Base THEN RemoveConnectionInLoop(c)
  ELSE /\ pending' = Push(Base, [op |-> "remove", c |-> c])
       /\ UNCHANGED <<connections, fault>>

\* Mutant: the channel stays enabled, so the close is reported again.
HandleCloseEnabled(l, c) ==
  /\ RemoveConnection(l, c)
  /\ UNCHANGED conn

HandleClose(l, c) ==
  IF conn[c].state \in {"kConnected", "kDisconnecting"}
  THEN /\ conn' = [conn EXCEPT ![c] = DisableAll(@)]
       /\ RemoveConnection(l, c)
  ELSE /\ fault' = "state"
       /\ UNCHANGED <<conn, connections, pending>>
-----------------------------------------------------------------------------
(* The callbacks of the active channels. *)

\* The callbacks due in loop l.  slow: the peers that take no data now.
Active(l, slow) ==
  [c \in Conns |-> IF home[c] = l /\ ~Freed(c) THEN Due(c, c \notin slow) ELSE {}]

ClientWaiting == listening /\ \E c \in Conns : conn[c].state = "none"

\* poll() reports every channel that has events.  A poll that finds no event and no queued
\* functor (its timeout) leads back to poll() and is left out.
PollReturns(l, slow) ==
  /\ loop[l].phase = "poll"
  /\ \E accept \in (IF l = Base /\ ClientWaiting THEN BOOLEAN ELSE {FALSE}) :
       /\ accept \/ pending[l] # <<>> \/ \E c \in Conns : Active(l, slow)[c] # {}
       /\ loop' = [loop EXCEPT ![l].phase = "dispatch", ![l].accept = accept,
                               ![l].active = Active(l, slow)]
  /\ UNCHANGED <<listening, connections, next, home, conn, sock, pending, kept, call, fault>>

\* epoll_wait fails (a signal interrupts it): poll() reports no channel.
PollInterrupted(l) ==
  /\ loop[l].phase = "poll"
  /\ pending[l] # <<>>
  /\ loop' = [loop EXCEPT ![l].phase = "dispatch"]
  /\ UNCHANGED <<listening, connections, next, home, conn, sock, pending, kept, call, fault>>

\* The loop is between two callbacks, or two functors, and not in code of the user.
Dispatching(l) == loop[l].phase = "dispatch" /\ loop[l].user = NoCall
Running(l)     == loop[l].phase = "run" /\ loop[l].user = NoCall

\* Channel c is the one being handled, or the next one; its earlier callbacks are done.
Due1(l, c, k) ==
  /\ Dispatching(l) /\ ~Freed(c)
  /\ k \in loop[l].active[c] /\ loop[l].at \subseteq {c}
  /\ k = "error" => "close" \notin loop[l].active[c]
  /\ k = "read"  => loop[l].active[c] \cap {"close", "error"} = {}
  /\ k = "write" => loop[l].active[c] = {"write"}

\* The loop after callback k of channel c, which enters the callback u of the user.
AfterCallback(l, c, k, u) ==
  loop' = [loop EXCEPT ![l].active[c] = @ \ {k},
                       ![l].at = IF loop[l].active[c] = {k} THEN {} ELSE {c},
                       ![l].user = u]

CloseCallback(l, c) ==
  /\ Due1(l, c, "close")
  /\ HandleClose(l, c)
  /\ AfterCallback(l, c, "close", NoCall)
  /\ UNCHANGED <<listening, next, home, sock, kept, call>>

HandleError(l, c) ==
  /\ Due1(l, c, "error")
  /\ sock' = [sock EXCEPT ![c] = ErrorTaken(@)]
  /\ AfterCallback(l, c, "error", NoCall)
  /\ UNCHANGED <<listening, connections, next, home, conn, pending, kept, call, fault>>

HandleRead(l, c) ==
  /\ Due1(l, c, "read")
  /\ \/ /\ sock[c].data
        /\ sock' = [sock EXCEPT ![c].data = FALSE]
        /\ AfterCallback(l, c, "read", [op |-> "message", c |-> c])
        /\ UNCHANGED <<connections, conn, pending, fault>>
     \/ /\ ~sock[c].data /\ sock[c].peer \in {"fin", "gone"}
        /\ HandleClose(l, c)
        /\ AfterCallback(l, c, "read", NoCall)
        /\ UNCHANGED sock
     \/ /\ ~sock[c].data /\ sock[c].peer = "reset"
        /\ sock' = [sock EXCEPT ![c] = ErrorTaken(@)]
        /\ AfterCallback(l, c, "read", NoCall)
        /\ UNCHANGED <<connections, conn, pending, fault>>
  /\ UNCHANGED <<listening, next, home, kept, call>>

\* Mutant: writing stays enabled when the output buffer is empty.
HandleWriteStillEnabled(l, c) ==
  /\ Due1(l, c, "write")
  /\ conn' = [conn EXCEPT ![c].out = FALSE]
  /\ AfterCallback(l, c, "write", NoCall)
  /\ UNCHANGED <<listening, connections, next, home, sock, pending, kept, call, fault>>

HandleWrite(l, c) ==
  /\ Due1(l, c, "write")
  /\ IF IsWriting(conn[c])
     THEN \E n \in WriteOutcomes(c) :
            IF n = "all"
            THEN /\ conn' = [conn EXCEPT ![c] = DisableWriting([@ EXCEPT !.out = FALSE])]
                 /\ pending' = Push(l, [op |-> "complete", c |-> c])
                 /\ sock' = IF conn[c].state = "kDisconnecting"
                            THEN [sock EXCEPT ![c].shut = TRUE] ELSE sock
            ELSE /\ sock' = IF n = "error" THEN [sock EXCEPT ![c] = ErrorTaken(@)] ELSE sock
                 /\ UNCHANGED <<conn, pending>>
     ELSE UNCHANGED <<conn, sock, pending>>
  /\ AfterCallback(l, c, "write", NoCall)
  /\ UNCHANGED <<listening, connections, next, home, kept, call, fault>>
-----------------------------------------------------------------------------
(* TcpServer and Acceptor, in the base loop. *)

\* start(): only the first call starts the pool and listens.
Start ==
  /\ ~listening
  /\ listening' = TRUE
  /\ UNCHANGED <<connections, next, home, conn, sock, loop, pending, kept, call, fault>>

\* EventLoopThreadPool::getNextLoop: the loop handed out for next_ = n, and the new next_.
LoopAt(n)  == IF numThreads = 0 THEN Base ELSE n + 1
Advance(n) == IF n + 1 >= numThreads THEN 0 ELSE n + 1

\* connectEstablished, up to the callback of the user.
Established(k) == EnableReading([k EXCEPT !.state = "kConnected"])

\* Acceptor::handleRead: accept() fails, or newConnection takes the socket.
AcceptFails ==
  /\ Dispatching(Base) /\ loop[Base].at = {} /\ loop[Base].accept
  /\ loop' = [loop EXCEPT ![Base].accept = FALSE]
  /\ UNCHANGED <<listening, connections, next, home, conn, sock, pending, kept, call, fault>>

NewConnection(c) ==
  /\ Dispatching(Base) /\ loop[Base].at = {} /\ loop[Base].accept
  /\ conn[c].state = "none"
  /\ connections' = connections \cup {c}
  /\ home' = [home EXCEPT ![c] = LoopAt(next)]
  /\ next' = Advance(next)
  /\ LET made == [conn[c] EXCEPT !.state = "kConnecting"]
         here == LoopAt(next) = Base
     IN /\ conn' = [conn EXCEPT ![c] = IF here THEN Established(made) ELSE made]
        /\ pending' = IF here THEN pending ELSE Push(LoopAt(next), [op |-> "established", c |-> c])
        /\ loop' = [loop EXCEPT ![Base].accept = FALSE,
                                ![Base].user = IF here THEN [op |-> "up", c |-> c] ELSE NoCall]
  /\ UNCHANGED <<listening, sock, kept, call, fault>>
-----------------------------------------------------------------------------
(* doPendingFunctors: the functors of a batch. *)

SwapFunctors(l) ==
  /\ Dispatching(l)
  /\ ~loop[l].accept /\ \A c \in Conns : loop[l].active[c] = {}
  /\ loop' = [loop EXCEPT ![l].phase = "run", ![l].batch = pending[l], ![l].pos = 1]
  /\ pending' = [pending EXCEPT ![l] = <<>>]
  /\ UNCHANGED <<listening, connections, next, home, conn, sock, kept, call, fault>>

EndBatch(l) ==
  /\ Running(l) /\ loop[l].pos > Len(loop[l].batch)
  /\ loop' = [loop EXCEPT ![l].phase = "poll", ![l].batch = <<>>, ![l].pos = 1]
  /\ UNCHANGED <<listening, connections, next, home, conn, sock, pending, kept, call, fault>>

\* The next functor of the batch is op on connection c.
Next1(l, op, c) ==
  /\ Running(l) /\ loop[l].pos <= Len(loop[l].batch)
  /\ loop[l].batch[loop[l].pos] = [op |-> op, c |-> c]
  /\ ~Freed(c)

\* The loop after that functor, which enters the callback u of the user.
AfterFunctor(l, u) == loop' = [loop EXCEPT ![l].pos = @ + 1, ![l].user = u]

ConnectEstablished(l, c) ==
  /\ Next1(l, "established", c)
  /\ IF conn[c].state = "kConnecting"
     THEN /\ conn' = [conn EXCEPT ![c] = Established(@)]
          /\ UNCHANGED fault
     ELSE fault' = "state" /\ UNCHANGED conn
  /\ AfterFunctor(l, [op |-> "up", c |-> c])
  /\ UNCHANGED <<listening, connections, next, home, sock, pending, kept, call>>

RemoveFunctor(l, c) ==
  /\ Next1(l, "remove", c)
  /\ RemoveConnectionInLoop(c)
  /\ AfterFunctor(l, NoCall)
  /\ UNCHANGED <<listening, next, home, conn, sock, kept, call>>

\* connectDestroyed, up to the callback of the user.
ConnectDestroyed(l, c) ==
  /\ Next1(l, "destroyed", c)
  /\ IF conn[c].state \in {"kConnected", "kDisconnecting"}
     THEN /\ conn' = [conn EXCEPT ![c] = DisableAll([@ EXCEPT !.state = "kDisconnected"])]
          /\ UNCHANGED fault
     ELSE fault' = "state" /\ UNCHANGED conn
  /\ AfterFunctor(l, [op |-> "down", c |-> c])
  /\ UNCHANGED <<listening, connections, next, home, sock, pending, kept, call>>

SendFunctor(l, c) ==
  /\ Next1(l, "send", c)
  /\ SendString(c)
  /\ AfterFunctor(l, NoCall)
  /\ UNCHANGED <<listening, connections, next, home, kept, call, fault>>

ShutdownFunctor(l, c) ==
  /\ Next1(l, "shutdown", c)
  /\ ShutdownInLoop(c)
  /\ AfterFunctor(l, NoCall)
  /\ UNCHANGED <<listening, connections, next, home, conn, pending, kept, call, fault>>

WriteComplete(l, c) ==
  /\ Next1(l, "complete", c) \/ Next1(l, "completeBound", c)
  /\ AfterFunctor(l, [op |-> "complete", c |-> c])
  /\ UNCHANGED <<listening, connections, next, home, conn, sock, pending, kept, call, fault>>

\* A channel handled after, or a functor run after, its connection was freed.
UseFreed(l) ==
  /\ \/ Dispatching(l) /\ \E c \in Conns : loop[l].active[c] # {} /\ Freed(c)
     \/ Running(l) /\ loop[l].pos <= Len(loop[l].batch) /\ Freed(loop[l].batch[loop[l].pos].c)
  /\ fault' = "freed"
  /\ UNCHANGED <<listening, connections, next, home, conn, sock, loop, pending, kept, call>>
-----------------------------------------------------------------------------
(* Code of the user, in a callback of connection c or in another thread. *)

Room == \A l \in Loops : Len(pending[l]) < QueueMax

InCallback(l, c) ==
  loop[l].user # NoCall /\ loop[l].user.op \in CallsFrom /\ loop[l].user.c = c

\* send(), called in the connection's own loop.
Send(l, c) ==
  /\ InCallback(l, c)
  /\ conn[c].state = "kConnected"
  /\ Room
  /\ SendString(c) \/ SendBuffer(c)
  /\ UNCHANGED <<listening, connections, next, home, loop, kept, call, fault>>

\* shutdown(), called in the connection's own loop.
Shutdown(l, c) ==
  /\ InCallback(l, c)
  /\ conn[c].state = "kConnected"
  /\ conn' = [conn EXCEPT ![c].state = "kDisconnecting"]
  /\ ShutdownInLoop(c)
  /\ UNCHANGED <<listening, connections, next, home, loop, pending, kept, call, fault>>

\* Mutant: connectDestroyed leaves the channel in the poller.
CallbackReturnsRegistered(l) ==
  /\ loop[l].user # NoCall
  /\ loop' = [loop EXCEPT ![l].user = NoCall]
  /\ UNCHANGED <<listening, connections, next, home, conn, sock, pending, kept, call, fault>>

\* The callback returns; connectDestroyed goes on to remove the channel from the poller.
CallbackReturns(l) ==
  /\ loop[l].user # NoCall
  /\ loop' = [loop EXCEPT ![l].user = NoCall]
  /\ conn' = IF loop[l].user.op = "down"
             THEN [conn EXCEPT ![loop[l].user.c].index = "kNew"] ELSE conn
  /\ UNCHANGED <<listening, connections, next, home, sock, pending, kept, call, fault>>

\* Only a user that calls from another thread keeps a TcpConnectionPtr, for that thread.
Keep(l, c) ==
  /\ "thread" \in CallsFrom
  /\ loop[l].user = [op |-> "up", c |-> c]
  /\ kept' = kept \cup {c}
  /\ UNCHANGED <<listening, connections, next, home, conn, sock, loop, pending, call, fault>>

Drop(c) ==
  /\ c \in kept
  /\ call = NoCall
  /\ kept' = kept \ {c}
  /\ UNCHANGED <<listening, connections, next, home, conn, sock, loop, pending, call, fault>>

\* send() and shutdown() called in another thread test state_; shutdown() then stores
\* kDisconnecting over whatever state_ has become; both then queue a functor.
ThreadTests(op, c) ==
  /\ c \in kept
  /\ call = NoCall
  /\ conn[c].state = "kConnected"
  /\ Room
  /\ call' = [op |-> op, c |-> c]
  /\ UNCHANGED <<listening, connections, next, home, conn, sock, loop, pending, kept, fault>>

ThreadStores ==
  /\ call.op = "store"
  /\ conn' = [conn EXCEPT ![call.c].state = "kDisconnecting"]
  /\ call' = [call EXCEPT !.op = "shutdown"]
  /\ UNCHANGED <<listening, connections, next, home, sock, loop, pending, kept, fault>>

ThreadQueues ==
  /\ call.op \in {"send", "shutdown"}
  /\ pending' = Push(home[call.c], call)
  /\ call' = NoCall
  /\ UNCHANGED <<listening, connections, next, home, conn, sock, loop, kept, fault>>
-----------------------------------------------------------------------------
(* The clients. *)

Peer(c, s) ==
  /\ conn[c].state # "none" /\ ~Freed(c)
  /\ sock' = [sock EXCEPT ![c] = s]
  /\ UNCHANGED <<listening, connections, next, home, conn, loop, pending, kept, call, fault>>

PeerSends(c)  == sock[c].peer = "open" /\ ~sock[c].data /\ Peer(c, [sock[c] EXCEPT !.data = TRUE])
PeerCloses(c) == sock[c].peer = "open" /\ Peer(c, [sock[c] EXCEPT !.peer = "fin"])
PeerResets(c) == sock[c].peer \in {"open", "fin"} /\ Peer(c, [sock[c] EXCEPT !.peer = "reset"])
-----------------------------------------------------------------------------
\* The base loop and the loops of the pool.
PoolLoops == 0..numThreads

LoopStep(l) ==
  \/ SwapFunctors(l) \/ EndBatch(l) \/ CallbackReturns(l) \/ UseFreed(l)
  \/ l = Base /\ (AcceptFails \/ \E c \in Conns : NewConnection(c))
  \/ \E c \in Conns :
       \/ CloseCallback(l, c) \/ HandleError(l, c) \/ HandleRead(l, c) \/ HandleWrite(l, c)
       \/ ConnectEstablished(l, c) \/ RemoveFunctor(l, c) \/ ConnectDestroyed(l, c)
       \/ SendFunctor(l, c) \/ ShutdownFunctor(l, c) \/ WriteComplete(l, c)

UserStep ==
  \/ Start \/ ThreadStores \/ ThreadQueues
  \/ \E c \in Conns :
       \/ Drop(c) \/ \E op \in {"send", "store"} : ThreadTests(op, c)
       \/ \E l \in Loops : Send(l, c) \/ Shutdown(l, c) \/ Keep(l, c)

PeerStep == \E c \in Conns : PeerSends(c) \/ PeerCloses(c) \/ PeerResets(c)

\* A failed assert or a use of freed memory ends the program.
Ended == fault # "none" /\ UNCHANGED vars

Next ==
  \/ Ended
  \/ /\ fault = "none"
     /\ UNCHANGED numThreads
     /\ \/ \E l \in PoolLoops : \/ LoopStep(l) \/ PollInterrupted(l)
                               \/ \E slow \in SUBSET Conns : PollReturns(l, slow)
        \/ UserStep \/ PeerStep

Alive(l) == l \in PoolLoops /\ fault = "none" /\ UNCHANGED numThreads

(***************************************************************************)
(* The loops keep running and callbacks of the user return; EventLoop      *)
(* shows that no loop sleeps on queued functors.  poll is not interrupted  *)
(* every time.  Nothing is assumed of the user and of the peers.           *)
(***************************************************************************)
Fairness ==
  \A l \in Loops :
    /\ WF_vars(Alive(l) /\ LoopStep(l))
    /\ SF_vars(Alive(l) /\ \E slow \in SUBSET Conns : PollReturns(l, slow))

Spec == Init /\ [][Next]_vars /\ Fairness
-----------------------------------------------------------------------------
(* Properties *)

\* No assert of the connection's life fails and no functor or channel outlives its
\* connection (handleClose, connectDestroyed, removeConnectionInLoop).
NoFault == fault = "none"

\* No functor and no active channel is used after its connection was freed
\* (the functors that captured "this" in TcpConnection.cpp).
NoUseAfterFree == fault # "freed"

\* Whatever the user does, a connection on which send() still works has not been freed:
\* connections_, then the functors of the removal, refer to it until connectDestroyed
\* (newConnection, removeConnectionInLoop).
ConnectedIsAlive ==
  \A c \in Conns : conn[c].state \in {"kConnecting", "kConnected"} => ~Freed(c)

\* When a connection is freed its channel has been removed from the poller and no loop is
\* about to handle it (connectDestroyed, ~TcpConnection).
FreedIsUnregistered ==
  \A c \in Conns : Freed(c) =>
    conn[c].index = "kNew" /\ \A l \in Loops : loop[l].active[c] = {}

\* Whatever the user does and from whichever thread, a connection is erased twice or destroyed
\* in a wrong state for one reason only: send() buffered output after handleClose had disabled
\* the channel, which enabled it again (handleClose leaves state_ at kConnected until
\* connectDestroyed runs).
OnlyLateOutputBreaksClose == fault \in {"erase", "state"} => \E c \in Conns : conn[c].late

\* While a connection reads, its channel asks for writability exactly when output waits
\* (sendInLoop, handleWrite): neither stuck output nor a busy loop.
WritesWhileOutputWaits ==
  \A c \in Conns : "R" \in conn[c].events => (IsWriting(conn[c]) <=> conn[c].out)

\* A connection whose peer is gone is destroyed, whatever was in flight, unless the user keeps
\* a TcpConnectionPtr or the program has failed (handleClose, removeConnection,
\* connectDestroyed).
DeadConnectionsAreFreed ==
  \A c \in Conns : (conn[c].state # "none" /\ sock[c].peer # "open")
                      ~> (Freed(c) \/ c \in kept \/ fault # "none")
==============================================================================
