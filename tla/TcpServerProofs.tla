--------------------------- MODULE TcpServerProofs ---------------------------
(***************************************************************************)
(* The life of a connection, for any number of connections and loops: from *)
(* the steps of TcpServerSteps, the invariant, what it says of the program *)
(* and what it takes for an assert of its close to fail.                   *)
(***************************************************************************)
EXTENDS TcpServerSteps

-----------------------------------------------------------------------------
(* The invariant. *)

\* Nothing has happened yet.
LEMMA InitInv == Init => Inv0 /\ fault = "none"
<1> SUFFICES ASSUME Init PROVE Inv0 /\ fault = "none"
  BY Zenon
<1>1. <<>> \in Seq(Functor) /\ 1 \in Nat \ {0} /\ Base \in Loops
  BY PoolAssumption, SMTT(30) DEF Loops, Base
<1> DEFINE k == [state |-> "none", index |-> "kNew", events |-> {}, out |-> FALSE, late |-> FALSE]
           r == [phase |-> "poll", active |-> [c \in Conns |-> {}], accept |-> FALSE,
                 at |-> {}, batch |-> <<>>, pos |-> 1, user |-> NoCall]
<1>2. k \in ConnType /\ conn = [c \in Conns |-> k] /\ loop = [l \in Loops |-> r]
  BY Zenon DEF Init, ConnType, States
<1>3. NoCall \in UserType /\ NoCall \in CallType /\ [c \in Conns |-> {}] \in [Conns -> SUBSET Callbacks]
  BY Zenon DEF UserType, CallType
<1>4. r \in LoopType
  BY <1>1, <1>3, Zenon DEF LoopType
<1>5. ASSUME NEW l \in Loops
      PROVE  /\ LoopInv(l) /\ todo[l] = <<>> /\ loop[l].user = NoCall
             /\ \A c \in Conns : loop[l].active[c] = {}
  <2>1. /\ loop[l].pos = 1 /\ loop[l].batch = <<>> /\ loop[l].user = NoCall
        /\ \A c \in Conns : loop[l].active[c] = {}
    BY <1>2, Zenon
  <2>2. Len(<<>>) = 0 /\ 1 <= 0 + 1
    BY SMTT(30)
  <2>3. Rest(<<>>, 1) \o <<>> = <<>>
    <3>1. \A p \in Seq(Functor), n \in Nat \ {0} : n <= Len(p) + 1 => Rest(p, 1) \o <<>> = p
      BY RestSteps, Zenon
    <3> QED
      BY <1>1, <2>2, <3>1, Zenon
  <2>4. todo[l] = <<>>
    BY <2>1, <2>3, Zenon DEF todo, Init
  <2> QED
    BY <2>1, <2>2, <2>4, Zenon DEF LoopInv
<1>6. \A l \in Loops, op \in Ops, c \in Conns : ~Waits(l, op, c) /\ Once(l, op, c)
  BY <1>5, SMTT(30) DEF Waits, Once, Has, AtMostOne
<1>7. \A l \in Loops, op \in UserCallbacks, c \in Conns : ~User(l, op, c)
  BY <1>5, NoUser, Zenon
<1>8. Base1
  <2>1. loop \in [Loops -> LoopType] /\ conn \in [Conns -> ConnType]
    BY <1>2, <1>4, Zenon
  <2>2. pending \in [Loops -> Seq(Functor)] /\ home \in [Conns -> Loops]
    BY <1>1, Zenon DEF Init
  <2>3. numThreads \in 0..PoolMax /\ next \in 0..PoolMax /\ next = 0
    BY PoolAssumption, SMTT(30) DEF Init
  <2> QED
    BY <1>3, <1>5, <2>1, <2>2, <2>3, Zenon DEF Base1, Types, Init
<1>9. ASSUME NEW c \in Conns PROVE ConnInv(c)
  <2>1. /\ conn[c].state = "none" /\ conn[c].events = {} /\ conn[c].out = FALSE
        /\ conn[c].index = "kNew" /\ conn[c].late = FALSE /\ home[c] = Base
        /\ c \notin connections /\ c \notin kept /\ call = NoCall
    BY <1>2, SMTT(30) DEF Init
  <2>2. RefInv(c)
    BY <1>5, <1>6, <1>7, <2>1, Zenon DEF RefInv
  <2>3. ~Open(c) /\ ~Closing(c) /\ ~Gone(c)
    BY <1>1, <1>6, <2>1, Zenon DEF Open, Closing, Gone, Ops
  <2>4. LifeInv(c)
    BY <1>1, <1>6, <1>7, <2>1, <2>3, Zenon DEF LifeInv, Ops, UserCallbacks
  <2> QED
    BY <2>2, <2>4, Zenon DEF ConnInv
<1> QED
  BY <1>8, <1>9, Zenon DEF Inv0, Init

\* A step of a loop.
LEMMA LoopSteps ==
  ASSUME Inv0, UNCHANGED numThreads, NEW l \in Loops, LoopStep(l)
  PROVE  Inv0' /\ (fault' = fault \/ fault' = "freed" \/ \E c \in Conns : conn'[c].late)
<1>1. CASE SwapFunctors(l) \/ EndBatch(l)
  BY <1>1, BatchSteps, Zenon DEF SwapFunctors, EndBatch
<1>2. CASE CallbackReturns(l)
  BY <1>2, ReturnStep, Zenon DEF CallbackReturns
<1>3. CASE UseFreed(l)
  <2>1. fault' = "freed" /\ UNCHANGED <<connections, next, home, conn, loop, pending, kept, call>>
    BY <1>3, Zenon DEF UseFreed
  <2>2. todo' = todo
    BY <2>1, TodoSame, Zenon
  <2>3. \A c \in Conns : Calm(c)
    BY <2>1, <2>2, LoopsSame, MembersSame, CalmSame, Zenon DEF Calm
  <2>4. Base1'
    BY <2>1, Zenon DEF Inv0, Base1, Types, LoopInv
  <2> QED
    BY <2>1, <2>3, <2>4, AllCalm, Zenon
<1>4. CASE AcceptFails
  BY <1>4, IdleSteps, Zenon DEF AcceptFails
<1>5. ASSUME NEW c \in Conns, NewConnection(c) PROVE Inv0' /\ fault' = fault
  BY <1>5, NewStep, Zenon DEF NewConnection
<1>6. ASSUME NEW c \in Conns, CloseCallback(l, c) PROVE Inv0' /\ (fault' = fault \/ conn'[c].late)
  BY <1>6, CloseStep, Zenon DEF CloseCallback
<1>7. ASSUME NEW c \in Conns, HandleError(l, c) PROVE Inv0' /\ fault' = fault
  BY <1>7, ReadSteps, Zenon DEF HandleError, Callbacks, UserType
<1>8. ASSUME NEW c \in Conns, HandleRead(l, c) PROVE Inv0' /\ (fault' = fault \/ conn'[c].late)
  <2>1. /\ Due1(l, c, "read") /\ "read" \in Callbacks /\ UNCHANGED <<next, home, kept, call>>
        /\ NoCall \in UserType /\ [op |-> "message", c |-> c] \in UserType
    BY <1>8, Zenon DEF HandleRead, Callbacks, UserType, UserCallbacks
  <2>2. CASE HandleClose(l, c) /\ AfterCallback(l, c, "read", NoCall)
    BY <2>1, <2>2, CloseStep, Zenon
  <2>3. CASE /\ UNCHANGED <<connections, conn, pending, fault>>
             /\ AfterCallback(l, c, "read", NoCall)
    BY <2>1, <2>3, ReadSteps, Zenon
  <2>4. CASE /\ UNCHANGED <<connections, conn, pending, fault>>
             /\ AfterCallback(l, c, "read", [op |-> "message", c |-> c])
    BY <2>1, <2>4, ReadSteps, Zenon
  <2> QED
    BY <1>8, <2>2, <2>3, <2>4, Zenon DEF HandleRead
<1>9. ASSUME NEW c \in Conns, HandleWrite(l, c) PROVE Inv0' /\ fault' = fault
  BY <1>9, WriteStep, Zenon DEF HandleWrite
<1>10. ASSUME NEW c \in Conns, ConnectEstablished(l, c) PROVE Inv0' /\ fault' = fault
  BY <1>10, EstablishedStep, Zenon
<1>11. ASSUME NEW c \in Conns, RemoveFunctor(l, c) PROVE Inv0' /\ (fault' = fault \/ conn'[c].late)
  BY <1>11, RemoveStep, Zenon
<1>12. ASSUME NEW c \in Conns, ConnectDestroyed(l, c)
       PROVE  Inv0' /\ (fault' = fault \/ conn'[c].late)
  BY <1>12, DestroyedStep, Zenon
<1>13. ASSUME NEW c \in Conns, SendFunctor(l, c) \/ ShutdownFunctor(l, c) \/ WriteComplete(l, c)
       PROVE  Inv0' /\ fault' = fault
  BY <1>13, OtherFunctors, Zenon DEF SendFunctor, ShutdownFunctor, WriteComplete
<1> QED
  BY <1>1, <1>2, <1>3, <1>4, <1>5, <1>6, <1>7, <1>8, <1>9, <1>10, <1>11, <1>12, <1>13, Zenon DEF LoopStep

\* Every step keeps the invariant.
LEMMA InvStep == Inv /\ [Next]_vars => Inv'
<1> SUFFICES ASSUME Inv, [Next]_vars PROVE Inv'
  BY Zenon
<1>1. Inv0 /\ OnlyLateOutputBreaksClose
  BY Zenon DEF Inv, Inv0
<1>2. CASE UNCHANGED vars
  <2>1. UNCHANGED <<numThreads, connections, next, home, conn, loop, pending, kept, call, fault>>
    BY <1>2, Zenon DEF vars
  <2>2. todo' = todo
    BY <2>1, TodoSame, Zenon
  <2>3. \A c \in Conns : Calm(c)
    BY <2>1, <2>2, LoopsSame, MembersSame, CalmSame, Zenon DEF Calm
  <2>4. Base1'
    BY <1>1, <2>1, Zenon DEF Inv0, Base1, Types, LoopInv
  <2>5. Inv0' /\ OnlyLateOutputBreaksClose'
    BY <1>1, <2>1, <2>3, <2>4, AllCalm, Zenon DEF OnlyLateOutputBreaksClose
  <2> QED
    BY <2>5, Zenon DEF Inv, Inv0
<1>3. CASE fault = "none" /\ Next /\ ~Ended
  <2>1. fault = "none" /\ UNCHANGED numThreads
    BY <1>3, Zenon DEF Next
  <2>2. ASSUME NEW l \in PoolLoops PROVE l \in Loops
    BY <1>1, PoolAssumption, SMTT(30) DEF PoolLoops, Loops, Inv0, Base1, Types
  <2>3. ASSUME NEW l \in PoolLoops, LoopStep(l)
        PROVE  Inv0' /\ (fault' = fault \/ fault' = "freed" \/ \E c \in Conns : conn'[c].late)
    BY <1>1, <2>1, <2>2, <2>3, LoopSteps, Zenon
  <2>4. ASSUME NEW l \in PoolLoops, PollInterrupted(l) PROVE Inv0' /\ fault' = fault
    BY <1>1, <2>1, <2>2, <2>4, IdleSteps, Zenon DEF PollInterrupted
  <2>5. ASSUME NEW l \in PoolLoops, NEW slow \in SUBSET Conns, PollReturns(l, slow)
        PROVE  Inv0' /\ fault' = fault
    BY <1>1, <2>1, <2>2, <2>5, PollStep, Zenon DEF PollReturns
  <2>6. ASSUME UserStep \/ PeerStep PROVE Inv0' /\ fault' = fault
    <3>1. ASSUME ThreadQueues PROVE Inv0' /\ fault' = fault
      BY <1>1, <2>1, <3>1, ThreadCalls, Zenon DEF ThreadQueues
    <3>4. ASSUME ThreadStores PROVE Inv0' /\ fault' = fault
      BY <1>1, <2>1, <3>4, ThreadSets, Zenon DEF ThreadStores
    <3>2. ASSUME NEW l \in Loops, NEW c \in Conns, Send(l, c) \/ Shutdown(l, c)
          PROVE  Inv0' /\ fault' = fault
      BY <1>1, <2>1, <3>2, UserCalls, Zenon DEF Send, Shutdown
    <3>3. ASSUME \/ Start \/ PeerStep
                 \/ \E c \in Conns : \/ Drop(c) \/ \E op \in {"send", "store"} : ThreadTests(op, c)
                                     \/ \E l \in Loops : Keep(l, c)
          PROVE  Inv0' /\ fault' = fault
      <4>1. fault' = fault
        BY <3>3, Zenon DEF Start, PeerStep, Drop, ThreadTests, Keep, PeerSends, PeerCloses, PeerResets, Peer
      <4> QED
        BY <1>1, <2>1, <3>3, <4>1, OutsideSteps, Zenon
    <3> QED
      BY <2>6, <3>1, <3>2, <3>3, <3>4, Zenon DEF UserStep
  <2>7. Inv0' /\ (fault' = fault \/ fault' = "freed" \/ \E c \in Conns : conn'[c].late)
    BY <1>3, <2>3, <2>4, <2>5, <2>6, Zenon DEF Next
  <2>8. OnlyLateOutputBreaksClose'
    BY <2>1, <2>7, Zenon DEF OnlyLateOutputBreaksClose
  <2> QED
    BY <2>7, <2>8, Zenon DEF Inv, Inv0
<1> QED
  BY <1>2, <1>3, Zenon DEF Next, Ended

\* The invariant holds whatever the user does: the life of a connection to which no output was
\* added after its close (TcpConnection, TcpServer, EventLoop).
THEOREM ServerInvariant == Spec => []Inv
<1>1. Init => Inv
  BY InitInv, Zenon DEF Inv, Inv0, OnlyLateOutputBreaksClose
<1> QED
  BY <1>1, InvStep, PTL DEF Spec
-----------------------------------------------------------------------------
(* What the invariant says of the program. *)

\* A functor that waits is in the batch or in the queue.
LEMMA RestRange ==
  ASSUME NEW S, NEW b \in Seq(S), NEW p \in Seq(S), NEW n \in Nat \ {0}, NEW f,
         Has(Rest(b, n) \o p, f)
  PROVE  f \in Range(b) \cup Range(p)
<1> DEFINE r == Rest(b, n)
<1>1. r \in Seq(S) /\ Len(r) \in Nat /\ Len(p) \in Nat /\ Len(b) \in Nat
  BY SMTT(30) DEF Rest
<1>2. \A i \in 1..Len(r) : n + i - 1 \in 1..Len(b) /\ r[i] = b[n + i - 1]
  BY DEF Rest
<1>3. \A s \in Seq(S) : \A i \in 1..Len(s) : s[i] \in Range(s)
  BY SMTT(30) DEF Range
<1> HIDE DEF r
<1>4. /\ Len(r \o p) = Len(r) + Len(p)
      /\ \A i \in 1..(Len(r) + Len(p)) : (r \o p)[i] = IF i <= Len(r) THEN r[i] ELSE p[i - Len(r)]
  BY <1>1, Joined, Zenon
<1>5. PICK i \in 1..(Len(r) + Len(p)) : (r \o p)[i] = f
  BY <1>4, Zenon DEF Has, r
<1>6. CASE i <= Len(r)
  <2>1. i \in 1..Len(r) /\ f = r[i]
    BY <1>1, <1>4, <1>5, <1>6, SMTT(30)
  <2> QED
    BY <1>2, <1>3, <2>1, Zenon
<1>7. CASE ~(i <= Len(r))
  <2>1. i - Len(r) \in 1..Len(p) /\ f = p[i - Len(r)]
    BY <1>1, <1>4, <1>5, <1>7, SMTT(30)
  <2> QED
    BY <1>3, <2>1, Zenon
<1> QED
  BY <1>6, <1>7, Zenon

\* A functor that holds a TcpConnectionPtr keeps its connection alive while it waits.
LEMMA WaitsRefers ==
  ASSUME Base1, NEW l \in Loops, NEW c \in Conns, NEW op \in Holding, Waits(l, op, c)
  PROVE  Referenced(c)
<1>1. /\ loop[l].batch \in Seq(Functor) /\ pending[l] \in Seq(Functor) /\ loop[l].pos \in Nat \ {0}
      /\ Has(Rest(loop[l].batch, loop[l].pos) \o pending[l], Fn(op, c))
  BY Zenon DEF Base1, Types, LoopType, Waits, todo
<1>2. Fn(op, c) \in Range(loop[l].batch) \cup Range(pending[l])
  <2>1. \A b, p \in Seq(Functor), n \in Nat \ {0} :
          Has(Rest(b, n) \o p, Fn(op, c)) => Fn(op, c) \in Range(b) \cup Range(p)
    BY RestRange, Zenon
  <2> QED
    BY <1>1, <2>1, Zenon
<1>3. Fn(op, c).c = c /\ Fn(op, c).op \in Holding
  BY Zenon DEF Fn
<1> QED
  BY <1>2, <1>3, Zenon DEF Referenced

\* The callback of the user on a connection keeps it alive.
LEMMA UserRefers ==
  ASSUME NEW l \in Loops, NEW c \in Conns, NEW op \in UserCallbacks, User(l, op, c)
  PROVE  Referenced(c)
BY SMTT(30) DEF User, Referenced, NoCall, UserCallbacks

\* When a connection without late output is freed, its life is over.
LEMMA FreedIsGone ==
  ASSUME Inv0, NEW c \in Conns, Freed(c), ~conn[c].late
  PROVE  Gone(c) /\ conn[c].index = "kNew" /\ \A l \in Loops : loop[l].active[c] = {}
<1>1. c \notin connections /\ conn[c].state # "none" /\ ~Referenced(c) /\ home[c] \in Loops
  BY Zenon DEF Freed, Referenced, Inv0, Base1, Types
<1>2. ~Waits(home[c], "destroyed", c) /\ ~User(home[c], "down", c)
  BY <1>1, WaitsRefers, UserRefers, Zenon DEF Inv0, Holding, UserCallbacks
<1>3. Gone(c) /\ LifeInv(c) /\ RefInv(c)
  BY <1>1, <1>2, Zenon DEF Gone, Inv0, ConnInv
<1>4. conn[c].index = "kNew" /\ loop[home[c]].active[c] = {}
  BY <1>2, <1>3, Zenon DEF LifeInv
<1>5. \A l \in Loops : loop[l].active[c] = {}
  BY <1>3, <1>4, Zenon DEF RefInv
<1> QED
  BY <1>3, <1>4, <1>5, Zenon

\* Whatever the user does, a connection on which send() still works has not been freed.
THEOREM ConnectedIsAlwaysAlive == Spec => []ConnectedIsAlive
<1>1. Inv => ConnectedIsAlive
  <2> SUFFICES ASSUME Inv, NEW c \in Conns, conn[c].state \in {"kConnecting", "kConnected"}
               PROVE  ~Freed(c)
    BY Zenon DEF ConnectedIsAlive
  <2>1. c \in connections \/ Waits(home[c], "destroyed", c)
    BY Zenon DEF Inv, ConnInv, RefInv
  <2>2. home[c] \in Loops
    BY Zenon DEF Inv, Base1, Types
  <2>3. Referenced(c)
    <3>1. CASE c \in connections
      BY <3>1, Zenon DEF Referenced
    <3>2. CASE Waits(home[c], "destroyed", c)
      BY <2>2, <3>2, WaitsRefers, Zenon DEF Inv, Holding
    <3> QED
      BY <2>1, <3>1, <3>2, Zenon
  <2> QED
    BY <2>3, Zenon DEF Freed
<1> QED
  BY <1>1, ServerInvariant, PTL

\* Whatever the user does, the channel of a connection that reads asks for writability exactly
\* when output waits (sendInLoop, handleWrite).
THEOREM OutputIsAlwaysAsked == Spec => []WritesWhileOutputWaits
<1>1. Inv => WritesWhileOutputWaits
  BY Zenon DEF Inv, ConnInv, RefInv, WritesWhileOutputWaits, IsWriting
<1> QED
  BY <1>1, ServerInvariant, PTL

\* Whatever the user does, only output buffered after handleClose makes an assert of the removal
\* fail (handleClose, removeConnectionInLoop, connectDestroyed).
THEOREM OnlyLateOutputFails == Spec => []OnlyLateOutputBreaksClose
<1>1. Inv => OnlyLateOutputBreaksClose
  BY Zenon DEF Inv
<1> QED
  BY <1>1, ServerInvariant, PTL

\* Whatever the user does, a connection to which no output was added after its close is freed only
\* when its channel has left the poller and no loop is about to handle it.
THEOREM FreedAfterRemoval ==
  Spec => [](\A c \in Conns : Freed(c) /\ ~conn[c].late =>
               conn[c].index = "kNew" /\ \A l \in Loops : loop[l].active[c] = {})
<1>1. Inv => \A c \in Conns : Freed(c) /\ ~conn[c].late =>
                conn[c].index = "kNew" /\ \A l \in Loops : loop[l].active[c] = {}
  BY FreedIsGone, Zenon DEF Inv, Inv0
<1> QED
  BY <1>1, ServerInvariant, PTL
-----------------------------------------------------------------------------
(* A user that calls send() and shutdown() only while it is told that a     *)
(* connection is up or down, or of a message: no call arrives late.         *)

Quiet == CallsFrom \subseteq {"up", "message", "down"}

\* No call was queued, and write complete callbacks run before the connection is destroyed.
QueueInv(q, h, c) ==
  /\ \A l \in Loops : ~Has(q[l], Fn("send", c)) /\ ~Has(q[l], Fn("shutdown", c))
  /\ Before(q[h], Fn("complete", c), Fn("destroyed", c))

QuietConn(c) ==
  /\ ~conn[c].late
  /\ QueueInv(todo, home[c], c)
  /\ Gone(c) => ~Waits(home[c], "complete", c) /\ conn[c].state = "kDisconnected"

QuietInv == kept = {} /\ call = NoCall /\ fault = "none" /\ \A c \in Conns : QuietConn(c)

\* The order of two functors in a sequence that grows at its end and shrinks at its head.
LEMMA BeforeAppend ==
  ASSUME NEW S, NEW s \in Seq(S), NEW x \in S, NEW g, NEW f, g # f, Before(s, g, f),
         ~(x = g /\ Has(s, f))
  PROVE  Before(Append(s, x), g, f)
<1> DEFINE t == Append(s, x)
<1>1. t \in Seq(S) /\ Len(t) = Len(s) + 1 /\ Len(s) \in Nat
  BY SMTT(30)
<1>2. \A i \in 1..Len(s) : t[i] = s[i]
  BY SMTT(30)
<1>3. t[Len(s) + 1] = x
  BY SMTT(30)
<1> HIDE DEF t
<1>4. \A i \in 1..Len(t) : i \in 1..Len(s) \/ i = Len(s) + 1
  BY <1>1, SMTT(30)
<1>5. ASSUME NEW i \in 1..Len(t), NEW j \in 1..Len(t), t[i] = g, t[j] = f PROVE i < j
  <2>1. CASE i \in 1..Len(s) /\ j \in 1..Len(s)
    BY <1>2, <1>5, <2>1, Zenon DEF Before
  <2>2. CASE i \in 1..Len(s) /\ j = Len(s) + 1
    BY <1>1, <2>2, SMTT(30)
  <2>3. CASE i = Len(s) + 1 /\ j \in 1..Len(s)
    BY <1>2, <1>3, <1>5, <2>3, Zenon DEF Has
  <2>4. CASE i = Len(s) + 1 /\ j = Len(s) + 1
    BY <1>5, <2>4, Zenon
  <2> QED
    BY <1>4, <2>1, <2>2, <2>3, <2>4, Zenon
<1> QED
  BY <1>5, Zenon DEF Before, t

\* The order of two functors in what is left when the first one has run.
LEMMA BeforeTail ==
  ASSUME NEW S, NEW s \in Seq(S), s # <<>>, NEW g, NEW f, Before(s, g, f)
  PROVE  Before(Tail(s), g, f) /\ (Head(s) = f => ~Has(s, g))
<1> DEFINE t == Tail(s)
<1>1. t \in Seq(S) /\ Len(t) = Len(s) - 1 /\ Len(s) \in Nat \ {0} /\ Len(t) \in Nat
  BY SMTT(30)
<1>2. \A i \in 1..Len(t) : t[i] = s[i + 1]
  BY SMTT(30)
<1>3. Head(s) = s[1] /\ 1 \in 1..Len(s)
  BY <1>1, SMTT(30)
<1> HIDE DEF t
<1>4. \A i \in 1..Len(t) : i + 1 \in 1..Len(s)
  BY <1>1, SMTT(30)
<1>5. ASSUME NEW i \in 1..Len(t), NEW j \in 1..Len(t), t[i] = g, t[j] = f PROVE i < j
  <2>1. i + 1 < j + 1
    BY <1>2, <1>4, <1>5, Zenon DEF Before
  <2> QED
    BY <1>1, <2>1, SMTT(30)
<1>6. ASSUME Head(s) = f, NEW i \in 1..Len(s), s[i] = g PROVE FALSE
  <2>1. i < 1
    BY <1>3, <1>6, Zenon DEF Before
  <2> QED
    BY <2>1, SMTT(30)
<1> QED
  BY <1>5, <1>6, Zenon DEF Before, Has, t

\* A functor that is queued, unless it is a call, or a write complete callback of a connection
\* about to be destroyed.
LEMMA QueuePush ==
  ASSUME NEW q \in [Loops -> Seq(Functor)], NEW m \in Loops, NEW f \in Functor, NEW h \in Loops,
         NEW c \in Conns, QueueInv(q, h, c), f # Fn("send", c), f # Fn("shutdown", c),
         f = Fn("complete", c) => ~Has(q[h], Fn("destroyed", c))
  PROVE  QueueInv([q EXCEPT ![m] = Append(@, f)], h, c)
<1> DEFINE r == [q EXCEPT ![m] = Append(@, f)]
           g == Fn("complete", c)
           d == Fn("destroyed", c)
<1>1. g # d /\ g \in Functor /\ d \in Functor /\ Fn("send", c) \in Functor /\ Fn("shutdown", c) \in Functor
  BY FnType, Zenon DEF Fn, Ops
<1>2. \A l \in Loops : ~Has(r[l], Fn("send", c)) /\ ~Has(r[l], Fn("shutdown", c))
  BY <1>1, PushEffect, SMTT(30) DEF QueueInv
<1>3. \A s \in Seq(Functor) : Before(s, g, d) /\ ~(f = g /\ Has(s, d)) => Before(Append(s, f), g, d)
  BY <1>1, BeforeAppend, Zenon
<1>4. q[h] \in Seq(Functor) /\ Before(q[h], g, d) /\ ~(f = g /\ Has(q[h], d))
  BY Zenon DEF QueueInv
<1>5. r[h] = Append(q[h], f) \/ r[h] = q[h]
  BY Zenon
<1> HIDE DEF r, g, d
<1>6. Before(r[h], g, d)
  BY <1>3, <1>4, <1>5, Zenon
<1> QED
  BY <1>2, <1>6, Zenon DEF QueueInv, r, g, d

\* A functor that is run.
LEMMA QueuePop ==
  ASSUME NEW q \in [Loops -> Seq(Functor)], NEW l \in Loops, q[l] # <<>>, NEW h \in Loops,
         NEW c \in Conns, QueueInv(q, h, c)
  PROVE  /\ QueueInv([q EXCEPT ![l] = Tail(@)], h, c)
         /\ l = h /\ Head(q[l]) = Fn("destroyed", c) => ~Has(q[h], Fn("complete", c))
<1> DEFINE r == [q EXCEPT ![l] = Tail(@)]
           g == Fn("complete", c)
           d == Fn("destroyed", c)
<1>1. g \in Functor /\ d \in Functor /\ Fn("send", c) \in Functor /\ Fn("shutdown", c) \in Functor
  BY FnType, Zenon DEF Ops
<1>2. \A m \in Loops : ~Has(r[m], Fn("send", c)) /\ ~Has(r[m], Fn("shutdown", c))
  BY <1>1, PopEffect, ZenonT(30) DEF QueueInv
<1>3. \A s \in Seq(Functor) : s # <<>> /\ Before(s, g, d) =>
        Before(Tail(s), g, d) /\ (Head(s) = d => ~Has(s, g))
  BY BeforeTail, Zenon
<1>4. q[h] \in Seq(Functor) /\ Before(q[h], g, d)
  BY Zenon DEF QueueInv
<1>5. (l = h /\ r[h] = Tail(q[h])) \/ (l # h /\ r[h] = q[h])
  BY Zenon
<1> HIDE DEF r, g, d
<1>6. Before(r[h], g, d) /\ (l = h /\ Head(q[l]) = d => ~Has(q[h], g))
  BY <1>3, <1>4, <1>5, Zenon
<1> QED
  BY <1>2, <1>6, Zenon DEF QueueInv, r, g, d

\* A step that queues nothing and runs nothing.
LEMMA QuietSame ==
  ASSUME QuietInv, todo' = todo, UNCHANGED <<connections, home>>,
         NEW c \in Conns, conn'[c].late = conn[c].late,
         conn'[c].state = conn[c].state \/ conn[c].state \notin {"none", "kDisconnected"}
  PROVE  QuietConn(c)'
<1>1. QuietConn(c)
  BY Zenon DEF QuietInv
<1>2. QueueInv(todo, home[c], c)'
  BY <1>1, Zenon DEF QuietConn, QueueInv
<1>3. Gone(c)' => Gone(c) /\ (Waits(home[c], "complete", c)' <=> Waits(home[c], "complete", c))
  BY Zenon DEF Gone, Waits
<1> QED
  BY <1>1, <1>2, <1>3, Zenon DEF QuietConn

\* A step that queues a functor of connection c.
LEMMA QuietPush ==
  ASSUME Inv0, QuietInv, NEW m \in Loops, NEW c \in Conns, NEW op \in Ops \ {"send", "shutdown"},
         todo' = [todo EXCEPT ![m] = Append(@, Fn(op, c))], home' = home,
         \/ connections' = connections
         \/ op = "destroyed" /\ m = home[c] /\ connections' = connections \ {c},
         op = "complete" => ~Gone(c) /\ ~Waits(home[c], "destroyed", c),
         NEW d \in Conns, conn'[d].late = conn[d].late, conn'[d].state = conn[d].state
  PROVE  QuietConn(d)'
<1>1. QuietConn(d) /\ todo \in [Loops -> Seq(Functor)] /\ Fn(op, c) \in Functor
      /\ home \in [Conns -> Loops]
  BY TodoType, FnType, Zenon DEF QuietInv, Inv0, Base1, Types
<1>2. PICK h \in Loops : h = home[d]
  BY <1>1, Zenon
<1>3. \A o \in Ops : /\ Fn(o, d) \in Functor /\ (Fn(op, c) = Fn(o, d) => op = o /\ c = d)
                     /\ Fn(o, c) \in Functor
  BY FnType, SMTT(30)
<1>4. QueueInv(todo, h, d)'
  <2>1. Fn(op, c) # Fn("send", d) /\ Fn(op, c) # Fn("shutdown", d)
    BY <1>3, Zenon DEF Ops
  <2>2. Fn(op, c) = Fn("complete", d) => ~Has(todo[h], Fn("destroyed", d))
    BY <1>2, <1>3, Zenon DEF Waits, Ops
  <2>3. QueueInv(todo, h, d)
    BY <1>1, <1>2, Zenon DEF QuietConn
  <2>4. PICK f \in Functor : f = Fn(op, c)
    BY <1>1, Zenon
  <2>5. QueueInv([todo EXCEPT ![m] = Append(@, f)], h, d)
    BY <1>1, <2>1, <2>2, <2>3, <2>4, QueuePush, Zenon
  <2>6. todo' = [todo EXCEPT ![m] = Append(@, f)]
    BY <2>4, Zenon
  <2> QED
    BY <2>5, <2>6, Zenon DEF QueueInv
<1>5. \A g \in Functor : Has(todo'[h], g) <=> Has(todo[h], g) \/ (h = m /\ g = Fn(op, c))
  <2>1. PICK f \in Functor : f = Fn(op, c)
    BY <1>1, Zenon
  <2>2. todo' = [todo EXCEPT ![m] = Append(@, f)]
    BY <2>1, Zenon
  <2>3. todo \in [Loops -> Seq(Functor)]
    BY <1>1, Zenon
  <2>4. \A n \in Loops, g \in Functor :
          /\ Has(todo'[n], g) <=> Has(todo[n], g) \/ (n = m /\ g = f)
          /\ AtMostOne(todo[n], g) /\ (n # m \/ g # f \/ ~Has(todo[n], g)) => AtMostOne(todo'[n], g)
    BY <2>2, <2>3, PushEffect, SMTT(30)
  <2> QED
    BY <2>1, <2>4, Zenon
<1>6. Waits(h, "destroyed", d) \/ (m = h /\ op = "destroyed" /\ c = d) => Waits(h, "destroyed", d)'
  BY <1>3, <1>5, Zenon DEF Waits, Ops
<1>7. Waits(h, "complete", d)' => Waits(h, "complete", d) \/ (op = "complete" /\ c = d)
  BY <1>3, <1>5, Zenon DEF Waits, Ops
<1>8. home'[d] = h
  BY <1>2, Zenon
<1>9. ASSUME Gone(d)' PROVE ~Waits(h, "complete", d)' /\ conn'[d].state = "kDisconnected"
  <2>1. d \notin connections' /\ conn'[d].state # "none" /\ ~Waits(h, "destroyed", d)'
    BY <1>8, <1>9, Zenon DEF Gone, Waits
  <2>2. d \notin connections /\ ~Waits(h, "destroyed", d)
    BY <1>2, <1>6, <2>1, Zenon
  <2>3. Gone(d)
    BY <1>2, <2>1, <2>2, Zenon DEF Gone
  <2> QED
    BY <1>1, <1>2, <1>7, <2>3, Zenon DEF QuietConn
<1> QED
  BY <1>1, <1>4, <1>8, <1>9, Zenon DEF QuietConn, Waits, QueueInv

\* A step that runs a functor of connection c.
LEMMA QuietPop ==
  ASSUME Inv0, QuietInv, NEW l \in Loops, NEW c \in Conns, NEW op \in Ops, todo[l] # <<>>,
         Head(todo[l]) = Fn(op, c), todo' = [todo EXCEPT ![l] = Tail(@)],
         UNCHANGED <<connections, home>>,
         op = "destroyed" => l = home[c] /\ conn'[c].state = "kDisconnected",
         NEW d \in Conns, conn'[d].late = conn[d].late,
         d # c \/ op # "destroyed" => conn'[d].state = conn[d].state \/ conn[d].state = "kConnecting"
  PROVE  QuietConn(d)'
<1>1. QuietConn(d) /\ todo \in [Loops -> Seq(Functor)] /\ home \in [Conns -> Loops] /\ RefInv(d)
  BY TodoType, Zenon DEF QuietInv, Inv0, Base1, Types, ConnInv
<1>2. PICK h \in Loops : h = home[d]
  BY <1>1, Zenon
<1>3. \A o \in Ops : Fn(o, d) \in Functor /\ (Fn(op, c) = Fn(o, d) => op = o /\ c = d)
  BY FnType, SMTT(30)
<1>4. /\ QueueInv([todo EXCEPT ![l] = Tail(@)], h, d)
      /\ l = h /\ Head(todo[l]) = Fn("destroyed", d) => ~Has(todo[h], Fn("complete", d))
  <2>1. QueueInv(todo, h, d)
    BY <1>1, <1>2, Zenon DEF QuietConn
  <2> QED
    BY <1>1, <2>1, QueuePop, Zenon
<1>5. QueueInv(todo, h, d)'
  BY <1>4, Zenon DEF QueueInv
<1>6. \A g \in Functor : /\ Has(todo'[h], g) => Has(todo[h], g)
                         /\ Has(todo[h], g) => Has(todo'[h], g) \/ (h = l /\ Head(todo[l]) = g)
  BY <1>1, PopEffect, Zenon
<1>7. /\ Waits(h, "complete", d)' => Waits(h, "complete", d)
      /\ Waits(h, "destroyed", d) => Waits(h, "destroyed", d)' \/ (op = "destroyed" /\ c = d)
  BY <1>3, <1>6, Zenon DEF Waits, Ops
<1>8. home'[d] = h
  BY <1>2, Zenon
<1>9. ASSUME Gone(d)' PROVE ~Waits(h, "complete", d)' /\ conn'[d].state = "kDisconnected"
  <2>1. d \notin connections /\ conn'[d].state # "none" /\ ~Waits(h, "destroyed", d)'
    BY <1>8, <1>9, Zenon DEF Gone, Waits
  <2>2. CASE op = "destroyed" /\ c = d
    BY <1>2, <1>4, <1>7, <2>2, Zenon DEF Waits
  <2>3. CASE ~(op = "destroyed" /\ c = d)
    <3>1. conn'[d].state = conn[d].state
      BY <1>1, <2>1, <2>3, Zenon DEF RefInv
    <3>2. Gone(d)
      BY <1>2, <1>7, <2>1, <2>3, <3>1, Zenon DEF Gone
    <3> QED
      BY <1>1, <1>2, <1>7, <3>1, <3>2, Zenon DEF QuietConn
  <2> QED
    BY <2>2, <2>3, Zenon
<1> QED
  BY <1>1, <1>5, <1>8, <1>9, Zenon DEF QuietConn, Waits, QueueInv

\* send() and shutdown(): the connection is open.
LEMMA QuietCalls ==
  ASSUME Inv0, Quiet, QuietInv, NEW l \in Loops, NEW c \in Conns, Send(l, c) \/ Shutdown(l, c)
  PROVE  \A d \in Conns : QuietConn(d)'
<1>1. /\ InCallback(l, c) /\ conn[c].state = "kConnected" /\ conn[c].state \notin New
      /\ UNCHANGED <<connections, home, loop>> /\ QuietConn(c)
      /\ ConnInv(c) /\ home \in [Conns -> Loops] /\ conn \in [Conns -> ConnType]
      /\ conn[c] \in ConnType /\ loop[l] \in LoopType
  BY Zenon DEF Send, Shutdown, New, QuietInv, Inv0, Base1, Types
<1>2. RefInv(c) /\ LifeInv(c) /\ conn[c].late = FALSE
  BY <1>1, Zenon DEF ConnInv, QuietConn, ConnType
<1>3. PICK op \in {"up", "message", "down"} : User(l, op, c)
  BY <1>1, Zenon DEF InCallback, User, LoopType, UserType, Quiet
<1>4. home[c] = l
  BY <1>2, <1>3, SMTT(30) DEF RefInv, UserCallbacks
<1>5. Open(c)
  <2>1. CASE op = "down"
    BY <1>1, <1>2, <1>3, <1>4, <2>1, Zenon DEF LifeInv, QuietConn
  <2>2. CASE op # "down"
    BY <1>2, <1>3, <1>4, <2>2, Zenon DEF LifeInv
  <2> QED
    BY <2>1, <2>2, Zenon
<1>6. "R" \in conn[c].events /\ ~Waits(home[c], "destroyed", c) /\ ~Gone(c)
  BY <1>2, <1>5, Zenon DEF LifeInv, Open, Gone
<1>7. CASE Shutdown(l, c)
  <2>1. pending' = pending /\ conn' = [conn EXCEPT ![c] = [conn[c] EXCEPT !.state = "kDisconnecting"]]
    BY <1>1, <1>7, Zenon DEF Shutdown
  <2>2. todo' = todo
    BY <1>1, <2>1, TodoSame, Zenon
  <2>3. \A d \in Conns : /\ conn'[d].late = conn[d].late
                         /\ conn'[d].state = conn[d].state \/ d = c
    BY <1>1, <2>1, Zenon DEF ConnType
  <2> QED
    BY <1>1, <2>2, <2>3, QuietSame, Zenon
<1>8. CASE Send(l, c)
  <2>1. /\ conn' = conn \/ conn' = [conn EXCEPT ![c] = Buffered(c)]
        /\ \/ pending' = pending
           \/ pending' = Push(home[c], Fn("complete", c))
           \/ pending' = Push(home[c], Fn("completeBound", c))
    BY <1>1, <1>8, SendEffect, Zenon DEF Send, Inv0
  <2>2. Buffered(c).late = FALSE /\ Buffered(c).state = conn[c].state
    BY <1>1, <1>2, <1>6, Zenon DEF Buffered, EnableWriting, Update, ConnType
  <2>3. \A d \in Conns : conn'[d].late = conn[d].late /\ conn'[d].state = conn[d].state
    BY <1>1, <1>2, <2>1, <2>2, Zenon
  <2>4. CASE pending' = pending
    <3>1. todo' = todo
      BY <1>1, <2>4, TodoSame, Zenon
    <3> QED
      BY <1>1, <2>3, <3>1, QuietSame, Zenon
  <2>5. ASSUME NEW o \in {"complete", "completeBound"}, pending' = Push(home[c], Fn(o, c))
        PROVE  \A d \in Conns : QuietConn(d)'
    <3>1. PICK m \in Loops : m = home[c]
      BY <1>1, Zenon
    <3>2. o \in Ops \ {"send", "shutdown"} /\ Fn(o, c) \in Functor
      BY FnType, Zenon DEF Ops
    <3>3. todo' = [todo EXCEPT ![m] = Append(@, Fn(o, c))]
      BY <1>1, <2>5, <3>1, <3>2, TodoPush, Zenon DEF Inv0
    <3> QED
      BY <1>1, <1>6, <2>3, <3>2, <3>3, QuietPush, Zenon
  <2> QED
    BY <2>1, <2>4, <2>5, Zenon
<1> QED
  BY <1>7, <1>8, Zenon

\* handleWrite: a channel that asks for writability belongs to an open connection.
LEMMA QuietWrite ==
  ASSUME Inv0, QuietInv, NEW l \in Loops, NEW c \in Conns, HandleWrite(l, c)
  PROVE  \A d \in Conns : QuietConn(d)'
<1>1. /\ UNCHANGED <<connections, home>> /\ Due1(l, c, "write") /\ AfterCallback(l, c, "write", NoCall)
      /\ "write" \in Callbacks /\ NoCall \in UserType /\ QuietConn(c)
      /\ ConnInv(c) /\ conn \in [Conns -> ConnType] /\ conn[c] \in ConnType
  BY Zenon DEF HandleWrite, Callbacks, UserType, QuietInv, Inv0, Base1, Types
<1>2. \A m \in Loops : loop'[m].batch = loop[m].batch /\ loop'[m].pos = loop[m].pos
  BY <1>1, AfterCallbackStep, Zenon DEF Inv0
<1>3. RefInv(c) /\ LifeInv(c)
  BY <1>1, Zenon DEF ConnInv, QuietConn
<1>4. home[c] = l
  BY <1>1, <1>3, Zenon DEF Due1, RefInv
<1>5. CASE UNCHANGED <<conn, pending>>
  <2>1. todo' = todo
    BY <1>2, <1>5, TodoSame, Zenon
  <2> QED
    BY <1>1, <1>5, <2>1, QuietSame, Zenon
<1>6. CASE /\ IsWriting(conn[c]) /\ pending' = Push(l, Fn("complete", c))
           /\ conn' = [conn EXCEPT ![c] = DisableWriting([conn[c] EXCEPT !.out = FALSE])]
  <2>1. conn[c].events # {}
    BY <1>6, Zenon DEF IsWriting
  <2>2. ~Closing(c) /\ ~Gone(c)
    BY <1>3, <2>1, Zenon DEF LifeInv
  <2>3. ~Waits(home[c], "destroyed", c)
    BY <2>2, Zenon DEF Closing
  <2>4. \A d \in Conns : conn'[d].late = conn[d].late /\ conn'[d].state = conn[d].state
    BY <1>1, <1>6, Zenon DEF DisableWriting, Update, ConnType
  <2>5. "complete" \in Ops \ {"send", "shutdown"} /\ Fn("complete", c) \in Functor
    BY FnType, Zenon DEF Ops
  <2>6. todo' = [todo EXCEPT ![l] = Append(@, Fn("complete", c))]
    BY <1>2, <1>6, <2>5, TodoPush, Zenon DEF Inv0
  <2> QED
    BY <1>1, <2>2, <2>3, <2>4, <2>5, <2>6, QuietPush, Zenon
<1> QED
  BY <1>1, <1>5, <1>6, Zenon DEF HandleWrite, Fn

\* handleClose: the asserts hold.
LEMMA QuietClose ==
  ASSUME Inv0, UNCHANGED numThreads, QuietInv, NEW l \in Loops, NEW c \in Conns,
         NEW k \in {"close", "read"}, Due1(l, c, k), HandleClose(l, c),
         AfterCallback(l, c, k, NoCall), UNCHANGED <<next, home, kept, call>>
  PROVE  fault' = "none" /\ \A d \in Conns : QuietConn(d)'
<1>1. /\ k \in Callbacks /\ NoCall \in UserType /\ QuietConn(c) /\ fault = "none"
      /\ ConnInv(c) /\ conn \in [Conns -> ConnType] /\ conn[c] \in ConnType
  BY Zenon DEF Callbacks, UserType, QuietInv, Inv0, Base1, Types
<1>2. \A m \in Loops : loop'[m].batch = loop[m].batch /\ loop'[m].pos = loop[m].pos
  BY <1>1, AfterCallbackStep, Zenon DEF Inv0
<1>3. RefInv(c)
  BY <1>1, Zenon DEF ConnInv
<1>4. home[c] = l /\ Base \in Loops
  BY <1>3, BaseLoop, Zenon DEF Due1, RefInv
<1>5. conn' = conn \/ conn' = [conn EXCEPT ![c] = DisableAll(conn[c])]
  BY <1>1, Zenon DEF HandleClose
<1>6. DisableAll(conn[c]).late = conn[c].late /\ DisableAll(conn[c]).state = conn[c].state
  BY <1>1, Zenon DEF DisableAll, Update, ConnType
<1>7. \A d \in Conns : conn'[d].late = conn[d].late /\ conn'[d].state = conn[d].state
  BY <1>1, <1>5, <1>6, Zenon
<1>8. ~conn'[c].late
  BY <1>1, <1>7, Zenon DEF QuietConn
<1>9. fault' = "none"
  BY <1>1, <1>8, CloseStep, Zenon
<1>10. /\ "destroyed" \in Ops \ {"send", "shutdown"} /\ Fn("destroyed", c) \in Functor
       /\ "remove" \in Ops \ {"send", "shutdown"} /\ Fn("remove", c) \in Functor
  BY FnType, Zenon DEF Ops
<1>11. CASE connections' = connections \ {c} /\ pending' = Push(home[c], Fn("destroyed", c))
  <2>1. PICK m \in Loops : m = home[c]
    BY <1>4, Zenon
  <2>2. todo' = [todo EXCEPT ![m] = Append(@, Fn("destroyed", c))]
    BY <1>2, <1>10, <1>11, <2>1, TodoPush, Zenon DEF Inv0
  <2> QED
    BY <1>7, <1>9, <1>10, <1>11, <2>1, <2>2, QuietPush, Zenon
<1>12. CASE connections' = connections /\ pending' = Push(Base, Fn("remove", c))
  <2>1. PICK m \in Loops : m = Base
    BY <1>4, Zenon
  <2>2. todo' = [todo EXCEPT ![m] = Append(@, Fn("remove", c))]
    BY <1>2, <1>10, <1>12, <2>1, TodoPush, Zenon DEF Inv0
  <2> QED
    BY <1>7, <1>9, <1>10, <1>12, <2>2, QuietPush, Zenon
<1> QED
  BY <1>9, <1>11, <1>12, Zenon DEF HandleClose, RemoveConnection, RemoveConnectionInLoop, Fn

\* The functors of a connection, removeConnectionInLoop apart.
LEMMA QuietFunctors ==
  ASSUME Inv0, UNCHANGED numThreads, QuietInv, NEW l \in Loops, NEW c \in Conns,
         \/ ConnectEstablished(l, c) \/ ConnectDestroyed(l, c) \/ SendFunctor(l, c)
         \/ ShutdownFunctor(l, c) \/ WriteComplete(l, c)
  PROVE  fault' = "none" /\ \A d \in Conns : QuietConn(d)'
<1>1. PICK op \in Ops, u \in UserType :
        /\ Next1(l, op, c) /\ AfterFunctor(l, u)
        /\ \/ op = "established" /\ ConnectEstablished(l, c)
           \/ op = "destroyed" /\ ConnectDestroyed(l, c)
           \/ op \in {"send", "shutdown"}
           \/ op \in {"complete", "completeBound"} /\ WriteComplete(l, c)
  <2>1. /\ NoCall \in UserType /\ [op |-> "complete", c |-> c] \in UserType
        /\ [op |-> "up", c |-> c] \in UserType /\ [op |-> "down", c |-> c] \in UserType
    BY Zenon DEF UserType, UserCallbacks
  <2> QED
    BY <2>1, Zenon DEF ConnectEstablished, ConnectDestroyed, SendFunctor, ShutdownFunctor, WriteComplete, Ops
<1>2. /\ todo[l] # <<>> /\ Head(todo[l]) = Fn(op, c) /\ Waits(l, op, c)
      /\ l = IF op = "remove" THEN Base ELSE home[c]
      /\ op = "established" <=> conn[c].state = "kConnecting"
      /\ pending' = pending => todo' = [todo EXCEPT ![l] = Tail(@)]
  BY <1>1, FunctorTodo, SMTT(30)
<1>3. QuietConn(c) /\ fault = "none" /\ conn \in [Conns -> ConnType] /\ conn[c] \in ConnType
  BY Zenon DEF QuietInv, Inv0, Base1, Types
<1>4. op \notin {"send", "shutdown"}
  BY <1>2, <1>3, Zenon DEF QuietConn, QueueInv, Waits
<1>5. UNCHANGED <<connections, home, pending>>
  BY <1>1, <1>4, Zenon DEF ConnectEstablished, ConnectDestroyed, WriteComplete
<1>6. CASE op = "established"
  <2>1. ConnectEstablished(l, c)
    BY <1>1, <1>6, Zenon
  <2>2. fault' = "none" /\ conn' = [conn EXCEPT ![c] = Established(conn[c])]
    BY <1>2, <1>3, <1>6, <2>1, Zenon DEF ConnectEstablished
  <2>3. Established(conn[c]).late = conn[c].late
    BY <1>3, Zenon DEF Established, EnableReading, Update, ConnType
  <2>4. \A d \in Conns : conn'[d].late = conn[d].late /\ (d # c => conn'[d].state = conn[d].state)
    BY <1>3, <2>2, <2>3, Zenon
  <2>5. todo' = [todo EXCEPT ![l] = Tail(@)] /\ UNCHANGED <<connections, home>>
    BY <1>2, <1>5, Zenon
  <2>6. op # "destroyed" /\ conn[c].state = "kConnecting"
    BY <1>2, <1>6, Zenon
  <2>7. ASSUME NEW d \in Conns PROVE QuietConn(d)'
    <3>1. conn'[d].state = conn[d].state \/ conn[d].state = "kConnecting"
      BY <2>4, <2>6, Zenon
    <3> QED
      BY <1>2, <2>4, <2>5, <2>6, <3>1, QuietPop, Zenon
  <2> QED
    BY <2>2, <2>7, Zenon
<1>7. CASE op = "destroyed"
  <2>1. ConnectDestroyed(l, c)
    BY <1>1, <1>7, Zenon
  <2> DEFINE j == DisableAll([conn[c] EXCEPT !.state = "kDisconnected"])
  <2>2. j.late = conn[c].late /\ j.state = "kDisconnected"
    BY <1>3, Zenon DEF DisableAll, Update, ConnType
  <2>3. conn' = conn \/ conn' = [conn EXCEPT ![c] = j]
    BY <1>3, <2>1, Zenon DEF ConnectDestroyed
  <2>4. fault' = "none" => conn' = [conn EXCEPT ![c] = j]
    BY <2>1, Zenon DEF ConnectDestroyed
  <2> HIDE DEF j
  <2>5. \A d \in Conns : conn'[d].late = conn[d].late /\ (d # c => conn'[d].state = conn[d].state)
    BY <1>3, <2>2, <2>3, Zenon
  <2>6. ~conn'[c].late
    BY <1>3, <2>5, Zenon DEF QuietConn
  <2>7. fault' = "none"
    BY <1>3, <2>1, <2>6, DestroyedStep, Zenon
  <2>8. conn'[c].state = "kDisconnected"
    BY <1>3, <2>2, <2>4, <2>7, Zenon
  <2> QED
    BY <1>2, <1>5, <1>7, <2>5, <2>7, <2>8, QuietPop, Zenon
<1>8. CASE op \in {"complete", "completeBound"}
  <2>1. fault' = "none" /\ conn' = conn
    BY <1>1, <1>3, <1>8, Zenon DEF WriteComplete
  <2> QED
    BY <1>2, <1>5, <1>8, <2>1, QuietPop, Zenon
<1> QED
  BY <1>1, <1>4, <1>6, <1>7, <1>8, Zenon

\* removeConnectionInLoop, run as a functor: the connection is still registered.
LEMMA QuietRemove ==
  ASSUME Inv0, UNCHANGED numThreads, QuietInv, NEW l \in Loops, NEW c \in Conns, RemoveFunctor(l, c)
  PROVE  fault' = "none" /\ \A d \in Conns : QuietConn(d)'
<1>1. /\ Next1(l, "remove", c) /\ AfterFunctor(l, NoCall) /\ "remove" \in Ops /\ NoCall \in UserType
      /\ RemoveConnectionInLoop(c) /\ UNCHANGED <<home, conn>>
  BY Zenon DEF RemoveFunctor, Ops, UserType
<1>2. /\ todo \in [Loops -> Seq(Functor)] /\ home \in [Conns -> Loops] /\ fault = "none"
      /\ Fn("destroyed", c) \in Functor /\ \A d \in Conns : QuietConn(d)
  BY TodoType, FnType, Zenon DEF QuietInv, Inv0, Base1, Types, Ops
<1>3. ~conn'[c].late
  BY <1>1, <1>2, Zenon DEF QuietConn
<1>4. fault' = "none"
  BY <1>2, <1>3, RemoveStep, Zenon
<1>5. connections' = connections \ {c} /\ pending' = Push(home[c], Fn("destroyed", c))
  BY <1>1, <1>4, Zenon DEF RemoveConnectionInLoop, Fn
<1>6. PICK m \in Loops, f \in Functor : m = home[c] /\ f = Fn("destroyed", c)
  BY <1>2, Zenon
<1>7. /\ todo[l] # <<>> /\ Head(todo[l]) = Fn("remove", c)
      /\ todo' = [[todo EXCEPT ![l] = Tail(@)] EXCEPT ![m] = Append(@, f)]
  BY <1>1, <1>5, <1>6, FunctorTodo, SMTT(30)
<1> DEFINE q == [todo EXCEPT ![l] = Tail(@)]
<1>8. /\ q \in [Loops -> Seq(Functor)]
      /\ \A n \in Loops, g \in Functor :
           /\ Has(q[n], g) => Has(todo[n], g)
           /\ Has(todo[n], g) => Has(q[n], g) \/ (n = l /\ Head(todo[l]) = g)
  BY <1>2, <1>7, PopEffect, Zenon
<1>9. \A d \in Conns, h \in Loops : QueueInv(todo, h, d) => QueueInv(q, h, d)
  BY <1>2, <1>7, QueuePop, Zenon
<1>10. todo' = [q EXCEPT ![m] = Append(@, f)]
  BY <1>7, Zenon
<1> HIDE DEF q
<1>11. \A n \in Loops, g \in Functor :
         /\ Has(todo'[n], g) <=> Has(q[n], g) \/ (n = m /\ g = f)
         /\ AtMostOne(q[n], g) /\ (n # m \/ g # f \/ ~Has(q[n], g)) => AtMostOne(todo'[n], g)
  <2>1. q \in [Loops -> Seq(Functor)]
    BY <1>8, Zenon
  <2> QED
    BY <1>10, <2>1, PushEffect, SMTT(30)
<1>12. ASSUME NEW d \in Conns PROVE QuietConn(d)'
  <2>1. PICK h \in Loops : h = home[d]
    BY <1>2, Zenon
  <2>2. QueueInv(q, h, d)
    BY <1>2, <1>9, <2>1, Zenon DEF QuietConn
  <2>3. f # Fn("send", d) /\ f # Fn("shutdown", d) /\ f # Fn("complete", d) /\ f # Fn("remove", c)
    BY <1>6, Zenon DEF Fn
  <2>4. QueueInv([q EXCEPT ![m] = Append(@, f)], h, d)
    BY <1>8, <2>2, <2>3, QueuePush, Zenon
  <2>5. QueueInv(todo, h, d)'
    BY <1>10, <2>4, Zenon DEF QueueInv
  <2>6. /\ Fn("complete", d) \in Functor /\ Fn("destroyed", d) \in Functor
        /\ Fn("destroyed", d) # Fn("remove", c)
    BY FnType, Zenon DEF Ops, Fn
  <2>7. /\ Waits(h, "complete", d)' => Waits(h, "complete", d)
        /\ Waits(h, "destroyed", d) => Waits(h, "destroyed", d)'
        /\ d = c => Waits(h, "destroyed", d)'
    BY <1>6, <1>7, <1>8, <1>11, <2>1, <2>3, <2>6, Zenon DEF Waits
  <2>8. home'[d] = h /\ conn'[d] = conn[d]
    BY <1>1, <2>1, Zenon
  <2>9. ASSUME Gone(d)' PROVE ~Waits(h, "complete", d)' /\ conn'[d].state = "kDisconnected"
    <3>1. d \notin connections' /\ conn'[d].state # "none" /\ ~Waits(h, "destroyed", d)'
      BY <2>8, <2>9, Zenon DEF Gone, Waits
    <3>2. Gone(d)
      BY <1>5, <2>1, <2>7, <2>8, <3>1, Zenon DEF Gone
    <3> QED
      BY <1>2, <2>1, <2>7, <2>8, <3>2, Zenon DEF QuietConn
  <2> QED
    BY <1>2, <2>5, <2>8, <2>9, Zenon DEF QuietConn, Waits, QueueInv
<1> QED
  BY <1>4, <1>12, Zenon

\* newConnection: nothing waits for a connection that was not accepted before.
LEMMA QuietNew ==
  ASSUME Inv0, QuietInv, NEW c \in Conns, NewConnection(c)
  PROVE  \A d \in Conns : QuietConn(d)'
<1> DEFINE here == LoopAt(next) = Base
<1>1. /\ LoopAt(next) \in Loops /\ Base \in Loops /\ RefInv(c) /\ conn[c] \in ConnType
      /\ conn \in [Conns -> ConnType] /\ loop \in [Loops -> LoopType] /\ home \in [Conns -> Loops]
      /\ todo \in [Loops -> Seq(Functor)] /\ Fn("established", c) \in Functor
      /\ \A d \in Conns : QuietConn(d)
  <2>1. Base1 /\ ConnInv(c)
    BY Zenon DEF Inv0
  <2>2. LoopAt(next) \in Loops /\ todo \in [Loops -> Seq(Functor)]
    BY <2>1, NextLoop, TodoType, Zenon
  <2>3. Base \in Loops /\ RefInv(c)
    BY <2>1, BaseLoop, Zenon DEF ConnInv
  <2>4. Fn("established", c) \in Functor
    BY FnType, Zenon DEF Ops
  <2> QED
    BY <2>1, <2>2, <2>3, <2>4, Zenon DEF Base1, Types, QuietInv
<1>2. PICK m \in Loops, f \in Functor : m = LoopAt(next) /\ f = Fn("established", c)
  BY <1>1, Zenon
<1>3. /\ connections' = connections \cup {c} /\ home' = [home EXCEPT ![c] = m]
      /\ pending' = (IF here THEN pending ELSE Push(m, f))
      /\ conn[c].state = "none"
  BY <1>2, Zenon DEF NewConnection, Fn
<1>4. \A n \in Loops : loop'[n].batch = loop[n].batch /\ loop'[n].pos = loop[n].pos
  <2>1. PICK r : loop' = [loop EXCEPT ![Base] = r] /\ r.batch = loop[Base].batch /\ r.pos = loop[Base].pos
    <3> DEFINE u == IF here THEN [op |-> "up", c |-> c] ELSE NoCall
               r == [loop[Base] EXCEPT !.accept = FALSE, !.user = u]
    <3>1. loop' = [loop EXCEPT ![Base] = r]
      BY <1>1, Zenon DEF NewConnection
    <3>2. r.batch = loop[Base].batch /\ r.pos = loop[Base].pos
      BY <1>1, ZenonT(30) DEF LoopType
    <3> HIDE DEF r
    <3> QED
      BY <3>1, <3>2, Zenon
  <2> QED
    BY <1>1, <2>1, Zenon
<1>5. \A n \in Loops, op \in Ops : ~Has(todo[n], Fn(op, c))
  BY <1>1, <1>3, Zenon DEF RefInv, Waits
<1>6. \A d \in Conns : conn'[d].late = conn[d].late /\ (d # c => conn'[d] = conn[d])
  <2>1. PICK j : conn' = [conn EXCEPT ![c] = j] /\ j.late = conn[c].late
    <3> DEFINE made == [conn[c] EXCEPT !.state = "kConnecting"]
               j == IF here THEN Established(made) ELSE made
    <3>1. conn' = [conn EXCEPT ![c] = j]
      BY Zenon DEF NewConnection
    <3>2. j.late = conn[c].late
      BY <1>1, Zenon DEF Established, EnableReading, Update, ConnType
    <3> HIDE DEF j
    <3> QED
      BY <3>1, <3>2, Zenon
  <2> QED
    BY <1>1, <2>1, Zenon
<1>7. todo' = todo \/ todo' = [todo EXCEPT ![m] = Append(@, f)]
  <2>1. CASE here
    BY <1>3, <1>4, <2>1, TodoSame, Zenon
  <2>2. CASE ~here
    BY <1>3, <1>4, <2>2, TodoPush, Zenon DEF Inv0
  <2> QED
    BY <2>1, <2>2, Zenon
<1>8. \A n \in Loops, g \in Functor :
        /\ Has(todo[n], g) => Has(todo'[n], g)
        /\ Has(todo'[n], g) => Has(todo[n], g) \/ g = f
  <2>1. CASE todo' = todo
    BY <2>1, Zenon
  <2>2. CASE todo' = [todo EXCEPT ![m] = Append(@, f)]
    <3>1. todo \in [Loops -> Seq(Functor)]
      BY <1>1, Zenon
    <3>2. \A n \in Loops, g \in Functor :
            /\ Has(todo'[n], g) <=> Has(todo[n], g) \/ (n = m /\ g = f)
            /\ AtMostOne(todo[n], g) /\ (n # m \/ g # f \/ ~Has(todo[n], g)) => AtMostOne(todo'[n], g)
      BY <2>2, <3>1, PushEffect, SMTT(30)
    <3> QED
      BY <3>2, Zenon
  <2> QED
    BY <1>7, <2>1, <2>2, Zenon
<1>9. ASSUME NEW d \in Conns PROVE QuietConn(d)'
  <2>1. PICK h \in Loops : h = home'[d]
    BY <1>1, <1>3, Zenon
  <2>2. QueueInv(todo, h, d)
    <3>1. CASE d = c
      BY <1>5, <3>1, Zenon DEF QueueInv, Before, Has, Ops
    <3>2. CASE d # c
      BY <1>1, <1>3, <2>1, <3>2, Zenon DEF QuietConn
    <3> QED
      BY <3>1, <3>2, Zenon
  <2>3. /\ f # Fn("send", d) /\ f # Fn("shutdown", d) /\ f # Fn("complete", d) /\ f # Fn("destroyed", d)
        /\ Fn("complete", d) \in Functor /\ Fn("destroyed", d) \in Functor
    BY <1>2, FnType, Zenon DEF Fn, Ops
  <2>4. QueueInv([todo EXCEPT ![m] = Append(@, f)], h, d)
    BY <1>1, <2>2, <2>3, QueuePush, Zenon
  <2>5. QueueInv(todo, h, d)'
    BY <1>7, <2>2, <2>4, Zenon DEF QueueInv
  <2>6. ASSUME Gone(d)' PROVE ~Waits(h, "complete", d)' /\ conn'[d].state = "kDisconnected"
    <3>1. d \notin connections' /\ conn'[d].state # "none" /\ ~Waits(h, "destroyed", d)'
      BY <2>1, <2>6, Zenon DEF Gone, Waits
    <3>2. d # c /\ d \notin connections /\ h = home[d] /\ conn'[d] = conn[d]
      BY <1>1, <1>3, <1>6, <2>1, <3>1, Zenon
    <3>3. ~Waits(h, "destroyed", d) /\ (Waits(h, "complete", d)' => Waits(h, "complete", d))
      BY <1>8, <2>3, <3>1, Zenon DEF Waits
    <3>4. Gone(d)
      BY <3>1, <3>2, <3>3, Zenon DEF Gone
    <3> QED
      BY <1>1, <3>2, <3>3, <3>4, Zenon DEF QuietConn
  <2>7. ~conn'[d].late
    BY <1>1, <1>6, Zenon DEF QuietConn
  <2> QED
    BY <2>1, <2>5, <2>6, <2>7, Zenon DEF QuietConn, Waits, QueueInv
<1> QED
  BY <1>9, Zenon

\* Nothing is used after its connection was freed: the functors that wait hold a pointer, or are
\* write complete callbacks of a connection that is not destroyed yet.
LEMMA QuietNoFreed ==
  ASSUME Inv0, QuietInv, NEW l \in Loops
  PROVE  ~UseFreed(l)
<1>1. ASSUME NEW c \in Conns, Freed(c)
      PROVE  /\ Gone(c) /\ \A m \in Loops : loop[m].active[c] = {}
             /\ \A m \in Loops, op \in Ops : ~Waits(m, op, c)
  <2>1. QuietConn(c) /\ ConnInv(c)
    BY Zenon DEF QuietInv, Inv0
  <2>2. Gone(c) /\ (\A m \in Loops : loop[m].active[c] = {}) /\ ~Referenced(c)
    BY <1>1, <2>1, FreedIsGone, Zenon DEF QuietConn, Freed
  <2>3. ASSUME NEW m \in Loops, NEW op \in Ops, Waits(m, op, c) PROVE FALSE
    <3>1. op \notin Holding
      BY <2>2, <2>3, WaitsRefers, Zenon DEF Inv0
    <3>2. op \notin {"send", "shutdown"}
      BY <2>1, <2>3, Zenon DEF QuietConn, QueueInv, Waits
    <3>3. op = "complete"
      BY <3>1, <3>2, Zenon DEF Ops, Holding
    <3>4. m = home[c]
      BY <2>1, <2>3, <3>3, Zenon DEF ConnInv, RefInv
    <3> QED
      BY <2>1, <2>2, <2>3, <3>3, <3>4, Zenon DEF QuietConn
  <2> QED
    BY <2>2, <2>3, Zenon
<1>2. ASSUME loop[l].pos <= Len(loop[l].batch), Freed(loop[l].batch[loop[l].pos].c) PROVE FALSE
  <2>1. /\ loop[l].batch \in Seq(Functor) /\ pending[l] \in Seq(Functor) /\ loop[l].pos \in Nat \ {0}
    BY Zenon DEF Inv0, Base1, Types, LoopType
  <2>2. PICK f \in Functor : f = loop[l].batch[loop[l].pos]
    <3>1. loop[l].pos \in 1..Len(loop[l].batch)
      BY <1>2, <2>1, SMTT(30)
    <3> QED
      BY <2>1, <3>1, SMTT(30)
  <2>3. todo[l] = Rest(loop[l].batch, loop[l].pos) \o pending[l]
    BY Zenon DEF todo
  <2>4. todo[l] # <<>> /\ Head(todo[l]) = f
    <3>1. \A b, p \in Seq(Functor), n \in Nat \ {0} : n <= Len(b) =>
            Rest(b, n) \o p # <<>> /\ Head(Rest(b, n) \o p) = b[n]
      BY RestHead, Zenon
    <3>2. /\ Rest(loop[l].batch, loop[l].pos) \o pending[l] # <<>>
          /\ Head(Rest(loop[l].batch, loop[l].pos) \o pending[l]) = loop[l].batch[loop[l].pos]
      BY <1>2, <2>1, <3>1, Zenon
    <3> QED
      BY <2>2, <2>3, <3>2, Zenon
  <2>5. Has(todo[l], f)
    BY <2>4, TodoType, PopEffect, Zenon DEF Inv0
  <2>6. f.c \in Conns /\ f.op \in Ops /\ f = Fn(f.op, f.c)
    BY Zenon DEF Functor, Fn
  <2>7. Waits(l, f.op, f.c)
    BY <2>5, <2>6, Zenon DEF Waits
  <2> QED
    BY <1>1, <1>2, <2>2, <2>6, <2>7, Zenon
<1> QED
  BY <1>1, <1>2, Zenon DEF UseFreed

\* Every step of a loop keeps it so.
LEMMA QuietLoop ==
  ASSUME Inv0, UNCHANGED numThreads, QuietInv, NEW l \in Loops, LoopStep(l)
  PROVE  QuietInv'
<1>1. fault = "none" /\ conn \in [Conns -> ConnType] /\ loop[l] \in LoopType
  BY Zenon DEF QuietInv, Inv0, Base1, Types
<1>2. CASE SwapFunctors(l) \/ EndBatch(l)
  <2>1. todo' = todo /\ UNCHANGED <<connections, home, conn, kept, call, fault>>
    BY <1>2, BatchSteps, Zenon DEF SwapFunctors, EndBatch
  <2> QED
    BY <2>1, QuietSame, Zenon DEF QuietInv
<1>3. CASE CallbackReturns(l)
  <2>1. UNCHANGED <<connections, home, pending, kept, call, fault>>
    BY <1>3, Zenon DEF CallbackReturns
  <2>2. \A m \in Loops : loop'[m].batch = loop[m].batch /\ loop'[m].pos = loop[m].pos
    BY <1>3, Zenon DEF CallbackReturns, Inv0, Base1, Types, LoopType
  <2>3. todo' = todo
    BY <2>1, <2>2, TodoSame, Zenon
  <2>4. \A d \in Conns : conn'[d].late = conn[d].late /\ conn'[d].state = conn[d].state
    BY <1>1, <1>3, ZenonT(30) DEF CallbackReturns, ConnType
  <2> QED
    BY <2>1, <2>3, <2>4, QuietSame, Zenon DEF QuietInv
<1>4. CASE AcceptFails
  <2>1. UNCHANGED <<connections, home, conn, pending, kept, call, fault>>
    BY <1>4, Zenon DEF AcceptFails
  <2>2. \A m \in Loops : loop'[m].batch = loop[m].batch /\ loop'[m].pos = loop[m].pos
    BY <1>4, Zenon DEF AcceptFails, Inv0, Base1, Types, LoopType
  <2>3. todo' = todo
    BY <2>1, <2>2, TodoSame, Zenon
  <2> QED
    BY <2>1, <2>3, QuietSame, Zenon DEF QuietInv
<1>5. ASSUME NEW c \in Conns, NewConnection(c) PROVE QuietInv'
  BY <1>5, QuietNew, Zenon DEF NewConnection, QuietInv
<1>6. ASSUME NEW c \in Conns, CloseCallback(l, c) PROVE QuietInv'
  BY <1>6, QuietClose, Zenon DEF CloseCallback, QuietInv
<1>7. ASSUME NEW c \in Conns, NEW k \in Callbacks, NEW u \in UserType,
             Due1(l, c, k), AfterCallback(l, c, k, u),
             UNCHANGED <<connections, home, conn, pending, kept, call, fault>>
      PROVE  QuietInv'
  <2>1. \A m \in Loops : loop'[m].batch = loop[m].batch /\ loop'[m].pos = loop[m].pos
    BY <1>7, AfterCallbackStep, Zenon DEF Inv0
  <2>2. todo' = todo
    BY <1>7, <2>1, TodoSame, Zenon
  <2> QED
    BY <1>7, <2>2, QuietSame, Zenon DEF QuietInv
<1>8. ASSUME NEW c \in Conns, HandleError(l, c) PROVE QuietInv'
  BY <1>7, <1>8, Zenon DEF HandleError, Callbacks, UserType
<1>9. ASSUME NEW c \in Conns, HandleRead(l, c) PROVE QuietInv'
  <2>1. /\ Due1(l, c, "read") /\ "read" \in Callbacks /\ UNCHANGED <<next, home, kept, call>>
        /\ NoCall \in UserType /\ [op |-> "message", c |-> c] \in UserType
    BY <1>9, Zenon DEF HandleRead, Callbacks, UserType, UserCallbacks
  <2>2. CASE HandleClose(l, c) /\ AfterCallback(l, c, "read", NoCall)
    BY <2>1, <2>2, QuietClose, Zenon DEF QuietInv
  <2>3. CASE /\ UNCHANGED <<connections, conn, pending, fault>>
             /\ AfterCallback(l, c, "read", NoCall)
    BY <1>7, <2>1, <2>3, Zenon
  <2>4. CASE /\ UNCHANGED <<connections, conn, pending, fault>>
             /\ AfterCallback(l, c, "read", [op |-> "message", c |-> c])
    BY <1>7, <2>1, <2>4, Zenon
  <2> QED
    BY <1>9, <2>2, <2>3, <2>4, Zenon DEF HandleRead
<1>10. ASSUME NEW c \in Conns, HandleWrite(l, c) PROVE QuietInv'
  BY <1>10, QuietWrite, Zenon DEF HandleWrite, QuietInv
<1>11. ASSUME NEW c \in Conns, RemoveFunctor(l, c) PROVE QuietInv'
  BY <1>11, QuietRemove, Zenon DEF RemoveFunctor, QuietInv
<1>12. ASSUME NEW c \in Conns,
              \/ ConnectEstablished(l, c) \/ ConnectDestroyed(l, c) \/ SendFunctor(l, c)
              \/ ShutdownFunctor(l, c) \/ WriteComplete(l, c)
       PROVE  QuietInv'
  <2>1. UNCHANGED <<kept, call>>
    BY <1>12, Zenon DEF ConnectEstablished, ConnectDestroyed, SendFunctor, ShutdownFunctor, WriteComplete
  <2> QED
    BY <1>12, <2>1, QuietFunctors, Zenon DEF QuietInv
<1> QED
  BY <1>2, <1>3, <1>4, <1>5, <1>6, <1>8, <1>9, <1>10, <1>11, <1>12, QuietNoFreed, Zenon DEF LoopStep

\* Every step keeps it so.
LEMMA QuietStep == Quiet /\ Inv0 /\ QuietInv /\ [Next]_vars => QuietInv'
<1> SUFFICES ASSUME Quiet, Inv0, QuietInv, [Next]_vars PROVE QuietInv'
  BY Zenon
<1>1. fault = "none" /\ kept = {} /\ call = NoCall
  BY Zenon DEF QuietInv
<1>2. ASSUME todo' = todo, UNCHANGED <<connections, home, conn, kept, call, fault>> PROVE QuietInv'
  BY <1>2, QuietSame, Zenon DEF QuietInv
<1>3. CASE UNCHANGED vars
  BY <1>2, <1>3, TodoSame, Zenon DEF vars
<1>4. ASSUME NEW l \in PoolLoops PROVE l \in Loops
  BY PoolAssumption, SMTT(30) DEF PoolLoops, Loops, Inv0, Base1, Types
<1>5. ASSUME UNCHANGED numThreads, NEW l \in PoolLoops, LoopStep(l) PROVE QuietInv'
  BY <1>4, <1>5, QuietLoop, Zenon
<1>6. ASSUME NEW l \in PoolLoops, NEW slow \in SUBSET Conns, PollInterrupted(l) \/ PollReturns(l, slow)
      PROVE  QuietInv'
  <2>1. UNCHANGED <<connections, home, conn, pending, kept, call, fault>>
    BY <1>6, Zenon DEF PollInterrupted, PollReturns
  <2>2. \A m \in Loops : loop'[m].batch = loop[m].batch /\ loop'[m].pos = loop[m].pos
    <3>1. loop \in [Loops -> LoopType] /\ loop[l] \in LoopType
      BY <1>4, Zenon DEF Inv0, Base1, Types
    <3>2. CASE PollInterrupted(l)
      BY <3>1, <3>2, Zenon DEF PollInterrupted, LoopType
    <3>3. CASE PollReturns(l, slow)
      <4>1. PICK accept : loop' = [loop EXCEPT ![l] = [loop[l] EXCEPT !.phase = "dispatch",
                                                        !.accept = accept, !.active = Active(l, slow)]]
        BY <3>1, <3>3, Zenon DEF PollReturns
      <4> DEFINE r == [loop[l] EXCEPT !.phase = "dispatch", !.accept = accept, !.active = Active(l, slow)]
      <4>2. r.batch = loop[l].batch /\ r.pos = loop[l].pos
        BY <3>1, Zenon DEF LoopType
      <4>3. loop' = [loop EXCEPT ![l] = r]
        BY <4>1, Zenon
      <4> HIDE DEF r
      <4> QED
        BY <3>1, <4>2, <4>3, Zenon
    <3> QED
      BY <1>6, <3>2, <3>3, Zenon
  <2> QED
    BY <1>2, <2>1, <2>2, TodoSame, Zenon
<1>7. CASE PeerStep \/ Start
  <2>1. UNCHANGED <<connections, home, conn, loop, pending, kept, call, fault>>
    BY <1>7, Zenon DEF PeerStep, PeerSends, PeerCloses, PeerResets, Peer, Start
  <2> QED
    BY <1>2, <2>1, TodoSame, Zenon
<1>8. ~ThreadStores /\ ~ThreadQueues /\ \A c \in Conns : ~Drop(c) /\ \A op : ~ThreadTests(op, c)
  BY <1>1, SMT DEF ThreadStores, ThreadQueues, Drop, ThreadTests, NoCall
<1>9. \A c \in Conns, l \in Loops : ~Keep(l, c)
  BY Zenon DEF Keep, Quiet
<1>10. ASSUME NEW l \in Loops, NEW c \in Conns, Send(l, c) \/ Shutdown(l, c) PROVE QuietInv'
  BY <1>10, QuietCalls, Zenon DEF Send, Shutdown, QuietInv
<1>11. CASE UserStep
  BY <1>7, <1>8, <1>9, <1>10, <1>11, Zenon DEF UserStep
<1> QED
  BY <1>3, <1>5, <1>6, <1>7, <1>11, Zenon DEF Next, Ended

\* With such a user no call arrives late and write complete callbacks run before the connection
\* is destroyed.
THEOREM QuietUserInvariant == Quiet => (Spec => []QuietInv)
<1> SUFFICES ASSUME Quiet PROVE Spec => []QuietInv
  BY Zenon
<1>1. Init => QuietInv
  <2> SUFFICES ASSUME Init PROVE QuietInv
    BY Zenon
  <2>1. Inv0
    BY InitInv, Zenon
  <2>2. ASSUME NEW c \in Conns PROVE QuietConn(c)
    <3>1. conn[c].state = "none" /\ conn[c].late = FALSE
      BY Zenon DEF Init
    <3>2. \A m \in Loops, op \in Ops : ~Has(todo[m], Fn(op, c))
      BY <2>1, <3>1, Zenon DEF Inv0, ConnInv, RefInv, Waits
    <3>3. home[c] \in Loops
      BY <2>1, Zenon DEF Inv0, Base1, Types
    <3>4. QueueInv(todo, home[c], c)
      BY <3>2, <3>3, Zenon DEF QueueInv, Before, Has, Ops
    <3> QED
      BY <3>1, <3>4, Zenon DEF QuietConn, Gone
  <2> QED
    BY <2>2, Zenon DEF QuietInv, Init
<1>2. Inv => Inv0
  BY Zenon DEF Inv, Inv0
<1>3. Inv0 /\ QuietInv /\ [Next]_vars => QuietInv'
  BY QuietStep, Zenon
<1> QED
  BY <1>1, <1>2, <1>3, ServerInvariant, PTL DEF Spec

\* When the user calls send() and shutdown() only in the callbacks for a connection that is up or
\* down and for a message, no assert of the connection's life fails and nothing is used after it
\* was freed.
THEOREM QuietUserNoFault == Quiet => (Spec => []NoFault)
<1> SUFFICES ASSUME Quiet PROVE Spec => []NoFault
  BY Zenon
<1>1. QuietInv => NoFault
  BY Zenon DEF QuietInv, NoFault
<1>2. Spec => []QuietInv
  BY QuietUserInvariant, Zenon
<1> QED
  BY <1>1, <1>2, PTL

\* With such a user a connection is freed only when its channel has left the poller and no loop is
\* about to handle it (connectDestroyed, ~TcpConnection).
THEOREM QuietUserFreesUnregistered == Quiet => (Spec => []FreedIsUnregistered)
<1> SUFFICES ASSUME Quiet PROVE Spec => []FreedIsUnregistered
  BY Zenon
<1>1. Inv /\ QuietInv => FreedIsUnregistered
  BY FreedIsGone, Zenon DEF Inv, Inv0, QuietInv, QuietConn, FreedIsUnregistered
<1>2. Spec => []QuietInv
  BY QuietUserInvariant, Zenon
<1> QED
  BY <1>1, <1>2, ServerInvariant, PTL
==============================================================================
