--------------------------- MODULE TcpClientProofs ---------------------------
(***************************************************************************)
(* The client for any number of connections, calls and queued functors,    *)
(* when sequence numbers of timers never run out: as long as connect() and *)
(* the destructor are called on an idle client there is one attempt at a   *)
(* time, none is forgotten, and no assert fails.                           *)
(***************************************************************************)
EXTENDS TcpClient, TLAPS

-----------------------------------------------------------------------------
(* Sequences. *)

\* The elements of a concatenation.
LEMMA Joined ==
  ASSUME NEW S, NEW a \in Seq(S), NEW z \in Seq(S)
  PROVE  /\ a \o z \in Seq(S)
         /\ Len(a \o z) = Len(a) + Len(z)
         /\ \A i \in 1..(Len(a) + Len(z)) :
               (a \o z)[i] = IF i <= Len(a) THEN a[i] ELSE z[i - Len(a)]
  OBVIOUS

\* Appending an element is joining a sequence of one.
LEMMA Appended ==
  ASSUME NEW S, NEW a \in Seq(S), NEW e \in S
  PROVE  <<e>> \in Seq(S) /\ Append(a, e) = a \o <<e>>
  OBVIOUS

\* The order in which sequences are joined does not matter.
LEMMA JoinedInTurn ==
  ASSUME NEW S, NEW a \in Seq(S), NEW z \in Seq(S), NEW e \in Seq(S)
  PROVE  (a \o z) \o e = a \o (z \o e)
  OBVIOUS

\* Joining the empty sequence changes nothing.
LEMMA JoinedEmpty ==
  ASSUME NEW S, NEW a \in Seq(S)
  PROVE  a \o <<>> = a /\ <<>> \o a = a
  OBVIOUS

\* A sequence is its elements.
LEMMA SameElements ==
  ASSUME NEW S, NEW a \in Seq(S), NEW z \in Seq(S), Len(a) = Len(z),
         \A i \in 1..Len(a) : a[i] = z[i]
  PROVE  a = z
  OBVIOUS

\* The elements of a tail.
LEMMA AllButFirst ==
  ASSUME NEW S, NEW a \in Seq(S), a # <<>>
  PROVE  /\ Tail(a) \in Seq(S)
         /\ Len(Tail(a)) = Len(a) - 1
         /\ \A i \in 1..Len(Tail(a)) : Tail(a)[i] = a[i + 1]
  OBVIOUS

-----------------------------------------------------------------------------
(* The inductive invariant. *)

Has(s, f)       == \E i \in 1..Len(s) : s[i] = f
AtMostOne(s, f) == \A i, j \in 1..Len(s) : s[i] = f /\ s[j] = f => i = j
Before(s, g, f) == \A i, j \in 1..Len(s) : s[i] = g /\ s[j] = f => i < j

\* The functors the loop has still to run, in order.
todo     == loop.batch \o pending
Waits(f) == Has(todo, f)

AStart       == [op |-> "start"]
AReset       == [op |-> "reset"]
Cancel(t)    == [op |-> "cancel", t |-> t]
Destroyed(c) == [op |-> "destroyed", c |-> c]
Shutdown(c)  == [op |-> "shutdown", c |-> c]
Writable     == [op |-> "writable"]
Failed       == [op |-> "failed"]
Timer(t)     == [op |-> "timer", t |-> t]
Closed(c)    == [op |-> "closed", c |-> c]
Up(c)        == [op |-> "up", c |-> c]
Down(c)      == [op |-> "down", c |-> c]

Open == {"kConnected", "kDisconnecting"}

\* Where the loop is.
LoopInv ==
  /\ loop.phase # "run" => loop.batch = <<>>
  /\ loop.phase # "dispatch" =>
       loop.due = {} /\ ~Has(pending, AReset) /\ \A c \in Conns : ~Has(pending, Destroyed(c))
  /\ loop.phase = "poll" => loop.user = None
  /\ connector.at \in {"restart", "new"} => loop.phase = "dispatch" /\ loop.user = None
  /\ \A c \in Conns : /\ loop.user = Up(c) => loop.phase = "dispatch"
                      /\ loop.user = Down(c) => loop.phase = "run"

\* The call of connect() by another thread, up to its functor.
Starting == call \in {"start", "queue"}

\* A retry that waits for its timer, and a method of the Connector on its way to an attempt.
Midway == connector.at \in {"start", "connect", "retry"}
Trying == connector.timers # {} \/ Midway

\* Of a retry, a method under way, a call of connect() and its functor there is one, and only
\* while the Connector is disconnected.
AttemptInv ==
  /\ connector.state = "kConnecting" <=> connector.channel = "registered"
  /\ connector.timers \subseteq {connector.timerId}
  /\ Trying \/ Waits(AStart) \/ Starting => connector.state = "kDisconnected"
  /\ connector.timers = {} \/ ~Midway
  /\ ~Trying \/ ~Waits(AStart)
  /\ ~Trying \/ ~Starting
  /\ ~Waits(AStart) \/ ~Starting
  /\ AtMostOne(todo, AStart)
  /\ connect /\ connector.connect /\ connector.state = "kDisconnected" /\ ~connector.gaveUp =>
       Trying \/ Waits(AStart) \/ Starting
  /\ connects = 0 => /\ connector.state = "kDisconnected" /\ connector.channel = "none"
                     /\ ~Trying /\ ~Waits(AStart) /\ ~Starting

\* The channel of an attempt waits for resetChannel before the next attempt begins.
ChannelInv ==
  /\ connector.channel = "removed" <=> Waits(AReset)
  /\ connector.at \in {"restart", "start", "connect"} => connector.channel = "none"
  /\ AtMostOne(todo, AReset)
  /\ Before(todo, AReset, AStart)
  /\ Writable \in loop.due \/ Failed \in loop.due =>
       /\ connector.state = "kConnecting"
       /\ \A c \in Conns : ~Waits(Destroyed(c))
  /\ Writable \notin loop.due \/ Failed \notin loop.due
  /\ \A t \in TimerIds : Timer(t) \in loop.due =>
       connector.channel # "removed" /\ Writable \notin loop.due /\ Failed \notin loop.due

\* The connection, and those that wait for connectDestroyed.
ConnInv ==
  /\ connection # 0 =>
       connector.state = "kConnected" /\ conn[connection] \in Open /\ ~Waits(Destroyed(connection))
  /\ \A c \in Conns :
       /\ Closed(c) \in loop.due => connection = c /\ connector.channel = "none"
       /\ Waits(Destroyed(c)) => conn[c] \in Open /\ connector.channel # "removed"
       /\ AtMostOne(todo, Destroyed(c))
       /\ Before(todo, Shutdown(c), Destroyed(c))
       /\ Waits(Shutdown(c)) => connection = c \/ Waits(Destroyed(c))
       /\ loop.user = Up(c) => connector.state = "kConnected"
       /\ loop.user = Down(c) => conn[c] = "kDisconnected" /\ connector.channel # "removed"
  /\ connector.at \in {"restart", "new"} => connector.state = "kConnected" /\ connection = 0

\* What stop() and the destructor leave.
StopInv ==
  /\ call \in {"shutdown", "stop", "cancel", "queueCancel"} => ~connect
  /\ \A t \in connector.timers : Waits(Cancel(t)) => ~connect
  /\ stopped # "no" => ~connect
  /\ stopped = "yes" => /\ connector.at \notin {"restart", "new"}
                        /\ connector.connect => connector.state = "kConnected"
  /\ connector.destroyed =>
       /\ call = "none" /\ connector.at = "none" /\ connector.timers = {} /\ ~Waits(AStart)
       /\ connector.channel = "none" /\ connection = 0

Good == connector.fault = "none" /\ LoopInv /\ AttemptInv /\ ChannelInv /\ ConnInv /\ StopInv

KType == [connect : BOOLEAN, state : {"kDisconnected", "kConnecting", "kConnected"},
          channel : {"none", "registered", "removed"},
          retryDelayMs : kInitRetryDelayMs..kMaxRetryDelayMs,
          timerId : TimerIds \cup {0}, timers : SUBSET TimerIds,
          at : {"none", "restart", "start", "connect", "retry", "new"}, read : TimerIds \cup {0},
          gaveUp : BOOLEAN, destroyed : BOOLEAN, busy : BOOLEAN,
          fault : {"none", "state", "channel", "connection", "freed"}]
UserType == {None} \cup [op : {"up", "down"}, c : Conns]
LoopType == [phase : {"poll", "dispatch", "run"}, due : SUBSET Events, batch : Seq(Functor),
             user : UserType]
ConnType == [Conns -> {"none", "kConnected", "kDisconnecting", "kDisconnected"}]
CallType == {"none", "start", "queue", "shutdown", "stop", "cancel", "queueCancel"}

Types ==
  /\ connector \in KType
  /\ retry \in BOOLEAN /\ connect \in BOOLEAN /\ connection \in Conns \cup {0}
  /\ conn \in ConnType /\ loop \in LoopType /\ pending \in Seq(Functor)
  /\ call \in CallType /\ connects \in 0..ConnectMax /\ stopped \in {"no", "late", "yes"}
  /\ IsFiniteSet(connector.timers) /\ IsFiniteSet({t \in TimerIds : Timer(t) \in loop.due})

Inv == Types /\ (~connector.busy => Good)
-----------------------------------------------------------------------------
(* The functors to run, as a step leaves them. *)

\* A functor is queued behind the others.
Pushes(f) ==
  /\ \A g : Has(todo', g) <=> Has(todo, g) \/ g = f
  /\ \A g : AtMostOne(todo, g) /\ (f # g \/ ~Has(todo, g)) => AtMostOne(todo', g)
  /\ \A g, h : g # h /\ Before(todo, g, h) /\ (f # g \/ ~Has(todo, h)) => Before(todo', g, h)

\* The first functor is run.
Pops(f) ==
  /\ Has(todo, f)
  /\ \A g : Has(todo', g) => Has(todo, g)
  /\ \A g : g # f /\ Has(todo, g) => Has(todo', g)
  /\ \A g : AtMostOne(todo, g) => AtMostOne(todo', g)
  /\ AtMostOne(todo, f) => ~Has(todo', f)
  /\ \A g, h : Before(todo, g, h) => Before(todo', g, h)
  /\ \A g : g # f /\ Before(todo, g, f) => ~Has(todo, g)

\* What appending an element changes.
LEMMA AppendHas ==
  ASSUME NEW S, NEW s \in Seq(S), NEW f \in S
  PROVE  /\ \A g : Has(Append(s, f), g) <=> Has(s, g) \/ g = f
         /\ \A g : AtMostOne(s, g) /\ (f # g \/ ~Has(s, g)) => AtMostOne(Append(s, f), g)
         /\ \A g, h : g # h /\ Before(s, g, h) /\ (f # g \/ ~Has(s, h)) => Before(Append(s, f), g, h)
<1> DEFINE t == Append(s, f)
           n == Len(s)
<1>1. t \in Seq(S) /\ Len(t) = n + 1 /\ n \in Nat /\ t[n + 1] = f /\ \A i \in 1..n : t[i] = s[i]
  OBVIOUS
<1> HIDE DEF t, n
<1>2. /\ \A i \in 1..Len(t) : i \in 1..n \/ i = n + 1
      /\ \A i \in 1..n : i \in 1..Len(t) /\ i < n + 1
      /\ n + 1 \in 1..Len(t)
  BY <1>1
<1>3. ASSUME NEW g PROVE Has(t, g) <=> Has(s, g) \/ g = f
  BY <1>1, <1>2 DEF Has, n
<1>4. ASSUME NEW g, AtMostOne(s, g), f # g \/ ~Has(s, g) PROVE AtMostOne(t, g)
  BY <1>1, <1>2, <1>4, Zenon DEF AtMostOne, Has, n
<1>5. ASSUME NEW g, NEW h, g # h, Before(s, g, h), f # g \/ ~Has(s, h) PROVE Before(t, g, h)
  BY <1>1, <1>2, <1>5 DEF Before, Has, n
<1> QED
  BY <1>3, <1>4, <1>5 DEF t

\* What taking the first element changes.
LEMMA TailHas ==
  ASSUME NEW S, NEW s \in Seq(S), s # <<>>
  PROVE  /\ Has(s, Head(s))
         /\ \A g : Has(Tail(s), g) => Has(s, g)
         /\ \A g : g # Head(s) /\ Has(s, g) => Has(Tail(s), g)
         /\ \A g : AtMostOne(s, g) => AtMostOne(Tail(s), g)
         /\ AtMostOne(s, Head(s)) => ~Has(Tail(s), Head(s))
         /\ \A g, h : Before(s, g, h) => Before(Tail(s), g, h)
         /\ \A g : g # Head(s) /\ Before(s, g, Head(s)) => ~Has(s, g)
<1> DEFINE t == Tail(s)
           n == Len(s)
<1>1. t \in Seq(S) /\ Len(t) = n - 1 /\ n \in Nat \ {0} /\ Head(s) = s[1]
  OBVIOUS
<1>2. \A i \in 1..Len(t) : t[i] = s[i + 1]
  OBVIOUS
<1> HIDE DEF t
<1>3. /\ \A i \in 1..Len(t) : i + 1 \in 1..n /\ i + 1 # 1
      /\ \A i \in 1..n : i = 1 \/ (i - 1 \in 1..Len(t) /\ t[i - 1] = s[i])
      /\ 1 \in 1..n /\ \A i \in 1..n : ~(i < 1)
  BY <1>1, <1>2
<1>4. Has(s, Head(s))
  BY <1>1, <1>3 DEF Has
<1>5. ASSUME NEW g, Has(t, g) PROVE Has(s, g)
  BY <1>2, <1>3, <1>5 DEF Has
<1>6. ASSUME NEW g, g # Head(s), Has(s, g) PROVE Has(t, g)
  BY <1>1, <1>3, <1>6 DEF Has
<1>7. ASSUME NEW g, AtMostOne(s, g) PROVE AtMostOne(t, g)
  BY <1>1, <1>2, <1>3, <1>7 DEF AtMostOne
<1>8. ASSUME AtMostOne(s, Head(s)) PROVE ~Has(t, Head(s))
  BY <1>1, <1>2, <1>3, <1>8 DEF AtMostOne, Has
<1>9. ASSUME NEW g, NEW h, Before(s, g, h) PROVE Before(t, g, h)
  BY <1>1, <1>2, <1>3, <1>9 DEF Before
<1>10. ASSUME NEW g, g # Head(s), Before(s, g, Head(s)) PROVE ~Has(s, g)
  BY <1>1, <1>3, <1>10 DEF Before, Has
<1> QED
  BY <1>4, <1>5, <1>6, <1>7, <1>8, <1>9, <1>10 DEF t

\* The first element of two sequences is that of the first one.
LEMMA HeadOfConcat ==
  ASSUME NEW S, NEW b \in Seq(S), NEW p \in Seq(S), b # <<>>
  PROVE  /\ b \o p \in Seq(S) /\ b \o p # <<>>
         /\ Head(b \o p) = Head(b) /\ Tail(b) \o p = Tail(b \o p)
<1> DEFINE q == Tail(b)
           r == b \o p
<1>1. q \in Seq(S) /\ r \in Seq(S) /\ Len(b) \in Nat \ {0} /\ Len(p) \in Nat
  OBVIOUS
<1>2. /\ Len(q) = Len(b) - 1 /\ Len(r) = Len(b) + Len(p) /\ Head(b) = b[1]
      /\ \A i \in 1..Len(q) : q[i] = b[i + 1]
      /\ \A i \in 1..(Len(b) + Len(p)) : r[i] = IF i <= Len(b) THEN b[i] ELSE p[i - Len(b)]
  BY Joined
<1>3. q \o p \in Seq(S) /\ Len(q \o p) = Len(q) + Len(p)
      /\ \A i \in 1..(Len(q) + Len(p)) : (q \o p)[i] = IF i <= Len(q) THEN q[i] ELSE p[i - Len(q)]
  BY <1>1, Joined
<1> HIDE DEF q, r
<1>4. Len(r) # 0 /\ 1 \in 1..(Len(b) + Len(p)) /\ 1 <= Len(b)
  BY <1>1, <1>2
<1>5. r # <<>>
  BY <1>4
<1>6. Head(r) = b[1]
  <2>1. Head(r) = r[1]
    BY <1>1, <1>5
  <2> QED
    BY <1>2, <1>4, <2>1
<1>7. /\ Tail(r) \in Seq(S) /\ Len(Tail(r)) = Len(r) - 1
      /\ \A i \in 1..Len(Tail(r)) : Tail(r)[i] = r[i + 1]
  BY <1>1, <1>5, AllButFirst, Zenon
<1>8. Len(q \o p) = Len(Tail(r))
  BY <1>1, <1>2, <1>3, <1>7
<1>9. ASSUME NEW i \in 1..Len(q \o p) PROVE (q \o p)[i] = Tail(r)[i]
  <2>1. Tail(r)[i] = r[i + 1] /\ i + 1 \in 1..(Len(b) + Len(p)) /\ Len(b) = Len(q) + 1
    BY <1>1, <1>2, <1>3, <1>7, <1>8
  <2>2. i \in 1..(Len(q) + Len(p)) /\ Len(q) \in Nat
    BY <1>1, <1>2, <1>3
  <2>3. CASE i <= Len(q)
    <3>1. i \in 1..Len(q) /\ i + 1 <= Len(b)
      BY <2>1, <2>2, <2>3
    <3> QED
      BY <1>2, <1>3, <2>1, <2>2, <2>3, <3>1
  <2>4. CASE ~(i <= Len(q))
    <3>1. ~(i + 1 <= Len(b)) /\ (i + 1) - Len(b) = i - Len(q)
      BY <1>1, <2>1, <2>2, <2>4
    <3> QED
      BY <1>2, <1>3, <2>1, <2>2, <2>4, <3>1
  <2> QED
    BY <2>3, <2>4, Zenon
<1>10. q \o p = Tail(r)
  BY <1>3, <1>7, <1>8, <1>9, SameElements, Zenon
<1> QED
  BY <1>1, <1>2, <1>5, <1>6, <1>10 DEF q, r

\* A step that queues a functor.
LEMMA TodoPush ==
  ASSUME loop.batch \in Seq(Functor), pending \in Seq(Functor), NEW f \in Functor,
         loop'.batch = loop.batch, pending' = Append(pending, f)
  PROVE  Pushes(f)
<1>1. \A b, p \in Seq(Functor) : b \o p \in Seq(Functor) /\ b \o Append(p, f) = Append(b \o p, f)
  <2>1. ASSUME NEW b \in Seq(Functor), NEW p \in Seq(Functor)
        PROVE  b \o p \in Seq(Functor) /\ b \o Append(p, f) = Append(b \o p, f)
    <3>1. b \o p \in Seq(Functor)
      BY Joined
    <3>2. Append(p, f) = p \o <<f>> /\ <<f>> \in Seq(Functor) /\ Append(b \o p, f) = (b \o p) \o <<f>>
      BY <3>1, Appended, Zenon
    <3> QED
      BY <3>1, <3>2, JoinedInTurn
  <2> QED
    BY <2>1, Zenon
<1>2. todo \in Seq(Functor) /\ todo' = Append(todo, f)
  BY <1>1, Zenon DEF todo
<1> QED
  BY <1>2, AppendHas DEF Pushes

\* A step that runs a functor of the batch.
LEMMA TodoPop ==
  ASSUME loop.batch \in Seq(Functor), pending \in Seq(Functor), loop.batch # <<>>,
         loop'.batch = Tail(loop.batch), pending' = pending
  PROVE  Pops(Head(loop.batch))
<1>1. \A b, p \in Seq(Functor) : b # <<>> =>
        b \o p \in Seq(Functor) /\ b \o p # <<>> /\ Head(b \o p) = Head(b) /\ Tail(b) \o p = Tail(b \o p)
  BY HeadOfConcat
<1>2. /\ todo \in Seq(Functor) /\ todo # <<>>
      /\ Head(todo) = Head(loop.batch) /\ todo' = Tail(todo)
  BY <1>1, Zenon DEF todo
<1> QED
  BY <1>2, TailHas, Zenon DEF Pops

\* A step that swaps the vector for the batch, or queues and runs nothing.
LEMMA TodoSame ==
  ASSUME loop.batch \in Seq(Functor), pending \in Seq(Functor),
         \/ loop'.batch = loop.batch /\ pending' = pending
         \/ loop.batch = <<>> /\ loop'.batch = pending /\ pending' = <<>>
  PROVE  todo' = todo
<1>1. \A p \in Seq(Functor) : <<>> \o p = p /\ p \o <<>> = p
  BY JoinedEmpty
<1> QED
  BY <1>1, Zenon DEF todo
-----------------------------------------------------------------------------
(* The Connector. *)

\* Sequence numbers of timers do not run out.
Endless == ~IsFiniteSet(TimerIds)

\* A part of a finite set is finite.
LEMMA FinitePart ==
  ASSUME NEW S, IsFiniteSet(S), NEW T \in SUBSET S
  PROVE  IsFiniteSet(T)
<1>1. CASE T = {}
  <2>1. <<>> \in Seq(T) /\ \A e \in T : FALSE
    BY <1>1
  <2> QED
    BY <2>1, Zenon DEF IsFiniteSet
<1>2. ASSUME NEW x \in T PROVE IsFiniteSet(T)
  <2>1. PICK q \in Seq(S) : \A e \in S : \E n \in 1..Len(q) : q[n] = e
    BY DEF IsFiniteSet
  <2> DEFINE r == [i \in 1..Len(q) |-> IF q[i] \in T THEN q[i] ELSE x]
  <2>2. r \in Seq(T) /\ Len(r) = Len(q)
    OBVIOUS
  <2>3. ASSUME NEW e \in T PROVE \E n \in 1..Len(r) : r[n] = e
    BY <2>1, <2>2, Zenon
  <2> HIDE DEF r
  <2> QED
    BY <2>2, <2>3 DEF IsFiniteSet
<1> QED
  BY <1>1, <1>2

\* Two finite sets together are finite.
LEMMA FiniteBoth ==
  ASSUME NEW S, NEW T, IsFiniteSet(S), IsFiniteSet(T)
  PROVE  IsFiniteSet(S \cup T)
<1>1. PICK q \in Seq(S) : \A e \in S : \E n \in 1..Len(q) : q[n] = e
  BY DEF IsFiniteSet
<1>2. PICK r \in Seq(T) : \A e \in T : \E n \in 1..Len(r) : r[n] = e
  BY DEF IsFiniteSet
<1>3. q \in Seq(S \cup T) /\ r \in Seq(S \cup T) /\ Len(q) \in Nat /\ Len(r) \in Nat
  OBVIOUS
<1> DEFINE p == q \o r
<1>4. /\ p \in Seq(S \cup T) /\ Len(p) = Len(q) + Len(r)
      /\ \A i \in 1..(Len(q) + Len(r)) : p[i] = IF i <= Len(q) THEN q[i] ELSE r[i - Len(q)]
  BY <1>3, Joined
<1> HIDE DEF p
<1>5. ASSUME NEW e \in S PROVE \E n \in 1..Len(p) : p[n] = e
  <2>1. PICK n \in 1..Len(q) : q[n] = e
    BY <1>1, Zenon
  <2> QED
    BY <1>3, <1>4, <2>1
<1>6. ASSUME NEW e \in T PROVE \E n \in 1..Len(p) : p[n] = e
  <2>1. PICK n \in 1..Len(r) : r[n] = e
    BY <1>2
  <2>2. n + Len(q) \in 1..Len(p) /\ ~(n + Len(q) <= Len(q)) /\ (n + Len(q)) - Len(q) = n
    BY <1>3, <1>4, <2>1
  <2>3. p[n + Len(q)] = e
    BY <1>4, <2>1, <2>2
  <2> QED
    BY <2>2, <2>3
<1> QED
  BY <1>4, <1>5, <1>6, Zenon DEF IsFiniteSet

\* The empty set and a set of one are finite.
LEMMA FiniteFew ==
  ASSUME NEW x
  PROVE  IsFiniteSet({}) /\ IsFiniteSet({x})
<1>1. <<>> \in Seq({})
  OBVIOUS
<1> DEFINE q == <<x>>
<1>2. q \in Seq({x}) /\ 1 \in 1..Len(q) /\ q[1] = x
  OBVIOUS
<1> HIDE DEF q
<1>3. IsFiniteSet({})
  BY <1>1, Zenon DEF IsFiniteSet
<1>4. IsFiniteSet({x})
  BY <1>2 DEF IsFiniteSet
<1> QED
  BY <1>3, <1>4

\* The ids that the functors of a sequence cancel are finitely many.
LEMMA CancelsFinite ==
  ASSUME NEW s \in Seq(Functor)
  PROVE  \E T : IsFiniteSet(T) /\ \A f \in Range(s) : f.t \in T
<1> DEFINE D == 1..Len(s)
           T == {s[i].t : i \in D}
           m == [i \in D |-> s[i].t]
<1>1. m \in Seq(T) /\ Len(m) = Len(s)
  OBVIOUS
<1>2. \A e \in T : \E i \in 1..Len(m) : m[i] = e
  BY <1>1
<1>3. IsFiniteSet(T)
  <2> HIDE DEF m, T
  <2> QED
    BY <1>1, <1>2 DEF IsFiniteSet
<1>4. \A f \in Range(s) : f.t \in T
  BY DEF Range
<1> QED
  BY <1>3, <1>4

\* There is always a TimerId that nothing refers to.
LEMMA FreshTimer ==
  ASSUME Types, Endless, NEW k \in KType, IsFiniteSet(k.timers)
  PROVE  /\ NewTimer(k) \in TimerIds /\ NewTimer(k) \notin k.timers
         /\ \A f \in Range(pending) \cup Range(loop.batch) : f.op = "cancel" => f.t # NewTimer(k)
         /\ Timer(NewTimer(k)) \notin loop.due
<1>1. PICK P : IsFiniteSet(P) /\ \A f \in Range(pending) : f.t \in P
  BY CancelsFinite DEF Types
<1>2. PICK B : IsFiniteSet(B) /\ \A f \in Range(loop.batch) : f.t \in B
  BY CancelsFinite DEF Types, LoopType
<1> DEFINE D == {t \in TimerIds : Timer(t) \in loop.due}
           Q == ((P \cup B) \cup D) \cup (k.timers \cup {k.timerId, k.read})
<1>3. IsFiniteSet(Q)
  <2>1. IsFiniteSet(P \cup B)
    BY <1>1, <1>2, FiniteBoth
  <2>2. IsFiniteSet((P \cup B) \cup D)
    BY <2>1, FiniteBoth DEF Types
  <2>3. IsFiniteSet(k.timers \cup {k.timerId, k.read})
    <3>1. IsFiniteSet({k.timerId} \cup {k.read}) /\ {k.timerId} \cup {k.read} = {k.timerId, k.read}
      BY FiniteFew, FiniteBoth, Zenon
    <3> QED
      BY <3>1, FiniteBoth, Zenon
  <2> QED
    BY <2>2, <2>3, FiniteBoth
<1>4. \E t \in TimerIds : t \notin Q
  <2>1. SUFFICES ASSUME TimerIds \subseteq Q PROVE FALSE
    OBVIOUS
  <2> QED
    BY <1>3, <2>1, FinitePart DEF Endless
<1>5. \E t \in TimerIds :
        /\ t \notin k.timers \cup {k.timerId, k.read}
        /\ \A f \in Range(pending) \cup Range(loop.batch) : f.op = "cancel" => f.t # t
        /\ [op |-> "timer", t |-> t] \notin loop.due
  BY <1>1, <1>2, <1>4 DEF Timer
<1> QED
  BY <1>5 DEF NewTimer, Timer

\* The bounds of the delay.
LEMMA DelayBounds ==
  /\ kInitRetryDelayMs \in Nat /\ kMaxRetryDelayMs \in Nat
  /\ kInitRetryDelayMs <= kMaxRetryDelayMs
<1>1. kInitRetryDelayMs \in Nat
  BY DEF kInitRetryDelayMs
<1>2. kMaxRetryDelayMs \in Nat
  BY DEF kMaxRetryDelayMs
<1>3. kInitRetryDelayMs <= kMaxRetryDelayMs
  BY DEF kInitRetryDelayMs, kMaxRetryDelayMs
<1> QED
  BY <1>1, <1>2, <1>3

\* The delay stays between its bounds (retry).
LEMMA LongerType ==
  ASSUME NEW ms \in kInitRetryDelayMs..kMaxRetryDelayMs
  PROVE  Longer(ms) \in kInitRetryDelayMs..kMaxRetryDelayMs
<1>1. kInitRetryDelayMs \in Nat /\ kMaxRetryDelayMs \in Nat /\ kInitRetryDelayMs <= kMaxRetryDelayMs
  BY DelayBounds
<1>2. ms * 2 \in Nat /\ ms * 2 >= kInitRetryDelayMs
  BY <1>1
<1>3. \E x \in {ms * 2, kMaxRetryDelayMs} : \A y \in {ms * 2, kMaxRetryDelayMs} : x =< y
  BY <1>1, <1>2
<1>4. Longer(ms) \in {ms * 2, kMaxRetryDelayMs} /\ Longer(ms) =< kMaxRetryDelayMs
  BY <1>3, Zenon DEF Longer, Min
<1> QED
  BY <1>1, <1>2, <1>4

\* What retry() makes of the Connector, up to its test of connect_.
LEMMA RetryEffect ==
  ASSUME NEW k \in KType
  PROVE  /\ Retry(k) \in KType /\ Retry(k).timers = k.timers /\ Retry(k).timerId = k.timerId
         /\ Retry(k).connect = k.connect /\ Retry(k).state = "kDisconnected"
         /\ Retry(k).channel = k.channel /\ Retry(k).gaveUp = k.gaveUp
         /\ Retry(k).destroyed = k.destroyed /\ Retry(k).busy = k.busy /\ Retry(k).fault = k.fault
         /\ Retry(k).at = IF k.connect THEN "retry" ELSE "none"
<1>1. PICK a \in {"none", "retry"} : a = IF k.connect THEN "retry" ELSE "none"
  BY Zenon
<1>2. Retry(k) = [k EXCEPT !.state = "kDisconnected", !.at = a]
  BY <1>1, Zenon DEF Retry
<1>3. a \in {"none", "restart", "start", "connect", "retry", "new"}
  BY Zenon
<1> QED
  BY <1>1, <1>2, <1>3, Zenon DEF KType

\* What the rest of retry() makes of the Connector.
LEMMA RunAfterEffect ==
  ASSUME Types, Endless, NEW k \in KType, IsFiniteSet(k.timers)
  PROVE  /\ RunAfter(k) \in KType /\ IsFiniteSet(RunAfter(k).timers)
         /\ RunAfter(k).connect = k.connect /\ RunAfter(k).state = k.state
         /\ RunAfter(k).channel = k.channel /\ RunAfter(k).gaveUp = k.gaveUp
         /\ RunAfter(k).destroyed = k.destroyed /\ RunAfter(k).busy = k.busy
         /\ RunAfter(k).fault = k.fault /\ RunAfter(k).at = "none"
         /\ RunAfter(k).timers = k.timers \cup {NewTimer(k)} /\ RunAfter(k).timerId = NewTimer(k)
<1>1. NewTimer(k) \in TimerIds
  BY FreshTimer
<1>2. PICK t \in TimerIds : t = NewTimer(k)
  BY <1>1
<1>3. PICK d \in kInitRetryDelayMs..kMaxRetryDelayMs : d = Longer(k.retryDelayMs)
  BY LongerType DEF KType
<1>4. IsFiniteSet(k.timers \cup {t})
  BY FiniteFew, FiniteBoth, Zenon
<1>5. k.timers \cup {t} \in SUBSET TimerIds /\ t \in TimerIds \cup {0}
  BY DEF KType
<1>6. PICK T \in SUBSET TimerIds : T = k.timers \cup {t}
  BY <1>5, Zenon
<1>7. RunAfter(k) = [k EXCEPT !.at = "none", !.retryDelayMs = d, !.timers = T, !.timerId = t]
  BY <1>2, <1>3, <1>6 DEF RunAfter
<1>8. /\ RunAfter(k) \in KType /\ RunAfter(k).timers = T /\ RunAfter(k).timerId = t
      /\ RunAfter(k).connect = k.connect /\ RunAfter(k).state = k.state
      /\ RunAfter(k).channel = k.channel /\ RunAfter(k).gaveUp = k.gaveUp
      /\ RunAfter(k).destroyed = k.destroyed /\ RunAfter(k).busy = k.busy
      /\ RunAfter(k).fault = k.fault /\ RunAfter(k).at = "none"
  BY <1>5, <1>7, Zenon DEF KType
<1> QED
  BY <1>2, <1>4, <1>6, <1>8, Zenon

\* The fields of the Connector that an attempt leaves alone.
SameUse(k, j) == j.connect = k.connect /\ j.destroyed = k.destroyed /\ j.busy = k.busy

(***************************************************************************)
(* What becomes of an attempt: the channel is registered; it, or a retry,  *)
(* is about to be made; none is made after a stop() or connect() gave up.  *)
(***************************************************************************)
Attempted(k, j) ==
  /\ SameUse(k, j) /\ j.fault = "none" /\ j.timers = {}
  /\ \/ j.state = "kConnecting" /\ j.channel = "registered" /\ j.at = "none"
     \/ j.state = "kDisconnected" /\ j.channel = "none" /\ j.at \in {"connect", "retry"}
     \/ /\ j.state = "kDisconnected" /\ j.channel = "none" /\ j.at = "none"
        /\ ~k.connect \/ j.gaveUp

\* A fresh id is cancelled by no functor that waits.
LEMMA FreshNotCancelled ==
  ASSUME Types, Endless, NEW k \in KType, IsFiniteSet(k.timers)
  PROVE  ~Waits(Cancel(NewTimer(k)))
<1> DEFINE t == NewTimer(k)
<1>1. \A f \in Range(pending) \cup Range(loop.batch) : f.op = "cancel" => f.t # t
  BY FreshTimer
<1> HIDE DEF t
<1>2. ASSUME Waits(Cancel(t)) PROVE Cancel(t) \in Range(pending) \cup Range(loop.batch)
  <2>1. loop.batch \in Seq(Functor) /\ pending \in Seq(Functor)
    BY DEF Types, LoopType
  <2>2. \A b, p \in Seq(Functor) : Has(b \o p, Cancel(t)) => Cancel(t) \in Range(p) \cup Range(b)
    <3>1. SUFFICES ASSUME NEW b \in Seq(Functor), NEW p \in Seq(Functor),
                          NEW i \in 1..Len(b \o p), (b \o p)[i] = Cancel(t)
                   PROVE  Cancel(t) \in Range(p) \cup Range(b)
      BY DEF Has
    <3>2. /\ i \in 1..(Len(b) + Len(p)) /\ Len(b) \in Nat /\ Len(p) \in Nat
          /\ (b \o p)[i] = IF i <= Len(b) THEN b[i] ELSE p[i - Len(b)]
      BY <3>1, Joined
    <3>3. CASE i <= Len(b)
      <4>1. i \in DOMAIN b /\ b[i] = Cancel(t)
        BY <3>1, <3>2, <3>3
      <4> QED
        BY <4>1 DEF Range
    <3>4. CASE ~(i <= Len(b))
      <4>1. i - Len(b) \in DOMAIN p /\ p[i - Len(b)] = Cancel(t)
        BY <3>1, <3>2, <3>4
      <4> QED
        BY <4>1 DEF Range
    <3> QED
      BY <3>3, <3>4
  <2> QED
    BY <1>2, <2>1, <2>2, Zenon DEF Waits, todo
<1>3. Cancel(t).op = "cancel" /\ Cancel(t).t = t
  BY DEF Cancel
<1>4. ~Waits(Cancel(t))
  BY <1>1, <1>2, <1>3
<1> QED
  BY <1>4 DEF t

\* A failed assert changes nothing but the fault.
LEMMA FailType ==
  ASSUME NEW k \in KType, NEW f \in {"none", "state", "channel", "connection", "freed"}
  PROVE  Fail(k, f) \in KType /\ Fail(k, f).timers = k.timers /\ Fail(k, f).busy = k.busy
BY DEF Fail, KType

\* What startInLoop makes of a Connector, and of one that is ready for an attempt.
LEMMA StartEffect ==
  ASSUME NEW k \in KType
  PROVE  /\ StartInLoop(k) \in KType /\ StartInLoop(k).timers = k.timers
         /\ StartInLoop(k).busy = k.busy
         /\ ~k.destroyed /\ k.state = "kDisconnected" /\ k.channel = "none" /\ k.fault = "none"
              /\ k.timers = {} => Attempted(k, StartInLoop(k))
<1> DEFINE j == StartInLoop(k)
<1>1. CASE k.destroyed
  <2>1. j = Fail(k, "freed")
    BY <1>1, Zenon DEF StartInLoop
  <2> QED
    BY <1>1, <2>1, FailType, Zenon
<1>2. CASE ~k.destroyed /\ k.state # "kDisconnected"
  <2>1. j = Fail(k, "state")
    BY <1>2, Zenon DEF StartInLoop
  <2> QED
    BY <1>2, <2>1, FailType, Zenon
<1>3. CASE ~k.destroyed /\ k.state = "kDisconnected"
  <2>1. PICK a \in {"none", "connect"} : a = IF k.connect THEN "connect" ELSE "none"
    BY Zenon
  <2>2. j = [k EXCEPT !.at = a]
    BY <1>3, <2>1, Zenon DEF StartInLoop
  <2>3. a \in {"none", "restart", "start", "connect", "retry", "new"}
    BY Zenon
  <2>4. /\ j \in KType /\ j.timers = k.timers /\ j.busy = k.busy /\ j.at = a /\ SameUse(k, j)
        /\ j.fault = k.fault /\ j.state = k.state /\ j.channel = k.channel
    BY <2>2, <2>3, Zenon DEF KType, SameUse
  <2> HIDE DEF j
  <2>5. ~k.destroyed /\ k.state = "kDisconnected" /\ k.channel = "none" /\ k.fault = "none"
          /\ k.timers = {} => Attempted(k, j)
    BY <2>1, <2>4, Zenon DEF Attempted
  <2> QED
    BY <2>4, <2>5, Zenon DEF j
<1> QED
  BY <1>1, <1>2, <1>3, Zenon

\* What connect() makes of a Connector, and of one that is ready for it.
LEMMA ConnectEffect ==
  ASSUME NEW k \in KType, NEW j \in Connect(k)
  PROVE  /\ j \in KType /\ j.timers = k.timers /\ j.busy = k.busy
         /\ k.state = "kDisconnected" /\ k.channel = "none" /\ k.fault = "none"
              /\ k.timers = {} => Attempted(k, j)
<1> DEFINE m == [k EXCEPT !.gaveUp = FALSE]
<1>1. /\ m \in KType /\ m.timers = k.timers /\ m.busy = k.busy /\ SameUse(k, m)
      /\ m.state = k.state /\ m.channel = k.channel /\ m.fault = k.fault
  BY Zenon DEF KType, SameUse
<1>2. j = Connecting(m) \/ j = Retry(m) \/ j = [k EXCEPT !.gaveUp = TRUE, !.at = "none"]
  BY Zenon DEF Connect
<1> HIDE DEF m
<1>3. CASE j = Connecting(m) /\ m.channel # "none"
  <2>1. j = Fail(m, "channel")
    BY <1>3, Zenon DEF Connecting
  <2>2. j \in KType /\ j.timers = m.timers /\ j.busy = m.busy
    BY <1>1, <2>1, FailType
  <2>3. k.channel # "none"
    BY <1>1, <1>3, Zenon
  <2> QED
    BY <1>1, <2>2, <2>3, Zenon
<1>4. CASE j = Connecting(m) /\ m.channel = "none"
  <2>1. j = [m EXCEPT !.state = "kConnecting", !.channel = "registered", !.at = "none"]
    BY <1>4, Zenon DEF Connecting
  <2>2. /\ j \in KType /\ j.timers = m.timers /\ j.busy = m.busy /\ SameUse(m, j)
        /\ j.state = "kConnecting" /\ j.channel = "registered" /\ j.at = "none" /\ j.fault = m.fault
    BY <1>1, <2>1, Zenon DEF KType, SameUse
  <2> QED
    BY <1>1, <2>2, Zenon DEF Attempted, SameUse
<1>5. CASE j = Retry(m)
  <2>1. /\ j \in KType /\ j.timers = m.timers /\ j.busy = m.busy /\ SameUse(m, j)
        /\ j.state = "kDisconnected" /\ j.channel = m.channel /\ j.fault = m.fault
        /\ j.at = IF m.connect THEN "retry" ELSE "none"
    BY <1>1, <1>5, RetryEffect, Zenon DEF SameUse
  <2> QED
    BY <1>1, <2>1, Zenon DEF Attempted, SameUse
<1>6. CASE j = [k EXCEPT !.gaveUp = TRUE, !.at = "none"]
  <2>1. /\ j \in KType /\ j.timers = k.timers /\ j.busy = k.busy /\ SameUse(k, j)
        /\ j.state = k.state /\ j.channel = k.channel /\ j.fault = k.fault
        /\ j.gaveUp /\ j.at = "none"
    BY <1>6, Zenon DEF KType, SameUse
  <2> QED
    BY <2>1, Zenon DEF Attempted
<1> QED
  BY <1>2, <1>3, <1>4, <1>5, <1>6, Zenon
-----------------------------------------------------------------------------
(* The types. *)

\* What a callback or a functor leaves of the loop.
LEMMA LoopEffects ==
  ASSUME loop \in LoopType, NEW u \in UserType
  PROVE  /\ \A e : AfterEvent(e) =>
              /\ loop' \in LoopType /\ loop'.due = loop.due \ {e} /\ loop'.user = loop.user
              /\ loop'.phase = loop.phase /\ loop'.batch = loop.batch
         /\ loop.batch # <<>> /\ AfterFunctor(u) =>
              /\ loop' \in LoopType /\ loop'.due = loop.due /\ loop'.user = u
              /\ loop'.phase = loop.phase /\ loop'.batch = Tail(loop.batch)
         /\ loop' = [loop EXCEPT !.user = u] =>
              /\ loop' \in LoopType /\ loop'.due = loop.due /\ loop'.user = u
              /\ loop'.phase = loop.phase /\ loop'.batch = loop.batch
<1>1. ASSUME NEW e, AfterEvent(e)
      PROVE  /\ loop' \in LoopType /\ loop'.due = loop.due \ {e} /\ loop'.user = loop.user
             /\ loop'.phase = loop.phase /\ loop'.batch = loop.batch
  <2>1. PICK d \in SUBSET Events : d = loop.due \ {e}
    BY Zenon DEF LoopType
  <2>2. loop' = [loop EXCEPT !.due = d]
    BY <1>1, <2>1 DEF AfterEvent
  <2>3. /\ loop'.due = d /\ loop'.user = loop.user /\ loop' \in LoopType
        /\ loop'.phase = loop.phase /\ loop'.batch = loop.batch
    BY <2>2, Zenon DEF LoopType
  <2> QED
    BY <2>1, <2>3
<1>2. ASSUME loop.batch # <<>>, AfterFunctor(u)
      PROVE  /\ loop' \in LoopType /\ loop'.due = loop.due /\ loop'.user = u
             /\ loop'.phase = loop.phase /\ loop'.batch = Tail(loop.batch)
  <2>1. loop.batch \in Seq(Functor)
    BY DEF LoopType
  <2>2. PICK b \in Seq(Functor) : b = Tail(loop.batch)
    <3>1. \A s \in Seq(Functor) : s # <<>> => Tail(s) \in Seq(Functor)
      BY AllButFirst
    <3> QED
      BY <1>2, <2>1, <3>1, Zenon
  <2>3. loop' = [loop EXCEPT !.batch = b, !.user = u]
    BY <1>2, <2>2 DEF AfterFunctor
  <2> QED
    BY <2>2, <2>3, Zenon DEF LoopType
<1>3. ASSUME loop' = [loop EXCEPT !.user = u]
      PROVE  /\ loop' \in LoopType /\ loop'.due = loop.due /\ loop'.user = u
             /\ loop'.phase = loop.phase /\ loop'.batch = loop.batch
  BY <1>3 DEF LoopType
<1> QED
  BY <1>1, <1>2, <1>3, Zenon

\* Where poll(), the swap and the end of the batch leave the loop.
LEMMA LoopPhases ==
  ASSUME loop \in LoopType, pending \in Seq(Functor)
  PROVE  /\ \A due \in SUBSET Events : loop' = [loop EXCEPT !.phase = "dispatch", !.due = due] =>
              /\ loop' \in LoopType /\ loop'.due = due /\ loop'.user = loop.user
              /\ loop'.phase = "dispatch" /\ loop'.batch = loop.batch
         /\ loop' = [loop EXCEPT !.phase = "run", !.batch = pending] =>
              /\ loop' \in LoopType /\ loop'.due = loop.due /\ loop'.user = loop.user
              /\ loop'.phase = "run" /\ loop'.batch = pending
         /\ loop' = [loop EXCEPT !.phase = "poll"] =>
              /\ loop' \in LoopType /\ loop'.due = loop.due /\ loop'.user = loop.user
              /\ loop'.phase = "poll" /\ loop'.batch = loop.batch
BY Zenon DEF LoopType

\* The events and functors are of their types.
LEMMA Names ==
  /\ AStart \in Functor /\ AReset \in Functor
  /\ \A t \in TimerIds \cup {0} : Cancel(t) \in Functor
  /\ \A c \in Conns : Destroyed(c) \in Functor /\ Shutdown(c) \in Functor
  /\ None \in UserType
  /\ \A c \in Conns : Up(c) \in UserType /\ Down(c) \in UserType
BY DEF AStart, AReset, Cancel, Destroyed, Shutdown, Functor, None, Up, Down, UserType

\* The timers among the events become fewer while events are handled.
LEMMA DueShrinks ==
  ASSUME NEW D, NEW E, D \subseteq E, IsFiniteSet({t \in TimerIds : Timer(t) \in E})
  PROVE  IsFiniteSet({t \in TimerIds : Timer(t) \in D})
<1>1. {t \in TimerIds : Timer(t) \in D} \in SUBSET {t \in TimerIds : Timer(t) \in E}
  OBVIOUS
<1> QED
  BY <1>1, FinitePart

\* What poll() may report are events, and the timers among them are the Connector's.
LEMMA ReadyType ==
  ASSUME Types, NEW due \in SUBSET Ready
  PROVE  /\ due \in SUBSET Events
         /\ IsFiniteSet({t \in TimerIds : Timer(t) \in due})
         /\ \A t \in TimerIds : Timer(t) \in due => t \in connector.timers
         /\ \A c \in Conns : Closed(c) \in due => connection = c
         /\ Writable \in due \/ Failed \in due => connector.channel = "registered"
<1>1. connector.timers \subseteq TimerIds /\ connection \in Conns \cup {0}
  BY DEF Types, KType
<1>2. due \in SUBSET Events
  BY <1>1 DEF Ready, Events
<1>3. ASSUME NEW t \in TimerIds, Timer(t) \in due PROVE t \in connector.timers
  BY <1>3 DEF Ready, Timer
<1>4. ASSUME NEW c \in Conns, Closed(c) \in due PROVE connection = c
  BY <1>4 DEF Ready, Closed
<1>5. ASSUME Writable \in due \/ Failed \in due PROVE connector.channel = "registered"
  BY <1>5 DEF Ready, Writable, Failed
<1>6. {t \in TimerIds : Timer(t) \in due} \in SUBSET connector.timers
  BY <1>3
<1>7. IsFiniteSet({t \in TimerIds : Timer(t) \in due})
  BY <1>6, FinitePart DEF Types
<1> QED
  BY <1>2, <1>3, <1>4, <1>5, <1>7

\* The methods of the Connector that are functions of it.
LEMMA MethodTypes ==
  ASSUME NEW k \in KType, IsFiniteSet(k.timers)
  PROVE  /\ \A f \in {"none", "state", "channel", "connection", "freed"} :
              Fail(k, f) \in KType /\ Fail(k, f).timers = k.timers /\ Fail(k, f).busy = k.busy
         /\ Removed(k) \in KType /\ Removed(k).timers = k.timers /\ Removed(k).busy = k.busy
         /\ ResetChannel(k) \in KType /\ ResetChannel(k).timers = k.timers
         /\ ResetChannel(k).busy = k.busy
         /\ \A t : /\ [k EXCEPT !.timers = @ \ {t}] \in KType
                   /\ IsFiniteSet([k EXCEPT !.timers = @ \ {t}].timers)
                   /\ [k EXCEPT !.timers = @ \ {t}].busy = k.busy
         /\ Stop(k) \in KType /\ IsFiniteSet(Stop(k).timers) /\ Stop(k).busy = k.busy
<1>1. \A f \in {"none", "state", "channel", "connection", "freed"} :
        Fail(k, f) \in KType /\ Fail(k, f).timers = k.timers /\ Fail(k, f).busy = k.busy
  BY FailType, Zenon
<1>2. Removed(k) \in KType /\ Removed(k).timers = k.timers /\ Removed(k).busy = k.busy
  BY DEF Removed, KType
<1>3. /\ [k EXCEPT !.channel = "none"] \in KType
      /\ [k EXCEPT !.channel = "none"].timers = k.timers /\ [k EXCEPT !.channel = "none"].busy = k.busy
  BY DEF KType
<1>4. /\ ResetChannel(k) \in KType /\ ResetChannel(k).timers = k.timers
      /\ ResetChannel(k).busy = k.busy
  BY <1>1, <1>3 DEF ResetChannel
<1>5. ASSUME NEW t
      PROVE  /\ [k EXCEPT !.timers = @ \ {t}] \in KType
             /\ IsFiniteSet([k EXCEPT !.timers = @ \ {t}].timers)
             /\ [k EXCEPT !.timers = @ \ {t}].busy = k.busy
  <2>1. PICK T \in SUBSET TimerIds : T = k.timers \ {t}
    BY Zenon DEF KType
  <2>2. [k EXCEPT !.timers = @ \ {t}] = [k EXCEPT !.timers = T]
    BY <2>1
  <2>3. [k EXCEPT !.timers = T] \in KType /\ [k EXCEPT !.timers = T].timers = T
        /\ [k EXCEPT !.timers = T].busy = k.busy
    BY DEF KType
  <2> QED
    BY <2>1, <2>2, <2>3, FinitePart
<1>6. Stop(k) \in KType /\ IsFiniteSet(Stop(k).timers) /\ Stop(k).busy = k.busy
  <2>1. PICK T \in SUBSET TimerIds : T = k.timers \ {k.timerId}
    BY Zenon DEF KType
  <2>2. Stop(k) = [k EXCEPT !.connect = FALSE, !.timers = T]
    BY <2>1 DEF Stop
  <2>3. Stop(k) \in KType /\ Stop(k).timers = T /\ Stop(k).busy = k.busy
    BY <2>2, Zenon DEF KType
  <2> QED
    BY <2>1, <2>3, FinitePart
<1> QED
  BY <1>1, <1>2, <1>4, <1>5, <1>6, Zenon

\* What restart() stores in a Connector.
LEMMA RestartType ==
  ASSUME NEW k \in KType
  PROVE  /\ Restart(k) \in KType /\ Restart(k).timers = k.timers /\ Restart(k).at = "start"
         /\ Restart(k).state = "kDisconnected" /\ Restart(k).connect /\ Restart(k).channel = k.channel
         /\ Restart(k).destroyed = k.destroyed /\ Restart(k).busy = k.busy /\ Restart(k).fault = k.fault
<1>1. PICK d \in kInitRetryDelayMs..kMaxRetryDelayMs : d = kInitRetryDelayMs
  BY DelayBounds
<1>2. Restart(k) = [k EXCEPT !.state = "kDisconnected", !.retryDelayMs = d, !.connect = TRUE,
                             !.at = "start"]
  BY <1>1 DEF Restart
<1> QED
  BY <1>2, Zenon DEF KType

\* Types and busy after a step; every step has to show this much of the Connector.
Kept == connector' \in KType /\ IsFiniteSet(connector'.timers) /\ (connector.busy => connector'.busy)

\* The types after a step that handles no new events.
LEMMA TypesFrom ==
  ASSUME Types, Kept, loop' \in LoopType, loop'.due \subseteq loop.due, pending' \in Seq(Functor),
         conn' \in ConnType, connection' \in Conns \cup {0}, call' \in CallType, retry' = retry,
         connect' \in BOOLEAN, stopped' \in {"no", "late", "yes"}, connects' \in 0..ConnectMax
  PROVE  Types'
<1>1. IsFiniteSet({t \in TimerIds : Timer(t) \in loop'.due})
  BY DueShrinks, Zenon DEF Types
<1> QED
  BY <1>1 DEF Types, Kept, Timer

\* The loop's own steps and its callbacks keep the types.
LEMMA CallbackTypes ==
  ASSUME Types, Endless,
         \/ SwapFunctors \/ EndBatch \/ CallbackReturns
         \/ RestartStores \/ RestartStarts \/ StartConnects \/ RetryStartsTimer
         \/ HandleWrite \/ HandleError
         \/ (\E t \in TimerIds : TimerExpires(t))
         \/ (\E c \in Conns : NewConnection(c) \/ RemoveConnection(c))
  PROVE  Types' /\ Kept
<1> USE DEF clientVars, userVars
<1>1. /\ connector \in KType /\ IsFiniteSet(connector.timers) /\ loop \in LoopType
      /\ pending \in Seq(Functor) /\ conn \in ConnType /\ connection \in Conns \cup {0}
      /\ call \in CallType /\ connect \in BOOLEAN /\ stopped \in {"no", "late", "yes"}
      /\ connects \in 0..ConnectMax
  BY DEF Types
<1>2. connector' = connector => Kept
  BY <1>1 DEF Kept
<1>3. \A f \in Functor : Append(pending, f) \in Seq(Functor)
  BY <1>1
<1>4. CASE SwapFunctors
  <2>1. loop' \in LoopType /\ loop'.due = loop.due
    BY <1>1, <1>4, LoopPhases, Zenon DEF SwapFunctors
  <2>2. pending' \in Seq(Functor)
    BY <1>4 DEF SwapFunctors
  <2> QED
    BY <1>1, <1>2, <1>4, <2>1, <2>2, TypesFrom DEF SwapFunctors
<1>5. CASE EndBatch
  <2>1. loop' \in LoopType /\ loop'.due = loop.due
    BY <1>1, <1>5, LoopPhases, Zenon DEF EndBatch
  <2> QED
    BY <1>1, <1>2, <1>5, <2>1, TypesFrom DEF EndBatch
<1>6. CASE CallbackReturns
  <2>1. loop' \in LoopType /\ loop'.due = loop.due
    BY <1>1, <1>6, LoopEffects, Names, Zenon DEF CallbackReturns
  <2>2. conn' \in ConnType
    BY <1>1, <1>6, Zenon DEF CallbackReturns, ConnType
  <2> QED
    BY <1>1, <1>2, <1>6, <2>1, <2>2, TypesFrom DEF CallbackReturns
<1>7. CASE RestartStores \/ RestartStarts \/ StartConnects \/ RetryStartsTimer
  <2>1. /\ loop' = loop /\ pending' = pending /\ conn' = conn /\ connection' = connection
        /\ call' = call /\ retry' = retry /\ connect' = connect /\ stopped' = stopped
        /\ connects' = connects
    BY <1>7, Zenon DEF RestartStores, RestartStarts, StartConnects, RetryStartsTimer, Goes
  <2>2. \/ connector' = Restart(connector) \/ connector' = StartInLoop(connector)
        \/ connector' \in Connect(connector) \/ connector' = RunAfter(connector)
    BY <1>7, Zenon DEF RestartStores, RestartStarts, StartConnects, RetryStartsTimer, Goes
  <2>3. Kept
    <3>1. connector' = Restart(connector) => Kept
      BY <1>1, RestartType DEF Kept
    <3>2. connector' = StartInLoop(connector) => Kept
      BY <1>1, StartEffect DEF Kept
    <3>3. connector' \in Connect(connector) => Kept
      BY <1>1, ConnectEffect DEF Kept
    <3>4. connector' = RunAfter(connector) => Kept
      BY <1>1, RunAfterEffect DEF Kept
    <3> QED
      BY <2>2, <3>1, <3>2, <3>3, <3>4
  <2>4. loop'.due \subseteq loop.due
    BY <2>1, Zenon
  <2> QED
    BY <1>1, <2>1, <2>3, <2>4, TypesFrom, Zenon
<1>8. /\ Retry(Removed(connector)) \in KType /\ IsFiniteSet(Retry(Removed(connector)).timers)
      /\ Retry(Removed(connector)).busy = connector.busy
  <2>1. Removed(connector) \in KType /\ IsFiniteSet(Removed(connector).timers)
        /\ Removed(connector).busy = connector.busy
    BY <1>1, MethodTypes
  <2> QED
    BY <2>1, RetryEffect, Zenon
<1>9. /\ Fail(connector, "state") \in KType /\ IsFiniteSet(Fail(connector, "state").timers)
      /\ Fail(connector, "state").busy = connector.busy
      /\ Fail(connector, "connection") \in KType /\ IsFiniteSet(Fail(connector, "connection").timers)
      /\ Fail(connector, "connection").busy = connector.busy
  BY <1>1, MethodTypes
<1>10. CASE HandleWrite
  <2>1. PICK a \in {"none", "new"} : a = IF connector.connect THEN "new" ELSE "none"
    BY Zenon
  <2> DEFINE k == [Removed(connector) EXCEPT !.state = "kConnected", !.at = a]
  <2>2. k \in KType /\ IsFiniteSet(k.timers) /\ k.busy = connector.busy
    <3>1. /\ Removed(connector) \in KType /\ IsFiniteSet(Removed(connector).timers)
          /\ Removed(connector).busy = connector.busy
      BY <1>1, MethodTypes
    <3>2. a \in {"none", "restart", "start", "connect", "retry", "new"}
      BY Zenon
    <3> QED
      BY <3>1, <3>2, Zenon DEF KType
  <2>3. connector' \in {Retry(Removed(connector)), k, connector, Fail(connector, "state")}
    BY <1>10, <2>1, Zenon DEF HandleWrite
  <2> HIDE DEF k
  <2>4. Kept
    BY <1>1, <1>8, <1>9, <2>2, <2>3, Zenon DEF Kept
  <2>5. pending' \in Seq(Functor)
    BY <1>1, <1>3, <1>10, Names, Zenon DEF HandleWrite, AReset
  <2>6. loop' \in LoopType /\ loop'.due \subseteq loop.due
    BY <1>1, <1>10, LoopEffects, Names, Zenon DEF HandleWrite
  <2> QED
    BY <1>1, <1>10, <2>4, <2>5, <2>6, TypesFrom, Zenon DEF HandleWrite
<1>11. CASE HandleError
  <2>1. loop' \in LoopType /\ loop'.due \subseteq loop.due
    BY <1>1, <1>11, LoopEffects, Names, Zenon DEF HandleError
  <2>2. pending' \in Seq(Functor)
    BY <1>1, <1>3, <1>11, Names, Zenon DEF HandleError, AReset
  <2>3. Kept
    BY <1>8, <1>9, <1>11, Zenon DEF HandleError, Kept
  <2> QED
    BY <1>1, <1>11, <2>1, <2>2, <2>3, TypesFrom, Zenon DEF HandleError
<1>12. ASSUME NEW t \in TimerIds, TimerExpires(t) PROVE Types' /\ Kept
  <2>1. loop' \in LoopType /\ loop'.due \subseteq loop.due
    BY <1>1, <1>12, LoopEffects, Names, Zenon DEF TimerExpires
  <2> DEFINE k == [connector EXCEPT !.timers = @ \ {t}]
  <2>2. k \in KType /\ IsFiniteSet(k.timers) /\ k.busy = connector.busy
    BY <1>1, MethodTypes, Zenon
  <2>3. connector' = connector \/ connector' = StartInLoop(k)
    BY <1>12, Zenon DEF TimerExpires
  <2> HIDE DEF k
  <2>4. Kept
    BY <1>2, <2>2, <2>3, StartEffect, Zenon DEF Kept
  <2> QED
    BY <1>1, <1>12, <2>1, <2>4, TypesFrom, Zenon DEF TimerExpires
<1>13. ASSUME NEW c \in Conns, RemoveConnection(c) PROVE Types' /\ Kept
  <2>1. loop' \in LoopType /\ loop'.due \subseteq loop.due
    BY <1>1, <1>13, LoopEffects, Names, Zenon DEF RemoveConnection
  <2>2. pending' \in Seq(Functor) /\ connection' \in Conns \cup {0}
    BY <1>1, <1>3, <1>13, Names, Zenon DEF RemoveConnection, Destroyed
  <2>3. Kept
    <3>1. PICK a \in {"none", "restart"} : a = IF retry /\ connect THEN "restart" ELSE "none"
      BY Zenon
    <3>2. a \in {"none", "restart", "start", "connect", "retry", "new"}
      BY Zenon
    <3> DEFINE k == [connector EXCEPT !.at = a]
    <3>3. k \in KType /\ IsFiniteSet(k.timers) /\ k.busy = connector.busy
      BY <1>1, <3>2, Zenon DEF KType
    <3>4. connector' = k \/ connector' = Fail(connector, "connection")
      BY <1>13, <3>1, Zenon DEF RemoveConnection
    <3> HIDE DEF k
    <3> QED
      BY <1>9, <3>3, <3>4, Zenon DEF Kept
  <2> QED
    BY <1>1, <1>13, <2>1, <2>2, <2>3, TypesFrom, Zenon DEF RemoveConnection
<1>14. ASSUME NEW c \in Conns, NewConnection(c) PROVE Types' /\ Kept
  <2>1. loop' \in LoopType /\ loop'.due \subseteq loop.due
    <3>1. loop' = [loop EXCEPT !.user = Up(c)] /\ Up(c) \in UserType
      BY <1>14, Names, Zenon DEF NewConnection, Up
    <3> QED
      BY <1>1, <3>1, LoopEffects, Zenon
  <2>2. Kept
    BY <1>1, <1>14, Zenon DEF NewConnection, Kept, KType
  <2>3. conn' \in ConnType
    BY <1>1, <1>14, Zenon DEF NewConnection, ConnType
  <2>4. connection' \in Conns \cup {0} /\ stopped' \in {"no", "late", "yes"}
    BY <1>1, <1>14, Zenon DEF NewConnection
  <2> QED
    BY <1>1, <1>14, <2>1, <2>2, <2>3, <2>4, TypesFrom, Zenon DEF NewConnection
<1> QED
  BY <1>4, <1>5, <1>6, <1>7, <1>10, <1>11, <1>12, <1>13, <1>14, Zenon

\* The functors keep the types.
LEMMA FunctorTypes ==
  ASSUME Types, Endless,
         \/ StartFunctor \/ ResetFunctor \/ CancelFunctor \/ ShutdownFunctor \/ ConnectDestroyed
  PROVE  Types' /\ Kept
<1> USE DEF clientVars, userVars
<1>1. /\ connector \in KType /\ IsFiniteSet(connector.timers) /\ loop \in LoopType
      /\ pending \in Seq(Functor) /\ conn \in ConnType /\ connection \in Conns \cup {0}
      /\ call \in CallType /\ connect \in BOOLEAN /\ stopped \in {"no", "late", "yes"}
      /\ connects \in 0..ConnectMax
  BY DEF Types
<1>2. connector' = connector => Kept
  BY <1>1 DEF Kept
<1>3. /\ Fail(connector, "connection") \in KType /\ IsFiniteSet(Fail(connector, "connection").timers)
      /\ Fail(connector, "connection").busy = connector.busy
  BY <1>1, MethodTypes, Zenon
<1>4. CASE StartFunctor
  <2>1. loop' \in LoopType /\ loop'.due = loop.due
    BY <1>1, <1>4, LoopEffects, Names DEF StartFunctor, Calls
  <2>2. Kept
    BY <1>1, <1>4, StartEffect, Zenon DEF StartFunctor, Kept
  <2> QED
    BY <1>1, <1>4, <2>1, <2>2, TypesFrom DEF StartFunctor
<1>5. CASE ResetFunctor
  <2>1. loop' \in LoopType /\ loop'.due = loop.due
    BY <1>1, <1>5, LoopEffects, Names DEF ResetFunctor, Calls
  <2>2. Kept
    BY <1>1, <1>5, MethodTypes DEF ResetFunctor, Kept
  <2> QED
    BY <1>1, <1>5, <2>1, <2>2, TypesFrom DEF ResetFunctor
<1>6. CASE CancelFunctor
  <2>1. loop' \in LoopType /\ loop'.due = loop.due
    BY <1>1, <1>6, LoopEffects, Names DEF CancelFunctor, Calls
  <2>2. PICK t : t = Head(loop.batch).t
    OBVIOUS
  <2>3. connector' = [connector EXCEPT !.timers = @ \ {t}]
    BY <1>6, <2>2 DEF CancelFunctor
  <2> DEFINE k == [connector EXCEPT !.timers = @ \ {t}]
  <2>4. k \in KType /\ IsFiniteSet(k.timers) /\ k.busy = connector.busy
    BY <1>1, MethodTypes, Zenon
  <2>5. Kept
    BY <2>3, <2>4 DEF Kept
  <2> QED
    BY <1>1, <1>6, <2>1, <2>5, TypesFrom, Zenon DEF CancelFunctor
<1>7. CASE ShutdownFunctor
  <2>1. loop' \in LoopType /\ loop'.due = loop.due
    BY <1>1, <1>7, LoopEffects, Names, Zenon DEF ShutdownFunctor, Calls
  <2>2. Kept
    BY <1>2, <1>3, <1>7, Zenon DEF ShutdownFunctor, Kept
  <2> QED
    BY <1>1, <1>7, <2>1, <2>2, TypesFrom DEF ShutdownFunctor
<1>8. CASE ConnectDestroyed
  <2>1. Head(loop.batch) \in Functor /\ Head(loop.batch).op = "destroyed" /\ loop.batch # <<>>
    BY <1>1, <1>8 DEF ConnectDestroyed, Calls, LoopType
  <2>2. PICK c \in Conns : Head(loop.batch).c = c
    BY <2>1, Zenon DEF Functor
  <2>3. PICK u \in UserType : AfterFunctor(u)
    BY <1>8, <2>2, Names DEF ConnectDestroyed, Down
  <2>4. loop' \in LoopType /\ loop'.due = loop.due
    BY <1>1, <2>1, <2>3, LoopEffects, Zenon
  <2>5. conn' \in ConnType
    BY <1>1, <1>8, <2>2, Zenon DEF ConnectDestroyed, ConnType
  <2>6. Kept
    BY <1>2, <1>3, <1>8 DEF ConnectDestroyed, Kept
  <2> QED
    BY <1>1, <1>8, <2>4, <2>5, <2>6, TypesFrom, Zenon DEF ConnectDestroyed
<1> QED
  BY <1>4, <1>5, <1>6, <1>7, <1>8

\* The calls of the user keep the types.
LEMMA UserTypes ==
  ASSUME Types, Endless, UserCalls \/ CallStep
  PROVE  Types' /\ Kept
<1> USE DEF clientVars, userVars
<1>1. /\ connector \in KType /\ IsFiniteSet(connector.timers) /\ loop \in LoopType
      /\ pending \in Seq(Functor) /\ conn \in ConnType /\ connection \in Conns \cup {0}
      /\ call \in CallType /\ connect \in BOOLEAN /\ stopped \in {"no", "late", "yes"}
      /\ connects \in 0..ConnectMax
  BY DEF Types
<1>2. connector' = connector => Kept
  BY <1>1, Zenon DEF Kept
<1>3. \A f \in Functor : Append(pending, f) \in Seq(Functor)
  BY <1>1
<1>4. ShutdownConnection => conn' \in ConnType
  BY <1>1 DEF ShutdownConnection, ConnType
<1>5. connects < ConnectMax => connects + 1 \in 0..ConnectMax
  BY <1>1, ClientAssumption
<1>6. loop' = loop => loop' \in LoopType /\ loop'.due = loop.due
  BY <1>1
<1>7. \A b \in BOOLEAN : /\ [connector EXCEPT !.connect = TRUE, !.busy = b] \in KType
                         /\ [connector EXCEPT !.connect = TRUE, !.busy = b].timers = connector.timers
                         /\ [connector EXCEPT !.connect = TRUE, !.busy = b].busy = b
                         /\ [connector EXCEPT !.busy = b] \in KType
                         /\ [connector EXCEPT !.busy = b].timers = connector.timers
                         /\ [connector EXCEPT !.busy = b].busy = b
                         /\ [connector EXCEPT !.connect = b] \in KType
                         /\ [connector EXCEPT !.connect = b].timers = connector.timers
                         /\ [connector EXCEPT !.connect = b].busy = connector.busy
  BY <1>1, Zenon DEF KType
<1>8. CASE OwnerConnect
  <2>1. PICK b \in BOOLEAN : b = (connector.busy \/ Busy)
    BY Zenon
  <2>2. connector' = StartInLoop([connector EXCEPT !.connect = TRUE, !.busy = b])
    BY <1>8, <2>1 DEF OwnerConnect
  <2>3. Kept
    BY <1>1, <1>7, <2>1, <2>2, StartEffect, Zenon DEF Kept
  <2> QED
    BY <1>1, <1>5, <1>6, <1>8, <2>3, TypesFrom, Zenon DEF OwnerConnect
<1>9. CASE OwnerDisconnect
  BY <1>1, <1>2, <1>4, <1>6, <1>9, TypesFrom, Zenon DEF OwnerDisconnect
<1>10. CASE OwnerStop
  <2>1. Kept
    BY <1>1, <1>10, MethodTypes DEF OwnerStop, Kept
  <2> QED
    BY <1>1, <1>6, <1>10, <2>1, TypesFrom, Zenon DEF OwnerStop
<1>11. CASE Destroy
  <2>1. PICK b \in BOOLEAN : b = (\/ Stop(connector).busy \/ connection # 0 \/ connector.channel # "none"
                                  \/ [op |-> "start"] \in Range(pending) \cup Range(loop.batch))
    BY Zenon
  <2> DEFINE k == [Stop(connector) EXCEPT !.destroyed = TRUE, !.busy = b]
  <2>2. Stop(connector) \in KType /\ IsFiniteSet(Stop(connector).timers)
        /\ Stop(connector).busy = connector.busy
    BY <1>1, MethodTypes
  <2>3. k \in KType /\ IsFiniteSet(k.timers) /\ k.busy = b
    BY <2>2, Zenon DEF KType
  <2>4. connector' = k \/ connector' = Fail(k, "channel")
    BY <1>11, <2>1 DEF Destroy
  <2> HIDE DEF k
  <2>5. Kept
    <3>1. Fail(k, "channel") \in KType /\ IsFiniteSet(Fail(k, "channel").timers)
          /\ Fail(k, "channel").busy = k.busy
      BY <2>3, MethodTypes
    <3> QED
      BY <2>1, <2>2, <2>3, <2>4, <3>1, Zenon DEF Kept
  <2>6. conn' \in ConnType
    BY <1>1, <1>11 DEF Destroy, ConnType
  <2> QED
    BY <1>1, <1>6, <1>11, <2>5, <2>6, TypesFrom DEF Destroy
<1>12. CASE ThreadConnect
  <2>1. PICK b \in BOOLEAN : b = (connector.busy \/ Busy)
    BY Zenon
  <2>2. connector' = [connector EXCEPT !.busy = b]
    BY <1>12, <2>1 DEF ThreadConnect
  <2>3. Kept
    BY <1>1, <1>7, <2>1, <2>2, Zenon DEF Kept
  <2>4. call' \in CallType
    BY <1>12 DEF ThreadConnect, CallType
  <2> QED
    BY <1>1, <1>5, <1>6, <1>12, <2>3, <2>4, TypesFrom, Zenon DEF ThreadConnect
<1>13. ASSUME NEW then \in {"shutdown", "stop"}, ThreadClearsConnect(then) PROVE Types' /\ Kept
  <2>1. call' \in CallType
    BY <1>13 DEF ThreadClearsConnect, CallType
  <2> QED
    BY <1>1, <1>2, <1>6, <1>13, <2>1, TypesFrom, Zenon DEF ThreadClearsConnect
<1>14. CASE ThreadStarts
  <2>1. call' \in CallType /\ Kept
    BY <1>1, <1>7, <1>14, Zenon DEF ThreadStarts, CallType, Kept
  <2> QED
    BY <1>1, <1>6, <1>14, <2>1, TypesFrom, Zenon DEF ThreadStarts
<1>15. CASE ThreadQueuesStart
  <2>1. call' \in CallType /\ pending' \in Seq(Functor)
    BY <1>3, <1>15, Names, Zenon DEF ThreadQueuesStart, CallType, AStart
  <2> QED
    BY <1>1, <1>2, <1>6, <1>15, <2>1, TypesFrom DEF ThreadQueuesStart
<1>16. CASE ThreadShutsDown
  <2>1. call' \in CallType /\ pending' \in Seq(Functor)
    BY <1>1, <1>3, <1>16, Names DEF ThreadShutsDown, CallType, Shutdown
  <2> QED
    BY <1>1, <1>2, <1>4, <1>6, <1>16, <2>1, TypesFrom, Zenon DEF ThreadShutsDown
<1>17. CASE ThreadStops
  <2>1. call' \in CallType /\ stopped' \in {"no", "late", "yes"}
    BY <1>17, Zenon DEF ThreadStops, CallType
  <2>2. Kept
    BY <1>1, <1>7, <1>17, Zenon DEF ThreadStops, Kept
  <2> QED
    BY <1>1, <1>6, <1>17, <2>1, <2>2, TypesFrom DEF ThreadStops
<1>18. \A t \in TimerIds \cup {0} : /\ [connector EXCEPT !.read = t] \in KType
                                     /\ [connector EXCEPT !.read = t].timers = connector.timers
                                     /\ [connector EXCEPT !.read = t].busy = connector.busy
  BY <1>1, Zenon DEF KType
<1>19. connector.timerId \in TimerIds \cup {0} /\ connector.read \in TimerIds \cup {0}
  BY <1>1, Zenon DEF KType
<1>20. CASE ThreadReadsTimerId
  <2>1. call' \in CallType /\ Kept
    BY <1>1, <1>18, <1>19, <1>20, Zenon DEF ThreadReadsTimerId, CallType, Kept
  <2> QED
    BY <1>1, <1>6, <1>20, <2>1, TypesFrom, Zenon DEF ThreadReadsTimerId
<1>21. CASE ThreadCancels
  <2>1. call' \in CallType /\ pending' \in Seq(Functor)
    BY <1>3, <1>19, <1>21, Names, Zenon DEF ThreadCancels, CallType, Cancel
  <2>2. Kept
    BY <1>1, <1>18, <1>21, Zenon DEF ThreadCancels, Kept
  <2> QED
    BY <1>1, <1>6, <1>21, <2>1, <2>2, TypesFrom, Zenon DEF ThreadCancels
<1> QED
  BY <1>8, <1>9, <1>10, <1>11, <1>12, <1>13, <1>14, <1>15, <1>16, <1>17, <1>20, <1>21, Zenon
     DEF UserCalls, CallStep

\* Every step keeps the types, and a busy client stays one.
LEMMA TypesStep ==
  ASSUME Types, Endless, [Next]_vars
  PROVE  Types' /\ Kept
<1>1. CASE LoopStep
  BY <1>1, CallbackTypes, FunctorTypes DEF LoopStep
<1>2. CASE CallStep \/ UserCalls
  BY <1>2, UserTypes
<1>3. ASSUME NEW due \in SUBSET Ready, Polls(due) PROVE Types' /\ Kept
  <2>0. loop' = [loop EXCEPT !.phase = "dispatch", !.due = due]
    BY <1>3 DEF Polls, PollReturns
  <2>1. /\ loop' \in LoopType /\ loop'.due = due
        /\ IsFiniteSet({t \in TimerIds : Timer(t) \in due})
    BY <2>0, ReadyType, LoopPhases, Zenon DEF Types
  <2> QED
    BY <1>3, <2>1 DEF Polls, PollReturns, Types, Kept, clientVars, userVars, Timer
<1>4. CASE UNCHANGED vars
  BY <1>4 DEF Types, Kept, vars, clientVars, userVars, Timer
<1> QED
  BY <1>1, <1>2, <1>3, <1>4 DEF Next
-----------------------------------------------------------------------------
(* The steps of the loop keep the invariant. *)

\* No two functors, events or callbacks are the same.
LEMMA Distinct ==
  /\ AStart # AReset /\ Writable # Failed
  /\ \A x : /\ Cancel(x) # AStart /\ Cancel(x) # AReset /\ Destroyed(x) # AStart
            /\ Destroyed(x) # AReset /\ Shutdown(x) # AStart /\ Shutdown(x) # AReset
            /\ Timer(x) # Writable /\ Timer(x) # Failed /\ Closed(x) # Writable /\ Closed(x) # Failed
            /\ None # Up(x) /\ None # Down(x)
  /\ \A x, y : /\ Cancel(x) # Destroyed(y) /\ Cancel(x) # Shutdown(y) /\ Destroyed(x) # Shutdown(y)
               /\ Timer(x) # Closed(y) /\ Up(x) # Down(y)
               /\ Cancel(x) = Cancel(y) => x = y
               /\ Destroyed(x) = Destroyed(y) => x = y
               /\ Shutdown(x) = Shutdown(y) => x = y
               /\ Timer(x) = Timer(y) => x = y
               /\ Closed(x) = Closed(y) => x = y
               /\ Up(x) = Up(y) => x = y
               /\ Down(x) = Down(y) => x = y
<1>1. AStart # AReset /\ Writable # Failed
  BY Zenon DEF AStart, AReset, Writable, Failed, None
<1>2. \A x : /\ Cancel(x).op = "cancel" /\ Destroyed(x).op = "destroyed" /\ Shutdown(x).op = "shutdown"
             /\ Timer(x).op = "timer" /\ Closed(x).op = "closed"
             /\ Up(x).op = "up" /\ Down(x).op = "down"
             /\ Cancel(x).t = x /\ Timer(x).t = x
             /\ Destroyed(x).c = x /\ Shutdown(x).c = x /\ Closed(x).c = x /\ Up(x).c = x /\ Down(x).c = x
  BY Zenon DEF Cancel, Destroyed, Shutdown, Timer, Closed, Up, Down
<1>3. /\ AStart.op = "start" /\ AReset.op = "reset" /\ Writable.op = "writable" /\ Failed.op = "failed"
      /\ None.op = "none"
  BY Zenon DEF AStart, AReset, Writable, Failed, None
<1>4. ASSUME NEW x
      PROVE  /\ Cancel(x) # AStart /\ Cancel(x) # AReset /\ Destroyed(x) # AStart
             /\ Destroyed(x) # AReset /\ Shutdown(x) # AStart /\ Shutdown(x) # AReset
             /\ Timer(x) # Writable /\ Timer(x) # Failed /\ Closed(x) # Writable /\ Closed(x) # Failed
             /\ None # Up(x) /\ None # Down(x)
  BY <1>2, <1>3
<1>5. ASSUME NEW x, NEW y
      PROVE  /\ Cancel(x) # Destroyed(y) /\ Cancel(x) # Shutdown(y) /\ Destroyed(x) # Shutdown(y)
             /\ Timer(x) # Closed(y) /\ Up(x) # Down(y)
  BY <1>2
<1>6. ASSUME NEW x, NEW y
      PROVE  /\ Cancel(x) = Cancel(y) => x = y
             /\ Destroyed(x) = Destroyed(y) => x = y
             /\ Shutdown(x) = Shutdown(y) => x = y
             /\ Timer(x) = Timer(y) => x = y
             /\ Closed(x) = Closed(y) => x = y
             /\ Up(x) = Up(y) => x = y
             /\ Down(x) = Down(y) => x = y
  BY <1>2
<1> QED
  BY <1>1, <1>4, <1>5, <1>6, Zenon

\* A functor by its kind.
LEMMA Kinds ==
  ASSUME NEW f \in Functor
  PROVE  /\ f.op = "start" => f = AStart
         /\ f.op = "reset" => f = AReset
         /\ f.op = "cancel" => f = Cancel(f.t)
         /\ f.op = "destroyed" => f.c \in Conns /\ f = Destroyed(f.c)
         /\ f.op = "shutdown" => f.c \in Conns /\ f = Shutdown(f.c)
BY Zenon DEF Functor, AStart, AReset, Cancel, Destroyed, Shutdown

\* A functor waits in the batch or in the vector.
LEMMA WaitsRange ==
  ASSUME Types, NEW f
  PROVE  Waits(f) <=> f \in Range(pending) \cup Range(loop.batch)
<1>1. SUFFICES ASSUME NEW b \in Seq(Functor), NEW p \in Seq(Functor)
               PROVE  Has(b \o p, f) <=> f \in Range(p) \cup Range(b)
  BY Zenon DEF Types, LoopType, Waits, todo
<1>2. /\ b \o p \in Seq(Functor) /\ Len(b \o p) = Len(b) + Len(p)
      /\ \A i \in 1..(Len(b) + Len(p)) : (b \o p)[i] = IF i <= Len(b) THEN b[i] ELSE p[i - Len(b)]
  BY Joined, Zenon
<1>3. Len(b) \in Nat /\ Len(p) \in Nat /\ DOMAIN b = 1..Len(b) /\ DOMAIN p = 1..Len(p)
  OBVIOUS
<1>4. ASSUME NEW i \in 1..Len(b \o p), (b \o p)[i] = f PROVE f \in Range(p) \cup Range(b)
  <2>1. CASE i <= Len(b)
    BY <1>2, <1>3, <1>4, <2>1 DEF Range
  <2>2. CASE ~(i <= Len(b))
    <3>1. i - Len(b) \in DOMAIN p /\ p[i - Len(b)] = f
      BY <1>2, <1>3, <1>4, <2>2
    <3> QED
      BY <3>1, Zenon DEF Range
  <2> QED
    BY <2>1, <2>2, Zenon
<1>5. ASSUME NEW i \in DOMAIN b, b[i] = f PROVE Has(b \o p, f)
  <2>1. i \in 1..Len(b \o p) /\ (b \o p)[i] = f
    BY <1>2, <1>3, <1>5
  <2> QED
    BY <2>1, Zenon DEF Has
<1>6. ASSUME NEW i \in DOMAIN p, p[i] = f PROVE Has(b \o p, f)
  <2>1. i + Len(b) \in 1..Len(b \o p) /\ ~(i + Len(b) <= Len(b)) /\ (i + Len(b)) - Len(b) = i
    BY <1>2, <1>3
  <2>2. (b \o p)[i + Len(b)] = f
    BY <1>2, <1>6, <2>1, Zenon
  <2> QED
    BY <2>1, <2>2, Zenon DEF Has
<1>7. Has(b \o p, f) => f \in Range(p) \cup Range(b)
  BY <1>4, Zenon DEF Has
<1>8. f \in Range(p) \cup Range(b) => Has(b \o p, f)
  BY <1>5, <1>6, Zenon DEF Range
<1> QED
  BY <1>7, <1>8, Zenon

\* What poll() reports keeps the invariant.
LEMMA PollGood ==
  ASSUME Types, Types', Good, NEW due \in SUBSET Ready, Polls(due)
  PROVE  Good'
<1>1. /\ loop'.due = due /\ loop'.user = loop.user /\ loop'.phase = "dispatch"
      /\ loop'.batch = loop.batch
  BY ReadyType, LoopPhases, Zenon DEF Polls, PollReturns, Types
<1>2. loop.phase = "poll" /\ loop.user = None /\ loop.batch = <<>>
  BY Zenon DEF Polls, PollReturns, Good, LoopInv
<1>3. /\ connector' = connector /\ connection' = connection /\ connect' = connect /\ conn' = conn
      /\ pending' = pending /\ call' = call /\ connects' = connects /\ stopped' = stopped
  BY Zenon DEF Polls, PollReturns, clientVars, userVars
<1>4. todo' = todo
  BY <1>1, <1>3, TodoSame, Zenon DEF Types, LoopType
<1>5. todo = pending
  <2>1. \A p \in Seq(Functor) : <<>> \o p = p
    BY JoinedEmpty, Zenon
  <2> QED
    BY <1>2, <2>1, Zenon DEF todo, Types
<1>6. ~Waits(AReset) /\ connector.channel # "removed" /\ \A c \in Conns : ~Waits(Destroyed(c))
  BY <1>2, <1>5, Zenon DEF Good, LoopInv, ChannelInv, Waits
<1>7. LoopInv'
  BY <1>1, <1>2, Distinct, Zenon DEF LoopInv
<1>8. AttemptInv'
  BY <1>3, <1>4, Zenon DEF Good, AttemptInv, Trying, Midway, Waits, Starting
<1>9. Writable \notin due \/ Failed \notin due
  BY DEF Polls, PollReturns, Writable, Failed
<1>10. ChannelInv'
  <2>1. Writable \in due \/ Failed \in due => connector.state = "kConnecting"
    BY ReadyType, Zenon DEF Good, AttemptInv, Trying, Midway
  <2>2. ASSUME NEW t \in TimerIds, Timer(t) \in due PROVE Writable \notin due /\ Failed \notin due
    <3>1. connector.state = "kDisconnected"
      BY <2>2, ReadyType, Zenon DEF Good, AttemptInv, Trying, Midway
    <3> QED
      BY <2>1, <3>1, Zenon
  <2> QED
    BY <1>1, <1>3, <1>4, <1>6, <1>9, <2>1, <2>2, Zenon DEF Good, ChannelInv, Waits
<1>11. ConnInv'
  <2>1. ASSUME NEW c \in Conns, Closed(c) \in due PROVE connection = c /\ connector.channel = "none"
    <3>1. connection = c /\ connection # 0
      BY <2>1, ReadyType, ClientAssumption, Zenon
    <3>2. connector.state = "kConnected"
      BY <3>1, Zenon DEF Good, ConnInv
    <3> QED
      BY <1>6, <3>1, <3>2, Zenon DEF Good, AttemptInv, Trying, Midway, Types, KType
  <2> QED
    BY <1>1, <1>3, <1>4, <2>1, Zenon DEF Good, ConnInv, Waits
<1>12. StopInv'
  BY <1>1, <1>3, <1>4, Zenon DEF Good, StopInv, Waits
<1> QED
  BY <1>3, <1>7, <1>8, <1>10, <1>11, <1>12, Zenon DEF Good

\* What removeAndResetChannel and the loop's other methods set in a Connector.
LEMMA RemovedFields ==
  ASSUME NEW k \in KType
  PROVE  /\ Removed(k).channel = "removed" /\ Removed(k).state = k.state
         /\ Removed(k).connect = k.connect /\ Removed(k).timers = k.timers
         /\ Removed(k).timerId = k.timerId /\ Removed(k).gaveUp = k.gaveUp
         /\ Removed(k).destroyed = k.destroyed /\ Removed(k).busy = k.busy
         /\ Removed(k).fault = k.fault /\ Removed(k).at = k.at /\ Removed(k) \in KType
BY Zenon DEF Removed, KType

\* The outcome of an attempt is reported while nothing else of the client is under way.
LEMMA OutcomeAlone ==
  ASSUME Types, Good, Writable \in loop.due \/ Failed \in loop.due
  PROVE  /\ connector.state = "kConnecting" /\ connector.channel = "registered"
         /\ connector.timers = {} /\ ~Waits(AStart) /\ ~Starting /\ ~Waits(AReset)
         /\ connection = 0 /\ connects # 0 /\ ~connector.destroyed
         /\ \A c \in Conns : /\ ~Waits(Destroyed(c)) /\ ~Waits(Shutdown(c)) /\ Closed(c) \notin loop.due
                             /\ loop.user # Up(c)
         /\ \A t \in TimerIds : Timer(t) \notin loop.due
<1>1. connector.state = "kConnecting" /\ \A c \in Conns : ~Waits(Destroyed(c))
  BY Zenon DEF Good, ChannelInv
<1>2. connector.channel = "registered" /\ connector.timers = {} /\ ~Waits(AStart) /\ ~Starting
      /\ connects # 0
  BY <1>1, Zenon DEF Good, AttemptInv, Trying, Midway
<1>3. ~Waits(AReset) /\ \A t \in TimerIds : Timer(t) \notin loop.due
  BY <1>2, Zenon DEF Good, ChannelInv
<1>4. connection = 0 /\ \A c \in Conns : loop.user # Up(c)
  BY <1>1, Zenon DEF Good, ConnInv
<1>5. \A c \in Conns : ~Waits(Shutdown(c)) /\ Closed(c) \notin loop.due
  BY <1>1, <1>4, ClientAssumption, Zenon DEF Good, ConnInv
<1>6. ~connector.destroyed
  BY <1>2, Zenon DEF Good, StopInv
<1> QED
  BY <1>1, <1>2, <1>3, <1>4, <1>5, <1>6, Zenon

\* A functor that is queued while events are dispatched.
LEMMA DispatchLoop ==
  ASSUME Good, loop.phase = "dispatch", loop'.phase = loop.phase, loop'.batch = loop.batch,
         \A c \in Conns : loop'.user # Down(c),
         connector'.at \in {"restart", "new"} => loop'.user = None
  PROVE  LoopInv'
BY Zenon DEF Good, LoopInv

\* The outcome of an attempt leaves the channel to resetChannel: no attempt is under way but,
\* after a failure, the retry that retry() is about to start.
LEMMA OutcomeLeaves ==
  ASSUME Types, Types', Good, NEW e \in {Writable, Failed}, Handles(e),
         pending' = Append(pending, AReset), AfterEvent(e), UNCHANGED <<clientVars, conn, userVars>>,
         connector'.connect = connector.connect, connector'.channel = "removed",
         ~connector'.destroyed, connector'.fault = "none", connector'.timers = {},
         \/ /\ connector'.state = "kDisconnected"
            /\ connector'.at = IF connector.connect THEN "retry" ELSE "none"
         \/ /\ connector'.state = "kConnected"
            /\ connector'.at = IF connector.connect THEN "new" ELSE "none"
  PROVE  Good'
<1>1. loop.phase = "dispatch" /\ e \in loop.due /\ loop.user = None
  BY Zenon DEF Handles, Between
<1>2. /\ loop'.due = loop.due \ {e} /\ loop'.user = None
      /\ loop'.phase = loop.phase /\ loop'.batch = loop.batch
  BY <1>1, LoopEffects, Names, Zenon DEF Types
<1>3. /\ connection' = connection /\ connect' = connect /\ conn' = conn
      /\ call' = call /\ connects' = connects /\ stopped' = stopped
  BY Zenon DEF clientVars, userVars
<1>4. Pushes(AReset)
  BY <1>2, TodoPush, Names, Zenon DEF Types, LoopType
<1>5. LoopInv'
  BY <1>1, <1>2, DispatchLoop, Distinct, Zenon
<1>6. AttemptInv'
  <2>1. ~Has(todo', AStart) /\ ~Starting' /\ connects' # 0
    BY <1>1, <1>3, <1>4, OutcomeAlone, Distinct, Zenon DEF Pushes, Starting, Waits
  <2>2. AtMostOne(todo', AStart)
    BY <2>1, Zenon DEF AtMostOne, Has
  <2> QED
    BY <2>1, <2>2, Zenon DEF AttemptInv, Trying, Midway, Waits
<1>7. ChannelInv'
  <2>1. Has(todo', AReset) /\ AtMostOne(todo', AReset)
    BY <1>1, <1>4, OutcomeAlone, Zenon DEF Pushes, Good, ChannelInv, Waits
  <2>2. Before(todo', AReset, AStart)
    BY <1>1, <1>4, OutcomeAlone, Distinct, Zenon DEF Pushes, Good, ChannelInv, Waits
  <2>3. Writable \notin loop'.due /\ Failed \notin loop'.due
    BY <1>1, <1>2, Distinct, Zenon DEF Good, ChannelInv
  <2>4. \A t \in TimerIds : Timer(t) \notin loop'.due
    BY <1>1, <1>2, OutcomeAlone, Zenon
  <2> QED
    BY <2>1, <2>2, <2>3, <2>4, Zenon DEF ChannelInv, Waits
<1>8. ConnInv'
  <2>1. connection' = 0
    BY <1>1, <1>3, OutcomeAlone, Zenon
  <2>2. ASSUME NEW c \in Conns
        PROVE  /\ ~Has(todo', Destroyed(c)) /\ ~Has(todo', Shutdown(c)) /\ Closed(c) \notin loop'.due
               /\ AtMostOne(todo', Destroyed(c)) /\ Before(todo', Shutdown(c), Destroyed(c))
    <3>1. ~Has(todo', Destroyed(c)) /\ ~Has(todo', Shutdown(c)) /\ Closed(c) \notin loop'.due
      BY <1>1, <1>2, <1>4, OutcomeAlone, Distinct, Zenon DEF Pushes, Waits
    <3> QED
      BY <3>1, Zenon DEF Has, AtMostOne, Before
  <2> QED
    BY <1>2, <2>1, <2>2, Distinct, Zenon DEF ConnInv, Waits
<1>9. StopInv'
  <2>1. stopped = "yes" => ~connector.connect
    BY <1>1, OutcomeAlone, Zenon DEF Good, StopInv
  <2> QED
    BY <1>3, <2>1, Zenon DEF Good, StopInv
<1> QED
  BY <1>5, <1>6, <1>7, <1>8, <1>9, Zenon DEF Good

\* What a failed attempt leaves of the Connector.
LEMMA FailedGood ==
  ASSUME Types, Types', Good, NEW e \in {Writable, Failed}, Handles(e),
         connector' = Retry(Removed(connector)), pending' = Append(pending, AReset),
         AfterEvent(e), UNCHANGED <<clientVars, conn, userVars>>
  PROVE  Good'
<1> DEFINE k == Removed(connector)
<1>1. e \in loop.due
  BY Zenon DEF Handles
<1>2. /\ k \in KType /\ k.timers = {} /\ k.channel = "removed"
      /\ k.connect = connector.connect /\ k.fault = "none" /\ ~k.destroyed
  BY <1>1, OutcomeAlone, RemovedFields, Zenon DEF Types, Good
<1> HIDE DEF k
<1>3. connector' = Retry(k)
  BY Zenon DEF k
<1>4. /\ connector'.connect = connector.connect /\ connector'.state = "kDisconnected"
      /\ connector'.channel = "removed" /\ ~connector'.destroyed /\ connector'.fault = "none"
      /\ connector'.timers = {}
      /\ connector'.at = IF connector.connect THEN "retry" ELSE "none"
  <2>1. /\ Retry(k).connect = k.connect /\ Retry(k).state = "kDisconnected"
        /\ Retry(k).channel = k.channel /\ Retry(k).destroyed = k.destroyed
        /\ Retry(k).fault = k.fault /\ Retry(k).timers = k.timers
        /\ Retry(k).at = IF k.connect THEN "retry" ELSE "none"
    BY <1>2, RetryEffect, Zenon
  <2> QED
    BY <1>2, <1>3, <2>1
<1> QED
  BY <1>4, OutcomeLeaves, Zenon

\* The outcome of an attempt: a connected socket, a retry or the end of the attempts.
LEMMA OutcomeGood ==
  ASSUME Types, Types', Good, HandleWrite \/ HandleError
  PROVE  Good'
<1>1. CASE HandleWrite
  <2>1. Handles(Writable) /\ connector.state = "kConnecting"
    BY <1>1, OutcomeAlone, Zenon DEF HandleWrite, Handles, Writable
  <2>2. /\ pending' = Append(pending, AReset) /\ UNCHANGED <<clientVars, conn, userVars>>
        /\ AfterEvent(Writable)
    BY <1>1, <2>1, Zenon DEF HandleWrite, AReset, Writable
  <2>3. CASE connector' = Retry(Removed(connector))
    BY <2>1, <2>2, <2>3, FailedGood, Zenon
  <2>4. CASE connector' = [Removed(connector) EXCEPT !.state = "kConnected",
                             !.at = IF connector.connect THEN "new" ELSE "none"]
    <3>1. /\ Removed(connector) \in KType /\ Removed(connector).timers = {}
          /\ Removed(connector).channel = "removed" /\ Removed(connector).fault = "none"
          /\ ~Removed(connector).destroyed /\ Removed(connector).connect = connector.connect
      BY <2>1, OutcomeAlone, RemovedFields, Zenon DEF Types, Good, Handles
    <3>2. /\ connector'.connect = connector.connect /\ connector'.state = "kConnected"
          /\ connector'.channel = "removed" /\ ~connector'.destroyed /\ connector'.fault = "none"
          /\ connector'.timers = {}
          /\ connector'.at = IF connector.connect THEN "new" ELSE "none"
      BY <2>4, <3>1, Zenon DEF KType
    <3> QED
      BY <2>1, <2>2, <3>2, OutcomeLeaves, Zenon
  <2> QED
    BY <1>1, <2>1, <2>3, <2>4, Zenon DEF HandleWrite
<1>2. CASE HandleError
  <2>1. Handles(Failed) /\ connector.state = "kConnecting"
    BY <1>2, OutcomeAlone, Zenon DEF HandleError, Handles, Failed
  <2>2. /\ pending' = Append(pending, AReset) /\ UNCHANGED <<clientVars, conn, userVars>>
        /\ connector' = Retry(Removed(connector)) /\ AfterEvent(Failed)
    BY <1>2, <2>1, Zenon DEF HandleError, AReset, Failed
  <2> QED
    BY <2>1, <2>2, FailedGood, Zenon
<1> QED
  BY <1>1, <1>2, Zenon

\* newConnection keeps the invariant.
LEMMA NewConnectionGood ==
  ASSUME Types, Types', Good, NEW c \in Conns, NewConnection(c)
  PROVE  Good'
<1>1. /\ connector.at = "new" /\ conn[c] = "none" /\ connection' = c
      /\ conn' = [conn EXCEPT ![c] = "kConnected"] /\ loop' = [loop EXCEPT !.user = Up(c)]
      /\ connector' = [connector EXCEPT !.at = "none"]
      /\ connect' = connect /\ pending' = pending /\ call' = call /\ connects' = connects
      /\ stopped' \in {stopped, "yes"} /\ (stopped' # stopped => stopped = "late")
  BY Zenon DEF NewConnection, Up
<1>2. /\ loop'.due = loop.due /\ loop'.user = Up(c)
      /\ loop'.phase = loop.phase /\ loop'.batch = loop.batch
  BY <1>1, LoopEffects, Names, Zenon DEF Types
<1>3. /\ connector'.channel = connector.channel /\ connector'.state = connector.state
      /\ connector'.connect = connector.connect /\ connector'.timers = connector.timers
      /\ connector'.timerId = connector.timerId /\ connector'.gaveUp = connector.gaveUp
      /\ connector'.destroyed = connector.destroyed /\ connector'.fault = connector.fault
      /\ connector'.at = "none"
  BY <1>1, Zenon DEF Types, KType
<1>4. todo' = todo
  BY <1>1, <1>2, TodoSame, Zenon DEF Types, LoopType
<1>5. connector.state = "kConnected" /\ connection = 0 /\ loop.phase = "dispatch" /\ ~connector.destroyed
  BY <1>1, Zenon DEF Good, ConnInv, LoopInv, StopInv
<1>6. LoopInv'
  <2>1. \A d \in Conns : loop'.user # Down(d)
    BY <1>2, Distinct, Zenon
  <2>2. connector'.at \notin {"restart", "new"}
    BY <1>3
  <2> QED
    BY <1>2, <1>5, <2>1, <2>2, DispatchLoop, Zenon
<1>7. AttemptInv'
  BY <1>1, <1>3, <1>4, <1>5, Zenon DEF Good, AttemptInv, Trying, Midway, Waits, Starting
<1>8. ChannelInv'
  BY <1>2, <1>3, <1>4, Zenon DEF Good, ChannelInv, Waits
<1>9. ConnInv'
  <2>1. /\ ~Waits(Destroyed(c)) /\ conn'[c] \in Open
        /\ \A d \in Conns : d # c => conn'[d] = conn[d]
    BY <1>1, Zenon DEF Good, ConnInv, Open, Types, ConnType
  <2>2. \A d \in Conns : Closed(d) \notin loop'.due
    BY <1>2, <1>5, ClientAssumption, Zenon DEF Good, ConnInv
  <2>3. ASSUME NEW d \in Conns
        PROVE  /\ Has(todo', Destroyed(d)) => conn'[d] \in Open /\ connector'.channel # "removed"
               /\ AtMostOne(todo', Destroyed(d)) /\ Before(todo', Shutdown(d), Destroyed(d))
               /\ Has(todo', Shutdown(d)) => Has(todo', Destroyed(d))
               /\ loop'.user # Down(d)
    <3>1. /\ Waits(Destroyed(d)) => conn[d] \in Open /\ connector.channel # "removed" /\ d # c
          /\ AtMostOne(todo, Destroyed(d)) /\ Before(todo, Shutdown(d), Destroyed(d))
          /\ Waits(Shutdown(d)) => Waits(Destroyed(d))
      BY <1>5, <2>1, ClientAssumption, Zenon DEF Good, ConnInv
    <3>2. loop'.user # Down(d)
      BY <1>2, Distinct, Zenon
    <3> QED
      BY <1>3, <1>4, <2>1, <3>1, <3>2, Zenon DEF Waits
  <2> QED
    BY <1>1, <1>3, <1>4, <1>5, <2>1, <2>2, <2>3, Zenon DEF ConnInv, Waits
<1>10. StopInv'
  BY <1>1, <1>3, <1>4, <1>5, Zenon DEF Good, StopInv, Waits
<1> QED
  BY <1>3, <1>6, <1>7, <1>8, <1>9, <1>10, Zenon DEF Good

\* What an attempt that is made at the right time leaves.
LEMMA AttemptMade ==
  ASSUME Types', NEW k \in KType, Attempted(k, connector'),
         ~Has(todo', AStart), ~Has(todo', AReset), ~Starting', connects' # 0,
         Writable \notin loop'.due, Failed \notin loop'.due
  PROVE  /\ connector'.fault = "none" /\ AttemptInv' /\ ChannelInv'
         /\ connector'.connect = k.connect /\ connector'.destroyed = k.destroyed
         /\ connector'.channel # "removed" /\ connector'.timers = {}
         /\ connector'.at \notin {"restart", "new"}
<1>1. /\ connector'.fault = "none" /\ connector'.connect = k.connect
      /\ connector'.destroyed = k.destroyed /\ connector'.timers = {}
  BY Zenon DEF Attempted, SameUse
<1>2. /\ connector'.state = "kConnecting" <=> connector'.channel = "registered"
      /\ connector'.channel # "removed" /\ connector'.at \notin {"restart", "start", "new"}
      /\ connector'.at = "connect" => connector'.channel = "none"
      /\ connector'.at \in {"connect", "retry"} => connector'.state = "kDisconnected"
  BY Zenon DEF Attempted
<1>3. connector'.connect /\ connector'.state = "kDisconnected" /\ ~connector'.gaveUp =>
        connector'.at \in {"connect", "retry"}
  BY Zenon DEF Attempted, SameUse
<1>4. AtMostOne(todo', AStart) /\ AtMostOne(todo', AReset) /\ Before(todo', AReset, AStart)
  BY Zenon DEF AtMostOne, Before, Has
<1>5. AttemptInv'
  BY <1>1, <1>2, <1>3, <1>4, Zenon DEF AttemptInv, Trying, Midway, Waits
<1>6. ChannelInv'
  BY <1>2, <1>4, Zenon DEF ChannelInv, Waits
<1> QED
  BY <1>1, <1>2, <1>5, <1>6, Zenon

\* A retry timer, cancelled or not, keeps the invariant.
LEMMA TimerGood ==
  ASSUME Types, Types', Good, NEW t \in TimerIds, TimerExpires(t)
  PROVE  Good'
<1>1. /\ loop.phase = "dispatch" /\ loop.user = None /\ Timer(t) \in loop.due
      /\ connector.at = "none"
  BY Zenon DEF TimerExpires, Handles, Between, Timer
<1>2. /\ loop'.due = loop.due \ {Timer(t)} /\ loop'.user = None
      /\ loop'.phase = loop.phase /\ loop'.batch = loop.batch
  BY <1>1, LoopEffects, Names, Zenon DEF Types, TimerExpires, Timer
<1>3. /\ connection' = connection /\ connect' = connect /\ conn' = conn /\ pending' = pending
      /\ call' = call /\ connects' = connects /\ stopped' = stopped
  BY Zenon DEF TimerExpires, clientVars, userVars
<1>4. todo' = todo
  BY <1>2, <1>3, TodoSame, Zenon DEF Types, LoopType
<1>5. LoopInv'
  BY <1>1, <1>2, DispatchLoop, Distinct, Zenon
<1>6. connector.channel # "removed" /\ Writable \notin loop.due /\ Failed \notin loop.due
  BY <1>1, Zenon DEF Good, ChannelInv
<1>7. CASE t \notin connector.timers
  <2>1. connector' = connector
    BY <1>7, Zenon DEF TimerExpires
  <2>2. AttemptInv'
    BY <1>3, <1>4, <2>1, Zenon DEF Good, AttemptInv, Trying, Midway, Waits, Starting
  <2>3. ChannelInv'
    BY <1>2, <1>4, <1>6, <2>1, Zenon DEF Good, ChannelInv, Waits
  <2>4. ConnInv'
    BY <1>1, <1>2, <1>3, <1>4, <2>1, Zenon DEF Good, ConnInv, Waits
  <2>5. StopInv'
    BY <1>1, <1>2, <1>3, <1>4, <2>1, Zenon DEF Good, StopInv, Waits
  <2> QED
    BY <1>5, <2>1, <2>2, <2>3, <2>4, <2>5, Zenon DEF Good
<1>8. CASE t \in connector.timers
  <2> DEFINE k == [connector EXCEPT !.timers = @ \ {t}]
  <2>1. /\ connector.state = "kDisconnected" /\ connector.timers = {t} /\ ~Waits(AStart)
        /\ ~Starting /\ connects # 0 /\ connector.channel # "registered"
    BY <1>8, Zenon DEF Good, AttemptInv, Trying, Midway
  <2>2. connector.channel = "none" /\ ~Waits(AReset)
    BY <1>6, <2>1, Zenon DEF Good, ChannelInv, Types, KType
  <2>3. ~connector.destroyed /\ connection = 0
    BY <1>8, <2>1, Zenon DEF Good, StopInv, ConnInv
  <2>4. k \in KType /\ IsFiniteSet(k.timers)
    BY MethodTypes, Zenon DEF Types
  <2>5. /\ k.timers = {} /\ k.state = "kDisconnected" /\ k.channel = "none" /\ k.fault = "none"
        /\ ~k.destroyed /\ k.connect = connector.connect
    BY <2>1, <2>2, <2>3, Zenon DEF Types, KType, Good
  <2>6. connector' = StartInLoop(k)
    BY <1>8, Zenon DEF TimerExpires
  <2> HIDE DEF k
  <2>7. Attempted(k, connector')
    BY <2>4, <2>5, <2>6, StartEffect, Zenon
  <2>8. /\ connector'.fault = "none" /\ AttemptInv' /\ ChannelInv'
        /\ connector'.connect = connector.connect /\ ~connector'.destroyed
        /\ connector'.channel # "removed" /\ connector'.timers = {}
        /\ connector'.at \notin {"restart", "new"}
    <3>1. ~Has(todo', AStart) /\ ~Has(todo', AReset) /\ ~Starting' /\ connects' # 0
      BY <1>3, <1>4, <2>1, <2>2, Zenon DEF Waits, Starting
    <3>2. Writable \notin loop'.due /\ Failed \notin loop'.due
      BY <1>2, <1>6, Zenon
    <3> QED
      BY <2>4, <2>5, <2>7, <3>1, <3>2, AttemptMade, Zenon
  <2>9. ConnInv'
    BY <1>1, <1>2, <1>3, <1>4, <2>3, <2>8, Distinct, ClientAssumption, Zenon DEF Good, ConnInv, Waits
  <2>10. StopInv'
    BY <1>3, <2>1, <2>8, Zenon DEF Good, StopInv
  <2> QED
    BY <1>5, <2>8, <2>9, <2>10, Zenon DEF Good
<1> QED
  BY <1>7, <1>8, Zenon

\* removeConnection keeps the invariant.
LEMMA RemoveGood ==
  ASSUME Types, Types', Good, NEW c \in Conns, RemoveConnection(c)
  PROVE  Good'
<1>1. loop.phase = "dispatch" /\ loop.user = None /\ Closed(c) \in loop.due
  BY Zenon DEF RemoveConnection, Handles, Between, Closed
<1>2. connection = c /\ connection # 0 /\ connector.channel = "none"
  BY <1>1, ClientAssumption, Zenon DEF Good, ConnInv
<1>3. connector.state = "kConnected" /\ conn[c] \in Open /\ ~Waits(Destroyed(c))
  BY <1>2, Zenon DEF Good, ConnInv
<1>4. /\ connection' = 0 /\ pending' = Append(pending, Destroyed(c))
      /\ connect' = connect /\ conn' = conn /\ call' = call /\ connects' = connects
      /\ stopped' = stopped /\ AfterEvent(Closed(c))
      /\ connector' = [connector EXCEPT !.at = IF retry /\ connect THEN "restart" ELSE "none"]
  BY <1>2, Zenon DEF RemoveConnection, Destroyed, Closed, userVars
<1>a. PICK a \in {"none", "restart"} : a = IF retry /\ connect THEN "restart" ELSE "none"
  BY Zenon
<1>5. /\ connector'.channel = connector.channel /\ connector'.state = connector.state
      /\ connector'.connect = connector.connect /\ connector'.timers = connector.timers
      /\ connector'.timerId = connector.timerId /\ connector'.gaveUp = connector.gaveUp
      /\ connector'.destroyed = connector.destroyed /\ connector'.fault = connector.fault
      /\ connector'.at = "none" \/ (connector'.at = "restart" /\ connect)
  <2>1. connector' = [connector EXCEPT !.at = a]
    BY <1>4, <1>a, Zenon
  <2>2. /\ connector'.channel = connector.channel /\ connector'.state = connector.state
        /\ connector'.connect = connector.connect /\ connector'.timers = connector.timers
        /\ connector'.timerId = connector.timerId /\ connector'.gaveUp = connector.gaveUp
        /\ connector'.destroyed = connector.destroyed /\ connector'.fault = connector.fault
        /\ connector'.at = a
    BY <2>1, Zenon DEF Types, KType
  <2> QED
    BY <1>a, <2>2, Zenon
<1>6. /\ loop'.due = loop.due \ {Closed(c)} /\ loop'.user = None
      /\ loop'.phase = loop.phase /\ loop'.batch = loop.batch
  BY <1>1, <1>4, LoopEffects, Names, Zenon DEF Types
<1>7. Pushes(Destroyed(c))
  BY <1>4, <1>6, TodoPush, Names, Zenon DEF Types, LoopType
<1>8. ~connector.destroyed
  BY <1>2, Zenon DEF Good, StopInv
<1>9. LoopInv'
  BY <1>1, <1>6, DispatchLoop, Distinct, Zenon
<1>10. AttemptInv'
  <2>1. (Has(todo', AStart) <=> Has(todo, AStart)) /\ AtMostOne(todo', AStart)
    BY <1>7, Distinct, Zenon DEF Pushes, Good, AttemptInv, Trying, Midway
  <2> QED
    BY <1>3, <1>4, <1>5, <2>1, Zenon DEF Good, AttemptInv, Trying, Midway, Waits, Starting
<1>11. Writable \notin loop.due /\ Failed \notin loop.due
  BY <1>3, Zenon DEF Good, ChannelInv
<1>12. ChannelInv'
  <2>1. /\ Has(todo', AReset) <=> Has(todo, AReset)
        /\ AtMostOne(todo', AReset) /\ Before(todo', AReset, AStart)
    BY <1>7, Distinct, Zenon DEF Pushes, Good, ChannelInv
  <2> QED
    BY <1>2, <1>5, <1>6, <1>11, <2>1, Zenon DEF Good, ChannelInv, Waits
<1>13. ConnInv'
  <2>1. ASSUME NEW d \in Conns
        PROVE  /\ Closed(d) \notin loop'.due
               /\ Has(todo', Destroyed(d)) => conn[d] \in Open
               /\ AtMostOne(todo', Destroyed(d)) /\ Before(todo', Shutdown(d), Destroyed(d))
               /\ Has(todo', Shutdown(d)) => Has(todo', Destroyed(d))
               /\ loop'.user # Up(d) /\ loop'.user # Down(d)
    <3>1. Closed(d) \notin loop'.due
      BY <1>2, <1>6, Zenon DEF Good, ConnInv
    <3>2. Has(todo', Destroyed(d)) => conn[d] \in Open
      BY <1>3, <1>7, Distinct, Zenon DEF Good, ConnInv, Pushes, Waits
    <3>3. AtMostOne(todo', Destroyed(d))
      BY <1>3, <1>7, Distinct, Zenon DEF Good, ConnInv, Pushes, Waits
    <3>4. Before(todo', Shutdown(d), Destroyed(d))
      BY <1>7, Distinct, Zenon DEF Good, ConnInv, Pushes
    <3>5. Has(todo', Shutdown(d)) => Has(todo', Destroyed(d))
      BY <1>2, <1>7, Distinct, Zenon DEF Good, ConnInv, Pushes, Waits
    <3> QED
      BY <1>6, <3>1, <3>2, <3>3, <3>4, <3>5, Distinct, Zenon
  <2> QED
    BY <1>2, <1>3, <1>4, <1>5, <2>1, Zenon DEF ConnInv, Waits
<1>14. StopInv'
  <2>1. \A t : Has(todo', Cancel(t)) => Has(todo, Cancel(t))
    BY <1>7, Distinct, Zenon DEF Pushes
  <2> QED
    BY <1>4, <1>5, <1>8, <2>1, Zenon DEF Good, StopInv, Waits
<1> QED
  BY <1>5, <1>9, <1>10, <1>12, <1>13, <1>14, Zenon DEF Good

\* restart() sets the members of the Connector.
LEMMA RestartGood ==
  ASSUME Types, Types', Good, RestartStores
  PROVE  Good'
<1>1. /\ connector.at = "restart" /\ connector' = Restart(connector)
      /\ connection' = connection /\ connect' = connect /\ conn' = conn /\ pending' = pending
      /\ call' = call /\ connects' = connects /\ stopped' = stopped /\ loop' = loop
      /\ todo' = todo
  BY Zenon DEF RestartStores, Goes, clientVars, userVars, todo
<1>2. /\ connector.state = "kConnected" /\ connection = 0 /\ connector.channel = "none"
      /\ stopped # "yes" /\ ~connector.destroyed
  BY <1>1, Zenon DEF Good, ConnInv, ChannelInv, StopInv
<1>3. connector.timers = {} /\ ~Waits(AStart) /\ ~Starting /\ connects # 0
  BY <1>2, Zenon DEF Good, AttemptInv, Trying
<1>4. Writable \notin loop.due /\ Failed \notin loop.due
  BY <1>2, Zenon DEF Good, ChannelInv
<1>5. /\ connector'.timers = {} /\ connector'.at = "start" /\ connector'.state = "kDisconnected"
      /\ connector'.channel = "none" /\ ~connector'.destroyed /\ connector'.fault = "none"
  BY <1>1, <1>2, <1>3, RestartType, Zenon DEF Types, Good
<1>6. LoopInv'
  BY <1>1, <1>5, Zenon DEF Good, LoopInv
<1>7. AttemptInv'
  BY <1>1, <1>3, <1>5, Zenon DEF Good, AttemptInv, Trying, Midway, Waits, Starting
<1>8. ChannelInv'
  BY <1>1, <1>2, <1>4, <1>5, Zenon DEF Good, ChannelInv, Waits
<1>9. ConnInv'
  <2>1. \A c \in Conns : loop.user # Up(c)
    BY <1>1, Distinct, Zenon DEF Good, LoopInv
  <2> QED
    BY <1>1, <1>2, <1>5, <2>1, ClientAssumption, Zenon DEF Good, ConnInv, Waits
<1>10. StopInv'
  BY <1>1, <1>2, <1>5, Zenon DEF Good, StopInv
<1> QED
  BY <1>5, <1>6, <1>7, <1>8, <1>9, <1>10, Zenon DEF Good

\* restart() calls startInLoop, and startInLoop calls connect().
LEMMA GoesOnGood ==
  ASSUME Types, Types', Good, RestartStarts \/ StartConnects
  PROVE  Good'
<1>1. /\ connector.at \in {"start", "connect"}
      /\ connector' = StartInLoop(connector) \/ connector' \in Connect(connector)
      /\ connection' = connection /\ connect' = connect /\ conn' = conn /\ pending' = pending
      /\ call' = call /\ connects' = connects /\ stopped' = stopped /\ loop' = loop
      /\ todo' = todo
  BY Zenon DEF RestartStarts, StartConnects, Goes, clientVars, userVars, todo
<1>2. /\ connector.state = "kDisconnected" /\ connector.timers = {} /\ ~Waits(AStart) /\ ~Starting
      /\ connects # 0 /\ connector.channel = "none" /\ ~connector.destroyed /\ connection = 0
  BY <1>1, Zenon DEF Good, AttemptInv, Trying, Midway, ChannelInv, StopInv, ConnInv
<1>3. ~Waits(AReset) /\ Writable \notin loop.due /\ Failed \notin loop.due
  BY <1>2, Zenon DEF Good, ChannelInv
<1>4. connector \in KType /\ connector.fault = "none"
  BY Zenon DEF Types, Good
<1>5. Attempted(connector, connector')
  BY <1>1, <1>2, <1>4, StartEffect, ConnectEffect, Zenon
<1>6. /\ connector'.fault = "none" /\ AttemptInv' /\ ChannelInv'
      /\ connector'.connect = connector.connect /\ ~connector'.destroyed
      /\ connector'.channel # "removed" /\ connector'.timers = {}
      /\ connector'.at \notin {"restart", "new"}
  <2>1. ~Has(todo', AStart) /\ ~Has(todo', AReset) /\ ~Starting' /\ connects' # 0
    BY <1>1, <1>2, <1>3, Zenon DEF Waits, Starting
  <2>2. Writable \notin loop'.due /\ Failed \notin loop'.due
    BY <1>1, <1>3, Zenon
  <2> QED
    BY <1>2, <1>4, <1>5, <2>1, <2>2, AttemptMade, Zenon
<1>7. LoopInv'
  BY <1>1, <1>6, Zenon DEF Good, LoopInv
<1>8. ConnInv'
  BY <1>1, <1>2, <1>6, ClientAssumption, Zenon DEF Good, ConnInv, Waits
<1>9. StopInv'
  BY <1>1, <1>2, <1>6, Zenon DEF Good, StopInv
<1> QED
  BY <1>6, <1>7, <1>8, <1>9, Zenon DEF Good

\* retry() starts the timer, whose id no cancel() names.
LEMMA RetryGood ==
  ASSUME Types, Types', Endless, Good, RetryStartsTimer
  PROVE  Good'
<1>1. /\ connector.at = "retry" /\ connector' = RunAfter(connector)
      /\ connection' = connection /\ connect' = connect /\ conn' = conn /\ pending' = pending
      /\ call' = call /\ connects' = connects /\ stopped' = stopped /\ loop' = loop
      /\ todo' = todo
  BY Zenon DEF RetryStartsTimer, Goes, clientVars, userVars, todo
<1>2. PICK t : t = NewTimer(connector)
  BY Zenon
<1>3. t \in TimerIds /\ ~Waits(Cancel(t))
  BY <1>2, FreshTimer, FreshNotCancelled, Zenon DEF Types
<1>4. /\ connector'.channel = connector.channel /\ connector'.state = connector.state
      /\ connector'.connect = connector.connect /\ connector'.timers = connector.timers \cup {t}
      /\ connector'.timerId = t /\ connector'.gaveUp = connector.gaveUp
      /\ connector'.destroyed = connector.destroyed /\ connector'.fault = connector.fault
      /\ connector'.at = "none"
  BY <1>1, <1>2, RunAfterEffect, Zenon DEF Types
<1>5. /\ connector.state = "kDisconnected" /\ connector.timers = {} /\ ~Waits(AStart) /\ ~Starting
      /\ connects # 0 /\ ~connector.destroyed
  BY <1>1, Zenon DEF Good, AttemptInv, Trying, Midway, StopInv
<1>6. connector'.timers = {t}
  BY <1>4, <1>5, Zenon
<1>7. LoopInv'
  BY <1>1, <1>4, Zenon DEF Good, LoopInv
<1>8. AttemptInv'
  <2>1. connector'.timers \subseteq {connector'.timerId} /\ connector'.timers # {}
    BY <1>4, <1>6, Zenon
  <2> QED
    BY <1>1, <1>4, <1>5, <2>1, Zenon DEF Good, AttemptInv, Trying, Midway, Waits, Starting
<1>9. ChannelInv'
  BY <1>1, <1>4, Zenon DEF Good, ChannelInv, Waits
<1>10. ConnInv'
  BY <1>1, <1>4, Zenon DEF Good, ConnInv, Waits
<1>11. StopInv'
  <2>1. \A s \in connector'.timers : ~Has(todo', Cancel(s))
    BY <1>1, <1>3, <1>6, Zenon DEF Waits
  <2> QED
    BY <1>1, <1>4, <1>5, <2>1, Zenon DEF Good, StopInv, Waits
<1> QED
  BY <1>4, <1>7, <1>8, <1>9, <1>10, <1>11, Zenon DEF Good

\* The swap and the end of the batch keep the invariant.
LEMMA SwapGood ==
  ASSUME Types, Types', Good, SwapFunctors \/ EndBatch
  PROVE  Good'
<1>1. /\ connector' = connector /\ connection' = connection /\ connect' = connect /\ conn' = conn
      /\ call' = call /\ connects' = connects /\ stopped' = stopped
  BY Zenon DEF SwapFunctors, EndBatch, clientVars, userVars
<1>2. loop.due = {} /\ loop.user = None /\ connector.at = "none"
  BY Zenon DEF SwapFunctors, EndBatch, Between, Good, LoopInv
<1>3. loop'.due = {} /\ loop'.user = None /\ todo' = todo /\ LoopInv'
  <2>1. CASE SwapFunctors
    <3>1. /\ loop'.phase = "run" /\ loop'.batch = pending /\ loop'.due = loop.due
          /\ loop'.user = loop.user /\ pending' = <<>> /\ loop.phase = "dispatch"
      BY <2>1, LoopPhases, Zenon DEF Types, SwapFunctors
    <3>2. \A f : ~Has(pending', f)
      BY <3>1, SMTT(30) DEF Has
    <3>3. loop.batch = <<>>
      BY <3>1, Zenon DEF Good, LoopInv
    <3>4. todo' = todo
      BY <3>1, <3>3, TodoSame, Zenon DEF Types, LoopType
    <3>5. LoopInv'
      BY <1>1, <1>2, <3>1, <3>2, Distinct, Zenon DEF LoopInv
    <3> QED
      BY <1>2, <3>1, <3>4, <3>5, Zenon
  <2>2. CASE EndBatch
    <3>1. /\ loop'.phase = "poll" /\ loop'.batch = loop.batch /\ loop'.due = loop.due
          /\ loop'.user = loop.user /\ pending' = pending /\ loop.phase = "run" /\ loop.batch = <<>>
      BY <2>2, LoopPhases, Zenon DEF Types, EndBatch
    <3>2. todo' = todo
      BY <3>1, TodoSame, Zenon DEF Types, LoopType
    <3>3. LoopInv'
      BY <1>1, <1>2, <3>1, Distinct, Zenon DEF Good, LoopInv
    <3> QED
      BY <1>2, <3>1, <3>2, <3>3, Zenon
  <2> QED
    BY <2>1, <2>2, Zenon
<1>4. AttemptInv'
  BY <1>1, <1>3, Zenon DEF Good, AttemptInv, Trying, Midway, Waits, Starting
<1>5. ChannelInv'
  BY <1>1, <1>3, Zenon DEF Good, ChannelInv, Waits
<1>6. ConnInv'
  BY <1>1, <1>2, <1>3, Zenon DEF Good, ConnInv, Waits
<1>7. StopInv'
  BY <1>1, <1>2, <1>3, Zenon DEF Good, StopInv, Waits
<1> QED
  BY <1>1, <1>3, <1>4, <1>5, <1>6, <1>7, Zenon DEF Good
-----------------------------------------------------------------------------
(* The functors keep the invariant. *)

\* What every functor finds and leaves.
LEMMA FunctorCalled ==
  ASSUME Types, Good, NEW op, Calls(op), NEW u \in UserType, AfterFunctor(u), pending' = pending
  PROVE  /\ loop.phase = "run" /\ loop.user = None /\ loop.due = {}
         /\ loop'.phase = "run" /\ loop'.user = u /\ loop'.due = {}
         /\ Head(loop.batch) \in Functor /\ Head(loop.batch).op = op
         /\ Pops(Head(loop.batch)) /\ connector.at = "none"
         /\ (u = None \/ \E c \in Conns : u = Down(c)) /\ connector'.at \notin {"restart", "new"} => LoopInv'
<1>1. /\ loop.phase = "run" /\ loop.user = None /\ loop.batch # <<>> /\ loop.batch \in Seq(Functor)
      /\ Head(loop.batch).op = op /\ connector.at = "none"
  BY Zenon DEF Calls, Between, Types, LoopType
<1>2. /\ loop'.due = loop.due /\ loop'.user = u /\ loop'.phase = loop.phase
      /\ loop'.batch = Tail(loop.batch)
  BY <1>1, LoopEffects, Zenon DEF Types
<1>3. Head(loop.batch) \in Functor
  BY <1>1, SMTT(30)
<1>4. Pops(Head(loop.batch))
  BY <1>1, <1>2, TodoPop, Zenon DEF Types
<1>5. loop.due = {}
  BY <1>1, Zenon DEF Good, LoopInv
<1>6. (u = None \/ \E c \in Conns : u = Down(c)) /\ connector'.at \notin {"restart", "new"} => LoopInv'
  BY <1>1, <1>2, <1>5, Distinct, Zenon DEF Good, LoopInv
<1> QED
  BY <1>1, <1>2, <1>3, <1>4, <1>5, <1>6, Zenon

\* startInLoop, run as a functor.
LEMMA StartGood ==
  ASSUME Types, Types', Good, StartFunctor
  PROVE  Good'
<1>1. /\ connection' = connection /\ connect' = connect /\ conn' = conn /\ pending' = pending
      /\ call' = call /\ connects' = connects /\ stopped' = stopped
  BY Zenon DEF StartFunctor, clientVars, userVars
<1>2. /\ loop'.user = None /\ loop'.due = {} /\ Head(loop.batch) = AStart
      /\ Pops(AStart) /\ (connector'.at \notin {"restart", "new"} => LoopInv')
  BY <1>1, FunctorCalled, Names, Kinds, Zenon DEF StartFunctor
<1>3. Waits(AStart) /\ ~Has(todo', AStart) /\ ~Waits(AReset)
  BY <1>2, Distinct, Zenon DEF Pops, Waits, Good, AttemptInv, Trying, Midway, ChannelInv
<1>4. /\ connector.state = "kDisconnected" /\ connector.timers = {} /\ ~Starting /\ connects # 0
      /\ connector.channel # "registered"
  BY <1>3, Zenon DEF Good, AttemptInv, Trying, Midway
<1>5. connector.channel = "none" /\ ~connector.destroyed /\ connection = 0
  BY <1>3, <1>4, Zenon DEF Good, ChannelInv, StopInv, ConnInv, Types, KType
<1>6. Attempted(connector, connector')
  BY <1>4, <1>5, StartEffect, Zenon DEF StartFunctor, Types, Good
<1>7. /\ connector'.fault = "none" /\ AttemptInv' /\ ChannelInv' /\ ~connector'.destroyed
      /\ connector'.connect = connector.connect
      /\ connector'.channel # "removed" /\ connector'.timers = {}
      /\ connector'.at \notin {"restart", "new"}
  <2>1. ~Has(todo', AReset) /\ ~Starting' /\ connects' # 0
    BY <1>1, <1>2, <1>3, <1>4, Zenon DEF Pops, Waits, Starting
  <2>2. Writable \notin loop'.due /\ Failed \notin loop'.due
    BY <1>2, Zenon
  <2>3. connector \in KType /\ connector.fault = "none"
    BY Zenon DEF Types, Good
  <2> QED
    BY <1>3, <1>4, <1>5, <1>6, <2>1, <2>2, <2>3, AttemptMade, Zenon
<1>8. ConnInv'
  <2>1. ASSUME NEW c \in Conns
        PROVE  /\ Has(todo', Destroyed(c)) <=> Waits(Destroyed(c))
               /\ Has(todo', Shutdown(c)) => Waits(Shutdown(c))
               /\ AtMostOne(todo', Destroyed(c)) /\ Before(todo', Shutdown(c), Destroyed(c))
    BY <1>2, Distinct, Zenon DEF Pops, Waits, Good, ConnInv
  <2> QED
    BY <1>1, <1>2, <1>5, <1>7, <2>1, Distinct, ClientAssumption, Zenon DEF Good, ConnInv, Waits
<1>9. StopInv'
  BY <1>1, <1>4, <1>7, Zenon DEF Good, StopInv
<1>10. LoopInv'
  BY <1>2, <1>7, Zenon
<1> QED
  BY <1>7, <1>8, <1>9, <1>10, Zenon DEF Good

\* resetChannel.
LEMMA ResetGood ==
  ASSUME Types, Types', Good, ResetFunctor
  PROVE  Good'
<1>1. /\ connection' = connection /\ connect' = connect /\ conn' = conn /\ pending' = pending
      /\ call' = call /\ connects' = connects /\ stopped' = stopped
  BY Zenon DEF ResetFunctor, clientVars, userVars
<1>2. /\ loop'.user = None /\ loop'.due = {} /\ Head(loop.batch) = AReset
      /\ Pops(AReset) /\ connector.at = "none"
      /\ connector'.at \notin {"restart", "new"} => LoopInv'
  BY <1>1, FunctorCalled, Names, Kinds, Zenon DEF ResetFunctor
<1>3. Waits(AReset) /\ ~Has(todo', AReset) /\ connector.channel = "removed"
  BY <1>2, Zenon DEF Pops, Waits, Good, ChannelInv
<1>4. connector' = [connector EXCEPT !.channel = "none"]
  BY <1>3, Zenon DEF ResetFunctor, ResetChannel
<1>5. /\ connector'.channel = "none" /\ connector'.state = connector.state
      /\ connector'.connect = connector.connect /\ connector'.timers = connector.timers
      /\ connector'.timerId = connector.timerId /\ connector'.gaveUp = connector.gaveUp
      /\ connector'.destroyed = connector.destroyed /\ connector'.fault = connector.fault
      /\ connector'.at = connector.at
  BY <1>4, Zenon DEF Types, KType
<1>6. ~connector.destroyed /\ \A c \in Conns : ~Waits(Destroyed(c))
  BY <1>3, Zenon DEF Good, StopInv, ConnInv
<1>7. AttemptInv'
  <2>1. (Has(todo', AStart) <=> Waits(AStart)) /\ AtMostOne(todo', AStart)
    BY <1>2, Distinct, Zenon DEF Pops, Waits, Good, AttemptInv, Trying, Midway
  <2> QED
    BY <1>1, <1>3, <1>5, <2>1, Zenon DEF Good, AttemptInv, Trying, Midway, Waits, Starting
<1>8. ChannelInv'
  <2>1. AtMostOne(todo', AReset) /\ Before(todo', AReset, AStart)
    BY <1>2, Zenon DEF Pops, Good, ChannelInv
  <2> QED
    BY <1>2, <1>3, <1>5, <2>1, Zenon DEF ChannelInv, Waits
<1>9. ConnInv'
  <2>1. ASSUME NEW c \in Conns
        PROVE  /\ ~Has(todo', Destroyed(c))
               /\ Has(todo', Shutdown(c)) => Waits(Shutdown(c))
               /\ AtMostOne(todo', Destroyed(c)) /\ Before(todo', Shutdown(c), Destroyed(c))
    BY <1>2, <1>6, Zenon DEF Pops, Waits, Good, ConnInv
  <2>2. connection # 0 => connection \in Conns
    BY Zenon DEF Types
  <2> QED
    BY <1>1, <1>2, <1>5, <1>6, <2>1, <2>2, Distinct, Zenon DEF Good, ConnInv, Waits
<1>10. StopInv'
  <2>1. \A t : Has(todo', Cancel(t)) => Waits(Cancel(t))
    BY <1>2, Zenon DEF Pops, Waits
  <2> QED
    BY <1>1, <1>2, <1>5, <1>6, <2>1, Distinct, Zenon DEF Good, StopInv, Waits
<1>11. LoopInv'
  BY <1>2, <1>5, Zenon
<1> QED
  BY <1>5, <1>7, <1>8, <1>9, <1>10, <1>11, Zenon DEF Good

\* cancel() of stop() in another thread.
LEMMA CancelGood ==
  ASSUME Types, Types', Good, CancelFunctor
  PROVE  Good'
<1>1. /\ connection' = connection /\ connect' = connect /\ conn' = conn /\ pending' = pending
      /\ call' = call /\ connects' = connects /\ stopped' = stopped
  BY Zenon DEF CancelFunctor, clientVars, userVars
<1>2. PICK s : s = Head(loop.batch).t
  BY Zenon
<1>3. /\ loop'.user = None /\ loop'.due = {} /\ Head(loop.batch) = Cancel(s)
      /\ Pops(Cancel(s)) /\ connector.at = "none"
      /\ connector'.at \notin {"restart", "new"} => LoopInv'
  BY <1>1, <1>2, FunctorCalled, Names, Kinds, Zenon DEF CancelFunctor
<1>4. connector' = [connector EXCEPT !.timers = @ \ {s}]
  BY <1>2, Zenon DEF CancelFunctor
<1>5. /\ connector'.channel = connector.channel /\ connector'.state = connector.state
      /\ connector'.connect = connector.connect /\ connector'.timers = connector.timers \ {s}
      /\ connector'.timerId = connector.timerId /\ connector'.gaveUp = connector.gaveUp
      /\ connector'.destroyed = connector.destroyed /\ connector'.fault = connector.fault
      /\ connector'.at = connector.at
  BY <1>4, Zenon DEF Types, KType
<1>6. connector.timers = {} \/ connector'.timers # {} \/ ~connect
  <2>1. SUFFICES ASSUME NEW t \in connector.timers, connector'.timers = {} PROVE ~connect
    BY Zenon
  <2>2. t = s /\ Waits(Cancel(s))
    BY <1>3, <1>5, <2>1, Zenon DEF Pops, Waits
  <2> QED
    BY <2>2, Zenon DEF Good, StopInv
<1>7. AttemptInv'
  <2>1. (Has(todo', AStart) <=> Waits(AStart)) /\ AtMostOne(todo', AStart)
    BY <1>3, Distinct, Zenon DEF Pops, Waits, Good, AttemptInv, Trying, Midway
  <2>2. connector'.timers # {} => connector.timers # {}
    BY <1>5, Zenon
  <2>3. connector'.timers \subseteq {connector'.timerId}
    BY <1>5, Zenon DEF Good, AttemptInv, Trying, Midway
  <2> QED
    BY <1>1, <1>5, <1>6, <2>1, <2>2, <2>3, Zenon DEF Good, AttemptInv, Trying, Midway, Waits, Starting
<1>8. ChannelInv'
  <2>1. /\ Has(todo', AReset) <=> Waits(AReset)
        /\ AtMostOne(todo', AReset) /\ Before(todo', AReset, AStart)
    BY <1>3, Distinct, Zenon DEF Pops, Waits, Good, ChannelInv
  <2> QED
    BY <1>3, <1>5, <2>1, Zenon DEF Good, ChannelInv, Waits
<1>9. ConnInv'
  <2>1. ASSUME NEW c \in Conns
        PROVE  /\ Has(todo', Destroyed(c)) <=> Waits(Destroyed(c))
               /\ Has(todo', Shutdown(c)) => Waits(Shutdown(c))
               /\ AtMostOne(todo', Destroyed(c)) /\ Before(todo', Shutdown(c), Destroyed(c))
    BY <1>3, Distinct, Zenon DEF Pops, Waits, Good, ConnInv
  <2>2. connection # 0 => connection \in Conns
    BY Zenon DEF Types
  <2> QED
    BY <1>1, <1>3, <1>5, <2>1, <2>2, Distinct, Zenon DEF Good, ConnInv, Waits
<1>10. StopInv'
  <2>1. \A t : Has(todo', Cancel(t)) => Waits(Cancel(t))
    BY <1>3, Zenon DEF Pops, Waits
  <2>2. Has(todo', AStart) => Waits(AStart)
    BY <1>3, Zenon DEF Pops, Waits
  <2> QED
    BY <1>1, <1>3, <1>5, <2>1, <2>2, Distinct, Zenon DEF Good, StopInv, Waits
<1>11. LoopInv'
  BY <1>3, <1>5, Zenon
<1> QED
  BY <1>5, <1>7, <1>8, <1>9, <1>10, <1>11, Zenon DEF Good

\* shutdownInLoop finds its connection.
LEMMA ShutdownGood ==
  ASSUME Types, Types', Good, ShutdownFunctor
  PROVE  Good'
<1>1. /\ connection' = connection /\ connect' = connect /\ conn' = conn /\ pending' = pending
      /\ call' = call /\ connects' = connects /\ stopped' = stopped
  BY Zenon DEF ShutdownFunctor, clientVars, userVars
<1>2. /\ loop'.user = None /\ loop'.due = {} /\ Pops(Head(loop.batch))
      /\ Head(loop.batch) \in Functor /\ Head(loop.batch).op = "shutdown"
      /\ connector.at = "none" /\ (connector'.at \notin {"restart", "new"} => LoopInv')
  BY <1>1, FunctorCalled, Names, Zenon DEF ShutdownFunctor
<1>3. PICK c \in Conns : c = Head(loop.batch).c /\ Head(loop.batch) = Shutdown(c)
  BY <1>2, Kinds, Zenon
<1>4. Pops(Shutdown(c)) /\ Waits(Shutdown(c))
  BY <1>2, <1>3, Zenon DEF Pops, Waits
<1>5. conn[c] # "none"
  BY <1>4, ClientAssumption, Zenon DEF Good, ConnInv, Open
<1>6. connector' = connector
  BY <1>3, <1>5, Zenon DEF ShutdownFunctor
<1>7. AttemptInv'
  <2>1. (Has(todo', AStart) <=> Waits(AStart)) /\ AtMostOne(todo', AStart)
    BY <1>4, Distinct, Zenon DEF Pops, Waits, Good, AttemptInv, Trying, Midway
  <2> QED
    BY <1>1, <1>6, <2>1, Zenon DEF Good, AttemptInv, Trying, Midway, Waits, Starting
<1>8. ChannelInv'
  <2>1. /\ Has(todo', AReset) <=> Waits(AReset)
        /\ AtMostOne(todo', AReset) /\ Before(todo', AReset, AStart)
    BY <1>4, Distinct, Zenon DEF Pops, Waits, Good, ChannelInv
  <2> QED
    BY <1>2, <1>6, <2>1, Zenon DEF Good, ChannelInv, Waits
<1>9. ConnInv'
  <2>1. ASSUME NEW d \in Conns
        PROVE  /\ Has(todo', Destroyed(d)) <=> Waits(Destroyed(d))
               /\ Has(todo', Shutdown(d)) => Waits(Shutdown(d))
               /\ AtMostOne(todo', Destroyed(d)) /\ Before(todo', Shutdown(d), Destroyed(d))
    BY <1>4, Distinct, Zenon DEF Pops, Waits, Good, ConnInv
  <2>2. connection # 0 => connection \in Conns
    BY Zenon DEF Types
  <2> QED
    BY <1>1, <1>2, <1>6, <2>1, <2>2, Distinct, Zenon DEF Good, ConnInv, Waits
<1>10. StopInv'
  <2>1. \A f : Has(todo', f) => Waits(f)
    BY <1>4, Zenon DEF Pops, Waits
  <2> QED
    BY <1>1, <1>2, <1>6, <2>1, Distinct, Zenon DEF Good, StopInv, Waits
<1>11. LoopInv'
  BY <1>2, <1>6, Zenon
<1> QED
  BY <1>6, <1>7, <1>8, <1>9, <1>10, <1>11, Zenon DEF Good

\* connectDestroyed finds the connection open, and no shutdown behind it.
LEMMA DestroyedGood ==
  ASSUME Types, Types', Good, ConnectDestroyed
  PROVE  Good'
<1>1. /\ connection' = connection /\ connect' = connect /\ pending' = pending
      /\ call' = call /\ connects' = connects /\ stopped' = stopped
  BY Zenon DEF ConnectDestroyed, clientVars, userVars
<1>2. PICK u \in UserType : AfterFunctor(u) /\ Calls("destroyed")
  <2>1. Head(loop.batch) \in Functor /\ Head(loop.batch).op = "destroyed"
    BY SMTT(30) DEF ConnectDestroyed, Calls, Types, LoopType
  <2>2. PICK c \in Conns : c = Head(loop.batch).c
    BY <2>1, Kinds, Zenon
  <2> QED
    BY <2>2, Names, Zenon DEF ConnectDestroyed, Down
<1>3. /\ loop'.user = u /\ loop'.due = {} /\ Pops(Head(loop.batch))
      /\ Head(loop.batch) \in Functor /\ Head(loop.batch).op = "destroyed"
      /\ connector.at = "none"
      /\ (u = None \/ \E d \in Conns : u = Down(d)) /\ connector'.at \notin {"restart", "new"} => LoopInv'
  BY <1>1, <1>2, FunctorCalled, Zenon
<1>4. PICK c \in Conns : c = Head(loop.batch).c /\ Head(loop.batch) = Destroyed(c)
  BY <1>3, Kinds, Zenon
<1>5. Pops(Destroyed(c)) /\ Waits(Destroyed(c))
  BY <1>3, <1>4, Zenon DEF Pops, Waits
<1>6. conn[c] \in Open /\ connector.channel # "removed" /\ connection # c
  BY <1>5, ClientAssumption, Zenon DEF Good, ConnInv
<1>7. connector' = connector /\ conn' = [conn EXCEPT ![c] = "kDisconnected"] /\ AfterFunctor(Down(c))
  BY <1>4, <1>6, Zenon DEF ConnectDestroyed, Open, Down
<1>8. loop'.user = Down(c) /\ LoopInv'
  <2>1. loop'.user = Down(c)
    BY <1>2, <1>7, LoopEffects, Names, Zenon DEF Types, Calls
  <2> QED
    BY <1>3, <1>7, <2>1, Zenon
<1>9. /\ conn'[c] = "kDisconnected" /\ \A d \in Conns : d # c => conn'[d] = conn[d]
  BY <1>7, Zenon DEF Types, ConnType
<1>10. AttemptInv'
  <2>1. (Has(todo', AStart) <=> Waits(AStart)) /\ AtMostOne(todo', AStart)
    BY <1>5, Distinct, Zenon DEF Pops, Waits, Good, AttemptInv, Trying, Midway
  <2> QED
    BY <1>1, <1>7, <2>1, Zenon DEF Good, AttemptInv, Trying, Midway, Waits, Starting
<1>11. ChannelInv'
  <2>1. /\ Has(todo', AReset) <=> Waits(AReset)
        /\ AtMostOne(todo', AReset) /\ Before(todo', AReset, AStart)
    BY <1>5, Distinct, Zenon DEF Pops, Waits, Good, ChannelInv
  <2> QED
    BY <1>3, <1>7, <2>1, Zenon DEF Good, ChannelInv, Waits
<1>12. ConnInv'
  <2>1. ~Has(todo', Destroyed(c)) /\ ~Has(todo', Shutdown(c))
    BY <1>5, Distinct, Zenon DEF Pops, Waits, Good, ConnInv
  <2>2. ASSUME NEW d \in Conns
        PROVE  /\ Has(todo', Destroyed(d)) <=> Waits(Destroyed(d)) /\ d # c
               /\ Has(todo', Shutdown(d)) => Waits(Shutdown(d)) /\ d # c
               /\ AtMostOne(todo', Destroyed(d)) /\ Before(todo', Shutdown(d), Destroyed(d))
    BY <1>5, <2>1, Distinct, Zenon DEF Pops, Waits, Good, ConnInv
  <2>3. connection # 0 => connection \in Conns /\ conn'[connection] = conn[connection]
    BY <1>6, <1>9, Zenon DEF Types
  <2>4. connection' # 0 =>
          /\ connector'.state = "kConnected" /\ conn'[connection'] \in Open
          /\ ~Has(todo', Destroyed(connection'))
    BY <1>1, <1>7, <2>2, <2>3, Zenon DEF Good, ConnInv
  <2>5. ASSUME NEW d \in Conns
        PROVE  /\ Has(todo', Destroyed(d)) => conn'[d] \in Open /\ connector'.channel # "removed"
               /\ Has(todo', Shutdown(d)) => connection' = d \/ Has(todo', Destroyed(d))
               /\ loop'.user # Up(d)
               /\ loop'.user = Down(d) => conn'[d] = "kDisconnected" /\ connector'.channel # "removed"
    BY <1>1, <1>6, <1>7, <1>8, <1>9, <2>2, Distinct, Zenon DEF Good, ConnInv
  <2> QED
    <3>1. connector'.at \notin {"restart", "new"}
      BY <1>3, <1>7
    <3> QED
      BY <1>3, <2>2, <2>4, <2>5, <3>1, Zenon DEF ConnInv, Waits
<1>13. StopInv'
  <2>1. \A f : Has(todo', f) => Waits(f)
    BY <1>5, Zenon DEF Pops, Waits
  <2> QED
    BY <1>1, <1>7, <1>8, <2>1, Distinct, Zenon DEF Good, StopInv, Waits
<1> QED
  BY <1>7, <1>8, <1>10, <1>11, <1>12, <1>13, Zenon DEF Good

\* The callback of the user returns.
LEMMA ReturnsGood ==
  ASSUME Types, Types', Good, CallbackReturns
  PROVE  Good'
<1>1. /\ connection' = connection /\ connect' = connect /\ pending' = pending
      /\ call' = call /\ connects' = connects /\ stopped' = stopped /\ connector' = connector
  BY Zenon DEF CallbackReturns, clientVars, userVars
<1>2. /\ loop'.due = loop.due /\ loop'.user = None
      /\ loop'.phase = loop.phase /\ loop'.batch = loop.batch
  BY LoopEffects, Names, Zenon DEF Types, CallbackReturns
<1>3. todo' = todo
  BY <1>1, <1>2, TodoSame, Zenon DEF Types, LoopType
<1>4. LoopInv'
  BY <1>1, <1>2, Distinct, Zenon DEF Good, LoopInv
<1>5. PICK c \in Conns : (loop.user = Up(c) /\ conn' = conn) \/
                         (loop.user = Down(c) /\ conn' = [conn EXCEPT ![c] = "none"])
  <2>1. loop.user \in UserType /\ loop.user # None
    BY Zenon DEF Types, LoopType, CallbackReturns, InCallback
  <2>2. PICK c \in Conns : loop.user = Up(c) \/ loop.user = Down(c)
    BY <2>1, SMTT(30) DEF UserType, Up, Down
  <2>3. Up(c).op = "up" /\ Down(c).op = "down" /\ Down(c).c = c
    BY Zenon DEF Up, Down
  <2>4. conn' = IF loop.user.op = "down" THEN [conn EXCEPT ![loop.user.c] = "none"] ELSE conn
    BY Zenon DEF CallbackReturns
  <2>5. CASE loop.user = Up(c)
    BY <2>3, <2>4, <2>5, Zenon
  <2>6. CASE loop.user = Down(c)
    BY <2>3, <2>4, <2>6, Zenon
  <2> QED
    BY <2>2, <2>5, <2>6, Zenon
<1>6. AttemptInv'
  BY <1>1, <1>3, Zenon DEF Good, AttemptInv, Trying, Midway, Waits, Starting
<1>7. ChannelInv'
  BY <1>1, <1>2, <1>3, Zenon DEF Good, ChannelInv, Waits
<1>8. ASSUME NEW d \in Conns, conn[d] \in Open PROVE conn'[d] \in Open
  <2>1. loop.user = Down(c) => conn[c] = "kDisconnected"
    BY Zenon DEF Good, ConnInv
  <2> QED
    BY <1>5, <1>8, <2>1, Zenon DEF Types, ConnType, Open
<1>9. ConnInv'
  <2>1. connection # 0 => connection \in Conns
    BY Zenon DEF Types
  <2> QED
    BY <1>1, <1>2, <1>3, <1>8, <2>1, Distinct, Zenon DEF Good, ConnInv, Waits
<1>10. StopInv'
  BY <1>1, <1>2, <1>3, Distinct, Zenon DEF Good, StopInv, Waits
<1> QED
  BY <1>1, <1>4, <1>6, <1>7, <1>9, <1>10, Zenon DEF Good
-----------------------------------------------------------------------------
(* The calls of the user keep the invariant. *)

\* What an idle client is.
LEMMA IdleMeans ==
  ASSUME Types, ~Busy
  PROVE  /\ connector.timers = {} /\ ~Waits(AStart) /\ ~Starting /\ call = "none"
         /\ connector.channel # "registered" /\ ~Midway
         /\ connector.state = "kDisconnected"
<1>1. Attempts = {} /\ connector.state = "kDisconnected" /\ call = "none"
  BY Zenon DEF Busy
<1>2. connector.timers = {}
  <2>1. \A t \in connector.timers : Timer(t) \in Attempts
    BY Zenon DEF Attempts, Timer
  <2> QED
    BY <1>1, <2>1, Zenon
<1>3. ~Waits(AStart)
  <2>1. AStart \in Range(pending) \cup Range(loop.batch) => AStart \in Attempts
    BY Zenon DEF Attempts, AStart
  <2> QED
    BY <1>1, <2>1, WaitsRange, Zenon
<1>4. connector.channel # "registered"
  <2>1. connector.channel = "registered" => [op |-> "registered"] \in Attempts
    BY Zenon DEF Attempts
  <2> QED
    BY <1>1, <2>1, Zenon
<1>5. ~Midway
  <2>1. Midway => [op |-> "method"] \in Attempts
    BY Zenon DEF Attempts, Midway
  <2> QED
    BY <1>1, <2>1, Zenon
<1> QED
  BY <1>1, <1>2, <1>3, <1>4, <1>5, Zenon DEF Starting

\* The callback of the user is that of a new connection or of one that is gone.
LEMMA CallbackMeans ==
  ASSUME Types, InCallback
  PROVE  \E c \in Conns : loop.user = Up(c) \/ loop.user = Down(c)
<1>1. loop.user \in UserType /\ loop.user # None
  BY Zenon DEF Types, LoopType, InCallback
<1> QED
  BY <1>1, SMTT(30) DEF UserType, Up, Down

\* connect() on an idle client, in the loop's thread.
LEMMA OwnerConnectGood ==
  ASSUME Types, Types', Good, ~connector'.busy, ~connector.destroyed, OwnerConnect
  PROVE  Good'
<1>1. /\ connection' = connection /\ connect' = TRUE /\ conn' = conn /\ pending' = pending
      /\ call' = call /\ connects' = connects + 1 /\ stopped' = "no" /\ loop' = loop
  BY Zenon DEF OwnerConnect
<1>2. todo' = todo
  BY <1>1, Zenon DEF todo
<1>4. PICK b \in BOOLEAN : b = (connector.busy \/ Busy)
  BY Zenon
<1> DEFINE k == [connector EXCEPT !.connect = TRUE, !.busy = b]
<1>5. connector' = StartInLoop(k)
  BY <1>4, Zenon DEF OwnerConnect
<1>6. /\ k \in KType /\ IsFiniteSet(k.timers) /\ k.timers = connector.timers /\ k.busy = b
      /\ k.state = connector.state /\ k.channel = connector.channel /\ k.fault = connector.fault
      /\ k.destroyed = connector.destroyed
  BY Zenon DEF Types, KType
<1> HIDE DEF k
<1>7. ~Busy
  BY <1>4, <1>5, <1>6, StartEffect, Zenon
<1>8. connector.channel = "none" /\ ~Waits(AReset) /\ connection = 0 /\ \A c \in Conns : loop.user # Up(c)
  <2>1. connector.state = "kDisconnected" /\ connector.channel # "registered"
    BY <1>7, IdleMeans, Zenon
  <2>2. connection = 0 /\ \A c \in Conns : loop.user # Up(c)
    BY <2>1, Zenon DEF Good, ConnInv
  <2>3. connector.channel # "removed"
    <3>1. CASE connects = 0
      BY <3>1, Zenon DEF Good, AttemptInv, Trying, Midway
    <3>2. CASE InCallback
      BY <2>2, <3>2, CallbackMeans, Zenon DEF Good, ConnInv
    <3> QED
      BY <3>1, <3>2, Zenon DEF OwnerConnect
  <2> QED
    BY <2>1, <2>2, <2>3, Zenon DEF Good, ChannelInv, Types, KType
<1>9. Writable \notin loop.due /\ Failed \notin loop.due
  BY <1>7, IdleMeans, Zenon DEF Good, ChannelInv
<1>10. k.state = "kDisconnected" /\ k.channel = "none" /\ k.fault = "none" /\ k.timers = {} /\ ~k.destroyed
  BY <1>6, <1>7, <1>8, IdleMeans, Zenon DEF Good
<1>11. Attempted(k, connector')
  BY <1>5, <1>6, <1>10, StartEffect, Zenon
<1>12. /\ connector'.fault = "none" /\ AttemptInv' /\ ChannelInv' /\ ~connector'.destroyed
       /\ connector'.channel # "removed" /\ connector'.timers = {}
       /\ connector'.at \notin {"restart", "new"}
  <2>1. ~Has(todo', AStart) /\ ~Has(todo', AReset) /\ ~Starting'
    BY <1>1, <1>2, <1>7, <1>8, IdleMeans, Zenon DEF Waits, Starting
  <2>2. connects' # 0
    BY <1>1, SMTT(30) DEF Types
  <2>3. Writable \notin loop'.due /\ Failed \notin loop'.due
    BY <1>1, <1>9, Zenon
  <2> QED
    BY <1>6, <1>10, <1>11, <2>1, <2>2, <2>3, AttemptMade, Zenon
<1>13. ConnInv'
  BY <1>1, <1>2, <1>7, <1>8, <1>12, IdleMeans, ClientAssumption, Zenon DEF Good, ConnInv, Waits
<1>14. StopInv'
  BY <1>1, <1>7, <1>12, IdleMeans, Zenon DEF StopInv
<1>15. LoopInv'
  BY <1>1, <1>12, Zenon DEF Good, LoopInv
<1> QED
  BY <1>12, <1>13, <1>14, <1>15, Zenon DEF Good

\* disconnect() and stop() in the loop's thread.
LEMMA OwnerStopGood ==
  ASSUME Types, Types', Good, ~connector.destroyed, OwnerDisconnect \/ OwnerStop
  PROVE  Good'
<1>1. /\ connection' = connection /\ connect' = FALSE /\ pending' = pending
      /\ call' = call /\ connects' = connects /\ loop' = loop /\ InCallback
  BY Zenon DEF OwnerDisconnect, OwnerStop, userVars
<1>2. todo' = todo
  BY <1>1, Zenon DEF todo
<1>3. connector.at = "none"
  BY <1>1, Zenon DEF InCallback
<1>5. /\ connector'.channel = connector.channel /\ connector'.state = connector.state
      /\ connector'.timerId = connector.timerId /\ connector'.fault = connector.fault
      /\ connector'.destroyed = connector.destroyed /\ connector'.at = connector.at
      /\ connector'.timers \subseteq connector.timers
      /\ \/ connector'.connect = connector.connect /\ stopped' = stopped
         \/ ~connector'.connect
  BY Zenon DEF OwnerDisconnect, OwnerStop, Stop, Types, KType, userVars
<1>6. \A d \in Conns : /\ conn[d] \in Open => conn'[d] \in Open
                       /\ conn[d] = "kDisconnected" => conn'[d] = "kDisconnected"
  <2>1. CASE OwnerStop
    BY <2>1, Zenon DEF OwnerStop
  <2>2. CASE OwnerDisconnect
    BY <2>2, Zenon DEF OwnerDisconnect, ShutdownConnection, Types, ConnType, Open
  <2> QED
    BY <2>1, <2>2, Zenon
<1>7. AttemptInv'
  <2>1. connector'.timers # {} => connector.timers # {}
    BY <1>5, Zenon
  <2>2. connector'.timers \subseteq {connector'.timerId}
    BY <1>5, Zenon DEF Good, AttemptInv, Trying, Midway
  <2> QED
    BY <1>1, <1>2, <1>5, <2>1, <2>2, Zenon DEF Good, AttemptInv, Trying, Midway, Waits, Starting
<1>8. ChannelInv'
  BY <1>1, <1>2, <1>5, Zenon DEF Good, ChannelInv, Waits
<1>9. ConnInv'
  <2>1. connection # 0 => connection \in Conns
    BY Zenon DEF Types
  <2> QED
    BY <1>1, <1>2, <1>5, <1>6, <2>1, Zenon DEF Good, ConnInv, Waits
<1>10. StopInv'
  BY <1>1, <1>2, <1>3, <1>5, SMTT(30) DEF Good, StopInv, Waits
<1>11. LoopInv'
  BY <1>1, <1>3, <1>5, Zenon DEF Good, LoopInv
<1> QED
  BY <1>5, <1>7, <1>8, <1>9, <1>10, <1>11, Zenon DEF Good

\* The destructor of an idle client.
LEMMA DestroyGood ==
  ASSUME Types, Types', Good, ~connector'.busy, Destroy
  PROVE  Good'
<1>1. /\ connection' = 0 /\ connect' = connect /\ pending' = pending /\ call' = call /\ call = "none"
      /\ connects' = connects /\ stopped' = stopped /\ loop' = loop /\ loop.user = None
      /\ connector.at = "none"
  BY Zenon DEF Destroy, Between, userVars
<1>2. todo' = todo
  BY <1>1, Zenon DEF todo
<1>4. PICK b \in BOOLEAN : b = (\/ Stop(connector).busy \/ connection # 0 \/ connector.channel # "none"
                                \/ [op |-> "start"] \in Range(pending) \cup Range(loop.batch))
  BY Zenon
<1> DEFINE k == [Stop(connector) EXCEPT !.destroyed = TRUE, !.busy = b]
<1>5. connector' = IF k.channel = "none" THEN k ELSE Fail(k, "channel")
  BY <1>4, Zenon DEF Destroy
<1>6. /\ k \in KType /\ k.busy = b /\ k.channel = connector.channel /\ k.state = connector.state
      /\ k.fault = connector.fault /\ ~k.connect /\ k.timerId = connector.timerId /\ k.destroyed
      /\ k.timers = connector.timers \ {connector.timerId} /\ k.at = connector.at
  BY Zenon DEF Types, KType, Stop
<1> HIDE DEF k
<1>7. ~b
  BY <1>5, <1>6, Zenon DEF KType, Fail
<1>8. connection = 0 /\ connector.channel = "none" /\ ~Waits(AStart)
  BY <1>4, <1>7, WaitsRange, Zenon DEF AStart
<1>9. connector' = k
  BY <1>5, <1>6, <1>8, Zenon
<1>10. connector'.timers = {}
  BY <1>6, <1>9, Zenon DEF Good, AttemptInv, Trying, Midway
<1>11. \A d \in Conns : conn'[d] = conn[d]
  BY <1>8, ClientAssumption, Zenon DEF Destroy
<1>12. AttemptInv'
  BY <1>1, <1>2, <1>6, <1>8, <1>9, <1>10, Zenon DEF Good, AttemptInv, Trying, Midway, Waits, Starting
<1>13. ChannelInv'
  BY <1>1, <1>2, <1>6, <1>9, Zenon DEF Good, ChannelInv, Waits
<1>14. ConnInv'
  BY <1>1, <1>2, <1>6, <1>8, <1>9, <1>11, Distinct, ClientAssumption, Zenon DEF Good, ConnInv, Waits
<1>15. StopInv'
  BY <1>1, <1>2, <1>6, <1>8, <1>9, <1>10, Distinct, Zenon DEF Good, StopInv, Waits
<1>16. LoopInv'
  BY <1>1, <1>6, <1>9, Zenon DEF Good, LoopInv
<1> QED
  BY <1>6, <1>9, <1>12, <1>13, <1>14, <1>15, <1>16, Zenon DEF Good

\* connect() on an idle client, in another thread.
LEMMA ThreadConnectGood ==
  ASSUME Types, Types', Good, ~connector'.busy, ~connector.destroyed, ThreadConnect
  PROVE  Good'
<1>1. /\ connection' = connection /\ connect' = TRUE /\ conn' = conn /\ pending' = pending
      /\ call' = "start" /\ connects' = connects + 1 /\ stopped' = "no" /\ loop' = loop
  BY Zenon DEF ThreadConnect
<1>2. todo' = todo
  BY <1>1, Zenon DEF todo
<1>4. PICK b \in BOOLEAN : b = (connector.busy \/ Busy)
  BY Zenon
<1>5. connector' = [connector EXCEPT !.busy = b]
  BY <1>4, Zenon DEF ThreadConnect
<1>6. /\ connector'.channel = connector.channel /\ connector'.state = connector.state
      /\ connector'.timerId = connector.timerId /\ connector'.fault = connector.fault
      /\ connector'.destroyed = connector.destroyed /\ connector'.timers = connector.timers
      /\ connector'.busy = b /\ connector'.at = connector.at
  BY <1>5, Zenon DEF Types, KType
<1>7. ~Busy
  BY <1>4, <1>6, Zenon
<1>8. /\ connector.timers = {} /\ ~Waits(AStart) /\ connector.state = "kDisconnected"
      /\ connector.channel # "registered" /\ ~Midway
  BY <1>7, IdleMeans, Zenon
<1>9. connects' # 0 /\ Starting'
  BY <1>1, SMTT(30) DEF Types, Starting
<1>10. AttemptInv'
  BY <1>2, <1>6, <1>8, <1>9, Zenon DEF Good, AttemptInv, Trying, Midway, Waits
<1>11. ChannelInv'
  BY <1>1, <1>2, <1>6, Zenon DEF Good, ChannelInv, Waits
<1>12. ConnInv'
  BY <1>1, <1>2, <1>6, Zenon DEF Good, ConnInv, Waits
<1>13. StopInv'
  BY <1>1, <1>2, <1>6, <1>8, Zenon DEF StopInv, Waits
<1>14. LoopInv'
  BY <1>1, <1>6, Zenon DEF Good, LoopInv
<1> QED
  BY <1>6, <1>10, <1>11, <1>12, <1>13, <1>14, Zenon DEF Good

\* connect() and stop() go on, and disconnect() and stop() begin, in another thread.
LEMMA ThreadSetsGood ==
  ASSUME Types, Types', Good,
         \/ ThreadStarts \/ ThreadStops \/ ThreadReadsTimerId
         \/ \E then \in {"shutdown", "stop"} : ThreadClearsConnect(then),
         connector.destroyed => call # "none"
  PROVE  Good'
<1>1. /\ connection' = connection /\ conn' = conn /\ pending' = pending
      /\ connects' = connects /\ loop' = loop
  BY Zenon DEF ThreadStarts, ThreadStops, ThreadReadsTimerId, ThreadClearsConnect, clientVars
<1>2. todo' = todo
  BY <1>1, Zenon DEF todo
<1>3. /\ connector'.channel = connector.channel /\ connector'.state = connector.state
      /\ connector'.timerId = connector.timerId /\ connector'.fault = connector.fault
      /\ connector'.destroyed = connector.destroyed /\ connector'.timers = connector.timers
      /\ connector'.gaveUp = connector.gaveUp /\ connector'.at = connector.at
  BY Zenon DEF ThreadStarts, ThreadStops, ThreadReadsTimerId, ThreadClearsConnect, Types, KType
<1>4. LoopInv'
  BY <1>1, <1>3, Zenon DEF Good, LoopInv
<1>5. ~connector.destroyed
  BY Zenon DEF Good, StopInv
<1>6. \/ call = "start" /\ call' = "queue" /\ connect' = connect /\ stopped' = "no"
      \/ /\ call = "stop" /\ call' = "cancel" /\ connect' = connect /\ ~connector'.connect
         /\ stopped' = "yes" => connector.at \notin {"restart", "new"}
      \/ /\ call = "cancel" /\ call' = "queueCancel" /\ connect' = connect
         /\ stopped' = stopped /\ connector'.connect = connector.connect
      \/ /\ call = "none" /\ call' \in {"shutdown", "stop"} /\ ~connect'
         /\ stopped' = stopped /\ connector' = connector
  <2>1. CASE ThreadStarts
    BY <2>1, Zenon DEF ThreadStarts, clientVars
  <2>2. CASE ThreadStops
    BY <2>2, Zenon DEF ThreadStops, Types, KType, clientVars
  <2>3. CASE ThreadReadsTimerId
    BY <2>3, Zenon DEF ThreadReadsTimerId, Types, KType, clientVars
  <2>4. ASSUME NEW then \in {"shutdown", "stop"}, ThreadClearsConnect(then)
        PROVE  /\ call = "none" /\ call' \in {"shutdown", "stop"} /\ ~connect'
               /\ stopped' = stopped /\ connector' = connector
    BY <2>4, Zenon DEF ThreadClearsConnect
  <2> QED
    BY <2>1, <2>2, <2>3, <2>4, Zenon
<1>7. /\ Starting' <=> Starting
      /\ call \in {"shutdown", "stop", "cancel", "queueCancel"} => ~connect
  BY <1>6, Zenon DEF Starting, Good, StopInv
<1>8. AttemptInv'
  <2>1. CASE Starting
    BY <1>1, <1>2, <1>3, <1>7, <2>1, Zenon DEF Good, AttemptInv, Trying, Midway, Waits
  <2>2. CASE ~Starting
    <3>1. ~connect'
      BY <1>6, <1>7, <2>2, Zenon DEF Starting
    <3> QED
      BY <1>1, <1>2, <1>3, <1>7, <2>2, <3>1, Zenon DEF Good, AttemptInv, Trying, Midway, Waits
  <2> QED
    BY <2>1, <2>2, Zenon
<1>9. ChannelInv'
  BY <1>1, <1>2, <1>3, Zenon DEF Good, ChannelInv, Waits
<1>10. ConnInv'
  BY <1>1, <1>2, <1>3, Zenon DEF Good, ConnInv, Waits
<1>11. StopInv'
  <2>1. connect' => connect
    BY <1>6, Zenon
  <2>2. call' \in {"shutdown", "stop", "cancel", "queueCancel"} => ~connect'
    BY <1>6, <1>7, Zenon
  <2>3. stopped' # "no" => ~connect'
    BY <1>6, <1>7, Zenon DEF Good, StopInv
  <2>4. stopped' = "yes" => /\ connector'.at \notin {"restart", "new"}
                            /\ connector'.connect => connector'.state = "kConnected"
    BY <1>3, <1>6, Zenon DEF Good, StopInv
  <2>5. \A t \in connector'.timers : Has(todo', Cancel(t)) => ~connect'
    BY <1>2, <1>3, <2>1, Zenon DEF Good, StopInv, Waits
  <2> QED
    BY <1>3, <1>5, <2>2, <2>3, <2>4, <2>5, Zenon DEF StopInv, Waits
<1> QED
  BY <1>3, <1>4, <1>8, <1>9, <1>10, <1>11, Zenon DEF Good

\* A functor that another thread queues is behind the others, and is not one of those that
\* only the loop queues.
LEMMA QueuedLoop ==
  ASSUME Types, Good, loop' = loop, connector'.at = connector.at, NEW f \in Functor, pending' = Append(pending, f),
         f # AReset, \A c \in Conns : f # Destroyed(c)
  PROVE  LoopInv' /\ Pushes(f)
<1>1. \A g : Has(pending', g) <=> Has(pending, g) \/ g = f
  <2>1. \A p \in Seq(Functor) : \A g : Has(Append(p, f), g) <=> Has(p, g) \/ g = f
    BY AppendHas, Zenon
  <2> QED
    BY <2>1, Zenon DEF Types
<1>2. LoopInv'
  BY <1>1, Zenon DEF Good, LoopInv
<1>3. Pushes(f)
  BY TodoPush, Zenon DEF Types, LoopType
<1> QED
  BY <1>2, <1>3, Zenon

\* The functors of connect(), disconnect() and stop() in another thread.
LEMMA ThreadQueuesGood ==
  ASSUME Types, Types', Good, ThreadQueuesStart \/ ThreadShutsDown \/ ThreadCancels
  PROVE  Good'
<1>1. /\ connection' = connection /\ connect' = connect
      /\ connects' = connects /\ loop' = loop /\ stopped' = stopped /\ call' = "none"
      /\ call # "none"
      /\ connector'.channel = connector.channel /\ connector'.state = connector.state
      /\ connector'.timerId = connector.timerId /\ connector'.fault = connector.fault
      /\ connector'.destroyed = connector.destroyed /\ connector'.timers = connector.timers
      /\ connector'.gaveUp = connector.gaveUp /\ connector'.at = connector.at
      /\ connector'.connect = connector.connect
  BY Zenon DEF ThreadQueuesStart, ThreadShutsDown, ThreadCancels, clientVars, Types, KType
<1>2. ~connector.destroyed /\ (connection # 0 => connection \in Conns)
  BY <1>1, Zenon DEF Good, StopInv, Types
<1>3. CASE ThreadQueuesStart
  <2>1. conn' = conn /\ Starting /\ pending' = Append(pending, AStart)
    BY <1>3, Zenon DEF ThreadQueuesStart, AStart, Starting
  <2>2. LoopInv' /\ Pushes(AStart)
    BY <1>1, <2>1, QueuedLoop, Names, Distinct, Zenon
  <2>3. ~Waits(AStart) /\ ~Starting'
    BY <1>1, <2>1, Zenon DEF Good, AttemptInv, Trying, Midway, Starting
  <2>4. AttemptInv'
    <3>1. Has(todo', AStart) /\ AtMostOne(todo', AStart)
      BY <2>2, <2>3, Zenon DEF Pushes, Waits, Good, AttemptInv, Trying, Midway
    <3> QED
      BY <1>1, <2>1, <2>3, <3>1, Zenon DEF Good, AttemptInv, Trying, Midway, Waits
  <2>5. ChannelInv'
    <3>1. /\ Has(todo', AReset) <=> Waits(AReset)
          /\ AtMostOne(todo', AReset) /\ Before(todo', AReset, AStart)
          /\ \A c \in Conns : Has(todo', Destroyed(c)) <=> Waits(Destroyed(c))
      BY <2>2, Distinct, Zenon DEF Pushes, Waits, Good, ChannelInv
    <3> QED
      BY <1>1, <3>1, Zenon DEF Good, ChannelInv, Waits
  <2>6. ConnInv'
    <3>1. ASSUME NEW c \in Conns
          PROVE  /\ Has(todo', Destroyed(c)) <=> Waits(Destroyed(c))
                 /\ Has(todo', Shutdown(c)) <=> Waits(Shutdown(c))
                 /\ AtMostOne(todo', Destroyed(c)) /\ Before(todo', Shutdown(c), Destroyed(c))
      BY <2>2, Distinct, Zenon DEF Pushes, Waits, Good, ConnInv
    <3> QED
      BY <1>1, <1>2, <2>1, <3>1, Zenon DEF Good, ConnInv, Waits
  <2>7. StopInv'
    <3>1. \A t : Has(todo', Cancel(t)) <=> Waits(Cancel(t))
      BY <2>2, Distinct, Zenon DEF Pushes, Waits
    <3> QED
      BY <1>1, <1>2, <3>1, Zenon DEF Good, StopInv, Waits
  <2> QED
    BY <1>1, <2>2, <2>4, <2>5, <2>6, <2>7, Zenon DEF Good
<1>4. ASSUME NEW f \in Functor, LoopInv', Pushes(f), ~Starting, ~Starting', f # AStart, f # AReset,
             \A c \in Conns : f # Destroyed(c)
      PROVE  AttemptInv' /\ ChannelInv'
  <2>1. (Has(todo', AStart) <=> Waits(AStart)) /\ AtMostOne(todo', AStart)
    BY <1>4, Zenon DEF Pushes, Waits, Good, AttemptInv, Trying, Midway
  <2>2. /\ Has(todo', AReset) <=> Waits(AReset)
        /\ AtMostOne(todo', AReset) /\ Before(todo', AReset, AStart)
        /\ \A c \in Conns : Has(todo', Destroyed(c)) <=> Waits(Destroyed(c))
    BY <1>4, Distinct, Zenon DEF Pushes, Waits, Good, ChannelInv
  <2>3. AttemptInv'
    BY <1>1, <1>4, <2>1, Zenon DEF Good, AttemptInv, Trying, Midway, Waits
  <2>4. ChannelInv'
    BY <1>1, <2>2, Zenon DEF Good, ChannelInv, Waits
  <2> QED
    BY <2>3, <2>4, Zenon
<1>5. CASE ThreadCancels
  <2>1. PICK t \in TimerIds \cup {0} : t = connector.read
    BY Zenon DEF Types, KType
  <2>2. conn' = conn /\ pending' = Append(pending, Cancel(t)) /\ call = "queueCancel"
    BY <1>5, <2>1, Zenon DEF ThreadCancels, Cancel
  <2>3. LoopInv' /\ Pushes(Cancel(t))
    BY <1>1, <2>2, QueuedLoop, Names, Distinct, Zenon
  <2>4. AttemptInv' /\ ChannelInv'
    BY <1>1, <1>4, <2>2, <2>3, Names, Distinct, Zenon DEF Starting
  <2>5. ConnInv'
    <3>1. ASSUME NEW c \in Conns
          PROVE  /\ Has(todo', Destroyed(c)) <=> Waits(Destroyed(c))
                 /\ Has(todo', Shutdown(c)) <=> Waits(Shutdown(c))
                 /\ AtMostOne(todo', Destroyed(c)) /\ Before(todo', Shutdown(c), Destroyed(c))
      BY <2>3, Distinct, Zenon DEF Pushes, Waits, Good, ConnInv
    <3> QED
      BY <1>1, <1>2, <2>2, <3>1, Zenon DEF Good, ConnInv, Waits
  <2>6. StopInv'
    BY <1>1, <1>2, <2>2, Zenon DEF Good, StopInv
  <2> QED
    BY <1>1, <2>3, <2>4, <2>5, <2>6, Zenon DEF Good
<1>6. CASE ThreadShutsDown
  <2>1. call = "shutdown" /\ ~Starting /\ ~Starting'
    BY <1>1, <1>6, Zenon DEF ThreadShutsDown, Starting
  <2>2. StopInv'
    BY <1>1, <1>2, <2>1, Zenon DEF Good, StopInv
  <2>3. CASE connection # 0 /\ conn[connection] = "kConnected"
    <3>1. /\ pending' = Append(pending, Shutdown(connection))
          /\ conn' = [conn EXCEPT ![connection] = "kDisconnecting"]
      BY <1>6, <2>3, Zenon DEF ThreadShutsDown, ShutdownConnection, Shutdown
    <3>2. LoopInv' /\ Pushes(Shutdown(connection))
      BY <1>1, <1>2, <2>3, <3>1, QueuedLoop, Names, Distinct, Zenon
    <3>3. AttemptInv' /\ ChannelInv'
      BY <1>1, <1>2, <1>4, <2>1, <2>3, <3>2, Names, Distinct, Zenon
    <3>4. ASSUME NEW c \in Conns
          PROVE  /\ Has(todo', Destroyed(c)) <=> Waits(Destroyed(c))
                 /\ Has(todo', Shutdown(c)) => Waits(Shutdown(c)) \/ c = connection
                 /\ AtMostOne(todo', Destroyed(c)) /\ Before(todo', Shutdown(c), Destroyed(c))
                 /\ conn[c] \in Open => conn'[c] \in Open
                 /\ conn[c] = "kDisconnected" => conn'[c] = "kDisconnected"
      <4>1. (Has(todo', Destroyed(c)) <=> Waits(Destroyed(c))) /\ AtMostOne(todo', Destroyed(c))
        BY <3>2, Distinct, Zenon DEF Pushes, Waits, Good, ConnInv
      <4>2. Has(todo', Shutdown(c)) => Waits(Shutdown(c)) \/ c = connection
        BY <3>2, Distinct, Zenon DEF Pushes, Waits
      <4>3. Before(todo', Shutdown(c), Destroyed(c))
        <5>1. c = connection => ~Has(todo, Destroyed(c))
          BY <2>3, Zenon DEF Good, ConnInv, Waits
        <5> QED
          BY <3>2, <5>1, Distinct, Zenon DEF Pushes, Good, ConnInv
      <4>4. /\ conn[c] \in Open => conn'[c] \in Open
            /\ conn[c] = "kDisconnected" => conn'[c] = "kDisconnected"
        BY <1>2, <2>3, <3>1, Zenon DEF Types, ConnType, Open
      <4> QED
        BY <4>1, <4>2, <4>3, <4>4, Zenon
    <3>5. ConnInv'
      BY <1>1, <1>2, <3>4, Zenon DEF Good, ConnInv, Waits
    <3> QED
      BY <1>1, <2>2, <3>2, <3>3, <3>5, Zenon DEF Good
  <2>4. CASE ~(connection # 0 /\ conn[connection] = "kConnected")
    <3>1. pending' = pending /\ conn' = conn
      BY <1>6, <2>4, Zenon DEF ThreadShutsDown, ShutdownConnection
    <3>2. todo' = todo
      BY <1>1, <3>1, Zenon DEF todo
    <3>3. LoopInv'
      BY <1>1, <3>1, Zenon DEF Good, LoopInv
    <3>4. AttemptInv'
      BY <1>1, <2>1, <3>2, Zenon DEF Good, AttemptInv, Trying, Midway, Waits
    <3>5. ChannelInv'
      BY <1>1, <3>2, Zenon DEF Good, ChannelInv, Waits
    <3>6. ConnInv'
      BY <1>1, <3>1, <3>2, Zenon DEF Good, ConnInv, Waits
    <3> QED
      BY <1>1, <2>2, <3>3, <3>4, <3>5, <3>6, Zenon DEF Good
  <2> QED
    BY <2>3, <2>4, Zenon
<1> QED
  BY <1>3, <1>5, <1>6, Zenon
-----------------------------------------------------------------------------
(* The invariant, and what it means. *)

\* A new client.
LEMMA InitInv == Init => Inv
<1> SUFFICES ASSUME Init PROVE Inv
  BY Zenon
<1>1. PICK d \in kInitRetryDelayMs..kMaxRetryDelayMs : d = kInitRetryDelayMs
  BY DelayBounds, SMTT(30)
<1>2. connector = [connect |-> FALSE, state |-> "kDisconnected", channel |-> "none",
                   retryDelayMs |-> d, timerId |-> 0, timers |-> {}, at |-> "none", read |-> 0,
                   gaveUp |-> FALSE, destroyed |-> FALSE, busy |-> FALSE, fault |-> "none"]
  BY <1>1, Zenon DEF Init
<1>3. /\ connector \in KType /\ connector.timers = {} /\ connector.fault = "none"
      /\ connector.state = "kDisconnected" /\ connector.channel = "none" /\ ~connector.connect
      /\ ~connector.destroyed /\ connector.at = "none"
  BY <1>2, Zenon DEF KType
<1>4. /\ loop \in LoopType /\ loop.phase = "poll" /\ loop.due = {} /\ loop.batch = <<>>
      /\ loop.user = None
  BY Names, SMTT(30) DEF Init, LoopType
<1>5. /\ pending = <<>> /\ pending \in Seq(Functor) /\ conn \in ConnType /\ connection = 0
      /\ call = "none" /\ connects = 0 /\ connects \in 0..ConnectMax /\ stopped = "no"
  BY ClientAssumption, SMTT(30) DEF Init, ConnType
<1>6. IsFiniteSet({})
  BY FiniteFew, Zenon
<1>7. Types
  <2>1. {t \in TimerIds : Timer(t) \in loop.due} = {}
    BY <1>4, Zenon
  <2>2. IsFiniteSet(connector.timers) /\ IsFiniteSet({t \in TimerIds : Timer(t) \in loop.due})
    BY <1>3, <1>6, <2>1, Zenon
  <2>3. retry \in BOOLEAN /\ connect \in BOOLEAN /\ call \in CallType
    BY <1>5, Zenon DEF Init, CallType
  <2> QED
    BY <1>3, <1>4, <1>5, <2>2, <2>3, Zenon DEF Types
<1>8. todo = <<>>
  BY <1>4, <1>5, SMTT(30) DEF todo
<1>9. \A f : ~Has(pending, f) /\ ~Has(todo, f)
  BY <1>5, <1>8, SMTT(30) DEF Has
<1>10. LoopInv
  BY <1>3, <1>4, <1>9, Distinct, Zenon DEF LoopInv
<1>11. AttemptInv
  BY <1>3, <1>5, <1>8, <1>9, SMTT(30) DEF AttemptInv, Trying, Midway, Waits, Starting, AtMostOne
<1>12. ChannelInv
  BY <1>3, <1>4, <1>8, <1>9, SMTT(30) DEF ChannelInv, Waits, AtMostOne, Before
<1>13. ConnInv
  BY <1>3, <1>4, <1>5, <1>8, <1>9, Distinct, SMTT(30) DEF ConnInv, Waits, AtMostOne, Before
<1>14. StopInv
  BY <1>3, <1>4, <1>5, Zenon DEF StopInv
<1> QED
  BY <1>3, <1>7, <1>10, <1>11, <1>12, <1>13, <1>14, Zenon DEF Inv, Good

\* A step of the loop, of a call or of the user.
LEMMA GoodStep ==
  ASSUME Types, Types', Endless, Good, ~connector'.busy, [Next]_vars
  PROVE  Good'
<1>1. CASE LoopStep
  BY <1>1, SwapGood, ReturnsGood, RestartGood, GoesOnGood, RetryGood, OutcomeGood, StartGood,
     ResetGood, CancelGood, ShutdownGood, DestroyedGood, TimerGood, NewConnectionGood, RemoveGood,
     Zenon DEF LoopStep
<1>2. CASE CallStep
  <2>1. CASE ThreadStarts \/ ThreadStops \/ ThreadReadsTimerId
    <3>1. call # "none"
      BY <2>1, Zenon DEF ThreadStarts, ThreadStops, ThreadReadsTimerId
    <3> QED
      BY <2>1, <3>1, ThreadSetsGood, Zenon
  <2>2. CASE ThreadQueuesStart \/ ThreadShutsDown \/ ThreadCancels
    BY <2>2, ThreadQueuesGood, Zenon
  <2> QED
    BY <1>2, <2>1, <2>2, Zenon DEF CallStep
<1>3. CASE UserCalls
  BY <1>3, OwnerConnectGood, OwnerStopGood, DestroyGood, ThreadConnectGood, ThreadSetsGood, Zenon
     DEF UserCalls
<1>4. ASSUME NEW due \in SUBSET Ready, Polls(due) PROVE Good'
  BY <1>4, PollGood, Zenon
<1>5. CASE UNCHANGED vars
  <2>1. /\ connection' = connection /\ connect' = connect /\ connector' = connector /\ conn' = conn
        /\ connects' = connects /\ loop' = loop /\ stopped' = stopped /\ call' = call
        /\ pending' = pending
    BY <1>5, Zenon DEF vars, clientVars, userVars
  <2>2. todo' = todo
    BY <2>1, Zenon DEF todo
  <2>3. LoopInv' /\ AttemptInv'
    BY <2>1, <2>2, Zenon DEF Good, LoopInv, AttemptInv, Trying, Midway, Waits, Starting
  <2>4. ChannelInv' /\ ConnInv' /\ StopInv'
    BY <2>1, <2>2, Zenon DEF Good, ChannelInv, ConnInv, StopInv, Waits
  <2> QED
    BY <2>1, <2>3, <2>4, Zenon DEF Good
<1> QED
  BY <1>1, <1>2, <1>3, <1>4, <1>5, Zenon DEF Next

\* Every step keeps the invariant.
LEMMA InvStep == Endless /\ Inv /\ [Next]_vars => Inv'
<1> SUFFICES ASSUME Endless, Inv, [Next]_vars PROVE Inv'
  BY Zenon
<1>1. Types' /\ Kept
  BY TypesStep, Zenon DEF Inv
<1>2. ASSUME ~connector'.busy PROVE Good'
  <2>1. Good
    BY <1>1, <1>2, Zenon DEF Inv, Kept
  <2> QED
    BY <1>1, <1>2, <2>1, GoodStep, Zenon DEF Inv
<1> QED
  BY <1>1, <1>2, Zenon DEF Inv

\* The inductive invariant holds.
LEMMA Invariant == Endless => (Spec => []Inv)
<1> SUFFICES ASSUME Endless PROVE Spec => []Inv
  BY Zenon
<1>1. Init => Inv
  BY InitInv, Zenon
<1>2. Inv /\ [Next]_vars => Inv'
  BY InvStep, Zenon
<1> QED
  BY <1>1, <1>2, PTL DEF Spec

\* The attempts, one by one.
LEMMA AttemptsAre ==
  ASSUME Types
  PROVE  /\ \A a \in Attempts :
              \/ \E t \in connector.timers : a = Timer(t)
              \/ a = AStart /\ Waits(AStart)
              \/ a = [op |-> "call"] /\ Starting
              \/ a = [op |-> "registered"] /\ connector.channel = "registered"
              \/ a = [op |-> "method"] /\ (Midway \/ connector.at = "restart")
         /\ \A t \in connector.timers : Timer(t) \in Attempts
         /\ Waits(AStart) => AStart \in Attempts
         /\ Starting => [op |-> "call"] \in Attempts
         /\ connector.channel = "registered" => [op |-> "registered"] \in Attempts
         /\ Midway => [op |-> "method"] \in Attempts
<1>1. \A f \in Range(pending) \cup Range(loop.batch) : f \in Functor
  BY SMTT(30) DEF Types, LoopType, Range
<1>2. ASSUME NEW f \in Range(pending) \cup Range(loop.batch), f.op = "start"
      PROVE  f = AStart /\ Waits(AStart)
  <2>1. f = AStart
    BY <1>1, <1>2, Kinds, Zenon
  <2> QED
    BY <2>1, WaitsRange, Zenon
<1>3. ASSUME NEW a \in Attempts
      PROVE  \/ \E t \in connector.timers : a = Timer(t)
             \/ a = AStart /\ Waits(AStart)
             \/ a = [op |-> "call"] /\ Starting
             \/ a = [op |-> "registered"] /\ connector.channel = "registered"
             \/ a = [op |-> "method"] /\ (Midway \/ connector.at = "restart")
  BY <1>2, Zenon DEF Attempts, Timer, Starting, Midway
<1>4. \A t \in connector.timers : Timer(t) \in Attempts
  BY Zenon DEF Attempts, Timer
<1>5. Waits(AStart) => AStart \in Attempts
  <2>1. AStart \in Range(pending) \cup Range(loop.batch) => AStart \in Attempts
    BY Zenon DEF Attempts, AStart
  <2> QED
    BY <2>1, WaitsRange, Zenon
<1>6. /\ Starting => [op |-> "call"] \in Attempts
      /\ connector.channel = "registered" => [op |-> "registered"] \in Attempts
      /\ Midway => [op |-> "method"] \in Attempts
  BY Zenon DEF Attempts, Starting, Midway
<1> QED
  BY <1>3, <1>4, <1>5, <1>6, Zenon

\* What the invariant says of the properties.
LEMMA InvMeans == Inv => NoFault /\ OneAttempt /\ NeverIdle
<1> SUFFICES ASSUME Inv PROVE NoFault /\ OneAttempt /\ NeverIdle
  BY Zenon
<1>1. NoFault
  BY Zenon DEF Inv, Good, NoFault
<1>2. ASSUME ~connector.busy
      PROVE  (\A a, b \in Attempts : a = b) /\ (connection # 0 => Attempts = {})
  <2>1. Types /\ Good
    BY <1>2, Zenon DEF Inv
  <2>2. ASSUME NEW a \in Attempts, NEW b \in Attempts PROVE a = b
    <3>1. connector.at = "restart" => connector.state = "kConnected"
      BY <2>1, Zenon DEF Good, ConnInv
    <3>2. \A t, s \in connector.timers : t = s
      BY <2>1, Zenon DEF Good, AttemptInv, Trying, Midway
    <3> QED
      BY <2>1, <3>1, <3>2, AttemptsAre, Zenon DEF Good, AttemptInv, Trying
  <2>3. connection # 0 => Attempts = {}
    <3>1. connection # 0 => connector.state = "kConnected" /\ connector.at # "restart"
      BY <2>1, Zenon DEF Good, ConnInv
    <3> QED
      BY <2>1, <3>1, AttemptsAre, Zenon DEF Good, AttemptInv, Trying
  <2> QED
    BY <2>2, <2>3, Zenon
<1>3. OneAttempt
  BY <1>2, Zenon DEF OneAttempt
<1>4. ASSUME connect, connector.connect, connector.state # "kConnected", ~connector.gaveUp,
             ~connector.busy
      PROVE  Attempts # {}
  <2>1. Types /\ Good
    BY <1>4, Zenon DEF Inv
  <2>2. CASE connector.state = "kConnecting"
    BY <2>1, <2>2, AttemptsAre, Zenon DEF Good, AttemptInv, Trying, Midway
  <2>3. CASE connector.state = "kDisconnected"
    <3>1. connector.timers # {} \/ Midway \/ Waits(AStart) \/ Starting
      BY <1>4, <2>1, <2>3, Zenon DEF Good, AttemptInv, Trying
    <3> QED
      BY <2>1, <3>1, AttemptsAre, Zenon
  <2> QED
    BY <1>4, <2>1, <2>2, <2>3, Zenon DEF Types, KType
<1>5. NeverIdle
  BY <1>4, Zenon DEF NeverIdle
<1> QED
  BY <1>1, <1>3, <1>5, Zenon

\* A connection is made by newConnection alone, and not after a stop() that came in time.
LEMMA StopStep ==
  ASSUME Inv, [Next]_vars, stopped = "yes", ~connector.busy
  PROVE  connection' \in {connection, 0}
<1>1. connector.at # "new"
  BY Zenon DEF Inv, Good, StopInv
<1> USE DEF clientVars, userVars
<1>2. ASSUME NEW c \in Conns, NewConnection(c) PROVE FALSE
  BY <1>1, <1>2, Zenon DEF NewConnection
<1>3. CASE LoopStep
  <2>1. CASE \/ SwapFunctors \/ EndBatch \/ CallbackReturns \/ HandleWrite \/ HandleError
             \/ RestartStores \/ RestartStarts \/ StartConnects \/ RetryStartsTimer
    BY <2>1, Zenon DEF SwapFunctors, EndBatch, CallbackReturns, HandleWrite, HandleError,
       RestartStores, RestartStarts, StartConnects, RetryStartsTimer, Goes
  <2>2. CASE \/ StartFunctor \/ ResetFunctor \/ CancelFunctor \/ ShutdownFunctor \/ ConnectDestroyed
             \/ \E t \in TimerIds : TimerExpires(t)
    BY <2>2, Zenon DEF StartFunctor, ResetFunctor, CancelFunctor, ShutdownFunctor, ConnectDestroyed,
       TimerExpires
  <2>3. ASSUME NEW c \in Conns, RemoveConnection(c) PROVE connection' \in {connection, 0}
    BY <2>3, Zenon DEF RemoveConnection
  <2> QED
    BY <1>2, <1>3, <2>1, <2>2, <2>3, Zenon DEF LoopStep
<1>4. CASE CallStep
  BY <1>4, Zenon DEF CallStep, ThreadStarts, ThreadQueuesStart, ThreadShutsDown, ThreadStops,
     ThreadReadsTimerId, ThreadCancels
<1>5. CASE UserCalls
  BY <1>5, Zenon DEF UserCalls, OwnerConnect, OwnerDisconnect, OwnerStop, Destroy, ThreadConnect,
     ThreadClearsConnect
<1>6. ASSUME NEW due \in SUBSET Ready, Polls(due) PROVE connection' = connection
  BY <1>6, Zenon DEF Polls, PollReturns
<1>7. CASE UNCHANGED vars
  BY <1>7, Zenon DEF vars
<1> QED
  BY <1>3, <1>4, <1>5, <1>6, <1>7, Zenon DEF Next

\* As long as connect() and the destructor are called on an idle client, no assert of
\* startInLoop, connecting, handleWrite, handleError or removeConnection fails, and nothing
\* uses the client after its destructor.
THEOREM IdleCallsNeverFail == Endless => (Spec => []NoFault)
<1> SUFFICES ASSUME Endless PROVE Spec => []NoFault
  BY Zenon
<1>1. Spec => []Inv
  BY Invariant, Zenon
<1>2. Inv => NoFault
  BY InvMeans, Zenon
<1> QED
  BY <1>1, <1>2, PTL

\* Of connections, attempts and retries there is one at a time (retry, restart, connecting).
THEOREM OneAttemptAtATime == Endless => (Spec => []OneAttempt)
<1> SUFFICES ASSUME Endless PROVE Spec => []OneAttempt
  BY Zenon
<1>1. Spec => []Inv
  BY Invariant, Zenon
<1>2. Inv => OneAttempt
  BY InvMeans, Zenon
<1> QED
  BY <1>1, <1>2, PTL

\* A client that is to connect has an attempt under way or due: no retry is lost (connect,
\* retry, restart, and cancel() of a late stop()).
THEOREM AttemptIsNeverLost == Endless => (Spec => []NeverIdle)
<1> SUFFICES ASSUME Endless PROVE Spec => []NeverIdle
  BY Zenon
<1>1. Spec => []Inv
  BY Invariant, Zenon
<1>2. Inv => NeverIdle
  BY InvMeans, Zenon
<1> QED
  BY <1>1, <1>2, PTL

\* After stop() no connection is made until connect(), but for the one that handleWrite or
\* removeConnection had already decided on, and after that one none.
THEOREM StopIsAlwaysFinal == Endless => (Spec => StopIsFinal)
<1> SUFFICES ASSUME Endless PROVE Spec => StopIsFinal
  BY Zenon
<1>1. Spec => []Inv
  BY Invariant, Zenon
<1>2. Inv /\ [Next]_vars =>
        [stopped = "yes" /\ stopped' = "yes" /\ ~connector.busy => connection' \in {connection, 0}]_vars
  BY StopStep, Zenon
<1> QED
  BY <1>1, <1>2, PTL DEF Spec, StopIsFinal
=============================================================================
