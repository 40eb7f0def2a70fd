---------------------------- MODULE TcpServerSteps ----------------------------
(***************************************************************************)
(* The inductive invariant of TcpServer and what each of its actions makes *)
(* of it, for any number of connections and loops: who keeps a connection  *)
(* alive, when its channel is registered, and which functors name it.      *)
(***************************************************************************)
EXTENDS TcpServer, TLAPS

-----------------------------------------------------------------------------
(* Sequences. *)

\* The elements of a concatenation.
LEMMA Joined ==
  ASSUME NEW S, NEW a \in Seq(S), NEW z \in Seq(S)
  PROVE  /\ a \o z \in Seq(S)
         /\ Len(a \o z) = Len(a) + Len(z)
         /\ \A i \in 1..(Len(a) + Len(z)) :
               (a \o z)[i] = IF i <= Len(a) THEN a[i] ELSE z[i - Len(a)]
  OBVIOUS

\* Appending an element is joining a sequence of one.
LEMMA Appended ==
  ASSUME NEW S, NEW a \in Seq(S), NEW e \in S
  PROVE  <<e>> \in Seq(S) /\ Append(a, e) = a \o <<e>>
  OBVIOUS

\* The order in which sequences are joined does not matter.
LEMMA JoinedInTurn ==
  ASSUME NEW S, NEW a \in Seq(S), NEW z \in Seq(S), NEW e \in Seq(S)
  PROVE  (a \o z) \o e = a \o (z \o e)
  OBVIOUS

\* A sequence is its elements.
LEMMA SameElements ==
  ASSUME NEW S, NEW a \in Seq(S), NEW z \in Seq(S), Len(a) = Len(z),
         \A i \in 1..Len(a) : a[i] = z[i]
  PROVE  a = z
  OBVIOUS

\* The elements of a tail.
LEMMA AllButFirst ==
  ASSUME NEW S, NEW a \in Seq(S), a # <<>>
  PROVE  /\ Tail(a) \in Seq(S)
         /\ Len(Tail(a)) = Len(a) - 1
         /\ \A i \in 1..Len(Tail(a)) : Tail(a)[i] = a[i + 1]
  OBVIOUS

-----------------------------------------------------------------------------
(* The functors a loop has still to run: the rest of the batch, then those that were queued   *)
(* meanwhile.  A functor is added at the end and taken from the front.                        *)

Rest(b, n) == SubSeq(b, n, Len(b))
todo == [l \in Loops |-> Rest(loop[l].batch, loop[l].pos) \o pending[l]]

Has(s, f)       == \E i \in 1..Len(s) : s[i] = f
AtMostOne(s, f) == \A i, j \in 1..Len(s) : s[i] = f /\ s[j] = f => i = j
Before(s, g, f) == \A i, j \in 1..Len(s) : s[i] = g /\ s[j] = f => i < j

\* The base loop is a loop.
LEMMA BaseLoop == Base \in Loops
BY PoolAssumption DEF Base, Loops

\* What appending a functor changes.
LEMMA AppendHas ==
  ASSUME NEW S, NEW s \in Seq(S), NEW g \in S, NEW f
  PROVE  /\ Append(s, g) \in Seq(S)
         /\ Has(Append(s, g), f) <=> Has(s, f) \/ g = f
         /\ AtMostOne(s, f) /\ (g # f \/ ~Has(s, f)) => AtMostOne(Append(s, g), f)
<1> DEFINE t == Append(s, g)
<1>1. t \in Seq(S) /\ Len(t) = Len(s) + 1 /\ Len(s) \in Nat
  OBVIOUS
<1>2. \A i \in 1..Len(s) : t[i] = s[i]
  OBVIOUS
<1>3. t[Len(s) + 1] = g
  OBVIOUS
<1> HIDE DEF t
<1>4. \A i \in 1..Len(t) : i \in 1..Len(s) \/ i = Len(s) + 1
  BY <1>1
<1>5. \A i \in 1..Len(s) : i \in 1..Len(t)
  BY <1>1
<1>6. Len(s) + 1 \in 1..Len(t)
  BY <1>1
<1>7. Has(t, f) <=> Has(s, f) \/ g = f
  BY <1>2, <1>3, <1>4, <1>5, <1>6 DEF Has
<1>8. ASSUME AtMostOne(s, f), g # f \/ ~Has(s, f) PROVE AtMostOne(t, f)
  BY <1>2, <1>3, <1>4, <1>8 DEF AtMostOne, Has
<1> QED
  BY <1>1, <1>7, <1>8 DEF t

\* What taking the first functor changes.
LEMMA TailHas ==
  ASSUME NEW S, NEW s \in Seq(S), s # <<>>, NEW f
  PROVE  /\ Tail(s) \in Seq(S)
         /\ Has(Tail(s), f) => Has(s, f)
         /\ Head(s) # f => (Has(Tail(s), f) <=> Has(s, f))
         /\ AtMostOne(s, f) => AtMostOne(Tail(s), f)
         /\ AtMostOne(s, f) /\ Head(s) = f => ~Has(Tail(s), f)
         /\ Has(s, Head(s))
<1> DEFINE t == Tail(s)
<1>1. t \in Seq(S) /\ Len(t) = Len(s) - 1 /\ Len(s) \in Nat \ {0} /\ Len(t) \in Nat
  OBVIOUS
<1>2. \A i \in 1..Len(t) : t[i] = s[i + 1]
  OBVIOUS
<1>3. Head(s) = s[1]
  OBVIOUS
<1> HIDE DEF t
<1>4. \A i \in 1..Len(t) : i + 1 \in 1..Len(s) /\ i + 1 # 1
  BY <1>1
<1>5. \A i \in 1..Len(s) : i = 1 \/ (i - 1 \in 1..Len(t) /\ t[i - 1] = s[i])
  BY <1>1, <1>2
<1>6. 1 \in 1..Len(s)
  BY <1>1
<1>7. Has(t, f) => Has(s, f)
  BY <1>2, <1>4 DEF Has
<1>8. Head(s) # f => (Has(t, f) <=> Has(s, f))
  BY <1>3, <1>5, <1>7, Zenon DEF Has
<1>9. ASSUME AtMostOne(s, f) PROVE AtMostOne(t, f)
  BY <1>1, <1>2, <1>4, <1>9 DEF AtMostOne
<1>10. AtMostOne(s, f) /\ Head(s) = f => ~Has(t, f)
  BY <1>2, <1>3, <1>4, <1>6, Zenon DEF AtMostOne, Has
<1>11. Has(s, Head(s))
  BY <1>3, <1>6 DEF Has
<1> QED
  BY <1>1, <1>7, <1>8, <1>9, <1>10, <1>11 DEF t

\* A functor that is queued is the last one.
LEMMA RestAppend ==
  ASSUME NEW S, NEW b \in Seq(S), NEW p \in Seq(S), NEW n \in Nat \ {0}, NEW f \in S
  PROVE  Rest(b, n) \o Append(p, f) = Append(Rest(b, n) \o p, f)
<1>1. Rest(b, n) \in Seq(S)
  BY DEF Rest
<1>2. Rest(b, n) \o p \in Seq(S)
  BY <1>1, Joined
<1>3. /\ Append(p, f) = p \o <<f>> /\ <<f>> \in Seq(S)
      /\ Append(Rest(b, n) \o p, f) = (Rest(b, n) \o p) \o <<f>>
  BY <1>2, Appended, Zenon
<1> QED
  BY <1>1, <1>3, JoinedInTurn

\* Nothing changes when a batch is taken or ended.
LEMMA RestSteps ==
  ASSUME NEW S, NEW b \in Seq(S), NEW p \in Seq(S), NEW n \in Nat \ {0}, n <= Len(b) + 1
  PROVE  /\ Rest(b, n) \o p \in Seq(S)
         /\ n > Len(b) => Rest(b, n) \o p = p
         /\ Rest(p, 1) \o <<>> = p
<1>1. Rest(b, n) \in Seq(S)
  BY DEF Rest
<1>2. Rest(b, n) \o p \in Seq(S)
  BY <1>1, Joined
<1>3. n > Len(b) => Rest(b, n) \o p = p
  BY DEF Rest
<1>4. Rest(p, 1) \o <<>> = p
  BY DEF Rest
<1> QED
  BY <1>2, <1>3, <1>4

\* The functor at the position of the batch is the first one.
LEMMA RestHead ==
  ASSUME NEW S, NEW b \in Seq(S), NEW p \in Seq(S), NEW n \in Nat \ {0}, n <= Len(b)
  PROVE  /\ Rest(b, n) \o p # <<>>
         /\ Head(Rest(b, n) \o p) = b[n]
         /\ Rest(b, n + 1) \o p = Tail(Rest(b, n) \o p)
<1> DEFINE r == Rest(b, n)
           q == Rest(b, n + 1)
<1>1. r \in Seq(S) /\ q \in Seq(S)
  BY DEF Rest
<1>2. r \o p \in Seq(S)
  BY <1>1, Joined
<1>3. r \o p # <<>> /\ Head(r \o p) = b[n] /\ q \o p = Tail(r \o p)
  <2>1. Len(r) = Len(b) - n + 1 /\ Len(q) = Len(b) - n
    BY  DEF Rest
  <2>2. (\A i \in 1..Len(r) : r[i] = b[n + i - 1]) /\ (\A i \in 1..Len(q) : q[i] = b[n + i])
    BY  DEF Rest
  <2> HIDE DEF r, q
  <2>3. /\ Len(r \o p) = Len(r) + Len(p)
        /\ \A i \in 1..(Len(r) + Len(p)) : (r \o p)[i] = IF i <= Len(r) THEN r[i] ELSE p[i - Len(r)]
    BY <1>1, Joined
  <2>4. /\ q \o p \in Seq(S) /\ Len(q \o p) = Len(q) + Len(p)
        /\ \A i \in 1..(Len(q) + Len(p)) : (q \o p)[i] = IF i <= Len(q) THEN q[i] ELSE p[i - Len(q)]
    BY <1>1, Joined
  <2>5. Len(r \o p) # 0 /\ Len(p) \in Nat /\ Len(b) \in Nat
    BY <2>1, <2>3
  <2>6. r \o p # <<>>
    BY <2>5
  <2>7. Head(r \o p) = (r \o p)[1]
    BY <1>2, <2>6
  <2>8. Head(r \o p) = b[n]
    <3>1. 1 \in 1..Len(r) /\ 1 <= Len(r) /\ 1 \in 1..(Len(r) + Len(p))
      BY <2>1, <2>5
    <3>2. (r \o p)[1] = r[1] /\ r[1] = b[n + 1 - 1]
      BY <2>2, <2>3, <3>1
    <3>3. n + 1 - 1 = n
      OBVIOUS
    <3>4. (r \o p)[1] = b[n]
      BY <3>2, <3>3, Zenon
    <3> QED
      BY <2>7, <3>4, Zenon
  <2>9. /\ Tail(r \o p) \in Seq(S) /\ Len(Tail(r \o p)) = Len(r \o p) - 1
        /\ \A i \in 1..Len(Tail(r \o p)) : Tail(r \o p)[i] = (r \o p)[i + 1]
    BY <1>2, <2>6, AllButFirst
  <2>10. Len(q \o p) = Len(Tail(r \o p))
    <3>1. (Len(r) + Len(p)) - 1 = Len(q) + Len(p)
      BY <2>1, <2>5
    <3> QED
      BY <2>3, <2>4, <2>9, <3>1, Zenon
  <2>11. ASSUME NEW i \in 1..Len(q \o p) PROVE (q \o p)[i] = Tail(r \o p)[i]
    <3>1. Tail(r \o p)[i] = (r \o p)[i + 1] /\ i + 1 \in 1..(Len(r) + Len(p)) /\ Len(r) = Len(q) + 1
      BY <2>1, <2>3, <2>4, <2>5, <2>9, <2>10
    <3>2. CASE i <= Len(q)
      <4>1. i + 1 <= Len(r) /\ i + 1 \in 1..Len(r) /\ i \in 1..Len(q) /\ n + (i + 1) - 1 = n + i
        BY <2>1, <2>4, <2>5, <3>1, <3>2
      <4>2. r[i + 1] = b[n + i] /\ q[i] = b[n + i]
        BY <2>2, <4>1
      <4> QED
        BY <2>3, <2>4, <3>1, <3>2, <4>1, <4>2, Zenon
    <3>3. CASE ~(i <= Len(q))
      <4>1. ~(i + 1 <= Len(r)) /\ (i + 1) - Len(r) = i - Len(q)
        BY <2>1, <2>5, <3>1, <3>3
      <4>2. (r \o p)[i + 1] = p[(i + 1) - Len(r)] /\ (q \o p)[i] = p[i - Len(q)]
        BY <2>3, <2>4, <3>1, <3>3, <4>1, Zenon
      <4> QED
        BY <3>1, <4>1, <4>2
    <3> QED
      BY <3>2, <3>3, Zenon
  <2> QED
    BY <2>4, <2>6, <2>8, <2>9, <2>10, <2>11, SameElements
<1> QED
  BY <1>3, Zenon
-----------------------------------------------------------------------------
(* The inductive invariant. *)

Fn(op, c)       == [op |-> op, c |-> c]
Waits(l, op, c) == Has(todo[l], Fn(op, c))
Once(l, op, c)  == AtMostOne(todo[l], Fn(op, c))

ConnType == [state : States, index : {"kNew", "kAdded", "kDeleted"},
             events : SUBSET {"R", "W"}, out : BOOLEAN, late : BOOLEAN]
UserType == {NoCall} \cup [op : UserCallbacks, c : Conns]
LoopType == [phase : {"poll", "dispatch", "run"}, active : [Conns -> SUBSET Callbacks],
             accept : BOOLEAN, at : SUBSET Conns, batch : Seq(Functor), pos : Nat \ {0},
             user : UserType]
CallType == {NoCall} \cup [op : {"send", "store", "shutdown"}, c : Conns]

Types ==
  /\ numThreads \in 0..PoolMax
  /\ next \in 0..PoolMax /\ (next = 0 \/ next < numThreads)
  /\ connections \subseteq Conns /\ kept \subseteq Conns
  /\ home \in [Conns -> Loops]
  /\ conn \in [Conns -> ConnType]
  /\ pending \in [Loops -> Seq(Functor)]
  /\ loop \in [Loops -> LoopType]
  /\ call \in CallType

\* Where a loop is.
LoopInv(l) ==
  /\ loop[l].pos <= Len(loop[l].batch) + 1
  /\ loop[l].phase # "run" => loop[l].batch = <<>> /\ loop[l].pos = 1
  /\ loop[l].phase # "dispatch" => \A c \in Conns : loop[l].active[c] = {}
  /\ loop[l].phase = "poll" => loop[l].user = NoCall

Base1 == Types /\ \A l \in Loops : LoopInv(l)

New == {"none", "kConnecting"}

User(l, op, c) == loop[l].user = [op |-> op, c |-> c]

\* Who refers to a connection, and from where.
RefInv(c) ==
  /\ \A l \in Loops :
       /\ loop[l].active[c] # {} => home[c] = l /\ conn[c].state \notin New
       /\ ~("close" \in loop[l].active[c] /\ "read" \in loop[l].active[c])
       /\ \A op \in UserCallbacks : User(l, op, c) =>
            home[c] = l /\ conn[c].state \notin New /\ (op = "down" => loop[l].phase = "run")
       /\ \A op \in Ops : Waits(l, op, c) =>
            /\ l = IF op = "remove" THEN Base ELSE home[c]
            /\ conn[c].state # "none"
            /\ op = "established" <=> conn[c].state = "kConnecting"
  /\ c \in kept => conn[c].state \notin New
  /\ call # NoCall /\ call.c = c => conn[c].state \notin New
  /\ conn[c].state = "none" => c \notin connections
  /\ conn[c].state = "kConnecting" => c \in connections
  /\ conn[c].state = "kConnected" => c \in connections \/ Waits(home[c], "destroyed", c)
  /\ conn[c].state \in New =>
       conn[c].events = {} /\ conn[c].out = FALSE /\ conn[c].index = "kNew" /\ conn[c].late = FALSE
  /\ "R" \in conn[c].events => ("W" \in conn[c].events <=> conn[c].out)

Open(c)    == c \in connections /\ conn[c].state # "kConnecting" /\ ~Waits(Base, "remove", c)
Closing(c) == Waits(Base, "remove", c) \/ Waits(home[c], "destroyed", c)
Gone(c)    == c \notin connections /\ conn[c].state # "none" /\ ~Waits(home[c], "destroyed", c)

\* The life of a connection to which no output was added after its close.
LifeInv(c) ==
  /\ Once(home[c], "established", c)
  /\ Once(Base, "remove", c)
  /\ Once(home[c], "destroyed", c)
  /\ Waits(Base, "remove", c) => c \in connections /\ home[c] # Base
  /\ Waits(home[c], "destroyed", c) => c \notin connections
  /\ Open(c) =>
       /\ conn[c].state \in {"kConnected", "kDisconnecting"}
       /\ "R" \in conn[c].events /\ conn[c].index = "kAdded"
  /\ Closing(c) =>
       /\ conn[c].state \in {"kConnected", "kDisconnecting"}
       /\ conn[c].events = {} /\ conn[c].index = "kDeleted"
       /\ "close" \notin loop[home[c]].active[c] /\ "read" \notin loop[home[c]].active[c]
  /\ Gone(c) =>
       /\ conn[c].state \in {"kDisconnected", "kDisconnecting"}
       /\ conn[c].events = {}
       /\ conn[c].index = "kNew" \/ User(home[c], "down", c)
       /\ loop[home[c]].active[c] = {}
  /\ User(home[c], "up", c) => Open(c)
  /\ User(home[c], "message", c) => Open(c)
  /\ User(home[c], "down", c) => Gone(c)

ConnInv(c) == RefInv(c) /\ (~conn[c].late => LifeInv(c))

Inv == /\ Base1
       /\ \A c \in Conns : ConnInv(c)
       /\ OnlyLateOutputBreaksClose
-----------------------------------------------------------------------------
(* What a step makes of the functors to run. *)

\* The functors to run are a sequence for each loop.
LEMMA TodoType ==
  ASSUME Base1 PROVE todo \in [Loops -> Seq(Functor)]
<1>1. ASSUME NEW l \in Loops
      PROVE  Rest(loop[l].batch, loop[l].pos) \o pending[l] \in Seq(Functor)
  <2>1. /\ loop[l].batch \in Seq(Functor) /\ pending[l] \in Seq(Functor)
        /\ loop[l].pos \in Nat \ {0} /\ loop[l].pos <= Len(loop[l].batch) + 1
    BY DEF Base1, Types, LoopInv, LoopType
  <2> QED
    BY <2>1, RestSteps
<1> QED
  BY <1>1 DEF todo

\* A step that queues nothing and runs nothing.
LEMMA TodoSame ==
  ASSUME pending' = pending,
         \A l \in Loops : loop'[l].batch = loop[l].batch /\ loop'[l].pos = loop[l].pos
  PROVE  todo' = todo
BY Zenon DEF todo

\* A step that queues a functor.
LEMMA TodoPush ==
  ASSUME Base1, NEW m \in Loops, NEW f \in Functor, pending' = Push(m, f),
         \A l \in Loops : loop'[l].batch = loop[l].batch /\ loop'[l].pos = loop[l].pos
  PROVE  todo' = [todo EXCEPT ![m] = Append(@, f)]
<1>1. ASSUME NEW l \in Loops
      PROVE  todo'[l] = IF l = m THEN Append(todo[l], f) ELSE todo[l]
  <2>1. /\ loop[l].batch \in Seq(Functor) /\ pending[l] \in Seq(Functor)
        /\ loop[l].pos \in Nat \ {0} /\ loop[l].pos <= Len(loop[l].batch) + 1
    BY DEF Base1, Types, LoopInv, LoopType
  <2>2. pending'[l] = IF l = m THEN Append(pending[l], f) ELSE pending[l]
    BY DEF Base1, Types, Push
  <2>3. Rest(loop[l].batch, loop[l].pos) \o Append(pending[l], f)
          = Append(Rest(loop[l].batch, loop[l].pos) \o pending[l], f)
    <3>1. \A b, p \in Seq(Functor), n \in Nat \ {0} :
            Rest(b, n) \o Append(p, f) = Append(Rest(b, n) \o p, f)
      BY RestAppend
    <3> QED
      BY <2>1, <3>1, Zenon
  <2>4. /\ todo'[l] = Rest(loop[l].batch, loop[l].pos) \o pending'[l]
        /\ todo[l] = Rest(loop[l].batch, loop[l].pos) \o pending[l]
    BY Zenon DEF todo
  <2> QED
    BY <2>2, <2>3, <2>4, Zenon
<1>2. todo' = [l \in Loops |-> todo'[l]] /\ todo = [l \in Loops |-> todo[l]]
  BY Zenon DEF todo
<1> QED
  BY <1>1, <1>2, Zenon

\* A step that runs the next functor of a batch, and may queue one.
LEMMA TodoPop ==
  ASSUME Base1, NEW l \in Loops, loop[l].pos <= Len(loop[l].batch),
         \A m \in Loops : /\ loop'[m].batch = loop[m].batch
                          /\ loop'[m].pos = IF m = l THEN loop[m].pos + 1 ELSE loop[m].pos
  PROVE  /\ todo[l] # <<>> /\ Head(todo[l]) = loop[l].batch[loop[l].pos]
         /\ pending' = pending => todo' = [todo EXCEPT ![l] = Tail(@)]
         /\ \A m \in Loops, f \in Functor : pending' = Push(m, f) =>
              todo' = [[todo EXCEPT ![l] = Tail(@)] EXCEPT ![m] = Append(@, f)]
<1> DEFINE q == [todo EXCEPT ![l] = Tail(@)]
<1>1. /\ loop[l].batch \in Seq(Functor) /\ pending[l] \in Seq(Functor)
      /\ loop[l].pos \in Nat \ {0} /\ loop[l].pos <= Len(loop[l].batch) + 1
  BY DEF Base1, Types, LoopInv, LoopType
<1>2. /\ Rest(loop[l].batch, loop[l].pos) \o pending[l] # <<>>
      /\ Head(Rest(loop[l].batch, loop[l].pos) \o pending[l]) = loop[l].batch[loop[l].pos]
      /\ Rest(loop[l].batch, loop[l].pos + 1) \o pending[l]
           = Tail(Rest(loop[l].batch, loop[l].pos) \o pending[l])
  <2>1. \A b, p \in Seq(Functor) : \A n \in Nat \ {0} : n <= Len(b) =>
          /\ Rest(b, n) \o p # <<>>
          /\ Head(Rest(b, n) \o p) = b[n]
          /\ Rest(b, n + 1) \o p = Tail(Rest(b, n) \o p)
    BY RestHead, Zenon
  <2> QED
    BY <1>1, <2>1, Zenon
<1>3. todo[l] = Rest(loop[l].batch, loop[l].pos) \o pending[l]
  BY Zenon DEF todo
<1>4. todo[l] # <<>> /\ Head(todo[l]) = loop[l].batch[loop[l].pos]
  BY <1>2, <1>3, Zenon
<1>5. Rest(loop[l].batch, loop[l].pos + 1) \o pending[l] = Tail(todo[l])
  BY <1>2, <1>3, Zenon
<1>6. ASSUME NEW m \in Loops PROVE Rest(loop'[m].batch, loop'[m].pos) \o pending[m] = q[m]
  <2>1. CASE m = l
    BY <1>5, <2>1, Zenon DEF todo
  <2>2. CASE m # l
    BY <2>2, Zenon DEF todo
  <2> QED
    BY <2>1, <2>2, Zenon
<1>7. pending' = pending => todo' = q
  <2>1. pending' = pending => todo' = [m \in Loops |-> Rest(loop'[m].batch, loop'[m].pos) \o pending[m]]
    BY DEF todo
  <2>2. q = [m \in Loops |-> q[m]]
    BY Zenon DEF todo
  <2> QED
    BY <1>6, <2>1, <2>2, Zenon
<1>8. ASSUME NEW m \in Loops, NEW f \in Functor, pending' = Push(m, f)
      PROVE  todo' = [q EXCEPT ![m] = Append(@, f)]
  <2>1. ASSUME NEW k \in Loops
        PROVE  Rest(loop'[k].batch, loop'[k].pos) \o pending'[k]
                 = IF k = m THEN Append(q[k], f) ELSE q[k]
    <3>1. pending'[k] = IF k = m THEN Append(pending[k], f) ELSE pending[k]
      BY <1>8 DEF Base1, Types, Push
    <3>2. loop'[k].batch \in Seq(Functor) /\ pending[k] \in Seq(Functor) /\ loop'[k].pos \in Nat \ {0}
      <4>1. loop[k].batch \in Seq(Functor) /\ pending[k] \in Seq(Functor) /\ loop[k].pos \in Nat \ {0}
        BY DEF Base1, Types, LoopType
      <4> QED
        BY <4>1
    <3>3. \A b, p \in Seq(Functor), n \in Nat \ {0} :
            Rest(b, n) \o Append(p, f) = Append(Rest(b, n) \o p, f)
      BY RestAppend
    <3>4. Rest(loop'[k].batch, loop'[k].pos) \o Append(pending[k], f)
            = Append(Rest(loop'[k].batch, loop'[k].pos) \o pending[k], f)
      BY <3>2, <3>3, Zenon
    <3> QED
      BY <1>6, <3>1, <3>4, Zenon
  <2>2. todo' = [k \in Loops |-> Rest(loop'[k].batch, loop'[k].pos) \o pending'[k]]
    BY Zenon DEF todo
  <2>3. [q EXCEPT ![m] = Append(@, f)] = [k \in Loops |-> IF k = m THEN Append(q[k], f) ELSE q[k]]
    BY Zenon DEF todo
  <2> QED
    BY <2>1, <2>2, <2>3, Zenon
<1> QED
  BY <1>4, <1>7, <1>8

\* What queueing f makes of the functors that wait.
LEMMA PushEffect ==
  ASSUME NEW q \in [Loops -> Seq(Functor)], NEW m \in Loops, NEW f \in Functor
  PROVE  LET r == [q EXCEPT ![m] = Append(@, f)]
         IN /\ r \in [Loops -> Seq(Functor)]
            /\ \A l \in Loops, g \in Functor :
                 /\ Has(r[l], g) <=> Has(q[l], g) \/ (l = m /\ g = f)
                 /\ AtMostOne(q[l], g) /\ (l # m \/ g # f \/ ~Has(q[l], g)) => AtMostOne(r[l], g)
<1> DEFINE r == [q EXCEPT ![m] = Append(@, f)]
<1>1. \A l \in Loops : r[l] = IF l = m THEN Append(q[l], f) ELSE q[l]
  OBVIOUS
<1>2. \A s \in Seq(Functor), g \in Functor :
        /\ Append(s, f) \in Seq(Functor)
        /\ Has(Append(s, f), g) <=> Has(s, g) \/ f = g
        /\ AtMostOne(s, g) /\ (f # g \/ ~Has(s, g)) => AtMostOne(Append(s, f), g)
  BY AppendHas
<1>3. r \in [Loops -> Seq(Functor)]
  OBVIOUS
<1> HIDE DEF r
<1>4. ASSUME NEW l \in Loops, NEW g \in Functor
      PROVE  /\ Has(r[l], g) <=> Has(q[l], g) \/ (l = m /\ g = f)
             /\ AtMostOne(q[l], g) /\ (l # m \/ g # f \/ ~Has(q[l], g)) => AtMostOne(r[l], g)
  <2>1. q[l] \in Seq(Functor)
    OBVIOUS
  <2>2. CASE l = m
    BY <1>1, <1>2, <2>1, <2>2, Zenon
  <2>3. CASE l # m
    BY <1>1, <2>3, Zenon
  <2> QED
    BY <2>2, <2>3
<1> QED
  BY <1>3, <1>4 DEF r

\* What taking the first functor of loop l makes of the functors that wait.
LEMMA PopEffect ==
  ASSUME NEW q \in [Loops -> Seq(Functor)], NEW l \in Loops, q[l] # <<>>
  PROVE  LET r == [q EXCEPT ![l] = Tail(@)]
         IN /\ r \in [Loops -> Seq(Functor)]
            /\ Has(q[l], Head(q[l]))
            /\ \A m \in Loops, g \in Functor :
                 /\ Has(r[m], g) => Has(q[m], g)
                 /\ Has(q[m], g) => Has(r[m], g) \/ (m = l /\ Head(q[l]) = g)
                 /\ AtMostOne(q[m], g) => AtMostOne(r[m], g)
                 /\ AtMostOne(q[m], g) /\ m = l /\ Head(q[l]) = g => ~Has(r[m], g)
<1> DEFINE r == [q EXCEPT ![l] = Tail(@)]
<1>1. \A m \in Loops : r[m] = IF m = l THEN Tail(q[m]) ELSE q[m]
  OBVIOUS
<1>2. \A s \in Seq(Functor), g \in Functor : s # <<>> =>
        /\ Tail(s) \in Seq(Functor)
        /\ Has(Tail(s), g) => Has(s, g)
        /\ Head(s) # g => (Has(Tail(s), g) <=> Has(s, g))
        /\ AtMostOne(s, g) => AtMostOne(Tail(s), g)
        /\ AtMostOne(s, g) /\ Head(s) = g => ~Has(Tail(s), g)
  BY TailHas
<1>3. r \in [Loops -> Seq(Functor)]
  OBVIOUS
<1>4. Has(q[l], Head(q[l]))
  <2>1. q[l] \in Seq(Functor)
    OBVIOUS
  <2> QED
    BY <2>1, TailHas
<1> HIDE DEF r
<1>5. ASSUME NEW m \in Loops, NEW g \in Functor
      PROVE  /\ Has(r[m], g) => Has(q[m], g)
             /\ Has(q[m], g) => Has(r[m], g) \/ (m = l /\ Head(q[l]) = g)
             /\ AtMostOne(q[m], g) => AtMostOne(r[m], g)
             /\ AtMostOne(q[m], g) /\ m = l /\ Head(q[l]) = g => ~Has(r[m], g)
  <2>1. q[m] \in Seq(Functor)
    OBVIOUS
  <2>2. CASE m = l
    <3>1. r[m] = Tail(q[m]) /\ q[m] # <<>> /\ Head(q[l]) = Head(q[m])
      BY <1>1, <2>2, Zenon
    <3>2. /\ Has(Tail(q[m]), g) => Has(q[m], g)
          /\ Head(q[m]) # g => (Has(Tail(q[m]), g) <=> Has(q[m], g))
          /\ AtMostOne(q[m], g) => AtMostOne(Tail(q[m]), g)
          /\ AtMostOne(q[m], g) /\ Head(q[m]) = g => ~Has(Tail(q[m]), g)
      BY <1>2, <2>1, <3>1, ZenonT(30)
    <3> QED
      BY <2>2, <3>1, <3>2, ZenonT(30)
  <2>3. CASE m # l
    BY <1>1, <2>3, Zenon
  <2> QED
    BY <2>2, <2>3, Zenon
<1> QED
  BY <1>3, <1>4, <1>5 DEF r
-----------------------------------------------------------------------------
(* Steps that are no part of the life of a connection. *)

LifeOps == {"established", "remove", "destroyed"}

\* What such a step may do to the members of a connection: nothing, shutdown(), output that is
\* buffered, output that was written.
ConnStep(k, j) ==
  \/ j = k
  \/ k.state \notin New /\ j = [k EXCEPT !.state = "kDisconnecting"]
  \/ /\ k.state \notin New
     /\ LET b == [k EXCEPT !.out = TRUE, !.late = @ \/ k.events = {}]
        IN j = IF IsWriting(b) THEN b ELSE EnableWriting(b)
  \/ IsWriting(k) /\ j = DisableWriting([k EXCEPT !.out = FALSE])

CalmMembers(c) ==
  /\ home'[c] = home[c]
  /\ c \in connections' <=> c \in connections
  /\ ConnStep(conn[c], conn'[c])
  /\ c \in kept' => c \in kept \/ conn[c].state \notin New
  /\ call' # NoCall /\ call'.c = c => (call # NoCall /\ call.c = c) \/ conn[c].state \notin New

\* A callback of the user that may be entered meanwhile.
MayEnter(l, op, c) ==
  /\ home[c] = l /\ conn[c].state \notin New /\ op # "down"
  /\ op = "complete" \/ conn[c].late \/ Open(c)

CalmLoop(l, c) ==
  /\ loop'[l].active[c] \subseteq loop[l].active[c]
  /\ \A op \in UserCallbacks : User(l, op, c)' =>
       (User(l, op, c) /\ loop'[l].phase = loop[l].phase) \/ MayEnter(l, op, c)
  /\ User(l, "down", c) => User(l, "down", c)'

\* A functor that may be queued meanwhile.
MayQueue(l, op, c) == op \notin LifeOps /\ l = home[c] /\ conn[c].state \notin New

CalmTodo(l, c) ==
  /\ \A op \in Ops : Waits(l, op, c)' => Waits(l, op, c) \/ MayQueue(l, op, c)
  /\ \A op \in LifeOps : /\ Waits(l, op, c) => Waits(l, op, c)'
                         /\ Once(l, op, c) => Once(l, op, c)'

Calm(c) == CalmMembers(c) /\ \A l \in Loops : CalmLoop(l, c) /\ CalmTodo(l, c)

\* What the step may make of the state and of the channel of the connection.
LEMMA ConnStepEffect ==
  ASSUME NEW k \in ConnType, NEW j, ConnStep(k, j),
         k.state \in New => k.events = {},
         "R" \in k.events => ("W" \in k.events <=> k.out)
  PROVE  /\ j \in ConnType
         /\ j.state = k.state \/ (k.state \notin New /\ j.state = "kDisconnecting")
         /\ k.state \in New => j = k
         /\ k.late => j.late
         /\ "R" \in j.events <=> "R" \in k.events
         /\ "R" \in j.events => ("W" \in j.events <=> j.out)
         /\ ~j.late => \/ j.events = k.events /\ j.index = k.index
                       \/ k.events # {} /\ ("R" \in k.events => j.index = "kAdded")
<1> USE DEF ConnType, States
<1>1. CASE j = k
  BY <1>1
<1>2. CASE k.state \notin New /\ j = [k EXCEPT !.state = "kDisconnecting"]
  BY <1>2
<1>3. CASE k.state \notin New
           /\ j = LET b == [k EXCEPT !.out = TRUE, !.late = @ \/ k.events = {}]
                  IN IF IsWriting(b) THEN b ELSE EnableWriting(b)
  <2> DEFINE b == [k EXCEPT !.out = TRUE, !.late = @ \/ k.events = {}]
  <2>1. /\ b \in ConnType /\ b.state = k.state /\ b.events = k.events /\ b.index = k.index
        /\ b.out = TRUE /\ (b.late <=> k.late \/ k.events = {})
    BY Zenon
  <2> HIDE DEF b
  <2>2. CASE IsWriting(b)
    <3>1. j = b /\ "W" \in k.events
      BY <1>3, <2>1, <2>2, Zenon DEF b, IsWriting
    <3> QED
      BY <1>3, <2>1, <3>1, Zenon
  <2>3. CASE ~IsWriting(b)
    <3>1. j = EnableWriting(b) /\ "W" \notin k.events
      BY <1>3, <2>1, <2>3, Zenon DEF b, IsWriting
    <3>2. /\ j \in ConnType /\ j.state = b.state /\ j.events = b.events \cup {"W"}
          /\ j.index = "kAdded" /\ j.out = b.out /\ j.late = b.late
      BY <2>1, <3>1, Zenon DEF EnableWriting, Update
    <3> QED
      BY <1>3, <2>1, <3>1, <3>2, Zenon
  <2> QED
    BY <2>2, <2>3, Zenon
<1>4. CASE IsWriting(k) /\ j = DisableWriting([k EXCEPT !.out = FALSE])
  <2>1. /\ j \in ConnType /\ j.state = k.state /\ j.events = k.events \ {"W"} /\ j.out = FALSE
        /\ j.late = k.late
        /\ j.index = IF k.index = "kAdded" /\ k.events \ {"W"} = {} THEN "kDeleted" ELSE "kAdded"
    BY <1>4, Zenon DEF DisableWriting, Update
  <2> QED
    BY <1>4, <2>1, Zenon DEF IsWriting
<1> QED
  BY <1>1, <1>2, <1>3, <1>4 DEF ConnStep

\* A step that is no part of the life of a connection preserves what is said of it.
LEMMA CalmKeeps ==
  ASSUME Base1, NEW c \in Conns, ConnInv(c), Calm(c)
  PROVE  ConnInv(c)'
<1>1. conn[c] \in ConnType /\ home[c] \in Loops /\ Base \in Loops
  BY BaseLoop, Zenon DEF Base1, Types
<1>2. /\ conn'[c] \in ConnType
      /\ \/ conn'[c].state = conn[c].state
         \/ conn[c].state \notin New /\ conn'[c].state = "kDisconnecting"
      /\ conn[c].state \in New => conn'[c] = conn[c]
      /\ conn[c].late => conn'[c].late
      /\ "R" \in conn'[c].events <=> "R" \in conn[c].events
      /\ "R" \in conn'[c].events => ("W" \in conn'[c].events <=> conn'[c].out)
      /\ ~conn'[c].late => \/ conn'[c].events = conn[c].events /\ conn'[c].index = conn[c].index
                           \/ conn[c].events # {} /\ ("R" \in conn[c].events => conn'[c].index = "kAdded")
  <2>1. /\ conn[c].state \in New => conn[c].events = {}
        /\ "R" \in conn[c].events => ("W" \in conn[c].events <=> conn[c].out)
        /\ ConnStep(conn[c], conn'[c])
    BY DEF ConnInv, RefInv, Calm, CalmMembers
  <2> QED
    BY <1>1, <2>1, ConnStepEffect, Zenon
<1>3. /\ conn'[c].state \in New <=> conn[c].state \in New
      /\ conn'[c].state = "none" <=> conn[c].state = "none"
      /\ conn'[c].state = "kConnecting" <=> conn[c].state = "kConnecting"
      /\ conn'[c].state = "kConnected" => conn[c].state = "kConnected"
  BY <1>2, Zenon DEF New
<1>4. RefInv(c)'
  <2>1. ASSUME NEW l \in Loops
        PROVE  /\ loop'[l].active[c] # {} => home'[c] = l /\ conn'[c].state \notin New
               /\ ~("close" \in loop'[l].active[c] /\ "read" \in loop'[l].active[c])
    <3>1. loop'[l].active[c] \subseteq loop[l].active[c] /\ home'[c] = home[c]
      BY Zenon DEF Calm, CalmMembers, CalmLoop, CalmTodo, MayEnter, MayQueue
    <3>2. /\ loop[l].active[c] # {} => home[c] = l /\ conn[c].state \notin New
          /\ ~("close" \in loop[l].active[c] /\ "read" \in loop[l].active[c])
      BY Zenon DEF ConnInv, RefInv
    <3> QED
      BY <1>3, <3>1, <3>2, Zenon
  <2>2. ASSUME NEW l \in Loops, NEW op \in UserCallbacks, User(l, op, c)'
        PROVE  home'[c] = l /\ conn'[c].state \notin New /\ (op = "down" => loop'[l].phase = "run")
    BY <1>3, <2>2 DEF Calm, CalmMembers, CalmLoop, CalmTodo, MayEnter, MayQueue, ConnInv, RefInv
  <2>3. ASSUME NEW l \in Loops, NEW op \in Ops, Waits(l, op, c)'
        PROVE  /\ l = IF op = "remove" THEN Base ELSE home'[c]
               /\ conn'[c].state # "none"
               /\ op = "established" <=> conn'[c].state = "kConnecting"
    <3>1. CASE Waits(l, op, c)
      BY <1>3, <3>1 DEF Calm, CalmMembers, CalmLoop, CalmTodo, MayEnter, MayQueue, ConnInv, RefInv
    <3>2. CASE op \notin LifeOps /\ l = home[c] /\ conn[c].state \notin New
      BY <1>3, <3>2, Zenon DEF Calm, CalmMembers, CalmLoop, CalmTodo, MayEnter, MayQueue, LifeOps, New
    <3> QED
      BY <2>3, <3>1, <3>2, Zenon DEF Calm, CalmMembers, CalmLoop, CalmTodo, MayEnter, MayQueue
  <2>4. /\ c \in kept' => conn'[c].state \notin New
        /\ call' # NoCall /\ call'.c = c => conn'[c].state \notin New
        /\ conn'[c].state = "none" => c \notin connections'
        /\ conn'[c].state = "kConnecting" => c \in connections'
    BY <1>3, Zenon DEF Calm, CalmMembers, CalmLoop, CalmTodo, MayEnter, MayQueue, ConnInv, RefInv
  <2>5. conn'[c].state = "kConnected" => c \in connections' \/ Waits(home[c], "destroyed", c)'
    BY <1>1, <1>3 DEF Calm, CalmMembers, CalmLoop, CalmTodo, MayEnter, MayQueue, ConnInv, RefInv, LifeOps
  <2>6. conn'[c].state \in New =>
          /\ conn'[c].events = {} /\ conn'[c].out = FALSE /\ conn'[c].index = "kNew"
          /\ conn'[c].late = FALSE
    BY <1>2, <1>3, Zenon DEF ConnInv, RefInv
  <2> QED
    BY <1>2, <2>1, <2>2, <2>3, <2>4, <2>5, <2>6, Zenon DEF RefInv
<1>5. ASSUME ~conn'[c].late PROVE LifeInv(c)'
  <2>1. LifeInv(c) /\ ~conn[c].late
    BY <1>2, <1>5 DEF ConnInv
  <2>h. PICK h \in Loops : h = home[c]
    BY <1>1
  <2>2. home'[c] = h
    BY <2>h, Zenon DEF Calm, CalmMembers, CalmLoop, CalmTodo, MayEnter, MayQueue
  <2>3. \A l \in Loops, op \in LifeOps :
          (Waits(l, op, c)' <=> Waits(l, op, c)) /\ (Once(l, op, c) => Once(l, op, c)')
    BY Zenon DEF Calm, CalmMembers, CalmLoop, CalmTodo, MayEnter, MayQueue, LifeOps, Ops
  <2>4. /\ Waits(Base, "remove", c)' <=> Waits(Base, "remove", c)
        /\ Waits(h, "destroyed", c)' <=> Waits(h, "destroyed", c)
        /\ Once(h, "established", c)' /\ Once(Base, "remove", c)' /\ Once(h, "destroyed", c)'
    BY <2>h, <1>1, <2>1, <2>2, <2>3, Zenon DEF LifeInv, LifeOps
  <2>5. /\ Open(c)' <=> Open(c)
        /\ Closing(c)' <=> Closing(c)
        /\ Gone(c)' <=> Gone(c)
    BY <2>h, <1>3, <2>2, <2>4, Zenon DEF Open, Closing, Gone, Calm, CalmMembers, Waits
  <2>6. loop'[h].active[c] \subseteq loop[h].active[c]
    BY <2>h, <2>2, Zenon DEF Calm, CalmMembers, CalmLoop, CalmTodo, MayEnter, MayQueue
  <2>7. /\ User(h, "down", c)' => User(h, "down", c)
        /\ User(h, "down", c) => User(h, "down", c)'
        /\ User(h, "up", c)' => Open(c)
        /\ User(h, "message", c)' => Open(c)
    BY <2>h, <2>1, <2>2, Zenon DEF Calm, CalmMembers, CalmLoop, CalmTodo, MayEnter, MayQueue, UserCallbacks, LifeInv
  <2>8. Open(c) =>
          /\ conn'[c].state \in {"kConnected", "kDisconnecting"}
          /\ "R" \in conn'[c].events /\ conn'[c].index = "kAdded"
    BY <2>h, <1>2, <1>5, <2>1, Zenon DEF LifeInv
  <2>9. Closing(c) =>
          /\ conn'[c].state \in {"kConnected", "kDisconnecting"}
          /\ conn'[c].events = {} /\ conn'[c].index = "kDeleted"
          /\ "close" \notin loop'[h].active[c] /\ "read" \notin loop'[h].active[c]
    BY <2>h, <1>2, <1>5, <2>1, <2>6, Zenon DEF LifeInv
  <2>10. Gone(c) =>
          /\ conn'[c].state \in {"kDisconnected", "kDisconnecting"}
          /\ conn'[c].events = {}
          /\ conn'[c].index = "kNew" \/ User(h, "down", c)'
          /\ loop'[h].active[c] = {}
    BY <2>h, <1>2, <1>5, <2>1, <2>6, <2>7, Zenon DEF LifeInv
  <2>11. /\ Waits(Base, "remove", c) => c \in connections' /\ h # Base
         /\ Waits(h, "destroyed", c) => c \notin connections'
    BY <2>h, <2>1, Zenon DEF LifeInv, Calm, CalmMembers
  <2>12. User(h, "down", c) => Gone(c)
    BY <2>h, <2>1 DEF LifeInv
  <2> QED
    BY <2>h, <2>2, <2>4, <2>5, <2>7, <2>8, <2>9, <2>10, <2>11, <2>12, Zenon DEF LifeInv, Waits, Once, User
<1> QED
  BY <1>4, <1>5 DEF ConnInv
-----------------------------------------------------------------------------
(* What the parts of an action make of the loops and of the functors. *)

\* A loop that is not in code of the user is in no callback.
LEMMA NoUser ==
  ASSUME NEW l, loop[l].user = NoCall
  PROVE  \A c, op : op \in UserCallbacks => ~User(l, op, c)
BY DEF User, NoCall, UserCallbacks

\* No callback is none.
LEMMA CallbackOrNone ==
  \A c, op : op \in UserCallbacks => NoCall # [op |-> op, c |-> c]
BY DEF NoCall, UserCallbacks

\* Callbacks differ in their operation or their connection.
LEMMA SameCallback ==
  \A c, op, d, o : [op |-> op, c |-> c] = [op |-> o, c |-> d] => op = o /\ c = d
OBVIOUS

\* A functor is determined by its operation and its connection.
LEMMA FnType ==
  ASSUME NEW op \in Ops, NEW c \in Conns
  PROVE  /\ Fn(op, c) \in Functor /\ Fn(op, c).op = op /\ Fn(op, c).c = c
         /\ \A f \in Functor : f = Fn(op, c) <=> f.op = op /\ f.c = c
BY DEF Fn, Functor

\* The rest of an action after callback k of a channel.
LEMMA AfterCallbackStep ==
  ASSUME Base1, NEW l \in Loops, NEW c \in Conns, NEW k \in Callbacks, NEW u \in UserType,
         Due1(l, c, k), AfterCallback(l, c, k, u)
  PROVE  /\ loop' \in [Loops -> LoopType] /\ \A m \in Loops : LoopInv(m)'
         /\ \A m \in Loops : loop'[m].batch = loop[m].batch /\ loop'[m].pos = loop[m].pos
         /\ k \notin loop'[l].active[c] /\ loop'[l].user = u
         /\ \A m \in Loops, d \in Conns :
              (m = l => \A op \in UserCallbacks : u = [op |-> op, c |-> d] => MayEnter(l, op, d))
                => CalmLoop(m, d)
<1>1. loop \in [Loops -> LoopType] /\ loop[l] \in LoopType
  BY DEF Base1, Types
<1>2. /\ loop' = [loop EXCEPT ![l] = [loop[l] EXCEPT !.active[c] = @ \ {k},
                                       !.at = IF loop[l].active[c] = {k} THEN {} ELSE {c}, !.user = u]]
  BY <1>1, Zenon DEF AfterCallback
<1> DEFINE r == [loop[l] EXCEPT !.active[c] = @ \ {k},
                                !.at = IF loop[l].active[c] = {k} THEN {} ELSE {c}, !.user = u]
<1>3. /\ r \in LoopType /\ r.phase = loop[l].phase /\ r.batch = loop[l].batch /\ r.pos = loop[l].pos
      /\ r.user = u /\ k \notin r.active[c]
      /\ \A d \in Conns : r.active[d] \subseteq loop[l].active[d]
  BY <1>1, Zenon DEF LoopType
<1> HIDE DEF r
<1>4. loop' \in [Loops -> LoopType] /\ loop'[l] = r /\ \A m \in Loops : m # l => loop'[m] = loop[m]
  BY <1>1, <1>2, <1>3 DEF r
<1>5. loop[l].phase = "dispatch" /\ loop[l].user = NoCall
  BY DEF Due1, Dispatching
<1>6. ASSUME NEW m \in Loops PROVE LoopInv(m)'
  <2>1. CASE m = l
    BY <1>3, <1>4, <1>5, <2>1, Zenon DEF Base1, LoopInv
  <2>2. CASE m # l
    BY <1>4, <2>2 DEF Base1, LoopInv
  <2> QED
    BY <2>1, <2>2, Zenon
<1>7. ASSUME NEW m \in Loops, NEW d \in Conns,
             m = l => \A op \in UserCallbacks : u = [op |-> op, c |-> d] => MayEnter(l, op, d)
      PROVE  CalmLoop(m, d)
  <2>1. CASE m = l
    BY <1>3, <1>4, <1>5, <1>7, <2>1, NoUser, Zenon DEF CalmLoop, User, UserCallbacks
  <2>2. CASE m # l
    BY <1>4, <2>2, Zenon DEF CalmLoop, User
  <2> QED
    BY <2>1, <2>2
<1>8. \A m \in Loops : loop'[m].batch = loop[m].batch /\ loop'[m].pos = loop[m].pos
  BY <1>3, <1>4, Zenon
<1> QED
  BY <1>3, <1>4, <1>6, <1>7, <1>8

\* The rest of an action after the next functor of a batch.
LEMMA AfterFunctorStep ==
  ASSUME Base1, NEW l \in Loops, NEW u \in UserType,
         Running(l), loop[l].pos <= Len(loop[l].batch), AfterFunctor(l, u)
  PROVE  /\ loop' \in [Loops -> LoopType] /\ \A m \in Loops : LoopInv(m)'
         /\ \A m \in Loops : /\ loop'[m].batch = loop[m].batch
                             /\ loop'[m].pos = IF m = l THEN loop[m].pos + 1 ELSE loop[m].pos
         /\ \A m \in Loops : loop'[m].active = loop[m].active
         /\ loop'[l].user = u /\ loop'[l].phase = "run"
         /\ \A m \in Loops, d \in Conns :
              (m = l => \A op \in UserCallbacks : u = [op |-> op, c |-> d] => MayEnter(l, op, d))
                => CalmLoop(m, d)
<1>1. loop \in [Loops -> LoopType] /\ loop[l] \in LoopType
  BY DEF Base1, Types
<1> DEFINE r == [loop[l] EXCEPT !.pos = @ + 1, !.user = u]
<1>2. loop' = [loop EXCEPT ![l] = r]
  BY <1>1, Zenon DEF AfterFunctor
<1>3. /\ r \in LoopType /\ r.phase = loop[l].phase /\ r.batch = loop[l].batch
      /\ r.pos = loop[l].pos + 1 /\ r.user = u /\ r.active = loop[l].active
  <2>1. loop[l].pos \in Nat \ {0}
    BY <1>1 DEF LoopType
  <2>2. loop[l].pos + 1 \in Nat \ {0}
    BY <2>1
  <2> QED
    BY <1>1, <2>2, Zenon DEF LoopType
<1> HIDE DEF r
<1>4. loop' \in [Loops -> LoopType] /\ loop'[l] = r /\ \A m \in Loops : m # l => loop'[m] = loop[m]
  BY <1>1, <1>2, <1>3
<1>5. loop[l].phase = "run" /\ loop[l].user = NoCall
  BY DEF Running
<1>6. ASSUME NEW m \in Loops PROVE LoopInv(m)'
  <2>1. CASE m = l
    <3>1. loop[l].pos + 1 <= Len(loop[l].batch) + 1
      BY <1>1 DEF LoopType
    <3> QED
      BY <1>3, <1>4, <1>5, <2>1, <3>1 DEF Base1, LoopInv
  <2>2. CASE m # l
    BY <1>4, <2>2 DEF Base1, LoopInv
  <2> QED
    BY <2>1, <2>2, Zenon
<1>7. ASSUME NEW m \in Loops, NEW d \in Conns,
             m = l => \A op \in UserCallbacks : u = [op |-> op, c |-> d] => MayEnter(l, op, d)
      PROVE  CalmLoop(m, d)
  <2>1. CASE m = l
    BY <1>3, <1>4, <1>5, <1>7, <2>1, NoUser DEF CalmLoop, User, UserCallbacks
  <2>2. CASE m # l
    BY <1>4, <2>2 DEF CalmLoop, User
  <2> QED
    BY <2>1, <2>2, Zenon
<1>8. /\ \A m \in Loops : /\ loop'[m].batch = loop[m].batch
                          /\ loop'[m].pos = IF m = l THEN loop[m].pos + 1 ELSE loop[m].pos
      /\ \A m \in Loops : loop'[m].active = loop[m].active
  BY <1>3, <1>4
<1> QED
  BY <1>3, <1>4, <1>5, <1>6, <1>7, <1>8, Zenon

\* When no loop changes, nothing does for a connection.
LEMMA LoopsSame ==
  ASSUME loop' = loop
  PROVE  \A l \in Loops, c \in Conns : CalmLoop(l, c)
BY DEF CalmLoop, User

\* When no functor is queued or run, nothing changes for a connection.
LEMMA CalmSame ==
  ASSUME todo' = todo
  PROVE  \A l \in Loops, c \in Conns : CalmTodo(l, c)
BY DEF CalmTodo, Waits, Once

\* A functor that is queued changes nothing for the other connections, nor for its own when it
\* is no part of its life.
LEMMA CalmPush ==
  ASSUME Base1, NEW m \in Loops, NEW f \in Functor, NEW d \in Conns,
         todo' = [todo EXCEPT ![m] = Append(@, f)], f.c = d => MayQueue(m, f.op, d)
  PROVE  \A l \in Loops : CalmTodo(l, d)
<1>1. \A l \in Loops, g \in Functor :
        /\ Has(todo'[l], g) <=> Has(todo[l], g) \/ (l = m /\ g = f)
        /\ AtMostOne(todo[l], g) /\ (l # m \/ g # f \/ ~Has(todo[l], g)) => AtMostOne(todo'[l], g)
  BY TodoType, PushEffect
<1>2. \A op \in Ops : Fn(op, d) \in Functor /\ (Fn(op, d) = f => f.c = d /\ f.op = op)
  BY FnType
<1>3. ASSUME NEW l \in Loops, NEW op \in Ops, Waits(l, op, d)'
      PROVE  Waits(l, op, d) \/ MayQueue(l, op, d)
  BY <1>1, <1>2, <1>3 DEF Waits
<1>4. ASSUME NEW l \in Loops, NEW op \in LifeOps
      PROVE  (Waits(l, op, d) => Waits(l, op, d)') /\ (Once(l, op, d) => Once(l, op, d)')
  <2>1. op \in Ops /\ Fn(op, d) # f
    BY <1>2 DEF LifeOps, Ops, MayQueue
  <2> QED
    BY <1>1, <1>2, <2>1 DEF Waits, Once
<1> QED
  BY <1>3, <1>4 DEF CalmTodo

\* A functor that is run changes nothing for the other connections, nor for its own when it is
\* no part of its life.
LEMMA CalmPop ==
  ASSUME Base1, NEW l \in Loops, NEW o \in Ops, NEW c \in Conns, NEW d \in Conns,
         todo[l] # <<>>, Head(todo[l]) = Fn(o, c),
         todo' = [todo EXCEPT ![l] = Tail(@)], c = d => o \notin LifeOps
  PROVE  \A m \in Loops : CalmTodo(m, d)
<1>1. \A m \in Loops, g \in Functor :
        /\ Has(todo'[m], g) => Has(todo[m], g)
        /\ Has(todo[m], g) => Has(todo'[m], g) \/ (m = l /\ Head(todo[l]) = g)
        /\ AtMostOne(todo[m], g) => AtMostOne(todo'[m], g)
  BY TodoType, PopEffect
<1>2. \A op \in Ops : Fn(op, d) \in Functor /\ (Fn(op, d) = Fn(o, c) => c = d /\ o = op)
  BY FnType
<1>3. ASSUME NEW m \in Loops, NEW op \in Ops, Waits(m, op, d)' PROVE Waits(m, op, d)
  BY <1>1, <1>2, <1>3 DEF Waits
<1>4. ASSUME NEW m \in Loops, NEW op \in LifeOps
      PROVE  (Waits(m, op, d) => Waits(m, op, d)') /\ (Once(m, op, d) => Once(m, op, d)')
  <2>1. op \in Ops /\ Fn(op, d) # Fn(o, c)
    BY <1>2 DEF LifeOps, Ops
  <2> QED
    BY <1>1, <1>2, <2>1 DEF Waits, Once
<1> QED
  BY <1>3, <1>4 DEF CalmTodo

\* The same for a functor that is run and queues another one.
LEMMA CalmPopPush ==
  ASSUME Base1, NEW l \in Loops, NEW o \in Ops, NEW c \in Conns, NEW d \in Conns,
         todo[l] # <<>>, Head(todo[l]) = Fn(o, c), c = d => o \notin LifeOps,
         NEW m \in Loops, NEW f \in Functor, f.c = d => MayQueue(m, f.op, d),
         todo' = [[todo EXCEPT ![l] = Tail(@)] EXCEPT ![m] = Append(@, f)]
  PROVE  \A n \in Loops : CalmTodo(n, d)
<1> DEFINE q == [todo EXCEPT ![l] = Tail(@)]
<1>1. /\ q \in [Loops -> Seq(Functor)]
      /\ \A n \in Loops, g \in Functor :
           /\ Has(q[n], g) => Has(todo[n], g)
           /\ Has(todo[n], g) => Has(q[n], g) \/ (n = l /\ Head(todo[l]) = g)
           /\ AtMostOne(todo[n], g) => AtMostOne(q[n], g)
  BY TodoType, PopEffect, Zenon
<1>2. \A op \in Ops : /\ Fn(op, d) \in Functor
                      /\ Fn(op, d) = Fn(o, c) => c = d /\ o = op
                      /\ Fn(op, d) = f => f.c = d /\ f.op = op
  BY FnType
<1>3. todo' = [q EXCEPT ![m] = Append(@, f)]
  OBVIOUS
<1> HIDE DEF q
<1>4. \A n \in Loops, g \in Functor :
        /\ Has(todo'[n], g) <=> Has(q[n], g) \/ (n = m /\ g = f)
        /\ AtMostOne(q[n], g) /\ (n # m \/ g # f \/ ~Has(q[n], g)) => AtMostOne(todo'[n], g)
  <2>1. q \in [Loops -> Seq(Functor)]
    BY <1>1
  <2>2. LET r == [q EXCEPT ![m] = Append(@, f)]
        IN \A n \in Loops, g \in Functor :
             /\ Has(r[n], g) <=> Has(q[n], g) \/ (n = m /\ g = f)
             /\ AtMostOne(q[n], g) /\ (n # m \/ g # f \/ ~Has(q[n], g)) => AtMostOne(r[n], g)
    BY <2>1, PushEffect, Zenon
  <2> QED
    BY <1>3, <2>2, Zenon
<1>5. ASSUME NEW n \in Loops, NEW op \in Ops, Waits(n, op, d)'
      PROVE  Waits(n, op, d) \/ MayQueue(n, op, d)
  BY <1>1, <1>2, <1>4, <1>5 DEF Waits
<1>6. ASSUME NEW n \in Loops, NEW op \in LifeOps
      PROVE  (Waits(n, op, d) => Waits(n, op, d)') /\ (Once(n, op, d) => Once(n, op, d)')
  <2>1. op \in Ops /\ Fn(op, d) # Fn(o, c) /\ Fn(op, d) # f
    BY <1>2 DEF LifeOps, Ops, MayQueue
  <2> QED
    BY <1>1, <1>2, <1>4, <2>1, Zenon DEF Waits, Once
<1> QED
  BY <1>5, <1>6 DEF CalmTodo
-----------------------------------------------------------------------------
(* The actions, those first that are no part of the life of a connection. *)

Inv0 == Base1 /\ \A c \in Conns : ConnInv(c)

\* It is enough that every connection sees a calm step.
LEMMA AllCalm ==
  ASSUME Inv0, Base1', \A c \in Conns : Calm(c)
  PROVE  Inv0'
BY CalmKeeps DEF Inv0

\* A step that leaves the members of the connections alone.
LEMMA MembersSame ==
  ASSUME UNCHANGED <<connections, home, conn, kept, call>>
  PROVE  \A c \in Conns : CalmMembers(c)
BY DEF CalmMembers, ConnStep

\* A loop outside code of the user moves on.
LEMMA LoopMoves ==
  ASSUME Base1, NEW l \in Loops, NEW r \in LoopType, loop' = [loop EXCEPT ![l] = r],
         loop[l].user = NoCall, r.user = NoCall,
         \A c \in Conns : r.active[c] \subseteq loop[l].active[c]
  PROVE  /\ loop' \in [Loops -> LoopType] /\ loop'[l] = r
         /\ \A m \in Loops : m # l => loop'[m] = loop[m] /\ LoopInv(m)'
         /\ \A m \in Loops, c \in Conns : CalmLoop(m, c)
<1>1. loop' \in [Loops -> LoopType] /\ loop'[l] = r /\ \A m \in Loops : m # l => loop'[m] = loop[m]
  BY DEF Base1, Types
<1>2. ASSUME NEW m \in Loops, m # l PROVE LoopInv(m)'
  BY <1>1, <1>2 DEF Base1, LoopInv
<1>3. ASSUME NEW m \in Loops, NEW c \in Conns PROVE CalmLoop(m, c)
  <2>1. CASE m = l
    BY <1>1, <2>1, NoUser DEF CalmLoop, User, NoCall, UserCallbacks
  <2>2. CASE m # l
    BY <1>1, <2>2 DEF CalmLoop, User
  <2> QED
    BY <2>1, <2>2
<1> QED
  BY <1>1, <1>2, <1>3

\* poll() is interrupted, accept() fails.
LEMMA IdleSteps ==
  ASSUME Inv0, UNCHANGED numThreads, NEW l \in Loops,
         PollInterrupted(l) \/ AcceptFails
  PROVE  Inv0'
<1>1. loop \in [Loops -> LoopType] /\ Base \in Loops
  BY BaseLoop, Zenon DEF Inv0, Base1, Types
<1>2. \E m \in Loops, r \in LoopType :
        /\ loop' = [loop EXCEPT ![m] = r] /\ loop[m].user = NoCall
        /\ r.batch = loop[m].batch /\ r.pos = loop[m].pos
        /\ r.phase = "dispatch" /\ loop[m].phase # "run"
        /\ r.user = NoCall /\ r.active = loop[m].active
  <2>1. CASE PollInterrupted(l)
    <3> DEFINE r == [loop[l] EXCEPT !.phase = "dispatch"]
    <3>1. loop[l] \in LoopType /\ loop[l].phase = "poll"
      BY <1>1, <2>1 DEF PollInterrupted
    <3>2. r \in LoopType /\ r.batch = loop[l].batch /\ r.pos = loop[l].pos /\ r.user = loop[l].user
          /\ r.active = loop[l].active /\ r.phase = "dispatch"
      BY <3>1 DEF LoopType
    <3>3. loop' = [loop EXCEPT ![l] = r]
      BY <1>1, <2>1 DEF PollInterrupted
    <3>4. loop[l].user = NoCall
      BY <3>1 DEF Inv0, Base1, LoopInv
    <3> HIDE DEF r
    <3> QED
      BY <3>1, <3>2, <3>3, <3>4, Zenon
  <2>2. CASE AcceptFails
    <3> DEFINE r == [loop[Base] EXCEPT !.accept = FALSE]
    <3>1. loop[Base] \in LoopType /\ loop[Base].phase = "dispatch" /\ loop[Base].user = NoCall
      BY <1>1, <2>2 DEF AcceptFails, Dispatching
    <3>2. /\ r \in LoopType /\ r.batch = loop[Base].batch /\ r.pos = loop[Base].pos
          /\ r.user = loop[Base].user /\ r.active = loop[Base].active /\ r.phase = loop[Base].phase
      BY <3>1, Zenon DEF LoopType
    <3>3. loop' = [loop EXCEPT ![Base] = r]
      BY <1>1, <2>2 DEF AcceptFails
    <3> HIDE DEF r
    <3> QED
      BY <1>1, <3>1, <3>2, <3>3, Zenon
  <2> QED
    BY <2>1, <2>2
<1>3. PICK m \in Loops, r \in LoopType :
        /\ loop' = [loop EXCEPT ![m] = r] /\ loop[m].user = NoCall
        /\ r.batch = loop[m].batch /\ r.pos = loop[m].pos
        /\ r.phase = "dispatch" /\ loop[m].phase # "run"
        /\ r.user = NoCall /\ r.active = loop[m].active
  BY <1>2, Zenon
<1>4. UNCHANGED <<connections, next, home, conn, pending, kept, call>>
  BY DEF PollInterrupted, AcceptFails
<1>5. /\ loop' \in [Loops -> LoopType] /\ loop'[m] = r
      /\ \A n \in Loops : n # m => loop'[n] = loop[n] /\ LoopInv(n)'
      /\ \A n \in Loops, c \in Conns : CalmLoop(n, c)
  BY <1>3, LoopMoves, Zenon DEF Inv0
<1>6. LoopInv(m)'
  BY <1>3, <1>5 DEF Inv0, Base1, LoopInv
<1>7. Base1'
  BY <1>4, <1>5, <1>6 DEF Inv0, Base1, Types
<1>8. todo' = todo
  <2>1. \A n \in Loops : loop'[n].batch = loop[n].batch /\ loop'[n].pos = loop[n].pos
    BY <1>3, <1>5
  <2> QED
    BY <1>4, <2>1, TodoSame
<1>9. \A c \in Conns : Calm(c)
  BY <1>4, <1>5, <1>8, MembersSame, CalmSame DEF Calm
<1> QED
  BY <1>7, <1>9, AllCalm

\* start(), the clients, and the pointers the user keeps.
LEMMA OutsideSteps ==
  ASSUME Inv0, UNCHANGED numThreads,
         \/ Start \/ PeerStep
         \/ \E c \in Conns : \/ Drop(c) \/ \E op \in {"send", "store"} : ThreadTests(op, c)
                             \/ \E l \in Loops : Keep(l, c)
  PROVE  Inv0'
<1>1. UNCHANGED <<connections, next, home, conn, loop, pending>>
  BY Zenon DEF Start, PeerStep, PeerSends, PeerCloses, PeerResets, Peer, Drop, ThreadTests, Keep
<1>2. /\ kept' \subseteq Conns /\ call' \in CallType
      /\ \A c \in Conns : CalmMembers(c)
  <2>1. kept \subseteq Conns /\ call \in CallType /\ \A c \in Conns : RefInv(c)
    BY DEF Inv0, Base1, Types, ConnInv
  <2>2. CASE Start \/ PeerStep
    <3>1. UNCHANGED <<kept, call>>
      BY <2>2 DEF Start, PeerStep, PeerSends, PeerCloses, PeerResets, Peer
    <3> QED
      BY <1>1, <2>1, <3>1, MembersSame, Zenon
  <2>3. ASSUME NEW c \in Conns, Drop(c)
        PROVE  kept' \subseteq Conns /\ call' \in CallType /\ \A d \in Conns : CalmMembers(d)
    BY <1>1, <2>1, <2>3 DEF Drop, CalmMembers, ConnStep
  <2>4. ASSUME NEW c \in Conns, NEW op \in {"send", "store"}, ThreadTests(op, c)
        PROVE  kept' \subseteq Conns /\ call' \in CallType /\ \A d \in Conns : CalmMembers(d)
    <3>1. kept' = kept /\ call' = [op |-> op, c |-> c] /\ conn[c].state = "kConnected"
      BY <2>4 DEF ThreadTests
    <3> QED
      BY <1>1, <2>1, <3>1 DEF CalmMembers, ConnStep, CallType, New
  <2>5. ASSUME NEW c \in Conns, NEW l \in Loops, Keep(l, c)
        PROVE  kept' \subseteq Conns /\ call' \in CallType /\ \A d \in Conns : CalmMembers(d)
    <3>1. kept' = kept \cup {c} /\ call' = call /\ User(l, "up", c)
      BY <2>5, Zenon DEF Keep, User
    <3>2. conn[c].state \notin New
      BY <2>1, <3>1 DEF RefInv, UserCallbacks
    <3> QED
      BY <1>1, <2>1, <3>1, <3>2 DEF CalmMembers, ConnStep
  <2> QED
    BY <2>2, <2>3, <2>4, <2>5
<1>3. todo' = todo
  BY <1>1, TodoSame, Zenon
<1>4. Base1'
  BY <1>1, <1>2 DEF Inv0, Base1, Types, LoopInv
<1>5. \A c \in Conns : Calm(c)
  BY <1>1, <1>2, <1>3, LoopsSame, CalmSame DEF Calm
<1> QED
  BY <1>4, <1>5, AllCalm

\* doPendingFunctors takes the functors, and returns.
LEMMA BatchSteps ==
  ASSUME Inv0, UNCHANGED numThreads, NEW l \in Loops, SwapFunctors(l) \/ EndBatch(l)
  PROVE  Inv0' /\ todo' = todo
<1>1. loop \in [Loops -> LoopType] /\ loop[l] \in LoopType /\ pending \in [Loops -> Seq(Functor)]
  BY DEF Inv0, Base1, Types
<1>2. UNCHANGED <<connections, next, home, conn, kept, call>>
  BY DEF SwapFunctors, EndBatch
<1>3. \E r \in LoopType :
        /\ loop' = [loop EXCEPT ![l] = r] /\ loop[l].user = NoCall /\ r.user = NoCall
        /\ \A c \in Conns : r.active[c] = {}
        /\ r.active = loop[l].active
        /\ \/ r.phase = "run" /\ r.batch = pending[l] /\ r.pos = 1
           \/ r.phase = "poll" /\ r.batch = <<>> /\ r.pos = 1
  <2>1. CASE SwapFunctors(l)
    <3> DEFINE r == [loop[l] EXCEPT !.phase = "run", !.batch = pending[l], !.pos = 1]
    <3>1. /\ r \in LoopType /\ r.phase = "run" /\ r.batch = pending[l] /\ r.pos = 1
          /\ r.user = loop[l].user /\ r.active = loop[l].active
      <4>1. pending[l] \in Seq(Functor) /\ 1 \in Nat \ {0}
        BY <1>1
      <4> QED
        BY <1>1, <4>1, Zenon DEF LoopType
    <3>2. loop' = [loop EXCEPT ![l] = r]
      BY <1>1, <2>1, Zenon DEF SwapFunctors
    <3> HIDE DEF r
    <3> QED
      BY <2>1, <3>1, <3>2, Zenon DEF SwapFunctors, Dispatching
  <2>2. CASE EndBatch(l)
    <3> DEFINE r == [loop[l] EXCEPT !.phase = "poll", !.batch = <<>>, !.pos = 1]
    <3>1. /\ r \in LoopType /\ r.phase = "poll" /\ r.batch = <<>> /\ r.pos = 1
          /\ r.user = loop[l].user /\ r.active = loop[l].active
      <4>1. <<>> \in Seq(Functor) /\ 1 \in Nat \ {0}
        OBVIOUS
      <4> QED
        BY <1>1, <4>1, Zenon DEF LoopType
    <3>2. loop' = [loop EXCEPT ![l] = r]
      BY <1>1, <2>2, Zenon DEF EndBatch
    <3>3. loop[l].user = NoCall /\ \A c \in Conns : loop[l].active[c] = {}
      BY <2>2 DEF EndBatch, Running, Inv0, Base1, LoopInv
    <3> HIDE DEF r
    <3> QED
      BY <3>1, <3>2, <3>3, Zenon
  <2> QED
    BY <2>1, <2>2
<1>4. PICK r \in LoopType :
        /\ loop' = [loop EXCEPT ![l] = r] /\ loop[l].user = NoCall /\ r.user = NoCall
        /\ \A c \in Conns : r.active[c] = {}
        /\ r.active = loop[l].active
        /\ \/ r.phase = "run" /\ r.batch = pending[l] /\ r.pos = 1
           \/ r.phase = "poll" /\ r.batch = <<>> /\ r.pos = 1
  BY <1>3, Zenon
<1>5. /\ loop' \in [Loops -> LoopType] /\ loop'[l] = r
      /\ \A m \in Loops : m # l => loop'[m] = loop[m] /\ LoopInv(m)'
      /\ \A m \in Loops, c \in Conns : CalmLoop(m, c)
  BY <1>4, LoopMoves, Zenon DEF Inv0
<1>6. LoopInv(l)'
  <2>1. \A s \in Seq(Functor) : 1 <= Len(s) + 1
    OBVIOUS
  <2>2. r.batch \in Seq(Functor)
    BY DEF LoopType
  <2> QED
    BY <1>4, <1>5, <2>1, <2>2 DEF LoopInv
<1>7. pending' \in [Loops -> Seq(Functor)] /\ \A m \in Loops : m # l => pending'[m] = pending[m]
  <2>1. pending' = pending \/ pending' = [pending EXCEPT ![l] = <<>>]
    BY DEF SwapFunctors, EndBatch
  <2>2. <<>> \in Seq(Functor)
    OBVIOUS
  <2> QED
    BY <1>1, <2>1, <2>2, Zenon
<1>8. Base1'
  BY <1>2, <1>5, <1>6, <1>7 DEF Inv0, Base1, Types
<1>9. ASSUME NEW m \in Loops PROVE todo'[m] = todo[m]
  <2>1. CASE m # l
    BY <1>5, <1>7, <2>1, Zenon DEF todo
  <2>2. CASE m = l /\ SwapFunctors(l)
    <3>1. loop[l].phase = "dispatch" /\ loop'[l].batch = pending[l] /\ loop'[l].pos = 1
          /\ pending'[l] = <<>>
      BY <1>1, <2>2 DEF SwapFunctors, Dispatching
    <3>2. loop[l].batch = <<>> /\ loop[l].pos = 1
      BY <3>1 DEF Inv0, Base1, LoopInv
    <3>3. todo'[l] = Rest(pending[l], 1) \o <<>> /\ todo[l] = Rest(<<>>, 1) \o pending[l]
      BY <3>1, <3>2, Zenon DEF todo
    <3>4. \A p \in Seq(Functor) : Rest(p, 1) \o <<>> = p /\ Rest(<<>>, 1) \o p = p
      BY DEF Rest
    <3> QED
      BY <1>1, <2>2, <3>3, <3>4, Zenon
  <2>3. CASE m = l /\ EndBatch(l)
    <3>1. /\ loop[l].pos > Len(loop[l].batch) /\ loop'[l].batch = <<>> /\ loop'[l].pos = 1
          /\ pending' = pending
      BY <1>1, <2>3 DEF EndBatch
    <3>2. todo'[l] = Rest(<<>>, 1) \o pending[l]
          /\ todo[l] = Rest(loop[l].batch, loop[l].pos) \o pending[l]
      BY <3>1, Zenon DEF todo
    <3>3. \A p \in Seq(Functor) : Rest(<<>>, 1) \o p = p
      BY DEF Rest
    <3>4. /\ loop[l].batch \in Seq(Functor) /\ pending[l] \in Seq(Functor)
          /\ loop[l].pos \in Nat \ {0} /\ loop[l].pos <= Len(loop[l].batch) + 1
      BY <1>1, Zenon DEF Inv0, Base1, LoopInv, LoopType
    <3>5. Rest(loop[l].batch, loop[l].pos) \o pending[l] = pending[l]
      BY <3>1, <3>4, RestSteps, Zenon
    <3> QED
      BY <2>3, <3>2, <3>3, <3>4, <3>5, Zenon
  <2> QED
    BY <2>1, <2>2, <2>3, Zenon
<1>10. todo' = todo
  <2>1. todo' = [m \in Loops |-> todo'[m]] /\ todo = [m \in Loops |-> todo[m]]
    BY Zenon DEF todo
  <2> QED
    BY <1>9, <2>1, Zenon
<1>11. \A c \in Conns : Calm(c)
  BY <1>2, <1>5, <1>10, MembersSame, CalmSame, Zenon DEF Calm
<1> QED
  BY <1>8, <1>10, <1>11, AllCalm, Zenon

\* Channel callbacks that neither close nor write.
LEMMA ReadSteps ==
  ASSUME Inv0, UNCHANGED numThreads, NEW l \in Loops, NEW c \in Conns, NEW k \in Callbacks,
         NEW u \in UserType, Due1(l, c, k), AfterCallback(l, c, k, u),
         u = NoCall \/ (k = "read" /\ u = [op |-> "message", c |-> c]),
         UNCHANGED <<connections, next, home, conn, pending, kept, call>>
  PROVE  Inv0'
<1>1. loop[l].active[c] # {} /\ k \in loop[l].active[c]
  BY Zenon DEF Due1
<1>2. ConnInv(c) /\ home[c] = l /\ conn[c].state \notin New
  BY <1>1, Zenon DEF Inv0, ConnInv, RefInv
<1>3. ASSUME k = "read", ~conn[c].late PROVE Open(c)
  <2>1. LifeInv(c) /\ loop[home[c]].active[c] # {} /\ "read" \in loop[home[c]].active[c]
    BY <1>1, <1>2, <1>3, Zenon DEF ConnInv
  <2>2. ~Closing(c) /\ ~Gone(c)
    BY <2>1, Zenon DEF LifeInv
  <2> QED
    BY <1>2, <2>2, Zenon DEF Open, Closing, Gone, New
<1>4. \A d \in Conns, op \in UserCallbacks : u = [op |-> op, c |-> d] => MayEnter(l, op, d)
  <2>1. CASE u = NoCall
    BY <2>1, Zenon DEF NoCall, UserCallbacks
  <2>2. CASE k = "read" /\ u = [op |-> "message", c |-> c]
    BY <1>2, <1>3, <2>2, Zenon DEF MayEnter
  <2> QED
    BY <2>1, <2>2, Zenon
<1>5. /\ loop' \in [Loops -> LoopType] /\ \A m \in Loops : LoopInv(m)'
      /\ \A m \in Loops : loop'[m].batch = loop[m].batch /\ loop'[m].pos = loop[m].pos
      /\ \A m \in Loops, d \in Conns : CalmLoop(m, d)
  BY <1>4, AfterCallbackStep, Zenon DEF Inv0
<1>6. todo' = todo
  BY <1>5, TodoSame, Zenon
<1>7. Base1'
  BY <1>5, Zenon DEF Inv0, Base1, Types
<1>8. \A d \in Conns : Calm(d)
  BY <1>5, <1>6, MembersSame, CalmSame, Zenon DEF Calm
<1> QED
  BY <1>7, <1>8, AllCalm, Zenon

\* What sendInLoop makes of a connection: its output is written, and the write complete callback
\* queued, or it is buffered.
LEMMA SendEffect ==
  ASSUME Base1, NEW c \in Conns, conn[c].state \notin New, SendString(c) \/ SendBuffer(c)
  PROVE  /\ \/ conn' = conn
            \/ conn' = [conn EXCEPT ![c] = Buffered(c)]
         /\ ConnStep(conn[c], Buffered(c))
         /\ \/ pending' = pending
            \/ pending' = Push(home[c], Fn("complete", c))
            \/ pending' = Push(home[c], Fn("completeBound", c))
<1>1. ConnStep(conn[c], Buffered(c))
  BY Zenon DEF ConnStep, Buffered
<1>2. CASE SendString(c)
  BY <1>1, <1>2, Zenon DEF SendString, Fn
<1>3. CASE SendBuffer(c)
  BY <1>1, <1>3, Zenon DEF SendBuffer, Fn
<1> QED
  BY <1>2, <1>3, Zenon

\* The members of the connections after such a step.
LEMMA ConnStepKeeps ==
  ASSUME Inv0, NEW c \in Conns, NEW j, ConnStep(conn[c], j), conn' = [conn EXCEPT ![c] = j],
         UNCHANGED <<connections, home, kept>>,
         call' = call \/ call' = NoCall \/ (call # NoCall /\ call'.c = call.c)
  PROVE  conn' \in [Conns -> ConnType] /\ \A d \in Conns : CalmMembers(d)
<1>1. /\ conn \in [Conns -> ConnType] /\ conn[c] \in ConnType
      /\ conn[c].state \in New => conn[c].events = {}
      /\ "R" \in conn[c].events => ("W" \in conn[c].events <=> conn[c].out)
  BY Zenon DEF Inv0, Base1, Types, ConnInv, RefInv
<1>2. j \in ConnType
  BY <1>1, ConnStepEffect, Zenon
<1>3. conn' \in [Conns -> ConnType] /\ conn'[c] = j /\ \A d \in Conns : d # c => conn'[d] = conn[d]
  BY <1>1, <1>2, Zenon
<1>4. ASSUME NEW d \in Conns PROVE ConnStep(conn[d], conn'[d])
  <2>1. CASE d = c
    BY <1>3, <2>1, Zenon
  <2>2. CASE d # c
    BY <1>3, <2>2, Zenon DEF ConnStep
  <2> QED
    BY <2>1, <2>2, Zenon
<1> QED
  BY <1>3, <1>4, Zenon DEF CalmMembers

\* Queueing keeps the type of the queues.
LEMMA PushType ==
  ASSUME Base1, NEW m \in Loops, NEW f \in Functor, pending' = Push(m, f)
  PROVE  pending' \in [Loops -> Seq(Functor)]
<1>1. pending \in [Loops -> Seq(Functor)]
  BY Zenon DEF Base1, Types
<1>2. Append(pending[m], f) \in Seq(Functor)
  BY <1>1
<1> QED
  BY <1>1, <1>2, Zenon DEF Push

\* send() and shutdown() in a callback of the connection.
LEMMA UserCalls ==
  ASSUME Inv0, UNCHANGED numThreads, NEW l \in Loops, NEW c \in Conns, Send(l, c) \/ Shutdown(l, c)
  PROVE  Inv0'
<1>1. conn[c].state = "kConnected" /\ conn[c].state \notin New /\ home[c] \in Loops
      /\ UNCHANGED <<connections, next, home, loop, kept, call>>
  BY Zenon DEF Send, Shutdown, New, Inv0, Base1, Types
<1>2. \E j : ConnStep(conn[c], j) /\ conn' = [conn EXCEPT ![c] = j]
  <2>1. conn = [conn EXCEPT ![c] = conn[c]]
    BY Zenon DEF Inv0, Base1, Types
  <2>2. CASE Send(l, c)
    BY <1>1, <2>1, <2>2, SendEffect, Zenon DEF Send, Inv0, ConnStep
  <2>3. CASE Shutdown(l, c)
    <3>1. conn' = [conn EXCEPT ![c] = [conn[c] EXCEPT !.state = "kDisconnecting"]]
      BY <2>3, Zenon DEF Shutdown, Inv0, Base1, Types
    <3> QED
      BY <1>1, <3>1, Zenon DEF ConnStep
  <2> QED
    BY <2>2, <2>3, Zenon
<1>3. conn' \in [Conns -> ConnType] /\ \A d \in Conns : CalmMembers(d)
  BY <1>1, <1>2, ConnStepKeeps, Zenon
<1>4. \/ pending' = pending
      \/ pending' = Push(home[c], Fn("complete", c))
      \/ pending' = Push(home[c], Fn("completeBound", c))
  BY <1>1, SendEffect, Zenon DEF Send, Shutdown, Inv0
<1>5. \A op \in {"complete", "completeBound"} :
        Fn(op, c) \in Functor /\ Fn(op, c).c = c /\ MayQueue(home[c], Fn(op, c).op, c)
  BY <1>1, FnType DEF Ops, MayQueue, LifeOps
<1>6. pending' \in [Loops -> Seq(Functor)]
  BY <1>1, <1>4, <1>5, PushType, Zenon DEF Inv0, Base1, Types
<1>7. ASSUME NEW d \in Conns PROVE \A m \in Loops : CalmTodo(m, d)
  <2>1. CASE pending' = pending
    BY <1>1, <2>1, TodoSame, CalmSame, Zenon
  <2>2. ASSUME NEW op \in {"complete", "completeBound"}, pending' = Push(home[c], Fn(op, c))
        PROVE  \A m \in Loops : CalmTodo(m, d)
    <3>1. todo' = [todo EXCEPT ![home[c]] = Append(@, Fn(op, c))]
      BY <1>1, <1>5, <2>2, TodoPush, Zenon DEF Inv0
    <3> QED
      BY <1>1, <1>5, <3>1, CalmPush, Zenon DEF Inv0
  <2> QED
    BY <1>4, <2>1, <2>2, Zenon
<1>8. Base1'
  BY <1>1, <1>3, <1>6, Zenon DEF Inv0, Base1, Types, LoopInv
<1>9. \A d \in Conns : Calm(d)
  BY <1>1, <1>3, <1>7, LoopsSame, Zenon DEF Calm
<1> QED
  BY <1>8, <1>9, AllCalm, Zenon

\* shutdown() in another thread stores kDisconnecting.
LEMMA ThreadSets ==
  ASSUME Inv0, UNCHANGED numThreads, ThreadStores
  PROVE  Inv0'
<1>1. PICK c \in Conns : call = Fn("store", c)
  <2>1. call \in CallType /\ call.op = "store"
    BY Zenon DEF ThreadStores, Inv0, Base1, Types
  <2> QED
    BY <2>1, SMT DEF CallType, Fn, NoCall
<1>2. call # NoCall /\ call.c = c
  BY <1>1, Zenon DEF Fn, NoCall
<1>3. conn[c].state \notin New
  BY <1>2, Zenon DEF Inv0, Base1, Types, ConnInv, RefInv
<1>4. UNCHANGED <<connections, next, home, loop, pending, kept>> /\ call' = Fn("shutdown", c)
  BY <1>1, SMT DEF ThreadStores, Fn
<1>5. ConnStep(conn[c], [conn[c] EXCEPT !.state = "kDisconnecting"])
      /\ conn' = [conn EXCEPT ![c] = [conn[c] EXCEPT !.state = "kDisconnecting"]]
  <2>1. conn' = [conn EXCEPT ![c] = [conn[c] EXCEPT !.state = "kDisconnecting"]]
    BY <1>2, Zenon DEF ThreadStores, Inv0, Base1, Types
  <2> QED
    BY <1>3, <2>1, Zenon DEF ConnStep
<1>6. call'.c = c /\ call' \in CallType
  BY <1>4, SMT DEF Fn, CallType
<1>7. conn' \in [Conns -> ConnType] /\ \A d \in Conns : CalmMembers(d)
  BY <1>2, <1>4, <1>5, <1>6, ConnStepKeeps, Zenon
<1>8. todo' = todo
  BY <1>4, TodoSame, Zenon
<1>9. Base1'
  BY <1>4, <1>6, <1>7, Zenon DEF Inv0, Base1, Types, LoopInv
<1>10. \A d \in Conns : Calm(d)
  BY <1>4, <1>7, <1>8, LoopsSame, CalmSame, Zenon DEF Calm
<1> QED
  BY <1>9, <1>10, AllCalm, Zenon

\* Another thread queues the call it has tested state_ for.
LEMMA ThreadCalls ==
  ASSUME Inv0, UNCHANGED numThreads, ThreadQueues
  PROVE  Inv0'
<1>1. PICK c \in Conns, op \in {"send", "shutdown"} : call = Fn(op, c)
  <2>1. call \in CallType /\ call.op \in {"send", "shutdown"}
    BY Zenon DEF ThreadQueues, Inv0, Base1, Types
  <2> QED
    BY <2>1, SMT DEF CallType, Fn, NoCall
<1>2. call # NoCall /\ call.c = c /\ call.op = op
  BY <1>1, Zenon DEF Fn, NoCall
<1>3. conn[c].state \notin New /\ home[c] \in Loops
  BY <1>2, Zenon DEF Inv0, Base1, Types, ConnInv, RefInv
<1>4. UNCHANGED <<connections, next, home, conn, loop, kept>> /\ call' = NoCall
      /\ pending' = Push(home[c], Fn(op, c))
  BY <1>1, <1>2, Zenon DEF ThreadQueues
<1>5. \E j : ConnStep(conn[c], j) /\ conn' = [conn EXCEPT ![c] = j]
  <2>1. conn = [conn EXCEPT ![c] = conn[c]]
    BY Zenon DEF Inv0, Base1, Types
  <2> QED
    BY <1>4, <2>1, Zenon DEF ConnStep
<1>6. conn' \in [Conns -> ConnType] /\ \A d \in Conns : CalmMembers(d)
  BY <1>4, <1>5, ConnStepKeeps, Zenon
<1>7. Fn(op, c) \in Functor /\ Fn(op, c).c = c /\ MayQueue(home[c], Fn(op, c).op, c)
  BY <1>3, FnType, SMTT(30) DEF Ops, MayQueue, LifeOps
<1>8. pending' \in [Loops -> Seq(Functor)]
  BY <1>3, <1>4, <1>7, PushType, Zenon DEF Inv0
<1>9. todo' = [todo EXCEPT ![home[c]] = Append(@, Fn(op, c))]
  BY <1>3, <1>4, <1>7, TodoPush, Zenon DEF Inv0
<1>10. \A d \in Conns, m \in Loops : CalmTodo(m, d)
  BY <1>3, <1>7, <1>9, CalmPush, Zenon DEF Inv0
<1>11. Base1'
  BY <1>4, <1>6, <1>8, Zenon DEF Inv0, Base1, Types, LoopInv, CallType
<1>12. \A d \in Conns : Calm(d)
  BY <1>4, <1>6, <1>10, LoopsSame, Zenon DEF Calm
<1> QED
  BY <1>11, <1>12, AllCalm, Zenon

\* handleWrite.
LEMMA WriteStep ==
  ASSUME Inv0, UNCHANGED numThreads, NEW l \in Loops, NEW c \in Conns, HandleWrite(l, c)
  PROVE  Inv0'
<1>1. Due1(l, c, "write") /\ AfterCallback(l, c, "write", NoCall) /\ "write" \in Callbacks
      /\ NoCall \in UserType /\ UNCHANGED <<connections, next, home, kept, call>>
  BY Zenon DEF HandleWrite, UserType, Callbacks
<1>2. home[c] = l /\ conn[c].state \notin New
  <2>1. loop[l].active[c] # {}
    BY <1>1, Zenon DEF Due1
  <2> QED
    BY <2>1, Zenon DEF Inv0, ConnInv, RefInv
<1>3. /\ loop' \in [Loops -> LoopType] /\ \A m \in Loops : LoopInv(m)'
      /\ \A m \in Loops : loop'[m].batch = loop[m].batch /\ loop'[m].pos = loop[m].pos
      /\ \A m \in Loops, d \in Conns : CalmLoop(m, d)
  <2>1. \A d \in Conns, op \in UserCallbacks : NoCall # [op |-> op, c |-> d]
    BY Zenon DEF NoCall, UserCallbacks
  <2> QED
    BY <1>1, <2>1, AfterCallbackStep, SMTT(30) DEF Inv0
<1>4. \E j : ConnStep(conn[c], j) /\ conn' = [conn EXCEPT ![c] = j]
  <2>1. conn = [conn EXCEPT ![c] = conn[c]]
    BY Zenon DEF Inv0, Base1, Types
  <2>2. CASE conn' = conn
    BY <2>1, <2>2, Zenon DEF ConnStep
  <2>3. CASE conn' # conn
    <3>1. IsWriting(conn[c])
          /\ conn' = [conn EXCEPT ![c] = DisableWriting([conn[c] EXCEPT !.out = FALSE])]
      BY <2>3, Zenon DEF HandleWrite, Inv0, Base1, Types
    <3> QED
      BY <3>1, Zenon DEF ConnStep
  <2> QED
    BY <2>2, <2>3, Zenon
<1>5. conn' \in [Conns -> ConnType] /\ \A d \in Conns : CalmMembers(d)
  BY <1>1, <1>4, ConnStepKeeps, Zenon
<1>6. pending' = pending \/ pending' = Push(l, Fn("complete", c))
  BY Zenon DEF HandleWrite, Fn
<1>7. Fn("complete", c) \in Functor /\ MayQueue(l, Fn("complete", c).op, c) /\ Fn("complete", c).c = c
  BY <1>2, FnType, Zenon DEF Ops, MayQueue, LifeOps
<1>8. pending' \in [Loops -> Seq(Functor)]
  BY <1>6, <1>7, PushType, Zenon DEF Inv0, Base1, Types
<1>9. ASSUME NEW d \in Conns PROVE \A m \in Loops : CalmTodo(m, d)
  <2>1. CASE pending' = pending
    BY <1>3, <2>1, TodoSame, CalmSame, Zenon
  <2>2. CASE pending' = Push(l, Fn("complete", c))
    <3>1. todo' = [todo EXCEPT ![l] = Append(@, Fn("complete", c))]
      BY <1>3, <1>7, <2>2, TodoPush, Zenon DEF Inv0
    <3> QED
      BY <1>7, <3>1, CalmPush, Zenon DEF Inv0
  <2> QED
    BY <1>6, <2>1, <2>2, Zenon
<1>10. Base1'
  BY <1>1, <1>3, <1>5, <1>8, Zenon DEF Inv0, Base1, Types
<1>11. \A d \in Conns : Calm(d)
  BY <1>3, <1>5, <1>9, Zenon DEF Calm
<1> QED
  BY <1>10, <1>11, AllCalm, Zenon

\* A functor is run: what becomes of the loops.
LEMMA FunctorLoop ==
  ASSUME Inv0, NEW l \in Loops, NEW op \in Ops, NEW c \in Conns, NEW u \in UserType,
         Next1(l, op, c), AfterFunctor(l, u)
  PROVE  /\ loop' \in [Loops -> LoopType] /\ \A m \in Loops : LoopInv(m)'
         /\ \A m \in Loops : loop'[m].active = loop[m].active
         /\ loop'[l].user = u /\ loop'[l].phase = "run" /\ loop[l].phase = "run"
         /\ loop[l].user = NoCall
         /\ \A m \in Loops, d \in Conns :
              (m = l => \A o \in UserCallbacks : u = [op |-> o, c |-> d] => MayEnter(l, o, d))
                => CalmLoop(m, d)
<1>1. /\ Running(l) /\ loop[l].pos <= Len(loop[l].batch)
      /\ loop[l].batch[loop[l].pos] = Fn(op, c) /\ loop[l].phase = "run" /\ loop[l].user = NoCall
  BY Zenon DEF Next1, Fn, Running
<1> QED
  BY <1>1, AfterFunctorStep, Zenon DEF Inv0

\* A functor is run that enters a callback only where that is allowed: the loop is calm.
LEMMA FunctorCalm ==
  ASSUME Inv0, NEW l \in Loops, NEW op \in Ops, NEW c \in Conns, NEW u \in UserType,
         Next1(l, op, c), AfterFunctor(l, u), NEW m \in Loops, NEW d \in Conns,
         m = l => \A o \in UserCallbacks : u = [op |-> o, c |-> d] => MayEnter(l, o, d)
  PROVE  CalmLoop(m, d)
BY FunctorLoop, Zenon

\* A functor is run: what becomes of the functors to run, and what was known of this one.
LEMMA FunctorTodo ==
  ASSUME Inv0, NEW l \in Loops, NEW op \in Ops, NEW c \in Conns, NEW u \in UserType,
         Next1(l, op, c), AfterFunctor(l, u)
  PROVE  /\ todo[l] # <<>> /\ Head(todo[l]) = Fn(op, c) /\ Waits(l, op, c)
         /\ op = "remove" => l = Base
         /\ op # "remove" => l = home[c]
         /\ conn[c].state # "none" /\ (op = "established" <=> conn[c].state = "kConnecting")
         /\ pending' = pending => todo' = [todo EXCEPT ![l] = Tail(@)]
         /\ \A m \in Loops, f \in Functor : pending' = Push(m, f) =>
              todo' = [[todo EXCEPT ![l] = Tail(@)] EXCEPT ![m] = Append(@, f)]
<1>1. /\ Running(l) /\ loop[l].pos <= Len(loop[l].batch)
      /\ loop[l].batch[loop[l].pos] = Fn(op, c)
  BY Zenon DEF Next1, Fn, Running
<1>2. \A m \in Loops : /\ loop'[m].batch = loop[m].batch
                       /\ loop'[m].pos = IF m = l THEN loop[m].pos + 1 ELSE loop[m].pos
  BY <1>1, AfterFunctorStep, Zenon DEF Inv0
<1>3. /\ todo[l] # <<>> /\ Head(todo[l]) = Fn(op, c)
      /\ pending' = pending => todo' = [todo EXCEPT ![l] = Tail(@)]
      /\ \A m \in Loops, f \in Functor : pending' = Push(m, f) =>
           todo' = [[todo EXCEPT ![l] = Tail(@)] EXCEPT ![m] = Append(@, f)]
  BY <1>1, <1>2, TodoPop, Zenon DEF Inv0
<1>4. Waits(l, op, c)
  <2>1. Has(todo[l], Head(todo[l]))
    BY <1>3, TodoType, PopEffect, Zenon DEF Inv0
  <2> QED
    BY <1>3, <2>1, Zenon DEF Waits
<1>5. /\ l = IF op = "remove" THEN Base ELSE home[c]
      /\ conn[c].state # "none" /\ (op = "established" <=> conn[c].state = "kConnecting")
  BY <1>4 DEF Inv0, ConnInv, RefInv
<1> QED
  BY <1>3, <1>4, <1>5, Zenon

\* The functors that are no part of the life of a connection.
LEMMA OtherFunctors ==
  ASSUME Inv0, UNCHANGED numThreads, NEW l \in Loops, NEW c \in Conns,
         SendFunctor(l, c) \/ ShutdownFunctor(l, c) \/ WriteComplete(l, c)
  PROVE  Inv0'
<1>1. PICK op \in {"send", "shutdown", "complete", "completeBound"}, u \in UserType :
        /\ Next1(l, op, c) /\ AfterFunctor(l, u) /\ (u = NoCall \/ u = [op |-> "complete", c |-> c])
        /\ SendFunctor(l, c) \/ UNCHANGED <<conn, pending>>
  <2>1. NoCall \in UserType /\ [op |-> "complete", c |-> c] \in UserType
    BY Zenon DEF UserType, UserCallbacks
  <2> QED
    BY <2>1, Zenon DEF SendFunctor, ShutdownFunctor, WriteComplete
<1>2. op \in Ops /\ op \notin LifeOps
  BY Zenon DEF Ops, LifeOps
<1>3. UNCHANGED <<connections, next, home, kept, call>>
  BY Zenon DEF SendFunctor, ShutdownFunctor, WriteComplete
<1>4. /\ todo[l] # <<>> /\ Head(todo[l]) = Fn(op, c)
      /\ l = home[c] /\ conn[c].state \notin New
      /\ pending' = pending => todo' = [todo EXCEPT ![l] = Tail(@)]
      /\ \A m \in Loops, f \in Functor : pending' = Push(m, f) =>
           todo' = [[todo EXCEPT ![l] = Tail(@)] EXCEPT ![m] = Append(@, f)]
  BY <1>1, <1>2, FunctorTodo DEF New, LifeOps
<1>5. \A d \in Conns, o \in UserCallbacks : u = [op |-> o, c |-> d] => MayEnter(l, o, d)
  <2>1. CASE u = NoCall
    BY <2>1, Zenon DEF NoCall, UserCallbacks
  <2>2. CASE u = [op |-> "complete", c |-> c]
    BY <1>4, <2>2, Zenon DEF MayEnter
  <2> QED
    BY <1>1, <2>1, <2>2, Zenon
<1>6. /\ loop' \in [Loops -> LoopType] /\ \A m \in Loops : LoopInv(m)'
      /\ \A m \in Loops, d \in Conns : CalmLoop(m, d)
  BY <1>1, <1>2, <1>5, FunctorLoop
<1>7. \E j : ConnStep(conn[c], j) /\ conn' = [conn EXCEPT ![c] = j]
  <2>1. conn = [conn EXCEPT ![c] = conn[c]]
    BY Zenon DEF Inv0, Base1, Types
  <2>2. conn' = conn \/ (ConnStep(conn[c], Buffered(c)) /\ conn' = [conn EXCEPT ![c] = Buffered(c)])
    BY <1>1, <1>4, SendEffect, Zenon DEF SendFunctor, Inv0
  <2> QED
    BY <2>1, <2>2, Zenon DEF ConnStep
<1>8. conn' \in [Conns -> ConnType] /\ \A d \in Conns : CalmMembers(d)
  BY <1>3, <1>7, ConnStepKeeps, Zenon
<1>9. \/ pending' = pending
      \/ pending' = Push(l, Fn("complete", c))
      \/ pending' = Push(l, Fn("completeBound", c))
  BY <1>1, <1>4, SendEffect, Zenon DEF SendFunctor, Inv0
<1>10. \A o \in {"complete", "completeBound"} :
         Fn(o, c) \in Functor /\ Fn(o, c).c = c /\ MayQueue(l, Fn(o, c).op, c)
  BY <1>4, FnType DEF Ops, MayQueue, LifeOps
<1>11. pending' \in [Loops -> Seq(Functor)]
  BY <1>9, <1>10, PushType, Zenon DEF Inv0, Base1, Types
<1>12. ASSUME NEW d \in Conns PROVE \A m \in Loops : CalmTodo(m, d)
  <2>1. CASE pending' = pending
    BY <1>2, <1>4, <2>1, CalmPop, Zenon DEF Inv0
  <2>2. ASSUME NEW o \in {"complete", "completeBound"}, pending' = Push(l, Fn(o, c))
        PROVE  \A m \in Loops : CalmTodo(m, d)
    <3>1. PICK m \in Loops, f \in Functor : m = l /\ f = Fn(o, c)
      BY <1>10, Zenon
    <3>2. f.c = d => MayQueue(m, f.op, d)
      BY <1>10, <3>1, Zenon
    <3>3. todo' = [[todo EXCEPT ![l] = Tail(@)] EXCEPT ![m] = Append(@, f)]
      BY <1>4, <2>2, <3>1, ZenonT(30)
    <3> QED
      BY <1>2, <1>4, <3>2, <3>3, CalmPopPush, Zenon DEF Inv0
  <2> QED
    BY <1>9, <2>1, <2>2, Zenon
<1>13. Base1'
  BY <1>3, <1>6, <1>8, <1>11, Zenon DEF Inv0, Base1, Types
<1>14. \A d \in Conns : Calm(d)
  BY <1>6, <1>8, <1>12, Zenon DEF Calm
<1> QED
  BY <1>13, <1>14, AllCalm, Zenon
-----------------------------------------------------------------------------
(* The life of a connection. *)

\* It is enough that the other connections see a calm step.
LEMMA OthersCalm ==
  ASSUME Inv0, Base1', NEW c \in Conns, ConnInv(c)', \A d \in Conns : d # c => Calm(d)
  PROVE  Inv0'
BY CalmKeeps, Zenon DEF Inv0

\* poll() returns: a channel is active only when it is registered.
LEMMA PollStep ==
  ASSUME Inv0, UNCHANGED numThreads, NEW l \in Loops, NEW slow, PollReturns(l, slow)
  PROVE  Inv0'
<1>1. loop \in [Loops -> LoopType] /\ loop[l] \in LoopType /\ loop[l].phase = "poll"
      /\ UNCHANGED <<connections, next, home, conn, pending, kept, call>>
  BY Zenon DEF Inv0, Base1, Types, PollReturns
<1>2. loop[l].user = NoCall /\ loop[l].batch = <<>> /\ loop[l].pos = 1
  BY <1>1, Zenon DEF Inv0, Base1, LoopInv
<1> DEFINE A == Active(l, slow)
<1>3. A \in [Conns -> SUBSET Callbacks]
  BY Zenon DEF Active, Due
<1>4. PICK accept \in BOOLEAN :
        loop' = [loop EXCEPT ![l] = [loop[l] EXCEPT !.phase = "dispatch", !.accept = accept, !.active = A]]
  <2>1. PICK accept \in (IF l = Base /\ ClientWaiting THEN BOOLEAN ELSE {FALSE}) :
          loop' = [loop EXCEPT ![l].phase = "dispatch", ![l].accept = accept,
                               ![l].active = Active(l, slow)]
    BY Zenon DEF PollReturns
  <2>2. accept \in BOOLEAN
    BY Zenon
  <2> QED
    BY <1>1, <2>1, <2>2, Zenon
<1>5. ASSUME NEW c \in Conns
      PROVE  /\ A[c] # {} => home[c] = l /\ conn[c].index = "kAdded"
             /\ ~("close" \in A[c] /\ "read" \in A[c])
  BY Zenon DEF Active, Due
<1> HIDE DEF A
<1> DEFINE r == [loop[l] EXCEPT !.phase = "dispatch", !.accept = accept, !.active = A]
<1>6. /\ r \in LoopType /\ r.phase = "dispatch" /\ r.batch = loop[l].batch /\ r.pos = loop[l].pos
      /\ r.user = loop[l].user /\ r.active = A
  BY <1>1, <1>3, Zenon DEF LoopType
<1> HIDE DEF r
<1>7. loop' \in [Loops -> LoopType] /\ loop'[l] = r /\ \A m \in Loops : m # l => loop'[m] = loop[m]
  BY <1>1, <1>4, <1>6, Zenon DEF r
<1>8. ASSUME NEW m \in Loops PROVE LoopInv(m)'
  <2>1. CASE m = l
    BY <1>2, <1>6, <1>7, <2>1, Zenon DEF Inv0, Base1, LoopInv
  <2>2. CASE m # l
    BY <1>7, <2>2, Zenon DEF Inv0, Base1, LoopInv
  <2> QED
    BY <2>1, <2>2, Zenon
<1>9. Base1'
  BY <1>1, <1>7, <1>8, Zenon DEF Inv0, Base1, Types
<1>10. todo' = todo
  <2>1. \A m \in Loops : loop'[m].batch = loop[m].batch /\ loop'[m].pos = loop[m].pos
    BY <1>6, <1>7, Zenon
  <2> QED
    BY <1>1, <2>1, TodoSame, Zenon
<1>11. ASSUME NEW c \in Conns PROVE ConnInv(c)'
  <2>1. /\ \A m \in Loops, op \in Ops : Waits(m, op, c)' <=> Waits(m, op, c)
        /\ \A m \in Loops, op \in Ops : Once(m, op, c)' <=> Once(m, op, c)
    BY <1>10, Zenon DEF Waits, Once
  <2>2. \A m \in Loops, op \in UserCallbacks : User(m, op, c)' <=> User(m, op, c)
    BY <1>6, <1>7, Zenon DEF User
  <2>3. \A m \in Loops, op \in UserCallbacks : User(m, op, c) => m # l
    BY <1>2, NoUser, Zenon
  <2>4. home[c] \in Loops /\ Base \in Loops /\ ConnInv(c)
    BY BaseLoop, Zenon DEF Inv0, Base1, Types
  <2>5. RefInv(c)'
    <3>1. RefInv(c)
      BY <2>4, Zenon DEF ConnInv
    <3>2. A[c] # {} => conn[c].state \notin New
      BY <1>5, <3>1, Zenon DEF RefInv
    <3>3. ASSUME NEW m \in Loops
          PROVE  /\ loop'[m].active[c] # {} => home[c] = m /\ conn[c].state \notin New
                 /\ ~("close" \in loop'[m].active[c] /\ "read" \in loop'[m].active[c])
      <4>1. CASE m = l
        BY <1>5, <1>6, <1>7, <3>2, <4>1, Zenon
      <4>2. CASE m # l
        BY <1>7, <3>1, <4>2, Zenon DEF RefInv
      <4> QED
        BY <4>1, <4>2, Zenon
    <3>4. ASSUME NEW m \in Loops, NEW op \in UserCallbacks, User(m, op, c)'
          PROVE  home[c] = m /\ conn[c].state \notin New /\ (op = "down" => loop'[m].phase = "run")
      <4>1. User(m, op, c) /\ m # l
        BY <2>2, <2>3, <3>4, Zenon
      <4>2. home[c] = m /\ conn[c].state \notin New /\ (op = "down" => loop[m].phase = "run")
        BY <3>1, <4>1, Zenon DEF RefInv
      <4>3. loop'[m].phase = loop[m].phase
        BY <1>7, <4>1, Zenon
      <4> QED
        BY <4>2, <4>3, Zenon
    <3>5. ASSUME NEW m \in Loops, NEW op \in Ops, Waits(m, op, c)'
          PROVE  /\ m = IF op = "remove" THEN Base ELSE home[c]
                 /\ conn[c].state # "none"
                 /\ op = "established" <=> conn[c].state = "kConnecting"
      BY <2>1, <3>1, <3>5, Zenon DEF RefInv
    <3>6. conn[c].state = "kConnected" => c \in connections \/ Has(todo'[home[c]], Fn("destroyed", c))
      BY <1>10, <3>1, Zenon DEF RefInv, Waits
    <3>7. /\ c \in kept => conn[c].state \notin New
          /\ call # NoCall /\ call.c = c => conn[c].state \notin New
          /\ conn[c].state = "none" => c \notin connections
          /\ conn[c].state = "kConnecting" => c \in connections
          /\ conn[c].state \in New => /\ conn[c].events = {} /\ conn[c].out = FALSE
                                      /\ conn[c].index = "kNew" /\ conn[c].late = FALSE
          /\ "R" \in conn[c].events => ("W" \in conn[c].events <=> conn[c].out)
      BY <3>1, Zenon DEF RefInv
    <3> QED
      BY <1>1, <3>3, <3>4, <3>5, <3>6, <3>7, ZenonT(60) DEF RefInv, Waits
  <2>6. ASSUME ~conn[c].late PROVE LifeInv(c)'
    <3>1. LifeInv(c)
      BY <2>4, <2>6, Zenon DEF ConnInv
    <3>2. /\ loop'[home[c]].active[c] = loop[home[c]].active[c]
          \/ (home[c] = l /\ loop'[home[c]].active[c] = A[c])
      BY <1>6, <1>7, <2>4, Zenon
    <3>3. Closing(c) => "close" \notin loop'[home[c]].active[c] /\ "read" \notin loop'[home[c]].active[c]
      BY <1>5, <3>1, <3>2, Zenon DEF LifeInv
    <3>4. Gone(c) => loop'[home[c]].active[c] = {}
      BY <1>5, <2>3, <2>4, <3>1, <3>2, Zenon DEF LifeInv, UserCallbacks
    <3>5. (Open(c)' <=> Open(c)) /\ (Closing(c)' <=> Closing(c)) /\ (Gone(c)' <=> Gone(c))
      BY <1>1, <1>10, Zenon DEF Open, Closing, Gone, Waits
    <3>6. \A op \in UserCallbacks : User(home[c], op, c)' <=> User(home[c], op, c)
      BY <1>1, <2>2, <2>4, Zenon DEF User
    <3> QED
      BY <1>1, <1>10, <3>1, <3>3, <3>4, <3>5, <3>6, Zenon DEF LifeInv, Waits, Once, UserCallbacks
  <2> QED
    BY <1>1, <2>5, <2>6, Zenon DEF ConnInv
<1> QED
  BY <1>9, <1>11, Zenon DEF Inv0

\* What running a functor of c makes of the functors of c.
LEMMA OwnPop ==
  ASSUME Base1, NEW l \in Loops, NEW op \in Ops, NEW c \in Conns,
         todo[l] # <<>>, Head(todo[l]) = Fn(op, c), todo' = [todo EXCEPT ![l] = Tail(@)]
  PROVE  /\ \A m \in Loops, o \in Ops :
              /\ Waits(m, o, c)' => Waits(m, o, c)
              /\ Waits(m, o, c) => Waits(m, o, c)' \/ (m = l /\ o = op)
              /\ Once(m, o, c) => Once(m, o, c)'
         /\ Once(l, op, c) => ~Waits(l, op, c)'
<1>1. \A m \in Loops, g \in Functor :
        /\ Has(todo'[m], g) => Has(todo[m], g)
        /\ Has(todo[m], g) => Has(todo'[m], g) \/ (m = l /\ Head(todo[l]) = g)
        /\ AtMostOne(todo[m], g) => AtMostOne(todo'[m], g)
        /\ AtMostOne(todo[m], g) /\ m = l /\ Head(todo[l]) = g => ~Has(todo'[m], g)
  BY TodoType, PopEffect, Zenon
<1>2. \A o \in Ops : Fn(o, c) \in Functor /\ (Fn(o, c) = Fn(op, c) => o = op)
  BY FnType
<1> QED
  BY <1>1, <1>2, Zenon DEF Waits, Once

\* What queueing a functor of c makes of the functors of c.
LEMMA OwnPush ==
  ASSUME Base1, NEW m \in Loops, NEW op \in Ops, NEW c \in Conns,
         todo' = [todo EXCEPT ![m] = Append(@, Fn(op, c))]
  PROVE  \A l \in Loops, o \in Ops :
           /\ Waits(l, o, c)' <=> Waits(l, o, c) \/ (l = m /\ o = op)
           /\ Once(l, o, c) /\ (l # m \/ o # op \/ ~Waits(l, o, c)) => Once(l, o, c)'
<1>1. Fn(op, c) \in Functor /\ \A o \in Ops : Fn(o, c) \in Functor /\ (Fn(o, c) = Fn(op, c) <=> o = op)
  BY FnType, Zenon
<1>2. \A l \in Loops, g \in Functor :
        /\ Has(todo'[l], g) <=> Has(todo[l], g) \/ (l = m /\ g = Fn(op, c))
        /\ AtMostOne(todo[l], g) /\ (l # m \/ g # Fn(op, c) \/ ~Has(todo[l], g))
             => AtMostOne(todo'[l], g)
  BY <1>1, TodoType, PushEffect, SMTT(30)
<1> QED
  BY <1>1, <1>2, Zenon DEF Waits, Once

\* The first functor of loop l is run and queues f in loop m.
RunsAndQueues(l, m, f) == todo' = [[todo EXCEPT ![l] = Tail(@)] EXCEPT ![m] = Append(@, f)]

\* What a functor of c that queues another one makes of the functors of c.
LEMMA OwnPopPush ==
  ASSUME Base1, NEW l \in Loops, NEW op \in Ops, NEW c \in Conns,
         todo[l] # <<>>, Head(todo[l]) = Fn(op, c), NEW m \in Loops, NEW p \in Ops, p # op,
         RunsAndQueues(l, m, Fn(p, c))
  PROVE  /\ \A n \in Loops, o \in Ops :
              /\ Waits(n, o, c)' => Waits(n, o, c) \/ (n = m /\ o = p)
              /\ Waits(n, o, c) => Waits(n, o, c)' \/ (n = l /\ o = op)
              /\ Once(n, o, c) /\ (n # m \/ o # p \/ ~Waits(n, o, c)) => Once(n, o, c)'
         /\ Once(l, op, c) => ~Waits(l, op, c)'
         /\ Waits(m, p, c)'
<1> DEFINE q == [todo EXCEPT ![l] = Tail(@)]
<1>1. /\ q \in [Loops -> Seq(Functor)]
      /\ \A n \in Loops, g \in Functor :
           /\ Has(q[n], g) => Has(todo[n], g)
           /\ Has(todo[n], g) => Has(q[n], g) \/ (n = l /\ Head(todo[l]) = g)
           /\ AtMostOne(todo[n], g) => AtMostOne(q[n], g)
           /\ AtMostOne(todo[n], g) /\ n = l /\ Head(todo[l]) = g => ~Has(q[n], g)
  BY TodoType, PopEffect, Zenon
<1>2. /\ Fn(p, c) \in Functor /\ Fn(p, c) # Fn(op, c)
      /\ \A o \in Ops : Fn(o, c) \in Functor /\ (Fn(o, c) = Fn(op, c) => o = op)
                                             /\ (Fn(o, c) = Fn(p, c) => o = p)
  BY FnType
<1>3. PICK f \in Functor : f = Fn(p, c)
  BY <1>2, Zenon
<1>4. todo' = [q EXCEPT ![m] = Append(@, f)]
  BY <1>3, Zenon DEF RunsAndQueues
<1> HIDE DEF q
<1>5. \A n \in Loops, g \in Functor :
        /\ Has(todo'[n], g) <=> Has(q[n], g) \/ (n = m /\ g = f)
        /\ AtMostOne(q[n], g) /\ (n # m \/ g # f \/ ~Has(q[n], g)) => AtMostOne(todo'[n], g)
  <2>1. q \in [Loops -> Seq(Functor)]
    BY <1>1, Zenon
  <2>2. LET r == [q EXCEPT ![m] = Append(@, f)]
        IN \A n \in Loops, g \in Functor :
             /\ Has(r[n], g) <=> Has(q[n], g) \/ (n = m /\ g = f)
             /\ AtMostOne(q[n], g) /\ (n # m \/ g # f \/ ~Has(q[n], g)) => AtMostOne(r[n], g)
    BY <2>1, PushEffect, Zenon
  <2> QED
    BY <1>4, <2>2, Zenon
<1> QED
  BY <1>1, <1>2, <1>3, <1>5, Zenon DEF Waits, Once

\* A step of the life of connection c keeps the references to it.
LEMMA RefKeeps ==
  ASSUME Base1, NEW c \in Conns, RefInv(c), home'[c] = home[c], conn'[c].state \notin New,
         \A m \in Loops : loop'[m].active[c] \subseteq loop[m].active[c],
         \A m \in Loops, op \in UserCallbacks : User(m, op, c)' =>
           home[c] = m /\ (op = "down" => loop'[m].phase = "run"),
         \A m \in Loops, op \in Ops : Waits(m, op, c)' =>
           op # "established" /\ m = IF op = "remove" THEN Base ELSE home[c],
         conn'[c].state = "kConnected" => c \in connections' \/ Waits(home[c], "destroyed", c)',
         "R" \in conn'[c].events => ("W" \in conn'[c].events <=> conn'[c].out)
  PROVE  RefInv(c)'
<1>1. ASSUME NEW m \in Loops
      PROVE  /\ loop'[m].active[c] # {} => home'[c] = m /\ conn'[c].state \notin New
             /\ ~("close" \in loop'[m].active[c] /\ "read" \in loop'[m].active[c])
  <2>1. /\ loop'[m].active[c] \subseteq loop[m].active[c]
        /\ loop[m].active[c] # {} => home[c] = m
        /\ ~("close" \in loop[m].active[c] /\ "read" \in loop[m].active[c])
    BY Zenon DEF RefInv
  <2> QED
    BY <2>1, Zenon
<1>2. ASSUME NEW m \in Loops, NEW op \in UserCallbacks, User(m, op, c)'
      PROVE  home'[c] = m /\ conn'[c].state \notin New /\ (op = "down" => loop'[m].phase = "run")
  BY <1>2, Zenon
<1>3. ASSUME NEW m \in Loops, NEW op \in Ops, Waits(m, op, c)'
      PROVE  /\ m = IF op = "remove" THEN Base ELSE home'[c]
             /\ conn'[c].state # "none"
             /\ op = "established" <=> conn'[c].state = "kConnecting"
  BY <1>3, Zenon DEF New
<1>4. conn'[c].state # "none" /\ conn'[c].state # "kConnecting"
  BY Zenon DEF New
<1> QED
  BY <1>1, <1>2, <1>3, <1>4, Zenon DEF RefInv

\* handleClose, called from the close or the read callback: the removal of the connection is
\* queued, or the connection is removed at once.
LEMMA CloseStep ==
  ASSUME Inv0, UNCHANGED numThreads, NEW l \in Loops, NEW c \in Conns, NEW k \in {"close", "read"},
         Due1(l, c, k), HandleClose(l, c), AfterCallback(l, c, k, NoCall),
         UNCHANGED <<next, home, kept, call>>
  PROVE  Inv0' /\ (fault' = fault \/ conn'[c].late)
<1>1. /\ k \in loop[l].active[c] /\ loop[l].active[c] # {} /\ k \in Callbacks
      /\ loop[l].user = NoCall /\ NoCall \in UserType
  BY Zenon DEF Due1, Dispatching, Callbacks, UserType
<1>2. /\ ConnInv(c) /\ RefInv(c) /\ home[c] = l /\ conn[c].state \notin New
      /\ conn \in [Conns -> ConnType] /\ conn[c] \in ConnType /\ Base \in Loops
      /\ home \in [Conns -> Loops] /\ connections \subseteq Conns
  BY <1>1, BaseLoop, Zenon DEF Inv0, Base1, Types, ConnInv, RefInv
<1>3. /\ loop' \in [Loops -> LoopType] /\ \A m \in Loops : LoopInv(m)'
      /\ \A m \in Loops : loop'[m].batch = loop[m].batch /\ loop'[m].pos = loop[m].pos
      /\ k \notin loop'[l].active[c] /\ loop'[l].user = NoCall
      /\ \A m \in Loops, d \in Conns : CalmLoop(m, d)
  <2>1. \A d \in Conns, op \in UserCallbacks : NoCall # [op |-> op, c |-> d]
    BY Zenon DEF NoCall, UserCallbacks
  <2> QED
    BY <1>1, <2>1, AfterCallbackStep, SMTT(30) DEF Inv0
<1>4. ASSUME ~conn[c].late PROVE LifeInv(c) /\ Open(c) /\ ~Closing(c)
  <2>1. LifeInv(c)
    BY <1>2, <1>4, Zenon DEF ConnInv
  <2>2. ~Closing(c) /\ ~Gone(c)
    BY <1>1, <1>2, <2>1, Zenon DEF LifeInv
  <2> QED
    BY <1>2, <2>1, <2>2, Zenon DEF Open, Closing, Gone, New
<1> DEFINE j == DisableAll(conn[c])
<1>5. /\ j \in ConnType /\ j.state = conn[c].state /\ j.events = {} /\ j.out = conn[c].out
      /\ j.late = conn[c].late
      /\ j.index = IF conn[c].index = "kAdded" THEN "kDeleted" ELSE "kAdded"
  BY <1>2, Zenon DEF DisableAll, Update, ConnType
<1> HIDE DEF j
<1>6. \/ /\ fault' = fault /\ conn' = [conn EXCEPT ![c] = j] /\ c \in connections /\ l = Base
         /\ connections' = connections \ {c} /\ pending' = Push(l, Fn("destroyed", c))
      \/ /\ fault' = fault /\ conn' = [conn EXCEPT ![c] = j] /\ l # Base
         /\ connections' = connections /\ pending' = Push(Base, Fn("remove", c))
      \/ /\ conn[c].late /\ connections' = connections /\ pending' = pending
         /\ conn' = conn \/ conn' = [conn EXCEPT ![c] = j]
  <2>1. CASE conn[c].state \in {"kConnected", "kDisconnecting"}
    <3>1. conn' = [conn EXCEPT ![c] = j] /\ RemoveConnection(l, c)
      BY <1>2, <2>1, Zenon DEF HandleClose, j
    <3>2. c \in connections \/ conn[c].late
      BY <1>4, Zenon DEF Open
    <3> QED
      BY <1>2, <3>1, <3>2, Zenon DEF RemoveConnection, RemoveConnectionInLoop, Fn
  <2>2. CASE conn[c].state \notin {"kConnected", "kDisconnecting"}
    <3>1. conn[c].late
      BY <1>4, <2>2, Zenon DEF LifeInv
    <3> QED
      BY <2>2, <3>1, Zenon DEF HandleClose
  <2> QED
    BY <2>1, <2>2, Zenon
<1>7. /\ conn' \in [Conns -> ConnType] /\ (conn'[c] = conn[c] \/ conn'[c] = j)
      /\ \A d \in Conns : d # c => conn'[d] = conn[d]
  BY <1>2, <1>5, <1>6, Zenon
<1>8. ASSUME NEW m \in Loops
      PROVE  /\ loop'[m].active[c] \subseteq loop[m].active[c]
             /\ \A op \in UserCallbacks : ~User(m, op, c)'
  <2>1. loop'[m].active[c] \subseteq loop[m].active[c]
    BY <1>3, Zenon DEF CalmLoop
  <2>2. CASE m = l
    BY <1>3, <2>1, <2>2, SMTT(30) DEF User, NoCall, UserCallbacks
  <2>3. CASE m # l
    BY <1>2, <1>3, <2>1, <2>3, Zenon DEF CalmLoop, MayEnter, RefInv
  <2> QED
    BY <2>2, <2>3, Zenon
<1>9. ASSUME NEW d \in Conns, d # c, \A m \in Loops : CalmTodo(m, d),
             connections' = connections \/ connections' = connections \ {c}
      PROVE  Calm(d)
  <2>1. CalmMembers(d)
    BY <1>7, <1>9, Zenon DEF CalmMembers, ConnStep
  <2> QED
    BY <1>3, <1>9, <2>1, Zenon DEF Calm
<1>10. CASE /\ fault' = fault /\ conn' = [conn EXCEPT ![c] = j] /\ c \in connections /\ l = Base
            /\ connections' = connections \ {c} /\ pending' = Push(l, Fn("destroyed", c))
  <2>1. Fn("destroyed", c) \in Functor /\ Fn("destroyed", c).c = c /\ "destroyed" \in Ops
    BY FnType, Zenon DEF Ops
  <2>2. todo' = [todo EXCEPT ![l] = Append(@, Fn("destroyed", c))] /\ conn'[c] = j
    BY <1>2, <1>3, <1>10, <2>1, TodoPush, Zenon DEF Inv0
  <2>3. \A m \in Loops, o \in Ops :
          /\ Waits(m, o, c)' <=> Waits(m, o, c) \/ (m = l /\ o = "destroyed")
          /\ Once(m, o, c) /\ (m # l \/ o # "destroyed" \/ ~Waits(m, o, c)) => Once(m, o, c)'
    BY <2>1, <2>2, OwnPush, Zenon DEF Inv0
  <2>4. RefInv(c)'
    <3>1. \A m \in Loops, op \in Ops : Waits(m, op, c)' =>
            op # "established" /\ m = IF op = "remove" THEN Base ELSE home[c]
      BY <1>2, <2>3, Zenon DEF RefInv, New
    <3>2. Waits(home[c], "destroyed", c)'
      BY <1>2, <2>1, <2>3, Zenon
    <3> QED
      BY <1>2, <1>5, <1>8, <2>2, <3>1, <3>2, RefKeeps, Zenon DEF Inv0
  <2>5. ASSUME ~conn'[c].late PROVE LifeInv(c)'
    <3>1. LifeInv(c) /\ Open(c) /\ ~Closing(c)
      BY <1>4, <1>5, <2>2, <2>5, Zenon
    <3>2. /\ ~Waits(Base, "remove", c)' /\ Waits(l, "destroyed", c)'
          /\ Once(l, "established", c)' /\ Once(Base, "remove", c)' /\ Once(l, "destroyed", c)'
      BY <1>2, <2>3, <3>1, Zenon DEF Closing, LifeInv, Ops
    <3>3. Closing(c)' /\ ~Open(c)' /\ ~Gone(c)'
      BY <1>2, <1>10, <3>2, Zenon DEF Closing, Open, Gone, Waits
    <3>4. /\ conn'[c].state \in {"kConnected", "kDisconnecting"}
          /\ conn'[c].events = {} /\ conn'[c].index = "kDeleted"
      BY <1>5, <2>2, <3>1, Zenon DEF LifeInv
    <3>5. "close" \notin loop'[l].active[c] /\ "read" \notin loop'[l].active[c]
      <4>1. ~("close" \in loop[l].active[c] /\ "read" \in loop[l].active[c])
        BY <1>2, Zenon DEF RefInv
      <4>2. loop'[l].active[c] \subseteq loop[l].active[c]
        BY <1>8, Zenon
      <4>3. k \in loop[l].active[c] /\ k \notin loop'[l].active[c]
        BY <1>1, <1>3, Zenon
      <4> QED
        BY <4>1, <4>2, <4>3, ZenonT(30)
    <3>6. ~User(l, "up", c)' /\ ~User(l, "message", c)' /\ ~User(l, "down", c)'
      BY <1>8, Zenon DEF UserCallbacks
    <3> QED
      BY <1>2, <1>10, <3>2, <3>3, <3>4, <3>5, <3>6, Zenon DEF LifeInv, Waits, Once, User
  <2>6. \A d \in Conns : d # c => Calm(d)
    BY <1>9, <1>10, <2>1, <2>2, CalmPush, Zenon DEF Inv0
  <2>7. pending' \in [Loops -> Seq(Functor)]
    BY <1>10, <2>1, PushType, Zenon DEF Inv0
  <2>8. Base1'
    BY <1>2, <1>3, <1>7, <1>10, <2>7, Zenon DEF Inv0, Base1, Types
  <2> QED
    BY <1>10, <2>4, <2>5, <2>6, <2>8, OthersCalm, Zenon DEF ConnInv
<1>11. CASE /\ fault' = fault /\ conn' = [conn EXCEPT ![c] = j] /\ l # Base
            /\ connections' = connections /\ pending' = Push(Base, Fn("remove", c))
  <2>1. Fn("remove", c) \in Functor /\ Fn("remove", c).c = c /\ "remove" \in Ops
    BY FnType, Zenon DEF Ops
  <2>2. todo' = [todo EXCEPT ![Base] = Append(@, Fn("remove", c))] /\ conn'[c] = j
    BY <1>2, <1>3, <1>11, <2>1, TodoPush, Zenon DEF Inv0
  <2>3. \A m \in Loops, o \in Ops :
          /\ Waits(m, o, c)' <=> Waits(m, o, c) \/ (m = Base /\ o = "remove")
          /\ Once(m, o, c) /\ (m # Base \/ o # "remove" \/ ~Waits(m, o, c)) => Once(m, o, c)'
    BY <1>2, <2>1, <2>2, OwnPush, Zenon DEF Inv0
  <2>4. RefInv(c)'
    <3>1. \A m \in Loops, op \in Ops : Waits(m, op, c)' =>
            op # "established" /\ m = IF op = "remove" THEN Base ELSE home[c]
      BY <1>2, <2>3, Zenon DEF RefInv, New
    <3>2. conn'[c].state = "kConnected" => c \in connections' \/ Waits(home[c], "destroyed", c)'
      BY <1>2, <1>5, <1>11, <2>2, <2>3, Zenon DEF RefInv, Ops
    <3> QED
      BY <1>2, <1>5, <1>8, <2>2, <3>1, <3>2, RefKeeps, Zenon DEF Inv0
  <2>5. ASSUME ~conn'[c].late PROVE LifeInv(c)'
    <3>1. LifeInv(c) /\ Open(c) /\ ~Closing(c)
      BY <1>4, <1>5, <2>2, <2>5, Zenon
    <3>2. /\ Waits(Base, "remove", c)' /\ ~Waits(l, "destroyed", c)'
          /\ Once(l, "established", c)' /\ Once(Base, "remove", c)' /\ Once(l, "destroyed", c)'
      BY <1>2, <2>3, <3>1, Zenon DEF Closing, LifeInv, Ops
    <3>3. Closing(c)' /\ ~Open(c)' /\ ~Gone(c)' /\ c \in connections'
      BY <1>2, <1>11, <3>1, <3>2, Zenon DEF Closing, Open, Gone, Waits
    <3>4. /\ conn'[c].state \in {"kConnected", "kDisconnecting"}
          /\ conn'[c].events = {} /\ conn'[c].index = "kDeleted"
      BY <1>5, <2>2, <3>1, Zenon DEF LifeInv
    <3>5. "close" \notin loop'[l].active[c] /\ "read" \notin loop'[l].active[c]
      <4>1. ~("close" \in loop[l].active[c] /\ "read" \in loop[l].active[c])
        BY <1>2, Zenon DEF RefInv
      <4>2. loop'[l].active[c] \subseteq loop[l].active[c]
        BY <1>8, Zenon
      <4>3. k \in loop[l].active[c] /\ k \notin loop'[l].active[c]
        BY <1>1, <1>3, Zenon
      <4> QED
        BY <4>1, <4>2, <4>3, ZenonT(30)
    <3>6. ~User(l, "up", c)' /\ ~User(l, "message", c)' /\ ~User(l, "down", c)'
      BY <1>8, Zenon DEF UserCallbacks
    <3> QED
      BY <1>2, <1>11, <3>2, <3>3, <3>4, <3>5, <3>6, Zenon DEF LifeInv, Waits, Once, User
  <2>6. \A d \in Conns : d # c => Calm(d)
    BY <1>2, <1>9, <1>11, <2>1, <2>2, CalmPush, Zenon DEF Inv0
  <2>7. pending' \in [Loops -> Seq(Functor)]
    BY <1>2, <1>11, <2>1, PushType, Zenon DEF Inv0
  <2>8. Base1'
    BY <1>2, <1>3, <1>7, <1>11, <2>7, Zenon DEF Inv0, Base1, Types
  <2> QED
    BY <1>11, <2>4, <2>5, <2>6, <2>8, OthersCalm, Zenon DEF ConnInv
<1>12. CASE /\ conn[c].late /\ connections' = connections /\ pending' = pending
            /\ conn' = conn \/ conn' = [conn EXCEPT ![c] = j]
  <2>1. todo' = todo
    BY <1>3, <1>12, TodoSame, Zenon
  <2>2. conn'[c].late /\ conn'[c].state = conn[c].state
        /\ ("R" \in conn'[c].events => conn'[c] = conn[c])
    BY <1>5, <1>7, <1>12, Zenon
  <2>3. RefInv(c)'
    <3>1. \A m \in Loops, op \in Ops : Waits(m, op, c)' =>
            op # "established" /\ m = IF op = "remove" THEN Base ELSE home[c]
      BY <1>2, <2>1, Zenon DEF RefInv, New, Waits
    <3>2. conn'[c].state = "kConnected" => c \in connections' \/ Waits(home[c], "destroyed", c)'
      BY <1>2, <1>12, <2>1, <2>2, Zenon DEF RefInv, Waits
    <3>3. "R" \in conn'[c].events => ("W" \in conn'[c].events <=> conn'[c].out)
      BY <1>2, <2>2, Zenon DEF RefInv
    <3> QED
      BY <1>2, <1>8, <2>2, <3>1, <3>2, <3>3, RefKeeps, Zenon DEF Inv0
  <2>4. \A d \in Conns : d # c => Calm(d)
    BY <1>9, <1>12, <2>1, CalmSame, Zenon
  <2>5. Base1'
    BY <1>2, <1>3, <1>7, <1>12, Zenon DEF Inv0, Base1, Types
  <2> QED
    BY <2>2, <2>3, <2>4, <2>5, OthersCalm, Zenon DEF ConnInv
<1> QED
  BY <1>6, <1>10, <1>11, <1>12, Zenon

\* connectEstablished: the channel starts reading.
LEMMA EstablishedStep ==
  ASSUME Inv0, UNCHANGED numThreads, NEW l \in Loops, NEW c \in Conns, ConnectEstablished(l, c)
  PROVE  Inv0' /\ fault' = fault
<1> DEFINE u == [op |-> "up", c |-> c]
<1>1. /\ Next1(l, "established", c) /\ AfterFunctor(l, u) /\ "established" \in Ops
      /\ u \in UserType /\ UNCHANGED <<connections, next, home, pending, kept, call>>
  BY Zenon DEF ConnectEstablished, Ops, UserType, UserCallbacks
<1>2. /\ conn \in [Conns -> ConnType] /\ conn[c] \in ConnType /\ ConnInv(c) /\ RefInv(c)
      /\ home[c] \in Loops /\ Base \in Loops
  BY BaseLoop, Zenon DEF Inv0, Base1, Types, ConnInv
<1>3. /\ loop' \in [Loops -> LoopType] /\ \A m \in Loops : LoopInv(m)'
      /\ \A m \in Loops : loop'[m].active = loop[m].active
      /\ loop'[l].user = u /\ loop'[l].phase = "run"
      /\ todo[l] # <<>> /\ Head(todo[l]) = Fn("established", c)
      /\ l = home[c] /\ conn[c].state = "kConnecting"
      /\ todo' = [todo EXCEPT ![l] = Tail(@)]
  <2> HIDE DEF u
  <2>1. PICK o \in Ops, v \in UserType : o = "established" /\ v = u
    BY <1>1, Zenon
  <2>2. Next1(l, o, c) /\ AfterFunctor(l, v) /\ pending' = pending
    BY <1>1, <2>1, Zenon
  <2>3. /\ loop' \in [Loops -> LoopType] /\ \A m \in Loops : LoopInv(m)'
        /\ \A m \in Loops : loop'[m].active = loop[m].active
        /\ loop'[l].user = v /\ loop'[l].phase = "run"
    BY <2>2, FunctorLoop, SMTT(30)
  <2>4. /\ todo[l] # <<>> /\ Head(todo[l]) = Fn(o, c)
        /\ l = home[c] /\ conn[c].state = "kConnecting"
        /\ todo' = [todo EXCEPT ![l] = Tail(@)]
    BY <2>1, <2>2, FunctorTodo, Zenon
  <2> QED
    BY <2>1, <2>3, <2>4, Zenon
<1>4. ASSUME NEW m \in Loops, NEW d \in Conns, d # c \/ m # l PROVE CalmLoop(m, d)
  <2>1. m = l => \A o \in UserCallbacks : u = [op |-> o, c |-> d] => MayEnter(l, o, d)
    BY <1>4, Zenon
  <2>2. PICK o \in Ops, v \in UserType : o = "established" /\ v = u
    BY <1>1, Zenon
  <2>3. /\ Next1(l, o, c) /\ AfterFunctor(l, v)
        /\ m = l => \A p \in UserCallbacks : v = [op |-> p, c |-> d] => MayEnter(l, p, d)
    BY <1>1, <2>1, <2>2, Zenon
  <2> HIDE DEF u
  <2> QED
    BY <2>3, FunctorCalm, ZenonT(30)
<1> DEFINE j == Established(conn[c])
<1>5. /\ conn' = [conn EXCEPT ![c] = j] /\ fault' = fault
      /\ conn[c].events = {} /\ conn[c].out = FALSE /\ conn[c].late = FALSE /\ c \in connections
  BY <1>2, <1>3, Zenon DEF ConnectEstablished, RefInv, New
<1>6. /\ j \in ConnType /\ j.state = "kConnected" /\ j.events = {"R"} /\ j.out = FALSE
      /\ j.late = FALSE /\ j.index = "kAdded"
  BY <1>2, <1>5, Zenon DEF Established, EnableReading, Update, ConnType, States
<1> HIDE DEF u, j
<1>7. conn' \in [Conns -> ConnType] /\ conn'[c] = j /\ \A d \in Conns : d # c => conn'[d] = conn[d]
  BY <1>2, <1>5, <1>6, Zenon
<1>8. LifeInv(c)
  BY <1>2, <1>5, Zenon DEF ConnInv
<1>9. /\ \A m \in Loops, o \in Ops :
           /\ Waits(m, o, c)' => Waits(m, o, c)
           /\ Once(m, o, c) => Once(m, o, c)'
      /\ Once(l, "established", c) => ~Waits(l, "established", c)'
  BY <1>1, <1>3, OwnPop, Zenon DEF Inv0
<1>10. \A m \in Loops, o \in Ops : ~Waits(m, o, c)'
  <2>1. ASSUME NEW m \in Loops, NEW o \in Ops, Waits(m, o, c)' PROVE FALSE
    <3>1. Waits(m, o, c)
      BY <1>9, <2>1, Zenon
    <3>2. o = "established" /\ m = l
      BY <1>2, <1>3, <3>1, Zenon DEF RefInv
    <3> QED
      BY <1>3, <1>8, <1>9, <2>1, <3>2, Zenon DEF LifeInv
  <2> QED
    BY <2>1, Zenon
<1>11. ASSUME NEW m \in Loops, NEW op \in UserCallbacks, User(m, op, c)' PROVE m = l /\ op = "up"
  <2>1. CASE m = l
    BY <1>3, <1>11, <2>1, SMTT(30) DEF User, u
  <2>2. CASE m # l
    BY <1>2, <1>3, <1>4, <1>11, <2>2, Zenon DEF CalmLoop, MayEnter, RefInv
  <2> QED
    BY <2>1, <2>2, Zenon
<1>12. RefInv(c)'
  <2>1. conn'[c].state \notin New /\ ("R" \in conn'[c].events => ("W" \in conn'[c].events <=> conn'[c].out))
    BY <1>6, <1>7, SMTT(30) DEF New
  <2>2. \A m \in Loops : loop'[m].active[c] \subseteq loop[m].active[c]
    BY <1>3, Zenon
  <2> QED
    BY <1>1, <1>2, <1>3, <1>5, <1>10, <1>11, <2>1, <2>2, RefKeeps, Zenon DEF Inv0
<1>13. LifeInv(c)'
  <2>1. ~Waits(Base, "remove", c)' /\ ~Waits(l, "destroyed", c)'
        /\ Once(l, "established", c)' /\ Once(Base, "remove", c)' /\ Once(l, "destroyed", c)'
    BY <1>2, <1>3, <1>8, <1>9, <1>10, Zenon DEF LifeInv, Ops
  <2>2. Open(c)' /\ ~Closing(c)' /\ ~Gone(c)'
    BY <1>1, <1>3, <1>5, <1>6, <1>7, <2>1, Zenon DEF Open, Closing, Gone, Waits
  <2>3. ~User(l, "down", c)'
    BY <1>11, Zenon DEF UserCallbacks
  <2> QED
    BY <1>1, <1>3, <1>6, <1>7, <2>1, <2>2, <2>3, Zenon DEF LifeInv, Waits, Once, User
<1>14. ASSUME NEW d \in Conns, d # c PROVE Calm(d)
  <2>1. CalmMembers(d)
    BY <1>1, <1>7, <1>14, Zenon DEF CalmMembers, ConnStep
  <2>2. \A m \in Loops : CalmTodo(m, d)
    <3>1. /\ todo[l] # <<>> /\ Head(todo[l]) = Fn("established", c) /\ "established" \in Ops
          /\ todo' = [todo EXCEPT ![l] = Tail(@)] /\ Base1
      BY <1>1, <1>3, Zenon DEF Inv0
    <3> QED
      BY <1>14, <3>1, CalmPop, Zenon
  <2> QED
    BY <1>4, <1>14, <2>1, <2>2, Zenon DEF Calm
<1>15. Base1'
  BY <1>1, <1>3, <1>7, Zenon DEF Inv0, Base1, Types
<1> QED
  BY <1>5, <1>12, <1>13, <1>14, <1>15, OthersCalm, Zenon DEF ConnInv

\* connectDestroyed: the callback of the user is told that the connection is down.
LEMMA DestroyedStep ==
  ASSUME Inv0, UNCHANGED numThreads, NEW l \in Loops, NEW c \in Conns, ConnectDestroyed(l, c)
  PROVE  Inv0' /\ (fault' = fault \/ conn'[c].late)
<1> DEFINE u == [op |-> "down", c |-> c]
<1>1. /\ Next1(l, "destroyed", c) /\ AfterFunctor(l, u) /\ "destroyed" \in Ops
      /\ u \in UserType /\ UNCHANGED <<connections, next, home, pending, kept, call>>
  BY Zenon DEF ConnectDestroyed, Ops, UserType, UserCallbacks
<1>2. /\ conn \in [Conns -> ConnType] /\ conn[c] \in ConnType /\ ConnInv(c) /\ RefInv(c)
      /\ home[c] \in Loops /\ Base \in Loops
  BY BaseLoop, Zenon DEF Inv0, Base1, Types, ConnInv
<1>3. /\ loop' \in [Loops -> LoopType] /\ \A m \in Loops : LoopInv(m)'
      /\ \A m \in Loops : loop'[m].active = loop[m].active
      /\ loop'[l].user = u /\ loop'[l].phase = "run" /\ loop[l].phase = "run"
      /\ todo[l] # <<>> /\ Head(todo[l]) = Fn("destroyed", c) /\ Waits(l, "destroyed", c)
      /\ l = home[c] /\ conn[c].state \notin New
      /\ todo' = [todo EXCEPT ![l] = Tail(@)]
  <2> HIDE DEF u
  <2>1. PICK o \in Ops, v \in UserType : o = "destroyed" /\ v = u
    BY <1>1, Zenon
  <2>2. Next1(l, o, c) /\ AfterFunctor(l, v) /\ pending' = pending
    BY <1>1, <2>1, Zenon
  <2>3. /\ loop' \in [Loops -> LoopType] /\ \A m \in Loops : LoopInv(m)'
        /\ \A m \in Loops : loop'[m].active = loop[m].active
        /\ loop'[l].user = v /\ loop'[l].phase = "run" /\ loop[l].phase = "run"
    BY <2>2, FunctorLoop, SMTT(30)
  <2>4. /\ todo[l] # <<>> /\ Head(todo[l]) = Fn(o, c) /\ Waits(l, o, c)
        /\ l = home[c] /\ conn[c].state \notin New
        /\ todo' = [todo EXCEPT ![l] = Tail(@)]
    BY <2>1, <2>2, FunctorTodo, SMTT(30) DEF New
  <2> QED
    BY <2>1, <2>3, <2>4, Zenon
<1>4. ASSUME NEW m \in Loops, NEW d \in Conns, d # c \/ m # l PROVE CalmLoop(m, d)
  <2>1. m = l => \A o \in UserCallbacks : u = [op |-> o, c |-> d] => MayEnter(l, o, d)
    BY <1>4, Zenon
  <2> QED
    BY <1>1, <2>1, FunctorCalm, Zenon
<1> DEFINE j == DisableAll([conn[c] EXCEPT !.state = "kDisconnected"])
<1>5. /\ j \in ConnType /\ j.state = "kDisconnected" /\ j.events = {} /\ j.late = conn[c].late
  BY <1>2, Zenon DEF DisableAll, Update, ConnType, States
<1>6. ASSUME ~conn[c].late PROVE LifeInv(c) /\ Closing(c) /\ c \notin connections
  BY <1>2, <1>3, <1>6, Zenon DEF ConnInv, LifeInv, Closing
<1>7. \/ conn' = [conn EXCEPT ![c] = j] /\ fault' = fault
      \/ conn' = conn /\ conn[c].late /\ conn[c].state \notin {"kConnected", "kDisconnecting"}
  <2>1. CASE conn[c].state \in {"kConnected", "kDisconnecting"}
    BY <1>2, <2>1, Zenon DEF ConnectDestroyed
  <2>2. CASE conn[c].state \notin {"kConnected", "kDisconnecting"}
    BY <1>6, <2>2, Zenon DEF ConnectDestroyed, LifeInv
  <2> QED
    BY <2>1, <2>2, Zenon
<1> HIDE DEF u, j
<1>8. /\ conn' \in [Conns -> ConnType] /\ \A d \in Conns : d # c => conn'[d] = conn[d]
      /\ \/ conn'[c] = j /\ fault' = fault
         \/ conn'[c] = conn[c] /\ conn[c].late /\ conn[c].state \notin {"kConnected", "kDisconnecting"}
  BY <1>2, <1>5, <1>7, Zenon
<1>9. /\ \A m \in Loops, o \in Ops :
           /\ Waits(m, o, c)' => Waits(m, o, c)
           /\ Waits(m, o, c) => Waits(m, o, c)' \/ (m = l /\ o = "destroyed")
           /\ Once(m, o, c) => Once(m, o, c)'
      /\ Once(l, "destroyed", c) => ~Waits(l, "destroyed", c)'
  BY <1>1, <1>3, OwnPop, Zenon DEF Inv0
<1>10. ASSUME NEW m \in Loops, NEW op \in UserCallbacks, User(m, op, c)' PROVE m = l /\ op = "down"
  <2>1. CASE m = l
    BY <1>3, <1>10, <2>1 DEF User, u
  <2>2. CASE m # l
    BY <1>2, <1>3, <1>4, <1>10, <2>2, Zenon DEF CalmLoop, MayEnter, RefInv
  <2> QED
    BY <2>1, <2>2, Zenon
<1>11. RefInv(c)'
  <2>1. /\ conn'[c].state \notin New /\ conn'[c].state # "kConnected"
        /\ "R" \in conn'[c].events => ("W" \in conn'[c].events <=> conn'[c].out)
    BY <1>2, <1>3, <1>5, <1>8, Zenon DEF New, RefInv
  <2>2. \A m \in Loops : loop'[m].active[c] \subseteq loop[m].active[c]
    BY <1>3, Zenon
  <2>3. \A m \in Loops, op \in Ops : Waits(m, op, c)' =>
          op # "established" /\ m = IF op = "remove" THEN Base ELSE home[c]
    BY <1>2, <1>3, <1>9, Zenon DEF RefInv, New
  <2> QED
    BY <1>1, <1>2, <1>3, <1>10, <2>1, <2>2, <2>3, RefKeeps, Zenon DEF Inv0
<1>12. ASSUME ~conn'[c].late PROVE LifeInv(c)'
  <2>1. LifeInv(c) /\ Closing(c) /\ c \notin connections /\ conn'[c] = j
    BY <1>5, <1>6, <1>8, <1>12, Zenon
  <2>2. ~Waits(Base, "remove", c)' /\ ~Waits(l, "destroyed", c)'
        /\ Once(l, "established", c)' /\ Once(Base, "remove", c)' /\ Once(l, "destroyed", c)'
    BY <1>2, <1>3, <1>9, <2>1, Zenon DEF LifeInv, Ops
  <2>3. ~Open(c)' /\ ~Closing(c)' /\ Gone(c)'
    BY <1>1, <1>3, <1>5, <2>1, <2>2, Zenon DEF Open, Closing, Gone, Waits
  <2>4. ~User(l, "up", c)' /\ ~User(l, "message", c)' /\ User(l, "down", c)'
    BY <1>3, <1>10, Zenon DEF UserCallbacks, User, u
  <2>5. loop'[l].active[c] = {}
    BY <1>3, Zenon DEF Inv0, Base1, LoopInv
  <2> QED
    BY <1>1, <1>3, <1>5, <2>1, <2>2, <2>3, <2>4, <2>5, Zenon DEF LifeInv, Waits, Once, User
<1>13. ASSUME NEW d \in Conns, d # c PROVE Calm(d)
  <2>1. CalmMembers(d)
    BY <1>1, <1>8, <1>13, Zenon DEF CalmMembers, ConnStep
  <2>2. \A m \in Loops : CalmTodo(m, d)
    <3>1. /\ todo[l] # <<>> /\ Head(todo[l]) = Fn("destroyed", c) /\ "destroyed" \in Ops
          /\ todo' = [todo EXCEPT ![l] = Tail(@)] /\ Base1
      BY <1>1, <1>3, Zenon DEF Inv0
    <3> QED
      BY <1>13, <3>1, CalmPop, Zenon
  <2> QED
    BY <1>4, <1>13, <2>1, <2>2, Zenon DEF Calm
<1>14. Base1'
  BY <1>1, <1>3, <1>8, Zenon DEF Inv0, Base1, Types
<1> QED
  BY <1>8, <1>11, <1>12, <1>13, <1>14, OthersCalm, Zenon DEF ConnInv

\* removeConnectionInLoop, run as a functor of the base loop.
LEMMA RemoveStep ==
  ASSUME Inv0, UNCHANGED numThreads, NEW l \in Loops, NEW c \in Conns, RemoveFunctor(l, c)
  PROVE  Inv0' /\ (fault' = fault \/ conn'[c].late)
<1>1. /\ Next1(l, "remove", c) /\ AfterFunctor(l, NoCall) /\ "remove" \in Ops /\ "destroyed" \in Ops
      /\ NoCall \in UserType /\ RemoveConnectionInLoop(c)
      /\ UNCHANGED <<next, home, conn, kept, call>>
  BY Zenon DEF RemoveFunctor, Ops, UserType
<1>2. /\ ConnInv(c) /\ RefInv(c) /\ home[c] \in Loops /\ Base \in Loops /\ connections \subseteq Conns
  BY BaseLoop, Zenon DEF Inv0, Base1, Types, ConnInv
<1>3. /\ loop' \in [Loops -> LoopType] /\ \A m \in Loops : LoopInv(m)'
      /\ \A m \in Loops : loop'[m].active = loop[m].active
      /\ todo[l] # <<>> /\ Head(todo[l]) = Fn("remove", c) /\ Waits(l, "remove", c)
      /\ l = Base /\ conn[c].state \notin New
      /\ pending' = pending => todo' = [todo EXCEPT ![l] = Tail(@)]
      /\ \A m \in Loops, f \in Functor : pending' = Push(m, f) =>
           todo' = [[todo EXCEPT ![l] = Tail(@)] EXCEPT ![m] = Append(@, f)]
  <2>1. PICK o \in Ops, u \in UserType : o = "remove" /\ u = NoCall
    BY <1>1, Zenon
  <2>2. Next1(l, o, c) /\ AfterFunctor(l, u)
    BY <1>1, <2>1, Zenon
  <2>3. /\ loop' \in [Loops -> LoopType] /\ \A m \in Loops : LoopInv(m)'
        /\ \A m \in Loops : loop'[m].active = loop[m].active
    BY <2>2, FunctorLoop, Zenon
  <2>4. /\ todo[l] # <<>> /\ Head(todo[l]) = Fn(o, c) /\ Waits(l, o, c)
        /\ o = "remove" => l = Base
        /\ conn[c].state # "none" /\ (o = "established" <=> conn[c].state = "kConnecting")
        /\ pending' = pending => todo' = [todo EXCEPT ![l] = Tail(@)]
        /\ \A m \in Loops, f \in Functor : pending' = Push(m, f) =>
             todo' = [[todo EXCEPT ![l] = Tail(@)] EXCEPT ![m] = Append(@, f)]
    BY <2>2, FunctorTodo, SMTT(30)
  <2>5. l = Base /\ conn[c].state \notin New
    BY <2>1, <2>4, Zenon DEF New
  <2> QED
    BY <2>1, <2>3, <2>4, <2>5, Zenon
<1>4. \A m \in Loops, d \in Conns : CalmLoop(m, d)
  <2>1. \A d \in Conns, op \in UserCallbacks : NoCall # [op |-> op, c |-> d]
    BY Zenon DEF NoCall, UserCallbacks
  <2>2. PICK o \in Ops, u \in UserType : o = "remove" /\ u = NoCall
    BY <1>1, Zenon
  <2>3. /\ Next1(l, o, c) /\ AfterFunctor(l, u)
        /\ \A d \in Conns, op \in UserCallbacks : u # [op |-> op, c |-> d]
    BY <1>1, <2>1, <2>2, Zenon
  <2> TAKE m \in Loops, d \in Conns
  <2>4. m = l => \A p \in UserCallbacks : u = [op |-> p, c |-> d] => MayEnter(l, p, d)
    BY <2>3, Zenon
  <2> QED
    BY <2>3, <2>4, FunctorCalm, ZenonT(30)
<1>5. ASSUME ~conn[c].late PROVE LifeInv(c) /\ c \in connections /\ home[c] # Base /\ Closing(c)
  BY <1>2, <1>3, <1>5, Zenon DEF ConnInv, LifeInv, Closing
<1>6. Fn("destroyed", c) \in Functor /\ Fn("destroyed", c).c = c
  BY <1>1, FnType, Zenon
<1>7. ASSUME NEW m \in Loops, NEW op \in UserCallbacks, User(m, op, c)'
      PROVE  /\ home[c] = m /\ (op = "down" => loop'[m].phase = "run")
             /\ User(m, op, c) \/ MayEnter(m, op, c)
  <2>1. (User(m, op, c) /\ loop'[m].phase = loop[m].phase) \/ MayEnter(m, op, c)
    BY <1>4, <1>7, Zenon DEF CalmLoop
  <2>2. User(m, op, c) => home[c] = m /\ (op = "down" => loop[m].phase = "run")
    BY <1>2, Zenon DEF RefInv
  <2>3. MayEnter(m, op, c) => home[c] = m /\ op # "down"
    BY Zenon DEF MayEnter
  <2> QED
    BY <2>1, <2>2, <2>3, ZenonT(30)
<1>8. CASE /\ c \in connections /\ connections' = connections \ {c}
           /\ pending' = Push(home[c], Fn("destroyed", c)) /\ fault' = fault
  <2>1. todo' = [[todo EXCEPT ![l] = Tail(@)] EXCEPT ![home[c]] = Append(@, Fn("destroyed", c))]
    BY <1>2, <1>3, <1>6, <1>8, Zenon
  <2>2. /\ \A n \in Loops, o \in Ops :
             /\ Waits(n, o, c)' => Waits(n, o, c) \/ (n = home[c] /\ o = "destroyed")
             /\ Once(n, o, c) /\ (n # home[c] \/ o # "destroyed" \/ ~Waits(n, o, c)) => Once(n, o, c)'
        /\ Once(l, "remove", c) => ~Waits(l, "remove", c)'
        /\ Waits(home[c], "destroyed", c)'
    <3>1. PICK h \in Loops : h = home[c]
      BY <1>2, Zenon
    <3>2. todo' = [[todo EXCEPT ![l] = Tail(@)] EXCEPT ![h] = Append(@, Fn("destroyed", c))]
      BY <2>1, <3>1, Zenon
    <3>3. /\ \A n \in Loops, o \in Ops :
               /\ Waits(n, o, c)' => Waits(n, o, c) \/ (n = h /\ o = "destroyed")
               /\ Once(n, o, c) /\ (n # h \/ o # "destroyed" \/ ~Waits(n, o, c)) => Once(n, o, c)'
          /\ Once(l, "remove", c) => ~Waits(l, "remove", c)'
          /\ Waits(h, "destroyed", c)'
      <4>1. /\ Base1 /\ todo[l] # <<>> /\ Head(todo[l]) = Fn("remove", c)
            /\ RunsAndQueues(l, h, Fn("destroyed", c))
        BY <1>3, <3>2, Zenon DEF Inv0, RunsAndQueues
      <4> QED
        BY <1>1, <4>1, OwnPopPush, SMTT(30)
    <3> QED
      BY <1>1, <3>1, <3>3, Zenon DEF Waits
  <2>3. RefInv(c)'
    <3>1. \A m \in Loops, op \in Ops : Waits(m, op, c)' =>
            op # "established" /\ m = IF op = "remove" THEN Base ELSE home[c]
      BY <1>2, <1>3, <2>2, ZenonT(30) DEF RefInv, New
    <3>2. \A m \in Loops : loop'[m].active[c] \subseteq loop[m].active[c]
      BY <1>3, ZenonT(30)
    <3>3. "R" \in conn'[c].events => ("W" \in conn'[c].events <=> conn'[c].out)
      BY <1>1, <1>2, Zenon DEF RefInv
    <3> QED
      BY <1>1, <1>2, <1>3, <1>7, <2>2, <3>1, <3>2, <3>3, RefKeeps, Zenon DEF Inv0
  <2>4. ASSUME ~conn'[c].late PROVE LifeInv(c)'
    <3>1. LifeInv(c) /\ home[c] # Base /\ Closing(c) /\ ~Waits(home[c], "destroyed", c) /\ ~Open(c) /\ ~Gone(c)
      BY <1>1, <1>3, <1>5, <1>8, <2>4, Zenon DEF LifeInv, Open, Gone
    <3>2. PICK h \in Loops : h = home[c]
      BY <1>2, Zenon
    <3>3. ~Waits(Base, "remove", c)' /\ Waits(h, "destroyed", c)'
          /\ Once(h, "established", c)' /\ Once(Base, "remove", c)' /\ Once(h, "destroyed", c)'
      BY <1>1, <1>2, <1>3, <2>2, <3>1, <3>2, Zenon DEF LifeInv, Ops, Waits
    <3>4. Closing(c)' /\ ~Open(c)' /\ ~Gone(c)' /\ c \notin connections'
      BY <1>1, <1>8, <3>2, <3>3, Zenon DEF Closing, Open, Gone, Waits
    <3>5. ~User(h, "up", c)' /\ ~User(h, "message", c)' /\ ~User(h, "down", c)'
      BY <1>1, <1>7, <2>4, <3>1, <3>2, Zenon DEF UserCallbacks, LifeInv, MayEnter
    <3>6. /\ conn'[c].state \in {"kConnected", "kDisconnecting"}
          /\ conn'[c].events = {} /\ conn'[c].index = "kDeleted"
          /\ "close" \notin loop'[h].active[c] /\ "read" \notin loop'[h].active[c]
      BY <1>1, <1>3, <3>1, <3>2, Zenon DEF LifeInv
    <3> QED
      BY <1>1, <3>2, <3>3, <3>4, <3>5, <3>6, Zenon DEF LifeInv, Waits, Once, User
  <2>5. ASSUME NEW d \in Conns, d # c PROVE Calm(d)
    <3>1. CalmMembers(d)
      BY <1>1, <1>8, <2>5, Zenon DEF CalmMembers, ConnStep
    <3>2. \A m \in Loops : CalmTodo(m, d)
      <4>1. PICK h \in Loops, f \in Functor : h = home[c] /\ f = Fn("destroyed", c) /\ f.c # d
        BY <1>2, <1>6, <2>5, Zenon
      <4>2. /\ todo' = [[todo EXCEPT ![l] = Tail(@)] EXCEPT ![h] = Append(@, f)]
            /\ Base1 /\ todo[l] # <<>> /\ Head(todo[l]) = Fn("remove", c)
        BY <1>3, <2>1, <4>1, Zenon DEF Inv0
      <4> QED
        BY <1>1, <2>5, <4>1, <4>2, CalmPopPush, Zenon
    <3> QED
      BY <1>4, <3>1, <3>2, Zenon DEF Calm
  <2>6. pending' \in [Loops -> Seq(Functor)]
    BY <1>2, <1>6, <1>8, PushType, Zenon DEF Inv0
  <2>7. Base1'
    BY <1>1, <1>2, <1>3, <1>8, <2>6, Zenon DEF Inv0, Base1, Types
  <2> QED
    BY <1>8, <2>3, <2>4, <2>5, <2>7, OthersCalm, Zenon DEF ConnInv
<1>9. CASE c \notin connections /\ UNCHANGED <<connections, pending>>
  <2>1. conn'[c].late /\ todo' = [todo EXCEPT ![l] = Tail(@)]
    BY <1>1, <1>3, <1>5, <1>9, Zenon
  <2>2. \A m \in Loops, o \in Ops :
          /\ Waits(m, o, c)' => Waits(m, o, c)
          /\ Waits(m, o, c) => Waits(m, o, c)' \/ (m = l /\ o = "remove")
    BY <1>1, <1>3, <2>1, OwnPop, ZenonT(30) DEF Inv0
  <2>3. RefInv(c)'
    <3>1. \A m \in Loops, op \in Ops : Waits(m, op, c)' =>
            op # "established" /\ m = IF op = "remove" THEN Base ELSE home[c]
      <4>1. conn[c].state # "kConnecting"
        BY <1>3, Zenon DEF New
      <4>2. \A m \in Loops, op \in Ops : Waits(m, op, c) =>
              /\ m = IF op = "remove" THEN Base ELSE home[c]
              /\ op = "established" <=> conn[c].state = "kConnecting"
        BY <1>2, Zenon DEF RefInv
      <4> QED
        BY <2>2, <4>1, <4>2, ZenonT(30)
    <3>2. \A m \in Loops : loop'[m].active[c] \subseteq loop[m].active[c]
      BY <1>3, ZenonT(30)
    <3>3. /\ "R" \in conn'[c].events => ("W" \in conn'[c].events <=> conn'[c].out)
          /\ conn'[c].state = "kConnected" => Waits(home[c], "destroyed", c)
      BY <1>1, <1>2, <1>9, Zenon DEF RefInv
    <3>4. conn'[c].state = "kConnected" => c \in connections' \/ Waits(home[c], "destroyed", c)'
      <4>1. PICK h \in Loops : h = home[c]
        BY <1>2, Zenon
      <4>2. Waits(h, "destroyed", c) => Waits(h, "destroyed", c)'
        BY <1>1, <2>2, Zenon
      <4> QED
        BY <1>1, <3>3, <4>1, <4>2, Zenon DEF Waits
    <3> QED
      BY <1>1, <1>2, <1>3, <1>7, <3>1, <3>2, <3>3, <3>4, RefKeeps, Zenon DEF Inv0
  <2>4. ASSUME NEW d \in Conns, d # c PROVE Calm(d)
    <3>1. CalmMembers(d)
      BY <1>1, <1>9, Zenon DEF CalmMembers, ConnStep
    <3>2. \A m \in Loops : CalmTodo(m, d)
      <4>1. Base1 /\ todo[l] # <<>> /\ Head(todo[l]) = Fn("remove", c)
        BY <1>3, Zenon DEF Inv0
      <4> QED
        BY <1>1, <2>1, <2>4, <4>1, CalmPop, Zenon
    <3> QED
      BY <1>4, <3>1, <3>2, Zenon DEF Calm
  <2>5. Base1'
    BY <1>1, <1>3, <1>9, Zenon DEF Inv0, Base1, Types
  <2> QED
    BY <2>1, <2>3, <2>4, <2>5, OthersCalm, Zenon DEF ConnInv
<1> QED
  BY <1>1, <1>8, <1>9, Zenon DEF RemoveConnectionInLoop, Fn

\* A callback of the user returns; after the last one the channel leaves the poller.
LEMMA ReturnStep ==
  ASSUME Inv0, UNCHANGED numThreads, NEW l \in Loops, CallbackReturns(l)
  PROVE  Inv0'
<1>1. /\ UNCHANGED <<connections, next, home, pending, kept, call>> /\ loop[l].user # NoCall
      /\ loop \in [Loops -> LoopType] /\ loop[l] \in LoopType /\ conn \in [Conns -> ConnType]
      /\ Base \in Loops
  BY BaseLoop, Zenon DEF CallbackReturns, Inv0, Base1, Types
<1>2. PICK c \in Conns, op \in UserCallbacks : loop[l].user = [op |-> op, c |-> c]
  BY <1>1, Zenon DEF LoopType, UserType
<1>3. User(l, op, c) /\ loop[l].user.op = op /\ loop[l].user.c = c
  BY <1>2 DEF User
<1>4. home[c] = l /\ conn[c].state \notin New /\ ConnInv(c) /\ RefInv(c) /\ conn[c] \in ConnType
  <2>1. ConnInv(c) /\ RefInv(c)
    BY Zenon DEF Inv0, ConnInv
  <2>2. home[c] = l /\ conn[c].state \notin New
    BY <1>3, <2>1, Zenon DEF RefInv
  <2>3. conn[c] \in ConnType
    BY <1>1, Zenon
  <2> QED
    BY <2>1, <2>2, <2>3, Zenon
<1> DEFINE r == [loop[l] EXCEPT !.user = NoCall]
<1>5. /\ r \in LoopType /\ r.phase = loop[l].phase /\ r.active = loop[l].active
      /\ r.batch = loop[l].batch /\ r.pos = loop[l].pos /\ r.user = NoCall
  BY <1>1, Zenon DEF LoopType, UserType
<1>6. loop' = [loop EXCEPT ![l] = r]
  BY <1>1, Zenon DEF CallbackReturns
<1> HIDE DEF r
<1>7. loop' \in [Loops -> LoopType] /\ loop'[l] = r /\ \A m \in Loops : m # l => loop'[m] = loop[m]
  BY <1>1, <1>5, <1>6, Zenon
<1>8. ASSUME NEW m \in Loops
      PROVE  /\ LoopInv(m)' /\ loop'[m].active = loop[m].active
             /\ loop'[m].batch = loop[m].batch /\ loop'[m].pos = loop[m].pos
             /\ \A d \in Conns, o \in UserCallbacks : User(m, o, d)' => User(m, o, d) /\ m # l
             /\ loop'[m].phase = loop[m].phase
  <2>1. CASE m = l
    <3>1. loop'[m] = r /\ LoopInv(l)
      BY <1>7, <2>1, Zenon DEF Inv0, Base1
    <3>2. \A d \in Conns, o \in UserCallbacks : ~User(m, o, d)'
      BY <1>5, <3>1, CallbackOrNone, Zenon DEF User
    <3>3. LoopInv(m)'
      BY <1>5, <2>1, <3>1, Zenon DEF LoopInv
    <3> QED
      BY <1>5, <2>1, <3>1, <3>2, <3>3, Zenon
  <2>2. CASE m # l
    BY <1>7, <2>2, Zenon DEF Inv0, Base1, LoopInv, User
  <2> QED
    BY <2>1, <2>2, Zenon
<1>9. todo' = todo
  BY <1>1, <1>8, TodoSame, Zenon
<1>10. ASSUME NEW d \in Conns, d # c \/ op # "down", NEW m \in Loops PROVE CalmLoop(m, d)
  <2>1. User(m, "down", d) => User(m, "down", d)'
    <3>1. CASE m = l
      BY <1>2, <1>10, <3>1 DEF User
    <3>2. CASE m # l
      BY <1>7, <3>2, Zenon DEF User
    <3> QED
      BY <3>1, <3>2, Zenon
  <2> QED
    BY <1>8, <2>1, Zenon DEF CalmLoop
<1>11. CASE op # "down"
  <2>1. conn' = conn
    BY <1>3, <1>11, Zenon DEF CallbackReturns
  <2>2. Base1'
    BY <1>1, <1>7, <1>8, <2>1, Zenon DEF Inv0, Base1, Types
  <2>3. \A d \in Conns : Calm(d)
    BY <1>1, <1>9, <1>10, <1>11, <2>1, MembersSame, CalmSame, Zenon DEF Calm
  <2> QED
    BY <2>2, <2>3, AllCalm, Zenon
<1>12. CASE op = "down"
  <2> DEFINE j == [conn[c] EXCEPT !.index = "kNew"]
  <2>1. conn' = [conn EXCEPT ![c] = j]
    BY <1>1, <1>3, <1>12, Zenon DEF CallbackReturns
  <2>2. /\ j \in ConnType /\ j.state = conn[c].state /\ j.events = conn[c].events
        /\ j.out = conn[c].out /\ j.late = conn[c].late /\ j.index = "kNew"
    BY <1>4, Zenon DEF ConnType
  <2> HIDE DEF j
  <2>3. conn' \in [Conns -> ConnType] /\ conn'[c] = j /\ \A d \in Conns : d # c => conn'[d] = conn[d]
    BY <1>1, <2>1, <2>2, Zenon
  <2>4. RefInv(c)'
    <3>1. \A m \in Loops, o \in Ops : Waits(m, o, c)' =>
            o # "established" /\ m = IF o = "remove" THEN Base ELSE home[c]
      BY <1>4, <1>9, Zenon DEF RefInv, New, Waits
    <3>2. \A m \in Loops, o \in UserCallbacks : User(m, o, c)' =>
            home[c] = m /\ (o = "down" => loop'[m].phase = "run")
      BY <1>4, <1>8, Zenon DEF RefInv
    <3>3. /\ conn'[c].state \notin New
          /\ "R" \in conn'[c].events => ("W" \in conn'[c].events <=> conn'[c].out)
      BY <1>4, <2>2, <2>3, Zenon DEF RefInv
    <3>4. conn'[c].state = "kConnected" => c \in connections' \/ Waits(home[c], "destroyed", c)'
      BY <1>1, <1>4, <1>9, <2>2, <2>3, Zenon DEF RefInv, Waits
    <3> QED
      BY <1>1, <1>4, <1>8, <3>1, <3>2, <3>3, <3>4, RefKeeps, Zenon DEF Inv0
  <2>5. ASSUME ~conn'[c].late PROVE LifeInv(c)'
    <3>1. LifeInv(c) /\ Gone(c)
      BY <1>3, <1>4, <1>12, <2>2, <2>3, <2>5, Zenon DEF ConnInv, LifeInv
    <3>2. ~Waits(l, "destroyed", c) /\ ~Waits(Base, "remove", c)
      BY <1>4, <3>1, Zenon DEF Gone, LifeInv
    <3>3. ~Waits(Base, "remove", c)' /\ ~Waits(l, "destroyed", c)'
          /\ Once(l, "established", c)' /\ Once(Base, "remove", c)' /\ Once(l, "destroyed", c)'
      BY <1>4, <1>9, <3>1, <3>2, Zenon DEF LifeInv, Waits, Once
    <3>4. ~Open(c)' /\ ~Closing(c)' /\ Gone(c)'
      BY <1>1, <1>4, <2>2, <2>3, <3>1, <3>3, Zenon DEF Open, Closing, Gone, Waits
    <3>5. ~User(l, "up", c)' /\ ~User(l, "message", c)' /\ ~User(l, "down", c)'
      BY <1>8, Zenon DEF UserCallbacks
    <3>6. /\ conn'[c].state \in {"kDisconnected", "kDisconnecting"} /\ conn'[c].events = {}
          /\ conn'[c].index = "kNew" /\ loop'[l].active[c] = {}
      BY <1>4, <1>8, <2>2, <2>3, <3>1, Zenon DEF LifeInv
    <3> QED
      BY <1>1, <1>4, <3>3, <3>4, <3>5, <3>6, Zenon DEF LifeInv, Waits, Once, User
  <2>6. ASSUME NEW d \in Conns, d # c PROVE Calm(d)
    <3>1. CalmMembers(d)
      BY <1>1, <2>3, <2>6, Zenon DEF CalmMembers, ConnStep
    <3> QED
      BY <1>9, <1>10, <2>6, <3>1, CalmSame, Zenon DEF Calm
  <2>7. Base1'
    BY <1>1, <1>7, <1>8, <2>3, Zenon DEF Inv0, Base1, Types
  <2> QED
    BY <2>4, <2>5, <2>6, <2>7, OthersCalm, Zenon DEF ConnInv
<1> QED
  BY <1>11, <1>12, Zenon

\* getNextLoop hands out the base loop or a loop of the pool.
LEMMA NextLoop ==
  ASSUME Base1
  PROVE  /\ LoopAt(next) \in Loops
         /\ Advance(next) \in 0..PoolMax /\ (Advance(next) = 0 \/ Advance(next) < numThreads)
BY PoolAssumption, SMTT(30) DEF Base1, Types, LoopAt, Advance, Loops, Base

\* newConnection: the connection is established at once or in the loop it is handed to.
LEMMA NewStep ==
  ASSUME Inv0, UNCHANGED numThreads, NEW c \in Conns, NewConnection(c)
  PROVE  Inv0'
<1> DEFINE h == LoopAt(next)
           here == LoopAt(next) = Base
           made == [conn[c] EXCEPT !.state = "kConnecting"]
           j == IF here THEN Established(made) ELSE made
           u == IF here THEN [op |-> "up", c |-> c] ELSE NoCall
           r == [loop[Base] EXCEPT !.accept = FALSE, !.user = u]
<1>1. /\ h \in Loops /\ Base \in Loops /\ ConnInv(c) /\ RefInv(c)
      /\ conn \in [Conns -> ConnType] /\ conn[c] \in ConnType /\ loop[Base] \in LoopType
      /\ loop \in [Loops -> LoopType] /\ home \in [Conns -> Loops]
      /\ connections \subseteq Conns
  BY BaseLoop, NextLoop, Zenon DEF Inv0, Base1, Types, ConnInv
<1>2. /\ connections' = connections \cup {c} /\ home' = [home EXCEPT ![c] = h]
      /\ next' = Advance(next) /\ conn' = [conn EXCEPT ![c] = j]
      /\ pending' = IF here THEN pending ELSE Push(h, Fn("established", c))
      /\ conn[c].state = "none" /\ loop[Base].phase = "dispatch" /\ loop[Base].user = NoCall
      /\ UNCHANGED <<kept, call>>
  BY Zenon DEF NewConnection, Dispatching, Fn
<1>3. loop' = [loop EXCEPT ![Base] = r]
  BY <1>1, Zenon DEF NewConnection
<1>4. /\ conn[c].events = {} /\ conn[c].out = FALSE /\ conn[c].index = "kNew" /\ conn[c].late = FALSE
      /\ c \notin connections /\ c \notin kept /\ ~(call # NoCall /\ call.c = c)
      /\ \A m \in Loops : loop[m].active[c] = {} /\ \A op \in UserCallbacks : ~User(m, op, c)
      /\ \A m \in Loops, op \in Ops : ~Waits(m, op, c)
  BY <1>1, <1>2, Zenon DEF RefInv, New
<1>5. /\ j \in ConnType /\ j.out = FALSE /\ j.late = FALSE
      /\ here => j.state = "kConnected" /\ j.events = {"R"} /\ j.index = "kAdded"
      /\ ~here => j.state = "kConnecting" /\ j.events = {} /\ j.index = "kNew"
  BY <1>1, <1>4, Zenon DEF Established, EnableReading, Update, ConnType, States
<1>6. u \in UserType
  BY Zenon DEF UserType, UserCallbacks
<1>7. /\ r \in LoopType /\ r.user = u /\ r.phase = loop[Base].phase /\ r.active = loop[Base].active
      /\ r.batch = loop[Base].batch /\ r.pos = loop[Base].pos
  BY <1>1, <1>6, Zenon DEF LoopType
<1> HIDE DEF h, j, u, r
<1>8. /\ conn' \in [Conns -> ConnType] /\ conn'[c] = j /\ \A d \in Conns : d # c => conn'[d] = conn[d]
      /\ home' \in [Conns -> Loops] /\ home'[c] = h /\ \A d \in Conns : d # c => home'[d] = home[d]
  BY <1>1, <1>2, <1>5, Zenon
<1>9. /\ loop' \in [Loops -> LoopType] /\ loop'[Base] = r
      /\ \A m \in Loops : m # Base => loop'[m] = loop[m]
  BY <1>1, <1>3, <1>7, Zenon
<1>10. ASSUME NEW m \in Loops
       PROVE  /\ LoopInv(m)' /\ loop'[m].active = loop[m].active
              /\ loop'[m].batch = loop[m].batch /\ loop'[m].pos = loop[m].pos
              /\ \A d \in Conns, o \in UserCallbacks :
                   User(m, o, d)' <=> User(m, o, d) \/ (here /\ m = Base /\ d = c /\ o = "up")
              /\ loop'[m].phase = loop[m].phase
  <2>1. CASE m = Base
    <3>1. \A d \in Conns, o \in UserCallbacks : ~User(m, o, d)
      BY <1>2, <2>1, NoUser, Zenon
    <3>2. \A d \in Conns, o \in UserCallbacks : User(m, o, d)' <=> (here /\ d = c /\ o = "up")
      <4>1. loop'[m].user = u /\ "up" \in UserCallbacks
        BY <1>7, <1>9, <2>1, Zenon DEF UserCallbacks
      <4>2. CASE here
        BY <4>1, <4>2, SameCallback, Zenon DEF User, u
      <4>3. CASE ~here
        BY <4>1, <4>3, CallbackOrNone, Zenon DEF User, u
      <4> QED
        BY <4>2, <4>3, Zenon
    <3> QED
      BY <1>2, <1>7, <1>9, <2>1, <3>1, <3>2, Zenon DEF Inv0, Base1, LoopInv
  <2>2. CASE m # Base
    BY <1>9, <2>2, Zenon DEF Inv0, Base1, LoopInv, User
  <2> QED
    BY <2>1, <2>2, Zenon
<1>11. Fn("established", c) \in Functor /\ Fn("established", c).c = c /\ "established" \in Ops
  BY FnType, Zenon DEF Ops
<1>12. /\ here => todo' = todo
       /\ ~here => todo' = [todo EXCEPT ![h] = Append(@, Fn("established", c))]
  BY <1>1, <1>2, <1>10, <1>11, TodoSame, TodoPush, ZenonT(30) DEF Inv0
<1>13. \A m \in Loops, op \in Ops :
         /\ Waits(m, op, c)' <=> (~here /\ m = h /\ op = "established")
         /\ Once(m, op, c)
  <2>1. \A m \in Loops, op \in Ops : Once(m, op, c)
    BY <1>4, Zenon DEF Once, Waits, AtMostOne, Has
  <2>2. CASE here
    BY <1>4, <1>12, <2>1, <2>2, Zenon DEF Waits
  <2>3. CASE ~here
    <3>1. PICK o \in Ops : o = "established"
      BY <1>11, Zenon
    <3>2. Base1 /\ h \in Loops /\ todo' = [todo EXCEPT ![h] = Append(@, Fn(o, c))]
      BY <1>1, <1>12, <2>3, <3>1, Zenon DEF Inv0
    <3> HIDE DEF h, here
    <3>3. \A m \in Loops, op \in Ops : Waits(m, op, c)' <=> Waits(m, op, c) \/ (m = h /\ op = o)
      BY <3>2, OwnPush, Zenon
    <3> QED
      BY <1>4, <2>1, <2>3, <3>1, <3>3, Zenon
  <2> QED
    BY <2>2, <2>3, Zenon
<1>14. \A m \in Loops, op \in Ops : Once(m, op, c)'
  <2>1. CASE here
    BY <1>12, <1>13, <2>1, Zenon DEF Once
  <2>2. CASE ~here
    BY <1>1, <1>4, <1>11, <1>12, <1>13, <2>2, OwnPush, Zenon DEF Inv0
  <2> QED
    BY <2>1, <2>2, Zenon
<1>15. RefInv(c)'
  <2>1. ASSUME NEW m \in Loops
        PROVE  /\ loop'[m].active[c] = {}
               /\ \A o \in UserCallbacks : User(m, o, c)' => here /\ m = Base /\ o = "up"
               /\ \A o \in Ops : Waits(m, o, c)' => ~here /\ m = h /\ o = "established"
    BY <1>4, <1>10, <1>13, Zenon
  <2>2. /\ c \in connections' /\ c \notin kept' /\ ~(call' # NoCall /\ call'.c = c)
        /\ here => home'[c] = Base
        /\ conn'[c].state # "none"
        /\ here => conn'[c].state = "kConnected"
        /\ ~here => conn'[c].state = "kConnecting"
    BY <1>2, <1>4, <1>5, <1>8, Zenon DEF h
  <2>3. /\ conn'[c].late = FALSE /\ conn'[c].out = FALSE /\ "W" \notin conn'[c].events
        /\ ~here => conn'[c].events = {} /\ conn'[c].index = "kNew"
    BY <1>5, <1>8, SMTT(30)
  <2> HIDE DEF here
  <2>4. conn'[c].state \in New <=> ~here
    BY <2>2, Zenon DEF New
  <2>5. ASSUME NEW m \in Loops
        PROVE  /\ loop'[m].active[c] # {} => home'[c] = m /\ conn'[c].state \notin New
               /\ ~("close" \in loop'[m].active[c] /\ "read" \in loop'[m].active[c])
               /\ \A op \in UserCallbacks : User(m, op, c)' =>
                    home'[c] = m /\ conn'[c].state \notin New
                      /\ (op = "down" => loop'[m].phase = "run")
               /\ \A op \in Ops : Waits(m, op, c)' =>
                    /\ m = IF op = "remove" THEN Base ELSE home'[c]
                    /\ conn'[c].state # "none"
                    /\ op = "established" <=> conn'[c].state = "kConnecting"
    BY <1>8, <2>1, <2>2, <2>4, Zenon
  <2> QED
    BY <2>2, <2>3, <2>4, <2>5, Zenon DEF RefInv
<1>16. LifeInv(c)'
  <2>0. PICK g \in Loops : g = h /\ home'[c] = g
    BY <1>1, <1>8, Zenon
  <2>1. Once(g, "established", c)' /\ Once(Base, "remove", c)' /\ Once(g, "destroyed", c)'
    BY <1>1, <1>14, Zenon DEF Ops
  <2>2. ~Waits(Base, "remove", c)' /\ ~Waits(g, "destroyed", c)' /\ c \in connections'
    BY <1>1, <1>2, <1>13, <2>0, Zenon DEF Ops
  <2>3. ~User(g, "message", c)' /\ ~User(g, "down", c)'
        /\ (User(g, "up", c)' => here)
    BY <1>4, <1>10, Zenon DEF UserCallbacks
  <2>4. /\ here => conn'[c].state = "kConnected" /\ "R" \in conn'[c].events /\ conn'[c].index = "kAdded"
        /\ ~here => conn'[c].state = "kConnecting"
    BY <1>5, <1>8, Zenon
  <2> HIDE DEF here
  <2>5. (Open(c)' <=> here) /\ ~Closing(c)' /\ ~Gone(c)'
    BY <2>0, <2>2, <2>4, Zenon DEF Open, Closing, Gone, Waits
  <2> QED
    BY <2>0, <2>1, <2>2, <2>3, <2>4, <2>5, Zenon DEF LifeInv, Waits, Once, User
<1>17. ASSUME NEW d \in Conns, d # c PROVE Calm(d)
  <2>1. CalmMembers(d)
    BY <1>2, <1>8, <1>17, Zenon DEF CalmMembers, ConnStep
  <2>2. \A m \in Loops : CalmLoop(m, d)
    BY <1>10, <1>17, Zenon DEF CalmLoop, UserCallbacks
  <2>3. \A m \in Loops : CalmTodo(m, d)
    <3>1. CASE here
      BY <1>12, <3>1, CalmSame, Zenon
    <3>2. CASE ~here
      <4>1. todo' = [todo EXCEPT ![h] = Append(@, Fn("established", c))]
        BY <1>12, <3>2, Zenon
      <4> QED
        BY <1>1, <1>11, <1>17, <4>1, CalmPush, Zenon DEF Inv0
    <3> QED
      BY <3>1, <3>2, Zenon
  <2> QED
    BY <2>1, <2>2, <2>3, Zenon DEF Calm
<1>18. Base1'
  <2>1. pending' \in [Loops -> Seq(Functor)]
    BY <1>1, <1>2, <1>11, PushType, Zenon DEF Inv0, Base1, Types
  <2>2. next' \in 0..PoolMax /\ (next' = 0 \/ next' < numThreads)
    BY <1>2, NextLoop, Zenon DEF Inv0
  <2>3. connections' \subseteq Conns
    BY <1>1, <1>2, Zenon
  <2> QED
    BY <1>2, <1>8, <1>9, <1>10, <2>1, <2>2, <2>3, Zenon DEF Inv0, Base1, Types
<1> QED
  BY <1>15, <1>16, <1>17, <1>18, OthersCalm, Zenon DEF ConnInv
=============================================================================
