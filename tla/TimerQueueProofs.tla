-------------------------- MODULE TimerQueueProofs --------------------------
(***************************************************************************)
(* For any number of timers and any intervals: the two sets of timers      *)
(* agree and hold allocated timers only, a cancelled timer stays out, and  *)
(* a timer that does not repeat runs once.  The inductive invariant is     *)
(* BatchInv with these three; the times play no part in it.  On it rest    *)
(* what TimerIds are handed out, and for which timer the timerfd is armed. *)
(***************************************************************************)
EXTENDS TimerQueue, SequenceTheorems, WellFoundedInduction, TLAPS

\* The part of TypeOK that does not speak of times.
Shape ==
  /\ pc \in {"loop", "expired", "callback"}
  /\ timers \subseteq Timers /\ activeTimers \subseteq Timers
  /\ expired \subseteq Timers
  /\ interval \in [Timers -> Nat]
  /\ life \in [Timers -> {"none", "alive", "deleted"}]
  /\ pending \in Seq(Functors)
  /\ adding \in [Timers -> Timers \cup {0}] /\ id \in [Timers -> Timers \cup {0}]
  /\ cancelled \subseteq Timers \cup {0}
  /\ runs \in [Timers -> 0..2]

Inv == Shape /\ BatchInv /\ SetsAgree /\ CancelledStaysCancelled /\ OnceRunsOnce

\* A new queue satisfies the invariant (TimerQueue::TimerQueue).
LEMMA InvInit == Init => Inv
<1>. SUFFICES ASSUME Init PROVE Inv
  OBVIOUS
<1>1. Shape
  BY DEF Init, Shape
<1>2. BatchInv
  BY TimerAssumption DEF Init, BatchInv, Queued, Range
<1>3. SetsAgree /\ CancelledStaysCancelled /\ OnceRunsOnce
  BY DEF Init, SetsAgree, CancelledStaysCancelled, OnceRunsOnce
<1>. QED
  BY <1>1, <1>2, <1>3 DEF Inv

\* The passing of time changes nothing the invariant speaks of.
LEMMA TickStep == Inv /\ Tick => Inv'
  BY DEF Inv, Tick, Shape, BatchInv, Queued, SetsAgree, CancelledStaysCancelled, OnceRunsOnce,
         setVars, batchVars, timerVars, userVars

\* The expired timers leave both sets together (getExpired, handleRead).
LEMMA GetExpiredStep == Inv /\ GetExpired => Inv'
<1>. SUFFICES ASSUME Inv, GetExpired PROVE Inv'
  OBVIOUS
<1>. USE DEF Inv, GetExpired, timerVars, userVars
<1>1. Shape'
  BY DEF Shape
<1>2. BatchInv'
  BY DEF Shape, SetsAgree, BatchInv, Queued
<1>3. SetsAgree'
  BY DEF Shape, SetsAgree
<1>4. CancelledStaysCancelled' /\ OnceRunsOnce'
  BY DEF CancelledStaysCancelled, OnceRunsOnce
<1>. QED
  BY <1>1, <1>2, <1>3, <1>4

\* The return of a callback changes nothing but the point of control (handleRead).
LEMMA CallbackReturnsStep == Inv /\ CallbackReturns => Inv'
  BY DEF Inv, CallbackReturns, Shape, BatchInv, Queued, SetsAgree, CancelledStaysCancelled,
         OnceRunsOnce, setVars, batchVars, timerVars, userVars

\* Only timers that repeat and were not cancelled in the batch come back (reset).
LEMMA ResetStep == Inv /\ Reset => Inv'
<1>. SUFFICES ASSUME Inv, Reset PROVE Inv'
  OBVIOUS
<1>. USE DEF Inv, Reset, Restarts, userVars
<1>1. Shape'
  BY DEF Shape
<1>2. BatchInv'
  BY DEF Shape, SetsAgree, BatchInv, Queued
<1>3. SetsAgree'
  BY DEF Shape, SetsAgree
<1>4. CancelledStaysCancelled' /\ OnceRunsOnce'
  BY DEF CancelledStaysCancelled, OnceRunsOnce
<1>. QED
  BY <1>1, <1>2, <1>3, <1>4

\* The count of a timer that has not run yet becomes 1 (Timer::run).
LEMMA MinOfOne == Min({0 + 1, 2}) = 1
  BY DEF Min

\* The count of runs stays within its bound.
LEMMA MinInRange ==
  ASSUME NEW n \in 0..2
  PROVE  Min({n + 1, 2}) \in 1..2
<1>1. \E x \in {n + 1, 2} : \A y \in {n + 1, 2} : x =< y
  <2>1. CASE n + 1 =< 2
    BY <2>1
  <2>2. CASE ~(n + 1 =< 2)
    BY <2>2
  <2>. QED
    BY <2>1, <2>2
<1>2. Min({n + 1, 2}) \in {n + 1, 2} /\ \A y \in {n + 1, 2} : Min({n + 1, 2}) =< y
  BY <1>1, Zenon DEF Min
<1>. QED
  BY <1>2

\* A timer of the batch runs; one that does not repeat has not run before (handleRead).
LEMMA RunTimerStep == ASSUME Inv, NEW t \in Timers, RunTimer(t) PROVE Inv'
<1>. USE DEF Inv, RunTimer, setVars, timerVars, userVars
<1>0. runs[t] \in 0..2 /\ Min({runs[t] + 1, 2}) \in 1..2
  BY MinInRange, Zenon DEF Shape
<1>00. interval[t] = 0 => runs[t] = 0 /\ runs'[t] = 1
  <2>1. runs'[t] = Min({runs[t] + 1, 2})
    BY DEF Shape
  <2>2. interval[t] = 0 => runs[t] = 0
    BY DEF BatchInv
  <2>. QED
    BY <2>1, <2>2, MinOfOne, Zenon
<1>1. Shape'
  BY <1>0 DEF Shape
<1>2. BatchInv'
  BY <1>0 DEF Shape, SetsAgree, BatchInv, Queued
<1>3. SetsAgree' /\ CancelledStaysCancelled'
  BY DEF SetsAgree, CancelledStaysCancelled
<1>4. OnceRunsOnce'
  BY <1>0, <1>00 DEF OnceRunsOnce, Shape
<1>. QED
  BY <1>1, <1>2, <1>3, <1>4

\* cancelInLoop takes a timer out of both sets, or out of none.
LEMMA CancelKeepsSets ==
  ASSUME Shape, SetsAgree, NEW t, CancelInLoop(t), expired' = expired
  PROVE  SetsAgree'
<1>1. CASE t \in activeTimers
  <2>1. /\ timers' = timers \ {t} /\ activeTimers' = activeTimers \ {t}
        /\ life' = [life EXCEPT ![t] = "deleted"]
    BY <1>1 DEF CancelInLoop
  <2>2. t \in timers /\ t \notin expired /\ t \in Timers
    BY <1>1 DEF SetsAgree, Shape
  <2>3. \A u \in Timers \ {t} : life'[u] = life[u]
    BY <2>1 DEF Shape
  <2>. QED
    BY <2>1, <2>2, <2>3 DEF Shape, SetsAgree
<1>2. CASE t \notin activeTimers
  BY <1>2 DEF CancelInLoop, SetsAgree
<1>. QED
  BY <1>1, <1>2

\* A cancel in the owner's thread keeps the invariant (cancelInLoop).
LEMMA OwnerCancelStep == ASSUME Inv, NEW t \in Timers, OwnerCancel(t) PROVE Inv'
<1>0. PICK u \in Timers \cup {0} : u = id[t]
  BY DEF Inv, Shape
<1>c. /\ CancelInLoop(u)
      /\ UNCHANGED <<pc, callingExpiredTimers, expired, toRun, interval, pending, adding, id, runs>>
  BY <1>0 DEF OwnerCancel, batchVars, userVars
<1>n. \A v \in Timers : life[v] = "none" => v # u
  BY <1>0 DEF Inv, BatchInv
<1>. USE DEF Inv, CancelInLoop, CancelledWith
<1>1. Shape'
  BY <1>c DEF Shape
<1>2. BatchInv'
  BY <1>c, <1>n DEF Shape, SetsAgree, BatchInv, Queued
<1>3. SetsAgree'
  BY <1>c, CancelKeepsSets
<1>4. CancelledStaysCancelled'
  BY <1>c DEF CancelledStaysCancelled, Shape, SetsAgree, BatchInv, Queued
<1>5. OnceRunsOnce'
  BY <1>c DEF OnceRunsOnce
<1>. QED
  BY <1>1, <1>2, <1>3, <1>4, <1>5

\* A new Timer is the one constructed last where it may be, and nowhere else (Timer::Timer).
LEMMA ReusedIs ==
  ASSUME Shape, NEW t \in Timers, NEW r \in Addresses
  PROVE  /\ Reused(r, t) \in [Timers -> Timers \cup {0}]
         /\ \A w \in Timers :
              \/ Reused(r, t)[w] = adding[w]
              \/ Reused(r, t)[w] = t /\ adding[w] \in Timers /\ life[adding[w]] = "deleted"
BY TimerAssumption DEF Reused, Addresses, Shape

\* A timer added in the owner's thread is new to every set (addTimerInLoop).
LEMMA OwnerAddStep ==
  ASSUME Inv, NEW t \in Timers, NEW when \in 0..TimeMax, NEW i \in Intervals,
         OwnerAddTimer(t, when, i)
  PROVE  Inv'
<1>0. /\ adding' \in [Timers -> Timers \cup {0}]
      /\ \A w \in Timers : adding'[w] \in {adding[w], t} /\ (adding[w] = 0 => adding'[w] = 0)
  BY ReusedIs, TimerAssumption DEF OwnerAddTimer, Inv
<1>i. id' \in [Timers -> Timers \cup {0}] /\ \A w \in Timers : id'[w] \in {id[w], t}
  BY DEF OwnerAddTimer, Inv, Shape
<1>. USE TimerAssumption DEF Inv, OwnerAddTimer, NewTimer, AddTimerInLoop, batchVars
<1>1. Shape'
  BY <1>0, <1>i DEF Shape
<1>2. BatchInv'
  <2>1. \A u \in Timers : life'[u] = "none" => u # t /\ life[u] = "none" /\ id'[u] = id[u]
    BY DEF Shape
  <2>2. \A u \in Timers : life'[u] = "none" =>
          /\ runs'[u] = 0 /\ adding'[u] = 0 /\ id'[u] = 0
          /\ u \notin cancelled'
          /\ \A w \in Timers : adding'[w] # u /\ id'[w] # u
          /\ \A k \in DOMAIN pending' : pending'[k].t # u
    BY <1>0, <1>i, <2>1 DEF BatchInv
  <2>3. \A u \in Queued' : life'[u] = "alive" /\ u \notin timers' \cup expired' \cup cancelled'
    BY DEF Shape, SetsAgree, BatchInv, Queued
  <2>4. \A u \in timers' \cup toRun' \cup Queued' : interval'[u] = 0 => runs'[u] = 0
    BY DEF Shape, SetsAgree, BatchInv, Queued
  <2>. QED
    BY <2>2, <2>3, <2>4 DEF BatchInv
<1>3. SetsAgree'
  BY DEF Shape, SetsAgree
<1>4. CancelledStaysCancelled'
  BY DEF CancelledStaysCancelled, Shape, BatchInv
<1>5. OnceRunsOnce'
  BY DEF OnceRunsOnce, BatchInv, Shape
<1>. QED
  BY <1>1, <1>2, <1>3, <1>4, <1>5

\* A push adds one functor to those that wait (queueInLoop).
LEMMA RangeAppend ==
  ASSUME NEW S, NEW s \in Seq(S), NEW e \in S
  PROVE  Range(Append(s, e)) = Range(s) \cup {e}
<1>1. DOMAIN Append(s, e) = DOMAIN s \cup {Len(s) + 1} /\ Len(s) \in Nat
  OBVIOUS
<1>2. \A i \in DOMAIN s : Append(s, e)[i] = s[i]
  OBVIOUS
<1>3. Append(s, e)[Len(s) + 1] = e
  OBVIOUS
<1>. QED
  BY <1>1, <1>2, <1>3, Zenon DEF Range

\* What a push does to the functors that wait.
LEMMA Pushed ==
  ASSUME Shape, NEW f \in Functors, pending' = Append(pending, f)
  PROVE  /\ pending' \in Seq(Functors)
         /\ DOMAIN pending' = DOMAIN pending \cup {Len(pending) + 1}
         /\ Len(pending) + 1 \notin DOMAIN pending
         /\ \A i \in DOMAIN pending : pending'[i] = pending[i]
         /\ pending'[Len(pending) + 1] = f
         /\ Range(pending') = Range(pending) \cup {f}
<1>1. /\ pending' \in Seq(Functors)
      /\ DOMAIN pending' = DOMAIN pending \cup {Len(pending) + 1}
      /\ Len(pending) + 1 \notin DOMAIN pending
  BY DEF Shape
<1>2. \A i \in DOMAIN pending : pending'[i] = pending[i]
  BY DEF Shape
<1>3. pending'[Len(pending) + 1] = f
  BY DEF Shape
<1>4. Range(Append(pending, f)) = Range(pending) \cup {f}
  <2>. DEFINE F == Functors
  <2>1. pending \in Seq(F) /\ f \in F
    BY DEF Shape
  <2>. HIDE DEF F
  <2>. QED
    BY <2>1, RangeAppend
<1>. QED
  BY <1>1, <1>2, <1>3, <1>4

\* A timer another thread queues is allocated, queued once and in no set (addTimer).
LEMMA AddTimerStep ==
  ASSUME Inv, NEW t \in Timers, NEW when \in 0..TimeMax, NEW i \in Intervals,
         AddTimer(t, when, i)
  PROVE  Inv'
<1>. USE TimerAssumption DEF Inv, NewTimer, batchVars, setVars
<1>. DEFINE f == [op |-> "add", t |-> t]
<1>0. f \in Functors /\ pending' = Append(pending, f)
  BY DEF AddTimer, Functors
<1>a. /\ adding' \in [Timers -> Timers \cup {0}] /\ adding'[t] = t
      /\ \A w \in Timers : adding'[w] \in {adding[w], t} /\ (w # t /\ adding[w] = 0 => adding'[w] = 0)
  <2>1. PICK r \in Addresses : adding' = [Reused(r, t) EXCEPT ![t] = t]
    BY DEF AddTimer
  <2>2. /\ Reused(r, t) \in [Timers -> Timers \cup {0}]
        /\ \A w \in Timers : /\ Reused(r, t)[w] \in {adding[w], t}
                             /\ adding[w] = 0 => Reused(r, t)[w] = 0
    BY ReusedIs, TimerAssumption DEF Inv
  <2>. QED
    BY <2>1, <2>2
<1>p. /\ pending' \in Seq(Functors)
      /\ DOMAIN pending' = DOMAIN pending \cup {Len(pending) + 1}
      /\ Len(pending) + 1 \notin DOMAIN pending
      /\ \A k \in DOMAIN pending : pending'[k] = pending[k]
      /\ pending'[Len(pending) + 1] = f
      /\ Range(pending') = Range(pending) \cup {f}
  BY <1>0, Pushed, Zenon
<1>q. Queued' = Queued \cup {t}
  BY <1>p DEF Queued
<1>u. \A k \in DOMAIN pending : pending[k] # f
  BY DEF BatchInv, AddTimer
<1>1. Shape'
  BY <1>p, <1>a DEF Shape, AddTimer
<1>2. BatchInv'
  <2>1. /\ callingExpiredTimers' <=> pc' # "loop"
        /\ toRun' \subseteq expired' /\ (pc' = "loop" => expired' = {})
    BY DEF BatchInv, AddTimer
  <2>2. \A k, l \in DOMAIN pending' :
          pending'[k].op = "add" /\ pending'[k] = pending'[l] => k = l
    BY <1>p, <1>u DEF BatchInv
  <2>3. \A u \in Queued' : life'[u] = "alive" /\ u \notin timers' \cup expired' \cup cancelled'
    BY <1>q DEF BatchInv, AddTimer, Shape, SetsAgree, Queued
  <2>4. \A u \in Timers : life'[u] = "none" =>
          /\ runs'[u] = 0 /\ adding'[u] = 0 /\ id'[u] = 0
          /\ u \notin cancelled'
          /\ \A w \in Timers : adding'[w] # u /\ id'[w] # u
          /\ \A k \in DOMAIN pending' : pending'[k].t # u
    BY <1>p, <1>a DEF BatchInv, AddTimer, Shape
  <2>5. \A u \in timers' \cup toRun' \cup Queued' : interval'[u] = 0 => runs'[u] = 0
    BY <1>q DEF BatchInv, AddTimer, Shape, SetsAgree, Queued
  <2>. QED
    BY <2>1, <2>2, <2>3, <2>4, <2>5 DEF BatchInv
<1>3. SetsAgree'
  BY DEF Shape, SetsAgree, AddTimer
<1>4. CancelledStaysCancelled'
  BY DEF CancelledStaysCancelled, AddTimer
<1>5. OnceRunsOnce'
  BY DEF OnceRunsOnce, BatchInv, Shape, AddTimer
<1>. QED
  BY <1>1, <1>2, <1>3, <1>4, <1>5

\* Handing out a TimerId touches no set (addTimer).
LEMMA AddTimerReturnsStep == ASSUME Inv, NEW t \in Timers, AddTimerReturns(t) PROVE Inv'
<1>. USE DEF Inv, AddTimerReturns, setVars, batchVars, timerVars
<1>1. /\ adding' \in [Timers -> Timers \cup {0}] /\ id' \in [Timers -> Timers \cup {0}]
      /\ \A w \in Timers : adding'[w] \in {adding[w], 0} /\ id'[w] \in {id[w], adding[w]}
      /\ adding[t] # 0 /\ \A w \in Timers : w # t => id'[w] = id[w]
  BY DEF Shape
<1>2. Shape' /\ SetsAgree' /\ CancelledStaysCancelled' /\ OnceRunsOnce'
  BY <1>1 DEF Shape, SetsAgree, CancelledStaysCancelled, OnceRunsOnce
<1>3. \A u \in Timers : life'[u] = "none" =>
        /\ runs'[u] = 0 /\ adding'[u] = 0 /\ id'[u] = 0
        /\ u \notin cancelled'
        /\ \A w \in Timers : adding'[w] # u /\ id'[w] # u
        /\ \A k \in DOMAIN pending' : pending'[k].t # u
  BY <1>1, TimerAssumption DEF BatchInv
<1>4. BatchInv'
  BY <1>3 DEF BatchInv, Queued
<1>. QED
  BY <1>2, <1>4

\* A cancel that another thread queues touches no set yet (cancel).
LEMMA CancelStep == ASSUME Inv, NEW t \in Timers, Cancel(t) PROVE Inv'
<1>. USE DEF Inv, batchVars, setVars, timerVars
<1>i. PICK u \in Timers \cup {0} : u = id[t]
  BY DEF Shape
<1>. DEFINE f == [op |-> "cancel", t |-> u]
<1>0. f \in Functors /\ pending' = Append(pending, f)
  BY <1>i DEF Cancel, Functors
<1>p. /\ pending' \in Seq(Functors)
      /\ DOMAIN pending' = DOMAIN pending \cup {Len(pending) + 1}
      /\ Len(pending) + 1 \notin DOMAIN pending
      /\ \A k \in DOMAIN pending : pending'[k] = pending[k]
      /\ pending'[Len(pending) + 1] = f
      /\ Range(pending') = Range(pending) \cup {f}
  BY <1>0, Pushed, Zenon
<1>q. Queued' = Queued
  BY <1>p DEF Queued
<1>1. Shape'
  BY <1>p DEF Shape, Cancel
<1>2. BatchInv'
  <2>1. \A v \in Timers : life[v] = "none" => u # v
    BY <1>i DEF BatchInv
  <2>2. \A v \in Timers : life[v] = "none" => \A k \in DOMAIN pending' : pending'[k].t # v
    BY <1>p, <2>1 DEF BatchInv
  <2>3. \A k, l \in DOMAIN pending' :
          pending'[k].op = "add" /\ pending'[k] = pending'[l] => k = l
    BY <1>p DEF BatchInv
  <2>. QED
    BY <1>q, <2>2, <2>3 DEF BatchInv, Cancel
<1>3. SetsAgree' /\ CancelledStaysCancelled' /\ OnceRunsOnce'
  BY DEF SetsAgree, CancelledStaysCancelled, OnceRunsOnce, Cancel
<1>. QED
  BY <1>1, <1>2, <1>3

\* What taking the first functor does to those that wait.
LEMMA Popped ==
  ASSUME Shape, pending # <<>>, pending' = Tail(pending)
  PROVE  /\ Head(pending) \in Functors
         /\ 1 \in DOMAIN pending /\ pending[1] = Head(pending)
         /\ pending' \in Seq(Functors)
         /\ \A i \in DOMAIN pending' : i + 1 \in DOMAIN pending /\ pending'[i] = pending[i + 1]
         /\ \A i \in DOMAIN pending' : i \in Nat /\ i + 1 # 1
         /\ Range(pending') \subseteq Range(pending)
<1>. DEFINE F == Functors
<1>0. pending \in Seq(F)
  BY DEF Shape
<1>. HIDE DEF F
<1>1. /\ Head(pending) \in F
      /\ 1 \in DOMAIN pending /\ pending[1] = Head(pending)
      /\ pending' \in Seq(F)
  BY <1>0
<1>2. \A i \in DOMAIN pending' : i + 1 \in DOMAIN pending /\ pending'[i] = pending[i + 1]
  BY <1>0
<1>3. \A i \in DOMAIN pending' : i \in Nat /\ i + 1 # 1
  BY <1>1
<1>4. Range(pending') \subseteq Range(pending)
  BY <1>2 DEF Range
<1>. QED
  BY <1>1, <1>2, <1>3, <1>4 DEF F

\* A queued addTimerInLoop finds its timer in no set; a queued cancelInLoop is like one
\* outside a batch (doPendingFunctors).
LEMMA RunFunctorStep == Inv /\ RunFunctor => Inv'
<1>. SUFFICES ASSUME Inv, RunFunctor PROVE Inv'
  OBVIOUS
<1>. USE DEF Inv
<1>. DEFINE t == Head(pending).t
<1>0. pending # <<>> /\ pending' = Tail(pending)
  BY DEF RunFunctor
<1>p. /\ Head(pending) \in Functors
      /\ 1 \in DOMAIN pending /\ pending[1] = Head(pending)
      /\ pending' \in Seq(Functors)
      /\ \A i \in DOMAIN pending' : i + 1 \in DOMAIN pending /\ pending'[i] = pending[i + 1]
      /\ \A i \in DOMAIN pending' : i \in Nat /\ i + 1 # 1
      /\ Range(pending') \subseteq Range(pending)
  BY <1>0, Popped
<1>t. t \in Timers \cup {0} /\ (Head(pending).op = "add" => t \in Timers)
  BY <1>p DEF Functors
<1>n. \A u \in Timers : life[u] = "none" => u # t
  BY <1>p DEF BatchInv
<1>q. Queued' \subseteq Queued
  BY <1>p DEF Queued
<1>l. pc = "loop" /\ ~callingExpiredTimers /\ expired = {} /\ toRun = {}
  BY DEF RunFunctor, BatchInv
<1>o. \A i, j \in DOMAIN pending' :
        pending'[i].op = "add" /\ pending'[i] = pending'[j] => i = j
  <2>. SUFFICES ASSUME NEW i \in DOMAIN pending', NEW j \in DOMAIN pending',
                       pending'[i].op = "add", pending'[i] = pending'[j]
                PROVE  i = j
    OBVIOUS
  <2>1. i + 1 = j + 1
    BY <1>p DEF BatchInv
  <2>. QED
    BY <2>1, <1>p
<1>1. CASE Head(pending).op = "add"
  <2>1. /\ timers' = timers \cup {t} /\ activeTimers' = activeTimers \cup {t}
        /\ UNCHANGED <<cancelingTimers, life, cancelled, now, pc, callingExpiredTimers, expired,
                       toRun, interval, adding, id, runs>>
    BY <1>1 DEF RunFunctor, AddTimerInLoop, batchVars
  <2>2. Head(pending) = [op |-> "add", t |-> t]
    BY <1>1, <1>p DEF Functors
  <2>3. t \in Queued
    BY <1>1, <1>p, <1>t, <2>2 DEF Queued, Range
  <2>4. t \notin Queued'
    <3>. SUFFICES ASSUME Head(pending) \in Range(pending') PROVE FALSE
      BY <2>2 DEF Queued
    <3>1. PICK i \in DOMAIN pending' : pending'[i] = Head(pending)
      BY DEF Range
    <3>. QED
      BY <3>1, <1>1, <1>p DEF BatchInv
  <2>5. Shape'
    BY <1>1, <2>1, <1>p, <1>t DEF Shape
  <2>6. BatchInv'
    <3>1. \A u \in Queued' :
            life'[u] = "alive" /\ u \notin timers' \cup expired' \cup cancelled'
      BY <2>1, <2>4, <1>q DEF BatchInv
    <3>2. \A u \in Timers : life'[u] = "none" =>
            /\ runs'[u] = 0 /\ adding'[u] = 0 /\ id'[u] = 0
            /\ u \notin cancelled'
            /\ \A w \in Timers : adding'[w] # u /\ id'[w] # u
            /\ \A i \in DOMAIN pending' : pending'[i].t # u
      BY <2>1, <1>p DEF BatchInv
    <3>3. \A u \in timers' \cup toRun' \cup Queued' : interval'[u] = 0 => runs'[u] = 0
      BY <2>1, <2>3, <1>q DEF BatchInv
    <3>. QED
      BY <3>1, <3>2, <3>3, <2>1, <1>o, <1>l DEF BatchInv
  <2>7. SetsAgree' /\ CancelledStaysCancelled' /\ OnceRunsOnce'
    BY <2>1, <2>3 DEF SetsAgree, CancelledStaysCancelled, OnceRunsOnce, BatchInv
  <2>. QED
    BY <2>5, <2>6, <2>7
<1>2. CASE Head(pending).op = "cancel"
  <2>1. /\ CancelInLoop(t)
        /\ UNCHANGED <<now, pc, callingExpiredTimers, expired, toRun, interval, adding, id, runs>>
    BY <1>2 DEF RunFunctor, batchVars
  <2>2. /\ timers' = timers \ {t} /\ activeTimers' = activeTimers \ {t}
        /\ cancelled' = CancelledWith(t)
        /\ life' = IF t \in timers THEN [life EXCEPT ![t] = "deleted"] ELSE life
    BY <2>1 DEF CancelInLoop, SetsAgree
  <2>3. cancelled' \subseteq cancelled \cup {t} /\ (t \in Queued => cancelled' = cancelled)
    BY <2>2, <1>t DEF CancelledWith, Queued
  <2>4. /\ life' \in [Timers -> {"none", "alive", "deleted"}]
        /\ \A u \in Timers : u \notin timers \/ u # t => life'[u] = life[u]
        /\ \A u \in Timers : life'[u] = "none" => life[u] = "none"
    BY <2>2, <1>t DEF Shape
  <2>5. Shape'
    BY <2>1, <2>2, <2>3, <2>4, <1>p, <1>t DEF Shape
  <2>6. BatchInv'
    <3>1. \A u \in Queued' :
            life'[u] = "alive" /\ u \notin timers' \cup expired' \cup cancelled'
      BY <2>1, <2>2, <2>3, <2>4, <1>q DEF BatchInv, Queued
    <3>2. \A u \in Timers : life'[u] = "none" =>
            /\ runs'[u] = 0 /\ adding'[u] = 0 /\ id'[u] = 0
            /\ u \notin cancelled'
            /\ \A w \in Timers : adding'[w] # u /\ id'[w] # u
            /\ \A i \in DOMAIN pending' : pending'[i].t # u
      BY <2>1, <2>3, <2>4, <1>p, <1>n DEF BatchInv
    <3>3. \A u \in timers' \cup toRun' \cup Queued' : interval'[u] = 0 => runs'[u] = 0
      BY <2>1, <2>2, <1>q DEF BatchInv
    <3>. QED
      BY <3>1, <3>2, <3>3, <2>1, <1>o, <1>l DEF BatchInv
  <2>7. SetsAgree'
    BY <2>1, <1>t, CancelKeepsSets
  <2>8. CancelledStaysCancelled' /\ OnceRunsOnce'
    BY <2>1, <2>2, <2>3, <1>l DEF CancelledStaysCancelled, OnceRunsOnce
  <2>. QED
    BY <2>5, <2>6, <2>7, <2>8
<1>. QED
  BY <1>1, <1>2, <1>p DEF Functors

\* Every step keeps the invariant (addTimer, cancel, handleRead, reset).
LEMMA InvStep == Inv /\ [Next]_vars => Inv'
<1>. SUFFICES ASSUME Inv, [Next]_vars PROVE Inv'
  OBVIOUS
<1>1. CASE OwnerStep
  BY <1>1, GetExpiredStep, CallbackReturnsStep, ResetStep, RunFunctorStep, RunTimerStep
  DEF OwnerStep
<1>2. CASE UserStep
  BY <1>2, AddTimerReturnsStep, OwnerCancelStep, CancelStep, OwnerAddStep, AddTimerStep
  DEF UserStep
<1>3. CASE UNCHANGED vars
  BY <1>3 DEF Inv, vars, Shape, BatchInv, Queued, SetsAgree, CancelledStaysCancelled,
              OnceRunsOnce, setVars, batchVars, timerVars, userVars
<1>. QED
  BY <1>1, <1>2, <1>3, TickStep DEF Next
-----------------------------------------------------------------------------
(* Which TimerIds are handed out, and which of them are stale. *)

Ids == IdInv /\ StaleIdIsSpent

\* The timer was deleted under its addTimer, or the TimerId of another one was returned for it.
Astray(t) ==
  \/ adding[t] # 0 /\ life[t] = "deleted"
  \/ Known(t) /\ id[t] # t

Excused(t) == Spent(t) \/ TakenByStray(t)

\* What no step takes back.
Later ==
  /\ \A u \in Timers :
       /\ life[u] = "deleted" => life'[u] = "deleted" /\ interval'[u] = interval[u]
       /\ runs[u] # 0 => runs'[u] # 0
       /\ id[u] # 0 => id'[u] = id[u]
  /\ cancelled \subseteq cancelled'

\* The property, timer by timer.
LEMMA StaleMeans ==
  /\ StaleIdIsSpent <=> \A t \in Timers : Astray(t) => Excused(t)
  /\ StaleIdIsSpent' <=> \A t \in Timers : Astray(t)' => Excused(t)'
BY Zenon DEF StaleIdIsSpent, Astray, Excused

\* A timer that is spent, or was taken by a stray TimerId, stays so.
LEMMA ExcusedStays ==
  ASSUME Later, NEW t \in Timers, Excused(t)
  PROVE  Excused(t)'
<1>1. Spent(t) => Spent(t)'
  BY Zenon DEF Spent, Later
<1>2. TakenByStray(t) => TakenByStray(t)'
  BY TimerAssumption, Zenon DEF TakenByStray, Later
<1>. QED
  BY <1>1, <1>2, Zenon DEF Excused

\* It is enough to look at the timers that a step leads astray.
LEMMA StaleStep ==
  ASSUME Ids, Later, \A t \in Timers : Astray(t)' => Astray(t) \/ Excused(t)'
  PROVE  StaleIdIsSpent'
BY StaleMeans, ExcusedStays, Zenon DEF Ids

\* A TimerId that was handed out remains so.
LEMMA RangeGrows ==
  ASSUME Shape, Shape', Later
  PROVE  Range(id) \cup {0} \subseteq Range(id') \cup {0}
<1>1. DOMAIN id = Timers /\ DOMAIN id' = Timers
  BY DEF Shape
<1>. QED
  BY <1>1, Zenon DEF Later, Range

\* At first there are no ids.
LEMMA IdsInit == Init => Ids
<1>. SUFFICES ASSUME Init PROVE Ids
  OBVIOUS
<1>1. IdInv
  BY TimerAssumption DEF Init, IdInv
<1>2. StaleIdIsSpent
  BY DEF Init, StaleIdIsSpent, Known
<1>. QED
  BY <1>1, <1>2 DEF Ids

\* A step that allocates and deletes nothing and hands out no TimerId.
LEMMA QuietIds ==
  ASSUME Inv, Inv', Ids, UNCHANGED <<life, interval, adding, id, cancelled>>,
         \A u \in Timers : runs[u] # 0 => runs'[u] # 0
  PROVE  /\ Later /\ StaleIdIsSpent'
         /\ \A t \in Timers : adding'[t] # 0 => id'[t] = 0
         /\ \A t \in Timers : life'[t] = "alive" =>
              IF adding'[t] = 0 THEN id'[t] = t ELSE adding'[t] = t
<1>1. Later
  BY DEF Later
<1>2. \A t \in Timers : Astray(t)' => Astray(t)
  BY DEF Astray, Known
<1>. QED
  BY <1>1, <1>2, StaleStep, Zenon DEF Ids, IdInv

\* cancelInLoop, for a TimerId that was handed out: the timer it takes from an addTimer that
\* has not returned is cancelled by the TimerId of another timer.
LEMMA CancelIds ==
  ASSUME Inv, Inv', Ids, NEW u \in Range(id) \cup {0}, CancelInLoop(u),
         UNCHANGED <<expired, toRun, interval, adding, id, runs>>,
         \A i \in DOMAIN pending' :
           pending'[i].op = "cancel" => pending'[i].t \in Range(id) \cup {0}
  PROVE  Ids'
<1>1. /\ cancelled \subseteq cancelled'
      /\ u \in timers \cup expired => u \in cancelled'
  <2>1. u \in timers \cup expired => u \notin Queued /\ u \in Timers
    BY DEF Inv, BatchInv, Shape
  <2>. QED
    BY <2>1 DEF CancelInLoop, CancelledWith, Queued
<1>2. \A t \in Timers : t # u => life'[t] = life[t]
  BY DEF CancelInLoop, Inv, Shape
<1>3. u \in Timers /\ life'[u] # life[u] => life[u] = "alive" /\ life'[u] = "deleted" /\ u \in timers
  BY DEF CancelInLoop, Inv, Shape, SetsAgree
<1>4. Later
  BY <1>1, <1>2, <1>3, ZenonT(30) DEF Later
<1>5. ASSUME NEW t \in Timers, Astray(t)', ~Astray(t) PROVE Excused(t)'
  <2>1. t = u /\ adding[t] # 0 /\ life'[t] # life[t] /\ id[t] = 0
    BY <1>2, <1>3, <1>5, ZenonT(30) DEF Astray, Known, Ids, IdInv
  <2>2. t \in cancelled'
    BY <1>1, <1>3, <2>1
  <2>3. PICK w \in Timers : id[w] = t
    BY <2>1, TimerAssumption DEF Range, Inv, Shape
  <2>4. w # t
    BY <2>1, <2>3, TimerAssumption
  <2>. QED
    BY <2>2, <2>3, <2>4, Zenon DEF Excused, TakenByStray
<1>6. StaleIdIsSpent'
  BY <1>4, <1>5, StaleStep, Zenon
<1>7. cancelingTimers' \subseteq cancelingTimers \cup {u}
  BY DEF CancelInLoop
<1>8. IdInv'
  <2>1. \A t \in Timers : life'[t] = "alive" => life[t] = "alive"
    BY <1>2, <1>3, Zenon
  <2>2. /\ cancelingTimers' \subseteq Range(id') \cup {0}
        /\ cancelingTimers' \cap expired' \subseteq cancelled'
    BY <1>1, <1>7 DEF Ids, IdInv
  <2>. QED
    BY <2>1, <2>2 DEF Ids, IdInv
<1>. QED
  BY <1>6, <1>8 DEF Ids

\* A new timer is not astray, and leads none astray (addTimer, Timer::Timer).
LEMMA NewTimerIds ==
  ASSUME Inv, Inv', Ids, NEW t \in Timers, NEW when, NEW i, NewTimer(t, when, i),
         \A w \in Timers \ {t} : id'[w] = id[w],
         \A w \in Timers \ {t} :
           \/ adding'[w] = adding[w]
           \/ adding'[w] # 0 /\ adding[w] # 0 /\ life[adding[w]] = "deleted",
         \/ adding'[t] = 0 /\ id'[t] = t
         \/ adding'[t] = t /\ id'[t] = 0,
         UNCHANGED <<cancelingTimers, expired, toRun, runs, cancelled>>,
         \A j \in DOMAIN pending' :
           pending'[j].op = "cancel" => pending'[j].t \in Range(id) \cup {0}
  PROVE  Ids'
<1>1. life[t] = "none" /\ life'[t] = "alive" /\ id[t] = 0 /\ t # 0
  BY TimerAssumption DEF NewTimer, Inv, BatchInv, Shape
<1>2. \A w \in Timers \ {t} : life'[w] = life[w] /\ interval'[w] = interval[w]
  BY DEF NewTimer, Inv, Shape
<1>3. Later
  BY <1>1, <1>2, ZenonT(30) DEF Later
<1>4. \A w \in Timers \ {t} : adding'[w] = 0 <=> adding[w] = 0
  OBVIOUS
<1>5. ASSUME NEW w \in Timers, Astray(w)' PROVE Astray(w)
  <2>1. w # t
    BY <1>1, <1>5 DEF Astray, Known
  <2>. QED
    BY <1>2, <1>4, <1>5, <2>1, ZenonT(30) DEF Astray, Known
<1>6. StaleIdIsSpent'
  BY <1>3, <1>5, StaleStep, Zenon
<1>7. Range(id) \cup {0} \subseteq Range(id') \cup {0}
  BY <1>3, RangeGrows DEF Inv
<1>8. IdInv'
  <2>1. \A w \in Timers : adding'[w] # 0 => id'[w] = 0
    BY <1>1, <1>4 DEF Ids, IdInv
  <2>2. ASSUME NEW w \in Timers, life'[w] = "alive", w # t
        PROVE  IF adding'[w] = 0 THEN id'[w] = w ELSE adding'[w] = w
    BY <1>2, <1>4, <2>2 DEF Ids, IdInv
  <2>3. /\ cancelingTimers' \subseteq Range(id') \cup {0}
        /\ \A j \in DOMAIN pending' :
             pending'[j].op = "cancel" => pending'[j].t \in Range(id') \cup {0}
    BY <1>7, Zenon DEF Ids, IdInv
  <2>4. IF adding'[t] = 0 THEN id'[t] = t ELSE adding'[t] = t
    BY <1>1
  <2>. QED
    BY <2>1, <2>2, <2>3, <2>4 DEF Ids, IdInv
<1>. QED
  BY <1>6, <1>8 DEF Ids

\* Every step keeps it (addTimer, cancel, handleRead, reset).
LEMMA IdsStep == Inv /\ Inv' /\ Ids /\ [Next]_vars => Ids'
<1>. SUFFICES ASSUME Inv, Inv', Ids, [Next]_vars PROVE Ids'
  OBVIOUS
<1>1. CASE GetExpired
  <2>1. UNCHANGED <<life, interval, adding, id, cancelled, runs, pending>>
    BY <1>1 DEF GetExpired, timerVars, userVars
  <2>2. cancelingTimers' = {} /\ expired' \ toRun' = {}
    BY <1>1 DEF GetExpired
  <2>. QED
    BY <2>1, <2>2, QuietIds DEF Ids, IdInv
<1>2. ASSUME NEW t \in Timers, RunTimer(t) PROVE Ids'
  <2>1. runs[t] \in 0..2 /\ Min({runs[t] + 1, 2}) \in 1..2
    BY MinInRange, ZenonT(30) DEF Inv, Shape
  <2>2. \A u \in Timers : runs[u] # 0 => runs'[u] # 0
    BY <1>2, <2>1 DEF RunTimer, Inv, Shape
  <2>3. runs'[t] # 0 /\ toRun' = toRun \ {t} /\ expired' = expired /\ expired \subseteq Timers
    BY <1>2, <2>1 DEF RunTimer, Inv, Shape
  <2>4. UNCHANGED <<life, interval, adding, id, cancelled, pending, cancelingTimers>>
    BY <1>2 DEF RunTimer, setVars, timerVars, userVars
  <2>. QED
    BY <2>2, <2>3, <2>4, QuietIds DEF Ids, IdInv
<1>3. CASE CallbackReturns \/ Tick \/ UNCHANGED vars
  <2>1. UNCHANGED <<life, interval, adding, id, cancelled, runs, pending, cancelingTimers, expired, toRun>>
    BY <1>3 DEF CallbackReturns, Tick, vars, setVars, batchVars, timerVars, userVars
  <2>. QED
    BY <2>1, QuietIds DEF Ids, IdInv
<1>4. CASE Reset
  <2>1. /\ UNCHANGED <<adding, id, pending, interval, runs, cancelingTimers, cancelled>>
        /\ expired' = {} /\ toRun = {}
    BY <1>4 DEF Reset, userVars
  <2>2. \A t \in Timers : life'[t] = IF t \in expired /\ ~Restarts(t) THEN "deleted" ELSE life[t]
    BY <1>4, Zenon DEF Reset
  <2>3. Later
    BY <2>1, <2>2, ZenonT(30) DEF Later
  <2>4. ASSUME NEW t \in Timers, Astray(t)', ~Astray(t) PROVE Excused(t)'
    <3>1. adding[t] # 0 /\ life'[t] = "deleted" /\ id[t] = 0 /\ t \in expired /\ ~Restarts(t)
      <4>1. t \in expired => life[t] = "alive"
        BY DEF Inv, SetsAgree
      <4>2. life'[t] # "none" => life[t] # "none"
        BY <2>2, <4>1
      <4>3. adding[t] # 0 /\ life'[t] = "deleted" /\ life[t] # "deleted"
        BY <2>1, <2>4, <4>2 DEF Astray, Known
      <4>. QED
        BY <2>2, <4>3 DEF Ids, IdInv
    <3>2. CASE t \in cancelingTimers
      <4>0. t \in Range(id)
        BY <3>2, TimerAssumption DEF Ids, IdInv
      <4>1. PICK w \in Timers : id[w] = t
        BY <4>0 DEF Range, Inv, Shape
      <4>2. t \in cancelled /\ w # t
        BY <3>1, <3>2, <4>1, TimerAssumption DEF Ids, IdInv
      <4>. QED
        BY <2>1, <4>1, <4>2, Zenon DEF Excused, TakenByStray
    <3>3. CASE t \notin cancelingTimers
      <4>1. interval[t] = 0
        BY <3>1, <3>3 DEF Restarts, Inv, Shape
      <4>2. runs[t] # 0
        BY <2>1, <3>1 DEF Ids, IdInv
      <4>. QED
        BY <2>1, <3>1, <4>1, <4>2, Zenon DEF Excused, Spent
    <3>. QED
      BY <3>2, <3>3
  <2>5. StaleIdIsSpent'
    BY <2>3, <2>4, StaleStep, Zenon
  <2>6. IdInv'
    BY <2>1, <2>2 DEF Ids, IdInv
  <2>. QED
    BY <2>5, <2>6 DEF Ids
<1>5. CASE RunFunctor
  <2>0. pending # <<>> /\ pending' = Tail(pending)
    BY <1>5 DEF RunFunctor
  <2>1. /\ Head(pending) \in Functors
        /\ 1 \in DOMAIN pending /\ pending[1] = Head(pending)
        /\ \A i \in DOMAIN pending' : i + 1 \in DOMAIN pending /\ pending'[i] = pending[i + 1]
    BY <2>0, Popped DEF Inv
  <2>2. UNCHANGED <<expired, toRun, interval, adding, id, runs>>
    BY <1>5 DEF RunFunctor, batchVars
  <2>3. \A i \in DOMAIN pending' : pending'[i].op = "cancel" => pending'[i].t \in Range(id) \cup {0}
    BY <2>1 DEF Ids, IdInv
  <2>4. CASE Head(pending).op = "add"
    <3>1. UNCHANGED <<cancelingTimers, life, cancelled>>
      BY <1>5, <2>4 DEF RunFunctor
    <3>. QED
      BY <2>2, <2>3, <3>1, QuietIds DEF Ids, IdInv
  <2>5. CASE Head(pending).op = "cancel"
    <3>1. Head(pending).t \in Range(id) \cup {0}
      BY <2>1, <2>5 DEF Ids, IdInv
    <3>2. PICK u \in Range(id) \cup {0} : u = Head(pending).t
      BY <3>1
    <3>3. CancelInLoop(u)
      BY <1>5, <2>5, <3>2 DEF RunFunctor
    <3>. QED
      BY <2>2, <2>3, <3>3, CancelIds
  <2>. QED
    BY <2>1, <2>4, <2>5 DEF Functors
<1>6. ASSUME NEW t \in Timers, AddTimerReturns(t) PROVE Ids'
  <2>1. /\ UNCHANGED <<life, interval, cancelled, runs, pending, cancelingTimers, expired, toRun>>
        /\ adding[t] # 0 /\ adding'[t] = 0 /\ id'[t] \in {adding[t], 0}
        /\ \A w \in Timers \ {t} : id'[w] = id[w] /\ adding'[w] = adding[w]
    BY <1>6 DEF AddTimerReturns, setVars, batchVars, timerVars, Inv, Shape, Ids, IdInv
  <2>2. id[t] = 0 /\ life[t] # "none"
    BY <2>1 DEF Ids, IdInv, Inv, BatchInv
  <2>3. life[t] = "alive" => id'[t] = t
    BY <1>6 DEF AddTimerReturns, Ids, IdInv, Inv, Shape
  <2>4. Later
    BY <2>1, <2>2, ZenonT(30) DEF Later
  <2>5. ASSUME NEW w \in Timers, Astray(w)' PROVE Astray(w)
    <3>1. CASE w = t
      BY <2>1, <2>2, <2>3, <2>5, <3>1 DEF Astray, Known, Inv, Shape
    <3>2. CASE w # t
      BY <2>1, <2>5, <3>2, Zenon DEF Astray, Known
    <3>. QED
      BY <3>1, <3>2
  <2>6. StaleIdIsSpent'
    BY <2>4, <2>5, StaleStep, Zenon
  <2>7. Range(id) \cup {0} \subseteq Range(id') \cup {0}
    BY <2>4, RangeGrows DEF Inv
  <2>8. IdInv'
    <3>1. \A w \in Timers : adding'[w] # 0 => id'[w] = 0
      BY <2>1 DEF Ids, IdInv
    <3>2. \A w \in Timers : life'[w] = "alive" =>
            IF adding'[w] = 0 THEN id'[w] = w ELSE adding'[w] = w
      BY <2>1, <2>3 DEF Ids, IdInv
    <3>3. /\ cancelingTimers' \subseteq Range(id') \cup {0}
          /\ \A j \in DOMAIN pending' :
               pending'[j].op = "cancel" => pending'[j].t \in Range(id') \cup {0}
      BY <2>1, <2>7, Zenon DEF Ids, IdInv
    <3>. QED
      BY <2>1, <3>1, <3>2, <3>3 DEF Ids, IdInv
  <2>. QED
    BY <2>6, <2>8 DEF Ids
<1>7. ASSUME NEW t \in Timers, OwnerCancel(t) PROVE Ids'
  <2>1. PICK u \in Range(id) \cup {0} : u = id[t]
    BY DEF Range, Inv, Shape
  <2>2. /\ CancelInLoop(u)
        /\ UNCHANGED <<expired, toRun, interval, adding, id, runs, pending>>
    BY <1>7, <2>1 DEF OwnerCancel, batchVars, userVars
  <2>3. \A i \in DOMAIN pending' : pending'[i].op = "cancel" => pending'[i].t \in Range(id) \cup {0}
    BY <2>2 DEF Ids, IdInv
  <2>. QED
    BY <2>2, <2>3, CancelIds
<1>8. ASSUME NEW t \in Timers, Cancel(t) PROVE Ids'
  <2>1. PICK u \in Timers \cup {0} : u = id[t] /\ u \in Range(id)
    BY DEF Range, Inv, Shape
  <2>. DEFINE f == [op |-> "cancel", t |-> u]
  <2>2. f \in Functors /\ pending' = Append(pending, f)
    BY <1>8, <2>1 DEF Cancel, Functors
  <2>3. /\ DOMAIN pending' = DOMAIN pending \cup {Len(pending) + 1}
        /\ \A k \in DOMAIN pending : pending'[k] = pending[k]
        /\ pending'[Len(pending) + 1] = f
    BY <2>2, Pushed DEF Inv
  <2>4. UNCHANGED <<life, interval, adding, id, cancelled, runs, cancelingTimers, expired, toRun>>
    BY <1>8 DEF Cancel, setVars, batchVars, timerVars
  <2>5. \A i \in DOMAIN pending' : pending'[i].op = "cancel" => pending'[i].t \in Range(id') \cup {0}
    BY <2>1, <2>3, <2>4 DEF Ids, IdInv
  <2>. QED
    BY <2>4, <2>5, QuietIds DEF Ids, IdInv
<1>9. ASSUME NEW t \in Timers, NEW when \in 0..TimeMax, NEW i \in Intervals,
             OwnerAddTimer(t, when, i)
      PROVE  Ids'
  <2>1. PICK r \in Addresses : adding' = Reused(r, t)
    BY <1>9 DEF OwnerAddTimer
  <2>2. adding[t] = 0 /\ adding'[t] = 0
    <3>1. life[t] = "none"
      BY <1>9 DEF OwnerAddTimer, NewTimer
    <3>2. adding[t] = 0
      BY <3>1 DEF Inv, BatchInv
    <3>. QED
      BY <2>1, <3>2, ReusedIs, TimerAssumption DEF Inv
  <2>3. id'[t] = t /\ \A w \in Timers \ {t} : id'[w] = id[w]
    BY <1>9 DEF OwnerAddTimer, Inv, Shape
  <2>4. \A w \in Timers : \/ adding'[w] = adding[w]
                          \/ adding'[w] # 0 /\ adding[w] # 0 /\ life[adding[w]] = "deleted"
    BY <2>1, ReusedIs, TimerAssumption DEF Inv
  <2>5. NewTimer(t, when, i) /\ UNCHANGED <<cancelingTimers, expired, toRun, pending, runs, cancelled>>
    BY <1>9 DEF OwnerAddTimer, batchVars
  <2>6. \A j \in DOMAIN pending' : pending'[j].op = "cancel" => pending'[j].t \in Range(id) \cup {0}
    BY <2>5 DEF Ids, IdInv
  <2>. QED
    BY <2>2, <2>3, <2>4, <2>5, <2>6, NewTimerIds
<1>10. ASSUME NEW t \in Timers, NEW when \in 0..TimeMax, NEW i \in Intervals,
              AddTimer(t, when, i)
       PROVE  Ids'
  <2>. DEFINE f == [op |-> "add", t |-> t]
  <2>1. f \in Functors /\ pending' = Append(pending, f)
    BY <1>10 DEF AddTimer, Functors
  <2>2. /\ DOMAIN pending' = DOMAIN pending \cup {Len(pending) + 1}
        /\ \A k \in DOMAIN pending : pending'[k] = pending[k]
        /\ pending'[Len(pending) + 1] = f
    BY <2>1, Pushed DEF Inv
  <2>3. /\ NewTimer(t, when, i)
        /\ UNCHANGED <<id, cancelingTimers, expired, toRun, runs, cancelled>>
    BY <1>10 DEF AddTimer, setVars, batchVars
  <2>4. PICK r \in Addresses : adding' = [Reused(r, t) EXCEPT ![t] = t]
    BY <1>10 DEF AddTimer
  <2>5. adding'[t] = t /\ \A w \in Timers \ {t} : adding'[w] = Reused(r, t)[w]
    BY <2>4, ReusedIs DEF Inv
  <2>6. \A w \in Timers \ {t} :
          \/ adding'[w] = adding[w]
          \/ adding'[w] # 0 /\ adding[w] # 0 /\ life[adding[w]] = "deleted"
    BY <2>5, ReusedIs, TimerAssumption DEF Inv
  <2>7. id'[t] = 0
    BY <2>3 DEF NewTimer, Inv, BatchInv
  <2>8. \A j \in DOMAIN pending' : pending'[j].op = "cancel" => pending'[j].t \in Range(id) \cup {0}
    BY <2>2 DEF Ids, IdInv
  <2>. QED
    BY <2>3, <2>5, <2>6, <2>7, <2>8, NewTimerIds
<1>. QED
  BY <1>1, <1>2, <1>3, <1>4, <1>5, <1>6, <1>7, <1>8, <1>9, <1>10
  DEF Next, OwnerStep, UserStep
-----------------------------------------------------------------------------
(* Which timer the timerfd is armed for. *)

Clock ==
  /\ now \in Nat /\ alarm \in Nat /\ readTime \in Nat
  /\ expiration \in [Timers -> Nat]

\* ArmedForEarliest, timer by timer.
NoneMissed ==
  pc = "loop" => \A t \in timers : alarm # 0 /\ (alarm <= expiration[t] \/ alarm <= now + 1)

Arming == Clock /\ NoneMissed /\ ArmInv

\* A set of times has a least element.
LEMMA Least ==
  ASSUME NEW S, S \subseteq Nat, S # {}
  PROVE  Min(S) \in S /\ \A y \in S : Min(S) <= y
<1>. DEFINE Before == {ss \in Nat \X Nat : ss[1] < ss[2]}
<1>1. OpToRel(<, Nat) = Before
  BY Zenon DEF OpToRel
<1>2. IsWellFoundedOn(Before, Nat)
  BY <1>1, NatLessThanWellFounded, Zenon
<1>3. PICK x \in S : \A y \in S : ~(<<y, x>> \in Before)
  BY <1>2, WFMin, Zenon
<1>4. ASSUME NEW y \in S PROVE x <= y
  <2>1. x \in Nat /\ y \in Nat
    OBVIOUS
  <2>2. <<y, x>> \in Nat \X Nat /\ <<y, x>>[1] = y /\ <<y, x>>[2] = x
    BY <2>1
  <2>3. ~(y < x)
    BY <1>3, <2>2, Zenon
  <2>. QED
    BY <2>1, <2>3
<1>. QED
  BY <1>4, Zenon DEF Min

\* The greater of two numbers.
LEMMA MaxOfTwo ==
  ASSUME NEW a \in Int, NEW b \in Int
  PROVE  Max({a, b}) = IF a >= b THEN a ELSE b
<1>1. \E x \in {a, b} : \A y \in {a, b} : x >= y
  <2>1. CASE a >= b
    BY <2>1
  <2>2. CASE ~(a >= b)
    BY <2>2
  <2>. QED
    BY <2>1, <2>2
<1>2. Max({a, b}) \in {a, b} /\ \A y \in {a, b} : Max({a, b}) >= y
  BY <1>1, Zenon DEF Max
<1>. QED
  BY <1>2

\* The timerfd is armed for the time asked for, or the least delay from now (resetTimerfd).
LEMMA ArmAtIs ==
  ASSUME now \in Nat, NEW when \in Nat
  PROVE  ArmAt(when) = IF when >= now + 1 THEN when ELSE now + 1
<1>1. Max({when - now, 1}) = IF when - now >= 1 THEN when - now ELSE 1
  BY MaxOfTwo
<1>. QED
  BY <1>1 DEF ArmAt

\* The first timer of timers_ is one of them, and none is earlier.
LEMMA EarliestIs ==
  ASSUME Clock, timers \subseteq Timers, timers # {}
  PROVE  /\ Earliest(timers) \in Nat
         /\ \A t \in timers : Earliest(timers) <= expiration[t]
         /\ \E t \in timers : expiration[t] = Earliest(timers)
<1>. DEFINE S == {expiration[t] : t \in timers}
<1>1. S \subseteq Nat /\ S # {}
  BY DEF Clock
<1>2. Min(S) \in S /\ \A y \in S : Min(S) <= y
  BY <1>1, Least, Zenon
<1>. QED
  BY <1>1, <1>2, Zenon DEF Earliest

\* The two forms of the property are the same.
LEMMA NoneMissedIsArmed ==
  ASSUME Clock, timers \subseteq Timers
  PROVE  NoneMissed => ArmedForEarliest
<1>. SUFFICES ASSUME NoneMissed, pc = "loop", timers # {}
              PROVE  alarm # 0 /\ alarm <= Max({Earliest(timers), now + 1})
  BY DEF ArmedForEarliest
<1>1. PICK t \in timers : expiration[t] = Earliest(timers) /\ Earliest(timers) \in Nat
  BY EarliestIs
<1>2. alarm # 0 /\ (alarm <= Earliest(timers) \/ alarm <= now + 1)
  BY <1>1 DEF NoneMissed
<1>3. Max({Earliest(timers), now + 1})
        = IF Earliest(timers) >= now + 1 THEN Earliest(timers) ELSE now + 1
  BY <1>1, MaxOfTwo DEF Clock
<1>. QED
  BY <1>1, <1>2, <1>3 DEF Clock

\* At first there is nothing to arm the timerfd for.
LEMMA ArmingInit == Init => Arming
  BY DEF Init, Arming, Clock, NoneMissed, ArmInv

\* A timer that is added is not missed, nor are those that are there (addTimerInLoop, insert).
LEMMA AddArms ==
  ASSUME Arming, timers \subseteq Timers, NEW t \in Timers, NEW e \in Nat,
         AddTimerInLoop(t, e), UNCHANGED <<now, pc, readTime>>,
         expiration' \in [Timers -> Nat], expiration'[t] = e,
         \A u \in timers : u # t => expiration'[u] = expiration[u]
  PROVE  Arming'
<1>. DEFINE Sooner == timers = {} \/ e < Earliest(timers)
<1>1. ArmAt(e) = IF e >= now + 1 THEN e ELSE now + 1
  BY ArmAtIs DEF Arming, Clock
<1>2. timers' = timers \cup {t}
  BY DEF AddTimerInLoop
<1>3. CASE Sooner
  <2>1. alarm' = ArmAt(e)
    BY <1>3 DEF AddTimerInLoop
  <2>2. \A u \in timers : e < expiration[u]
    BY <1>3, EarliestIs DEF Arming, Clock
  <2>3. Clock'
    BY <1>1, <2>1 DEF Arming, Clock
  <2>4. \A u \in timers' : e <= expiration'[u]
    BY <1>2, <2>2 DEF Arming, Clock
  <2>5. NoneMissed' /\ ArmInv'
    BY <1>1, <2>1, <2>4, <1>2 DEF Arming, Clock, NoneMissed, ArmInv
  <2>. QED
    BY <2>3, <2>5 DEF Arming
<1>4. CASE ~Sooner
  <2>1. alarm' = alarm
    BY <1>4 DEF AddTimerInLoop
  <2>2. PICK u \in timers : expiration[u] <= e
    BY <1>4, EarliestIs DEF Arming, Clock
  <2>3. Clock'
    BY <2>1 DEF Arming, Clock
  <2>4. expiration[u] \in Nat
    BY DEF Arming, Clock
  <2>5. NoneMissed'
    BY <1>2, <2>1, <2>2, <2>4 DEF Arming, Clock, NoneMissed
  <2>6. ArmInv'
    BY <1>2, <2>1, <2>2, <2>4 DEF Arming, Clock, ArmInv
  <2>. QED
    BY <2>3, <2>5, <2>6 DEF Arming
<1>. QED
  BY <1>3, <1>4

\* A cancel leaves the timerfd as it is (cancelInLoop).
LEMMA CancelArms ==
  ASSUME Arming, NEW t, CancelInLoop(t), UNCHANGED <<now, pc, readTime, expiration, alarm>>
  PROVE  Arming'
<1>1. timers' \subseteq timers
  BY DEF CancelInLoop
<1>. QED
  BY <1>1 DEF Arming, Clock, NoneMissed, ArmInv

\* reset arms the timerfd for the first timer, unless it was armed for it already.
LEMMA ResetArms ==
  ASSUME Shape, Arming, Reset
  PROVE  Arming'
<1>. DEFINE again == {t \in expired : Restarts(t)}
            S == {expiration'[t] : t \in timers'}
<1>0. /\ timers' = timers \cup again /\ readTime' = 0 /\ now' = now /\ pc' = "loop"
      /\ expiration' = [t \in Timers |-> IF t \in again THEN readTime + interval[t]
                                         ELSE expiration[t]]
      /\ alarm' = IF timers' = {} \/ Min(S) = 0 THEN alarm ELSE ArmAt(Min(S))
  BY DEF Reset
<1>1. expiration' \in [Timers -> Nat] /\ \A t \in again : expiration'[t] # 0
  BY <1>0 DEF Arming, Clock, Shape, Restarts
<1>2. timers' \subseteq Timers /\ pc # "loop"
  BY <1>0 DEF Shape, Reset
<1>3. CASE timers' = {}
  BY <1>0, <1>1, <1>3 DEF Arming, Clock, NoneMissed, ArmInv
<1>4. CASE timers' # {}
  <2>1. S \subseteq Nat /\ S # {}
    BY <1>1, <1>2, <1>4
  <2>2. Min(S) \in S /\ (\A y \in S : Min(S) <= y) /\ Min(S) \in Nat
    BY <2>1, Least, ZenonT(30)
  <2>3. \A t \in timers' : Min(S) <= expiration'[t]
    BY <2>2
  <2>. HIDE DEF S
  <2>4. CASE Min(S) = 0
    <3>1. PICK u \in timers' : expiration'[u] = 0
      BY <2>2, <2>4 DEF S
    <3>2. u \in timers /\ expiration[u] = 0
      BY <1>0, <1>1, <1>2, <3>1
    <3>3. alarm' = alarm /\ alarm # 0 /\ alarm <= now + 1
      BY <1>0, <1>2, <2>4, <3>2 DEF Arming, ArmInv
    <3>. QED
      BY <1>0, <1>1, <3>3 DEF Arming, Clock, NoneMissed, ArmInv
  <2>5. CASE Min(S) # 0
    <3>1. alarm' = IF Min(S) >= now + 1 THEN Min(S) ELSE now + 1
      BY <1>0, <1>4, <2>2, <2>5, ArmAtIs DEF Arming, Clock
    <3>2. alarm' \in Nat /\ alarm' # 0
      BY <2>2, <3>1 DEF Arming, Clock
    <3>3. \A t \in timers' : alarm' <= expiration'[t] \/ alarm' <= now' + 1
      BY <1>0, <1>1, <1>2, <2>2, <2>3, <3>1 DEF Arming, Clock
    <3>. QED
      BY <1>0, <1>1, <3>2, <3>3 DEF Arming, Clock, NoneMissed, ArmInv
  <2>. QED
    BY <2>4, <2>5
<1>. QED
  BY <1>3, <1>4

\* Every step keeps the timerfd armed (addTimerInLoop, cancelInLoop, handleRead, reset).
LEMMA ArmingStep == Inv /\ Arming /\ [Next]_vars => Arming'
<1>. SUFFICES ASSUME Inv, Arming, [Next]_vars PROVE Arming'
  OBVIOUS
<1>0. timers \subseteq Timers /\ Shape
  BY DEF Inv, Shape
<1>1. CASE GetExpired
  BY <1>0, <1>1 DEF GetExpired, Arming, Clock, NoneMissed, ArmInv, timerVars
<1>2. ASSUME NEW t \in Timers, RunTimer(t) PROVE Arming'
  BY <1>2 DEF RunTimer, Arming, Clock, NoneMissed, ArmInv, setVars, timerVars
<1>3. CASE CallbackReturns
  BY <1>3 DEF CallbackReturns, Arming, Clock, NoneMissed, ArmInv, setVars, batchVars, timerVars
<1>4. CASE Reset
  BY <1>0, <1>4, ResetArms
<1>5. CASE RunFunctor
  <2>1. pending # <<>> /\ pending' = Tail(pending)
    BY <1>5 DEF RunFunctor
  <2>2. Head(pending) \in Functors
    BY <1>0, <2>1, Popped
  <2>3. UNCHANGED <<now, pc, readTime, expiration>>
    BY <1>5 DEF RunFunctor, batchVars
  <2>4. CASE Head(pending).op = "add"
    <3>. DEFINE t == Head(pending).t
    <3>1. t \in Timers /\ AddTimerInLoop(t, expiration[t])
      BY <1>5, <2>2, <2>4 DEF RunFunctor, Functors
    <3>2. expiration[t] \in Nat /\ expiration' \in [Timers -> Nat]
      BY <2>3, <3>1 DEF Arming, Clock
    <3>. HIDE DEF t
    <3>. QED
      BY <1>0, <2>3, <3>1, <3>2, AddArms
  <2>5. CASE Head(pending).op = "cancel"
    <3>1. CancelInLoop(Head(pending).t) /\ UNCHANGED alarm
      BY <1>5, <2>5 DEF RunFunctor
    <3>. QED
      BY <2>3, <3>1, CancelArms
  <2>. QED
    BY <2>2, <2>4, <2>5 DEF Functors
<1>6. ASSUME NEW t \in Timers, OwnerCancel(t) PROVE Arming'
  BY <1>6, CancelArms DEF OwnerCancel, batchVars
<1>7. ASSUME NEW t \in Timers, NEW when \in 0..TimeMax, NEW i \in Intervals,
             OwnerAddTimer(t, when, i)
      PROVE  Arming'
  <2>1. /\ AddTimerInLoop(t, when) /\ UNCHANGED <<now, pc, readTime>>
        /\ expiration' = [expiration EXCEPT ![t] = when]
    BY <1>7 DEF OwnerAddTimer, NewTimer, batchVars
  <2>2. when \in Nat /\ expiration' \in [Timers -> Nat] /\ expiration'[t] = when
    BY <2>1, TimerAssumption DEF Arming, Clock
  <2>3. \A u \in timers : u # t => expiration'[u] = expiration[u]
    BY <1>0, <2>1 DEF Arming, Clock
  <2>. QED
    BY <1>0, <2>1, <2>2, <2>3, AddArms
<1>8. ASSUME NEW t \in Timers, NEW when \in 0..TimeMax, NEW i \in Intervals,
             AddTimer(t, when, i)
      PROVE  Arming'
  <2>1. /\ UNCHANGED <<now, alarm, pc, readTime, timers>> /\ life[t] = "none"
        /\ expiration' = [expiration EXCEPT ![t] = when]
    BY <1>8 DEF AddTimer, NewTimer, batchVars, setVars
  <2>2. when \in Nat /\ expiration' \in [Timers -> Nat]
    BY <2>1, TimerAssumption DEF Arming, Clock
  <2>3. t \notin timers
    BY <2>1 DEF Inv, SetsAgree
  <2>4. \A u \in timers : expiration'[u] = expiration[u]
    BY <1>0, <2>1, <2>3 DEF Arming, Clock
  <2>. QED
    BY <2>1, <2>2, <2>4 DEF Arming, Clock, NoneMissed, ArmInv
<1>9. ASSUME \E t \in Timers : AddTimerReturns(t) \/ Cancel(t) PROVE Arming'
  BY <1>9, ZenonT(30) DEF AddTimerReturns, Cancel, Arming, Clock, NoneMissed, ArmInv, setVars, batchVars,
              timerVars
<1>10. CASE Tick
  BY <1>0, <1>10 DEF Tick, Arming, Clock, NoneMissed, ArmInv, setVars, batchVars, timerVars
<1>11. CASE UNCHANGED vars
  BY <1>11 DEF vars, Arming, Clock, NoneMissed, ArmInv, setVars, batchVars, timerVars
<1>. QED
  BY <1>1, <1>2, <1>3, <1>4, <1>5, <1>6, <1>7, <1>8, <1>9, <1>10, <1>11
  DEF Next, OwnerStep, UserStep
-----------------------------------------------------------------------------
\* The inductive invariant holds in every state (TimerQueue, all methods).
THEOREM QueueInvariant == Spec => []QueueInv
<1>1. Inv /\ Ids /\ Arming => QueueInv
  BY DEF Inv, Ids, Arming, QueueInv
<1>. QED
  BY <1>1, InvInit, InvStep, IdsInit, IdsStep, ArmingInit, ArmingStep, PTL DEF Spec

\* The timerfd is always armed for the earliest timer, or for the least delay when that one
\* is past: no timer is missed (addTimerInLoop, reset).
THEOREM NoTimerIsMissed == Spec => []ArmedForEarliest
<1>1. Inv /\ Arming => ArmedForEarliest
  BY NoneMissedIsArmed DEF Inv, Shape, Arming
<1>. QED
  BY <1>1, InvInit, InvStep, ArmingInit, ArmingStep, PTL DEF Spec

\* Whatever address a new Timer is given: a timer for which addTimer returns a TimerId that
\* is not its own does not repeat and has run, or was cancelled with such a TimerId of another
\* timer (addTimer).
THEOREM StaleIdsAreSpent == Spec => []StaleIdIsSpent
<1>1. Ids => StaleIdIsSpent
  BY DEF Ids
<1>. QED
  BY <1>1, InvInit, InvStep, IdsInit, IdsStep, PTL DEF Spec

\* timers_ and activeTimers_ always hold the same, allocated timers, so that the asserts
\* on their sizes never fail (insert, getExpired, cancelInLoop).
THEOREM SetsAlwaysAgree == Spec => []SetsAgree
<1>1. Inv => SetsAgree
  BY DEF Inv
<1>. QED
  BY <1>1, InvInit, InvStep, PTL DEF Spec

\* A cancelled timer is never scheduled again, also when it is cancelled by a callback of
\* the batch it expired in (cancelInLoop, reset).
THEOREM CancelIsFinal == Spec => []CancelledStaysCancelled
<1>1. Inv => CancelledStaysCancelled
  BY DEF Inv
<1>. QED
  BY <1>1, InvInit, InvStep, PTL DEF Spec

\* A timer that does not repeat runs at most once (getExpired, reset).
THEOREM SingleTimersRunOnce == Spec => []OnceRunsOnce
<1>1. Inv => OnceRunsOnce
  BY DEF Inv
<1>. QED
  BY <1>1, InvInit, InvStep, PTL DEF Spec
=============================================================================
