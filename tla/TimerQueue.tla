----------------------------- MODULE TimerQueue -----------------------------
(***************************************************************************)
(* TimerQueue.cpp and Timer.hpp: the timers of one loop behind one timerfd.*)
(* addTimer and cancel are called by the owner of the loop, in callbacks   *)
(* of timers or elsewhere, or by another thread, whose calls go through    *)
(* the functors of the loop (in order, as EventLoop guarantees).           *)
(* A Timer is identified by its sequence_, which no two timers share; a    *)
(* TimerId that matches no Timer is 0.                                     *)
(* One unit of time is the 100 us that howMuchTimeFromNow waits at least.  *)
(***************************************************************************)
EXTENDS Naturals, Sequences, FiniteSets, FiniteSetsExt, Functions

CONSTANTS
  Timers,      \* the timers created, each one once
  Intervals,   \* the intervals asked for; 0 makes a timer that does not repeat
  TimeMax,     \* bound: the clock stops here
  QueueMax     \* bound: the most functors of this queue that wait in the loop

ASSUME TimerAssumption ==
  0 \notin Timers /\ Intervals \subseteq Nat /\ TimeMax \in Nat /\ QueueMax \in Nat

VARIABLES
  now,         \* the clock
  alarm,       \* when the timerfd becomes readable; 0: it is not armed
  pc,          \* the owner: elsewhere in its loop, in handleRead, in the callback of a timer
  timers, activeTimers, cancelingTimers, callingExpiredTimers,
  expiration, interval,
  life,        \* is the Timer allocated, deleted
  expired,     \* the vector of handleRead
  toRun,       \* its part that was not run yet
  readTime,    \* the time handleRead started at
  pending,     \* the functors of this queue in the loop
  adding,      \* for a timer with which another thread is inside addTimer: the Timer
               \* constructed last at the address it holds; 0: no thread is
  id,          \* the TimerId that addTimer returned for the timer
  cancelled,   \* history: cancelInLoop has been done for these after addTimerInLoop
  runs         \* history: how often each timer ran, up to 2

batchVars == <<callingExpiredTimers, expired, toRun, readTime>>
setVars   == <<timers, activeTimers, cancelingTimers>>
timerVars == <<expiration, interval, life>>
userVars  == <<pending, adding, id>>
vars == <<now, alarm, pc, setVars, batchVars, timerVars, userVars, cancelled, runs>>

Times == 0..(TimeMax + Max(Intervals \cup {0}))

\* The functors that the queue hands to the loop.
Functors == [op : {"add"}, t : Timers] \cup [op : {"cancel"}, t : Timers \cup {0}]

TypeOK ==
  /\ now \in 0..TimeMax
  /\ alarm \in 0..(TimeMax + Max(Intervals \cup {0}) + 1)
  /\ pc \in {"loop", "expired", "callback"}
  /\ timers \subseteq Timers /\ activeTimers \subseteq Timers
  /\ cancelingTimers \subseteq Timers \cup {0}
  /\ callingExpiredTimers \in BOOLEAN
  /\ expiration \in [Timers -> Times] /\ interval \in [Timers -> Intervals \cup {0}]
  /\ life \in [Timers -> {"none", "alive", "deleted"}]
  /\ toRun \subseteq expired /\ expired \subseteq Timers /\ readTime \in 0..TimeMax
  /\ pending \in Seq(Functors)
  /\ adding \in [Timers -> Timers \cup {0}] /\ id \in [Timers -> Timers \cup {0}]
  /\ cancelled \subseteq Timers \cup {0}
  /\ runs \in [Timers -> 0..2]

Init ==
  /\ now = 1 /\ alarm = 0 /\ pc = "loop"
  /\ timers = {} /\ activeTimers = {} /\ cancelingTimers = {} /\ callingExpiredTimers = FALSE
  /\ expiration = [t \in Timers |-> 0] /\ interval = [t \in Timers |-> 0]
  /\ life = [t \in Timers |-> "none"]
  /\ expired = {} /\ toRun = {} /\ readTime = 0
  /\ pending = <<>> /\ adding = [t \in Timers |-> 0] /\ id = [t \in Timers |-> 0]
  /\ cancelled = {} /\ runs = [t \in Timers |-> 0]

Tick ==
  /\ now < TimeMax
  /\ now' = now + 1
  /\ UNCHANGED <<alarm, pc, setVars, batchVars, timerVars, userVars, cancelled, runs>>

\* Mutant: the timerfd is set without the least delay; 0 disarms it.
ArmAt0(when) == IF when > now THEN when ELSE 0

\* resetTimerfd, with howMuchTimeFromNow.
ArmAt(when) == now + Max({when - now, 1})

Earliest(s) == Min({expiration[t] : t \in s})
-----------------------------------------------------------------------------
(* The methods, in the owner's thread. *)

\* Mutant: the timerfd is not set again for a timer earlier than the earliest.
AddTimerInLoopLate(t, e) ==
  /\ timers' = timers \cup {t}
  /\ activeTimers' = activeTimers \cup {t}
  /\ alarm' = IF timers = {} THEN ArmAt(e) ELSE alarm

\* addTimerInLoop and insert, for a timer t that expires at e.
AddTimerInLoop(t, e) ==
  /\ timers' = timers \cup {t}
  /\ activeTimers' = activeTimers \cup {t}
  /\ alarm' = IF timers = {} \/ e < Earliest(timers) THEN ArmAt(e) ELSE alarm

\* A cancel by the owner may overtake the addTimerInLoop that another thread queued: it
\* finds nothing to cancel, and is not recorded.
CancelledWith(t) ==
  IF [op |-> "add", t |-> t] \in Range(pending) THEN cancelled ELSE cancelled \cup {t}

\* Mutant: a cancel that comes while the timer is in the expired vector is forgotten.
CancelInLoopActiveOnly(t) ==
  /\ timers' = timers \ {t}
  /\ activeTimers' = activeTimers \ {t}
  /\ life' = IF t \in activeTimers THEN [life EXCEPT ![t] = "deleted"] ELSE life
  /\ cancelled' = CancelledWith(t)
  /\ UNCHANGED cancelingTimers

CancelInLoop(t) ==
  /\ IF t \in activeTimers
     THEN /\ timers' = timers \ {t}
          /\ activeTimers' = activeTimers \ {t}
          /\ life' = [life EXCEPT ![t] = "deleted"]
          /\ UNCHANGED cancelingTimers
     ELSE /\ cancelingTimers' = IF callingExpiredTimers THEN cancelingTimers \cup {t}
                                ELSE cancelingTimers
          /\ UNCHANGED <<timers, activeTimers, life>>
  /\ cancelled' = CancelledWith(t)

\* The freed addresses that a thread inside addTimer still holds, each named by the Timer
\* that was there last; new Timer may get one of them, or another address (0).
Addresses == {0} \cup {u \in Range(adding) \ {0} : life[u] = "deleted"}

Reused(r, t) == [w \in Timers |-> IF r # 0 /\ adding[w] = r THEN t ELSE adding[w]]

\* Timer::Timer
NewTimer(t, when, i) ==
  /\ life[t] = "none"
  /\ expiration' = [expiration EXCEPT ![t] = when]
  /\ interval' = [interval EXCEPT ![t] = i]
  /\ life' = [life EXCEPT ![t] = "alive"]

\* addTimer (runAt, runAfter, runEvery), called by the owner.
OwnerAddTimer(t, when, i) ==
  /\ pc \in {"loop", "callback"}
  /\ NewTimer(t, when, i)
  /\ \E r \in Addresses : adding' = Reused(r, t)
  /\ AddTimerInLoop(t, when)
  /\ id' = [id EXCEPT ![t] = t]
  /\ UNCHANGED <<now, pc, cancelingTimers, batchVars, pending, cancelled, runs>>

\* The user has the TimerId of t: its addTimer returned.
Known(t) == life[t] # "none" /\ adding[t] = 0

OwnerCancel(t) ==
  /\ pc \in {"loop", "callback"}
  /\ Known(t)
  /\ CancelInLoop(id[t])
  /\ UNCHANGED <<now, alarm, pc, batchVars, expiration, interval, userVars, runs>>

\* The loop calls a functor that another thread queued.
RunFunctor ==
  /\ pc = "loop"
  /\ pending # <<>>
  /\ LET t == Head(pending).t
     IN \/ /\ Head(pending).op = "add"
           /\ AddTimerInLoop(t, expiration[t])
           /\ UNCHANGED <<cancelingTimers, life, cancelled>>
        \/ /\ Head(pending).op = "cancel"
           /\ CancelInLoop(t)
           /\ UNCHANGED alarm
  /\ pending' = Tail(pending)
  /\ UNCHANGED <<now, pc, batchVars, expiration, interval, adding, id, runs>>
-----------------------------------------------------------------------------
(* The methods, in another thread. *)

\* addTimer: the timer is allocated and queued; its sequence_ is read after that.
AddTimer(t, when, i) ==
  /\ Len(pending) < QueueMax
  /\ NewTimer(t, when, i)
  /\ \E r \in Addresses : adding' = [Reused(r, t) EXCEPT ![t] = t]
  /\ pending' = Append(pending, [op |-> "add", t |-> t])
  /\ UNCHANGED <<now, alarm, pc, setVars, batchVars, id, cancelled, runs>>

\* The loop may have run and deleted the timer by then.  The address may belong to another
\* Timer, whose sequence_ is read; what is read from freed memory is the sequence_ of the
\* last Timer there, or makes a TimerId of no timer.
AddTimerReturns(t) ==
  /\ adding[t] # 0
  /\ \/ id' = [id EXCEPT ![t] = adding[t]]
     \/ life[adding[t]] = "deleted" /\ UNCHANGED id
  /\ adding' = [adding EXCEPT ![t] = 0]
  /\ UNCHANGED <<now, alarm, pc, setVars, batchVars, timerVars, pending, cancelled, runs>>

Cancel(t) ==
  /\ Known(t)
  /\ Len(pending) < QueueMax
  /\ pending' = Append(pending, [op |-> "cancel", t |-> id[t]])
  /\ UNCHANGED <<now, alarm, pc, setVars, batchVars, timerVars, adding, id, cancelled, runs>>
-----------------------------------------------------------------------------
(* handleRead, when poll finds the timerfd readable. *)

\* Mutant: callingExpiredTimers_ is not set.
GetExpiredUnmarked ==
  /\ pc = "loop"
  /\ alarm # 0 /\ alarm <= now + 1
  /\ alarm' = 0
  /\ readTime' = now
  /\ expired' = {t \in timers : expiration[t] <= now}
  /\ toRun' = expired'
  /\ timers' = timers \ expired'
  /\ activeTimers' = activeTimers \ expired'
  /\ cancelingTimers' = {}
  /\ pc' = "expired"
  /\ UNCHANGED <<now, callingExpiredTimers, timerVars, userVars, cancelled, runs>>

\* readTimerfd and getExpired.  The timerfd counts on another clock than get_now(), and its
\* delay is cut to microseconds: it may be readable a little early.
GetExpired ==
  /\ pc = "loop"
  /\ alarm # 0 /\ alarm <= now + 1
  /\ alarm' = 0
  /\ readTime' = now
  /\ expired' = {t \in timers : expiration[t] <= now}
  /\ toRun' = expired'
  /\ timers' = timers \ expired'
  /\ activeTimers' = activeTimers \ expired'
  /\ callingExpiredTimers' = TRUE
  /\ cancelingTimers' = {}
  /\ pc' = "expired"
  /\ UNCHANGED <<now, timerVars, userVars, cancelled, runs>>

\* The expired timers run in the order of timers_; equal times are ordered by address.
RunTimer(t) ==
  /\ pc = "expired"
  /\ t \in toRun /\ expiration[t] = Earliest(toRun)
  /\ toRun' = toRun \ {t}
  /\ runs' = [runs EXCEPT ![t] = Min({@ + 1, 2})]
  /\ pc' = "callback"
  /\ UNCHANGED <<now, alarm, setVars, callingExpiredTimers, expired, readTime, timerVars, userVars,
                 cancelled>>

CallbackReturns ==
  /\ pc = "callback"
  /\ pc' = "expired"
  /\ UNCHANGED <<now, alarm, setVars, batchVars, timerVars, userVars, cancelled, runs>>

\* Mutant: a timer that does not repeat is restarted as well.
RestartsAlways(t) == TRUE

\* Mutant: a timer that repeats is restarted only if it was cancelled.
RestartsCancelled(t) == interval[t] > 0 /\ t \in cancelingTimers

\* The expired timers that reset() restarts; it deletes the others.
Restarts(t) == interval[t] > 0 /\ t \notin cancelingTimers

\* reset(), with Timer::restart and insert.  A first timer for time_point{}, which is the
\* time 0, is taken for none and does not arm the timerfd.
Reset ==
  /\ pc = "expired"
  /\ toRun = {}
  /\ callingExpiredTimers' = FALSE
  /\ LET again == {t \in expired : Restarts(t)}
     IN /\ timers' = timers \cup again
        /\ activeTimers' = activeTimers \cup again
        /\ expiration' = [t \in Timers |-> IF t \in again THEN readTime + interval[t]
                                           ELSE expiration[t]]
        /\ life' = [t \in Timers |-> IF t \in expired \ again THEN "deleted" ELSE life[t]]
  /\ alarm' = LET nextExpire == Min({expiration'[t] : t \in timers'})
              IN IF timers' = {} \/ nextExpire = 0 THEN alarm ELSE ArmAt(nextExpire)
  /\ expired' = {} /\ readTime' = 0
  /\ pc' = "loop"
  /\ UNCHANGED <<now, cancelingTimers, toRun, interval, userVars, cancelled, runs>>
-----------------------------------------------------------------------------
OwnerStep == GetExpired \/ CallbackReturns \/ Reset \/ RunFunctor \/ \E t \in Timers : RunTimer(t)

UserStep ==
  \E t \in Timers :
    \/ AddTimerReturns(t) \/ OwnerCancel(t) \/ Cancel(t)
    \/ \E when \in 0..TimeMax, i \in Intervals : OwnerAddTimer(t, when, i) \/ AddTimer(t, when, i)

Next == Tick \/ OwnerStep \/ UserStep

\* Time passes, callbacks return, and the loop serves both the timerfd and its functors.
Fairness ==
  /\ WF_vars(Tick)
  /\ WF_vars(GetExpired) /\ WF_vars(RunFunctor)
  /\ WF_vars(CallbackReturns \/ Reset \/ \E t \in Timers : RunTimer(t))

Spec == Init /\ [][Next]_vars /\ Fairness
-----------------------------------------------------------------------------
(* Properties *)

\* Outside handleRead the timerfd is armed for the earliest timer, or 100 us from now at
\* the latest when that is past: no added, restarted or cancelled timer makes the queue
\* miss another one (addTimerInLoop, insert, cancelInLoop, reset).
ArmedForEarliest ==
  pc = "loop" /\ timers # {} => alarm # 0 /\ alarm <= Max({Earliest(timers), now + 1})

\* timers_ and activeTimers_ hold the same timers, all of them allocated, and none of them
\* is in the expired vector (the asserts on their sizes in insert, getExpired and cancelInLoop).
SetsAgree ==
  /\ timers = activeTimers
  /\ \A t \in timers \cup expired : life[t] = "alive"
  /\ timers \cap expired = {}

\* A timer cancelled after addTimerInLoop never expires again: it is in no set, and when it was cancelled by a
\* callback of the batch it expired in, that batch does not restart it
\* (cancelInLoop, cancelingTimers_, reset).
CancelledStaysCancelled ==
  /\ cancelled \cap timers = {}
  /\ cancelled \cap expired \subseteq cancelingTimers

\* A timer that does not repeat runs once at most (getExpired, reset).
OnceRunsOnce == \A t \in Timers : interval[t] = 0 => runs[t] <= 1

Spent(t) == life[t] = "deleted" /\ interval[t] = 0 /\ runs[t] # 0

\* Another timer's TimerId is the one of t, and t was cancelled.
TakenByStray(t) == t \in cancelled /\ \E w \in Timers \ {t} : id[w] = t

(***************************************************************************)
(* addTimer reads sequence() after it handed the timer to the loop, and    *)
(* may then read it from freed memory, or from the Timer that was given    *)
(* the address meanwhile: the TimerId it returns is not the one of the     *)
(* timer, and to cancel it may cancel another one.  A timer this befalls   *)
(* does not repeat and has run, so that its user has nothing left to       *)
(* cancel, or was itself cancelled with such a TimerId of another timer:   *)
(* no repeating timer is lost to its user otherwise (addTimer, reset).     *)
(***************************************************************************)
StaleIdIsSpent ==
  \A t \in Timers :
    \/ adding[t] # 0 /\ life[t] = "deleted"
    \/ Known(t) /\ id[t] # t
    => Spent(t) \/ TakenByStray(t)

Queued == {t \in Timers : [op |-> "add", t |-> t] \in Range(pending)}

\* The expired vector is filled exactly inside handleRead, where callingExpiredTimers_ makes
\* cancelInLoop remember what it does not find; a timer whose addTimerInLoop still waits is
\* queued once, allocated and in no set; one that was never allocated is named nowhere; and
\* one that does not repeat leaves the queue for good when it runs.
BatchInv ==
  /\ callingExpiredTimers <=> pc # "loop"
  /\ toRun \subseteq expired /\ (pc = "loop" => expired = {})
  /\ \A i, j \in DOMAIN pending : pending[i].op = "add" /\ pending[i] = pending[j] => i = j
  /\ \A t \in Queued : life[t] = "alive" /\ t \notin timers \cup expired \cup cancelled
  /\ \A t \in Timers : life[t] = "none" =>
       /\ runs[t] = 0 /\ adding[t] = 0 /\ id[t] = 0
       /\ t \notin cancelled
       /\ \A w \in Timers : adding[w] # t /\ id[w] # t
       /\ \A i \in DOMAIN pending : pending[i].t # t
  /\ \A t \in timers \cup toRun \cup Queued : interval[t] = 0 => runs[t] = 0

\* A timer is cancelled by a TimerId that addTimer returned; until the timer is deleted, that
\* is its own, and its address is its own.  The timers of a batch run one after the other.
IdInv ==
  /\ \A t \in Timers : adding[t] # 0 => id[t] = 0
  /\ \A t \in Timers : life[t] = "alive" => IF adding[t] = 0 THEN id[t] = t ELSE adding[t] = t
  /\ cancelingTimers \subseteq Range(id) \cup {0}
  /\ cancelingTimers \cap expired \subseteq cancelled
  /\ \A i \in DOMAIN pending : pending[i].op = "cancel" => pending[i].t \in Range(id) \cup {0}
  /\ \A t \in expired \ toRun : runs[t] # 0

\* A timer for time_point{} that is in the queue while a batch runs was added by a callback of
\* the batch, which armed the timerfd for it.
ArmInv ==
  pc # "loop" => \A t \in timers : expiration[t] = 0 => alarm # 0 /\ alarm <= now + 1

\* Why the sets agree, a cancelled timer stays out, a stale TimerId is spent and no timer is
\* missed: the inductive invariant of the queue (handleRead, addTimer, cancelInLoop, reset).
QueueInv == SetsAgree /\ BatchInv /\ IdInv /\ ArmInv

\* A timer leaves the queue when its time has come, because it runs or was cancelled; the
\* clock goes on long enough for these (handleRead, reset).
TimersExpire ==
  \A t \in Timers : (t \in timers /\ expiration[t] + 1 < TimeMax) ~> t \notin timers
=============================================================================
