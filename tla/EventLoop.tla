------------------------------ MODULE EventLoop ------------------------------
(***************************************************************************)
(* EventLoop.cpp: one thread owns the loop and runs loop(); any thread may *)
(* call queueInLoop, runInLoop and quit.  The threads share the vector     *)
(* pendingFunctors_ (under mutex_), the flag quit_ and the counter of the  *)
(* eventfd wakeupFd_.  A member x_ of the class is the variable x.         *)
(*                                                                         *)
(* A step is what one thread does between two accesses to shared state.    *)
(* The critical sections of mutex_ hold a single operation on the vector,  *)
(* so each is one step.  quit_ is a plain bool written by one thread and   *)
(* read by another: the build does not hoist the load out of a loop that   *)
(* makes system calls, so each read returns the last value written.        *)
(***************************************************************************)
EXTENDS Naturals, Sequences, Functions

CONSTANTS Threads,     \* the threads other than the owner of the loop
          Functors,    \* the functors handed over, each one at most once
          WakeupMax    \* the largest value the counter of an eventfd can hold

ASSUME WakeupMaxAssumption == WakeupMax \in Nat \ {0}

VARIABLES
  pc,                      \* where the owner thread is
  looping, quit, callingPendingFunctors,
  wakeupFd,                \* the counter of the eventfd
  activeChannels,          \* reported by the last poll and not handled yet
  pendingFunctors,
  functors,                \* the part of doPendingFunctors' vector still to be called
  call,                    \* call[t] = "wakeup": t still has wakeup() to do
  ran,                     \* history: the functors called, in order
  early                    \* history: queued by the owner while not inside loop()

sharedVars == <<wakeupFd, pendingFunctors, quit>>
batchVars  == <<callingPendingFunctors, functors, activeChannels>>
vars == <<pc, looping, sharedVars, batchVars, call, ran, early>>

(***************************************************************************)
(* The owner is outside loop() ("idle"), in loop() before quit_ is cleared *)
(* ("entered"), at the while ("test"), inside poll, walking over           *)
(* activeChannels_ ("dispatch"), inside the callback of a channel of the   *)
(* user, in doPendingFunctors before and after the swap, or in a functor.  *)
(***************************************************************************)
OwnerPoints ==
  {"idle", "entered", "test", "polling", "dispatch", "callback", "swap", "run", "functor"}

\* The points at which the owner executes code of the user, which may call any method.
UserCode == {"idle", "callback", "functor"}

\* "wakeup" is wakeupChannel_; "user" stands for every other channel of the loop.
Channels == {"wakeup", "user"}

TypeOK ==
  /\ pc \in OwnerPoints
  /\ looping \in BOOLEAN /\ quit \in BOOLEAN /\ callingPendingFunctors \in BOOLEAN
  /\ wakeupFd \in 0..WakeupMax
  /\ activeChannels \subseteq Channels
  /\ pendingFunctors \in Seq(Functors)
  /\ functors \in Seq(Functors)
  /\ call \in [Threads -> {"none", "wakeup"}]
  /\ ran \in Seq(Functors)
  /\ early \subseteq Functors

Init ==
  /\ pc = "idle"
  /\ looping = FALSE /\ quit = FALSE /\ callingPendingFunctors = FALSE
  /\ wakeupFd = 0
  /\ activeChannels = {}
  /\ pendingFunctors = <<>> /\ functors = <<>>
  /\ call = [t \in Threads |-> "none"]
  /\ ran = <<>> /\ early = {}

Fresh(f) == f \notin Range(functors \o pendingFunctors) \cup Range(ran)

\* write() to an eventfd adds 1, or fails and leaves the counter at its maximum.
AfterWakeup(n) == IF n < WakeupMax THEN n + 1 ELSE n
-----------------------------------------------------------------------------
(* The owner thread: loop() and doPendingFunctors(). *)

EnterLoop ==
  /\ pc = "idle"
  /\ looping' = TRUE
  /\ pc' = "entered"
  /\ UNCHANGED <<sharedVars, batchVars, call, ran, early>>

ClearQuit ==
  /\ pc = "entered"
  /\ quit' = FALSE
  /\ pc' = "test"
  /\ UNCHANGED <<looping, wakeupFd, pendingFunctors, batchVars, call, ran, early>>

KeepLooping ==
  /\ pc = "test"
  /\ ~quit
  /\ activeChannels' = {}
  /\ pc' = "polling"
  /\ UNCHANGED <<looping, sharedVars, callingPendingFunctors, functors, call, ran, early>>

LeaveLoop ==
  /\ pc = "test"
  /\ quit
  /\ looping' = FALSE
  /\ pc' = "idle"
  /\ UNCHANGED <<sharedVars, batchVars, call, ran, early>>

(***************************************************************************)
(* poll() reports some of the ready channels: the eventfd is ready while   *)
(* its counter is positive, any channel of the user may be.  It reports    *)
(* nothing after kPollTimeMs or when the call is interrupted, and part of  *)
(* the ready channels when more are ready than events_ has room for.       *)
(***************************************************************************)
Ready == {"user"} \cup (IF wakeupFd > 0 THEN {"wakeup"} ELSE {})

PollReturns(active) ==
  /\ pc = "polling"
  /\ active \subseteq Ready
  /\ activeChannels' = active
  /\ pc' = "dispatch"
  /\ UNCHANGED <<looping, sharedVars, callingPendingFunctors, functors, call, ran, early>>

\* EventLoop::handleRead, the read callback of wakeupChannel_: read() resets the counter.
HandleRead ==
  /\ pc = "dispatch"
  /\ "wakeup" \in activeChannels
  /\ activeChannels' = activeChannels \ {"wakeup"}
  /\ wakeupFd' = 0
  /\ UNCHANGED <<pc, looping, quit, pendingFunctors, callingPendingFunctors, functors,
                 call, ran, early>>

CallbackStarts ==
  /\ pc = "dispatch"
  /\ "user" \in activeChannels
  /\ activeChannels' = activeChannels \ {"user"}
  /\ pc' = "callback"
  /\ UNCHANGED <<looping, sharedVars, callingPendingFunctors, functors, call, ran, early>>

CallbackReturns ==
  /\ pc = "callback"
  /\ pc' = "dispatch"
  /\ UNCHANGED <<looping, sharedVars, batchVars, call, ran, early>>

\* Mutant: callingPendingFunctors_ is not set.
BeginPendingFunctorsUnmarked ==
  /\ pc = "dispatch"
  /\ activeChannels = {}
  /\ pc' = "swap"
  /\ UNCHANGED <<looping, sharedVars, batchVars, call, ran, early>>

BeginPendingFunctors ==
  /\ pc = "dispatch"
  /\ activeChannels = {}
  /\ callingPendingFunctors' = TRUE
  /\ pc' = "swap"
  /\ UNCHANGED <<looping, sharedVars, functors, activeChannels, call, ran, early>>

\* Mutant: the vector is copied instead of swapped.
SwapFunctorsByCopy ==
  /\ pc = "swap"
  /\ functors' = pendingFunctors
  /\ pc' = "run"
  /\ UNCHANGED <<looping, sharedVars, callingPendingFunctors, activeChannels, call, ran, early>>

SwapFunctors ==
  /\ pc = "swap"
  /\ functors' = pendingFunctors
  /\ pendingFunctors' = <<>>
  /\ pc' = "run"
  /\ UNCHANGED <<looping, wakeupFd, quit, callingPendingFunctors, activeChannels, call,
                 ran, early>>

CallFunctor ==
  /\ pc = "run"
  /\ functors # <<>>
  /\ ran' = Append(ran, Head(functors))
  /\ functors' = Tail(functors)
  /\ pc' = "functor"
  /\ UNCHANGED <<looping, sharedVars, callingPendingFunctors, activeChannels, call, early>>

FunctorReturns ==
  /\ pc = "functor"
  /\ pc' = "run"
  /\ UNCHANGED <<looping, sharedVars, batchVars, call, ran, early>>

EndPendingFunctors ==
  /\ pc = "run"
  /\ functors = <<>>
  /\ callingPendingFunctors' = FALSE
  /\ pc' = "test"
  /\ UNCHANGED <<looping, sharedVars, functors, activeChannels, call, ran, early>>
-----------------------------------------------------------------------------
(* The methods, called by the owner from code of the user. *)

\* Mutant: the owner never wakes itself up, "|| callingPendingFunctors_" is missing.
OwnerQueueInLoopUnwoken(f) ==
  /\ pc \in UserCode
  /\ Fresh(f)
  /\ pendingFunctors' = Append(pendingFunctors, f)
  /\ early' = IF pc = "idle" THEN early \cup {f} ELSE early
  /\ UNCHANGED <<pc, looping, quit, wakeupFd, batchVars, call, ran>>

\* No other thread reads callingPendingFunctors_, and a push by another thread between
\* the owner's push and its wakeup() changes nothing for either: one step.
OwnerQueueInLoop(f) ==
  /\ pc \in UserCode
  /\ Fresh(f)
  /\ pendingFunctors' = Append(pendingFunctors, f)
  /\ wakeupFd' = IF callingPendingFunctors THEN AfterWakeup(wakeupFd) ELSE wakeupFd
  /\ early' = IF pc = "idle" THEN early \cup {f} ELSE early
  /\ UNCHANGED <<pc, looping, quit, batchVars, call, ran>>

OwnerRunInLoop(f) ==
  /\ pc \in UserCode
  /\ Fresh(f)
  /\ ran' = Append(ran, f)
  /\ UNCHANGED <<pc, looping, sharedVars, batchVars, call, early>>

OwnerQuit ==
  /\ pc \in UserCode
  /\ quit' = TRUE
  /\ UNCHANGED <<pc, looping, wakeupFd, pendingFunctors, batchVars, call, ran, early>>

(* The methods, called by another thread. *)

\* Mutant: no wakeup() after the push.
QueueInLoopUnwoken(t, f) ==
  /\ call[t] = "none"
  /\ Fresh(f)
  /\ pendingFunctors' = Append(pendingFunctors, f)
  /\ UNCHANGED <<pc, looping, quit, wakeupFd, batchVars, call, ran, early>>

\* runInLoop called by another thread is queueInLoop.
QueueInLoop(t, f) ==
  /\ call[t] = "none"
  /\ Fresh(f)
  /\ pendingFunctors' = Append(pendingFunctors, f)
  /\ call' = [call EXCEPT ![t] = "wakeup"]
  /\ UNCHANGED <<pc, looping, quit, wakeupFd, batchVars, ran, early>>

\* Mutant: no wakeup() after the write of quit_.
QuitUnwoken(t) ==
  /\ call[t] = "none"
  /\ quit' = TRUE
  /\ UNCHANGED <<pc, looping, wakeupFd, pendingFunctors, batchVars, call, ran, early>>

Quit(t) ==
  /\ call[t] = "none"
  /\ quit' = TRUE
  /\ call' = [call EXCEPT ![t] = "wakeup"]
  /\ UNCHANGED <<pc, looping, wakeupFd, pendingFunctors, batchVars, ran, early>>

Wakeup(t) ==
  /\ call[t] = "wakeup"
  /\ wakeupFd' = AfterWakeup(wakeupFd)
  /\ call' = [call EXCEPT ![t] = "none"]
  /\ UNCHANGED <<pc, looping, quit, pendingFunctors, batchVars, ran, early>>
-----------------------------------------------------------------------------
LoopStep ==
  \/ ClearQuit \/ KeepLooping \/ LeaveLoop
  \/ HandleRead \/ CallbackStarts \/ CallbackReturns
  \/ BeginPendingFunctors \/ SwapFunctors \/ CallFunctor \/ FunctorReturns
  \/ EndPendingFunctors

OwnerCall == OwnerQuit \/ \E f \in Functors : OwnerQueueInLoop(f) \/ OwnerRunInLoop(f)

ThreadCall(t) == Quit(t) \/ Wakeup(t) \/ \E f \in Functors : QueueInLoop(t, f)

Next ==
  \/ EnterLoop
  \/ LoopStep
  \/ \E active \in SUBSET Channels : PollReturns(active)
  \/ OwnerCall
  \/ \E t \in Threads : ThreadCall(t)

(***************************************************************************)
(* The owner's thread and a thread inside a call keep running, code of the *)
(* user returns, and epoll_wait, which rotates its list of ready           *)
(* descriptors, does not leave out a ready eventfd for ever.  Nothing is   *)
(* assumed of the timeout of poll or of the channels of the user.          *)
(***************************************************************************)
Fairness ==
  /\ WF_vars(LoopStep)
  /\ SF_vars(\E active \in SUBSET Channels : "wakeup" \in active /\ PollReturns(active))
  /\ \A t \in Threads : WF_vars(Wakeup(t))

Spec == Init /\ [][Next]_vars /\ Fairness
-----------------------------------------------------------------------------
(* Properties *)

\* No thread is between its push (or its write of quit_) and its wakeup().
NoCallUnderWay == \A t \in Threads : call[t] = "none"

(***************************************************************************)
(* No lost wakeup.  While the owner sleeps in poll with nothing in the     *)
(* eventfd and no wakeup() on its way, quit_ is not set and every pending  *)
(* functor is one the owner itself queued before it called loop(): those   *)
(* wait for the next event or for the 10 s timeout, no other ever does     *)
(* (queueInLoop, quit, handleRead, doPendingFunctors).                     *)
(***************************************************************************)
NoLostWakeup ==
  pc = "polling" /\ wakeupFd = 0 /\ NoCallUnderWay
    => ~quit /\ Range(pendingFunctors) \subseteq early

WakeupOwed == wakeupFd > 0 \/ ~NoCallUnderWay

(***************************************************************************)
(* Why no wakeup is lost.  Between handling the last event and the swap of *)
(* doPendingFunctors the owner needs no wakeup; at every other point a     *)
(* functor queued since then, and in poll a quit, has its wakeup in the    *)
(* eventfd or on its way.  callingPendingFunctors_ marks exactly           *)
(* doPendingFunctors, so a functor that queues another one wakes the loop  *)
(* up, and no functor of a batch is left behind when the batch ends        *)
(* (loop, queueInLoop, quit, doPendingFunctors).                           *)
(***************************************************************************)
WakeupInv ==
  /\ looping <=> pc # "idle"
  /\ callingPendingFunctors <=> pc \in {"swap", "run", "functor"}
  /\ functors # <<>> => pc \in {"run", "functor"}
  /\ (pc \notin {"dispatch", "callback", "swap"} /\ ~(Range(pendingFunctors) \subseteq early))
       => WakeupOwed
  /\ (pc = "polling" /\ quit) => WakeupOwed

(***************************************************************************)
(* The loop keeps the promise of TaskQueue: swapping the vector out and    *)
(* running it without the lock neither loses, repeats nor reorders a       *)
(* functor (queueInLoop, runInLoop, doPendingFunctors).                    *)
(***************************************************************************)
Tasks == INSTANCE TaskQueue WITH queue <- functors \o pendingFunctors, done <- ran

TaskQueueSpec == Tasks!Spec

(***************************************************************************)
(* A functor that is queued while the loop runs is called, or the loop is  *)
(* left; this does not rest on the timeout of poll (queueInLoop,           *)
(* doPendingFunctors).                                                     *)
(***************************************************************************)
QueuedFunctorsRun ==
  \A f \in Functors :
    (f \in Range(pendingFunctors) \ early /\ pc # "idle")
      ~> (f \in Range(ran) \/ pc = "idle")

\* Once loop() has cleared quit_, a quit() by any thread ends the loop (quit, loop).
QuitEndsLoop == (quit /\ pc \notin {"idle", "entered"}) ~> pc = "idle"
==============================================================================
