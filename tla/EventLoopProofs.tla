--------------------------- MODULE EventLoopProofs ---------------------------
(***************************************************************************)
(* What EventLoop guarantees for any number of threads and functors and    *)
(* any capacity of the eventfd: its types, that no wakeup is lost, and     *)
(* that it implements TaskQueue.  TypeOK /\ WakeupInv is the inductive     *)
(* invariant from which everything follows.  An EventLoopThread takes the  *)
(* steps of its EventLoop, so that this holds of it too; its own invariant *)
(* says who may still use the loop on the stack of the thread.             *)
(***************************************************************************)
EXTENDS EventLoopThread, SequenceTheorems, TLAPS

\* The range of a sequence is the set of its elements, and append adds one (queueInLoop).
LEMMA RangeAppend ==
  ASSUME NEW S, NEW s \in Seq(S), NEW e \in S
  PROVE  Range(Append(s, e)) = Range(s) \cup {e}
<1>1. DOMAIN Append(s, e) = DOMAIN s \cup {Len(s) + 1} /\ Len(s) \in Nat
  OBVIOUS
<1>2. \A i \in DOMAIN s : Append(s, e)[i] = s[i]
  OBVIOUS
<1>3. Append(s, e)[Len(s) + 1] = e
  OBVIOUS
<1>. QED
  BY <1>1, <1>2, <1>3, Zenon DEF Range

\* The vector left behind by the swap has no elements (doPendingFunctors).
LEMMA RangeEmpty == Range(<<>>) = {}
  BY DEF Range

\* wakeup() leaves a positive counter of the eventfd, within its capacity.
LEMMA AfterWakeupPositive ==
  ASSUME NEW n \in 0..WakeupMax
  PROVE  AfterWakeup(n) \in 1..WakeupMax
  BY WakeupMaxAssumption DEF AfterWakeup

\* Every step keeps the types (loop, doPendingFunctors, queueInLoop, runInLoop, quit).
LEMMA TypeStep == TypeOK /\ [Next]_vars => TypeOK'
<1>. SUFFICES ASSUME TypeOK, [Next]_vars PROVE TypeOK'
  OBVIOUS
<1>. USE DEF TypeOK, sharedVars, batchVars
<1>1. CASE EnterLoop
  BY <1>1 DEF EnterLoop, OwnerPoints
<1>2. CASE LoopStep
  <2>1. CASE ClearQuit
    BY <2>1, Zenon DEF ClearQuit, OwnerPoints
  <2>2. CASE KeepLooping
    BY <2>2 DEF KeepLooping, OwnerPoints
  <2>3. CASE LeaveLoop
    BY <2>3, Zenon DEF LeaveLoop, OwnerPoints
  <2>4. CASE HandleRead
    BY <2>4, WakeupMaxAssumption DEF HandleRead
  <2>5. CASE CallbackStarts
    BY <2>5 DEF CallbackStarts, OwnerPoints
  <2>6. CASE CallbackReturns
    BY <2>6 DEF CallbackReturns, OwnerPoints
  <2>7. CASE BeginPendingFunctors
    BY <2>7 DEF BeginPendingFunctors, OwnerPoints
  <2>8. CASE SwapFunctors
    BY <2>8 DEF SwapFunctors, OwnerPoints
  <2>9. CASE CallFunctor
    BY <2>9 DEF CallFunctor, OwnerPoints
  <2>10. CASE FunctorReturns
    BY <2>10 DEF FunctorReturns, OwnerPoints
  <2>11. CASE EndPendingFunctors
    BY <2>11, Zenon DEF EndPendingFunctors, OwnerPoints
  <2>. QED
    BY <1>2, <2>1, <2>2, <2>3, <2>4, <2>5, <2>6, <2>7, <2>8, <2>9, <2>10, <2>11
    DEF LoopStep
<1>3. ASSUME NEW active \in SUBSET Channels, PollReturns(active) PROVE TypeOK'
  BY <1>3 DEF PollReturns, OwnerPoints
<1>4. CASE OwnerQuit
  BY <1>4 DEF OwnerQuit
<1>5. ASSUME NEW f \in Functors, OwnerQueueInLoop(f) PROVE TypeOK'
  <2>1. wakeupFd' \in 0..WakeupMax
    BY <1>5, AfterWakeupPositive DEF OwnerQueueInLoop
  <2>. QED
    BY <1>5, <2>1 DEF OwnerQueueInLoop
<1>6. ASSUME NEW f \in Functors, OwnerRunInLoop(f) PROVE TypeOK'
  BY <1>6 DEF OwnerRunInLoop
<1>7. ASSUME NEW t \in Threads, NEW f \in Functors, QueueInLoop(t, f) PROVE TypeOK'
  BY <1>7 DEF QueueInLoop
<1>8. ASSUME NEW t \in Threads, Quit(t) PROVE TypeOK'
  BY <1>8 DEF Quit
<1>9. ASSUME NEW t \in Threads, Wakeup(t) PROVE TypeOK'
  <2>1. wakeupFd' \in 0..WakeupMax
    BY <1>9, AfterWakeupPositive DEF Wakeup
  <2>. QED
    BY <1>9, <2>1 DEF Wakeup
<1>10. CASE UNCHANGED vars
  BY <1>10 DEF vars
<1>. QED
  BY <1>1, <1>2, <1>3, <1>4, <1>5, <1>6, <1>7, <1>8, <1>9, <1>10
  DEF Next, OwnerCall, ThreadCall

\* The state the constructor leaves has its types (EventLoop::EventLoop).
LEMMA TypeInit == Init => TypeOK
<1>. SUFFICES ASSUME Init PROVE TypeOK
  OBVIOUS
<1>1. pc \in OwnerPoints /\ activeChannels \subseteq Channels /\ early \subseteq Functors
  BY DEF Init, OwnerPoints
<1>2. looping \in BOOLEAN /\ quit \in BOOLEAN /\ callingPendingFunctors \in BOOLEAN
  BY Zenon DEF Init
<1>3. wakeupFd \in 0..WakeupMax
  BY WakeupMaxAssumption DEF Init
<1>4. /\ pendingFunctors \in Seq(Functors)
      /\ functors \in Seq(Functors)
      /\ ran \in Seq(Functors)
  BY DEF Init
<1>5. call \in [Threads -> {"none", "wakeup"}]
  BY DEF Init
<1>. QED
  BY <1>1, <1>2, <1>3, <1>4, <1>5, Zenon DEF TypeOK

\* The variables always have their types (every method of EventLoop).
THEOREM TypeCorrect == Spec => []TypeOK
  BY TypeInit, TypeStep, PTL DEF Spec
-----------------------------------------------------------------------------
(* No lost wakeup. *)

\* Steps that leave the eventfd and the calls of the other threads alone keep what is owed.
LEMMA OwedUnchanged ==
  ASSUME UNCHANGED <<wakeupFd, call>>
  PROVE  WakeupOwed' = WakeupOwed
  BY DEF WakeupOwed, NoCallUnderWay

\* Every step keeps the reason why no wakeup is lost (loop, queueInLoop, quit, handleRead).
LEMMA WakeupStep == TypeOK /\ WakeupInv /\ [Next]_vars => WakeupInv'
<1>. SUFFICES ASSUME TypeOK, WakeupInv, [Next]_vars PROVE WakeupInv'
  OBVIOUS
<1>. USE DEF WakeupInv, sharedVars, batchVars
<1>1. CASE EnterLoop
  BY <1>1, OwedUnchanged DEF EnterLoop
<1>2. CASE LoopStep
  <2>1. CASE ClearQuit
    BY <2>1, OwedUnchanged DEF ClearQuit
  <2>2. CASE KeepLooping
    BY <2>2, OwedUnchanged DEF KeepLooping
  <2>3. CASE LeaveLoop
    BY <2>3, OwedUnchanged DEF LeaveLoop
  <2>4. CASE HandleRead
    BY <2>4 DEF HandleRead
  <2>5. CASE CallbackStarts
    BY <2>5 DEF CallbackStarts
  <2>6. CASE CallbackReturns
    BY <2>6 DEF CallbackReturns
  <2>7. CASE BeginPendingFunctors
    BY <2>7 DEF BeginPendingFunctors
  <2>8. CASE SwapFunctors
    BY <2>8, RangeEmpty DEF SwapFunctors
  <2>9. CASE CallFunctor
    BY <2>9, OwedUnchanged DEF CallFunctor
  <2>10. CASE FunctorReturns
    BY <2>10, OwedUnchanged DEF FunctorReturns
  <2>11. CASE EndPendingFunctors
    BY <2>11, OwedUnchanged DEF EndPendingFunctors
  <2>. QED
    BY <1>2, <2>1, <2>2, <2>3, <2>4, <2>5, <2>6, <2>7, <2>8, <2>9, <2>10, <2>11
    DEF LoopStep
<1>3. ASSUME NEW active \in SUBSET Channels, PollReturns(active) PROVE WakeupInv'
  BY <1>3 DEF PollReturns
<1>4. CASE OwnerQuit
  BY <1>4, OwedUnchanged DEF OwnerQuit, UserCode
<1>5. ASSUME NEW f \in Functors, OwnerQueueInLoop(f) PROVE WakeupInv'
  <2>1. CASE pc = "idle"
    <3>1. Range(pendingFunctors') = Range(pendingFunctors) \cup {f} /\ early' = early \cup {f}
      BY <1>5, <2>1, RangeAppend DEF OwnerQueueInLoop, TypeOK
    <3>2. UNCHANGED <<wakeupFd, call>>
      BY <1>5, <2>1 DEF OwnerQueueInLoop
    <3>. QED
      BY <1>5, <2>1, <3>1, <3>2, OwedUnchanged DEF OwnerQueueInLoop
  <2>2. CASE pc = "callback"
    BY <1>5, <2>2 DEF OwnerQueueInLoop
  <2>3. CASE pc = "functor"
    <3>1. wakeupFd' \in 1..WakeupMax
      BY <1>5, <2>3, AfterWakeupPositive DEF OwnerQueueInLoop, TypeOK
    <3>2. WakeupOwed'
      BY <3>1, WakeupMaxAssumption DEF WakeupOwed
    <3>. QED
      BY <1>5, <2>3, <3>2 DEF OwnerQueueInLoop
  <2>. QED
    BY <1>5, <2>1, <2>2, <2>3 DEF OwnerQueueInLoop, UserCode
<1>6. ASSUME NEW f \in Functors, OwnerRunInLoop(f) PROVE WakeupInv'
  BY <1>6, OwedUnchanged DEF OwnerRunInLoop
<1>7. ASSUME NEW t \in Threads, NEW f \in Functors, QueueInLoop(t, f) PROVE WakeupInv'
  <2>1. WakeupOwed'
    BY <1>7 DEF QueueInLoop, TypeOK, WakeupOwed, NoCallUnderWay
  <2>. QED
    BY <1>7, <2>1 DEF QueueInLoop
<1>8. ASSUME NEW t \in Threads, Quit(t) PROVE WakeupInv'
  <2>1. WakeupOwed'
    BY <1>8 DEF Quit, TypeOK, WakeupOwed, NoCallUnderWay
  <2>. QED
    BY <1>8, <2>1 DEF Quit
<1>9. ASSUME NEW t \in Threads, Wakeup(t) PROVE WakeupInv'
  <2>1. wakeupFd' \in 1..WakeupMax
    BY <1>9, AfterWakeupPositive DEF Wakeup, TypeOK
  <2>2. WakeupOwed'
    BY <2>1, WakeupMaxAssumption DEF WakeupOwed
  <2>. QED
    BY <1>9, <2>2 DEF Wakeup
<1>10. CASE UNCHANGED vars
  BY <1>10, OwedUnchanged DEF vars
<1>. QED
  BY <1>1, <1>2, <1>3, <1>4, <1>5, <1>6, <1>7, <1>8, <1>9, <1>10
  DEF Next, OwnerCall, ThreadCall

\* Before loop() nothing waits for a wakeup.
LEMMA WakeupInit == Init => WakeupInv
  BY RangeEmpty DEF Init, WakeupInv

\* The inductive invariant: the types and the reason why no wakeup is lost.
THEOREM WakeupInvariant == Spec => [](TypeOK /\ WakeupInv)
  BY TypeInit, TypeStep, WakeupInit, WakeupStep, PTL DEF Spec

\* The owner never sleeps in poll on a quit, or on a functor queued since it entered
\* loop(), for which nobody wakes it up (queueInLoop, quit, handleRead, doPendingFunctors).
THEOREM NoWakeupIsLost == Spec => []NoLostWakeup
<1>1. TypeOK /\ WakeupInv => NoLostWakeup
  BY WakeupMaxAssumption DEF TypeOK, WakeupInv, WakeupOwed, NoLostWakeup
<1>. QED
  BY <1>1, WakeupInvariant, PTL
-----------------------------------------------------------------------------
(* The loop implements TaskQueue. *)

\* Appending to the pending vector appends to the whole queue (queueInLoop).
LEMMA ConcatAppend ==
  ASSUME NEW S, NEW s \in Seq(S), NEW u \in Seq(S), NEW e \in S
  PROVE  s \o Append(u, e) = Append(s \o u, e)
<1>1. s \o Append(u, e) \in Seq(S) /\ Append(s \o u, e) \in Seq(S)
  OBVIOUS
<1>2. Len(s \o Append(u, e)) = Len(Append(s \o u, e))
  OBVIOUS
<1>3. \A i \in 1..Len(s \o Append(u, e)) : (s \o Append(u, e))[i] = Append(s \o u, e)[i]
  OBVIOUS
<1>. QED
  BY <1>1, <1>2, <1>3, SeqEqual

\* The next functor of the batch heads the whole queue (doPendingFunctors).
LEMMA ConcatHeadTail ==
  ASSUME NEW S, NEW s \in Seq(S), NEW u \in Seq(S), s # <<>>
  PROVE  /\ s \o u # <<>>
         /\ Head(s \o u) = Head(s)
         /\ Tail(s \o u) = Tail(s) \o u
<1>1. s \o u # <<>> /\ Head(s \o u) = Head(s)
  OBVIOUS
<1>2. Tail(s \o u) \in Seq(S) /\ Tail(s) \o u \in Seq(S)
  BY <1>1
<1>3. Len(Tail(s \o u)) = Len(Tail(s) \o u)
  BY <1>1
<1>4. \A i \in 1..Len(Tail(s \o u)) : Tail(s \o u)[i] = (Tail(s) \o u)[i]
  BY <1>1
<1>. QED
  BY <1>1, <1>2, <1>3, <1>4, SeqEqual

\* Every step of the loop and of its callers is a step of TaskQueue or leaves it alone.
LEMMA TaskQueueStep == TypeOK /\ WakeupInv /\ [Next]_vars => [Tasks!Next]_(Tasks!vars)
<1>. SUFFICES ASSUME TypeOK, WakeupInv, [Next]_vars PROVE [Tasks!Next]_(Tasks!vars)
  OBVIOUS
<1>. USE DEF sharedVars, batchVars
<1>a. ASSUME UNCHANGED <<functors, pendingFunctors, ran>> PROVE UNCHANGED Tasks!vars
  BY <1>a DEF Tasks!vars
<1>b. ASSUME NEW f, Fresh(f) PROVE Tasks!Fresh(f)
  BY <1>b DEF Fresh, Tasks!Fresh, Range, Tasks!Range
<1>c. ASSUME NEW f \in Functors, Fresh(f), UNCHANGED <<functors, ran>>,
             pendingFunctors' = Append(pendingFunctors, f)
      PROVE  Tasks!Next
  <2>1. (functors \o pendingFunctors)' = Append(functors \o pendingFunctors, f)
    BY <1>c, ConcatAppend DEF TypeOK
  <2>2. Tasks!Submit(f)
    BY <1>c, <1>b, <2>1 DEF Tasks!Submit
  <2>. QED
    BY <2>2 DEF Tasks!Next
<1>1. CASE EnterLoop
  BY <1>1, <1>a DEF EnterLoop
<1>2. CASE LoopStep
  <2>1. CASE SwapFunctors
    <3>1. functors = <<>>
      BY <2>1 DEF SwapFunctors, WakeupInv
    <3>2. (functors \o pendingFunctors)' = functors \o pendingFunctors
      BY <2>1, <3>1, ConcatEmptySeq DEF SwapFunctors, TypeOK
    <3>. QED
      BY <2>1, <3>2 DEF SwapFunctors, Tasks!vars
  <2>2. CASE CallFunctor
    <3>1. /\ functors \o pendingFunctors # <<>>
          /\ Head(functors \o pendingFunctors) = Head(functors)
          /\ Tail(functors \o pendingFunctors) = Tail(functors) \o pendingFunctors
      BY <2>2, ConcatHeadTail DEF CallFunctor, TypeOK
    <3>2. Tasks!Execute
      BY <2>2, <3>1 DEF CallFunctor, Tasks!Execute
    <3>. QED
      BY <3>2 DEF Tasks!Next
  <2>3. CASE ClearQuit \/ KeepLooping \/ LeaveLoop
    BY <2>3, <1>a DEF ClearQuit, KeepLooping, LeaveLoop
  <2>4. CASE HandleRead \/ CallbackStarts \/ CallbackReturns
    BY <2>4, <1>a DEF HandleRead, CallbackStarts, CallbackReturns
  <2>5. CASE BeginPendingFunctors \/ FunctorReturns \/ EndPendingFunctors
    BY <2>5, <1>a DEF BeginPendingFunctors, FunctorReturns, EndPendingFunctors
  <2>. QED
    BY <1>2, <2>1, <2>2, <2>3, <2>4, <2>5 DEF LoopStep
<1>3. ASSUME NEW active \in SUBSET Channels, PollReturns(active) PROVE UNCHANGED Tasks!vars
  BY <1>3, <1>a DEF PollReturns
<1>4. CASE OwnerQuit
  BY <1>4, <1>a DEF OwnerQuit
<1>5. ASSUME NEW f \in Functors, OwnerQueueInLoop(f) PROVE Tasks!Next
  BY <1>5, <1>c DEF OwnerQueueInLoop
<1>6. ASSUME NEW f \in Functors, OwnerRunInLoop(f) PROVE Tasks!Next
  <2>1. Tasks!ExecuteNow(f)
    BY <1>6, <1>b DEF OwnerRunInLoop, Tasks!ExecuteNow
  <2>. QED
    BY <2>1 DEF Tasks!Next
<1>7. ASSUME NEW t \in Threads, NEW f \in Functors, QueueInLoop(t, f) PROVE Tasks!Next
  BY <1>7, <1>c DEF QueueInLoop
<1>8. ASSUME NEW t \in Threads, Quit(t) \/ Wakeup(t) PROVE UNCHANGED Tasks!vars
  BY <1>8, <1>a DEF Quit, Wakeup
<1>9. CASE UNCHANGED vars
  BY <1>9, <1>a DEF vars
<1>. QED
  BY <1>1, <1>2, <1>3, <1>4, <1>5, <1>6, <1>7, <1>8, <1>9
  DEF Next, OwnerCall, ThreadCall

\* The loop implements TaskQueue: whatever the threads do, no functor is lost, repeated or
\* overtaken by one queued after it (queueInLoop, runInLoop, doPendingFunctors).
THEOREM ImplementsTaskQueue == Spec => TaskQueueSpec
<1>1. Init => Tasks!Init
  BY ConcatEmptySeq DEF Init, Tasks!Init
<1>. QED
  BY <1>1, TaskQueueStep, WakeupInvariant, PTL DEF Spec, TaskQueueSpec, Tasks!Spec
-----------------------------------------------------------------------------
(* The loop in a thread of its own. *)

\* The creator is past the write of quit_ in the destructor.
Quitting == creator \in {"join", "destroyed"}

(***************************************************************************)
(* Why LoopIsAlive holds.  loop_ is set from the construction of the loop  *)
(* on, and the creator has waited for that; the loop is left only after a  *)
(* quit(), of a user or of the destructor; and the destructor begins when  *)
(* no other thread is inside a call.                                       *)
(***************************************************************************)
ThreadInv ==
  /\ call \in [Threads -> {"none", "wakeup"}]
  /\ quit \in BOOLEAN
  /\ creator \in CreatorPoints /\ thread \in ThreadPoints
  /\ creator = "new" <=> thread = "none"
  /\ loop <=> thread \notin {"none", "spawned"}
  /\ creator \in {"running", "quit", "join", "destroyed"} => loop
  /\ pc # "idle" => thread = "looping"
  /\ quit \/ thread = "exited" \/ (thread = "looping" /\ pc = "idle") => userQuit \/ Quitting
  /\ \A t \in Threads : call[t] = "wakeup" =>
       creator = "running" \/ (creator = "join" /\ t = Creator)
  /\ creator = "destroyed" => thread = "exited"

Inv == ThreadInv /\ LoopIsAlive
-----------------------------------------------------------------------------
(* The loop, inside the thread. *)

\* What a step of loop() does to the rest: it is taken inside loop(), it does not set quit_,
\* and it leaves loop() only on quit_ (loop, doPendingFunctors).
LEMMA LoopStepEffect ==
  ASSUME LoopStep
  PROVE  /\ pc # "idle" /\ call' = call
         /\ quit' = quit \/ quit' = FALSE
         /\ pc' = "idle" => quit
<1>. USE DEF sharedVars, batchVars
<1>1. CASE ClearQuit \/ KeepLooping \/ LeaveLoop
  BY <1>1 DEF ClearQuit, KeepLooping, LeaveLoop
<1>2. CASE HandleRead \/ CallbackStarts \/ CallbackReturns
  BY <1>2 DEF HandleRead, CallbackStarts, CallbackReturns
<1>3. CASE BeginPendingFunctors \/ SwapFunctors \/ CallFunctor
  BY <1>3 DEF BeginPendingFunctors, SwapFunctors, CallFunctor
<1>4. CASE FunctorReturns \/ EndPendingFunctors
  BY <1>4 DEF FunctorReturns, EndPendingFunctors
<1>. QED
  BY <1>1, <1>2, <1>3, <1>4, Zenon DEF LoopStep

\* What the owner's calls of the loop leave alone (quit, queueInLoop, runInLoop).
LEMMA OwnerCallEffect ==
  ASSUME OwnerCall
  PROVE  pc' = pc /\ call' = call /\ (quit' = quit \/ quit' = TRUE)
BY DEF OwnerCall, OwnerQuit, OwnerQueueInLoop, OwnerRunInLoop, sharedVars, batchVars

\* A call by another thread puts that thread before its wakeup(), and does nothing to the
\* owner (quit, queueInLoop).
LEMMA ThreadCallEffect ==
  ASSUME NEW t \in Threads, Quit(t) \/ \E f \in Functors : QueueInLoop(t, f)
  PROVE  /\ pc' = pc
         /\ call' = [call EXCEPT ![t] = "wakeup"]
         /\ (quit' = quit \/ quit' = TRUE)
BY DEF Quit, QueueInLoop

\* Before startLoop there is no thread and no loop.
LEMMA InitInv == ThreadInit => Inv
BY Zenon DEF ThreadInit, Init, Inv, ThreadInv, LoopIsAlive, Quitting, CreatorPoints, ThreadPoints, Alive
-----------------------------------------------------------------------------
(* Every step keeps the invariant. *)

\* startLoop, and threadFunc up to loop().
LEMMA StartingKeeps ==
  ASSUME Inv, fault = "none",
         StartThread \/ Wait \/ SpuriousWakeup \/ Publish \/ Notify \/ CallLoop \/ ThreadExits
  PROVE  Inv'
<1>. USE DEF Inv, ThreadInv, LoopIsAlive, Quitting, CreatorPoints, ThreadPoints, Alive,
             vars, sharedVars, batchVars
<1>1. CASE StartThread
  BY <1>1 DEF StartThread
<1>2. CASE Wait
  BY <1>2 DEF Wait
<1>3. CASE SpuriousWakeup
  BY <1>3 DEF SpuriousWakeup
<1>4. CASE Publish
  BY <1>4 DEF Publish
<1>5. CASE Notify
  BY <1>5 DEF Notify
<1>6. CASE CallLoop
  BY <1>6 DEF CallLoop, EnterLoop
<1>7. CASE ThreadExits
  BY <1>7 DEF ThreadExits
<1>. QED
  BY <1>1, <1>2, <1>3, <1>4, <1>5, <1>6, <1>7

\* The owner inside loop().
LEMMA LoopingKeeps ==
  ASSUME Inv, fault = "none",
         ThreadLoopStep \/ ThreadOwnerCall \/ \E active \in SUBSET Channels : ThreadPollReturns(active)
  PROVE  Inv'
<1>. USE DEF Inv, ThreadInv, LoopIsAlive, Quitting, Alive, threadVars
<1>1. CASE ThreadLoopStep
  <2>1. /\ pc # "idle" /\ call' = call
        /\ quit' = quit \/ quit' = FALSE
        /\ pc' = "idle" => quit
    BY <1>1, LoopStepEffect, Zenon DEF ThreadLoopStep
  <2>2. UNCHANGED <<creator, thread, loop, userQuit, fault>>
    BY <1>1 DEF ThreadLoopStep
  <2>3. quit \in BOOLEAN
    OBVIOUS
  <2>4. quit' \in BOOLEAN /\ (quit' => quit)
    <3>1. CASE quit' = quit
      BY <2>3, <3>1
    <3>2. CASE quit' = FALSE
      BY <3>2, Zenon
    <3>. QED
      BY <2>1, <3>1, <3>2, Zenon
  <2>5. ThreadInv'
    BY <2>1, <2>2, <2>4
  <2>6. LoopIsAlive'
    BY <2>1, <2>2
  <2>. QED
    BY <2>5, <2>6
<1>2. CASE ThreadOwnerCall
  <2>1. pc' = pc /\ call' = call /\ (quit' = quit \/ quit' = TRUE)
    BY <1>2, OwnerCallEffect, ZenonT(30) DEF ThreadOwnerCall
  <2>. QED
    BY <1>2, <2>1, Zenon DEF ThreadOwnerCall
<1>3. ASSUME NEW active \in SUBSET Channels, ThreadPollReturns(active) PROVE Inv'
  BY <1>3 DEF ThreadPollReturns, PollReturns, sharedVars
<1>. QED
  BY <1>1, <1>2, <1>3

\* The calls of the loop by other threads, before and during the destructor.
LEMMA CallsKeep ==
  ASSUME Inv, fault = "none", NEW t \in Threads, UserCall(t) \/ ThreadWakeup(t) \/ WakeupDead(t)
  PROVE  Inv'
<1>. USE DEF Inv, ThreadInv, LoopIsAlive, Quitting, CreatorPoints, ThreadPoints, Alive, threadVars,
             vars, sharedVars, batchVars
<1>1. CASE UserCall(t)
  <2>1. pc' = pc /\ call' = [call EXCEPT ![t] = "wakeup"] /\ (quit' = quit \/ quit' = TRUE)
    BY <1>1, ThreadCallEffect, ZenonT(30) DEF UserCall
  <2>2. /\ creator = "running" /\ Alive
        /\ userQuit' = (userQuit \/ quit' # quit)
        /\ UNCHANGED <<creator, thread, loop, fault>>
    BY <1>1 DEF UserCall
  <2>. QED
    BY <2>1, <2>2, Zenon
<1>2. CASE ThreadWakeup(t)
  BY <1>2 DEF ThreadWakeup, Wakeup
<1>3. CASE WakeupDead(t)
  BY <1>3 DEF WakeupDead
<1>. QED
  BY <1>1, <1>2, <1>3

\* The destructor.
LEMMA DestructorKeeps ==
  ASSUME Inv, fault = "none",
         Destroy \/ DestroyUnstarted \/ DestructorQuit \/ DestructorQuitDead \/ Join
  PROVE  Inv'
<1>. USE CreatorAssumption
     DEF Inv, ThreadInv, LoopIsAlive, Quitting, CreatorPoints, ThreadPoints, Alive,
         vars, sharedVars, batchVars
<1>1. CASE Destroy
  BY <1>1 DEF Destroy, NoCallUnderWay
<1>2. CASE DestroyUnstarted
  BY <1>2 DEF DestroyUnstarted
<1>3. CASE DestructorQuit
  BY <1>3, ThreadCallEffect, Zenon DEF DestructorQuit
<1>4. CASE DestructorQuitDead
  BY <1>4 DEF DestructorQuitDead
<1>5. CASE Join
  BY <1>5 DEF Join
<1>. QED
  BY <1>1, <1>2, <1>3, <1>4, <1>5, ZenonT(30)

\* The steps of all the threads together.
LEMMA InvStep == Inv /\ [ThreadNext]_allVars => Inv'
<1>. SUFFICES ASSUME Inv, [ThreadNext]_allVars PROVE Inv'
  OBVIOUS
<1>1. CASE UNCHANGED allVars \/ Finished
  BY <1>1 DEF Finished, allVars, vars, sharedVars, batchVars, threadVars, Inv,
              ThreadInv, LoopIsAlive, Quitting, Alive
<1>. QED
  BY <1>1, StartingKeeps, LoopingKeeps, CallsKeep, DestructorKeeps
  DEF ThreadNext, ThreadStep, CreatorStep
-----------------------------------------------------------------------------
(***************************************************************************)
(* Between startLoop and the destructor loop_ refers to a live EventLoop   *)
(* unless somebody called quit(); a destroyed loop is reached only after   *)
(* such a quit() or by the second half of the destructor's own; a null     *)
(* loop_ only without startLoop (startLoop, threadFunc, ~EventLoopThread). *)
(***************************************************************************)
THEOREM LoopIsAlwaysAlive == ThreadSpec => []LoopIsAlive
<1>1. Inv => LoopIsAlive
  BY DEF Inv
<1>. QED
  BY <1>1, InitInv, InvStep, PTL DEF ThreadSpec

-----------------------------------------------------------------------------
(* The loop of the thread is an EventLoop. *)

\* A step of the composition is a step of the loop, or leaves it alone.
LEMMA LoopTakesItsSteps == [ThreadNext]_allVars => [Next]_(vars)
<1>. SUFFICES ASSUME [ThreadNext]_allVars PROVE Next \/ UNCHANGED vars
  OBVIOUS
<1>. USE DEF Next, vars, sharedVars, batchVars, allVars
<1>1. CASE UNCHANGED allVars \/ Finished
  BY <1>1 DEF Finished
<1>2. CASE ThreadStep
  BY <1>2 DEF ThreadStep, Publish, Notify, CallLoop, ThreadLoopStep, ThreadExits
<1>3. CASE ThreadOwnerCall
  BY <1>3 DEF ThreadOwnerCall
<1>4. ASSUME NEW active \in SUBSET Channels, ThreadPollReturns(active) PROVE Next
  BY <1>4 DEF ThreadPollReturns
<1>5. CASE CreatorStep
  BY <1>5, CreatorAssumption
  DEF CreatorStep, Wait, DestructorQuit, DestructorQuitDead, Join, ThreadCall
<1>6. CASE StartThread \/ SpuriousWakeup \/ Destroy \/ DestroyUnstarted
  BY <1>6 DEF StartThread, SpuriousWakeup, Destroy, DestroyUnstarted
<1>7. ASSUME NEW t \in Threads, UserCall(t) \/ ThreadWakeup(t) \/ WakeupDead(t)
      PROVE  Next \/ UNCHANGED vars
  BY <1>7 DEF UserCall, ThreadWakeup, WakeupDead, ThreadCall
<1>. QED
  BY <1>1, <1>2, <1>3, <1>4, <1>5, <1>6, <1>7 DEF ThreadNext

\* In a thread of its own, with startLoop and the destructor around it, the loop makes the
\* steps of EventLoop and no others (threadFunc, ~EventLoopThread).
THEOREM ImplementsEventLoop == ThreadSpec => Init /\ [][Next]_vars
BY LoopTakesItsSteps, PTL DEF ThreadSpec, ThreadInit

(***************************************************************************)
(* No wakeup of the loop is lost there either: while the owner sleeps      *)
(* with nothing in the eventfd, no functor and no quit() of a user or of   *)
(* the destructor waits for it (threadFunc, queueInLoop, quit).            *)
(***************************************************************************)
THEOREM NoWakeupIsLostInThread == ThreadSpec => []NoLostWakeup
<1>1. TypeOK /\ WakeupInv => NoLostWakeup
  BY WakeupMaxAssumption DEF TypeOK, WakeupInv, WakeupOwed, NoLostWakeup
<1>. QED
  BY <1>1, TypeInit, WakeupInit, TypeStep, WakeupStep, ImplementsEventLoop, PTL
=============================================================================
