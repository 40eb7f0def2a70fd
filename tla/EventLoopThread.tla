--------------------------- MODULE EventLoopThread ---------------------------
(***************************************************************************)
(* EventLoopThread.cpp: a thread that runs an EventLoop living on its own  *)
(* stack.  The creator calls startLoop, which waits for the address of the *)
(* loop, and later runs the destructor, which quits the loop and joins the *)
(* thread.  The loop itself is the module EventLoop; the new thread is its *)
(* owner and the creator is one of the other threads that call it.         *)
(***************************************************************************)
EXTENDS EventLoop

CONSTANT Creator     \* the one of Threads that owns the EventLoopThread

ASSUME CreatorAssumption == Creator \in Threads

VARIABLES
  creator,     \* where the creator is in startLoop and in the destructor
  thread,      \* where the new thread is in threadFunc
  loop,        \* loop_ is not null
  userQuit,    \* history: somebody other than the destructor called quit()
  fault        \* the access to the loop that left the program without defined behaviour

threadVars == <<creator, thread, loop, userQuit, fault>>
allVars == <<vars, threadVars>>

CreatorPoints == {"new", "waiting", "asleep", "running", "quit", "join", "destroyed"}
ThreadPoints  == {"none", "spawned", "published", "notified", "looping", "exited"}

ThreadTypeOK ==
  /\ TypeOK
  /\ creator \in CreatorPoints
  /\ thread \in ThreadPoints
  /\ loop \in BOOLEAN /\ userQuit \in BOOLEAN
  /\ fault \in {"none", "null", "dead"}

ThreadInit ==
  /\ Init
  /\ creator = "new" /\ thread = "none" /\ loop = FALSE /\ fault = "none"
  /\ userQuit = FALSE

\* The EventLoop exists from its construction in threadFunc to the return of threadFunc.
Alive == thread \in {"published", "notified", "looping"}
-----------------------------------------------------------------------------
(* startLoop, in the creator. *)

StartThread ==
  /\ creator = "new"
  /\ creator' = "waiting"
  /\ thread' = "spawned"
  /\ UNCHANGED <<vars, loop, userQuit, fault>>

\* Mutant: a wait without the predicate, which sleeps whether or not loop_ is set.
WaitUnconditional ==
  /\ creator = "waiting"
  /\ creator' = "asleep"
  /\ UNCHANGED <<vars, thread, loop, userQuit, fault>>

\* cond_.wait tests its predicate under mutex_ and returns, or sleeps.
Wait ==
  /\ creator = "waiting"
  /\ creator' = IF loop THEN "running" ELSE "asleep"
  /\ UNCHANGED <<vars, thread, loop, userQuit, fault>>

SpuriousWakeup ==
  /\ creator = "asleep"
  /\ creator' = "waiting"
  /\ UNCHANGED <<vars, thread, loop, userQuit, fault>>
-----------------------------------------------------------------------------
(* threadFunc, in the new thread. *)

\* The constructor of the EventLoop, then the assignment to loop_ under mutex_.
Publish ==
  /\ thread = "spawned"
  /\ loop' = TRUE
  /\ thread' = "published"
  /\ UNCHANGED <<vars, creator, userQuit, fault>>

Notify ==
  /\ thread = "published"
  /\ thread' = "notified"
  /\ creator' = IF creator = "asleep" THEN "waiting" ELSE creator
  /\ UNCHANGED <<vars, loop, userQuit, fault>>

CallLoop ==
  /\ thread = "notified"
  /\ EnterLoop
  /\ thread' = "looping"
  /\ UNCHANGED <<creator, loop, userQuit, fault>>

ThreadLoopStep ==
  /\ LoopStep
  /\ UNCHANGED threadVars

ThreadPollReturns(active) ==
  /\ PollReturns(active)
  /\ UNCHANGED threadVars

\* Functors and callbacks of channels call the loop from inside loop() only.
ThreadOwnerCall ==
  /\ thread = "looping" /\ pc # "idle"
  /\ OwnerCall
  /\ userQuit' = (userQuit \/ quit' # quit)
  /\ UNCHANGED <<creator, thread, loop, fault>>

\* Mutant: threadFunc returns without waiting for loop().
ThreadExitsEarly ==
  /\ thread = "looping"
  /\ thread' = "exited"
  /\ UNCHANGED <<vars, creator, loop, userQuit, fault>>

\* loop() has returned: threadFunc destroys the EventLoop; loop_ keeps its address.
ThreadExits ==
  /\ thread = "looping" /\ pc = "idle"
  /\ thread' = "exited"
  /\ UNCHANGED <<vars, creator, loop, userQuit, fault>>
-----------------------------------------------------------------------------
(* Calls of the loop by the creator and by the threads it gave the loop to. *)

\* The users call the loop between startLoop and the destructor and stop once it is gone.
UserCall(t) ==
  /\ creator = "running" /\ Alive
  /\ Quit(t) \/ \E f \in Functors : QueueInLoop(t, f)
  /\ userQuit' = (userQuit \/ quit' # quit)
  /\ UNCHANGED <<creator, thread, loop, fault>>

ThreadWakeup(t) ==
  /\ Alive
  /\ Wakeup(t)
  /\ UNCHANGED threadVars

\* The rest of queueInLoop or quit finds that the loop was destroyed after its first half.
WakeupDead(t) ==
  /\ ~Alive
  /\ call[t] = "wakeup"
  /\ fault' = "dead"
  /\ UNCHANGED <<vars, creator, thread, loop, userQuit>>
-----------------------------------------------------------------------------
(* The destructor, in the creator. *)

\* A user destroys the object when its own calls of the loop have returned.
Destroy ==
  /\ creator = "running"
  /\ NoCallUnderWay
  /\ creator' = "quit"
  /\ UNCHANGED <<vars, thread, loop, userQuit, fault>>

DestroyUnstarted ==
  /\ creator = "new"
  /\ fault' = "null"
  /\ UNCHANGED <<vars, creator, thread, loop, userQuit>>

DestructorQuit ==
  /\ creator = "quit"
  /\ Alive
  /\ Quit(Creator)
  /\ creator' = "join"
  /\ UNCHANGED <<thread, loop, userQuit, fault>>

DestructorQuitDead ==
  /\ creator = "quit"
  /\ ~Alive
  /\ fault' = "dead"
  /\ UNCHANGED <<vars, creator, thread, loop, userQuit>>

Join ==
  /\ creator = "join"
  /\ call[Creator] = "none"
  /\ thread = "exited"
  /\ creator' = "destroyed"
  /\ UNCHANGED <<vars, thread, loop, userQuit, fault>>
-----------------------------------------------------------------------------
ThreadStep == Publish \/ Notify \/ CallLoop \/ ThreadLoopStep \/ ThreadExits

CreatorStep == Wait \/ DestructorQuit \/ DestructorQuitDead \/ Join

\* The program ends when the object is gone, or its behaviour is no longer defined.
Finished ==
  /\ creator = "destroyed" \/ fault # "none"
  /\ UNCHANGED allVars

ThreadNext ==
  \/ Finished
  \/ /\ fault = "none"
     /\ \/ ThreadStep \/ ThreadOwnerCall
        \/ \E active \in SUBSET Channels : ThreadPollReturns(active)
        \/ CreatorStep \/ StartThread \/ SpuriousWakeup \/ Destroy \/ DestroyUnstarted
        \/ \E t \in Threads : UserCall(t) \/ ThreadWakeup(t) \/ WakeupDead(t)

(***************************************************************************)
(* The fairness of EventLoop, and both threads keep running.  Nothing      *)
(* makes the creator destroy the object or wake up without a notification. *)
(***************************************************************************)
ThreadFairness ==
  /\ WF_allVars(fault = "none" /\ ThreadStep)
  /\ WF_allVars(fault = "none" /\ CreatorStep)
  /\ SF_allVars(/\ fault = "none"
             /\ \E active \in SUBSET Channels : "wakeup" \in active /\ ThreadPollReturns(active))
  /\ \A t \in Threads : WF_allVars(fault = "none" /\ (ThreadWakeup(t) \/ WakeupDead(t)))

ThreadSpec == ThreadInit /\ [][ThreadNext]_allVars /\ ThreadFairness
-----------------------------------------------------------------------------
(* Properties *)

\* startLoop returns: the notification is not lost between the predicate and the wait,
\* whatever the new thread does meanwhile (startLoop, threadFunc).
StartLoopReturns == creator = "waiting" ~> creator = "running"

\* A destructor whose quit_ = true comes after loop() has cleared quit_ returns
\* (~EventLoopThread, EventLoop::quit, EventLoop::loop).
LateDestructorReturns ==
  (creator = "join" /\ pc \notin {"idle", "entered"} /\ quit)
    ~> (creator = "destroyed" \/ fault # "none")

\* The destructor returns (~EventLoopThread; test6.cpp leaves main through it).
DestructorReturns == creator = "quit" ~> (creator = "destroyed" \/ fault # "none")

(***************************************************************************)
(* From the return of startLoop to the destructor loop_ refers to an       *)
(* EventLoop that has been constructed and not been destroyed, unless      *)
(* somebody has called quit(), as test6.cpp does.  A call reaches a        *)
(* destroyed EventLoop only after such a quit(), or as the wakeup() half   *)
(* of the destructor's own quit(), which can come too late; a null loop_   *)
(* is used only by the destructor of an object that was never started      *)
(* (startLoop, threadFunc, EventLoop::quit, ~EventLoopThread).             *)
(***************************************************************************)
LoopIsAlive ==
  /\ creator \in {"running", "quit"} /\ ~userQuit => loop /\ Alive
  /\ fault = "dead" => userQuit \/ (creator = "join" /\ call[Creator] = "wakeup")
  /\ fault = "null" => thread = "none"
==============================================================================
