------------------------------ MODULE TaskQueue ------------------------------
(***************************************************************************)
(* What an EventLoop promises to the callers of queueInLoop and runInLoop: *)
(* every functor handed over runs at most once, queued functors run in the *)
(* order in which they were queued, and only runInLoop called by the loop's *)
(* own thread lets a functor overtake the queue.                           *)
(***************************************************************************)
EXTENDS Sequences, Functions

CONSTANT Functors     \* the functors handed over, each one at most once

VARIABLES queue,      \* handed over by queueInLoop and not run yet
          done        \* run, in the order in which they were started

vars == <<queue, done>>

Fresh(f) == f \notin Range(queue) \cup Range(done)

Init == queue = <<>> /\ done = <<>>

Submit(f) ==
  /\ Fresh(f)
  /\ queue' = Append(queue, f)
  /\ UNCHANGED done

Execute ==
  /\ queue # <<>>
  /\ done' = Append(done, Head(queue))
  /\ queue' = Tail(queue)

ExecuteNow(f) ==
  /\ Fresh(f)
  /\ done' = Append(done, f)
  /\ UNCHANGED queue

Next == Execute \/ \E f \in Functors : Submit(f) \/ ExecuteNow(f)

Spec == Init /\ [][Next]_vars
==============================================================================
