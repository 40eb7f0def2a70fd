\* The creator, one thread it gives the loop to, and two functors.
CONSTANTS
  Creator = creator
  Threads = {creator, t1}
  Functors = {f1, f2}
  WakeupMax = 2
SPECIFICATION ThreadSpec
INVARIANTS LoopIsAlive
PROPERTIES StartLoopReturns LateDestructorReturns
