\* Two other threads and three functors: two threads race each other and the owner,
\* and a functor can queue another one while a third is pending.  The eventfd counter
\* saturates at 2 so that the failing write happens.
CONSTANTS
  Threads = {t1, t2}
  Functors = {f1, f2, f3}
  WakeupMax = 2
SPECIFICATION Spec
INVARIANTS NoLostWakeup WakeupInv
PROPERTIES TaskQueueSpec QueuedFunctorsRun QuitEndsLoop
