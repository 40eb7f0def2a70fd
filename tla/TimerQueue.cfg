\* Two timers, single and repeating, for times in the past and in the future; the owner
\* and another thread add and cancel.  The clock stops at TimeMax: no deadlock check.
CONSTANTS
  Timers = {t1, t2}
  Intervals = {0, 2}
  TimeMax = 4
  QueueMax = 1
SPECIFICATION Spec
CHECK_DEADLOCK FALSE
INVARIANTS QueueInv ArmedForEarliest CancelledStaysCancelled OnceRunsOnce StaleIdIsSpent
PROPERTIES TimersExpire
