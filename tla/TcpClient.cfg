\* Two calls of connect() by the user and the reconnections; two connections and four timers,
\* so that a late one meets its successor.  A stopped client waits for ever.
CONSTANTS
  Conns = {1, 2}
  TimerIds = {1, 2, 3, 4}
  ConnectMax = 2
  QueueMax = 2
SPECIFICATION Spec
INVARIANT NoFault
INVARIANT OneAttempt
INVARIANT NeverIdle
PROPERTY StopIsFinal
PROPERTY ConnectsInTheEnd
CHECK_DEADLOCK FALSE
