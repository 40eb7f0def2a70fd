\* One connection on the base loop or one loop of the pool; the user calls from every
\* callback and from another thread, until an assert fails or freed memory is used.
CONSTANTS
  Conns = {c1}
  PoolMax = 1
  CallsFrom = {"up", "message", "complete", "down", "thread"}
  QueueMax = 1
SPECIFICATION Spec
CHECK_DEADLOCK FALSE
INVARIANTS ConnectedIsAlive WritesWhileOutputWaits OnlyLateOutputBreaksClose
PROPERTIES DeadConnectionsAreFreed
