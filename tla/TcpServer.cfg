\* Two connections that share a loop, or the base loop.  The callbacks of the user send and
\* shut down their own connection.  An idle server waits for ever: no deadlock check.
CONSTANTS
  Conns = {c1, c2}
  PoolMax = 1
  CallsFrom = {"up", "message", "down"}
  QueueMax = 1
SPECIFICATION Spec
SYMMETRY Interchangeable
CHECK_DEADLOCK FALSE
INVARIANTS NoFault FreedIsUnregistered
