\* One connection in the base loop, as in test11.cpp: the write complete callback sends.
CONSTANTS
  Conns = {c1}
  PoolMax = 0
  CallsFrom = {"up", "complete"}
  QueueMax = 2
SPECIFICATION Spec
CHECK_DEADLOCK FALSE
INVARIANTS NoUseAfterFree
