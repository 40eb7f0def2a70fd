\* Two threads and the loop's own; three messages of one or two bytes; a mark of 0, 1 or 3.
\* A connection that is shut down or idle takes no step: no deadlock check.
CONSTANTS
  w1 = w1
  w2 = w2
  Owner = Owner
  Workers = {w1, w2}
  Threads = {w1, w2}
  Loop = Owner
  Bytes <- MCBytes
  Messages <- MCMessages
  Marks = {0, 1, 3}
  SendMax = 3
SPECIFICATION Spec
CHECK_DEADLOCK FALSE
INVARIANTS OutputInOrder DrainedBeforeShutdown HighWaterReported
PROPERTIES ShutdownHappens
