\* The creator alone and one functor: the race needs nobody else.
CONSTANTS
  Creator = creator
  Threads = {creator}
  Functors = {f1}
  WakeupMax = 1
SPECIFICATION ThreadSpec
PROPERTY DestructorReturns
