CONSTANTS
  Channels = {1, 2, 3}
  fd <- MCfd
  kInitEventListSize = 1
SPECIFICATION BothSpec
INVARIANTS KernelAgrees PollersAgree
PROPERTIES WatchingSpec PollerFailsFor
