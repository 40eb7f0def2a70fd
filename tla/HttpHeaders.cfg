\* The same client; every line may have a colon.
CONSTANTS
  Bytes = {"http11", "http10", "http20", "close", "keep", "colon", "CR", "LF"}
  Zero = "colon"
  kCheapPrepend = 1
  kInitialSize = 2
  ChunkMax = 6
  LengthMax = 0
  Texts = {"http11", "http10", "http20", "close", "keep", "colon", ""}
  LinesMax = 5
SPECIFICATION HttpSpec
CHECK_DEADLOCK FALSE
INVARIANT HeadersAsDocumented
