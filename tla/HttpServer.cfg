\* Up to five lines of any kind in messages of one to six bytes, in a buffer that begins with
\* 1 + 2 bytes.  A client that has sent its lines is idle: no deadlock check.
CONSTANTS
  Bytes = {"http11", "http10", "http20", "close", "keep", "colon", "CR", "LF"}
  Zero = "colon"
  kCheapPrepend = 1
  kInitialSize = 2
  ChunkMax = 6
  LengthMax = 0
  Texts = {"http11", "http10", "http20", "close", "keep", "colon", ""}
  LinesMax = 5
SPECIFICATION HttpSpec
CHECK_DEADLOCK FALSE
INVARIANTS BytesKept AssertsHold RequestsAsSent AnsweredUntilClosed FaultOnlyAfterRefusal
PROPERTIES OneRequestPerMessage
