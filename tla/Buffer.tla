------------------------------- MODULE Buffer -------------------------------
(***************************************************************************)
(* Buffer.hpp and Buffer.cpp: the bytes between readerIndex_ and           *)
(* writerIndex_ of a vector, with room in front for cheap prepends.  When  *)
(* the room behind does not do, makeSpace moves the bytes to the front or  *)
(* enlarges the vector.  Lengths are far below the range of size_t.        *)
(***************************************************************************)
EXTENDS Integers, Sequences

CONSTANTS
  Bytes, Zero,      \* the values of a char, and the one resize() fills up with
  kCheapPrepend, kInitialSize,
  ChunkMax,         \* the most bytes one call appends or prepends, or one readv yields
  LengthMax         \* bound: the most bytes waiting in the buffer

ASSUME BufferAssumption ==
  /\ Zero \in Bytes
  /\ kCheapPrepend \in Nat /\ kInitialSize \in Nat
  /\ ChunkMax \in Nat /\ LengthMax \in Nat

VARIABLES
  buf,       \* size() and bytes of buffer_, readerIndex_, writerIndex_
  content    \* history: the bytes put in and not retrieved yet

vars == <<buf, content>>

Chunks == UNION {[1..n -> Bytes] : n \in 1..ChunkMax}

TypeOK ==
  /\ buf.size \in Nat /\ buf.readerIndex \in Nat /\ buf.writerIndex \in Nat
  /\ buf.bytes \in [0..(buf.size - 1) -> Bytes]
  /\ content \in Seq(Bytes)

ReadableBytes(b)    == b.writerIndex - b.readerIndex
WriteableBytes(b)   == b.size - b.writerIndex
PrependableBytes(b) == b.readerIndex

Init ==
  /\ buf = [size |-> kCheapPrepend + kInitialSize,
            bytes |-> [i \in 0..((kCheapPrepend + kInitialSize) - 1) |-> Zero],
            readerIndex |-> kCheapPrepend, writerIndex |-> kCheapPrepend]
  /\ content = <<>>

\* std::copy of s to index at.
Copy(b, at, s) ==
  [b EXCEPT !.bytes = [i \in 0..(b.size - 1) |->
                         IF at <= i /\ i < at + Len(s) THEN s[i - at + 1] ELSE b.bytes[i]]]

Resize(b, n) ==
  [b EXCEPT !.size = n,
            !.bytes = [i \in 0..(n - 1) |-> IF i < b.size THEN b.bytes[i] ELSE Zero]]

MoveToFront(b) ==
  [b EXCEPT !.bytes = [i \in 0..(b.size - 1) |->
                         IF kCheapPrepend <= i /\ i < kCheapPrepend + ReadableBytes(b)
                         THEN b.bytes[i - kCheapPrepend + b.readerIndex] ELSE b.bytes[i]],
            !.readerIndex = kCheapPrepend,
            !.writerIndex = kCheapPrepend + ReadableBytes(b)]

\* Does makeSpace enlarge the vector for len more bytes, or move the bytes?
Enlarges(b, len) == WriteableBytes(b) + PrependableBytes(b) < len + kCheapPrepend

\* Mutant: the cheap prepend is not counted.
MakeSpaceTight(b, len) ==
  IF WriteableBytes(b) + PrependableBytes(b) < len THEN Resize(b, b.writerIndex + len)
  ELSE MoveToFront(b)

MakeSpace(b, len) ==
  IF Enlarges(b, len) THEN Resize(b, b.writerIndex + len) ELSE MoveToFront(b)

EnsureWriteableBytes(b, len) == IF WriteableBytes(b) < len THEN MakeSpace(b, len) ELSE b

HasWritten(b, len) == [b EXCEPT !.writerIndex = @ + len]

AppendTo(b, s) ==
  LET e == EnsureWriteableBytes(b, Len(s)) IN HasWritten(Copy(e, e.writerIndex, s), Len(s))

\* Mutant: the part that readv() put into extrabuf is lost.
ReadFdFirst(b, s) ==
  LET n == IF Len(s) <= WriteableBytes(b) THEN Len(s) ELSE WriteableBytes(b)
  IN HasWritten(Copy(b, b.writerIndex, SubSeq(s, 1, n)), n)

\* readv() into the room behind and extrabuf, which is appended.
ReadFd(b, s) ==
  LET w == WriteableBytes(b)
  IN IF Len(s) <= w THEN HasWritten(Copy(b, b.writerIndex, s), Len(s))
     ELSE AppendTo(HasWritten(Copy(b, b.writerIndex, SubSeq(s, 1, w)), w),
                   SubSeq(s, w + 1, Len(s)))

Retrieve(b, len) == [b EXCEPT !.readerIndex = @ + len]

RetrieveAll(b) == [b EXCEPT !.readerIndex = kCheapPrepend, !.writerIndex = kCheapPrepend]

Prepend(b, s) ==
  LET p == [b EXCEPT !.readerIndex = @ - Len(s)] IN Copy(p, p.readerIndex, s)
-----------------------------------------------------------------------------
CallAppend(s) ==
  /\ Len(content) + Len(s) <= LengthMax
  /\ buf' = AppendTo(buf, s)
  /\ content' = content \o s

CallReadFd(s) ==
  /\ Len(content) + Len(s) <= LengthMax
  /\ buf' = ReadFd(buf, s)
  /\ content' = content \o s

\* retrieve, retrieveUntil: asked for no more than is readable, as they assert.
CallRetrieve(len) ==
  /\ len <= ReadableBytes(buf)
  /\ buf' = Retrieve(buf, len)
  /\ content' = SubSeq(content, len + 1, Len(content))

\* retrieveAll, retrieveAsString.
CallRetrieveAll ==
  /\ buf' = RetrieveAll(buf)
  /\ content' = <<>>

\* prepend: asked for no more than there is room in front, as it asserts.
CallPrepend(s) ==
  /\ Len(content) + Len(s) <= LengthMax
  /\ Len(s) <= PrependableBytes(buf)
  /\ buf' = Prepend(buf, s)
  /\ content' = s \o content

Next ==
  \/ CallRetrieveAll
  \/ \E len \in 1..LengthMax : CallRetrieve(len)
  \/ \E s \in Chunks : CallAppend(s) \/ CallReadFd(s) \/ CallPrepend(s)

Spec == Init /\ [][Next]_vars
-----------------------------------------------------------------------------
(* Properties *)

\* The readable part is inside the vector, and the vector always holds the cheap prepend
\* (all methods).
IndicesInside ==
  /\ buf.readerIndex <= buf.writerIndex /\ buf.writerIndex <= buf.size
  /\ kCheapPrepend <= buf.size

\* A reader finds exactly the bytes put in and not retrieved, in order, through every move
\* and every enlargement (append, readFd, prepend, retrieve, makeSpace).
BytesKept ==
  /\ ReadableBytes(buf) = Len(content)
  /\ \A i \in 1..Len(content) : buf.bytes[buf.readerIndex + i - 1] = content[i]

\* Whatever is appended next, the asserts of ensureWriteableBytes and makeSpace hold: there
\* is room behind, and bytes are moved only towards the front.
AssertsHold ==
  \A len \in 1..ChunkMax :
    /\ WriteableBytes(EnsureWriteableBytes(buf, len)) >= len
    /\ WriteableBytes(buf) < len /\ ~Enlarges(buf, len) => kCheapPrepend < buf.readerIndex

\* The vector is enlarged only when the bytes and the cheap prepend would not fit into it
\* (makeSpace): a buffer that is filled and drained does not grow for ever.
GrowsOnlyWhenFull ==
  [][buf'.size # buf.size => ReadableBytes(buf') + kCheapPrepend > buf.size]_vars
=============================================================================
