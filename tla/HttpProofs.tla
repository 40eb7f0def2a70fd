----------------------------- MODULE HttpProofs -----------------------------
(***************************************************************************)
(* Proofs about Buffer, for every kCheapPrepend, kInitialSize and bound,   *)
(* and about HttpServer on top of it, for every set of lines.              *)
(* The invariant of Buffer is that the buffer holds content.  The lemmas   *)
(* are in two layers: what a copy, a move or an enlargement does to a      *)
(* vector and its two indices, and that the methods of Buffer are such     *)
(* steps.  The invariant of HttpServer says where the bytes of the client  *)
(* are and that the context is what the lines taken from the buffer say.   *)
(***************************************************************************)
EXTENDS HttpServer, SequenceTheorems, TLAPS

\* The buffer with a vector f of size n, readerIndex_ r and writerIndex_ w.
Rec(n, f, r, w) == [size |-> n, bytes |-> f, readerIndex |-> r, writerIndex |-> w]

\* The part of vector f between the indices r and w is the sequence c.
Sound(n, f, r, w, c) ==
  /\ n \in Nat /\ r \in Nat /\ w \in Nat
  /\ f \in [0..(n - 1) -> Bytes]
  /\ c \in Seq(Bytes)
  /\ r <= w /\ w <= n /\ kCheapPrepend <= n
  /\ w - r = Len(c)
  /\ \A i \in 1..Len(c) : f[r + i - 1] = c[i]

Holds(b, c) ==
  /\ b = Rec(b.size, b.bytes, b.readerIndex, b.writerIndex)
  /\ Sound(b.size, b.bytes, b.readerIndex, b.writerIndex, c)

Inv == Holds(buf, content)

Copied(n, f, at, s) ==
  [i \in 0..(n - 1) |-> IF at <= i /\ i < at + Len(s) THEN s[i - at + 1] ELSE f[i]]

Resized(n, f, m) == [i \in 0..(m - 1) |-> IF i < n THEN f[i] ELSE Zero]

Moved(n, f, r, w) ==
  [i \in 0..(n - 1) |-> IF kCheapPrepend <= i /\ i < kCheapPrepend + (w - r)
                        THEN f[i - kCheapPrepend + r] ELSE f[i]]
-----------------------------------------------------------------------------
(* Vectors *)

\* Bytes copied behind the readable part follow what was there.
LEMMA CopiedBehind ==
  ASSUME NEW n, NEW f, NEW r, NEW w, NEW c, NEW s \in Seq(Bytes),
         Sound(n, f, r, w, c), w + Len(s) <= n
  PROVE  Sound(n, Copied(n, f, w, s), r, w + Len(s), c \o s)
<1> DEFINE g == Copied(n, f, w, s)
<1>1. Len(s) \in Nat /\ Len(c) \in Nat /\ Len(c \o s) = Len(c) + Len(s)
      /\ c \o s \in Seq(Bytes)
  BY DEF Sound
<1>2. \A i \in 1..Len(s) : s[i] \in Bytes
  OBVIOUS
<1>3. g \in [0..(n - 1) -> Bytes]
  BY <1>1, <1>2 DEF Sound, Copied
<1>4. ASSUME NEW i \in 1..Len(c \o s)
      PROVE  g[r + i - 1] = (c \o s)[i]
  <2>1. r + i - 1 \in 0..(n - 1)
    BY <1>1 DEF Sound
  <2>2. CASE i <= Len(c)
    BY <1>1, <2>1, <2>2 DEF Sound, Copied
  <2>3. CASE i > Len(c)
    BY <1>1, <2>1, <2>3 DEF Sound, Copied
  <2> QED BY <2>2, <2>3, <1>1
<1> QED BY <1>1, <1>3, <1>4 DEF Sound

\* Bytes copied in front of the readable part precede what was there.
LEMMA CopiedInFront ==
  ASSUME NEW n, NEW f, NEW r, NEW w, NEW c, NEW s \in Seq(Bytes),
         Sound(n, f, r, w, c), Len(s) <= r
  PROVE  Sound(n, Copied(n, f, r - Len(s), s), r - Len(s), w, s \o c)
<1> DEFINE g == Copied(n, f, r - Len(s), s)
<1>1. Len(s) \in Nat /\ Len(c) \in Nat /\ Len(s \o c) = Len(s) + Len(c)
      /\ s \o c \in Seq(Bytes)
  BY DEF Sound
<1>2. \A i \in 1..Len(s) : s[i] \in Bytes
  OBVIOUS
<1>3. g \in [0..(n - 1) -> Bytes]
  BY <1>1, <1>2 DEF Sound, Copied
<1>4. ASSUME NEW i \in 1..Len(s \o c)
      PROVE  g[r - Len(s) + i - 1] = (s \o c)[i]
  <2>1. r - Len(s) + i - 1 \in 0..(n - 1)
    BY <1>1 DEF Sound
  <2>2. CASE i <= Len(s)
    BY <1>1, <2>1, <2>2 DEF Sound, Copied
  <2>3. CASE i > Len(s)
    <3> DEFINE j == i - Len(s)
    <3>1. j \in 1..Len(c) /\ r - Len(s) + i - 1 = r + j - 1 /\ (s \o c)[i] = c[j]
      BY <1>1, <2>3 DEF Sound
    <3>2. f[r + j - 1] = c[j]
      BY <3>1 DEF Sound
    <3>3. g[r - Len(s) + i - 1] = f[r - Len(s) + i - 1]
      BY <1>1, <2>1, <2>3 DEF Sound, Copied
    <3> QED BY <3>1, <3>2, <3>3
  <2> QED BY <2>2, <2>3, <1>1
<1> QED BY <1>1, <1>3, <1>4 DEF Sound

\* A larger vector holds the same bytes.
LEMMA ResizedHolds ==
  ASSUME NEW n, NEW f, NEW r, NEW w, NEW c, NEW m \in Nat, Sound(n, f, r, w, c), n <= m
  PROVE  Sound(m, Resized(n, f, m), r, w, c)
<1>1. Resized(n, f, m) \in [0..(m - 1) -> Bytes]
  BY BufferAssumption DEF Sound, Resized
<1>2. ASSUME NEW i \in 1..Len(c)
      PROVE  Resized(n, f, m)[r + i - 1] = c[i]
  <2>1. r + i - 1 \in 0..(n - 1) /\ r + i - 1 \in 0..(m - 1)
    BY DEF Sound
  <2> QED BY <2>1 DEF Sound, Resized
<1> QED BY <1>1, <1>2, BufferAssumption DEF Sound

\* Bytes moved behind the cheap prepend are the same bytes.
LEMMA MovedHolds ==
  ASSUME NEW n, NEW f, NEW r, NEW w, NEW c, Sound(n, f, r, w, c),
         kCheapPrepend + Len(c) <= n
  PROVE  Sound(n, Moved(n, f, r, w), kCheapPrepend, kCheapPrepend + (w - r), c)
<1> DEFINE g == Moved(n, f, r, w)
<1> USE BufferAssumption
<1>1. g \in [0..(n - 1) -> Bytes]
  BY DEF Sound, Moved
<1>2. ASSUME NEW i \in 1..Len(c)
      PROVE  g[kCheapPrepend + i - 1] = c[i]
  <2>1. kCheapPrepend + i - 1 \in 0..(n - 1) /\ kCheapPrepend <= kCheapPrepend + i - 1
        /\ kCheapPrepend + i - 1 < kCheapPrepend + (w - r)
        /\ (kCheapPrepend + i - 1) - kCheapPrepend + r = r + i - 1
    BY DEF Sound
  <2>2. g[kCheapPrepend + i - 1] = f[(kCheapPrepend + i - 1) - kCheapPrepend + r]
    BY <2>1 DEF Moved
  <2> QED BY <2>1, <2>2 DEF Sound
<1> HIDE DEF g
<1>3. kCheapPrepend + (w - r) \in Nat /\ kCheapPrepend + (w - r) <= n
      /\ (kCheapPrepend + (w - r)) - kCheapPrepend = Len(c)
  BY DEF Sound
<1>4. Sound(n, g, kCheapPrepend, kCheapPrepend + (w - r), c)
  BY <1>1, <1>2, <1>3 DEF Sound
<1> QED BY <1>4 DEF g
-----------------------------------------------------------------------------
(* The methods as steps on vectors *)

\* The fields of Rec.
LEMMA Fields ==
  ASSUME NEW n, NEW f, NEW r, NEW w
  PROVE  /\ Rec(n, f, r, w).size = n /\ Rec(n, f, r, w).bytes = f
         /\ Rec(n, f, r, w).readerIndex = r /\ Rec(n, f, r, w).writerIndex = w
BY DEF Rec

\* A record with the four fields is given by their values.
LEMMA RecOfFields ==
  ASSUME NEW X, X = [x \in {"size", "bytes", "readerIndex", "writerIndex"} |-> X[x]]
  PROVE  X = Rec(X.size, X.bytes, X.readerIndex, X.writerIndex)
BY DEF Rec

\* A buffer with a sound vector holds its sequence.
LEMMA HoldsRec ==
  ASSUME NEW n, NEW f, NEW r, NEW w, NEW c, Sound(n, f, r, w, c)
  PROVE  Holds(Rec(n, f, r, w), c)
BY Fields DEF Holds

\* std::copy into the vector changes its bytes only.
LEMMA CopyIs ==
  ASSUME NEW n, NEW f, NEW r, NEW w, NEW at, NEW s
  PROVE  Copy(Rec(n, f, r, w), at, s) = Rec(n, Copied(n, f, at, s), r, w)
<1> DEFINE R == Rec(n, f, r, w)
           g == Copied(n, f, at, s)
<1>1. [R EXCEPT !.bytes = g] = Rec(n, g, r, w)
  <2> HIDE DEF g
  <2> QED BY DEF Rec
<1>2. R.size = n /\ R.bytes = f
  BY Fields
<1> HIDE DEF R
<1>3. Copy(R, at, s) = [R EXCEPT !.bytes = Copied(R.size, R.bytes, at, s)]
  BY Zenon DEF Copy, Copied
<1>4. Copy(R, at, s) = [R EXCEPT !.bytes = g]
  BY <1>2, <1>3, Zenon
<1> QED BY <1>1, <1>4 DEF R

\* buffer_.resize changes the vector only.
LEMMA ResizeIs ==
  ASSUME NEW n, NEW f, NEW r, NEW w, NEW m
  PROVE  Resize(Rec(n, f, r, w), m) = Rec(m, Resized(n, f, m), r, w)
<1> DEFINE R == Rec(n, f, r, w)
           g == Resized(n, f, m)
<1>1. [R EXCEPT !.size = m, !.bytes = g] = Rec(m, g, r, w)
  <2> DEFINE X == [R EXCEPT !.size = m, !.bytes = g]
  <2> HIDE DEF g
  <2>1. X = [x \in {"size", "bytes", "readerIndex", "writerIndex"} |-> X[x]]
    BY Zenon DEF Rec
  <2>2. X.size = m /\ X.bytes = g /\ X.readerIndex = r /\ X.writerIndex = w
    BY DEF Rec
  <2> HIDE DEF X
  <2>3. X = Rec(X.size, X.bytes, X.readerIndex, X.writerIndex)
    BY <2>1, RecOfFields
  <2> QED BY <2>2, <2>3 DEF X
<1>2. R.size = n /\ R.bytes = f
  BY Fields
<1> HIDE DEF R
<1>3. Resize(R, m) = [R EXCEPT !.size = m, !.bytes = Resized(R.size, R.bytes, m)]
  BY Zenon DEF Resize, Resized
<1>4. Resize(R, m) = [R EXCEPT !.size = m, !.bytes = g]
  BY <1>2, <1>3, Zenon
<1> QED BY <1>1, <1>4 DEF R

\* The else branch of makeSpace changes the bytes and both indices.
LEMMA MoveIs ==
  ASSUME NEW n, NEW f, NEW r, NEW w
  PROVE  MoveToFront(Rec(n, f, r, w))
           = Rec(n, Moved(n, f, r, w), kCheapPrepend, kCheapPrepend + (w - r))
<1> DEFINE R == Rec(n, f, r, w)
           M(g, k) == [R EXCEPT !.bytes = g, !.readerIndex = kCheapPrepend,
                                !.writerIndex = k]
           g0 == Moved(n, f, r, w)
           k0 == kCheapPrepend + (w - r)
<1>1. M(g0, k0) = Rec(n, g0, kCheapPrepend, k0)
  <2> DEFINE X == M(g0, k0)
  <2> HIDE DEF g0, k0
  <2>1. X = [x \in {"size", "bytes", "readerIndex", "writerIndex"} |-> X[x]]
    BY Zenon DEF Rec
  <2>2. X.size = n /\ X.bytes = g0 /\ X.readerIndex = kCheapPrepend /\ X.writerIndex = k0
    BY DEF Rec
  <2> HIDE DEF X
  <2>3. X = Rec(X.size, X.bytes, X.readerIndex, X.writerIndex)
    BY <2>1, RecOfFields
  <2> QED BY <2>2, <2>3 DEF X
<1>2. R.size = n /\ R.bytes = f /\ R.readerIndex = r /\ R.writerIndex = w
  BY Fields
<1> HIDE DEF R
<1>3. MoveToFront(R) = M(Moved(R.size, R.bytes, R.readerIndex, R.writerIndex),
                         kCheapPrepend + (R.writerIndex - R.readerIndex))
  BY Zenon DEF MoveToFront, Moved, ReadableBytes
<1>4. MoveToFront(R) = M(g0, k0)
  BY <1>2, <1>3, Zenon
<1> QED BY <1>1, <1>4 DEF R

\* hasWritten changes writerIndex_ only.
LEMMA HasWrittenIs ==
  ASSUME NEW n, NEW f, NEW r, NEW w, NEW k
  PROVE  HasWritten(Rec(n, f, r, w), k) = Rec(n, f, r, w + k)
BY DEF Rec, HasWritten

\* retrieve changes readerIndex_ only.
LEMMA RetrieveIs ==
  ASSUME NEW n, NEW f, NEW r, NEW w, NEW k
  PROVE  Retrieve(Rec(n, f, r, w), k) = Rec(n, f, r + k, w)
BY DEF Rec, Retrieve

\* The first step of prepend changes readerIndex_ only.
LEMMA SteppedBackIs ==
  ASSUME NEW n, NEW f, NEW r, NEW w, NEW k
  PROVE  [Rec(n, f, r, w) EXCEPT !.readerIndex = @ - k] = Rec(n, f, r - k, w)
BY DEF Rec

\* retrieveAll changes both indices only.
LEMMA RetrieveAllIs ==
  ASSUME NEW n, NEW f, NEW r, NEW w
  PROVE  RetrieveAll(Rec(n, f, r, w)) = Rec(n, f, kCheapPrepend, kCheapPrepend)
<1> DEFINE X == RetrieveAll(Rec(n, f, r, w))
<1>1. X = [x \in {"size", "bytes", "readerIndex", "writerIndex"} |-> X[x]]
  BY Zenon DEF Rec, RetrieveAll
<1>2. X.size = n /\ X.bytes = f /\ X.readerIndex = kCheapPrepend
      /\ X.writerIndex = kCheapPrepend
  BY DEF Rec, RetrieveAll
<1> HIDE DEF X
<1>3. X = Rec(X.size, X.bytes, X.readerIndex, X.writerIndex)
  BY <1>1, RecOfFields
<1> QED BY <1>2, <1>3 DEF X
-----------------------------------------------------------------------------
(* What the methods do to a buffer that holds c *)

\* makeSpace keeps the readable bytes, makes the room it is asked for, moves only towards the
\* front, and enlarges the vector only when it has to.
LEMMA SpaceMade ==
  ASSUME NEW b, NEW c, NEW len \in Nat, Holds(b, c), WriteableBytes(b) < len
  PROVE  /\ Holds(MakeSpace(b, len), c)
         /\ WriteableBytes(MakeSpace(b, len)) >= len
         /\ ~Enlarges(b, len) => kCheapPrepend < b.readerIndex
         /\ MakeSpace(b, len).size # b.size => Len(c) + len + kCheapPrepend > b.size
<1> DEFINE n == b.size
           f == b.bytes
           r == b.readerIndex
           w == b.writerIndex
<1> USE BufferAssumption
<1>1. b = Rec(n, f, r, w) /\ Sound(n, f, r, w, c)
  BY DEF Holds
<1>2. n - w < len /\ (Enlarges(b, len) <=> (n - w) + r < len + kCheapPrepend)
  BY DEF WriteableBytes, PrependableBytes, Enlarges
<1> HIDE DEF n, f, r, w
<1>3. CASE Enlarges(b, len)
  <2>1. MakeSpace(b, len) = Resize(b, b.writerIndex + len)
    BY <1>3 DEF MakeSpace
  <2>2. MakeSpace(b, len) = Rec(w + len, Resized(n, f, w + len), r, w)
    BY <2>1, <1>1, ResizeIs DEF w
  <2>3. w + len \in Nat /\ n <= w + len /\ (w + len) - w >= len
        /\ Len(c) + len + kCheapPrepend > n
    BY <1>1, <1>2, <1>3 DEF Sound
  <2>4. Holds(MakeSpace(b, len), c)
    BY <1>1, <2>2, <2>3, ResizedHolds, HoldsRec
  <2>5. WriteableBytes(MakeSpace(b, len)) = (w + len) - w
    BY <2>2, Fields DEF WriteableBytes
  <2> QED BY <1>3, <2>3, <2>4, <2>5 DEF n
<1>4. CASE ~Enlarges(b, len)
  <2>1. MakeSpace(b, len) = MoveToFront(b)
    BY <1>4 DEF MakeSpace
  <2>2. MakeSpace(b, len)
          = Rec(n, Moved(n, f, r, w), kCheapPrepend, kCheapPrepend + (w - r))
    BY <2>1, <1>1, MoveIs
  <2>3. kCheapPrepend < r /\ kCheapPrepend + Len(c) <= n
        /\ n - (kCheapPrepend + (w - r)) >= len
    BY <1>1, <1>2, <1>4 DEF Sound
  <2>4. Holds(MakeSpace(b, len), c)
    BY <1>1, <2>2, <2>3, MovedHolds, HoldsRec
  <2>5. WriteableBytes(MakeSpace(b, len)) = n - (kCheapPrepend + (w - r))
        /\ MakeSpace(b, len).size = n
    BY <2>2, Fields DEF WriteableBytes
  <2> QED BY <2>3, <2>4, <2>5 DEF n, r
<1> QED BY <1>3, <1>4

\* ensureWriteableBytes: the same, when there may be room already.
LEMMA RoomEnsured ==
  ASSUME NEW b, NEW c, NEW len \in Nat, Holds(b, c)
  PROVE  /\ Holds(EnsureWriteableBytes(b, len), c)
         /\ WriteableBytes(EnsureWriteableBytes(b, len)) >= len
         /\ EnsureWriteableBytes(b, len).size # b.size
              => Len(c) + len + kCheapPrepend > b.size
<1>1. CASE WriteableBytes(b) < len
  BY <1>1, SpaceMade DEF EnsureWriteableBytes
<1>2. CASE ~(WriteableBytes(b) < len)
  <2>1. WriteableBytes(b) >= len
    BY <1>2 DEF Holds, Sound, WriteableBytes
  <2> QED BY <1>2, <2>1 DEF EnsureWriteableBytes
<1> QED BY <1>1, <1>2

\* Bytes written behind, where there is room for them, and declared with hasWritten.
LEMMA WrittenHolds ==
  ASSUME NEW b, NEW c, NEW s \in Seq(Bytes), Holds(b, c), Len(s) <= WriteableBytes(b)
  PROVE  LET h == HasWritten(Copy(b, b.writerIndex, s), Len(s))
         IN Holds(h, c \o s) /\ h.size = b.size
            /\ WriteableBytes(h) = WriteableBytes(b) - Len(s)
<1> DEFINE n == b.size
           f == b.bytes
           r == b.readerIndex
           w == b.writerIndex
           h == HasWritten(Copy(b, w, s), Len(s))
<1>1. b = Rec(n, f, r, w) /\ Sound(n, f, r, w, c) /\ WriteableBytes(b) = n - w
  BY DEF Holds, WriteableBytes
<1> HIDE DEF n, f, r, w
<1>2. h = Rec(n, Copied(n, f, w, s), r, w + Len(s))
  <2>1. Copy(b, w, s) = Rec(n, Copied(n, f, w, s), r, w)
    BY <1>1, CopyIs
  <2> QED BY <2>1, HasWrittenIs
<1>3. Len(s) \in Nat /\ w + Len(s) <= n /\ n - (w + Len(s)) = (n - w) - Len(s)
  BY <1>1 DEF Sound
<1>4. Holds(h, c \o s)
  BY <1>1, <1>2, <1>3, CopiedBehind, HoldsRec
<1>5. h.size = n /\ WriteableBytes(h) = n - (w + Len(s))
  BY <1>2, Fields DEF WriteableBytes
<1> QED BY <1>1, <1>3, <1>4, <1>5 DEF n, w

\* append puts its bytes behind what the buffer holds.
LEMMA AppendHolds ==
  ASSUME NEW b, NEW c, NEW s \in Seq(Bytes), Holds(b, c)
  PROVE  /\ Holds(AppendTo(b, s), c \o s)
         /\ AppendTo(b, s).size # b.size => Len(c \o s) + kCheapPrepend > b.size
<1> DEFINE e == EnsureWriteableBytes(b, Len(s))
<1>1. Len(s) \in Nat /\ Len(c) \in Nat /\ Len(c \o s) = Len(c) + Len(s)
  BY DEF Holds, Sound
<1>2. /\ Holds(e, c) /\ WriteableBytes(e) >= Len(s)
      /\ e.size # b.size => Len(c) + Len(s) + kCheapPrepend > b.size
  BY <1>1, RoomEnsured
<1>3. WriteableBytes(e) \in Int
  BY <1>2 DEF Holds, Sound, WriteableBytes
<1>4. AppendTo(b, s) = HasWritten(Copy(e, e.writerIndex, s), Len(s))
  BY DEF AppendTo
<1> HIDE DEF e
<1>5. Len(s) <= WriteableBytes(e)
  BY <1>1, <1>2, <1>3
<1>6. Holds(AppendTo(b, s), c \o s) /\ AppendTo(b, s).size = e.size
  BY <1>2, <1>4, <1>5, WrittenHolds
<1> QED BY <1>1, <1>2, <1>6

\* readFd puts what readv() yielded behind what the buffer holds, however it was split between
\* the vector and extrabuf.
LEMMA ReadFdHolds ==
  ASSUME NEW b, NEW c, NEW s \in Seq(Bytes), Holds(b, c)
  PROVE  /\ Holds(ReadFd(b, s), c \o s)
         /\ ReadFd(b, s).size # b.size => Len(c \o s) + kCheapPrepend > b.size
<1> DEFINE w == WriteableBytes(b)
<1>1. w \in Nat /\ Len(s) \in Nat /\ c \in Seq(Bytes)
  BY DEF Holds, Sound, WriteableBytes
<1>2. CASE Len(s) <= w
  BY <1>2, WrittenHolds DEF ReadFd
<1>3. CASE ~(Len(s) <= w)
  <2> DEFINE s1 == SubSeq(s, 1, w)
             s2 == SubSeq(s, w + 1, Len(s))
             h == HasWritten(Copy(b, b.writerIndex, s1), Len(s1))
  <2>1. s1 \in Seq(Bytes) /\ Len(s1) = w /\ s2 \in Seq(Bytes)
    BY <1>1, <1>3
  <2>2. s = s1 \o s2
    <3>1. s1 \o s2 \in Seq(Bytes) /\ Len(s1 \o s2) = Len(s)
      BY <1>1, <1>3, <2>1
    <3>2. ASSUME NEW i \in 1..Len(s)
          PROVE  s[i] = (s1 \o s2)[i]
      <4>1. CASE i <= w
        <5>1. s1[i] = s[i]
          BY <1>1, <1>3, <4>1
        <5> HIDE DEF s1, s2
        <5> QED BY <1>1, <2>1, <4>1, <3>1, <5>1
      <4>2. CASE i > w
        <5>1. s2[i - w] = s[i]
          BY <1>1, <1>3, <4>2
        <5> HIDE DEF s1, s2
        <5> QED BY <1>1, <2>1, <4>2, <3>1, <5>1
      <4>3. i <= w \/ i > w
        BY <1>1
      <4> QED BY <4>1, <4>2, <4>3, Zenon
    <3> HIDE DEF s1, s2
    <3> QED BY <3>1, <3>2, SeqEqual, Zenon
  <2>3. ReadFd(b, s) = AppendTo(h, s2)
    BY <1>3, <2>1 DEF ReadFd
  <2>4. (c \o s1) \o s2 = c \o s
    <3> HIDE DEF s1, s2
    <3>1. (c \o s1) \o s2 = c \o (s1 \o s2)
      BY <1>1, <2>1
    <3> QED BY <3>1, <2>2
  <2> HIDE DEF s1, s2
  <2>5. Holds(h, c \o s1) /\ h.size = b.size
    <3>1. Len(s1) <= WriteableBytes(b)
      BY <1>1, <2>1
    <3> QED BY <2>1, <3>1, WrittenHolds
  <2> HIDE DEF h
  <2>6. /\ Holds(AppendTo(h, s2), (c \o s1) \o s2)
        /\ AppendTo(h, s2).size # h.size
             => Len((c \o s1) \o s2) + kCheapPrepend > h.size
    BY <2>1, <2>5, AppendHolds, Zenon
  <2> QED BY <2>3, <2>4, <2>5, <2>6
<1> QED BY <1>2, <1>3

\* retrieve takes the first bytes away.
LEMMA RetrieveHolds ==
  ASSUME NEW b, NEW c, NEW len \in Nat, Holds(b, c), len <= ReadableBytes(b)
  PROVE  Holds(Retrieve(b, len), SubSeq(c, len + 1, Len(c))) /\ Retrieve(b, len).size = b.size
<1> DEFINE n == b.size
           f == b.bytes
           r == b.readerIndex
           w == b.writerIndex
           d == SubSeq(c, len + 1, Len(c))
<1>1. b = Rec(n, f, r, w) /\ Sound(n, f, r, w, c) /\ len <= w - r
  BY DEF Holds, ReadableBytes
<1> HIDE DEF n, f, r, w
<1>2. Retrieve(b, len) = Rec(n, f, r + len, w)
  BY <1>1, RetrieveIs
<1>3. c \in Seq(Bytes) /\ Len(c) \in Nat /\ len <= Len(c)
  BY <1>1 DEF Sound
<1>4. d \in Seq(Bytes) /\ Len(d) = Len(c) - len /\ \A i \in 1..Len(d) : d[i] = c[len + i]
  BY <1>3
<1> HIDE DEF d
<1>5. ASSUME NEW i \in 1..Len(d)
      PROVE  f[(r + len) + i - 1] = d[i]
  <2>1. len + i \in 1..Len(c) /\ r + (len + i) - 1 = (r + len) + i - 1
    BY <1>1, <1>3, <1>4 DEF Sound
  <2>2. f[r + (len + i) - 1] = c[len + i]
    BY <1>1, <2>1 DEF Sound
  <2> QED BY <1>4, <2>1, <2>2
<1>6. Sound(n, f, r + len, w, d)
  BY <1>1, <1>3, <1>4, <1>5 DEF Sound
<1> QED BY <1>2, <1>6, HoldsRec, Fields DEF n, d

\* retrieveAll empties the buffer.
LEMMA RetrieveAllHolds ==
  ASSUME NEW b, NEW c, Holds(b, c)
  PROVE  Holds(RetrieveAll(b), <<>>) /\ RetrieveAll(b).size = b.size
<1> DEFINE n == b.size
           f == b.bytes
<1>1. b = Rec(n, f, b.readerIndex, b.writerIndex) /\ n \in Nat /\ kCheapPrepend <= n
      /\ f \in [0..(n - 1) -> Bytes]
  BY DEF Holds, Sound
<1> HIDE DEF n, f
<1>2. Sound(n, f, kCheapPrepend, kCheapPrepend, <<>>)
  BY <1>1, BufferAssumption DEF Sound
<1>3. RetrieveAll(b) = Rec(n, f, kCheapPrepend, kCheapPrepend)
  BY <1>1, RetrieveAllIs
<1> QED BY <1>2, <1>3, HoldsRec, Fields DEF n

\* prepend puts its bytes in front of what the buffer holds.
LEMMA PrependHolds ==
  ASSUME NEW b, NEW c, NEW s \in Seq(Bytes), Holds(b, c), Len(s) <= PrependableBytes(b)
  PROVE  Holds(Prepend(b, s), s \o c) /\ Prepend(b, s).size = b.size
<1> DEFINE n == b.size
           f == b.bytes
           r == b.readerIndex
           w == b.writerIndex
           p == [b EXCEPT !.readerIndex = @ - Len(s)]
<1>1. b = Rec(n, f, r, w) /\ Sound(n, f, r, w, c) /\ Len(s) <= r
  BY DEF Holds, PrependableBytes
<1>2. Prepend(b, s) = Copy(p, p.readerIndex, s)
  BY DEF Prepend
<1> HIDE DEF n, f, r, w
<1>3. p = Rec(n, f, r - Len(s), w)
  BY <1>1, SteppedBackIs
<1> HIDE DEF p
<1>4. p.readerIndex = r - Len(s)
  BY <1>3, Fields
<1>5. Prepend(b, s) = Rec(n, Copied(n, f, r - Len(s), s), r - Len(s), w)
  BY <1>2, <1>3, <1>4, CopyIs
<1>6. Holds(Prepend(b, s), s \o c)
  BY <1>1, <1>5, CopiedInFront, HoldsRec
<1> QED BY <1>5, <1>6, Fields DEF n
-----------------------------------------------------------------------------
(* The invariant *)

\* The bytes of one call are a sequence.
LEMMA ChunksAreSequences == Chunks \subseteq Seq(Bytes)
<1>1. ASSUME NEW n \in 1..ChunkMax, NEW s \in [1..n -> Bytes]
      PROVE  s \in Seq(Bytes)
  BY BufferAssumption
<1> QED BY <1>1 DEF Chunks

\* The constructed buffer is empty.
LEMMA InitHolds == Init => Inv
<1> DEFINE n == kCheapPrepend + kInitialSize
           f == [i \in 0..(n - 1) |-> Zero]
<1>1. n \in Nat /\ kCheapPrepend <= n /\ f \in [0..(n - 1) -> Bytes]
  BY BufferAssumption
<1>2. SUFFICES ASSUME Init
      PROVE  Inv
  OBVIOUS
<1>3. buf = [size |-> n, bytes |-> f, readerIndex |-> kCheapPrepend,
             writerIndex |-> kCheapPrepend]
      /\ content = <<>>
  BY <1>2, Zenon DEF Init
<1> HIDE DEF n, f
<1>4. buf = Rec(n, f, kCheapPrepend, kCheapPrepend)
  BY <1>3 DEF Rec
<1>5. Sound(n, f, kCheapPrepend, kCheapPrepend, <<>>)
  BY <1>1, BufferAssumption DEF Sound
<1> QED BY <1>3, <1>4, <1>5, HoldsRec DEF Inv

\* Every call keeps the invariant, and enlarges the vector only when it has to.
LEMMA NextHolds ==
  ASSUME Inv, [Next]_vars
  PROVE  Inv' /\ (buf'.size # buf.size => Len(content') + kCheapPrepend > buf.size)
<1> USE DEF Inv
<1>1. CASE CallRetrieveAll
  BY <1>1, RetrieveAllHolds DEF CallRetrieveAll
<1>2. ASSUME NEW len \in 1..LengthMax, CallRetrieve(len)
      PROVE  Inv' /\ buf'.size = buf.size
  <2>1. len \in Nat
    BY BufferAssumption
  <2> QED BY <1>2, <2>1, RetrieveHolds DEF CallRetrieve
<1>3. ASSUME NEW s \in Chunks, CallAppend(s)
      PROVE  Inv' /\ (buf'.size # buf.size => Len(content') + kCheapPrepend > buf.size)
  <2>1. s \in Seq(Bytes)
    BY ChunksAreSequences
  <2> QED BY <1>3, <2>1, AppendHolds DEF CallAppend
<1>4. ASSUME NEW s \in Chunks, CallReadFd(s)
      PROVE  Inv' /\ (buf'.size # buf.size => Len(content') + kCheapPrepend > buf.size)
  <2>1. s \in Seq(Bytes)
    BY ChunksAreSequences
  <2> QED BY <1>4, <2>1, ReadFdHolds DEF CallReadFd
<1>5. ASSUME NEW s \in Chunks, CallPrepend(s)
      PROVE  Inv' /\ buf'.size = buf.size
  <2>1. s \in Seq(Bytes)
    BY ChunksAreSequences
  <2> QED BY <1>5, <2>1, PrependHolds DEF CallPrepend
<1>6. CASE UNCHANGED vars
  BY <1>6 DEF vars
<1> HIDE DEF Inv
<1> QED BY <1>1, <1>2, <1>3, <1>4, <1>5, <1>6 DEF Next, Inv

\* In every state the buffer holds exactly the bytes of content (all methods of Buffer).
THEOREM BufferHoldsContent == Spec => []Inv
<1>1. Init => Inv
  BY InitHolds
<1>2. Inv /\ [Next]_vars => Inv'
  BY NextHolds
<1> QED BY <1>1, <1>2, PTL DEF Spec

\* The types, and the readable part inside the vector, whatever the sizes (all methods).
THEOREM IndicesStayInside == Spec => [](TypeOK /\ IndicesInside)
<1>1. Inv => TypeOK /\ IndicesInside
  BY DEF Inv, Holds, Sound, TypeOK, IndicesInside
<1> QED BY <1>1, BufferHoldsContent, PTL

\* The readable part is content.
LEMMA InvKeeps == Inv => BytesKept
BY DEF Inv, Holds, Sound, BytesKept, ReadableBytes

\* No byte is lost, repeated or reordered by a move, an enlargement or a read that is split
\* between the vector and extrabuf, whatever the sizes (append, readFd, prepend, makeSpace).
THEOREM NoByteIsLost == Spec => []BytesKept
BY InvKeeps, BufferHoldsContent, PTL

\* There is room when ensureWriteableBytes returns, and before the bytes when makeSpace moves them.
LEMMA InvAsserts == Inv => AssertsHold
<1> SUFFICES ASSUME Inv, NEW len \in 1..ChunkMax
             PROVE  /\ WriteableBytes(EnsureWriteableBytes(buf, len)) >= len
                    /\ WriteableBytes(buf) < len /\ ~Enlarges(buf, len)
                         => kCheapPrepend < buf.readerIndex
  BY DEF AssertsHold
<1>1. len \in Nat
  BY BufferAssumption
<1> QED BY <1>1, RoomEnsured, SpaceMade, Zenon DEF Inv

\* The asserts of ensureWriteableBytes and makeSpace never fail, whatever the sizes.
THEOREM AssertsNeverFail == Spec => []AssertsHold
BY InvAsserts, BufferHoldsContent, PTL

\* makeSpace enlarges the vector only when the bytes and the cheap prepend do not fit into it.
THEOREM GrowthIsNeeded == Spec => GrowsOnlyWhenFull
<1> DEFINE Grows == buf'.size # buf.size => ReadableBytes(buf') + kCheapPrepend > buf.size
<1>1. Inv /\ [Next]_vars => [Grows]_vars
  <2> SUFFICES ASSUME Inv, [Next]_vars
               PROVE  Grows
    OBVIOUS
  <2>1. Inv' /\ (buf'.size # buf.size => Len(content') + kCheapPrepend > buf.size)
    BY NextHolds
  <2>2. ReadableBytes(buf') = Len(content')
    BY <2>1 DEF Inv, Holds, Sound, ReadableBytes
  <2> QED BY <2>1, <2>2
<1> QED BY <1>1, BufferHoldsContent, PTL DEF Spec, GrowsOnlyWhenFull
-----------------------------------------------------------------------------
(* HttpServer: the invariant *)

\* The histories of the client: each line is where its end says, and says what Read makes of it;
\* what is said only grows, and nothing is said after a line that is bad.
ClientInv ==
  /\ \A k \in 1..Len(lines) :
       /\ End(k) = End(k - 1) + Len(LineOf(lines[k].text))
       /\ \A i \in 1..Len(LineOf(lines[k].text)) : stream[End(k - 1) + i] = LineOf(lines[k].text)[i]
       /\ Said(k) = Read(Said(k - 1), lines[k].text, Separated)
  /\ End(Len(lines)) = Len(stream)
  /\ \A j, k \in 0..Len(lines) : j <= k =>
       /\ End(j) <= End(k)
       /\ Len(Said(j).requests) <= Len(Said(k).requests)
       /\ Said(j).bad => Said(k) = Said(j)

\* The buffer holds what follows the lines taken from it, the wire what follows that.
InputInv ==
  /\ Len(content) + Len(wire) = Len(stream) - End(done)
  /\ \A i \in 1..Len(content) : content[i] = stream[End(done) + i]
  /\ \A i \in 1..Len(wire) : wire[i] = stream[(Len(stream) - Len(wire)) + i]

\* The next line has arrived.
NextArrived == done < Len(lines) /\ End(done + 1) <= Len(stream) - Len(wire)

\* The text of the next line.
NextText == lines[done + 1].text

\* It has arrived, and does not begin a request as it should.
BadNext == NextArrived /\ Said(done + 1).bad

\* The context knows what the lines taken from the buffer say.
ContextInv ==
  /\ ~Said(done).bad
  /\ calls = Said(done).requests
  /\ ctx.state = IF Said(done).open THEN "ExpectHeaders" ELSE "ExpectRequestLine"
  /\ ctx.query = Said(done).request.query
  /\ Said(done).open => /\ ctx.version = Said(done).request.version /\ ctx.version # "Unknown"
                        /\ ctx.connection = Said(done).request.connection
  /\ ~Said(done).open => ctx.connection = ""

\* Only a bad line is refused, left in the buffer and parsed again.
RefusalInv ==
  /\ ~Said(done).open /\ ctx.method => BadNext /\ ~connected
  /\ fault => BadNext /\ ~connected

\* What was answered.
AnswerInv ==
  /\ connected => Len(out) = Len(calls) /\ \A i \in DOMAIN out : ~out[i].close
  /\ \A i \in 1..(Len(out) - 1) : ~out[i].close
  /\ \A i \in DOMAIN out : out[i].status = "400" => BadNext /\ ~connected

HttpInv ==
  Inv /\ HttpTypeOK /\ ClientInv /\ InputInv /\ ContextInv /\ RefusalInv /\ AnswerInv

\* The context after the first line of a request.
BeginRequest(c, text) == [ProcessRequestLine(c, text) EXCEPT !.state = "ExpectHeaders"]

\* The context d is the context c with this first line of a request.
Began(c, text, d) ==
  /\ d \in Contexts /\ d.state = "ExpectHeaders" /\ d.method = TRUE
  /\ d.version = Version(text) /\ d.query = (c.query \/ text = "http10")
  /\ d.connection = c.connection
-----------------------------------------------------------------------------
(* The lines in the buffer. *)

\* The bytes of a line.
LEMMA LineBytes ==
  ASSUME NEW t
  PROVE  /\ t = "" => /\ Len(LineOf(t)) = 2 /\ LineOf(t)[1] = "CR" /\ LineOf(t)[2] = "LF"
         /\ t # "" => /\ Len(LineOf(t)) = 3 /\ LineOf(t)[1] = t
                      /\ LineOf(t)[2] = "CR" /\ LineOf(t)[3] = "LF"
<1>1. CASE t = ""
  BY <1>1, Zenon DEF LineOf
<1>2. CASE t # ""
  BY <1>2, Zenon DEF LineOf
<1> QED
  BY <1>1, <1>2, Zenon

\* A line of the client is a sequence of bytes.
LEMMA LineType ==
  ASSUME NEW t \in Texts
  PROVE  LineOf(t) \in Seq(Bytes) /\ Len(LineOf(t)) \in Nat /\ t \in KnownTexts
<1>1. "CR" \in Bytes /\ "LF" \in Bytes /\ (t # "" => t \in Bytes) /\ t \in KnownTexts
  BY HttpAssumption, Zenon
<1>2. \A x, y \in Bytes : <<x, y>> \in Seq(Bytes)
  OBVIOUS
<1>3. \A x, y, z \in Bytes : <<x, y, z>> \in Seq(Bytes)
  OBVIOUS
<1>4. LineOf(t) \in Seq(Bytes)
  BY <1>1, <1>2, <1>3, Zenon DEF LineOf
<1> QED
  BY <1>1, <1>4, LenProperties, Zenon

\* Where findCRLF looks.
LEMMA WhereCRLF ==
  ASSUME NEW b, NEW c, Holds(b, c)
  PROVE  /\ \A x \in CRLFs(b) : \E i \in 1..(Len(c) - 1) :
              x = b.readerIndex + i - 1 /\ c[i] = "CR" /\ c[i + 1] = "LF"
         /\ \A i \in 1..(Len(c) - 1) : c[i] = "CR" /\ c[i + 1] = "LF"
              => b.readerIndex + i - 1 \in CRLFs(b)
         /\ b.readerIndex \in Nat /\ Len(c) \in Nat
         /\ Len(c) > 0 => b.bytes[b.readerIndex] = c[1]
<1> DEFINE r == b.readerIndex
           w == b.writerIndex
           f == b.bytes
<1>1. /\ r \in Nat /\ w \in Nat /\ Len(c) \in Nat /\ w - r = Len(c)
      /\ \A i \in 1..Len(c) : f[r + i - 1] = c[i]
  BY LenProperties DEF Holds, Sound
<1>2. CRLFs(b) = {x \in r..(w - 2) : f[x] = "CR" /\ f[x + 1] = "LF"}
  BY Zenon DEF CRLFs
<1> HIDE DEF r, w, f
<1>3. ASSUME NEW x \in CRLFs(b)
      PROVE  \E i \in 1..(Len(c) - 1) : x = r + i - 1 /\ c[i] = "CR" /\ c[i + 1] = "LF"
  <2>1. x \in r..(w - 2) /\ f[x] = "CR" /\ f[x + 1] = "LF"
    BY <1>2, <1>3
  <2>2. PICK i \in 1..(Len(c) - 1) : x = r + i - 1
    <3>1. x - r + 1 \in 1..(Len(c) - 1) /\ x = r + (x - r + 1) - 1
      BY <1>1, <2>1
    <3> QED
      BY <3>1
  <2>3. i \in 1..Len(c) /\ i + 1 \in 1..Len(c) /\ x + 1 = r + (i + 1) - 1
    BY <1>1, <2>1, <2>2
  <2>4. f[x] = c[i] /\ f[x + 1] = c[i + 1]
    BY <1>1, <2>2, <2>3, Zenon
  <2> QED
    BY <2>1, <2>2, <2>4
<1>4. ASSUME NEW i \in 1..(Len(c) - 1), c[i] = "CR", c[i + 1] = "LF"
      PROVE  r + i - 1 \in CRLFs(b)
  <2>1. /\ i \in 1..Len(c) /\ i + 1 \in 1..Len(c) /\ (r + i - 1) + 1 = r + (i + 1) - 1
        /\ r + i - 1 \in r..(w - 2)
    BY <1>1
  <2>2. f[r + i - 1] = "CR" /\ f[(r + i - 1) + 1] = "LF"
    BY <1>1, <1>4, <2>1
  <2> QED
    BY <1>2, <2>1, <2>2
<1>5. Len(c) > 0 => f[r] = c[1]
  <2> SUFFICES ASSUME Len(c) > 0 PROVE f[r] = c[1]
    OBVIOUS
  <2>1. 1 \in 1..Len(c) /\ r + 1 - 1 = r
    BY <1>1
  <2> QED
    BY <1>1, <2>1
<1> QED
  BY <1>1, <1>3, <1>4, <1>5 DEF r, f

\* A buffer that begins with a whole line: findCRLF finds its end.  One that holds less than
\* the line: it finds nothing.
LEMMA LineFound ==
  ASSUME NEW b, NEW c, Holds(b, c), NEW t \in KnownTexts,
         \A i \in 1..Len(c) : i <= Len(LineOf(t)) => c[i] = LineOf(t)[i]
  PROVE  /\ Len(c) < Len(LineOf(t)) => CRLFs(b) = {}
         /\ Len(LineOf(t)) <= Len(c) =>
              /\ CRLFs(b) # {}
              /\ LineEnd(FindCRLF(b)) - b.readerIndex = Len(LineOf(t))
              /\ TextBefore(b, FindCRLF(b)) = t
<1> DEFINE r == b.readerIndex
<1>1. /\ \A x \in CRLFs(b) : \E i \in 1..(Len(c) - 1) :
              x = r + i - 1 /\ c[i] = "CR" /\ c[i + 1] = "LF"
      /\ \A i \in 1..(Len(c) - 1) : c[i] = "CR" /\ c[i + 1] = "LF" => r + i - 1 \in CRLFs(b)
      /\ r \in Nat /\ Len(c) \in Nat
      /\ Len(c) > 0 => b.bytes[r] = c[1]
  BY WhereCRLF
<1>2. t # "CR"
  BY Zenon DEF KnownTexts
<1> HIDE DEF r
<1>3. \A x \in CRLFs(b) : x \in Int /\ x >= r
  BY <1>1
<1>4. ASSUME NEW x \in CRLFs(b), \A y \in CRLFs(b) : x <= y PROVE FindCRLF(b) = x
  <2>1. \A y \in CRLFs(b) : (\A z \in CRLFs(b) : y <= z) => y = x
    <3> TAKE y \in CRLFs(b)
    <3> HAVE \A z \in CRLFs(b) : y <= z
    <3>1. x <= y /\ y <= x
      BY <1>4
    <3> QED
      BY <1>3, <3>1
  <2> QED
    BY <1>4, <2>1, Zenon DEF FindCRLF, Min
<1>5. CASE t = ""
  <2>1. Len(LineOf(t)) = 2 /\ LineOf(t)[1] = "CR" /\ LineOf(t)[2] = "LF"
    BY <1>5, LineBytes, Zenon
  <2>2. ASSUME Len(c) < 2 PROVE CRLFs(b) = {}
    BY <1>1, <2>2
  <2>3. ASSUME 2 <= Len(c)
        PROVE  /\ CRLFs(b) # {} /\ LineEnd(FindCRLF(b)) - r = 2 /\ TextBefore(b, FindCRLF(b)) = t
    <3>1. 1 \in 1..(Len(c) - 1) /\ c[1] = "CR" /\ c[1 + 1] = "LF" /\ r + 1 - 1 = r
      BY <1>1, <2>1, <2>3
    <3>2. r \in CRLFs(b)
      BY <1>1, <3>1
    <3>3. FindCRLF(b) = r
      BY <1>3, <1>4, <3>2
    <3>4. TextBefore(b, r) = ""
      BY DEF TextBefore, r
    <3>5. LineEnd(FindCRLF(b)) - r = 2
      BY <1>1, <3>3 DEF LineEnd
    <3> QED
      BY <1>5, <3>2, <3>3, <3>4, <3>5, Zenon
  <2> QED
    BY <2>1, <2>2, <2>3 DEF r
<1>6. CASE t # ""
  <2>1. Len(LineOf(t)) = 3 /\ LineOf(t)[1] = t /\ LineOf(t)[2] = "CR" /\ LineOf(t)[3] = "LF"
    BY <1>6, LineBytes, Zenon
  <2>2. Len(c) > 0 => c[1] = t
    BY <1>1, <2>1
  <2>3. \A x \in CRLFs(b) : x >= r + 1
    <3> TAKE x \in CRLFs(b)
    <3>1. PICK i \in 1..(Len(c) - 1) : x = r + i - 1 /\ c[i] = "CR" /\ c[i + 1] = "LF"
      BY <1>1
    <3>2. i # 1
      BY <1>1, <1>2, <2>2, <3>1
    <3> QED
      BY <1>1, <3>1, <3>2
  <2>4. ASSUME Len(c) < 3 PROVE CRLFs(b) = {}
    <3>1. ASSUME NEW x \in CRLFs(b) PROVE FALSE
      <4>1. PICK i \in 1..(Len(c) - 1) : x = r + i - 1 /\ c[i] = "CR" /\ c[i + 1] = "LF"
        BY <1>1
      <4>2. x >= r + 1
        BY <2>3
      <4> QED
        BY <1>1, <2>4, <4>1, <4>2
    <3> QED
      BY <3>1
  <2>5. ASSUME 3 <= Len(c)
        PROVE  /\ CRLFs(b) # {} /\ LineEnd(FindCRLF(b)) - r = 3 /\ TextBefore(b, FindCRLF(b)) = t
    <3>1. 2 \in 1..(Len(c) - 1) /\ c[2] = "CR" /\ c[2 + 1] = "LF" /\ r + 2 - 1 = r + 1
      BY <1>1, <2>1, <2>5
    <3>2. r + 1 \in CRLFs(b)
      BY <1>1, <3>1
    <3>3. FindCRLF(b) = r + 1
      BY <1>4, <2>3, <3>2
    <3>4. TextBefore(b, r + 1) = b.bytes[r]
      <4>1. r + 1 # r
        BY <1>1
      <4> QED
        BY <4>1, Zenon DEF TextBefore, r
    <3>5. b.bytes[r] = t
      BY <1>1, <2>2, <2>5
    <3> QED
      BY <1>1, <3>2, <3>3, <3>4, <3>5 DEF LineEnd
  <2> QED
    BY <2>1, <2>4, <2>5 DEF r
<1> QED
  BY <1>5, <1>6, Zenon
-----------------------------------------------------------------------------
(* What lines say. *)

\* The parts of a saying.
LEMMA SayingParts ==
  ASSUME NEW s \in Sayings
  PROVE  /\ s.requests \in Seq(Requests) /\ s.bad \in BOOLEAN /\ s.open \in BOOLEAN
         /\ s.request.version \in Versions /\ s.request.query \in BOOLEAN
         /\ s.request.connection \in {"", "close", "Keep-Alive"}
         /\ s.request = [version |-> s.request.version, query |-> s.request.query,
                         connection |-> s.request.connection]
         /\ s = [requests |-> s.requests, bad |-> s.bad, open |-> s.open, request |-> s.request]
         /\ s.open => s.request \in Requests
BY Zenon DEF Sayings, Requests

\* A saying from its parts.
LEMMA SayingOf ==
  ASSUME NEW rs \in Seq(Requests), NEW bad \in BOOLEAN, NEW open \in BOOLEAN,
         NEW v \in Versions, NEW q \in BOOLEAN, NEW c \in {"", "close", "Keep-Alive"},
         open => v # "Unknown"
  PROVE  [requests |-> rs, bad |-> bad, open |-> open,
          request |-> [version |-> v, query |-> q, connection |-> c]] \in Sayings
BY Zenon DEF Sayings

\* What the lines that begin requests and the headers can say.
LEMMA TextParts ==
  ASSUME NEW t
  PROVE  /\ Version(t) \in Versions
         /\ DOMAIN Separated = {"close", "keep"}
         /\ t \in DOMAIN Separated => Separated[t] \in {"close", "Keep-Alive"}
<1>1. Version(t) \in Versions
  BY DEF Version, Versions
<1>2. DOMAIN Separated = {"close", "keep"}
  BY DEF Separated
<1>3. t \in DOMAIN Separated => Separated[t] \in {"close", "Keep-Alive"}
  BY DEF Separated
<1> QED
  BY <1>1, <1>2, <1>3

\* After a bad line nothing is said.
LEMMA ReadBad ==
  ASSUME NEW s \in Sayings, NEW t, s.bad
  PROVE  Read(s, t, Separated) = s
BY DEF Read

\* A header.
LEMMA ReadHeader ==
  ASSUME NEW s \in Sayings, NEW t, ~s.bad, s.open, t \in DOMAIN Separated
  PROVE  Read(s, t, Separated) =
           [requests |-> s.requests, bad |-> FALSE, open |-> TRUE,
            request |-> [version |-> s.request.version, query |-> s.request.query,
                         connection |-> Separated[t]]]
<1>1. Read(s, t, Separated) =
        [s EXCEPT !.request = [version |-> s.request.version, connection |-> Separated[t],
                               query |-> s.request.query]]
  BY Zenon DEF Read
<1> QED
  BY <1>1, SayingParts, ZenonT(60)

\* The end of a request.
LEMMA ReadLast ==
  ASSUME NEW s \in Sayings, NEW t, ~s.bad, s.open, t \notin DOMAIN Separated
  PROVE  Read(s, t, Separated) =
           [requests |-> Append(s.requests, s.request), bad |-> FALSE, open |-> FALSE,
            request |-> s.request]
<1>1. Read(s, t, Separated) = [s EXCEPT !.open = FALSE, !.requests = Append(@, s.request)]
  BY Zenon DEF Read
<1> QED
  BY <1>1, SayingParts, Zenon

\* The begin of a request.
LEMMA ReadFirst ==
  ASSUME NEW s \in Sayings, NEW t, ~s.bad, ~s.open, Version(t) # "Unknown"
  PROVE  Read(s, t, Separated) =
           [requests |-> s.requests, bad |-> FALSE, open |-> TRUE,
            request |-> [version |-> Version(t), query |-> s.request.query \/ t = "http10",
                         connection |-> ""]]
<1>1. Read(s, t, Separated) =
        [s EXCEPT !.open = TRUE,
                  !.request = [version |-> Version(t), connection |-> "",
                               query |-> s.request.query \/ t = "http10"]]
  BY Zenon DEF Read
<1> QED
  BY <1>1, SayingParts, ZenonT(60)

\* A line that should begin a request and does not.
LEMMA ReadRefused ==
  ASSUME NEW s \in Sayings, NEW t, ~s.bad, ~s.open, Version(t) = "Unknown"
  PROVE  Read(s, t, Separated) =
           [requests |-> s.requests, bad |-> TRUE, open |-> FALSE, request |-> s.request]
<1>1. Read(s, t, Separated) = [s EXCEPT !.bad = TRUE]
  BY Zenon DEF Read
<1> QED
  BY <1>1, SayingParts, ZenonT(60)

\* Whatever the line, nothing that was said is taken back.
LEMMA ReadGrows ==
  ASSUME NEW s \in Sayings, NEW t
  PROVE  /\ Read(s, t, Separated) \in Sayings
         /\ Len(s.requests) <= Len(Read(s, t, Separated).requests)
         /\ Read(s, t, Separated).bad => Read(s, t, Separated).requests = s.requests
<1> DEFINE r == Read(s, t, Separated)
<1>1. /\ s.requests \in Seq(Requests) /\ s.bad \in BOOLEAN /\ s.open \in BOOLEAN
      /\ s.request.version \in Versions /\ s.request.query \in BOOLEAN
      /\ s.request.connection \in {"", "close", "Keep-Alive"}
      /\ s.request = [version |-> s.request.version, query |-> s.request.query,
                      connection |-> s.request.connection]
  BY SayingParts, Zenon
<1>2. s.open => s.request \in Requests /\ s.request.version # "Unknown"
  BY SayingParts, Zenon DEF Sayings
<1>3. Len(s.requests) \in Nat
  BY <1>1, LenProperties, Zenon
<1>4. CASE s.bad
  BY <1>3, <1>4, ReadBad
<1>5. CASE ~s.bad /\ s.open /\ t \in DOMAIN Separated
  <2>1. r = [requests |-> s.requests, bad |-> FALSE, open |-> TRUE,
             request |-> [version |-> s.request.version, query |-> s.request.query,
                          connection |-> Separated[t]]]
    BY <1>5, ReadHeader
  <2>2. Separated[t] \in {"", "close", "Keep-Alive"}
    BY <1>5, TextParts, Zenon
  <2>3. r \in Sayings
    <3>1. s.open => s.request.version # "Unknown"
      BY <1>2
    <3>2. TRUE \in BOOLEAN /\ FALSE \in BOOLEAN /\ s.request.version # "Unknown"
      BY <1>5, <3>1
    <3>3. [requests |-> s.requests, bad |-> FALSE, open |-> TRUE,
           request |-> [version |-> s.request.version, query |-> s.request.query,
                        connection |-> Separated[t]]] \in Sayings
      BY <1>1, <2>2, <3>2, SayingOf, Zenon
    <3> QED
      BY <2>1, <3>3, Zenon
  <2> HIDE DEF r
  <2>4. Len(s.requests) <= Len(r.requests) /\ (r.bad => r.requests = s.requests)
    BY <1>3, <2>1
  <2> QED
    BY <2>3, <2>4 DEF r
<1>6. CASE ~s.bad /\ s.open /\ t \notin DOMAIN Separated
  <2>1. r = [requests |-> Append(s.requests, s.request), bad |-> FALSE, open |-> FALSE,
             request |-> s.request]
    BY <1>6, ReadLast
  <2>2. /\ Append(s.requests, s.request) \in Seq(Requests)
        /\ Len(s.requests) <= Len(Append(s.requests, s.request))
    <3>1. s.request \in Requests
      BY <1>2, <1>6
    <3>2. /\ Append(s.requests, s.request) \in Seq(Requests)
          /\ Len(Append(s.requests, s.request)) = Len(s.requests) + 1
      <4>1. \A q \in Seq(Requests), e \in Requests :
              Append(q, e) \in Seq(Requests) /\ Len(Append(q, e)) = Len(q) + 1
        BY AppendProperties
      <4> QED
        BY <1>1, <3>1, <4>1, Zenon
    <3> QED
      BY <1>3, <3>2
  <2>3. r \in Sayings
    <3>1. TRUE \in BOOLEAN /\ FALSE \in BOOLEAN
      OBVIOUS
    <3>2. [requests |-> Append(s.requests, s.request), bad |-> FALSE, open |-> FALSE,
           request |-> [version |-> s.request.version, query |-> s.request.query,
                        connection |-> s.request.connection]] \in Sayings
      BY <1>1, <2>2, <3>1, SayingOf, Zenon
    <3> QED
      BY <1>1, <2>1, <3>2, Zenon
  <2> HIDE DEF r
  <2>4. Len(s.requests) <= Len(r.requests) /\ (r.bad => r.requests = s.requests)
    BY <2>1, <2>2
  <2> QED
    BY <2>3, <2>4 DEF r
<1>7. CASE ~s.bad /\ ~s.open /\ Version(t) # "Unknown"
  <2>1. r = [requests |-> s.requests, bad |-> FALSE, open |-> TRUE,
             request |-> [version |-> Version(t), query |-> s.request.query \/ t = "http10",
                          connection |-> ""]]
    BY <1>7, ReadFirst, Zenon
  <2>2. Version(t) \in Versions /\ (s.request.query \/ t = "http10") \in BOOLEAN
    BY TextParts
  <2>3. r \in Sayings
    <3>1. TRUE \in BOOLEAN /\ FALSE \in BOOLEAN
          /\ "" \in {"", "close", "Keep-Alive"}
      OBVIOUS
    <3>2. [requests |-> s.requests, bad |-> FALSE, open |-> TRUE,
           request |-> [version |-> Version(t), query |-> s.request.query \/ t = "http10",
                        connection |-> ""]] \in Sayings
      BY <1>1, <1>7, <2>2, <3>1, SayingOf, Zenon
    <3> QED
      BY <2>1, <3>2, Zenon
  <2> HIDE DEF r
  <2>4. Len(s.requests) <= Len(r.requests) /\ (r.bad => r.requests = s.requests)
    <3>1. r.requests = s.requests
      BY <2>1, Zenon
    <3> QED
      BY <1>3, <3>1
  <2> QED
    BY <2>3, <2>4 DEF r
<1>8. CASE ~s.bad /\ ~s.open /\ Version(t) = "Unknown"
  <2>1. r = [requests |-> s.requests, bad |-> TRUE, open |-> FALSE, request |-> s.request]
    BY <1>8, ReadRefused
  <2>2. r \in Sayings
    <3>1. TRUE \in BOOLEAN /\ FALSE \in BOOLEAN
      OBVIOUS
    <3>2. [requests |-> s.requests, bad |-> TRUE, open |-> FALSE,
           request |-> [version |-> s.request.version, query |-> s.request.query,
                        connection |-> s.request.connection]] \in Sayings
      BY <1>1, <3>1, SayingOf, Zenon
    <3> QED
      BY <1>1, <2>1, <3>2, Zenon
  <2> HIDE DEF r
  <2>3. Len(s.requests) <= Len(r.requests) /\ (r.bad => r.requests = s.requests)
    BY <1>3, <2>1
  <2> QED
    BY <2>2, <2>3 DEF r
<1> QED
  BY <1>1, <1>4, <1>5, <1>6, <1>7, <1>8, Zenon
-----------------------------------------------------------------------------
(* The lines of the client and the buffer. *)

\* Nothing said.
LEMMA SilenceIsSaid == Silence \in Sayings
<1>1. <<>> \in Seq(Requests) /\ FALSE \in BOOLEAN /\ "" \in {"", "close", "Keep-Alive"}
  OBVIOUS
<1>2. "Unknown" \in Versions
  BY DEF Versions
<1>3. Silence = [requests |-> <<>>, bad |-> FALSE, open |-> FALSE,
                 request |-> [version |-> "Unknown", query |-> FALSE, connection |-> ""]]
  BY DEF Silence
<1> QED
  BY <1>1, <1>2, <1>3, SayingOf, Zenon

\* The types of the histories.
LEMMA Histories ==
  ASSUME HttpTypeOK
  PROVE  /\ Len(lines) \in Nat /\ Len(stream) \in Nat /\ Len(wire) \in Nat /\ Len(content) \in Nat
         /\ done \in Nat /\ done <= Len(lines)
         /\ \A k \in 1..Len(lines) : lines[k].text \in Texts
         /\ \A k \in 0..Len(lines) : End(k) \in Nat /\ Said(k) \in Sayings
<1> DEFINE L == [text : Texts, end : Nat, said : Sayings]
<1>1. lines \in Seq(L) /\ stream \in Seq(Bytes) /\ wire \in Seq(Bytes) /\ content \in Seq(Bytes)
      /\ done \in 0..Len(lines)
  BY DEF HttpTypeOK, TypeOK
<1>2. Len(lines) \in Nat /\ Len(stream) \in Nat /\ Len(wire) \in Nat /\ Len(content) \in Nat
  BY <1>1, LenProperties
<1> HIDE DEF L
<1>3. \A k \in 1..Len(lines) : lines[k] \in L
  BY <1>1
<1>4. \A k \in 1..Len(lines) : lines[k].text \in Texts /\ lines[k].end \in Nat
                               /\ lines[k].said \in Sayings
  BY <1>3 DEF L
<1>5. \A k \in 0..Len(lines) : k = 0 \/ k \in 1..Len(lines)
  BY <1>2
<1>6. \A k \in 0..Len(lines) : End(k) \in Nat
  BY <1>4, <1>5 DEF End
<1>7. \A k \in 0..Len(lines) : Said(k) \in Sayings
  BY <1>4, <1>5, SilenceIsSaid, Zenon DEF Said
<1> QED
  BY <1>1, <1>2, <1>4, <1>6, <1>7

\* findCRLF finds the next line exactly when it has arrived.
LEMMA NextLine ==
  ASSUME Inv, HttpTypeOK, ClientInv, InputInv
  PROVE  /\ (CRLFs(buf) # {}) <=> NextArrived
         /\ NextArrived =>
              /\ TextBefore(buf, FindCRLF(buf)) = NextText
              /\ LineEnd(FindCRLF(buf)) - buf.readerIndex = End(done + 1) - End(done)
              /\ End(done + 1) - End(done) <= Len(content)
              /\ End(done) < End(done + 1)
              /\ done + 1 \in 1..Len(lines)
              /\ Said(done + 1) = Read(Said(done), NextText, Separated)
<1>1. /\ Len(lines) \in Nat /\ Len(stream) \in Nat /\ Len(wire) \in Nat /\ Len(content) \in Nat
      /\ done \in Nat /\ done <= Len(lines)
      /\ \A k \in 1..Len(lines) : lines[k].text \in Texts
      /\ \A k \in 0..Len(lines) : End(k) \in Nat
  BY Histories
<1>2. /\ End(Len(lines)) = Len(stream)
      /\ Len(content) + Len(wire) = Len(stream) - End(done)
      /\ \A i \in 1..Len(content) : content[i] = stream[End(done) + i]
  BY Zenon DEF ClientInv, InputInv
<1>3. Holds(buf, content)
  BY Zenon DEF Inv
<1>4. CASE done = Len(lines)
  <2>1. Len(content) = 0
    BY <1>1, <1>2, <1>4
  <2>2. CRLFs(buf) = {}
    BY <1>3, <2>1, WhereCRLF
  <2>3. ~NextArrived
    BY <1>1, <1>4 DEF NextArrived
  <2> QED
    BY <2>2, <2>3
<1>5. CASE done < Len(lines)
  <2>1. done + 1 \in 1..Len(lines) /\ (done + 1) - 1 = done /\ done + 1 \in 0..Len(lines)
        /\ done \in 0..Len(lines)
    BY <1>1, <1>5
  <2>2. PICK t \in Texts : t = NextText
    BY <1>1, <2>1 DEF NextText
  <2>3. /\ End(done + 1) = End(done) + Len(LineOf(t))
        /\ \A i \in 1..Len(LineOf(t)) : stream[End(done) + i] = LineOf(t)[i]
        /\ Said(done + 1) = Read(Said(done), t, Separated)
    <3>1. \A k \in 1..Len(lines) :
            /\ End(k) = End(k - 1) + Len(LineOf(lines[k].text))
            /\ \A i \in 1..Len(LineOf(lines[k].text)) :
                 stream[End(k - 1) + i] = LineOf(lines[k].text)[i]
            /\ Said(k) = Read(Said(k - 1), lines[k].text, Separated)
      BY Zenon DEF ClientInv
    <3>2. lines[done + 1].text = t
      BY <2>2 DEF NextText
    <3> QED
      BY <2>1, <3>1, <3>2, Zenon
  <2>4. Len(LineOf(t)) \in Nat /\ t \in KnownTexts
    BY LineType
  <2>5. Len(LineOf(t)) \in {2, 3}
    BY LineBytes, Zenon
  <2>6. \A i \in 1..Len(content) : i <= Len(LineOf(t)) => content[i] = LineOf(t)[i]
    <3> SUFFICES ASSUME NEW i \in 1..Len(content), i <= Len(LineOf(t))
                 PROVE  content[i] = LineOf(t)[i]
      OBVIOUS
    <3>1. i \in 1..Len(LineOf(t))
      BY <2>4
    <3> QED
      BY <1>2, <2>3, <3>1
  <2>7. /\ Len(content) < Len(LineOf(t)) => CRLFs(buf) = {}
        /\ Len(LineOf(t)) <= Len(content) =>
              /\ CRLFs(buf) # {}
              /\ LineEnd(FindCRLF(buf)) - buf.readerIndex = Len(LineOf(t))
              /\ TextBefore(buf, FindCRLF(buf)) = t
    BY <1>3, <2>4, <2>6, LineFound, Zenon
  <2>8. NextArrived <=> End(done + 1) <= Len(stream) - Len(wire)
    BY <1>5, Zenon DEF NextArrived
  <2>9. PICK e0 \in Nat, e1 \in Nat, n \in {2, 3} :
          e0 = End(done) /\ e1 = End(done + 1) /\ n = Len(LineOf(t))
    BY <1>1, <2>1, <2>5
  <2>10. NextArrived <=> n <= Len(content)
    <3>1. e1 = e0 + n /\ Len(content) + Len(wire) = Len(stream) - e0
      BY <1>2, <2>3, <2>9, Zenon
    <3>2. e1 <= Len(stream) - Len(wire) <=> n <= Len(content)
      BY <1>1, <3>1
    <3> QED
      BY <2>8, <2>9, <3>2, Zenon
  <2>11. e1 - e0 = n /\ e0 < e1
    <3>1. e1 = e0 + n
      BY <2>3, <2>9, Zenon
    <3> QED
      BY <3>1
  <2>12. CASE NextArrived
    <3>1. n <= Len(content)
      BY <2>10, <2>12
    <3>2. /\ CRLFs(buf) # {}
          /\ LineEnd(FindCRLF(buf)) - buf.readerIndex = n
          /\ TextBefore(buf, FindCRLF(buf)) = t
      BY <2>7, <2>9, <3>1, Zenon
    <3> QED
      BY <2>1, <2>2, <2>3, <2>9, <2>11, <2>12, <3>1, <3>2, Zenon
  <2>13. CASE ~NextArrived
    <3>1. n > Len(content)
      BY <1>1, <2>9, <2>10, <2>13
    <3> QED
      BY <1>1, <2>7, <2>9, <2>13, <3>1
  <2> QED
    BY <2>12, <2>13
<1> QED
  BY <1>1, <1>4, <1>5
-----------------------------------------------------------------------------
(* The steps, as far as the input goes. *)

\* A step without the client leaves the lines.
LEMMA LinesKept ==
  ASSUME UNCHANGED clientVars
  PROVE  /\ \A k : End(k)' = End(k) /\ Said(k)' = Said(k)
         /\ ClientInv => ClientInv'
<1>1. lines' = lines /\ stream' = stream
  BY Zenon DEF clientVars
<1>2. \A k : End(k)' = End(k) /\ Said(k)' = Said(k)
  BY <1>1 DEF End, Said
<1>3. ClientInv => ClientInv'
  BY <1>1, <1>2, ZenonT(60) DEF ClientInv
<1> QED
  BY <1>2, <1>3

\* A sequence of bytes is cut in two.
LEMMA Cut ==
  ASSUME NEW s \in Seq(Bytes), NEW n \in Nat, n <= Len(s)
  PROVE  /\ SubSeq(s, 1, n) \in Seq(Bytes) /\ Len(SubSeq(s, 1, n)) = n
         /\ \A i \in 1..n : SubSeq(s, 1, n)[i] = s[i]
         /\ SubSeq(s, n + 1, Len(s)) \in Seq(Bytes) /\ Len(SubSeq(s, n + 1, Len(s))) = Len(s) - n
         /\ \A i \in 1..Len(SubSeq(s, n + 1, Len(s))) : SubSeq(s, n + 1, Len(s))[i] = s[n + i]
<1>1. Len(s) \in Nat /\ \A i \in 1..Len(s) : s[i] \in Bytes
  BY LenProperties
<1>2. SubSeq(s, 1, n) \in Seq(Bytes) /\ Len(SubSeq(s, 1, n)) = n
  BY <1>1
<1>3. \A i \in 1..n : SubSeq(s, 1, n)[i] = s[i]
  BY <1>1
<1>4. SubSeq(s, n + 1, Len(s)) \in Seq(Bytes) /\ Len(SubSeq(s, n + 1, Len(s))) = Len(s) - n
  BY <1>1
<1>5. \A i \in 1..(Len(s) - n) : SubSeq(s, n + 1, Len(s))[i] = s[n + i]
  BY <1>1
<1> QED
  BY <1>2, <1>3, <1>4, <1>5, Zenon

\* Bytes are added.
LEMMA Joined ==
  ASSUME NEW c \in Seq(Bytes), NEW s \in Seq(Bytes)
  PROVE  /\ c \o s \in Seq(Bytes) /\ Len(c \o s) = Len(c) + Len(s)
         /\ \A i \in 1..Len(c) : (c \o s)[i] = c[i]
         /\ \A i \in 1..Len(s) : (c \o s)[Len(c) + i] = s[i]
<1>1. Len(c) \in Nat /\ Len(s) \in Nat
  BY LenProperties
<1>2. /\ c \o s \in Seq(Bytes) /\ Len(c \o s) = Len(c) + Len(s)
  BY <1>1
<1>3. \A i \in 1..Len(c) : (c \o s)[i] = c[i]
  BY <1>1
<1>4. \A i \in 1..Len(s) : (c \o s)[Len(c) + i] = s[i]
  BY <1>1
<1> QED
  BY <1>2, <1>3, <1>4

\* A line is taken.
LEMMA LineTaken ==
  ASSUME Inv, HttpTypeOK, ClientInv, InputInv, NextArrived, Takes(FindCRLF(buf)),
         UNCHANGED <<wire, clientVars>>
  PROVE  /\ Inv' /\ ClientInv' /\ InputInv'
         /\ done' = done + 1 /\ done' \in 0..Len(lines') /\ content' \in Seq(Bytes)
<1>1. /\ Len(lines) \in Nat /\ Len(stream) \in Nat /\ Len(wire) \in Nat /\ Len(content) \in Nat
      /\ done \in Nat /\ done <= Len(lines)
  BY Histories
<1>13. \A k \in 0..Len(lines) : End(k) \in Nat
  BY Histories
<1>2. /\ LineEnd(FindCRLF(buf)) - buf.readerIndex = End(done + 1) - End(done)
      /\ End(done + 1) - End(done) <= Len(content)
      /\ End(done) < End(done + 1)
      /\ done + 1 \in 1..Len(lines)
  BY NextLine
<1>3. wire' = wire /\ lines' = lines /\ stream' = stream /\ UNCHANGED clientVars
  BY Zenon DEF clientVars
<1>4. PICK e0 \in Nat, e1 \in Nat, n \in Nat : e0 = End(done) /\ e1 = End(done + 1) /\ n = e1 - e0
  <2>1. End(done) \in Nat /\ End(done + 1) \in Nat
    BY <1>1, <1>2, <1>13
  <2>2. End(done + 1) - End(done) \in Nat
    BY <1>2, <2>1
  <2> QED
    BY <2>1, <2>2
<1>5. LineEnd(FindCRLF(buf)) - buf.readerIndex = n /\ n <= Len(content)
  BY <1>2, <1>4, Zenon
<1>6. /\ buf' = Retrieve(buf, n)
      /\ content' = SubSeq(content, n + 1, Len(content))
      /\ done' = done + 1
  BY <1>5, Zenon DEF Takes, RetrieveUntil
<1>7. Inv'
  <2>1. Holds(buf, content)
    BY Zenon DEF Inv
  <2>2. ReadableBytes(buf) = Len(content)
    BY <2>1 DEF Holds, Sound, ReadableBytes
  <2>3. Holds(Retrieve(buf, n), SubSeq(content, n + 1, Len(content)))
    BY <1>5, <2>1, <2>2, RetrieveHolds, Zenon
  <2> QED
    BY <1>6, <2>3, Zenon DEF Inv
<1>8. content \in Seq(Bytes)
  BY DEF HttpTypeOK, TypeOK
<1>9. /\ content' \in Seq(Bytes) /\ Len(content') = Len(content) - n
      /\ \A i \in 1..Len(content') : content'[i] = content[n + i]
  BY <1>5, <1>6, <1>8, Cut, Zenon
<1>10. ClientInv'
  BY <1>3, LinesKept
<1>11. End(done)' = e1
  <2>1. done + 1 # 0 /\ done' = done + 1 /\ done' # 0
    BY <1>1, <1>6
  <2> QED
    BY <1>3, <1>4, <2>1 DEF End
<1>12. InputInv'
  <2>1. /\ Len(content) + Len(wire) = Len(stream) - e0
        /\ \A i \in 1..Len(content) : content[i] = stream[e0 + i]
        /\ \A i \in 1..Len(wire) : wire[i] = stream[(Len(stream) - Len(wire)) + i]
    BY <1>4, Zenon DEF InputInv
  <2>2. Len(content') + Len(wire) = Len(stream) - e1
    <3>1. Len(content') = Len(content) - n /\ Len(content) + Len(wire) = Len(stream) - e0
      BY <1>9, <2>1, Zenon
    <3>2. n = e1 - e0
      BY <1>4
    <3> QED
      BY <1>1, <3>1, <3>2
  <2>3. ASSUME NEW i \in 1..Len(content') PROVE content'[i] = stream[e1 + i]
    <3>1. n + i \in 1..Len(content) /\ e0 + (n + i) = e1 + i
      <4>1. i \in 1..(Len(content) - n)
        BY <1>9, Zenon
      <4>2. n = e1 - e0 /\ n <= Len(content)
        BY <1>4, <1>5
      <4> QED
        BY <1>1, <4>1, <4>2
    <3> QED
      BY <1>9, <2>1, <3>1, Zenon
  <2> QED
    BY <1>3, <1>11, <2>1, <2>2, <2>3, Zenon DEF InputInv
<1> QED
  BY <1>1, <1>2, <1>3, <1>6, <1>7, <1>9, <1>10, <1>12

\* Bytes are read.
LEMMA BytesRead ==
  ASSUME Inv, HttpTypeOK, ClientInv, InputInv, NEW n \in Nat, n <= Len(wire), HandleRead(n)
  PROVE  /\ Inv' /\ ClientInv' /\ InputInv' /\ (NextArrived => NextArrived')
         /\ content' \in Seq(Bytes) /\ wire' \in Seq(Bytes)
<1>1. /\ Len(lines) \in Nat /\ Len(stream) \in Nat /\ Len(wire) \in Nat /\ Len(content) \in Nat
      /\ done \in Nat /\ done <= Len(lines)
  BY Histories
<1>13. \A k \in 0..Len(lines) : End(k) \in Nat
  BY Histories
<1>2. content \in Seq(Bytes) /\ wire \in Seq(Bytes)
  BY DEF HttpTypeOK, TypeOK
<1>3. /\ buf' = ReadFd(buf, SubSeq(wire, 1, n))
      /\ content' = content \o SubSeq(wire, 1, n)
      /\ wire' = SubSeq(wire, n + 1, Len(wire))
      /\ done' = done /\ lines' = lines /\ stream' = stream /\ UNCHANGED clientVars
  BY Zenon DEF HandleRead, clientVars
<1>4. PICK s \in Seq(Bytes) : s = SubSeq(wire, 1, n)
  BY <1>2, Cut, Zenon
<1>5. Len(s) = n /\ \A i \in 1..n : s[i] = wire[i]
  BY <1>2, <1>4, Cut, Zenon
<1>6. Inv'
  <2>1. Holds(buf, content)
    BY Zenon DEF Inv
  <2>2. Holds(ReadFd(buf, s), content \o s)
    BY <2>1, ReadFdHolds
  <2> QED
    BY <1>3, <1>4, <2>2, Zenon DEF Inv
<1>7. /\ content' \in Seq(Bytes) /\ Len(content') = Len(content) + n
      /\ \A i \in 1..Len(content) : content'[i] = content[i]
      /\ \A i \in 1..n : content'[Len(content) + i] = s[i]
  <2>1. content' = content \o s
    BY <1>3, <1>4
  <2> QED
    BY <1>2, <1>5, <2>1, Joined, Zenon
<1>8. /\ wire' \in Seq(Bytes) /\ Len(wire') = Len(wire) - n
      /\ \A i \in 1..Len(wire') : wire'[i] = wire[n + i]
  BY <1>2, <1>3, Cut, Zenon
<1>9. PICK e \in Nat : e = End(done) /\ e = End(done)'
  <2>1. End(done)' = End(done) /\ End(done) \in Nat
    BY <1>1, <1>3, <1>13 DEF End
  <2> QED
    BY <2>1
<1>10. InputInv'
  <2>1. /\ Len(content) + Len(wire) = Len(stream) - e
        /\ \A i \in 1..Len(content) : content[i] = stream[e + i]
        /\ \A i \in 1..Len(wire) : wire[i] = stream[(Len(stream) - Len(wire)) + i]
    BY <1>9, Zenon DEF InputInv
  <2>2. Len(content') + Len(wire') = Len(stream) - e
    <3>1. Len(content') = Len(content) + n /\ Len(wire') = Len(wire) - n
          /\ Len(content) + Len(wire) = Len(stream) - e
      BY <1>7, <1>8, <2>1, Zenon
    <3> QED
      BY <1>1, <3>1
  <2>3. ASSUME NEW i \in 1..Len(content') PROVE content'[i] = stream[e + i]
    <3>1. CASE i <= Len(content)
      <4>1. i \in 1..Len(content)
        BY <1>1, <3>1
      <4> QED
        BY <1>7, <2>1, <4>1
    <3>2. CASE i > Len(content)
      <4>1. PICK j \in 1..n : i = Len(content) + j
        <5>1. i - Len(content) \in 1..n /\ i = Len(content) + (i - Len(content))
          BY <1>1, <1>7, <3>2
        <5> QED
          BY <5>1
      <4>2. j \in 1..Len(wire) /\ (Len(stream) - Len(wire)) + j = e + i
        <5>1. Len(content) + Len(wire) = Len(stream) - e
          BY <2>1, Zenon
        <5> QED
          BY <1>1, <4>1, <5>1
      <4>3. content'[i] = wire[j]
        BY <1>5, <1>7, <4>1
      <4> QED
        BY <2>1, <4>2, <4>3
    <3> QED
      BY <1>1, <1>7, <3>1, <3>2
  <2>4. ASSUME NEW i \in 1..Len(wire') PROVE wire'[i] = stream[(Len(stream) - Len(wire')) + i]
    <3>1. /\ n + i \in 1..Len(wire)
          /\ (Len(stream) - Len(wire)) + (n + i) = (Len(stream) - Len(wire')) + i
      BY <1>1, <1>8
    <3> QED
      BY <1>8, <2>1, <3>1
  <2> QED
    BY <1>3, <1>9, <2>2, <2>3, <2>4, ZenonT(60) DEF InputInv
<1>11. ClientInv'
  BY <1>3, LinesKept
<1>12. NextArrived => NextArrived'
  <2> SUFFICES ASSUME NextArrived PROVE NextArrived'
    OBVIOUS
  <2>1. done < Len(lines) /\ End(done + 1) <= Len(stream) - Len(wire)
    BY DEF NextArrived
  <2>2. End(done + 1)' = End(done + 1) /\ End(done + 1) \in Nat
    BY <1>1, <1>3, <1>13, <2>1 DEF End
  <2>3. End(done + 1) <= Len(stream) - Len(wire')
    BY <1>1, <1>8, <2>1, <2>2
  <2> QED
    BY <1>3, <2>1, <2>2, <2>3 DEF NextArrived
<1> QED
  BY <1>6, <1>7, <1>8, <1>10, <1>11, <1>12

\* The client sends a line.
LEMMA LineSent ==
  ASSUME HttpTypeOK, ClientInv, InputInv, NEW t \in Texts, ClientSends(t)
  PROVE  /\ ClientInv' /\ InputInv' /\ (NextArrived => NextArrived')
         /\ Said(done)' = Said(done) /\ (NextArrived => Said(done + 1)' = Said(done + 1))
         /\ wire' \in Seq(Bytes) /\ stream' \in Seq(Bytes) /\ done' \in 0..Len(lines')
         /\ lines' \in Seq([text : Texts, end : Nat, said : Sayings])
<1> DEFINE L == [text : Texts, end : Nat, said : Sayings]
<1>1. /\ Len(lines) \in Nat /\ Len(stream) \in Nat /\ Len(wire) \in Nat /\ Len(content) \in Nat
      /\ done \in Nat /\ done <= Len(lines)
  BY Histories
<1>2. \A k \in 0..Len(lines) : End(k) \in Nat /\ Said(k) \in Sayings
  BY Histories
<1>3. PICK l \in Seq(Bytes) : l = LineOf(t)
  BY LineType
<1>4. Len(l) \in Nat
  BY LenProperties
<1>5. PICK e \in Nat : e = Len(stream) + Len(l)
  BY <1>1, <1>4
<1>6. PICK r \in Sayings : r = Read(Said(Len(lines)), t, Separated)
  <2>1. Len(lines) \in 0..Len(lines)
    BY <1>1
  <2> QED
    BY <1>2, <2>1, ReadGrows, Zenon
<1>7. lines \in Seq(L) /\ stream \in Seq(Bytes) /\ wire \in Seq(Bytes) /\ content \in Seq(Bytes)
  BY DEF HttpTypeOK, TypeOK
<1>8. /\ lines' = Append(lines, [text |-> t, end |-> e, said |-> r])
      /\ wire' = wire \o l /\ stream' = stream \o l
      /\ content' = content /\ done' = done
  BY <1>3, <1>5, <1>6, Zenon DEF ClientSends, serverVars
<1>9. PICK x \in L : x = [text |-> t, end |-> e, said |-> r]
  BY Zenon
<1>10. x.text = t /\ x.end = e /\ x.said = r
  BY <1>9
<1> HIDE DEF L
<1>11. /\ lines' \in Seq(L) /\ Len(lines') = Len(lines) + 1
       /\ \A k \in 1..Len(lines) : lines'[k] = lines[k]
       /\ lines'[Len(lines) + 1] = x
  <2>1. lines' = Append(lines, x)
    BY <1>8, <1>9
  <2> QED
    BY <1>1, <1>7, <2>1
<1>12. /\ stream' \in Seq(Bytes) /\ Len(stream') = Len(stream) + Len(l)
       /\ \A i \in 1..Len(stream) : stream'[i] = stream[i]
       /\ \A i \in 1..Len(l) : stream'[Len(stream) + i] = l[i]
  BY <1>7, <1>8, Joined, ZenonT(60)
<1>13. /\ wire' \in Seq(Bytes) /\ Len(wire') = Len(wire) + Len(l)
       /\ \A i \in 1..Len(wire) : wire'[i] = wire[i]
       /\ \A i \in 1..Len(l) : wire'[Len(wire) + i] = l[i]
  BY <1>7, <1>8, Joined, ZenonT(60)
<1>14. \A k \in 0..Len(lines) : End(k)' = End(k) /\ Said(k)' = Said(k)
  <2> TAKE k \in 0..Len(lines)
  <2>1. CASE k = 0
    BY <2>1 DEF End, Said
  <2>2. CASE k # 0
    <3>1. k \in 1..Len(lines)
      BY <1>1, <2>2
    <3>2. lines'[k] = lines[k]
      BY <1>11, <3>1
    <3> QED
      BY <2>2, <3>2, Zenon DEF End, Said
  <2> QED
    BY <2>1, <2>2
<1>15. PICK m \in Nat : m = Len(lines) + 1
  BY <1>1
<1>16. End(m)' = e /\ Said(m)' = r /\ lines'[m].text = t
  <2>1. m # 0 /\ lines'[m] = x
    BY <1>1, <1>11, <1>15
  <2> QED
    BY <1>10, <2>1, Zenon DEF End, Said
<1>17. PICK n \in Nat : n = Len(lines)
  BY <1>1
<1>18. n + 1 = m /\ m - 1 = n /\ n \in 0..n
  BY <1>15, <1>17
<1>19. \A k \in 1..n :
         /\ End(k) = End(k - 1) + Len(LineOf(lines[k].text))
         /\ \A i \in 1..Len(LineOf(lines[k].text)) :
              stream[End(k - 1) + i] = LineOf(lines[k].text)[i]
         /\ Said(k) = Read(Said(k - 1), lines[k].text, Separated)
  BY <1>17, Zenon DEF ClientInv
<1>20. End(n) = Len(stream)
  BY <1>17, Zenon DEF ClientInv
<1>21. \A j, k \in 0..n : j <= k =>
         /\ End(j) <= End(k)
         /\ Len(Said(j).requests) <= Len(Said(k).requests)
         /\ Said(j).bad => Said(k) = Said(j)
  BY <1>17, Zenon DEF ClientInv
<1>22. ASSUME NEW k \in 1..Len(lines')
       PROVE  /\ End(k)' = End(k - 1)' + Len(LineOf(lines'[k].text))
              /\ \A i \in 1..Len(LineOf(lines'[k].text)) :
                   stream'[End(k - 1)' + i] = LineOf(lines'[k].text)[i]
              /\ Said(k)' = Read(Said(k - 1)', lines'[k].text, Separated)
  <2>1. CASE k \in 1..n
    <3>1. k \in 0..n /\ k - 1 \in 0..n /\ n \in 0..n /\ k <= n
      BY <2>1
    <3>2. /\ End(k)' = End(k) /\ End(k - 1)' = End(k - 1) /\ lines'[k] = lines[k]
          /\ Said(k)' = Said(k) /\ Said(k - 1)' = Said(k - 1)
      BY <1>11, <1>14, <1>17, <2>1, <3>1, Zenon
    <3>3. PICK a \in Nat, b \in Nat, q \in Nat :
            a = End(k - 1) /\ b = End(k) /\ q = Len(LineOf(lines[k].text))
      <4>1. lines[k].text \in Texts
        BY <1>17, <2>1, Histories
      <4> QED
        BY <1>2, <1>17, <3>1, <4>1, LineType, Zenon
    <3>4. b = a + q /\ b <= Len(stream)
      BY <1>19, <1>20, <1>21, <2>1, <3>1, <3>3, Zenon
    <3>5. \A i \in 1..q : stream'[a + i] = stream[a + i]
      <4> TAKE i \in 1..q
      <4>1. a + i \in 1..Len(stream)
        BY <1>1, <3>4
      <4> QED
        BY <1>12, <4>1, Zenon
    <3> QED
      BY <1>19, <2>1, <3>2, <3>3, <3>5, ZenonT(30)
  <2>2. CASE k = m
    <3>1. End(n)' = Len(stream) /\ Said(n)' = Said(n)
      BY <1>14, <1>17, <1>18, <1>20, Zenon
    <3>2. End(m)' = Len(stream) + Len(l)
      BY <1>5, <1>16
    <3>3. Said(m)' = Read(Said(n), t, Separated)
      BY <1>6, <1>16, <1>17
    <3> QED
      <4>1. /\ End(k)' = Len(stream) + Len(l) /\ Said(k)' = Read(Said(n), t, Separated)
            /\ lines'[k].text = t
        BY <1>16, <2>2, <3>2, <3>3
      <4>2. k - 1 = n
        BY <1>18, <2>2
      <4>3. End(k - 1)' = Len(stream) /\ Said(k - 1)' = Said(n)
        BY <3>1, <4>2, Zenon
      <4>4. \A i \in 1..Len(LineOf(t)) : stream'[Len(stream) + i] = LineOf(t)[i]
        BY <1>3, <1>12, Zenon
      <4> QED
        BY <1>3, <4>1, <4>3, <4>4, Zenon
  <2>3. k \in 1..n \/ k = m
    <3>1. k \in 1..(n + 1)
      BY <1>11, <1>17, Zenon
    <3> QED
      BY <1>18, <3>1
  <2> QED
    BY <2>1, <2>2, <2>3, Zenon
<1>23. End(Len(lines))' = Len(stream')
  <2>1. Len(lines') = m /\ Len(stream') = e
    BY <1>5, <1>11, <1>12, <1>15
  <2>2. End(Len(lines))' = End(m)'
    BY <2>1 DEF End
  <2> QED
    BY <1>16, <2>1, <2>2
<1>24. ASSUME NEW j \in 0..Len(lines'), NEW k \in 0..Len(lines'), j <= k
       PROVE  /\ End(j)' <= End(k)'
              /\ Len(Said(j)'.requests) <= Len(Said(k)'.requests)
              /\ Said(j)'.bad => Said(k)' = Said(j)'
  <2>1. (k \in 0..n \/ k = m) /\ (j \in 0..n \/ (j = m /\ k = m))
    <3>1. j \in 0..(n + 1) /\ k \in 0..(n + 1)
      BY <1>11, <1>17, Zenon
    <3> QED
      BY <1>18, <1>24, <3>1
  <2>2. CASE k \in 0..n /\ j \in 0..n
    <3>1. End(j)' = End(j) /\ Said(j)' = Said(j) /\ End(k)' = End(k) /\ Said(k)' = Said(k)
      BY <1>14, <1>17, <2>2, Zenon
    <3> QED
      BY <1>21, <1>24, <2>2, <3>1, Zenon
  <2>3. CASE k = m /\ j \in 0..n
    <3>1. End(j)' = End(j) /\ Said(j)' = Said(j) /\ End(k)' = e /\ Said(k)' = r
      BY <1>14, <1>16, <1>17, <2>3, Zenon
    <3>2. j <= n /\ n \in 0..n
      BY <2>3
    <3>3. /\ End(j) <= End(n) /\ Len(Said(j).requests) <= Len(Said(n).requests)
          /\ Said(j).bad => Said(n) = Said(j)
      BY <1>21, <2>3, <3>2, Zenon
    <3>4. End(j) \in Nat /\ Said(j) \in Sayings /\ Said(n) \in Sayings
      BY <1>2, <1>17, <2>3, <3>2, Zenon
    <3>5. End(j) <= e
      BY <1>1, <1>4, <1>5, <1>20, <3>3, <3>4
    <3>6. r = Read(Said(n), t, Separated)
      BY <1>6, <1>17
    <3>7. Len(Said(n).requests) <= Len(r.requests)
      BY <3>4, <3>6, ReadGrows, Zenon
    <3>8. Len(Said(j).requests) <= Len(r.requests)
      <4>1. PICK u \in Nat, v \in Nat, w \in Nat :
              u = Len(Said(j).requests) /\ v = Len(Said(n).requests) /\ w = Len(r.requests)
        BY <3>4, SayingParts, LenProperties, Zenon
      <4> QED
        BY <3>3, <3>7, <4>1
    <3>9. Said(j).bad => r = Said(j)
      BY <3>3, <3>4, <3>6, ReadBad, Zenon
    <3> QED
      BY <3>1, <3>5, <3>8, <3>9, Zenon
  <2>4. CASE k = m /\ j = m
    <3>1. Len(r.requests) \in Nat
      BY SayingParts, LenProperties, Zenon
    <3>2. e <= e /\ Len(r.requests) <= Len(r.requests)
      BY <3>1
    <3> QED
      BY <1>16, <2>4, <3>2, Zenon
  <2> QED
    BY <2>1, <2>2, <2>3, <2>4, Zenon
<1>25. ClientInv'
  BY <1>22, <1>23, <1>24, Zenon DEF ClientInv
<1>26. End(done)' = End(done) /\ Said(done)' = Said(done) /\ End(done) \in Nat
  <2>1. done \in 0..Len(lines)
    BY <1>1
  <2>2. PICK d \in 0..Len(lines) : d = done /\ d = done'
    BY <1>8, <2>1
  <2>3. End(d)' = End(d) /\ Said(d)' = Said(d) /\ End(d) \in Nat
    BY <1>2, <1>14
  <2> QED
    BY <2>2, <2>3, Zenon DEF End, Said
<1>27. PICK f \in Nat : f = End(done) /\ f = End(done)'
  BY <1>26
<1>28. InputInv'
  <2>1. /\ \A i \in 1..Len(content) : content[i] = stream[f + i]
        /\ \A i \in 1..Len(wire) : wire[i] = stream[(Len(stream) - Len(wire)) + i]
    BY <1>27, Zenon DEF InputInv
  <2>2. Len(content) + Len(wire) = Len(stream) - f
    BY <1>27, Zenon DEF InputInv
  <2>3. /\ Len(stream') = Len(stream) + Len(l) /\ Len(wire') = Len(wire) + Len(l)
        /\ content' = content
    BY <1>8, <1>12, <1>13, Zenon
  <2>4. Len(content') + Len(wire') = Len(stream') - f
    BY <1>1, <1>4, <2>2, <2>3
  <2>5. ASSUME NEW i \in 1..Len(content') PROVE content'[i] = stream'[f + i]
    <3>1. i \in 1..Len(content)
      BY <2>3
    <3>2. f + i \in 1..Len(stream)
      BY <1>1, <2>2, <3>1
    <3> QED
      BY <1>12, <2>1, <2>3, <3>1, <3>2, ZenonT(60)
  <2>6. ASSUME NEW i \in 1..Len(wire') PROVE wire'[i] = stream'[(Len(stream') - Len(wire')) + i]
    <3>1. PICK w \in Nat, s \in Nat, q \in Nat :
            w = Len(wire) /\ s = Len(stream) /\ q = Len(l)
      BY <1>1, <1>4
    <3>2. w <= s /\ Len(stream') = s + q /\ Len(wire') = w + q
      BY <1>1, <2>2, <2>3, <3>1
    <3>3. (Len(stream') - Len(wire')) + i = (s - w) + i
      BY <3>1, <3>2
    <3>4. CASE i <= w
      <4>1. i \in 1..w /\ (s - w) + i \in 1..s
        BY <3>2, <3>4
      <4>2. wire'[i] = wire[i] /\ stream'[(s - w) + i] = stream[(s - w) + i]
        BY <1>12, <1>13, <3>1, <4>1, Zenon
      <4>3. wire[i] = stream[(s - w) + i]
        BY <2>1, <3>1, <4>1, Zenon
      <4> QED
        BY <3>3, <4>2, <4>3
    <3>5. CASE i > w
      <4>1. PICK a \in 1..q : i = w + a
        <5>1. i - w \in 1..q /\ i = w + (i - w)
          BY <3>2, <3>5
        <5> QED
          BY <5>1
      <4>2. (s - w) + i = s + a
        BY <4>1
      <4>3. wire'[w + a] = l[a] /\ stream'[s + a] = l[a]
        BY <1>12, <1>13, <3>1, Zenon
      <4> QED
        BY <3>3, <4>1, <4>2, <4>3
    <3> QED
      BY <3>1, <3>2, <3>4, <3>5
  <2> QED
    BY <1>27, <2>4, <2>5, <2>6, Zenon DEF InputInv
<1>29. ASSUME NextArrived PROVE NextArrived' /\ Said(done + 1)' = Said(done + 1)
  <2>1. done < Len(lines) /\ End(done + 1) <= Len(stream) - Len(wire)
    BY <1>29 DEF NextArrived
  <2>2. PICK d \in 0..Len(lines) : d = done + 1 /\ d = done' + 1
    BY <1>1, <1>8, <2>1
  <2>3. End(d)' = End(d) /\ Said(d)' = Said(d)
    BY <1>14
  <2>4. End(done + 1)' = End(done + 1) /\ Said(done + 1)' = Said(done + 1)
    BY <2>2, <2>3, Zenon DEF End, Said
  <2>5. Len(stream') - Len(wire') = Len(stream) - Len(wire)
    <3>1. Len(stream') = Len(stream) + Len(l) /\ Len(wire') = Len(wire) + Len(l)
      BY <1>12, <1>13
    <3> QED
      BY <1>1, <1>4, <3>1
  <2>6. done' < Len(lines')
    <3>1. Len(lines') = Len(lines) + 1 /\ done' = done
      BY <1>8, <1>11
    <3> QED
      BY <1>1, <2>1, <3>1
  <2> QED
    BY <2>1, <2>4, <2>5, <2>6, Zenon DEF NextArrived
<1>30. done' \in 0..Len(lines')
  <2>1. Len(lines') = Len(lines) + 1 /\ done' = done
    BY <1>8, <1>11
  <2> QED
    BY <1>1, <2>1
<1> QED
  BY <1>11, <1>12, <1>13, <1>25, <1>26, <1>28, <1>29, <1>30, Zenon DEF L
-----------------------------------------------------------------------------
(* The context and the connection. *)

\* The parts of a context.
LEMMA ContextParts ==
  ASSUME NEW c \in Contexts
  PROVE  /\ c.state \in {"ExpectRequestLine", "ExpectHeaders", "GotAll"} /\ c.method \in BOOLEAN
         /\ c.version \in Versions /\ c.query \in BOOLEAN
         /\ c.connection \in {"", "close", "Keep-Alive"}
BY Zenon DEF Contexts

\* A line that begins a request.
LEMMA LineProcessed ==
  ASSUME NEW c \in Contexts, NEW t, Version(t) # "Unknown", NEW d,
         d = BeginRequest(c, t)
  PROVE  Began(c, t, d)
<1>1. t = "http11" \/ t = "http10"
  BY DEF Version
<1>2. HasSpace(t) /\ Method(t) = TRUE
  BY <1>1 DEF HasSpace, Method
<1>3. PICK q \in BOOLEAN : q = (c.query \/ t = "http10")
  BY Zenon
<1>4. PICK v \in Versions : v = Version(t)
  BY TextParts
<1>5. PICK e : e = ProcessRequestLine(c, t)
  OBVIOUS
<1>6. e = [c EXCEPT !.method = TRUE, !.query = q, !.version = v]
  BY <1>2, <1>3, <1>4, <1>5, Zenon DEF ProcessRequestLine
<1>7. /\ e \in Contexts /\ e.state = c.state /\ e.method = TRUE /\ e.version = v /\ e.query = q
      /\ e.connection = c.connection
  BY <1>6, Zenon DEF Contexts
<1>8. d = [e EXCEPT !.state = "ExpectHeaders"]
  BY <1>5 DEF BeginRequest
<1>9. /\ d \in Contexts /\ d.state = "ExpectHeaders" /\ d.method = e.method
      /\ d.version = e.version /\ d.query = e.query /\ d.connection = e.connection
  <2>1. e \in Contexts
    BY <1>7
  <2> QED
    BY <1>8, <2>1, Zenon DEF Contexts
<1> QED
  BY <1>3, <1>4, <1>7, <1>9, Zenon DEF Began

\* A line that does not: it may leave a method, and nothing else.
LEMMA LineRefused ==
  ASSUME NEW c \in Contexts, NEW t, Version(t) = "Unknown", NEW d, d = ProcessRequestLine(c, t)
  PROVE  /\ d \in Contexts /\ d.state = c.state /\ d.version = c.version /\ d.query = c.query
         /\ d.connection = c.connection
<1>1. c.query \in BOOLEAN /\ c.version \in Versions
  BY ContextParts, Zenon
<1>2. CASE ~HasSpace(t)
  <2>1. d = c
    BY <1>2, Zenon DEF ProcessRequestLine
  <2> QED
    BY <2>1, Zenon
<1>3. CASE HasSpace(t)
  <2>1. t # "http10"
    BY DEF Version
  <2>2. PICK m \in BOOLEAN : m = Method(t)
    <3>1. Method(t) \in BOOLEAN
      BY DEF Method
    <3> QED
      BY <3>1, Zenon
  <2>3. PICK q \in BOOLEAN : q = c.query /\ q = (c.query \/ t = "http10")
    BY <1>1, <2>1, Zenon
  <2>4. d = [c EXCEPT !.method = m, !.query = q, !.version = c.version]
    BY <1>3, <2>2, <2>3, Zenon DEF ProcessRequestLine
  <2>5. PICK v \in Versions : v = c.version
    BY <1>1
  <2>6. d = [c EXCEPT !.method = m, !.query = q, !.version = v]
    BY <2>4, <2>5, Zenon
  <2>7. /\ d \in Contexts /\ d.state = c.state /\ d.version = v /\ d.query = q
        /\ d.connection = c.connection
    BY <2>6, Zenon DEF Contexts
  <2> QED
    BY <2>3, <2>5, <2>7, Zenon
<1> QED
  BY <1>2, <1>3, Zenon

\* Only query_ survives the reset.
LEMMA ContextReset ==
  ASSUME NEW c \in Contexts, NEW d, d = Reset(c)
  PROVE  /\ d \in Contexts /\ d.state = "ExpectRequestLine" /\ d.method = FALSE
         /\ d.query = c.query /\ d.connection = ""
<1>1. PICK e \in Contexts : e = EmptyContext
  BY ZenonT(60) DEF EmptyContext, Contexts, Versions
<1>2. e.state = "ExpectRequestLine" /\ e.method = FALSE /\ e.connection = ""
  BY <1>1, Zenon DEF EmptyContext
<1>3. PICK q \in BOOLEAN : q = c.query
  BY ContextParts, Zenon
<1>4. d = [e EXCEPT !.query = q]
  BY <1>1, <1>3 DEF Reset
<1>5. /\ d \in Contexts /\ d.state = e.state /\ d.method = e.method /\ d.query = q
      /\ d.connection = e.connection
  BY <1>4, Zenon DEF Contexts
<1> QED
  BY <1>2, <1>3, <1>5, Zenon

\* A step that leaves the context, the answers and what was said.
LEMMA ContextKept ==
  ASSUME ContextInv, RefusalInv, AnswerInv, UNCHANGED <<ctx, connected, calls, out, fault>>,
         Said(done)' = Said(done), BadNext => BadNext'
  PROVE  ContextInv' /\ RefusalInv' /\ AnswerInv'
<1>1. ctx' = ctx /\ connected' = connected /\ calls' = calls /\ out' = out /\ fault' = fault
  OBVIOUS
<1>2. ContextInv'
  BY <1>1, Zenon DEF ContextInv
<1>3. RefusalInv'
  BY <1>1, SMT DEF RefusalInv
<1>4. AnswerInv'
  BY <1>1, SMT DEF AnswerInv
<1> QED
  BY <1>2, <1>3, <1>4

\* The connection is established.
LEMMA HttpInitHolds == HttpInit => HttpInv
<1> SUFFICES ASSUME HttpInit PROVE HttpInv
  OBVIOUS
<1>1. /\ Init /\ ctx = EmptyContext /\ hasMore = FALSE /\ connected = TRUE /\ fault = FALSE
      /\ calls = <<>> /\ out = <<>> /\ done = 0 /\ wire = <<>> /\ lines = <<>> /\ stream = <<>>
  BY Zenon DEF HttpInit
<1>2. Inv
  BY <1>1, InitHolds
<1>3. content = <<>>
  BY <1>1, Zenon DEF Init
<1>4. Len(lines) = 0 /\ Len(stream) = 0 /\ Len(wire) = 0 /\ Len(content) = 0 /\ Len(out) = 0
      /\ Len(calls) = 0
  BY <1>1, <1>3
<1>5. EmptyContext \in Contexts /\ EmptyContext.state # "GotAll"
  BY DEF EmptyContext, Contexts, Versions
<1>6. HttpTypeOK
  <2>1. TypeOK
    BY <1>2 DEF Inv, Holds, Sound, TypeOK
  <2>2. done \in 0..Len(lines)
    BY <1>1, <1>4
  <2>3. /\ calls \in Seq(Requests) /\ out \in Seq([status : {"answer", "400"}, close : BOOLEAN])
        /\ wire \in Seq(Bytes) /\ stream \in Seq(Bytes)
        /\ lines \in Seq([text : Texts, end : Nat, said : Sayings])
    BY <1>1, EmptySeq, Zenon
  <2>4. hasMore \in BOOLEAN /\ connected \in BOOLEAN /\ fault \in BOOLEAN
    BY <1>1, Zenon
  <2> QED
    BY <1>1, <1>5, <2>1, <2>2, <2>3, <2>4, Zenon DEF HttpTypeOK
<1>7. End(0) = 0 /\ Said(0) = Silence
  BY DEF End, Said
<1>8. ClientInv
  <2>1. \A k \in 1..Len(lines) : FALSE
    BY <1>4
  <2>2. \A k \in 0..Len(lines) : k = 0
    BY <1>4
  <2>3. Len(Silence.requests) <= Len(Silence.requests)
    BY DEF Silence
  <2>4. End(Len(lines)) = Len(stream)
    BY <1>4, <1>7
  <2>5. \A j, k \in 0..Len(lines) : j <= k =>
          /\ End(j) <= End(k)
          /\ Len(Said(j).requests) <= Len(Said(k).requests)
          /\ Said(j).bad => Said(k) = Said(j)
    <3>1. 0 <= 0
      OBVIOUS
    <3> QED
      BY <1>7, <2>2, <2>3, <3>1, Zenon
  <2> QED
    BY <2>1, <2>4, <2>5, Zenon DEF ClientInv
<1>9. InputInv
  BY <1>1, <1>4, <1>7 DEF InputInv
<1>10. /\ ~Silence.bad /\ Silence.requests = <<>> /\ ~Silence.open /\ Silence.request.query = FALSE
       /\ ctx.state = "ExpectRequestLine" /\ ctx.query = FALSE /\ ctx.connection = ""
       /\ ctx.method = FALSE
  BY <1>1, Zenon DEF Silence, EmptyContext
<1>11. Said(done) = Silence
  BY <1>1, <1>7
<1>12. ContextInv
  BY <1>1, <1>10, <1>11, Zenon DEF ContextInv
<1>13. RefusalInv
  BY <1>1, <1>10, Zenon DEF RefusalInv
<1>14. AnswerInv
  <2>1. (\A i \in DOMAIN out : FALSE) /\ (\A i \in 1..(Len(out) - 1) : FALSE)
        /\ Len(out) = Len(calls)
    BY <1>1, <1>4
  <2> QED
    BY <2>1, Zenon DEF AnswerInv
<1> QED
  BY <1>2, <1>6, <1>8, <1>9, <1>12, <1>13, <1>14, Zenon DEF HttpInv
-----------------------------------------------------------------------------
(* The invariant *)

\* The types after a step that leaves the client alone.
LEMMA TypesKept ==
  ASSUME HttpTypeOK, UNCHANGED <<wire, clientVars>>, Inv', done' \in 0..Len(lines'),
         ctx' \in Contexts, ctx'.state # "GotAll", hasMore' \in BOOLEAN, connected' \in BOOLEAN,
         fault' \in BOOLEAN, calls' \in Seq(Requests),
         out' \in Seq([status : {"answer", "400"}, close : BOOLEAN])
  PROVE  HttpTypeOK'
<1>1. TypeOK'
  BY DEF Inv, Holds, Sound, TypeOK
<1>2. wire' = wire /\ lines' = lines /\ stream' = stream
  BY Zenon DEF clientVars
<1>3. /\ wire \in Seq(Bytes) /\ stream \in Seq(Bytes)
      /\ lines \in Seq([text : Texts, end : Nat, said : Sayings])
  BY Zenon DEF HttpTypeOK
<1> QED
  BY <1>1, <1>2, <1>3, Zenon DEF HttpTypeOK

\* Reading keeps the invariant.
LEMMA ReadStep ==
  ASSUME HttpInv, NEW n \in Nat, n <= Len(wire), HandleRead(n)
  PROVE  HttpInv'
<1>1. Inv /\ HttpTypeOK /\ ClientInv /\ InputInv /\ ContextInv /\ RefusalInv /\ AnswerInv
  BY Zenon DEF HttpInv
<1>2. /\ hasMore' = TRUE /\ ctx' = ctx /\ connected' = connected /\ calls' = calls /\ out' = out
      /\ fault' = fault /\ done' = done /\ lines' = lines /\ stream' = stream
      /\ UNCHANGED clientVars
  BY Zenon DEF HandleRead, clientVars
<1>3. /\ Inv' /\ ClientInv' /\ InputInv' /\ (NextArrived => NextArrived')
      /\ content' \in Seq(Bytes) /\ wire' \in Seq(Bytes)
  BY <1>1, BytesRead
<1>4. HttpTypeOK'
  <2>1. TypeOK'
    BY <1>3 DEF Inv, Holds, Sound, TypeOK
  <2>2. /\ ctx \in Contexts /\ ctx.state # "GotAll" /\ connected \in BOOLEAN /\ fault \in BOOLEAN
        /\ calls \in Seq(Requests) /\ out \in Seq([status : {"answer", "400"}, close : BOOLEAN])
        /\ stream \in Seq(Bytes) /\ lines \in Seq([text : Texts, end : Nat, said : Sayings])
        /\ done \in 0..Len(lines)
    BY <1>1, Zenon DEF HttpTypeOK
  <2>3. hasMore' \in BOOLEAN
    BY <1>2
  <2> QED
    BY <1>2, <1>3, <2>1, <2>2, <2>3, Zenon DEF HttpTypeOK
<1>5. Said(done)' = Said(done) /\ Said(done + 1)' = Said(done + 1)
  BY <1>2, Zenon DEF Said
<1>6. BadNext => BadNext'
  BY <1>3, <1>5, Zenon DEF BadNext
<1>7. ContextInv' /\ RefusalInv' /\ AnswerInv'
  BY <1>1, <1>2, <1>5, <1>6, ContextKept
<1> QED
  BY <1>3, <1>4, <1>7, Zenon DEF HttpInv

\* Sending keeps the invariant.
LEMMA SendStep ==
  ASSUME HttpInv, NEW t \in Texts, ClientSends(t)
  PROVE  HttpInv'
<1>1. Inv /\ HttpTypeOK /\ ClientInv /\ InputInv /\ ContextInv /\ RefusalInv /\ AnswerInv
  BY Zenon DEF HttpInv
<1>2. /\ hasMore' = hasMore /\ ctx' = ctx /\ connected' = connected /\ calls' = calls
      /\ out' = out /\ fault' = fault /\ done' = done /\ buf' = buf /\ content' = content
  BY Zenon DEF ClientSends, serverVars
<1>3. /\ ClientInv' /\ InputInv' /\ (NextArrived => NextArrived')
      /\ Said(done)' = Said(done) /\ (NextArrived => Said(done + 1)' = Said(done + 1))
      /\ wire' \in Seq(Bytes) /\ stream' \in Seq(Bytes) /\ done' \in 0..Len(lines')
      /\ lines' \in Seq([text : Texts, end : Nat, said : Sayings])
  BY <1>1, LineSent, Zenon
<1>4. Inv'
  BY <1>1, <1>2, Zenon DEF Inv
<1>5. HttpTypeOK'
  <2>1. TypeOK'
    BY <1>4 DEF Inv, Holds, Sound, TypeOK
  <2>2. /\ ctx \in Contexts /\ ctx.state # "GotAll" /\ connected \in BOOLEAN /\ fault \in BOOLEAN
        /\ calls \in Seq(Requests) /\ out \in Seq([status : {"answer", "400"}, close : BOOLEAN])
        /\ hasMore \in BOOLEAN
    BY <1>1, Zenon DEF HttpTypeOK
  <2> QED
    BY <1>2, <1>3, <2>1, <2>2, Zenon DEF HttpTypeOK
<1>6. BadNext => BadNext'
  BY <1>3, Zenon DEF BadNext
<1>7. ContextInv' /\ RefusalInv' /\ AnswerInv'
  BY <1>1, <1>2, <1>3, <1>6, ContextKept
<1> QED
  BY <1>3, <1>4, <1>5, <1>7, Zenon DEF HttpInv

\* What a step that takes no line leaves.
LEMMA InputKept ==
  ASSUME HttpInv, UNCHANGED <<buf, content, done, wire, clientVars>>
  PROVE  /\ Inv' /\ ClientInv' /\ InputInv' /\ done' \in 0..Len(lines')
         /\ Said(done)' = Said(done) /\ (BadNext => BadNext')
<1>1. Inv /\ HttpTypeOK /\ ClientInv /\ InputInv
  BY Zenon DEF HttpInv
<1>2. buf' = buf /\ content' = content /\ done' = done /\ wire' = wire /\ lines' = lines
      /\ stream' = stream /\ UNCHANGED clientVars
  BY Zenon DEF clientVars
<1>3. Inv' /\ ClientInv'
  BY <1>1, <1>2, LinesKept, Zenon DEF Inv
<1>4. InputInv'
  BY <1>1, <1>2, Zenon DEF InputInv, End
<1>5. done' \in 0..Len(lines')
  BY <1>1, <1>2, Zenon DEF HttpTypeOK
<1>6. Said(done)' = Said(done)
  BY <1>2, Zenon DEF Said
<1>7. BadNext => BadNext'
  BY <1>2, Zenon DEF BadNext, NextArrived, Said, End
<1> QED
  BY <1>3, <1>4, <1>5, <1>6, <1>7

\* A round without a line keeps the invariant.
LEMMA NoLineStep ==
  ASSUME HttpInv, ~fault, NoLine, UNCHANGED <<wire, clientVars>>
  PROVE  HttpInv' /\ calls' = calls
<1>1. Inv /\ HttpTypeOK /\ ClientInv /\ InputInv /\ ContextInv /\ RefusalInv /\ AnswerInv
  BY Zenon DEF HttpInv
<1>2. ctx.state # "GotAll"
  BY <1>1, Zenon DEF HttpTypeOK
<1>3. /\ hasMore' = FALSE /\ ctx' = ctx /\ connected' = connected /\ calls' = calls /\ out' = out
      /\ fault' = fault /\ done' = done /\ buf' = buf /\ content' = content
  BY <1>2, Zenon DEF NoLine, Returns, OnMessage
<1>4. /\ Inv' /\ ClientInv' /\ InputInv' /\ done' \in 0..Len(lines')
      /\ Said(done)' = Said(done) /\ (BadNext => BadNext')
  BY <1>3, InputKept
<1>5. HttpTypeOK'
  <2>1. /\ ctx' \in Contexts /\ ctx'.state # "GotAll" /\ connected' \in BOOLEAN
        /\ fault' \in BOOLEAN /\ calls' \in Seq(Requests)
        /\ out' \in Seq([status : {"answer", "400"}, close : BOOLEAN])
    BY <1>1, <1>3, Zenon DEF HttpTypeOK
  <2>2. hasMore' \in BOOLEAN
    BY <1>3, Zenon
  <2> QED
    BY <1>1, <1>4, <2>1, <2>2, TypesKept
<1>6. ContextInv' /\ RefusalInv' /\ AnswerInv'
  BY <1>1, <1>3, <1>4, ContextKept
<1> QED
  BY <1>3, <1>4, <1>5, <1>6, Zenon DEF HttpInv

\* The assert that fails keeps the invariant: the line is a bad one.
LEMMA FailsStep ==
  ASSUME HttpInv, ~fault, ctx.state = "ExpectRequestLine", NEW t, RequestLineFails(t),
         UNCHANGED <<wire, clientVars>>
  PROVE  HttpInv' /\ hasMore' = hasMore
<1>1. Inv /\ HttpTypeOK /\ ClientInv /\ InputInv /\ ContextInv /\ RefusalInv /\ AnswerInv
  BY Zenon DEF HttpInv
<1>2. /\ hasMore' = hasMore /\ ctx' = ctx /\ connected' = connected /\ calls' = calls
      /\ out' = out /\ fault' = TRUE /\ done' = done /\ buf' = buf /\ content' = content
      /\ ctx.method
  BY Zenon DEF RequestLineFails
<1>3. /\ Inv' /\ ClientInv' /\ InputInv' /\ done' \in 0..Len(lines')
      /\ Said(done)' = Said(done) /\ (BadNext => BadNext')
  BY <1>2, InputKept
<1>4. HttpTypeOK'
  <2>1. /\ ctx' \in Contexts /\ ctx'.state # "GotAll" /\ connected' \in BOOLEAN
        /\ hasMore' \in BOOLEAN /\ calls' \in Seq(Requests)
        /\ out' \in Seq([status : {"answer", "400"}, close : BOOLEAN])
    BY <1>1, <1>2, Zenon DEF HttpTypeOK
  <2>2. fault' \in BOOLEAN
    BY <1>2
  <2> QED
    BY <1>1, <1>3, <2>1, <2>2, TypesKept
<1>5. ~Said(done).open
  <2>1. ctx.state = IF Said(done).open THEN "ExpectHeaders" ELSE "ExpectRequestLine"
    BY <1>1, Zenon DEF ContextInv
  <2>2. "ExpectHeaders" # "ExpectRequestLine"
    OBVIOUS
  <2> QED
    BY <2>1, <2>2
<1>6. BadNext /\ ~connected
  BY <1>1, <1>2, <1>5, Zenon DEF RefusalInv
<1>7. ContextInv'
  BY <1>1, <1>2, <1>3, Zenon DEF ContextInv
<1>8. RefusalInv'
  BY <1>2, <1>3, <1>6, SMT DEF RefusalInv
<1>9. AnswerInv'
  BY <1>1, <1>2, <1>3, SMT DEF AnswerInv
<1> QED
  BY <1>2, <1>3, <1>4, <1>7, <1>8, <1>9, Zenon DEF HttpInv

\* What the state of the context tells of the lines taken.
LEMMA OpenByState ==
  ASSUME HttpInv
  PROVE  /\ ctx.state = "ExpectRequestLine" => ~Said(done).open
         /\ ctx.state = "ExpectHeaders" => Said(done).open
         /\ ~Said(done).bad /\ Said(done) \in Sayings
<1>1. ~Said(done).bad
      /\ ctx.state = IF Said(done).open THEN "ExpectHeaders" ELSE "ExpectRequestLine"
  BY Zenon DEF HttpInv, ContextInv
<1>2. "ExpectHeaders" # "ExpectRequestLine"
  OBVIOUS
<1>3. Said(done) \in Sayings
  <2>1. HttpTypeOK
    BY Zenon DEF HttpInv
  <2>2. Len(lines) \in Nat /\ done \in Nat /\ done <= Len(lines)
    BY <2>1, Histories
  <2>3. done \in 0..Len(lines)
    BY <2>2
  <2> QED
    BY <2>1, <2>3, Histories
<1> QED
  BY <1>1, <1>2, <1>3

\* A refusal keeps the invariant: the line stays in the buffer.
LEMMA RefusedStep ==
  ASSUME HttpInv, ~fault, NextArrived, ctx.state = "ExpectRequestLine",
         Version(NextText) = "Unknown", UNCHANGED <<buf, content, done>>,
         Returns(FALSE, ProcessRequestLine(ctx, NextText)), UNCHANGED <<wire, clientVars>>
  PROVE  HttpInv' /\ calls' = calls /\ BadNext
<1>1. Inv /\ HttpTypeOK /\ ClientInv /\ InputInv /\ ContextInv /\ RefusalInv /\ AnswerInv
  BY Zenon DEF HttpInv
<1>2. /\ ctx \in Contexts /\ connected \in BOOLEAN /\ calls \in Seq(Requests)
      /\ out \in Seq([status : {"answer", "400"}, close : BOOLEAN])
  BY <1>1, Zenon DEF HttpTypeOK
<1>3. PICK d : d = ProcessRequestLine(ctx, NextText)
  OBVIOUS
<1>4. /\ d \in Contexts /\ d.state = ctx.state /\ d.version = ctx.version
      /\ d.query = ctx.query /\ d.connection = ctx.connection
  BY <1>2, <1>3, LineRefused
<1>5. d.state # "GotAll"
  BY <1>4
<1>6. /\ hasMore' = FALSE /\ fault' = fault /\ ctx' = d /\ connected' = FALSE /\ calls' = calls
      /\ out' = IF connected THEN Append(out, [status |-> "400", close |-> TRUE]) ELSE out
  <2>1. Returns(FALSE, d)
    BY <1>3, ZenonT(60)
  <2> QED
    BY <1>5, <2>1, Zenon DEF Returns, OnMessage, OnBadRequest, Send
<1>7. /\ Inv' /\ ClientInv' /\ InputInv' /\ done' \in 0..Len(lines')
      /\ Said(done)' = Said(done) /\ (BadNext => BadNext')
  BY InputKept
<1>8. BadNext
  <2>1. Said(done + 1) = Read(Said(done), NextText, Separated)
    BY <1>1, NextLine
  <2>2. Said(done) \in Sayings /\ ~Said(done).bad /\ ~Said(done).open
    BY OpenByState
  <2>3. Said(done + 1) =
          [requests |-> Said(done).requests, bad |-> TRUE, open |-> FALSE,
           request |-> Said(done).request]
    BY <2>1, <2>2, ReadRefused, ZenonT(60)
  <2>4. Said(done + 1).bad
    BY <2>3
  <2> QED
    BY <2>4, Zenon DEF BadNext
<1>9. PICK o \in [status : {"answer", "400"}, close : BOOLEAN] :
        o = [status |-> "400", close |-> TRUE]
  BY ZenonT(60)
<1>10. out' \in Seq([status : {"answer", "400"}, close : BOOLEAN])
  BY <1>2, <1>6, <1>9, AppendProperties, Zenon
<1>11. HttpTypeOK'
  <2>1. hasMore' \in BOOLEAN /\ connected' \in BOOLEAN /\ fault' \in BOOLEAN
    BY <1>1, <1>6, ZenonT(60) DEF HttpTypeOK
  <2>2. ctx' \in Contexts /\ ctx'.state # "GotAll" /\ calls' \in Seq(Requests)
    BY <1>2, <1>4, <1>5, <1>6, Zenon
  <2> QED
    BY <1>1, <1>7, <1>10, <2>1, <2>2, TypesKept
<1>12. ContextInv'
  BY <1>1, <1>4, <1>6, <1>7, Zenon DEF ContextInv
<1>13. RefusalInv'
  BY <1>6, <1>7, <1>8, SMT DEF RefusalInv
<1>14. AnswerInv'
  <2>1. BadNext' /\ ~connected'
    BY <1>6, <1>7, <1>8
  <2>2. \A i \in 1..(Len(out') - 1) : ~out'[i].close
    <3>1. CASE connected
      <4>1. out' = Append(out, o)
        BY <1>6, <1>9, <3>1
      <4>2. \A i \in DOMAIN out : ~out[i].close
        BY <1>1, <3>1, Zenon DEF AnswerInv
      <4>3. /\ Len(out) \in Nat /\ DOMAIN out = 1..Len(out) /\ Len(out') = Len(out) + 1
            /\ \A i \in 1..Len(out) : out'[i] = out[i]
        BY <1>2, <4>1
      <4>4. Len(out') - 1 = Len(out)
        BY <4>3
      <4> QED
        BY <4>2, <4>3, <4>4, Zenon
    <3>2. CASE ~connected
      BY <1>1, <1>6, <3>2, Zenon DEF AnswerInv
    <3> QED
      BY <3>1, <3>2
  <2> QED
    BY <2>1, <2>2, SMTT(60) DEF AnswerInv
<1> QED
  BY <1>6, <1>7, <1>8, <1>11, <1>12, <1>13, <1>14, Zenon DEF HttpInv

\* A line that is taken is not bad: nothing was refused.
LEMMA TakenIsGood ==
  ASSUME HttpInv, NextArrived, Takes(FindCRLF(buf)), UNCHANGED <<wire, clientVars>>,
         ~Said(done + 1).bad
  PROVE  /\ Inv' /\ ClientInv' /\ InputInv' /\ done' \in 0..Len(lines')
         /\ Said(done)' = Read(Said(done), NextText, Separated)
         /\ ~(~Said(done).open /\ ctx.method)
         /\ \A i \in DOMAIN out : out[i].status # "400"
<1>1. Inv /\ HttpTypeOK /\ ClientInv /\ InputInv /\ RefusalInv /\ AnswerInv
  BY Zenon DEF HttpInv
<1>2. Inv' /\ ClientInv' /\ InputInv' /\ done' = done + 1 /\ done' \in 0..Len(lines')
  BY <1>1, LineTaken
<1>3. Said(done + 1) = Read(Said(done), NextText, Separated)
  BY <1>1, NextLine
<1>4. Said(done)' = Said(done + 1)
  <2>1. lines' = lines
    BY Zenon DEF clientVars
  <2> QED
    BY <1>2, <2>1, Zenon DEF Said
<1>5. ~BadNext
  BY Zenon DEF BadNext
<1>6. ~(~Said(done).open /\ ctx.method)
  BY <1>1, <1>5, Zenon DEF RefusalInv
<1>7. \A i \in DOMAIN out : out[i].status # "400"
  BY <1>1, <1>5, Zenon DEF AnswerInv
<1> QED
  BY <1>2, <1>3, <1>4, <1>6, <1>7, Zenon

\* The first line of a request keeps the invariant.
LEMMA FirstStep ==
  ASSUME HttpInv, ~fault, NextArrived, ctx.state = "ExpectRequestLine",
         Version(NextText) # "Unknown", Takes(FindCRLF(buf)),
         ctx' = BeginRequest(ctx, NextText),
         GoesOn, UNCHANGED <<wire, clientVars>>
  PROVE  HttpInv'
<1>1. Inv /\ HttpTypeOK /\ ClientInv /\ InputInv /\ ContextInv /\ RefusalInv /\ AnswerInv
  BY Zenon DEF HttpInv
<1>2. PICK s \in Sayings : s = Said(done) /\ ~s.bad /\ ~s.open
  BY OpenByState, Zenon
<1>3. PICK r : r = Read(s, NextText, Separated) /\ r = Said(done + 1)
  BY <1>1, <1>2, NextLine
<1>4. r = [requests |-> s.requests, bad |-> FALSE, open |-> TRUE,
           request |-> [version |-> Version(NextText),
                        query |-> s.request.query \/ NextText = "http10", connection |-> ""]]
  BY <1>2, <1>3, ReadFirst, Zenon
<1>5. /\ ~r.bad /\ r.open /\ r.requests = s.requests
      /\ r.request.version = Version(NextText) /\ r.request.connection = ""
      /\ r.request.query = (s.request.query \/ NextText = "http10")
  BY <1>4, Zenon
<1>6. /\ Inv' /\ ClientInv' /\ InputInv' /\ done' \in 0..Len(lines') /\ Said(done)' = r
      /\ \A i \in DOMAIN out : out[i].status # "400"
  BY <1>2, <1>3, <1>5, TakenIsGood, Zenon
<1>7. /\ hasMore' = hasMore /\ connected' = connected /\ calls' = calls /\ out' = out
      /\ fault' = fault
  BY Zenon DEF GoesOn
<1>8. /\ ctx \in Contexts /\ connected \in BOOLEAN /\ calls \in Seq(Requests)
      /\ out \in Seq([status : {"answer", "400"}, close : BOOLEAN])
      /\ hasMore \in BOOLEAN /\ fault \in BOOLEAN
  BY <1>1, Zenon DEF HttpTypeOK
<1>9. PICK d : d = ctx' /\ d = BeginRequest(ctx, NextText)
  OBVIOUS
<1>10. /\ d \in Contexts /\ d.state = "ExpectHeaders" /\ d.method = TRUE
       /\ d.version = Version(NextText) /\ d.query = (ctx.query \/ NextText = "http10")
       /\ d.connection = ctx.connection
  <2>1. Began(ctx, NextText, d)
    BY <1>8, <1>9, LineProcessed, Zenon
  <2> QED
    BY <2>1, Zenon DEF Began
<1>11. HttpTypeOK'
  <2>1. ctx' \in Contexts /\ ctx'.state # "GotAll"
    <3>1. d.state # "GotAll"
      BY <1>10, ZenonT(60)
    <3> QED
      BY <1>9, <1>10, <3>1, Zenon
  <2> QED
    BY <1>1, <1>6, <1>7, <1>8, <2>1, TypesKept, ZenonT(60)
<1>12. ContextInv'
  <2>1. /\ calls = s.requests /\ ctx.query = s.request.query /\ ctx.connection = ""
    BY <1>1, <1>2, Zenon DEF ContextInv
  <2>2. /\ ~r.bad /\ calls' = r.requests /\ ctx'.state = "ExpectHeaders"
        /\ ctx'.query = r.request.query /\ ctx'.version = r.request.version
        /\ ctx'.version # "Unknown" /\ ctx'.connection = r.request.connection /\ r.open
    BY <1>5, <1>7, <1>9, <1>10, <2>1, Zenon
  <2> QED
    BY <1>6, <2>2, Zenon DEF ContextInv
<1>13. RefusalInv'
  <2>1. Said(done)'.open /\ ~fault'
    BY <1>5, <1>6, <1>7, Zenon
  <2> QED
    BY <2>1, SMT DEF RefusalInv
<1>14. AnswerInv'
  <2>1. \A i \in DOMAIN out' : out'[i].status # "400"
    BY <1>6, <1>7, Zenon
  <2>2. /\ connected' => Len(out') = Len(calls') /\ \A i \in DOMAIN out' : ~out'[i].close
        /\ \A i \in 1..(Len(out') - 1) : ~out'[i].close
    BY <1>1, <1>7, Zenon DEF AnswerInv
  <2> QED
    BY <2>1, <2>2, Zenon DEF AnswerInv
<1> QED
  BY <1>6, <1>11, <1>12, <1>13, <1>14, Zenon DEF HttpInv

\* A header keeps the invariant.
LEMMA HeaderStep ==
  ASSUME HttpInv, ~fault, NextArrived, ctx.state = "ExpectHeaders",
         NextText \in DOMAIN Separated, Takes(FindCRLF(buf)),
         ctx' = [ctx EXCEPT !.connection = Separated[NextText]],
         GoesOn, UNCHANGED <<wire, clientVars>>
  PROVE  HttpInv'
<1>1. Inv /\ HttpTypeOK /\ ClientInv /\ InputInv /\ ContextInv /\ RefusalInv /\ AnswerInv
  BY Zenon DEF HttpInv
<1>2. PICK s \in Sayings : s = Said(done) /\ ~s.bad /\ s.open
  BY OpenByState, Zenon
<1>3. PICK r : r = Read(s, NextText, Separated) /\ r = Said(done + 1)
  BY <1>1, <1>2, NextLine
<1>4. r = [requests |-> s.requests, bad |-> FALSE, open |-> TRUE,
           request |-> [version |-> s.request.version, query |-> s.request.query,
                        connection |-> Separated[NextText]]]
  BY <1>2, <1>3, ReadHeader, Zenon
<1>5. /\ ~r.bad /\ r.open /\ r.requests = s.requests
      /\ r.request.version = s.request.version /\ r.request.connection = Separated[NextText]
      /\ r.request.query = s.request.query
  BY <1>4, Zenon
<1>6. /\ Inv' /\ ClientInv' /\ InputInv' /\ done' \in 0..Len(lines') /\ Said(done)' = r
      /\ \A i \in DOMAIN out : out[i].status # "400"
  BY <1>2, <1>3, <1>5, TakenIsGood, Zenon
<1>7. /\ hasMore' = hasMore /\ connected' = connected /\ calls' = calls /\ out' = out
      /\ fault' = fault
  BY Zenon DEF GoesOn
<1>8. /\ ctx \in Contexts /\ connected \in BOOLEAN /\ calls \in Seq(Requests)
      /\ out \in Seq([status : {"answer", "400"}, close : BOOLEAN])
      /\ hasMore \in BOOLEAN /\ fault \in BOOLEAN
  BY <1>1, Zenon DEF HttpTypeOK
<1>9. PICK n \in {"", "close", "Keep-Alive"} : n = Separated[NextText]
  BY TextParts, Zenon
<1>10. PICK d : d = ctx' /\ d = [ctx EXCEPT !.connection = n]
  BY <1>9, Zenon
<1>11. /\ d \in Contexts /\ d.state = ctx.state /\ d.method = ctx.method
       /\ d.version = ctx.version /\ d.query = ctx.query /\ d.connection = n
  BY <1>8, <1>10, ZenonT(60) DEF Contexts
<1>12. HttpTypeOK'
  <2>1. ctx' \in Contexts /\ ctx'.state # "GotAll"
    <3>1. d.state # "GotAll"
      BY <1>11, Zenon
    <3> QED
      BY <1>10, <1>11, <3>1, Zenon
  <2> QED
    BY <1>1, <1>6, <1>7, <1>8, <2>1, TypesKept, ZenonT(60)
<1>13. ContextInv'
  <2>1. /\ calls = s.requests /\ ctx.query = s.request.query
        /\ ctx.version = s.request.version /\ ctx.version # "Unknown"
    BY <1>1, <1>2, Zenon DEF ContextInv
  <2>2. ~r.bad /\ r.open /\ calls' = r.requests
    BY <1>5, <1>7, <2>1, ZenonT(30)
  <2>3. d.state = "ExpectHeaders" /\ d.query = r.request.query /\ d.version = r.request.version
    BY <1>5, <1>11, <2>1, ZenonT(30)
  <2>4. d.version # "Unknown" /\ d.connection = r.request.connection
    BY <1>5, <1>9, <1>11, <2>1, ZenonT(30)
  <2>5. /\ ~r.bad /\ calls' = r.requests /\ ctx'.state = "ExpectHeaders"
        /\ ctx'.query = r.request.query /\ ctx'.version = r.request.version
        /\ ctx'.version # "Unknown" /\ ctx'.connection = r.request.connection /\ r.open
    BY <1>10, <2>2, <2>3, <2>4, ZenonT(30)
  <2> QED
    BY <1>6, <2>5, Zenon DEF ContextInv
<1>14. RefusalInv'
  <2>1. Said(done)'.open /\ ~fault'
    BY <1>5, <1>6, <1>7, Zenon
  <2> QED
    BY <2>1, Zenon DEF RefusalInv
<1>15. AnswerInv'
  <2>1. \A i \in DOMAIN out' : out'[i].status # "400"
    BY <1>6, <1>7, Zenon
  <2>2. /\ connected' => Len(out') = Len(calls') /\ \A i \in DOMAIN out' : ~out'[i].close
        /\ \A i \in 1..(Len(out') - 1) : ~out'[i].close
    BY <1>1, <1>7, Zenon DEF AnswerInv
  <2> QED
    BY <2>1, <2>2, Zenon DEF AnswerInv
<1> QED
  BY <1>6, <1>12, <1>13, <1>14, <1>15, Zenon DEF HttpInv

\* The line that ends a request keeps the invariant, and the request is given to the callback.
LEMMA LastStep ==
  ASSUME HttpInv, ~fault, NextArrived, ctx.state = "ExpectHeaders",
         NextText \notin DOMAIN Separated, Takes(FindCRLF(buf)),
         Returns(TRUE, [ctx EXCEPT !.state = "GotAll"]), UNCHANGED <<wire, clientVars>>
  PROVE  HttpInv' /\ calls' # calls
<1>1. Inv /\ HttpTypeOK /\ ClientInv /\ InputInv /\ ContextInv /\ RefusalInv /\ AnswerInv
  BY Zenon DEF HttpInv
<1>2. PICK s \in Sayings : s = Said(done) /\ ~s.bad /\ s.open
  BY OpenByState, Zenon
<1>3. PICK r : r = Read(s, NextText, Separated) /\ r = Said(done + 1)
  BY <1>1, <1>2, NextLine
<1>4. r = [requests |-> Append(s.requests, s.request), bad |-> FALSE, open |-> FALSE,
           request |-> s.request]
  BY <1>2, <1>3, ReadLast, Zenon
<1>5. /\ ~r.bad /\ ~r.open /\ r.requests = Append(s.requests, s.request)
      /\ r.request = s.request
  BY <1>4, Zenon
<1>6. /\ Inv' /\ ClientInv' /\ InputInv' /\ done' \in 0..Len(lines') /\ Said(done)' = r
      /\ \A i \in DOMAIN out : out[i].status # "400"
  BY <1>2, <1>3, <1>5, TakenIsGood, Zenon
<1>7. /\ ctx \in Contexts /\ connected \in BOOLEAN /\ calls \in Seq(Requests)
      /\ out \in Seq([status : {"answer", "400"}, close : BOOLEAN])
      /\ fault \in BOOLEAN
  BY <1>1, Zenon DEF HttpTypeOK
<1>8. PICK c : c = [ctx EXCEPT !.state = "GotAll"]
  OBVIOUS
<1>9. /\ c \in Contexts /\ c.state = "GotAll" /\ c.version = ctx.version
      /\ c.query = ctx.query /\ c.connection = ctx.connection
  BY <1>7, <1>8, ZenonT(60) DEF Contexts
<1>10. PICK q : q = [version |-> c.version, query |-> c.query, connection |-> c.connection]
  BY Zenon
<1>11. PICK d : d = Reset(c)
  OBVIOUS
<1>12. /\ d \in Contexts /\ d.state = "ExpectRequestLine" /\ d.method = FALSE
       /\ d.query = c.query /\ d.connection = ""
  BY <1>9, <1>11, ContextReset, Zenon
<1>13. /\ hasMore' = FALSE /\ fault' = fault /\ ctx' = d
       /\ \E close \in {Closes(q), TRUE} :
            /\ calls' = Append(calls, q)
            /\ out' = IF connected THEN Append(out, Answer(close)) ELSE out
            /\ connected' = (connected /\ ~close)
  <2>1. Returns(TRUE, c)
    BY <1>8, Zenon
  <2>2. OnRequest(c)
    BY <1>9, <2>1, Zenon DEF Returns, OnMessage
  <2>3. hasMore' = FALSE /\ fault' = fault /\ ctx' = d
    BY <1>9, <1>11, <2>1, Zenon DEF Returns, OnMessage
  <2>4. \E close \in {Closes(q), TRUE} :
          calls' = Append(calls, q) /\ Send(Answer(close)) /\ connected' = (connected /\ ~close)
    BY <1>10, <2>2, Zenon DEF OnRequest
  <2> QED
    BY <2>3, <2>4, Zenon DEF Send
<1>14. PICK close \in BOOLEAN :
         /\ calls' = Append(calls, q)
         /\ out' = IF connected THEN Append(out, Answer(close)) ELSE out
         /\ connected' = (connected /\ ~close)
  <2>1. Closes(q) \in BOOLEAN
    BY Zenon DEF Closes
  <2> QED
    BY <1>13, <2>1, Zenon
<1>15. /\ calls = s.requests /\ ctx.query = s.request.query /\ ctx.version = s.request.version
       /\ ctx.connection = s.request.connection
  BY <1>1, <1>2, Zenon DEF ContextInv
<1>16. q = s.request /\ q \in Requests
  <2>1. /\ s.request = [version |-> s.request.version, query |-> s.request.query,
                        connection |-> s.request.connection]
        /\ s.request \in Requests
    BY <1>2, SayingParts, ZenonT(60)
  <2> QED
    BY <1>9, <1>10, <1>15, <2>1, Zenon
<1>17. /\ calls' \in Seq(Requests) /\ Len(calls') = Len(calls) + 1 /\ Len(calls) \in Nat
  BY <1>7, <1>14, <1>16
<1>18. PICK o \in [status : {"answer", "400"}, close : BOOLEAN] :
         o = Answer(close) /\ o.status = "answer" /\ o.close = close
  <2>1. PICK o : o = Answer(close)
    OBVIOUS
  <2>2. o.status = "answer" /\ o.close = close
    BY <2>1, Zenon DEF Answer
  <2>3. "answer" \in {"answer", "400"}
    OBVIOUS
  <2>4. o \in [status : {"answer", "400"}, close : BOOLEAN]
    BY <2>1, <2>3, Zenon DEF Answer
  <2> QED
    BY <2>1, <2>2, <2>4, Zenon
<1>19. /\ Len(out) \in Nat /\ DOMAIN out = 1..Len(out)
       /\ connected => /\ out' \in Seq([status : {"answer", "400"}, close : BOOLEAN])
                       /\ Len(out') = Len(out) + 1 /\ DOMAIN out' = 1..(Len(out) + 1)
                       /\ \A i \in 1..Len(out) : out'[i] = out[i]
                       /\ out'[Len(out) + 1] = o
  <2> DEFINE O == [status : {"answer", "400"}, close : BOOLEAN]
  <2>1. connected => out' = Append(out, o)
    BY <1>14, <1>18, Zenon
  <2>2. out \in Seq(O) /\ o \in O
    BY <1>7
  <2> HIDE DEF O
  <2>3. Len(out) \in Nat /\ DOMAIN out = 1..Len(out)
    BY <2>2
  <2>4. ASSUME connected
        PROVE  /\ out' \in Seq(O)
               /\ Len(out') = Len(out) + 1 /\ DOMAIN out' = 1..(Len(out) + 1)
               /\ \A i \in 1..Len(out) : out'[i] = out[i]
               /\ out'[Len(out) + 1] = o
    <3>1. out' = Append(out, o)
      BY <2>1, <2>4
    <3> QED
      BY <2>2, <2>3, <3>1
  <2> QED
    BY <2>3, <2>4 DEF O
<1>20. ~connected => out' = out
  BY <1>14, Zenon
<1>21. connected' \in BOOLEAN /\ (connected' => connected /\ ~close)
  BY <1>14, Zenon
<1>22. HttpTypeOK'
  <2>1. ctx' \in Contexts /\ ctx'.state # "GotAll"
    <3>1. d.state # "GotAll"
      BY <1>12, ZenonT(60)
    <3> QED
      BY <1>12, <1>13, <3>1, Zenon
  <2>2. hasMore' \in BOOLEAN /\ fault' \in BOOLEAN
    BY <1>7, <1>13, ZenonT(60)
  <2>3. out' \in Seq([status : {"answer", "400"}, close : BOOLEAN])
    BY <1>7, <1>19, <1>20, Zenon
  <2> QED
    BY <1>1, <1>6, <1>17, <1>21, <2>1, <2>2, <2>3, TypesKept
<1>23. ContextInv'
  <2>1. calls' = r.requests
    BY <1>5, <1>14, <1>15, <1>16, Zenon
  <2>2. /\ ctx'.state = "ExpectRequestLine" /\ ctx'.query = r.request.query
        /\ ctx'.connection = ""
    BY <1>5, <1>9, <1>12, <1>13, <1>15, Zenon
  <2> QED
    BY <1>5, <1>6, <2>1, <2>2, Zenon DEF ContextInv
<1>24. RefusalInv'
  <2>1. ~ctx'.method /\ ~fault'
    BY <1>12, <1>13, Zenon
  <2> QED
    BY <2>1, SMT DEF RefusalInv
<1>25. AnswerInv'
  <2>1. CASE connected
    <3>1. Len(out) = Len(calls) /\ \A i \in DOMAIN out : ~out[i].close
      BY <1>1, <2>1, Zenon DEF AnswerInv
    <3>2. /\ Len(out') = Len(out) + 1 /\ DOMAIN out' = 1..(Len(out) + 1)
          /\ out'[Len(out) + 1] = o
      BY <1>19, <2>1
    <3>3. \A i \in 1..Len(out) : ~out'[i].close /\ out'[i].status # "400"
      BY <1>6, <1>19, <2>1, <3>1, Zenon
    <3>4. \A i \in DOMAIN out' : i \in 1..Len(out) \/ i = Len(out) + 1
      BY <1>19, <3>2
    <3>5. \A i \in DOMAIN out' : out'[i].status # "400"
      <4>1. "answer" # "400"
        OBVIOUS
      <4> QED
        BY <1>18, <3>2, <3>3, <3>4, <4>1, Zenon
    <3>6. connected' => Len(out') = Len(calls') /\ \A i \in DOMAIN out' : ~out'[i].close
      <4>1. Len(out') = Len(calls')
        BY <1>17, <3>1, <3>2
      <4> QED
        BY <1>18, <1>21, <3>2, <3>3, <3>4, <4>1, Zenon
    <3>7. Len(out') - 1 = Len(out)
      BY <1>19, <3>2
    <3>8. \A i \in 1..(Len(out') - 1) : ~out'[i].close
      BY <3>3, <3>7, Zenon
    <3> QED
      BY <3>5, <3>6, <3>8, Zenon DEF AnswerInv
  <2>2. CASE ~connected
    <3>1. out' = out /\ ~connected'
      BY <1>20, <1>21, <2>2
    <3>2. \A i \in 1..(Len(out) - 1) : ~out[i].close
      BY <1>1, Zenon DEF AnswerInv
    <3> QED
      BY <1>6, <3>1, <3>2, Zenon DEF AnswerInv
  <2> QED
    BY <2>1, <2>2
<1>26. calls' # calls
  BY <1>17
<1> QED
  BY <1>6, <1>22, <1>23, <1>24, <1>25, <1>26, Zenon DEF HttpInv

\* A round of the loop keeps the invariant; parseRequest returns without a request only when no
\* line has arrived or a bad one is next.
LEMMA ParseStep ==
  ASSUME HttpInv, ParseRequest
  PROVE  HttpInv' /\ (~hasMore' /\ calls' = calls => ~NextArrived \/ BadNext)
<1>1. Inv /\ HttpTypeOK /\ ClientInv /\ InputInv
  BY Zenon DEF HttpInv
<1>2. ~fault /\ hasMore /\ UNCHANGED <<wire, clientVars>>
  BY Zenon DEF ParseRequest
<1>3. CASE NoLine
  <2>1. HttpInv'
    BY <1>2, <1>3, NoLineStep
  <2>2. CRLFs(buf) = {}
    BY <1>3, Zenon DEF NoLine
  <2>3. ~NextArrived
    BY <1>1, <2>2, NextLine
  <2> QED
    BY <2>1, <2>3
<1>4. CASE ~NoLine
  <2>1. /\ CRLFs(buf) # {}
        /\ \E crlf \in {FindCRLF(buf)} : \E text \in {TextBefore(buf, crlf)} :
             \/ ctx.state = "ExpectRequestLine" /\ (RequestLineFails(text) \/ RequestLine(crlf, text))
             \/ ctx.state = "ExpectHeaders" /\ Header(crlf, text)
    BY <1>4, Zenon DEF ParseRequest
  <2>2. NextArrived /\ TextBefore(buf, FindCRLF(buf)) = NextText
    BY <1>1, <2>1, NextLine
  <2>3. \/ ctx.state = "ExpectRequestLine"
           /\ (RequestLineFails(NextText) \/ RequestLine(FindCRLF(buf), NextText))
        \/ ctx.state = "ExpectHeaders" /\ Header(FindCRLF(buf), NextText)
    BY <2>1, <2>2, Zenon
  <2>4. CASE ctx.state = "ExpectRequestLine" /\ RequestLineFails(NextText)
    BY <1>2, <2>4, FailsStep, ZenonT(60)
  <2>5. CASE ctx.state = "ExpectRequestLine" /\ RequestLine(FindCRLF(buf), NextText)
    <3>1. CASE Version(NextText) = "Unknown"
      <4>1. /\ UNCHANGED <<buf, content, done>>
            /\ Returns(FALSE, ProcessRequestLine(ctx, NextText))
        BY <2>5, <3>1, Zenon DEF RequestLine
      <4> QED
        BY <1>2, <2>2, <2>5, <3>1, <4>1, RefusedStep
    <3>2. CASE Version(NextText) # "Unknown"
      <4>1. /\ Takes(FindCRLF(buf)) /\ ctx' = BeginRequest(ctx, NextText) /\ GoesOn
        BY <2>5, <3>2, Zenon DEF RequestLine, BeginRequest
      <4>2. HttpInv'
        BY <1>2, <2>2, <2>5, <3>2, <4>1, FirstStep
      <4>3. hasMore'
        BY <1>2, <4>1, Zenon DEF GoesOn
      <4> QED
        BY <4>2, <4>3
    <3> QED
      BY <3>1, <3>2
  <2>6. CASE ctx.state = "ExpectHeaders" /\ Header(FindCRLF(buf), NextText)
    <3>1. Takes(FindCRLF(buf))
      BY <2>6, Zenon DEF Header
    <3>2. CASE NextText \in DOMAIN Separated
      <4>1. ctx' = [ctx EXCEPT !.connection = Separated[NextText]] /\ GoesOn
        BY <2>6, <3>2, Zenon DEF Header
      <4>2. HttpInv'
        BY <1>2, <2>2, <2>6, <3>1, <3>2, <4>1, HeaderStep, Zenon
      <4>3. hasMore'
        BY <1>2, <4>1, Zenon DEF GoesOn
      <4> QED
        BY <4>2, <4>3, Zenon
    <3>3. CASE NextText \notin DOMAIN Separated
      <4>1. Returns(TRUE, [ctx EXCEPT !.state = "GotAll"])
        BY <2>6, <3>3, Zenon DEF Header
      <4>2. HttpInv' /\ calls' # calls
        BY <1>2, <2>2, <2>6, <3>1, <3>3, <4>1, LastStep, Zenon
      <4> QED
        BY <4>2, Zenon
    <3> QED
      BY <3>2, <3>3
  <2> QED
    BY <2>3, <2>4, <2>5, <2>6
<1> QED
  BY <1>3, <1>4

\* Every step keeps the invariant.
LEMMA HttpNextHolds ==
  ASSUME HttpInv, [HttpNext]_httpVars
  PROVE  HttpInv'
<1>1. CASE HttpNext
  <2>1. ASSUME NEW n \in 1..ChunkMax, n <= Len(wire), HandleRead(n) PROVE HttpInv'
    <3>1. n \in Nat
      BY BufferAssumption
    <3> QED
      BY <2>1, <3>1, ReadStep
  <2>2. ASSUME ParseRequest PROVE HttpInv'
    BY <2>2, ParseStep
  <2>3. ASSUME NEW t \in Texts, ClientSends(t) PROVE HttpInv'
    BY <2>3, SendStep
  <2> QED
    BY <1>1, <2>1, <2>2, <2>3, Zenon DEF HttpNext
<1>2. CASE UNCHANGED httpVars
  <2>1. Inv /\ HttpTypeOK /\ ClientInv /\ InputInv /\ ContextInv /\ RefusalInv /\ AnswerInv
    BY Zenon DEF HttpInv
  <2>2. UNCHANGED <<buf, content, done, wire, clientVars>>
    BY <1>2, Zenon DEF httpVars, serverVars, clientVars
  <2>3. hasMore' = hasMore /\ ctx' = ctx /\ connected' = connected /\ calls' = calls
        /\ out' = out /\ fault' = fault
    BY <1>2, Zenon DEF httpVars, serverVars
  <2>4. /\ Inv' /\ ClientInv' /\ InputInv' /\ done' \in 0..Len(lines')
        /\ Said(done)' = Said(done) /\ (BadNext => BadNext')
    BY <2>2, InputKept
  <2>5. /\ ctx' \in Contexts /\ ctx'.state # "GotAll" /\ connected' \in BOOLEAN
        /\ fault' \in BOOLEAN /\ hasMore' \in BOOLEAN /\ calls' \in Seq(Requests)
        /\ out' \in Seq([status : {"answer", "400"}, close : BOOLEAN])
    BY <2>1, <2>3, Zenon DEF HttpTypeOK
  <2>6. HttpTypeOK'
    BY <2>1, <2>2, <2>4, <2>5, TypesKept
  <2>7. ContextInv' /\ RefusalInv' /\ AnswerInv'
    BY <2>1, <2>3, <2>4, ContextKept
  <2> QED
    BY <2>4, <2>6, <2>7, Zenon DEF HttpInv
<1> QED
  BY <1>1, <1>2

\* On the connection of an HttpServer the buffer holds the bytes between the lines taken and the
\* bytes not read, and the context what the lines taken say (handleRead, parseRequest, onMessage).
THEOREM HttpInvariant == HttpSpec => []HttpInv
<1>1. HttpInit => HttpInv
  BY HttpInitHolds
<1>2. HttpInv /\ [HttpNext]_httpVars => HttpInv'
  BY HttpNextHolds
<1> QED
  BY <1>1, <1>2, PTL DEF HttpSpec

\* The lines taken have arrived, and the next one as well when it is bad.
LEMMA TakenArrived ==
  ASSUME HttpInv
  PROVE  done \in Arrived /\ (NextArrived => done + 1 \in Arrived)
<1>1. HttpTypeOK /\ InputInv
  BY Zenon DEF HttpInv
<1>2. /\ Len(lines) \in Nat /\ Len(stream) \in Nat /\ Len(wire) \in Nat /\ Len(content) \in Nat
      /\ done \in Nat /\ done <= Len(lines)
  BY <1>1, Histories
<1>3. done \in 0..Len(lines)
  BY <1>2
<1>4. PICK e \in Nat : e = End(done)
  BY <1>1, <1>3, Histories
<1>5. Len(content) + Len(wire) = Len(stream) - e
  BY <1>1, <1>4, Zenon DEF InputInv
<1>6. e <= Len(stream) - Len(wire)
  BY <1>2, <1>5
<1>7. done \in Arrived
  BY <1>3, <1>4, <1>6, Zenon DEF Arrived
<1>8. ASSUME NextArrived PROVE done + 1 \in Arrived
  <2>1. done < Len(lines) /\ End(done + 1) <= Len(stream) - Len(wire)
    BY <1>8, Zenon DEF NextArrived
  <2>2. done + 1 \in 0..Len(lines)
    BY <1>2, <2>1
  <2> QED
    BY <2>1, <2>2, Zenon DEF Arrived
<1> QED
  BY <1>7, <1>8

\* A bad line adds nothing to what was said.
LEMMA BadSaysNothing ==
  ASSUME HttpInv, BadNext
  PROVE  done + 1 \in Arrived /\ Said(done + 1).bad /\ calls = Said(done + 1).requests
<1>1. Inv /\ HttpTypeOK /\ ClientInv /\ InputInv
  BY Zenon DEF HttpInv
<1>2. NextArrived /\ Said(done + 1).bad
  BY Zenon DEF BadNext
<1>3. Said(done + 1) = Read(Said(done), NextText, Separated)
  BY <1>1, <1>2, NextLine
<1>4. Said(done) \in Sayings
  BY OpenByState
<1>5. Said(done + 1).requests = Said(done).requests
  BY <1>2, <1>3, <1>4, ReadGrows, Zenon
<1>6. calls = Said(done).requests
  BY Zenon DEF HttpInv, ContextInv
<1> QED
  BY <1>2, <1>5, <1>6, TakenArrived

\* However long the client talks and however its lines are cut into messages, the callback is
\* given the requests they say (parseRequest, onMessage, reset).
THEOREM RequestsStayAsSent == HttpSpec => []RequestsAsSent
<1>1. HttpInv => RequestsAsSent
  <2> SUFFICES ASSUME HttpInv PROVE RequestsAsSent
    OBVIOUS
  <2>1. calls = Said(done).requests
    BY Zenon DEF HttpInv, ContextInv
  <2> QED
    BY <2>1, TakenArrived, Zenon DEF RequestsAsSent
<1> QED
  BY <1>1, HttpInvariant, PTL

\* Every request is answered until the connection is shut down, nothing follows an answer that
\* closes, and only a bad line is refused (onRequest, onMessage, send).
THEOREM AnswersUntilClosed == HttpSpec => []AnsweredUntilClosed
<1>1. HttpInv => AnsweredUntilClosed
  <2> SUFFICES ASSUME HttpInv PROVE AnsweredUntilClosed
    OBVIOUS
  <2>1. /\ connected => Len(out) = Len(calls)
        /\ \A i \in 1..(Len(out) - 1) : ~out[i].close
        /\ \A i \in DOMAIN out : out[i].status = "400" => BadNext
    BY Zenon DEF HttpInv, AnswerInv
  <2>2. BadNext => \E k \in Arrived : Said(k).bad /\ calls = Said(k).requests
    BY BadSaysNothing, Zenon
  <2> QED
    BY <2>1, <2>2, Zenon DEF AnsweredUntilClosed
<1> QED
  BY <1>1, HttpInvariant, PTL

\* The assert in setMethod fails only on a connection shut down after a bad line (parseRequest,
\* processRequestLine, onMessage).
THEOREM FaultsOnlyAfterRefusal == HttpSpec => []FaultOnlyAfterRefusal
<1>1. HttpInv => FaultOnlyAfterRefusal
  <2> SUFFICES ASSUME HttpInv, fault PROVE ~connected /\ \E k \in Arrived : Said(k).bad
    BY Zenon DEF FaultOnlyAfterRefusal
  <2>1. BadNext /\ ~connected
    BY Zenon DEF HttpInv, RefusalInv
  <2> QED
    BY <2>1, BadSaysNothing, Zenon
<1> QED
  BY <1>1, HttpInvariant, PTL

\* A message leaves a complete request in the buffer only if it answered one (parseRequest,
\* onMessage).
THEOREM MessagesAnswerRequests == HttpSpec => OneRequestPerMessage
<1> DEFINE One == hasMore /\ ~hasMore' /\ calls' = calls
                    => \A k \in Arrived : Len(Said(k).requests) <= Len(calls)
<1>1. HttpInv /\ [HttpNext]_httpVars => [One]_httpVars
  <2> SUFFICES ASSUME HttpInv, HttpNext, hasMore, ~hasMore', calls' = calls, NEW k \in Arrived
               PROVE  Len(Said(k).requests) <= Len(calls)
    BY Zenon
  <2>1. ParseRequest
    <3>1. \A n : ~HandleRead(n)
      BY Zenon DEF HandleRead
    <3>2. \A t : ~ClientSends(t)
      BY Zenon DEF ClientSends, serverVars
    <3> QED
      BY <3>1, <3>2, Zenon DEF HttpNext
  <2>2. ~NextArrived \/ BadNext
    BY <2>1, ParseStep
  <2>3. Inv /\ HttpTypeOK /\ ClientInv /\ InputInv
    BY Zenon DEF HttpInv
  <2>4. calls = Said(done).requests
    BY Zenon DEF HttpInv, ContextInv
  <2>5. /\ Len(lines) \in Nat /\ done \in Nat /\ done <= Len(lines) /\ Len(stream) \in Nat
        /\ Len(wire) \in Nat
    BY <2>3, Histories
  <2>6. k \in 0..Len(lines) /\ End(k) <= Len(stream) - Len(wire)
    BY Zenon DEF Arrived
  <2>7. \A i, j \in 0..Len(lines) : i <= j =>
          /\ End(i) <= End(j)
          /\ Len(Said(i).requests) <= Len(Said(j).requests)
          /\ Said(i).bad => Said(j) = Said(i)
    BY <2>3, Zenon DEF ClientInv
  <2>8. CASE k <= done
    <3>1. done \in 0..Len(lines)
      BY <2>5
    <3> QED
      BY <2>4, <2>6, <2>7, <2>8, <3>1, Zenon
  <2>9. CASE k > done
    <3>1. done + 1 \in 0..Len(lines) /\ done + 1 <= k /\ done < Len(lines)
      BY <2>5, <2>6, <2>9
    <3>2. End(done + 1) <= End(k)
      BY <2>6, <2>7, <3>1, Zenon
    <3>3. NextArrived
      <4>1. PICK a \in Nat, b \in Nat : a = End(done + 1) /\ b = End(k)
        BY <2>3, <2>6, <3>1, Histories
      <4>2. a <= Len(stream) - Len(wire)
        BY <2>5, <2>6, <3>2, <4>1
      <4> QED
        BY <3>1, <4>1, <4>2, Zenon DEF NextArrived
    <3>4. BadNext
      BY <2>2, <3>3
    <3>5. Said(done + 1).bad /\ calls = Said(done + 1).requests
      BY <3>4, BadSaysNothing
    <3>6. Said(k) = Said(done + 1)
      BY <2>6, <2>7, <3>1, <3>5, Zenon
    <3>7. Len(calls) \in Nat
      <4>1. calls \in Seq(Requests)
        BY <2>3, Zenon DEF HttpTypeOK
      <4> QED
        BY <4>1, LenProperties
    <3>8. Len(calls) <= Len(calls)
      BY <3>7
    <3> QED
      BY <3>5, <3>6, <3>8, Zenon
  <2> QED
    BY <2>5, <2>6, <2>8, <2>9
<1> QED
  BY <1>1, HttpInvariant, PTL DEF HttpSpec, OneRequestPerMessage

\* The buffer of the connection is in order (Buffer, as handleRead and parseRequest use it).
THEOREM HttpBytesKept == HttpSpec => [](BytesKept /\ AssertsHold)
<1>1. HttpInv => BytesKept /\ AssertsHold
  BY InvKeeps, InvAsserts, Zenon DEF HttpInv
<1> QED
  BY <1>1, HttpInvariant, PTL
=============================================================================
