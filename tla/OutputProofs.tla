---------------------------- MODULE OutputProofs ----------------------------
(***************************************************************************)
(* Output, for any threads, messages and marks: the messages of a caller   *)
(* leave whole and in its order, the bytes keep their order, the write     *)
(* side is shut down over no waiting output, and reaching the high water   *)
(* mark is reported.                                                       *)
(***************************************************************************)
EXTENDS Output, SequenceTheorems, TLAPS

-----------------------------------------------------------------------------
(* Sequences cut in two. *)

\* Concatenation of three sequences of bytes (ConcatAssociative).
LEMMA Assoc ==
  ASSUME NEW s \in Seq(Bytes), NEW t \in Seq(Bytes), NEW u \in Seq(Bytes)
  PROVE  (s \o t) \o u = s \o (t \o u)
BY ConcatAssociative

\* A sequence is its first n elements and the rest (SubSeq as sendInLoop and handleWrite use it).
LEMMA Cut ==
  ASSUME NEW s \in Seq(Bytes), NEW n \in 0..Len(s)
  PROVE  /\ SubSeq(s, 1, n) \in Seq(Bytes) /\ From(s, n + 1) \in Seq(Bytes)
         /\ SubSeq(s, 1, n) \o From(s, n + 1) = s
         /\ Len(From(s, n + 1)) = Len(s) - n
<1>1. SubSeq(s, 1, n) \in Seq(Bytes)
  BY SubSeqProperties
<1>2. From(s, n + 1) \in Seq(Bytes) /\ Len(From(s, n + 1)) = Len(s) - n
  BY SubSeqProperties DEF From
<1>3. SubSeq(s, 1, n) \o From(s, n + 1) = SubSeq(s, 1, Len(s))
  <2>1. /\ Len(s) \in Nat /\ 1 \in 1..(Len(s) + 1) /\ n \in (1 - 1)..Len(s)
        /\ Len(s) \in n..Len(s)
    BY LenProperties
  <2>2. SubSeq(s, 1, n) \o SubSeq(s, n + 1, Len(s)) = SubSeq(s, 1, Len(s))
    BY <2>1, ConcatAdjacentSubSeq, Zenon
  <2> QED
    BY <2>2, Zenon DEF From
<1> QED
  BY <1>1, <1>2, <1>3, SubSeqFull

\* A sequence is empty when its length is zero.
LEMMA EmptyIffZero ==
  ASSUME NEW s \in Seq(Bytes)
  PROVE  Len(s) \in Nat /\ (s = <<>> <=> Len(s) = 0)
BY EmptySeq, LenProperties

\* The first bytes of m go behind the wire and the rest behind the buffer; when the buffer is
\* not empty nothing goes behind the wire (sendInLoop).
LEMMA StreamGrows ==
  ASSUME NEW w \in Seq(Bytes), NEW b \in Seq(Bytes), NEW m \in Seq(Bytes), NEW n \in 0..Len(m),
         b = <<>> \/ n = 0
  PROVE  (w \o SubSeq(m, 1, n)) \o (b \o From(m, n + 1)) = (w \o b) \o m
<1> DEFINE pre  == SubSeq(m, 1, n)
           rest == From(m, n + 1)
<1>1. pre \in Seq(Bytes) /\ rest \in Seq(Bytes) /\ pre \o rest = m
  BY Cut, Zenon
<1>2. CASE b = <<>>
  <2>1. b \o rest = rest /\ w \o b = w
    BY <1>1, <1>2, ConcatEmptySeq
  <2>2. (w \o pre) \o rest = w \o (pre \o rest)
    <3> HIDE DEF pre, rest
    <3> QED
      BY <1>1, Assoc, ZenonT(30)
  <2> QED
    BY <1>1, <2>1, <2>2, Zenon
<1>3. CASE n = 0
  <2>1. pre = <<>>
    BY <1>3, SubSeqEmpty
  <2>2. rest = m /\ w \o pre = w
    BY <1>1, <2>1, ConcatEmptySeq, Zenon
  <2>3. w \o (b \o m) = (w \o b) \o m
    BY Assoc, Zenon
  <2> QED
    BY <2>2, <2>3, Zenon
<1> QED
  BY <1>2, <1>3, Zenon

\* The first bytes of the buffer move to the wire (handleWrite).
LEMMA StreamMoves ==
  ASSUME NEW w \in Seq(Bytes), NEW b \in Seq(Bytes), NEW n \in 0..Len(b)
  PROVE  (w \o SubSeq(b, 1, n)) \o From(b, n + 1) = w \o b
<1> DEFINE pre  == SubSeq(b, 1, n)
           rest == From(b, n + 1)
<1>1. pre \in Seq(Bytes) /\ rest \in Seq(Bytes) /\ pre \o rest = b
  BY Cut
<1> HIDE DEF pre, rest
<1>2. (w \o pre) \o rest = w \o (pre \o rest)
  BY <1>1, Assoc, ZenonT(30)
<1>3. (w \o pre) \o rest = w \o b
  BY <1>1, <1>2
<1> QED
  BY <1>3, Zenon DEF pre, rest

\* A part of s is the same part of a longer sequence.
LEMMA PartKept ==
  ASSUME NEW s \in Seq(Bytes), NEW t \in Seq(Bytes), NEW x \in Nat, NEW y \in Nat,
         x <= y, y <= Len(s)
  PROVE  SubSeq(s \o t, x + 1, y) = SubSeq(s, x + 1, y)
<1>1. Len(s) \in Nat /\ Len(t) \in Nat /\ s \o t \in Seq(Bytes) /\ Len(s \o t) = Len(s) + Len(t)
  BY LenProperties, ConcatProperties
<1>2. CASE x = y
  <2>1. x + 1 \in Int /\ y \in Int /\ x + 1 > y
    BY <1>2
  <2>2. SubSeq(s \o t, x + 1, y) = <<>>
    BY <1>1, <2>1, SubSeqEmpty
  <2>3. SubSeq(s, x + 1, y) = <<>>
    BY <1>1, <2>1, SubSeqEmpty
  <2> QED
    BY <2>2, <2>3
<1>3. CASE x # y
  <2>1. x + 1 \in 1..Len(s) /\ y \in 1..Len(s)
    BY <1>1, <1>3
  <2> QED
    BY <2>1, SubSeqOfConcat1
<1> QED
  BY <1>2, <1>3

\* What was appended to s is the last part of the sequence.
LEMMA PartAdded ==
  ASSUME NEW s \in Seq(Bytes), NEW t \in Seq(Bytes)
  PROVE  SubSeq(s \o t, Len(s) + 1, Len(s) + Len(t)) = t
<1>1. Len(s) \in Nat /\ Len(t) \in Nat /\ s \o t \in Seq(Bytes) /\ (t = <<>> <=> Len(t) = 0)
  BY LenProperties, ConcatProperties, EmptySeq
<1>2. CASE Len(t) = 0
  <2>1. Len(s) + 1 \in Int /\ Len(s) + Len(t) \in Int /\ Len(s) + 1 > Len(s) + Len(t)
    BY <1>1, <1>2
  <2> QED
    BY <1>1, <1>2, <2>1, SubSeqEmpty
<1>3. CASE Len(t) # 0
  <2>1. /\ Len(s) + 1 \in (Len(s) + 1)..(Len(s) + Len(t))
        /\ Len(s) + Len(t) \in (Len(s) + 1)..(Len(s) + Len(t))
        /\ Len(s) + 1 - Len(s) = 1 /\ Len(s) + Len(t) - Len(s) = Len(t)
    BY <1>1, <1>3
  <2>2. SubSeq(s \o t, Len(s) + 1, Len(s) + Len(t)) = SubSeq(t, 1, Len(t))
    BY <2>1, SubSeqOfConcat2
  <2> QED
    BY <2>2, SubSeqFull
<1> QED
  BY <1>2, <1>3
-----------------------------------------------------------------------------
(* The types. *)

\* The functor of a send().
LEMMA SendType ==
  ASSUME NEW f \in Functor, f.op = "send"
  PROVE  f.m \in AllMessages /\ f.from \in Callers /\ f.n \in Nat
BY DEF Functor

\* A message is a sequence of bytes.
LEMMA MessageType ==
  ASSUME NEW c \in Callers, NEW m \in Messages[c]
  PROVE  m \in Seq(Bytes) /\ m \in AllMessages
BY OutputAssumption DEF AllMessages

\* What a queued send() carries is a sequence of bytes.
LEMMA BytesType ==
  ASSUME NEW f \in Functor
  PROVE  BytesOf(f) \in Seq(Bytes) /\ (f.op = "send" => f.m \in Seq(Bytes))
<1>1. CASE f.op = "send"
  <2>1. f.m \in AllMessages
    BY <1>1, SendType
  <2>2. f.m \in Seq(Bytes)
    BY <2>1, MessageType DEF AllMessages
  <2> QED
    BY <1>1, <2>2 DEF BytesOf
<1> QED
  BY <1>1 DEF BytesOf
-----------------------------------------------------------------------------
(* The line of functors: taken, then pending. *)

\* The elements of a concatenation.
LEMMA Joined ==
  ASSUME NEW S, NEW a \in Seq(S), NEW z \in Seq(S)
  PROVE  /\ a \o z \in Seq(S) /\ Len(a) \in Nat /\ Len(z) \in Nat
         /\ DOMAIN (a \o z) = 1..(Len(a) + Len(z))
         /\ \A i \in 1..Len(a) : (a \o z)[i] = a[i]
         /\ \A i \in 1..Len(z) : (a \o z)[Len(a) + i] = z[i]
         /\ \A i \in 1..(Len(a) + Len(z)) : i > Len(a) =>
              i - Len(a) \in 1..Len(z) /\ (a \o z)[i] = z[i - Len(a)]
OBVIOUS

\* The elements of a sequence to which one is appended.
LEMMA Appended ==
  ASSUME NEW S, NEW a \in Seq(S), NEW e \in S
  PROVE  /\ Append(a, e) \in Seq(S) /\ Len(a) \in Nat /\ Len(Append(a, e)) = Len(a) + 1
         /\ DOMAIN Append(a, e) = 1..(Len(a) + 1) /\ DOMAIN a = 1..Len(a)
         /\ \A i \in 1..Len(a) : Append(a, e)[i] = a[i]
         /\ Append(a, e)[Len(a) + 1] = e
OBVIOUS

\* Where an element of a line is, before and after e was put in between s and z.
PutBetween(s, e, z, old, new) ==
  /\ DOMAIN old = 1..(Len(s) + Len(z)) /\ DOMAIN new = 1..(Len(s) + Len(z) + 1)
  /\ Len(s) \in Nat /\ Len(z) \in Nat
  /\ new[Len(s) + 1] = e
  /\ \A i \in DOMAIN new :
       /\ i <= Len(s) => i \in DOMAIN old /\ new[i] = old[i]
       /\ i > Len(s) + 1 => /\ i - 1 \in DOMAIN old /\ new[i] = old[i - 1]
                            /\ i - 1 - Len(s) \in DOMAIN z /\ new[i] = z[i - 1 - Len(s)]
  /\ \A i \in DOMAIN old : \E j \in DOMAIN new : new[j] = old[i]

\* The elements of a line into which one is put.
LEMMA PutIn ==
  ASSUME NEW s \in Seq(Functor), NEW e \in Functor, NEW z \in Seq(Functor)
  PROVE  PutBetween(s, e, z, s \o z, Append(s, e) \o z)
<1> SUFFICES ASSUME NEW old, old = s \o z, NEW new, new = Append(s, e) \o z
             PROVE  PutBetween(s, e, z, old, new)
  BY Zenon
<1> DEFINE a == Append(s, e)
<1>1. /\ old \in Seq(Functor) /\ Len(s) \in Nat /\ Len(z) \in Nat
      /\ DOMAIN old = 1..(Len(s) + Len(z))
      /\ \A i \in 1..Len(s) : old[i] = s[i]
      /\ \A i \in 1..(Len(s) + Len(z)) : i > Len(s) =>
           i - Len(s) \in 1..Len(z) /\ old[i] = z[i - Len(s)]
  BY Joined
<1>2. /\ a \in Seq(Functor) /\ Len(a) = Len(s) + 1 /\ a[Len(s) + 1] = e
      /\ \A i \in 1..Len(s) : a[i] = s[i]
  BY Appended
<1>a. new = a \o z
  OBVIOUS
<1> HIDE DEF a
<1>3. /\ DOMAIN new = 1..(Len(a) + Len(z))
      /\ \A i \in 1..Len(a) : new[i] = a[i]
      /\ \A i \in 1..(Len(a) + Len(z)) : i > Len(a) =>
           i - Len(a) \in 1..Len(z) /\ new[i] = z[i - Len(a)]
  <2>1. a \in Seq(Functor)
    BY <1>2
  <2> QED
    BY <1>a, <2>1, Joined
<1>4. DOMAIN z = 1..Len(z)
  OBVIOUS
<1>5. ASSUME NEW i \in DOMAIN new
      PROVE  /\ i <= Len(s) => i \in DOMAIN old /\ new[i] = old[i]
             /\ i > Len(s) + 1 => /\ i - 1 \in DOMAIN old /\ new[i] = old[i - 1]
                                  /\ i - 1 - Len(s) \in DOMAIN z /\ new[i] = z[i - 1 - Len(s)]
  <2>1. i \in 1..(Len(s) + 1 + Len(z))
    BY <1>2, <1>3
  <2>2. CASE i <= Len(s)
    BY <1>1, <1>2, <1>3, <2>1, <2>2
  <2>3. CASE i > Len(s) + 1
    <3>1. i > Len(a) /\ i - Len(a) = i - 1 - Len(s)
      BY <1>1, <1>2, <2>1, <2>3
    <3>2. i - 1 - Len(s) \in DOMAIN z /\ new[i] = z[i - 1 - Len(s)]
      BY <1>3, <1>4, <3>1
    <3>3. i - 1 \in 1..(Len(s) + Len(z)) /\ i - 1 > Len(s)
      BY <1>1, <2>1, <2>3
    <3>4. old[i - 1] = z[i - 1 - Len(s)]
      BY <1>1, <3>3
    <3>5. ~(i <= Len(s))
      BY <1>1, <2>1, <2>3
    <3>6. i - 1 \in DOMAIN old
      BY <1>1, <3>3, Zenon
    <3> QED
      BY <3>2, <3>4, <3>5, <3>6, Zenon
  <2>4. CASE i = Len(s) + 1
    <3>1. ~(i <= Len(s)) /\ ~(i > Len(s) + 1)
      BY <1>1, <2>4
    <3> QED
      BY <3>1, Zenon
  <2>5. i <= Len(s) \/ i = Len(s) + 1 \/ i > Len(s) + 1
    BY <1>1, <2>1
  <2> QED
    BY <2>2, <2>3, <2>4, <2>5, Zenon
<1>6. ASSUME NEW i \in DOMAIN old PROVE \E j \in DOMAIN new : new[j] = old[i]
  <2>1. i \in 1..(Len(s) + Len(z))
    BY <1>1
  <2>2. CASE i <= Len(s)
    <3>1. i \in DOMAIN new
      BY <1>1, <1>2, <1>3, <2>1
    <3> QED
      BY <1>5, <2>2, <3>1
  <2>3. CASE i > Len(s)
    <3>1. i + 1 \in DOMAIN new /\ i + 1 > Len(s) + 1 /\ (i + 1) - 1 = i
      BY <1>1, <1>2, <1>3, <2>1, <2>3
    <3>2. new[i + 1] = old[(i + 1) - 1]
      BY <1>5, <3>1
    <3> QED
      BY <3>1, <3>2
  <2>4. i <= Len(s) \/ i > Len(s)
    BY <1>1, <2>1
  <2> QED
    BY <2>2, <2>3, <2>4, Zenon
<1>7. new[Len(s) + 1] = e
  BY <1>1, <1>2, <1>3
<1>8. DOMAIN new = 1..(Len(s) + Len(z) + 1)
  BY <1>1, <1>2, <1>3
<1> QED
  BY <1>1, <1>5, <1>6, <1>7, <1>8, Zenon DEF PutBetween

\* A message more of caller c.
LEMMA AskedMore ==
  ASSUME NEW a \in [Callers -> Seq(AllMessages)], NEW c \in Callers, NEW m \in AllMessages
  PROVE  LET b == [a EXCEPT ![c] = Append(@, m)]
             k == Len(a[c]) + 1
         IN /\ b \in [Callers -> Seq(AllMessages)] /\ k \in Nat
            /\ k \in DOMAIN b[c] /\ b[c][k] = m
            /\ \A d \in Callers : \A j \in DOMAIN a[d] : j \in DOMAIN b[d] /\ b[d][j] = a[d][j]
            /\ \A d \in Callers : \A j \in DOMAIN b[d] : j \in DOMAIN a[d] \/ (d = c /\ j = k)
            /\ \A j \in DOMAIN a[c] : j \in Nat /\ j < k
<1> DEFINE b == [a EXCEPT ![c] = Append(@, m)]
           k == Len(a[c]) + 1
<1>1. a[c] \in Seq(AllMessages)
  OBVIOUS
<1>2. /\ Append(a[c], m) \in Seq(AllMessages) /\ Len(a[c]) \in Nat
      /\ DOMAIN Append(a[c], m) = 1..(Len(a[c]) + 1) /\ DOMAIN a[c] = 1..Len(a[c])
      /\ \A i \in 1..Len(a[c]) : Append(a[c], m)[i] = a[c][i]
      /\ Append(a[c], m)[Len(a[c]) + 1] = m
  BY <1>1, Appended
<1>3. b[c] = Append(a[c], m) /\ \A d \in Callers : d # c => b[d] = a[d]
  BY Zenon
<1>4. b \in [Callers -> Seq(AllMessages)]
  BY <1>2, Zenon
<1> HIDE DEF b
<1>5. k \in Nat /\ k \in DOMAIN b[c] /\ b[c][k] = m
  BY <1>2, <1>3
<1>6. \A j \in DOMAIN a[c] : j \in Nat /\ j < k /\ j \in DOMAIN b[c] /\ b[c][j] = a[c][j]
  BY <1>2, <1>3
<1>7. \A j \in DOMAIN b[c] : j \in DOMAIN a[c] \/ j = k
  BY <1>2, <1>3
<1> HIDE DEF k
<1>8. ASSUME NEW d \in Callers, NEW j \in DOMAIN a[d] PROVE j \in DOMAIN b[d] /\ b[d][j] = a[d][j]
  BY <1>3, <1>6, Zenon
<1>9. ASSUME NEW d \in Callers, NEW j \in DOMAIN b[d] PROVE j \in DOMAIN a[d] \/ (d = c /\ j = k)
  BY <1>3, <1>7, Zenon
<1> QED
  BY <1>4, <1>5, <1>6, <1>8, <1>9, Zenon DEF b, k

\* The next message of caller c goes in behind s, and none of c's waits in z: each message is
\* still there once and in its turn (send, in the loop and in another thread).
LEMMA NextInTurn ==
  ASSUME NEW s \in Seq(Functor), NEW z \in Seq(Functor), NEW c \in Callers, NEW m \in AllMessages,
         NEW a \in [Callers -> Seq(AllMessages)], NEW e \in Functor,
         e.op = "send", e.m = m, e.from = c, e.n = Len(a[c]) + 1,
         \A i \in DOMAIN z : ~(z[i].op = "send" /\ z[i].from = c),
         EachInTurn(s \o z, a)
  PROVE  EachInTurn(Append(s, e) \o z, [a EXCEPT ![c] = Append(@, m)])
<1> DEFINE old == s \o z
           new == Append(s, e) \o z
           p   == Len(s) + 1
           b   == [a EXCEPT ![c] = Append(@, m)]
           k   == Len(a[c]) + 1
<1>1. /\ DOMAIN old = 1..(Len(s) + Len(z)) /\ DOMAIN new = 1..(Len(s) + Len(z) + 1)
      /\ Len(s) \in Nat /\ Len(z) \in Nat
      /\ new[p] = e
      /\ \A i \in DOMAIN new :
           /\ i <= Len(s) => i \in DOMAIN old /\ new[i] = old[i]
           /\ i > Len(s) + 1 => /\ i - 1 \in DOMAIN old /\ new[i] = old[i - 1]
                                /\ i - 1 - Len(s) \in DOMAIN z /\ new[i] = z[i - 1 - Len(s)]
      /\ \A i \in DOMAIN old : \E j \in DOMAIN new : new[j] = old[i]
  <2>1. PutBetween(s, e, z, old, new)
    BY PutIn, Zenon
  <2> QED
    BY <2>1, Zenon DEF PutBetween
<1>2. /\ k \in DOMAIN b[c] /\ b[c][k] = m
      /\ \A d \in Callers : \A j \in DOMAIN a[d] : j \in DOMAIN b[d] /\ b[d][j] = a[d][j]
      /\ \A d \in Callers : \A j \in DOMAIN b[d] : j \in DOMAIN a[d] \/ (d = c /\ j = k)
      /\ \A j \in DOMAIN a[c] : j \in Nat /\ j < k
  BY AskedMore
<1>e. EachInTurn(old, a)
  BY Zenon
<1>r. \A i \in DOMAIN old : old[i].op = "send" =>
        old[i].n \in DOMAIN a[old[i].from] /\ old[i].m = a[old[i].from][old[i].n]
  BY <1>e, Zenon DEF EachInTurn
<1>s. \A d \in Callers : \A j \in DOMAIN a[d] : \E i \in DOMAIN old :
        old[i].op = "send" /\ old[i].from = d /\ old[i].n = j
  BY <1>e, Zenon DEF EachInTurn
<1>t. \A i, j \in DOMAIN old :
        i < j /\ old[i].op = "send" /\ old[j].op = "send" /\ old[i].from = old[j].from
          => old[i].n < old[j].n
  BY <1>e, Zenon DEF EachInTurn
<1>4. \A i \in DOMAIN old : old[i] \in Functor
  <2>1. old \in Seq(Functor)
    BY Joined, Zenon
  <2> QED
    BY <2>1
<1>5. e.n = k
  OBVIOUS
<1> HIDE DEF old, new, b, k
<1>6. \A i \in DOMAIN new : i \in Int /\ (i < p \/ i = p \/ i > p)
  BY <1>1
<1>7. p \in DOMAIN new /\ \A i \in DOMAIN new : (i < p <=> i <= Len(s)) /\ (i > p <=> i > Len(s) + 1)
  BY <1>1
<1> HIDE DEF p
<1>8. ASSUME NEW i \in DOMAIN new, i # p
      PROVE  \E j \in DOMAIN old : new[i] = old[j]
  BY <1>1, <1>6, <1>7, <1>8, Zenon
<1>9. ASSUME NEW i \in DOMAIN new, new[i].op = "send"
      PROVE  new[i].n \in DOMAIN b[new[i].from] /\ new[i].m = b[new[i].from][new[i].n]
  <2>1. CASE i = p
    BY <1>1, <1>2, <1>5, <2>1, Zenon
  <2>2. CASE i # p
    <3>1. PICK j \in DOMAIN old : new[i] = old[j]
      BY <1>8, <2>2, Zenon
    <3>2. /\ new[i].from \in Callers
          /\ new[i].n \in DOMAIN a[new[i].from] /\ new[i].m = a[new[i].from][new[i].n]
      BY <1>r, <1>4, <1>9, <3>1, SendType, Zenon
    <3> QED
      BY <1>2, <3>2, Zenon
  <2> QED
    BY <2>1, <2>2, Zenon
<1>10. ASSUME NEW d \in Callers, NEW j \in DOMAIN b[d]
       PROVE  \E i \in DOMAIN new : new[i].op = "send" /\ new[i].from = d /\ new[i].n = j
  <2>1. CASE d = c /\ j = k
    BY <1>1, <1>5, <1>7, <2>1, Zenon
  <2>2. CASE j \in DOMAIN a[d]
    <3>1. PICK i \in DOMAIN old : old[i].op = "send" /\ old[i].from = d /\ old[i].n = j
      BY <1>s, <2>2, Zenon
    <3>2. PICK h \in DOMAIN new : new[h] = old[i]
      BY <1>1, Zenon
    <3> QED
      BY <3>1, <3>2, Zenon
  <2> QED
    BY <1>2, <2>1, <2>2, Zenon
<1>11. ASSUME NEW i \in DOMAIN new, NEW j \in DOMAIN new, i < j,
              new[i].op = "send", new[j].op = "send", new[i].from = new[j].from
       PROVE  new[i].n < new[j].n
  <2>1. CASE i = p
    <3>1. j > p
      BY <1>6, <1>11, <2>1
    <3>2. j - 1 - Len(s) \in DOMAIN z /\ new[j] = z[j - 1 - Len(s)]
      BY <1>1, <1>7, <3>1, Zenon
    <3>3. new[j].from = c
      BY <1>1, <1>11, <2>1, Zenon
    <3> QED
      BY <1>11, <3>2, <3>3, Zenon
  <2>2. CASE j = p
    <3>1. i # p
      BY <1>6, <1>11, <2>2
    <3>2. PICK h \in DOMAIN old : new[i] = old[h]
      BY <1>8, <3>1, Zenon
    <3>3. new[i].from = c
      BY <1>1, <1>11, <2>2, Zenon
    <3>4. new[i].n \in DOMAIN a[c]
      BY <1>r, <1>11, <3>2, <3>3, Zenon
    <3>5. new[i].n < k
      BY <1>2, <3>4, Zenon
    <3> QED
      BY <1>1, <1>5, <2>2, <3>5, Zenon
  <2>3. CASE i # p /\ j # p
    <3>1. \E g, h \in DOMAIN old : g < h /\ new[i] = old[g] /\ new[j] = old[h]
      <4>1. CASE j < p
        <5>1. i < p
          BY <1>6, <1>7, <1>11, <4>1
        <5> QED
          BY <1>1, <1>7, <1>11, <4>1, <5>1, Zenon
      <4>2. CASE i > p
        <5>1. j > p /\ i - 1 < j - 1
          BY <1>6, <1>7, <1>11, <4>2
        <5> QED
          BY <1>1, <1>7, <4>2, <5>1, Zenon
      <4>3. CASE i < p /\ j > p
        <5>1. i < j - 1
          BY <1>1, <1>6, <4>3 DEF p
        <5> QED
          BY <1>1, <1>7, <4>3, <5>1, Zenon
      <4> QED
        BY <1>6, <2>3, <4>1, <4>2, <4>3, Zenon
    <3> QED
      BY <1>t, <1>11, <3>1, Zenon
  <2> QED
    BY <2>1, <2>2, <2>3, Zenon
<1>12. EachInTurn(new, b)
  BY <1>9, <1>10, <1>11, Zenon DEF EachInTurn
<1> QED
  BY <1>12, Zenon DEF new, b

\* Concatenation of three sequences of functors (ConcatAssociative).
LEMMA AssocLine ==
  ASSUME NEW s \in Seq(Functor), NEW t \in Seq(Functor), NEW u \in Seq(Functor)
  PROVE  (s \o t) \o u = s \o (t \o u)
BY ConcatAssociative

\* The line is the same when its first pending functor is run.
LEMMA LineSame ==
  ASSUME NEW s \in Seq(Functor), NEW z \in Seq(Functor), z # <<>>
  PROVE  Append(s, Head(z)) \o Tail(z) = s \o z
<1>1. Head(z) \in Functor /\ Tail(z) \in Seq(Functor) /\ z = <<Head(z)>> \o Tail(z)
  BY HeadTailProperties, SMTT(30)
<1>2. <<Head(z)>> \in Seq(Functor) /\ Append(s, Head(z)) = s \o <<Head(z)>>
  BY <1>1, AppendIsConcat
<1>3. (s \o <<Head(z)>>) \o Tail(z) = s \o (<<Head(z)>> \o Tail(z))
  BY <1>1, <1>2, AssocLine, Zenon
<1> QED
  BY <1>1, <1>2, <1>3, Zenon

\* The line grows by the functor that is queued.
LEMMA LineGrows ==
  ASSUME NEW s \in Seq(Functor), NEW z \in Seq(Functor), NEW f \in Functor
  PROVE  s \o Append(z, f) = Append(s \o z, f)
<1>1. Append(z, f) = z \o <<f>> /\ <<f>> \in Seq(Functor)
  BY AppendIsConcat
<1>2. s \o z \in Seq(Functor)
  BY Joined, Zenon
<1>3. Append(s \o z, f) = (s \o z) \o <<f>>
  BY <1>2, AppendIsConcat, Zenon
<1>4. (s \o z) \o <<f>> = s \o (z \o <<f>>)
  BY <1>1, AssocLine, Zenon
<1> QED
  BY <1>1, <1>3, <1>4, Zenon

\* The functor of a shutdown() changes nothing for the messages.
LEMMA ShutdownInTurn ==
  ASSUME NEW s \in Seq(Functor), NEW f \in Functor, f.op = "shutdown", NEW a, EachInTurn(s, a)
  PROVE  EachInTurn(Append(s, f), a)
<1> DEFINE new == Append(s, f)
<1>1. /\ DOMAIN new = 1..(Len(s) + 1) /\ DOMAIN s = 1..Len(s) /\ Len(s) \in Nat
      /\ \A i \in 1..Len(s) : new[i] = s[i]
      /\ new[Len(s) + 1] = f
  BY Appended
<1> HIDE DEF new
<1>2. ASSUME NEW i \in DOMAIN new, new[i].op = "send" PROVE i \in DOMAIN s /\ new[i] = s[i]
  <2>1. i \in 1..Len(s) \/ i = Len(s) + 1
    BY <1>1
  <2> QED
    BY <1>1, <1>2, <2>1, Zenon
<1>3. \A i \in DOMAIN s : i \in DOMAIN new /\ new[i] = s[i]
  BY <1>1
<1>4. ASSUME NEW i \in DOMAIN new, new[i].op = "send"
      PROVE  new[i].n \in DOMAIN a[new[i].from] /\ new[i].m = a[new[i].from][new[i].n]
  BY <1>2, <1>4, ZenonT(30) DEF EachInTurn
<1>5. ASSUME NEW c \in Callers, NEW k \in DOMAIN a[c]
      PROVE  \E i \in DOMAIN new : new[i].op = "send" /\ new[i].from = c /\ new[i].n = k
  <2>1. \A d \in Callers : \A h \in DOMAIN a[d] : \E i \in DOMAIN s :
          s[i].op = "send" /\ s[i].from = d /\ s[i].n = h
    BY Zenon DEF EachInTurn
  <2>2. PICK i \in DOMAIN s : s[i].op = "send" /\ s[i].from = c /\ s[i].n = k
    BY <2>1
  <2> QED
    BY <1>3, <2>2, Zenon
<1>6. ASSUME NEW i \in DOMAIN new, NEW j \in DOMAIN new, i < j,
             new[i].op = "send", new[j].op = "send", new[i].from = new[j].from
      PROVE  new[i].n < new[j].n
  BY <1>2, <1>6, Zenon DEF EachInTurn
<1>7. EachInTurn(new, a)
  BY <1>4, <1>5, <1>6, Zenon DEF EachInTurn
<1> QED
  BY <1>7, Zenon DEF new
-----------------------------------------------------------------------------
(* The bytes of each message. *)

\* No offset is behind the bytes that sendInLoop has taken.
Within == \A i \in DOMAIN ends : ends[i] <= Len(sent)

\* The bytes taken with one functor more are those of its message (sendInLoop).
LEMMA TakesWhole ==
  ASSUME NEW f \in Functor, NEW bytes \in Seq(Bytes), bytes = BytesOf(f), Takes(f, bytes),
         taken \in Seq(Functor), ends \in Seq(Nat), sent \in Seq(Bytes), Whole, Within
  PROVE  /\ taken' \in Seq(Functor) /\ ends' \in Seq(Nat) /\ sent' \in Seq(Bytes)
         /\ Whole' /\ Within'
<1>k. PICK k \in Nat : k = Len(taken)
  BY LenProperties
<1>1. /\ Len(sent) \in Nat /\ Len(bytes) \in Nat /\ sent' \in Seq(Bytes)
      /\ Len(sent') = Len(sent) + Len(bytes)
  BY ConcatProperties, LenProperties DEF Takes
<1>2. /\ taken' \in Seq(Functor) /\ Len(taken') = k + 1 /\ k \in Nat /\ DOMAIN taken' = 1..(k + 1)
      /\ taken'[k + 1] = f /\ DOMAIN taken = 1..k
      /\ \A i \in 1..k : taken'[i] = taken[i]
  BY <1>k, Appended DEF Takes
<1>3. Len(ends) = k /\ Start(k + 1) = Len(sent)
  BY <1>k DEF Whole
<1>4. /\ ends' \in Seq(Nat) /\ Len(ends') = k + 1 /\ DOMAIN ends' = 1..(k + 1)
      /\ ends'[k + 1] = Len(sent') /\ DOMAIN ends = 1..k
      /\ \A i \in 1..k : ends'[i] = ends[i] /\ ends[i] \in Nat
  <2>1. Len(sent') \in Nat /\ ends' = Append(ends, Len(sent'))
    BY <1>1 DEF Takes
  <2>2. /\ Append(ends, Len(sent')) \in Seq(Nat) /\ Len(Append(ends, Len(sent'))) = Len(ends) + 1
        /\ DOMAIN Append(ends, Len(sent')) = 1..(Len(ends) + 1) /\ DOMAIN ends = 1..Len(ends)
        /\ \A i \in 1..Len(ends) : Append(ends, Len(sent'))[i] = ends[i]
        /\ Append(ends, Len(sent'))[Len(ends) + 1] = Len(sent')
    BY <2>1, Appended
  <2>3. \A i \in DOMAIN ends : ends[i] \in Nat
    OBVIOUS
  <2> QED
    BY <1>3, <2>1, <2>2, <2>3, Zenon
<1>5. Within'
  <2>1. ASSUME NEW i \in 1..k PROVE ends'[i] <= Len(sent')
    <3>1. ends[i] <= Len(sent)
      BY <1>4, Zenon DEF Within
    <3> QED
      BY <1>1, <1>4, <3>1
  <2>2. ends'[k + 1] <= Len(sent')
    BY <1>1, <1>4
  <2>3. \A i \in DOMAIN ends' : i \in 1..k \/ i = k + 1
    BY <1>2, <1>4
  <2> QED
    BY <2>1, <2>2, <2>3, Zenon DEF Within
<1>6. \A i \in 1..(k + 1) : Start(i)' = Start(i) /\ Start(i) \in Nat
  <2> TAKE i \in 1..(k + 1)
  <2>1. CASE i = 1
    BY <2>1 DEF Start
  <2>2. CASE i # 1
    <3>1. i - 1 \in 1..k
      BY <1>2, <2>2
    <3> QED
      BY <1>4, <2>2, <3>1 DEF Start
  <2> QED
    BY <2>1, <2>2
<1>7. Start(k + 2)' = Len(sent')
  <2>1. k + 2 # 1 /\ (k + 2) - 1 = k + 1
    BY <1>2
  <2> QED
    BY <1>4, <2>1 DEF Start
<1>8. ASSUME NEW i \in 1..k
      PROVE  /\ ends'[i] = Start(i)' + Len(BytesOf(taken'[i]))
             /\ SubSeq(sent', Start(i)' + 1, ends'[i]) = BytesOf(taken'[i])
  <2>1. /\ ends[i] = Start(i) + Len(BytesOf(taken[i]))
        /\ SubSeq(sent, Start(i) + 1, ends[i]) = BytesOf(taken[i])
    BY <1>2, Zenon DEF Whole
  <2>2. ends[i] <= Len(sent) /\ ends[i] \in Nat
    BY <1>4, Zenon DEF Within
  <2>3. i \in 1..(k + 1)
    BY <1>2
  <2>4. Start(i) \in Nat /\ Start(i)' = Start(i)
    BY <1>6, <2>3, Zenon
  <2>5. Start(i) <= ends[i]
    <3>1. taken[i] \in Functor
      BY <1>2
    <3>2. Len(BytesOf(taken[i])) \in Nat
      BY <3>1, BytesType, LenProperties
    <3> QED
      BY <2>1, <2>4, <3>2
  <2>6. SubSeq(sent \o bytes, Start(i) + 1, ends[i]) = SubSeq(sent, Start(i) + 1, ends[i])
    BY <2>2, <2>4, <2>5, PartKept, ZenonT(30)
  <2>7. sent' = sent \o bytes /\ taken'[i] = taken[i] /\ ends'[i] = ends[i]
    BY <1>2, <1>4 DEF Takes
  <2> QED
    BY <2>1, <2>4, <2>6, <2>7, Zenon DEF BytesOf
<1>9. /\ ends'[k + 1] = Start(k + 1)' + Len(BytesOf(taken'[k + 1]))
      /\ SubSeq(sent', Start(k + 1)' + 1, ends'[k + 1]) = BytesOf(taken'[k + 1])
  <2>1. Start(k + 1)' = Len(sent)
    <3>1. k + 1 \in 1..(k + 1)
      OBVIOUS
    <3> QED
      BY <1>3, <1>6, <3>1, Zenon
  <2>2. sent' = sent \o bytes /\ BytesOf(taken'[k + 1]) = bytes
    BY <1>2 DEF Takes, BytesOf
  <2>3. ends'[k + 1] = Len(sent) + Len(bytes)
    BY <1>1, <1>4
  <2>4. SubSeq(sent \o bytes, Len(sent) + 1, Len(sent) + Len(bytes)) = bytes
    BY PartAdded, Zenon
  <2> QED
    BY <2>1, <2>2, <2>3, <2>4, Zenon
<1>10. Whole'
  <2>1. \A i \in DOMAIN taken' : i \in 1..k \/ i = k + 1
    BY <1>2
  <2>2. \A i \in DOMAIN taken' :
          /\ ends'[i] = Start(i)' + Len(BytesOf(taken'[i]))
          /\ SubSeq(sent', Start(i)' + 1, ends'[i]) = BytesOf(taken'[i])
    BY <1>8, <1>9, <2>1, Zenon
  <2>3. Start(Len(taken) + 1)' = Len(sent')
    <3>1. Len(taken') + 1 = k + 2
      BY <1>2
    <3> QED
      BY <1>7, <3>1 DEF Start
  <2>4. Len(ends') = Len(taken')
    BY <1>2, <1>4
  <2> QED
    BY <2>2, <2>3, <2>4, Zenon DEF Whole, BytesOf
<1> QED
  BY <1>1, <1>2, <1>4, <1>5, <1>10, Zenon
-----------------------------------------------------------------------------
(* The inductive invariant: the types, the three properties, where the offsets are, and that   *)
(* the functors of send() are other threads': the loop's own messages pass them.               *)

Turn == EachInTurn(taken \o pending, asked)

Foreign == \A i \in DOMAIN pending : pending[i].op = "send" => pending[i].from \in Threads

OutputInv ==
  /\ TypeOK /\ StreamInOrder /\ DrainedBeforeShutdown /\ HighWaterReported
  /\ Turn /\ Foreign /\ Whole /\ Within

\* The variables of the stream, and those of the line of functors.
stream == <<writing, buffer, highWaterMark, wire, shut, sent, crossed, late>>
line   == <<pending, asked, taken, ends, sent>>

\* The order of the line after a step.
LEMMA TurnNext ==
  ASSUME NEW s, s = taken' \o pending', NEW a, a = asked', EachInTurn(s, a)
  PROVE  Turn'
BY SMTT(30) DEF Turn, EachInTurn

\* The invariant holds of a connection that has just been established.
LEMMA InitOutput == Init => OutputInv
<1> SUFFICES ASSUME Init PROVE OutputInv
  OBVIOUS
<1>1. TypeOK
  <2>1. asked \in [Callers -> Seq(AllMessages)]
    BY DEF Init
  <2>2. call \in [Threads -> {Idle} \cup Calls \cup [op : {"store"}]]
    BY DEF Init
  <2>3. buffer \in Seq(Bytes) /\ wire \in Seq(Bytes) /\ sent \in Seq(Bytes) /\ pending \in Seq(Functor)
    BY DEF Init
  <2>4. taken \in Seq(Functor) /\ ends \in Seq(Nat)
    BY DEF Init
  <2> QED
    BY <2>1, <2>2, <2>3, <2>4, Zenon DEF Init, TypeOK
<1>2. StreamInOrder
  BY DEF Init, StreamInOrder
<1>3. DrainedBeforeShutdown
  BY DEF Init, DrainedBeforeShutdown
<1>4. HighWaterReported
  <2>1. Len(<<>>) = 0 /\ highWaterMark \in Nat
    BY OutputAssumption DEF Init
  <2> QED
    BY <2>1 DEF Init, HighWaterReported
<1>5. Turn
  <2>1. DOMAIN (taken \o pending) = {}
    BY DEF Init
  <2>2. \A c \in Callers : DOMAIN asked[c] = {}
    BY DEF Init
  <2> QED
    BY <2>1, <2>2, Zenon DEF Turn, EachInTurn
<1>6. Whole
  <2>1. Len(taken) = 0 /\ Len(ends) = 0 /\ Len(sent) = 0 /\ DOMAIN taken = {} /\ 0 + 1 = 1
    BY DEF Init
  <2> QED
    BY <2>1, Zenon DEF Whole, Start
<1>7. Foreign /\ Within
  BY DEF Init, Foreign, Within
<1> QED
  BY <1>1, <1>2, <1>3, <1>4, <1>5, <1>6, <1>7 DEF OutputInv

\* sendInLoop keeps the order of the bytes and the other properties.
LEMMA SendInLoopKeeps ==
  ASSUME OutputInv, NEW f \in Functor, f.op = "send", NEW how \in {"silent", "reported"},
         SendInLoop(f, how), shut' = shut, highWaterMark' = highWaterMark
  PROVE  /\ writing' \in BOOLEAN /\ late' \in BOOLEAN /\ buffer' \in Seq(Bytes)
         /\ wire' \in Seq(Bytes) /\ sent' \in Seq(Bytes)
         /\ crossed' \in {"no", "reported", "silent"}
         /\ taken' \in Seq(Functor) /\ ends' \in Seq(Nat) /\ taken' = Append(taken, f)
         /\ StreamInOrder' /\ DrainedBeforeShutdown' /\ HighWaterReported' /\ Whole' /\ Within'
<1>t. /\ buffer \in Seq(Bytes) /\ wire \in Seq(Bytes) /\ sent \in Seq(Bytes)
      /\ writing \in BOOLEAN /\ shut \in BOOLEAN /\ late \in BOOLEAN
      /\ crossed \in {"no", "reported", "silent"} /\ highWaterMark \in Nat
      /\ taken \in Seq(Functor) /\ ends \in Seq(Nat)
  BY OutputAssumption DEF OutputInv, TypeOK
<1>0. PICK m \in Seq(Bytes) : m = f.m /\ m = BytesOf(f)
  BY BytesType, Zenon DEF BytesOf
<1>1. PICK n \in DirectWrites(m) :
        /\ wire' = wire \o SubSeq(m, 1, n)
        /\ buffer' = buffer \o From(m, n + 1)
        /\ writing' = (writing \/ From(m, n + 1) # <<>>)
        /\ crossed' = IF /\ From(m, n + 1) # <<>>
                         /\ Crosses(Len(buffer), Len(buffer \o From(m, n + 1))) THEN how
                      ELSE crossed
        /\ Takes(f, m)
        /\ late' = (late \/ shut)
  BY <1>0, Zenon DEF SendInLoop
<1>2. /\ n \in 0..Len(m)
      /\ buffer = <<>> \/ n = 0
      /\ shut => n = 0
  BY LenProperties DEF DirectWrites
<1> DEFINE rest == From(m, n + 1)
<1>3. /\ SubSeq(m, 1, n) \in Seq(Bytes) /\ rest \in Seq(Bytes) /\ Len(rest) = Len(m) - n
  BY <1>2, Cut
<1>4. /\ buffer' \in Seq(Bytes) /\ wire' \in Seq(Bytes)
      /\ Len(buffer') = Len(buffer) + Len(rest)
      /\ buffer' = <<>> <=> buffer = <<>> /\ rest = <<>>
  BY <1>t, <1>1, <1>3, ConcatProperties, ConcatEqualIffEmpty
<1>5. StreamInOrder'
  <2>1. wire' \o buffer' = (wire \o buffer) \o m
    BY <1>t, <1>1, <1>2, StreamGrows, ZenonT(30)
  <2> QED
    BY <1>1, <2>1, Zenon DEF OutputInv, StreamInOrder, Takes
<1>6. DrainedBeforeShutdown'
  BY <1>t, <1>1, <1>4, Zenon DEF OutputInv, DrainedBeforeShutdown
<1>7. HighWaterReported'
  <2>1. Len(buffer) \in Nat /\ Len(rest) \in Nat /\ (rest = <<>> <=> Len(rest) = 0)
    BY <1>t, <1>3, EmptyIffZero
  <2>2. Len(buffer \o rest) = Len(buffer) + Len(rest)
    BY <1>1, <1>4
  <2>3. crossed # "no" <=> highWaterMark > 0 /\ Len(buffer) >= highWaterMark
    BY DEF OutputInv, HighWaterReported
  <2>4. crossed' # "no" <=> \/ crossed # "no"
                            \/ rest # <<>> /\ Crosses(Len(buffer), Len(buffer \o rest))
    BY <1>1
  <2> HIDE DEF rest
  <2>5. crossed' # "no" <=> highWaterMark > 0 /\ Len(buffer') >= highWaterMark
    BY <1>t, <1>4, <2>1, <2>2, <2>3, <2>4 DEF Crosses
  <2> QED
    BY <2>5 DEF HighWaterReported
<1>8. writing' \in BOOLEAN /\ late' \in BOOLEAN /\ crossed' \in {"no", "reported", "silent"}
  BY <1>t, <1>1
<1>9. /\ taken' \in Seq(Functor) /\ ends' \in Seq(Nat) /\ sent' \in Seq(Bytes)
      /\ Whole' /\ Within'
  BY <1>t, <1>0, <1>1, TakesWhole, Zenon DEF OutputInv
<1>10. taken' = Append(taken, f)
  BY <1>1, Zenon DEF Takes
<1> QED
  BY <1>4, <1>5, <1>6, <1>7, <1>8, <1>9, <1>10, Zenon

\* shutdownInLoop shuts the write side down only when no output waits.
LEMMA ShutdownInLoopKeeps ==
  ASSUME OutputInv, ShutdownInLoop,
         UNCHANGED <<writing, buffer, highWaterMark, crossed, late>>
  PROVE  shut' \in BOOLEAN /\ DrainedBeforeShutdown' /\ HighWaterReported'
<1>1. shut' \in BOOLEAN
  BY DEF OutputInv, TypeOK, ShutdownInLoop
<1>2. HighWaterReported'
  BY DEF OutputInv, HighWaterReported
<1>3. DrainedBeforeShutdown'
  BY Zenon DEF OutputInv, DrainedBeforeShutdown, ShutdownInLoop
<1> QED
  BY <1>1, <1>2, <1>3

\* A step that leaves the stream alone keeps the properties.
LEMMA StreamUnchanged ==
  ASSUME OutputInv, UNCHANGED stream
  PROVE  StreamInOrder' /\ DrainedBeforeShutdown' /\ HighWaterReported'
BY DEF OutputInv, stream, StreamInOrder, DrainedBeforeShutdown, HighWaterReported

\* A step in which sendInLoop takes nothing.
LEMMA TakenUnchanged ==
  ASSUME OutputInv, UNCHANGED <<taken, ends, sent>>
  PROVE  Whole' /\ Within'
BY Zenon DEF OutputInv, Whole, Within, Start, BytesOf

\* A step that leaves the line of functors alone.
LEMMA LineUnchanged ==
  ASSUME OutputInv, UNCHANGED line
  PROVE  Turn' /\ Foreign' /\ Whole' /\ Within'
<1>1. UNCHANGED <<pending, asked, taken, ends, sent>>
  BY Zenon DEF line
<1>2. Turn' /\ Foreign'
  <2>1. EachInTurn(taken \o pending, asked)
    BY Zenon DEF OutputInv, Turn
  <2>2. Turn'
    BY <1>1, <2>1, TurnNext, Zenon
  <2> QED
    BY <1>1, <2>2, Zenon DEF OutputInv, Foreign
<1> QED
  BY <1>1, <1>2, TakenUnchanged, Zenon

\* The first functor is run: it moves to the end of the functors run.
LEMMA FunctorRuns ==
  ASSUME OutputInv, pending # <<>>, pending' = Tail(pending), taken' = Append(taken, Head(pending)),
         asked' = asked
  PROVE  Head(pending) \in Functor /\ pending' \in Seq(Functor) /\ Turn' /\ Foreign'
<1>1. pending \in Seq(Functor) /\ taken \in Seq(Functor)
  BY Zenon DEF OutputInv, TypeOK
<1>2. Head(pending) \in Functor /\ Tail(pending) \in Seq(Functor)
  BY <1>1, HeadTailProperties
<1>3. taken' \o pending' = taken \o pending
  BY <1>1, LineSame, Zenon
<1>4. Turn'
  <2>1. EachInTurn(taken \o pending, asked)
    BY Zenon DEF OutputInv, Turn
  <2> QED
    BY <1>3, <2>1, TurnNext, Zenon
<1>5. \A i \in DOMAIN pending' : i + 1 \in DOMAIN pending /\ pending'[i] = pending[i + 1]
  BY <1>1, HeadTailProperties
<1>6. Foreign'
  BY <1>5, Zenon DEF OutputInv, Foreign
<1> QED
  BY <1>2, <1>4, <1>6, Zenon

\* The functor of a send() in another thread.
LEMMA SendFunctorKeeps == OutputInv /\ SendFunctor => OutputInv'
<1> SUFFICES ASSUME OutputInv, SendFunctor PROVE OutputInv'
  OBVIOUS
<1>1. /\ pending # <<>> /\ Head(pending).op = "send" /\ SendInLoop(Head(pending), "silent")
      /\ pending' = Tail(pending) /\ UNCHANGED <<state, highWaterMark, call, shut, asked, sends>>
  BY Zenon DEF SendFunctor
<1>2. Head(pending) \in Functor
  <2>1. pending \in Seq(Functor)
    BY Zenon DEF OutputInv, TypeOK
  <2> QED
    BY <1>1, <2>1, HeadTailProperties
<1>3. /\ writing' \in BOOLEAN /\ late' \in BOOLEAN /\ buffer' \in Seq(Bytes)
      /\ wire' \in Seq(Bytes) /\ sent' \in Seq(Bytes)
      /\ crossed' \in {"no", "reported", "silent"}
      /\ taken' \in Seq(Functor) /\ ends' \in Seq(Nat) /\ taken' = Append(taken, Head(pending))
      /\ StreamInOrder' /\ DrainedBeforeShutdown' /\ HighWaterReported' /\ Whole' /\ Within'
  BY <1>1, <1>2, SendInLoopKeeps
<1>4. pending' \in Seq(Functor) /\ Turn' /\ Foreign'
  BY <1>1, <1>3, FunctorRuns, Zenon
<1>5. TypeOK'
  BY <1>1, <1>3, <1>4, Zenon DEF OutputInv, TypeOK
<1> QED
  BY <1>3, <1>4, <1>5, Zenon DEF OutputInv

\* The functor of a shutdown() in another thread.
LEMMA ShutdownFunctorKeeps == OutputInv /\ ShutdownFunctor => OutputInv'
<1> SUFFICES ASSUME OutputInv, ShutdownFunctor PROVE OutputInv'
  OBVIOUS
<1>1. /\ pending # <<>> /\ Head(pending).op = "shutdown" /\ ShutdownInLoop
      /\ pending' = Tail(pending) /\ Takes(Head(pending), <<>>)
      /\ UNCHANGED <<state, writing, buffer, highWaterMark, call, wire, asked, crossed, late, sends>>
  BY Zenon DEF ShutdownFunctor
<1>2. taken' = Append(taken, Head(pending)) /\ sent' = sent \o <<>>
  BY <1>1, Zenon DEF Takes
<1>3. Head(pending) \in Functor /\ pending' \in Seq(Functor) /\ Turn' /\ Foreign'
  BY <1>1, <1>2, FunctorRuns, Zenon
<1>4. /\ taken \in Seq(Functor) /\ ends \in Seq(Nat) /\ sent \in Seq(Bytes)
      /\ <<>> \in Seq(Bytes) /\ <<>> = BytesOf(Head(pending))
  BY <1>1 DEF OutputInv, TypeOK, BytesOf
<1>5. /\ taken' \in Seq(Functor) /\ ends' \in Seq(Nat) /\ sent' \in Seq(Bytes)
      /\ Whole' /\ Within'
  <2>1. PICK none \in Seq(Bytes) : none = <<>>
    BY <1>4, Zenon
  <2> QED
    BY <1>1, <1>3, <1>4, <2>1, TakesWhole, Zenon DEF OutputInv
<1>6. shut' \in BOOLEAN /\ DrainedBeforeShutdown' /\ HighWaterReported'
  BY <1>1, ShutdownInLoopKeeps
<1>7. StreamInOrder'
  <2>1. sent' = sent
    BY <1>2, <1>4, ConcatEmptySeq
  <2> QED
    BY <1>1, <2>1, Zenon DEF OutputInv, StreamInOrder
<1>8. TypeOK'
  BY <1>1, <1>3, <1>5, <1>6, Zenon DEF OutputInv, TypeOK
<1> QED
  BY <1>3, <1>5, <1>6, <1>7, <1>8, Zenon DEF OutputInv

\* What send() records of the next message of a caller.
LEMMA NextFunctor ==
  ASSUME NEW c \in Callers, NEW m \in AllMessages, asked \in [Callers -> Seq(AllMessages)]
  PROVE  /\ Fn(c, m) \in Functor /\ Fn(c, m).op = "send" /\ Fn(c, m).m = m
         /\ Fn(c, m).from = c /\ Fn(c, m).n = Len(asked[c]) + 1
         /\ [asked EXCEPT ![c] = Append(@, m)] \in [Callers -> Seq(AllMessages)]
<1>1. asked[c] \in Seq(AllMessages)
  OBVIOUS
<1>2. Len(asked[c]) + 1 \in Nat /\ Append(asked[c], m) \in Seq(AllMessages)
  BY <1>1, LenProperties, AppendProperties
<1> QED
  BY <1>2, Zenon DEF Fn, Functor

\* send() in the loop's thread.
LEMMA SendKeeps ==
  ASSUME OutputInv, NEW m \in Messages[Loop], NEW how \in {"silent", "reported"}, Send(m, how)
  PROVE  OutputInv'
<1>1. Loop \in Callers
  BY DEF Callers
<1>2. m \in AllMessages
  BY <1>1, MessageType
<1>3. /\ SendInLoop(Fn(Loop, m), how) /\ asked' = [asked EXCEPT ![Loop] = Append(@, m)]
      /\ sends' = sends + 1 /\ UNCHANGED <<state, highWaterMark, pending, call, shut>>
  BY Zenon DEF Send
<1>t. /\ asked \in [Callers -> Seq(AllMessages)] /\ pending \in Seq(Functor)
      /\ taken \in Seq(Functor)
  BY Zenon DEF OutputInv, TypeOK
<1>4. PICK f \in Functor : f = Fn(Loop, m)
  BY <1>1, <1>2, <1>t, NextFunctor, Zenon
<1>5. /\ f.op = "send" /\ f.m = m /\ f.from = Loop /\ f.n = Len(asked[Loop]) + 1
      /\ asked' \in [Callers -> Seq(AllMessages)]
  BY <1>1, <1>2, <1>3, <1>4, <1>t, NextFunctor
<1>6. /\ writing' \in BOOLEAN /\ late' \in BOOLEAN /\ buffer' \in Seq(Bytes)
      /\ wire' \in Seq(Bytes) /\ sent' \in Seq(Bytes)
      /\ crossed' \in {"no", "reported", "silent"}
      /\ taken' \in Seq(Functor) /\ ends' \in Seq(Nat) /\ taken' = Append(taken, f)
      /\ StreamInOrder' /\ DrainedBeforeShutdown' /\ HighWaterReported' /\ Whole' /\ Within'
  BY <1>3, <1>4, <1>5, SendInLoopKeeps
<1>7. \A i \in DOMAIN pending : ~(pending[i].op = "send" /\ pending[i].from = Loop)
  BY OutputAssumption, Zenon DEF OutputInv, Foreign
<1>8. Turn'
  <2>1. EachInTurn(taken \o pending, asked)
    BY Zenon DEF OutputInv, Turn
  <2>2. EachInTurn(Append(taken, f) \o pending, [asked EXCEPT ![Loop] = Append(@, m)])
    BY <1>1, <1>2, <1>5, <1>7, <1>t, <2>1, NextInTurn, Zenon
  <2>3. taken' \o pending' = Append(taken, f) \o pending
    BY <1>3, <1>6, Zenon
  <2> QED
    BY <1>3, <2>2, <2>3, TurnNext, Zenon
<1>9. Foreign'
  BY <1>3, Zenon DEF OutputInv, Foreign
<1>10. TypeOK'
  BY <1>3, <1>5, <1>6 DEF OutputInv, TypeOK
<1> QED
  BY <1>6, <1>8, <1>9, <1>10, Zenon DEF OutputInv

\* shutdown() in the loop's thread.
LEMMA ShutdownKeeps == OutputInv /\ Shutdown => OutputInv'
<1> SUFFICES ASSUME OutputInv, Shutdown PROVE OutputInv'
  OBVIOUS
<1>1. /\ ShutdownInLoop /\ state' = "kDisconnecting"
      /\ UNCHANGED <<writing, buffer, highWaterMark, pending, call, wire>>
      /\ UNCHANGED <<asked, taken, ends, sent, crossed, late, sends>>
  BY DEF Shutdown, history
<1>2. shut' \in BOOLEAN /\ DrainedBeforeShutdown' /\ HighWaterReported'
  BY <1>1, ShutdownInLoopKeeps
<1>3. TypeOK'
  BY <1>1, <1>2 DEF OutputInv, TypeOK
<1>4. StreamInOrder'
  BY <1>1, Zenon DEF OutputInv, StreamInOrder
<1>5. Turn' /\ Foreign' /\ Whole' /\ Within'
  <2>1. line' = line
    BY <1>1, Zenon DEF line
  <2> QED
    BY <2>1, LineUnchanged, Zenon
<1> QED
  BY <1>2, <1>3, <1>4, <1>5, Zenon DEF OutputInv

\* handleWrite moves bytes from the buffer to the wire.
LEMMA HandleWriteKeeps ==
  ASSUME OutputInv, NEW n \in 1..Len(buffer), HandleWrite(n)
  PROVE  OutputInv'
<1>t. /\ buffer \in Seq(Bytes) /\ wire \in Seq(Bytes) /\ highWaterMark \in Nat
      /\ Len(buffer) \in Nat /\ crossed \in {"no", "reported", "silent"}
  BY OutputAssumption, EmptyIffZero DEF OutputInv, TypeOK
<1>1. /\ wire' = wire \o SubSeq(buffer, 1, n)
      /\ buffer' = From(buffer, n + 1)
      /\ writing' = (n < Len(buffer))
      /\ shut' = (n = Len(buffer) /\ state = "kDisconnecting")
      /\ crossed' = IF Len(buffer) - n < highWaterMark THEN "no" ELSE crossed
      /\ UNCHANGED <<state, highWaterMark, pending, call, asked, taken, ends, sent, late, sends>>
  BY DEF HandleWrite
<1>2. n \in 0..Len(buffer)
  BY <1>t
<1>3. /\ SubSeq(buffer, 1, n) \in Seq(Bytes) /\ buffer' \in Seq(Bytes)
      /\ Len(buffer') = Len(buffer) - n
  BY <1>t, <1>1, <1>2, Cut, ZenonT(30)
<1>4. wire' \in Seq(Bytes)
  BY <1>t, <1>1, <1>3, ConcatProperties
<1>5. buffer' = <<>> <=> n = Len(buffer)
  BY <1>t, <1>3, EmptyIffZero
<1>6. TypeOK'
  <2>1. writing' \in BOOLEAN /\ shut' \in BOOLEAN /\ crossed' \in {"no", "reported", "silent"}
    BY <1>t, <1>1
  <2> QED
    BY <1>1, <1>3, <1>4, <2>1, Zenon DEF OutputInv, TypeOK
<1>7. StreamInOrder'
  <2>1. wire' \o buffer' = wire \o buffer
    BY <1>t, <1>1, <1>2, StreamMoves, Zenon
  <2> QED
    BY <1>1, <2>1, Zenon DEF OutputInv, StreamInOrder
<1>8. DrainedBeforeShutdown'
  <2>1. writing' <=> n # Len(buffer)
    <3>1. (n < Len(buffer)) <=> n # Len(buffer)
      BY <1>t, <1>2
    <3>2. writing' = (n < Len(buffer))
      BY <1>1
    <3> QED
      BY <3>1, <3>2, Zenon
  <2>2. shut' => n = Len(buffer)
    BY <1>1, Zenon
  <2> QED
    BY <1>5, <2>1, <2>2 DEF DrainedBeforeShutdown
<1>9. HighWaterReported'
  <2>1. crossed # "no" <=> highWaterMark > 0 /\ Len(buffer) >= highWaterMark
    BY DEF OutputInv, HighWaterReported
  <2>2. crossed' # "no" <=> highWaterMark > 0 /\ Len(buffer') >= highWaterMark
    BY <1>t, <1>1, <1>2, <1>3, <2>1
  <2> QED
    BY <1>1, <2>2 DEF HighWaterReported
<1>10. Turn' /\ Foreign' /\ Whole' /\ Within'
  <2>1. line' = line
    BY <1>1, Zenon DEF line
  <2> QED
    BY <2>1, LineUnchanged, Zenon
<1> QED
  BY <1>6, <1>7, <1>8, <1>9, <1>10, Zenon DEF OutputInv

\* The test of state_ in another thread leaves the stream alone.
LEMMA ThreadTestsKeeps ==
  ASSUME OutputInv, NEW t \in Threads, NEW f \in Calls \cup [op : {"store"}], ThreadTests(t, f),
         sends' \in Nat
  PROVE  OutputInv'
<1>1. /\ call' = [call EXCEPT ![t] = f]
      /\ UNCHANGED <<state, writing, buffer, highWaterMark, pending, wire, shut>>
      /\ UNCHANGED <<asked, taken, ends, sent, crossed, late>>
  BY DEF ThreadTests
<1>2. call' \in [Threads -> {Idle} \cup Calls \cup [op : {"store"}]]
  BY <1>1 DEF OutputInv, TypeOK
<1>3. TypeOK'
  BY <1>1, <1>2 DEF OutputInv, TypeOK
<1>4. stream' = stream /\ line' = line
  BY <1>1, Zenon DEF stream, line
<1> QED
  BY <1>3, <1>4, StreamUnchanged, LineUnchanged, Zenon DEF OutputInv

\* send() and shutdown() in another thread up to that test.
LEMMA ThreadCallsKeep ==
  ASSUME OutputInv, NEW t \in Threads,
         ThreadShutsDown(t) \/ \E m \in Messages[t] : ThreadSends(t, m)
  PROVE  OutputInv'
<1>n. sends \in Nat
  BY DEF OutputInv, TypeOK
<1>1. CASE ThreadShutsDown(t)
  <2>1. ThreadTests(t, [op |-> "store"]) /\ sends' \in Nat
    BY <1>1, <1>n DEF ThreadShutsDown
  <2> QED
    BY <2>1, ThreadTestsKeeps
<1>2. CASE \E m \in Messages[t] : ThreadSends(t, m)
  <2>1. PICK m \in Messages[t] : ThreadSends(t, m)
    BY <1>2
  <2>2. ThreadTests(t, [op |-> "send", m |-> m]) /\ sends' \in Nat
    BY <1>n, <2>1 DEF ThreadSends
  <2>3. m \in AllMessages
    BY DEF AllMessages, Callers
  <2>4. [op |-> "send", m |-> m] \in Calls
    BY <2>3 DEF Calls
  <2> QED
    BY <2>2, <2>4, ThreadTestsKeeps
<1> QED
  BY <1>1, <1>2

\* The store to state_ in the shutdown() of another thread.
LEMMA ThreadStoresKeeps ==
  ASSUME OutputInv, NEW t \in Threads, ThreadStores(t)
  PROVE  OutputInv'
<1>1. /\ state' = "kDisconnecting" /\ call' = [call EXCEPT ![t] = [op |-> "shutdown"]]
      /\ UNCHANGED <<writing, buffer, highWaterMark, pending, wire, shut>>
      /\ UNCHANGED <<asked, taken, ends, sent, crossed, late, sends>>
  BY DEF ThreadStores, history
<1>2. [op |-> "shutdown"] \in Calls
  BY DEF Calls
<1>3. call' \in [Threads -> {Idle} \cup Calls \cup [op : {"store"}]]
  BY <1>1, <1>2 DEF OutputInv, TypeOK
<1>4. TypeOK'
  BY <1>1, <1>3 DEF OutputInv, TypeOK
<1>5. stream' = stream /\ line' = line
  BY <1>1, Zenon DEF stream, line
<1> QED
  BY <1>4, <1>5, StreamUnchanged, LineUnchanged, Zenon DEF OutputInv

\* A functor that other threads may queue goes to the end of the line.
LEMMA QueuedForeign ==
  ASSUME OutputInv, NEW f \in Functor, pending' = Append(pending, f), taken' = taken,
         f.op = "send" => f.from \in Threads
  PROVE  /\ pending' \in Seq(Functor) /\ Foreign'
         /\ taken \o pending \in Seq(Functor)
         /\ taken' \o pending' = Append(taken \o pending, f)
<1>1. pending \in Seq(Functor) /\ taken \in Seq(Functor)
  BY Zenon DEF OutputInv, TypeOK
<1>2. /\ Append(pending, f) \in Seq(Functor) /\ DOMAIN Append(pending, f) = 1..(Len(pending) + 1)
      /\ Len(pending) \in Nat /\ DOMAIN pending = 1..Len(pending)
      /\ \A i \in 1..Len(pending) : Append(pending, f)[i] = pending[i]
      /\ Append(pending, f)[Len(pending) + 1] = f
  BY <1>1, Appended
<1>3. \A i \in DOMAIN pending' : pending'[i] = f \/ (i \in DOMAIN pending /\ pending'[i] = pending[i])
  BY <1>2
<1>4. Foreign'
  BY <1>3, Zenon DEF OutputInv, Foreign
<1>5. taken \o Append(pending, f) = Append(taken \o pending, f)
  BY <1>1, LineGrows, Zenon
<1>6. taken \o pending \in Seq(Functor)
  BY <1>1, Joined, Zenon
<1> QED
  BY <1>2, <1>4, <1>5, <1>6, Zenon

\* queueInLoop, for send() and for shutdown() in another thread.
LEMMA ThreadQueuesKeeps ==
  ASSUME OutputInv, NEW t \in Threads, ThreadQueues(t)
  PROVE  OutputInv'
<1>t. /\ call \in [Threads -> {Idle} \cup Calls \cup [op : {"store"}]]
      /\ pending \in Seq(Functor) /\ asked \in [Callers -> Seq(AllMessages)] /\ t \in Callers
  BY Zenon DEF OutputInv, TypeOK, Callers
<1>1. /\ call[t] \in Calls /\ call' = [call EXCEPT ![t] = Idle]
      /\ UNCHANGED <<state, writing, buffer, highWaterMark, wire, shut>>
      /\ UNCHANGED <<taken, ends, sent, crossed, late, sends>>
  BY Zenon DEF ThreadQueues
<1>2. EachInTurn(taken \o pending, asked)
  BY Zenon DEF OutputInv, Turn
<1>3. pending' \in Seq(Functor) /\ asked' \in [Callers -> Seq(AllMessages)] /\ Turn' /\ Foreign'
  <2>1. CASE /\ call[t].op = "send"
             /\ pending' = Append(pending, Fn(t, call[t].m))
             /\ asked' = [asked EXCEPT ![t] = Append(@, call[t].m)]
    <3>1. PICK m \in AllMessages : m = call[t].m
      BY <1>1, <2>1 DEF Calls
    <3>2. PICK f \in Functor : f = Fn(t, m)
      BY <1>t, NextFunctor, Zenon
    <3>3. /\ f.op = "send" /\ f.m = m /\ f.from = t /\ f.n = Len(asked[t]) + 1
          /\ asked' \in [Callers -> Seq(AllMessages)]
      BY <1>t, <2>1, <3>1, <3>2, NextFunctor
    <3>4. pending' = Append(pending, f) /\ asked' = [asked EXCEPT ![t] = Append(@, m)]
      BY <2>1, <3>1, <3>2, Zenon
    <3>5. /\ pending' \in Seq(Functor) /\ Foreign' /\ taken \o pending \in Seq(Functor)
          /\ taken' \o pending' = Append(taken \o pending, f)
      BY <1>1, <3>3, <3>4, QueuedForeign, Zenon
    <3>6. PICK s \in Seq(Functor) : s = taken \o pending
      BY <3>5, Zenon
    <3>7. PICK z \in Seq(Functor) : z = <<>>
      BY EmptySeq, Zenon
    <3>8. s \o z = s /\ Append(s, f) \o z = Append(s, f) /\ DOMAIN z = {}
      BY <3>7, ConcatEmptySeq, AppendProperties
    <3>9. EachInTurn(Append(s, f) \o z, [asked EXCEPT ![t] = Append(@, m)])
      <4>1. EachInTurn(s \o z, asked)
        BY <1>2, <3>6, <3>8, Zenon
      <4>2. \A i \in DOMAIN z : ~(z[i].op = "send" /\ z[i].from = t)
        BY <3>8, Zenon
      <4> QED
        BY <1>t, <3>3, <4>1, <4>2, NextInTurn, Zenon
    <3>10. Turn'
      <4>1. EachInTurn(Append(s, f), [asked EXCEPT ![t] = Append(@, m)])
        BY <3>8, <3>9, Zenon
      <4> QED
        BY <3>4, <3>5, <3>6, <4>1, TurnNext, Zenon
    <3> QED
      BY <3>3, <3>5, <3>10, Zenon
  <2>2. CASE /\ call[t].op = "shutdown"
             /\ pending' = Append(pending, call[t])
             /\ asked' = asked
    <3>1. PICK f \in Functor : f = call[t]
      BY <1>1, <2>2 DEF Calls, Functor
    <3>2. /\ pending' \in Seq(Functor) /\ Foreign' /\ taken \o pending \in Seq(Functor)
          /\ taken' \o pending' = Append(taken \o pending, f)
      <4>1. f.op # "send"
        BY <2>2, <3>1
      <4> QED
        BY <1>1, <2>2, <3>1, <4>1, QueuedForeign, Zenon
    <3>3. EachInTurn(Append(taken \o pending, f), asked)
      BY <1>2, <2>2, <3>1, <3>2, ShutdownInTurn, Zenon
    <3> QED
      BY <1>t, <2>2, <3>2, <3>3, TurnNext, Zenon
  <2> QED
    BY <2>1, <2>2, Zenon DEF ThreadQueues
<1>4. call' \in [Threads -> {Idle} \cup Calls \cup [op : {"store"}]]
  BY <1>t, <1>1
<1>5. TypeOK'
  BY <1>1, <1>3, <1>4 DEF OutputInv, TypeOK
<1>6. stream' = stream
  BY <1>1, Zenon DEF stream
<1> QED
  BY <1>1, <1>3, <1>5, <1>6, StreamUnchanged, TakenUnchanged, Zenon DEF OutputInv

\* Every step keeps the invariant.
LEMMA NextOutput == OutputInv /\ [Next]_vars => OutputInv'
<1> SUFFICES ASSUME OutputInv, [Next]_vars PROVE OutputInv'
  OBVIOUS
<1>1. CASE PeerReads
  BY <1>1, HandleWriteKeeps, Zenon DEF PeerReads
<1>2. CASE LoopStep
  BY <1>2, SendFunctorKeeps, ShutdownFunctorKeeps, Zenon DEF LoopStep
<1>3. CASE UserCalls
  BY <1>3, ShutdownKeeps, SendKeeps, ThreadCallsKeep, Zenon DEF UserCalls
<1>4. CASE \E t \in Threads : CallStep(t)
  BY <1>4, ThreadStoresKeeps, ThreadQueuesKeeps, Zenon DEF CallStep
<1>5. CASE UNCHANGED vars
  <2>1. TypeOK'
    BY <1>5 DEF vars, history, OutputInv, TypeOK
  <2>2. stream' = stream /\ line' = line
    BY <1>5, Zenon DEF vars, history, stream, line
  <2> QED
    BY <2>1, <2>2, StreamUnchanged, LineUnchanged, Zenon DEF OutputInv
<1> QED
  BY <1>1, <1>2, <1>3, <1>4, <1>5, Zenon DEF Next

\* The invariant holds throughout every behaviour.
THEOREM OutputInvariant == Spec => []OutputInv
  BY InitOutput, NextOutput, PTL DEF Spec

\* Whatever the threads and their messages and whatever the kernel takes at a time, the messages
\* of each caller leave whole, once and in its order, and the wire followed by outputBuffer_ is
\* what sendInLoop was given (send, sendInLoop, handleWrite).
THEOREM OutputAlwaysInOrder == Spec => []OutputInOrder
<1>1. OutputInv => OutputInOrder
  BY Zenon DEF OutputInv, OutputInOrder, Turn
<1> QED
  BY <1>1, OutputInvariant, PTL

\* Writability is asked for exactly while output waits, and only a send() that is run after the
\* shutdown leaves output behind it (sendInLoop, shutdownInLoop, handleWrite).
THEOREM AlwaysDrained == Spec => []DrainedBeforeShutdown
<1>1. OutputInv => DrainedBeforeShutdown
  BY DEF OutputInv
<1> QED
  BY <1>1, OutputInvariant, PTL

\* A mark that is not zero is accounted for exactly while the buffer is at or above it, whatever
\* highWaterMark_ holds (sendInLoop, handleWrite).
THEOREM MarkAlwaysReported == Spec => []HighWaterReported
<1>1. OutputInv => HighWaterReported
  BY DEF OutputInv
<1> QED
  BY <1>1, OutputInvariant, PTL
=============================================================================
