------------------------------- MODULE Output -------------------------------
(***************************************************************************)
(* The output of one open TcpConnection, byte by byte: send and shutdown   *)
(* in the loop's thread and in others, sendInLoop, shutdownInLoop and      *)
(* handleWrite.  outputBuffer_ is the sequence that Buffer is shown to     *)
(* keep, the functors run in the order that TaskQueue promises.  How the   *)
(* connection closes is in TcpServer.                                      *)
(***************************************************************************)
EXTENDS Naturals, Sequences

CONSTANTS
  Bytes,
  Threads,     \* the other threads that use the connection
  Loop,        \* the loop's own thread
  Messages,    \* the messages each of them sends
  Marks,       \* what highWaterMark_ may hold: no constructor and no setter gives it a value
  SendMax      \* bound: the calls of send()

Callers == Threads \cup {Loop}

ASSUME OutputAssumption ==
  /\ Loop \notin Threads
  /\ Messages \in [Callers -> SUBSET (Seq(Bytes) \ {<<>>})]
  /\ Marks \subseteq Nat /\ SendMax \in Nat

VARIABLES
  state,          \* state_
  writing,        \* channel_->isWriting()
  buffer,         \* outputBuffer_
  highWaterMark,  \* highWaterMark_
  pending,        \* the functors queued in the loop
  call,           \* what each thread has still to do of its call
  wire,           \* the bytes the kernel has taken
  shut,           \* the write side is shut down
  asked,          \* history: the messages that send() of each caller has passed on
  taken,          \* history: the functors run and the messages sent in the loop, in order
  ends,           \* history: how many bytes sendInLoop has taken with each of them
  sent,           \* history: the bytes sendInLoop has taken, in order
  crossed,        \* history: how the buffer has reached the mark, "no" when it is below
  late,           \* history: sendInLoop took bytes after the write side was shut down
  sends           \* the calls of send() so far

history == <<asked, taken, ends, sent, crossed, late, sends>>
vars == <<state, writing, buffer, highWaterMark, pending, call, wire, shut, history>>

Idle     == [op |-> "none"]
AllMessages == UNION {Messages[c] : c \in Callers}
Calls    == [op : {"send"}, m : AllMessages] \cup [op : {"shutdown"}]

\* A functor; from and n say that its message is the n-th of that caller.
Functor  == [op : {"send"}, m : AllMessages, from : Callers, n : Nat] \cup [op : {"shutdown"}]

TypeOK ==
  /\ state \in {"kConnected", "kDisconnecting"}
  /\ writing \in BOOLEAN /\ shut \in BOOLEAN /\ late \in BOOLEAN
  /\ buffer \in Seq(Bytes) /\ wire \in Seq(Bytes) /\ sent \in Seq(Bytes)
  /\ asked \in [Callers -> Seq(AllMessages)]
  /\ highWaterMark \in Marks
  /\ pending \in Seq(Functor) /\ taken \in Seq(Functor) /\ ends \in Seq(Nat)
  /\ call \in [Threads -> {Idle} \cup Calls \cup [op : {"store"}]]
  /\ crossed \in {"no", "reported", "silent"}
  /\ sends \in Nat

Init ==
  /\ state = "kConnected" /\ writing = FALSE /\ buffer = <<>>
  /\ highWaterMark \in Marks
  /\ pending = <<>> /\ call = [t \in Threads |-> Idle]
  /\ wire = <<>> /\ shut = FALSE
  /\ asked = [c \in Callers |-> <<>>] /\ taken = <<>> /\ ends = <<>> /\ sent = <<>>
  /\ crossed = "no" /\ late = FALSE /\ sends = 0
-----------------------------------------------------------------------------
(* In the loop. *)

From(s, n) == SubSeq(s, n, Len(s))

\* How much of m the direct write takes: nothing while output waits, or when it would block or
\* the write side is shut down.
DirectWrites(m) == IF writing \/ buffer # <<>> \/ shut THEN {0} ELSE 0..Len(m)

\* Mutant: a mark that is reached exactly is not reported.
CrossesLate(old, new) == new > highWaterMark /\ old <= highWaterMark

\* The test of sendInLoop before it appends, on the old and the new length of the buffer.
Crosses(old, new) == new >= highWaterMark /\ old < highWaterMark

\* What is recorded of the run of f, with which sendInLoop takes these bytes.
Takes(f, bytes) ==
  /\ taken' = Append(taken, f)
  /\ ends' = Append(ends, Len(sent) + Len(bytes))
  /\ sent' = sent \o bytes

\* Mutant: the direct write does not wait for the output that is buffered.
SendInLoopFront(f, how) ==
  \E n \in IF shut THEN {0} ELSE 0..Len(f.m) :
    LET rest == From(f.m, n + 1)
    IN /\ wire' = wire \o SubSeq(f.m, 1, n)
       /\ buffer' = buffer \o rest
       /\ writing' = (writing \/ rest # <<>>)
       /\ crossed' = IF rest # <<>> /\ Crosses(Len(buffer), Len(buffer \o rest)) THEN how
                     ELSE crossed
       /\ Takes(f, f.m)
       /\ late' = (late \/ shut)

\* sendInLoop: the bytes that are not written at once are buffered.  Only the overload for a
\* Buffer looks at the mark, before it appends; how tells the two apart.
SendInLoop(f, how) ==
  \E n \in DirectWrites(f.m) :
    LET rest == From(f.m, n + 1)
    IN /\ wire' = wire \o SubSeq(f.m, 1, n)
       /\ buffer' = buffer \o rest
       /\ writing' = (writing \/ rest # <<>>)
       /\ crossed' = IF rest # <<>> /\ Crosses(Len(buffer), Len(buffer \o rest)) THEN how
                     ELSE crossed
       /\ Takes(f, f.m)
       /\ late' = (late \/ shut)

\* Mutant: the write side is shut down whether or not output waits.
ShutdownInLoopAtOnce == shut' = TRUE

ShutdownInLoop == shut' = (shut \/ ~writing)

\* The functor for the next message of caller c.
Fn(c, m) == [op |-> "send", m |-> m, from |-> c, n |-> Len(asked[c]) + 1]

\* send() in the loop's thread, of a string or of a Buffer.
Send(m, how) ==
  /\ state = "kConnected"
  /\ sends < SendMax /\ sends' = sends + 1
  /\ asked' = [asked EXCEPT ![Loop] = Append(@, m)]
  /\ SendInLoop(Fn(Loop, m), how)
  /\ UNCHANGED <<state, highWaterMark, pending, call, shut>>

\* shutdown() in the loop's thread.
Shutdown ==
  /\ state = "kConnected"
  /\ state' = "kDisconnecting"
  /\ ShutdownInLoop
  /\ UNCHANGED <<writing, buffer, highWaterMark, pending, call, wire, history>>

\* The functors that send(const std::string &) and shutdown() queue in another thread.
SendFunctor ==
  /\ pending # <<>> /\ Head(pending).op = "send"
  /\ SendInLoop(Head(pending), "silent")
  /\ pending' = Tail(pending)
  /\ UNCHANGED <<state, highWaterMark, call, shut, asked, sends>>

ShutdownFunctor ==
  /\ pending # <<>> /\ Head(pending).op = "shutdown"
  /\ ShutdownInLoop
  /\ pending' = Tail(pending) /\ Takes(Head(pending), <<>>)
  /\ UNCHANGED <<state, writing, buffer, highWaterMark, call, wire, asked, crossed, late, sends>>

\* Mutant: the pending shutdown() is not looked at.
HandleWriteOpen(n) ==
  /\ writing /\ ~shut /\ n <= Len(buffer)
  /\ wire' = wire \o SubSeq(buffer, 1, n)
  /\ buffer' = From(buffer, n + 1)
  /\ writing' = (n < Len(buffer))
  /\ crossed' = IF Len(buffer) - n < highWaterMark THEN "no" ELSE crossed
  /\ UNCHANGED <<state, highWaterMark, pending, call, shut, asked, taken, ends, sent, late, sends>>

\* handleWrite, when the kernel takes n bytes; when write() fails nothing changes.
HandleWrite(n) ==
  /\ writing /\ ~shut /\ n <= Len(buffer)
  /\ wire' = wire \o SubSeq(buffer, 1, n)
  /\ buffer' = From(buffer, n + 1)
  /\ writing' = (n < Len(buffer))
  /\ shut' = (n = Len(buffer) /\ state = "kDisconnecting")
  /\ crossed' = IF Len(buffer) - n < highWaterMark THEN "no" ELSE crossed
  /\ UNCHANGED <<state, highWaterMark, pending, call, asked, taken, ends, sent, late, sends>>
-----------------------------------------------------------------------------
(* In another thread: send(const std::string &) and shutdown() test state_ and go on.  There   *)
(* send(Buffer * ) does nothing, connected or not.                                             *)

ThreadTests(t, f) ==
  /\ call[t] = Idle
  /\ state = "kConnected"
  /\ call' = [call EXCEPT ![t] = f]
  /\ UNCHANGED <<state, writing, buffer, highWaterMark, pending, wire, shut, asked, taken, ends,
                 sent, crossed, late>>

ThreadSends(t, m) ==
  /\ sends < SendMax /\ sends' = sends + 1
  /\ ThreadTests(t, [op |-> "send", m |-> m])

ThreadShutsDown(t) ==
  /\ ThreadTests(t, [op |-> "store"])
  /\ UNCHANGED sends

ThreadStores(t) ==
  /\ call[t] = [op |-> "store"]
  /\ state' = "kDisconnecting"
  /\ call' = [call EXCEPT ![t] = [op |-> "shutdown"]]
  /\ UNCHANGED <<writing, buffer, highWaterMark, pending, wire, shut, history>>

\* queueInLoop, in runInLoop.
ThreadQueues(t) ==
  /\ call[t] \in Calls
  /\ \/ /\ call[t].op = "send"
        /\ pending' = Append(pending, Fn(t, call[t].m))
        /\ asked' = [asked EXCEPT ![t] = Append(@, call[t].m)]
     \/ /\ call[t].op = "shutdown"
        /\ pending' = Append(pending, call[t])
        /\ UNCHANGED asked
  /\ call' = [call EXCEPT ![t] = Idle]
  /\ UNCHANGED <<state, writing, buffer, highWaterMark, wire, shut, taken, ends, sent, crossed,
                 late, sends>>
-----------------------------------------------------------------------------
PeerReads == \E n \in 1..Len(buffer) : HandleWrite(n)

LoopStep == SendFunctor \/ ShutdownFunctor

CallStep(t) == ThreadStores(t) \/ ThreadQueues(t)

UserCalls ==
  \/ Shutdown \/ \E m \in Messages[Loop], how \in {"silent", "reported"} : Send(m, how)
  \/ \E t \in Threads : ThreadShutsDown(t) \/ \E m \in Messages[t] : ThreadSends(t, m)

Next == PeerReads \/ LoopStep \/ UserCalls \/ \E t \in Threads : CallStep(t)

(***************************************************************************)
(* The loop goes on and the peer reads: functors are run, waiting output   *)
(* is written piece by piece; a thread finishes the call it has begun.     *)
(***************************************************************************)
Fairness == WF_vars(PeerReads) /\ WF_vars(LoopStep) /\ \A t \in Threads : WF_vars(CallStep(t))

Spec == Init /\ [][Next]_vars /\ Fairness
-----------------------------------------------------------------------------
(* Properties *)

(***************************************************************************)
(* Whatever is written directly, partly or later, the kernel has been      *)
(* given the bytes that sendInLoop took in their order, and outputBuffer_  *)
(* holds exactly the rest (sendInLoop, handleWrite).                       *)
(***************************************************************************)
StreamInOrder == wire \o buffer = sent

\* A line of functors holds each of the messages once, those of a caller in their order.
EachInTurn(line, messages) ==
  /\ \A i \in DOMAIN line : line[i].op = "send" =>
       /\ line[i].n \in DOMAIN messages[line[i].from]
       /\ line[i].m = messages[line[i].from][line[i].n]
  /\ \A c \in Callers : \A k \in DOMAIN messages[c] : \E i \in DOMAIN line :
       line[i].op = "send" /\ line[i].from = c /\ line[i].n = k
  /\ \A i, j \in DOMAIN line :
       i < j /\ line[i].op = "send" /\ line[j].op = "send" /\ line[i].from = line[j].from
         => line[i].n < line[j].n

BytesOf(f) == IF f.op = "send" THEN f.m ELSE <<>>

Start(i) == IF i = 1 THEN 0 ELSE ends[i - 1]

\* The bytes sendInLoop has taken are those of the messages it was given, one after the other.
Whole ==
  /\ Len(ends) = Len(taken) /\ Start(Len(taken) + 1) = Len(sent)
  /\ \A i \in DOMAIN taken :
       /\ ends[i] = Start(i) + Len(BytesOf(taken[i]))
       /\ SubSeq(sent, Start(i) + 1, ends[i]) = BytesOf(taken[i])

(***************************************************************************)
(* The messages of each caller leave in the order in which it called       *)
(* send(), whole, whatever the others send: sendInLoop has taken some, the *)
(* others wait in functors, and nothing is lost, repeated, split or mixed  *)
(* between send() and the kernel (send, sendInLoop, handleWrite).          *)
(***************************************************************************)
OutputInOrder == StreamInOrder /\ EachInTurn(taken \o pending, asked) /\ Whole

(***************************************************************************)
(* The channel asks for writability exactly while output waits, and the    *)
(* write side is shut down over no output but that of a send() which was   *)
(* run after the shutdown (sendInLoop, shutdownInLoop, handleWrite).       *)
(***************************************************************************)
DrainedBeforeShutdown ==
  /\ writing <=> buffer # <<>>
  /\ shut /\ ~late => buffer = <<>>

(***************************************************************************)
(* The buffer is at or above a mark that is not zero exactly when the high *)
(* water mark callback has been queued since it was last below, or the     *)
(* overload that reports nothing took it there; a mark of zero, which the  *)
(* member may hold, is never reported (sendInLoop, handleWrite).           *)
(***************************************************************************)
HighWaterReported == crossed # "no" <=> highWaterMark > 0 /\ Len(buffer) >= highWaterMark

\* A shutdown() by any thread leads to the shutdown of the write side, though shutdownInLoop
\* leaves it to handleWrite while output waits (shutdown, shutdownInLoop, handleWrite).
ShutdownHappens == state = "kDisconnecting" ~> shut
=============================================================================
