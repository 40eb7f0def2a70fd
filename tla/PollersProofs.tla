---------------------------- MODULE PollersProofs ----------------------------
(***************************************************************************)
(* EPoller's index_, its map and the kernel's entries agree whatever the   *)
(* owners of the channels do, so that no assert of EPoller.cpp fails; and  *)
(* EPoller keeps the promise of Watching.  Poller agrees with EPoller, but *)
(* for the channels that have wanted no events, and fails in two uses.     *)
(***************************************************************************)
EXTENDS Pollers, FiniteSetTheorems, SequenceTheorems, TLAPS

Inv == TypeOK /\ KernelAgrees

Added(i) == {d \in Channels : i[d] = "kAdded"}
Entries(i, ev) == {[ptr |-> c, events |-> ev[c]] : c \in Added(i)}

\* A channel is in the kernel exactly when it is at kAdded, if its descriptor is its own.
LEMMA KernelKnows ==
  ASSUME Inv, NEW c \in Channels, Free(c)
  PROVE  /\ InKernel(c) <=> index[c] = "kAdded"
         /\ FdRegistered(c) <=> c \in channels
         /\ Others(c) = {x \in epoll : x.ptr # c}
<1>1. \A x \in epoll : x.ptr \in channels /\ x.ptr \in Channels /\ index[x.ptr] = "kAdded"
  BY DEF Inv, KernelAgrees
<1>2. \A x \in epoll : fd[x.ptr] = fd[c] => x.ptr = c
  BY <1>1 DEF Free
<1>3. index[c] = "kAdded" => [ptr |-> c, events |-> events[c]] \in epoll
  BY DEF Inv, KernelAgrees
<1>4. InKernel(c) <=> index[c] = "kAdded"
  <2>1. ASSUME index[c] = "kAdded" PROVE InKernel(c)
    <3>1. [ptr |-> c, events |-> events[c]].ptr = c
      OBVIOUS
    <3> QED BY <2>1, <1>3, <3>1 DEF InKernel
  <2>2. ASSUME InKernel(c) PROVE index[c] = "kAdded"
    BY <2>2, <1>1, <1>2 DEF InKernel
  <2> QED BY <2>1, <2>2
<1>5. FdRegistered(c) <=> c \in channels
  BY DEF Free, FdRegistered, Inv, KernelAgrees
<1>6. Others(c) = {x \in epoll : x.ptr # c}
  BY <1>2 DEF Others
<1> QED BY <1>4, <1>5, <1>6

\* The entries after one channel was entered.
LEMMA EntriesWith ==
  ASSUME TypeOK, NEW c \in Channels, NEW e \in SUBSET Events,
         index' = [index EXCEPT ![c] = "kAdded"], events' = [events EXCEPT ![c] = e]
  PROVE  Entries(index', events')
           = {x \in Entries(index, events) : x.ptr # c} \cup {[ptr |-> c, events |-> e]}
<1>1. ASSUME NEW x \in Entries(index', events')
      PROVE  x \in {y \in Entries(index, events) : y.ptr # c} \cup {[ptr |-> c, events |-> e]}
  <2>1. PICK d \in Added(index') : x = [ptr |-> d, events |-> events'[d]]
    BY <1>1, Zenon DEF Entries
  <2>2. CASE d = c
    BY <2>1, <2>2 DEF TypeOK
  <2>3. CASE d # c
    BY <2>1, <2>3 DEF Added, Entries, TypeOK
  <2> QED BY <2>2, <2>3
<1>2. ASSUME NEW x \in Entries(index, events), x.ptr # c
      PROVE  x \in Entries(index', events')
  <2>1. PICK d \in Added(index) : x = [ptr |-> d, events |-> events[d]]
    BY <1>2 DEF Entries
  <2>2. d # c /\ d \in Added(index') /\ events'[d] = events[d]
    BY <2>1, <1>2 DEF Added, TypeOK
  <2> QED BY <2>1, <2>2 DEF Entries
<1>3. [ptr |-> c, events |-> e] \in Entries(index', events')
  <2>1. c \in Added(index') /\ events'[c] = e
    BY DEF Added, TypeOK
  <2> QED BY <2>1 DEF Entries
<1> QED BY <1>1, <1>2, <1>3, Zenon

\* The entries after one channel was taken out.
LEMMA EntriesWithout ==
  ASSUME TypeOK, NEW c \in Channels, NEW e \in SUBSET Events,
         NEW k \in {"kNew", "kDeleted"},
         index' = [index EXCEPT ![c] = k], events' = [events EXCEPT ![c] = e]
  PROVE  Entries(index', events') = {x \in Entries(index, events) : x.ptr # c}
<1>1. ASSUME NEW x \in Entries(index', events')
      PROVE  x \in Entries(index, events) /\ x.ptr # c
  <2>1. PICK d \in Added(index') : x = [ptr |-> d, events |-> events'[d]]
    BY <1>1, Zenon DEF Entries
  <2>2. d # c /\ d \in Added(index) /\ events'[d] = events[d]
    BY <2>1 DEF Added, TypeOK
  <2> QED BY <2>1, <2>2 DEF Entries
<1>2. ASSUME NEW x \in Entries(index, events), x.ptr # c
      PROVE  x \in Entries(index', events')
  <2>1. PICK d \in Added(index) : x = [ptr |-> d, events |-> events[d]]
    BY <1>2 DEF Entries
  <2>2. d # c /\ d \in Added(index') /\ events'[d] = events[d]
    BY <2>1, <1>2 DEF Added, TypeOK
  <2> QED BY <2>1, <2>2 DEF Entries
<1> QED BY <1>1, <1>2, Zenon
-----------------------------------------------------------------------------
\* Before anything is registered the kernel has no entries.
LEMMA InitInv == Init => Inv
BY SizeAssumption, Zenon DEF Init, Inv, TypeOK, KernelAgrees

\* The channels of the methods are channels, and their events are events.
LEMMA MethodsType ==
  ASSUME NEW ev \in SUBSET Events, NEW e \in Methods(ev)
  PROVE  e \in SUBSET Events
BY DEF Methods, EnableReading, EnableWriting, DisableWriting, DisableAll, Events

\* The parts of the invariant follow from the entries and the map after a step.
LEMMA InvFrom ==
  ASSUME NEW c \in Channels, Inv, Free(c),
         TypeOK', ~fault',
         epoll' = Entries(index', events'),
         \A d \in Channels : d # c => index'[d] = index[d] /\ events'[d] = events[d],
         index'[c] # "kAdded" => events'[c] = {},
         channels' = IF index'[c] = "kNew" THEN channels \ {c} ELSE channels \cup {c}
  PROVE  Inv'
<1>1. channels' = {d \in Channels : index'[d] # "kNew"}
  BY DEF Inv, KernelAgrees
<1>2. \A d \in Channels : index'[d] # "kAdded" => events'[d] = {}
  BY DEF Inv, KernelAgrees
<1>3. \A d, b \in channels' : fd[d] = fd[b] => d = b
  BY DEF Inv, KernelAgrees, Free
<1>4. epoll' = {[ptr |-> d, events |-> events'[d]] : d \in {b \in Channels : index'[b] = "kAdded"}}
  BY DEF Entries, Added
<1> QED BY <1>1, <1>2, <1>3, <1>4 DEF Inv, KernelAgrees

\* updateChannel never fails, and keeps the invariant.
LEMMA UpdateInv ==
  ASSUME Inv, NEW c \in Channels, NEW e \in SUBSET Events, Free(c), UpdateChannel(c, e)
  PROVE  /\ Inv'
         /\ channels' = channels \cup {c}
         /\ epoll' = {x \in epoll : x.ptr # c} \cup
                       IF e = {} /\ index[c] = "kAdded" THEN {} ELSE {[ptr |-> c, events |-> e]}
<1> DEFINE Rest == {x \in epoll : x.ptr # c}
<1>a. /\ events \in [Channels -> SUBSET Events]
      /\ index \in [Channels -> {"kNew", "kAdded", "kDeleted"}]
      /\ size \in Nat \ {0} /\ fault = FALSE
      /\ epoll = Entries(index, events)
      /\ channels = {d \in Channels : index[d] # "kNew"}
  BY DEF Inv, TypeOK, KernelAgrees, Entries, Added
<1>b. events' = [events EXCEPT ![c] = e] /\ size' = size
  BY DEF UpdateChannel
<1>c. /\ InKernel(c) <=> index[c] = "kAdded"
      /\ FdRegistered(c) <=> c \in channels
      /\ Others(c) = Rest
  BY KernelKnows
<1>1. CASE AddChannel(c, e)
  <2>1. /\ channels' = channels \cup {c} /\ index' = [index EXCEPT ![c] = "kAdded"]
        /\ epoll' = epoll \cup {[ptr |-> c, events |-> e]} /\ fault' = FALSE
    BY <1>1, <1>a, <1>c DEF AddChannel
  <2>2. epoll = Rest
    BY <1>1, <1>a DEF AddChannel, Entries, Added
  <2>3. epoll' = Entries(index', events')
    <3>1. Entries(index', events') = {x \in Entries(index, events) : x.ptr # c} \cup {[ptr |-> c, events |-> e]}
      BY <2>1, <2>2, <1>b, EntriesWith, Zenon DEF Inv
    <3> QED BY <3>1, <2>1, <2>2, <1>a
  <2>4. TypeOK'
    BY <2>1, <1>a, <1>b, Zenon DEF TypeOK
  <2>5. Inv'
    BY <2>1, <2>3, <2>4, <1>a, <1>b, InvFrom, ZenonT(30)
  <2> QED BY <2>1, <2>2, <2>5, <1>1 DEF AddChannel
<1>2. CASE DeleteChannel(c, e)
  <2>1. /\ channels' = channels \cup {c} /\ index' = [index EXCEPT ![c] = "kDeleted"]
        /\ epoll' = Rest /\ fault' = FALSE /\ e = {} /\ index[c] = "kAdded"
    BY <1>2, <1>a, <1>c DEF DeleteChannel
  <2>3. epoll' = Entries(index', events')
    <3>1. Entries(index', events') = {x \in Entries(index, events) : x.ptr # c}
      BY <2>1, <1>b, EntriesWithout, Zenon DEF Inv
    <3> QED BY <3>1, <2>1, <1>a
  <2>4. TypeOK'
    BY <2>1, <1>a, <1>b, Zenon DEF TypeOK
  <2>5. Inv'
    BY <2>1, <2>3, <2>4, <1>a, <1>b, InvFrom, ZenonT(30)
  <2> QED BY <2>1, <2>5
<1>3. CASE ModifyChannel(c, e)
  <2>1. /\ channels' = channels \cup {c} /\ index' = index /\ index[c] = "kAdded"
        /\ epoll' = Rest \cup {[ptr |-> c, events |-> e]} /\ fault' = FALSE /\ e # {}
    BY <1>3, <1>a, <1>c DEF ModifyChannel
  <2>2. index' = [index EXCEPT ![c] = "kAdded"]
    BY <2>1, <1>a
  <2>3. epoll' = Entries(index', events')
    <3>1. Entries(index', events') = {x \in Entries(index, events) : x.ptr # c} \cup {[ptr |-> c, events |-> e]}
      BY <2>1, <2>2, <1>b, EntriesWith, Zenon DEF Inv
    <3> QED BY <3>1, <2>1, <2>2, <1>a, Zenon
  <2>4. TypeOK'
    BY <2>1, <1>a, <1>b, Zenon DEF TypeOK
  <2>5. Inv'
    BY <2>1, <2>3, <2>4, <1>a, <1>b, InvFrom, ZenonT(30)
  <2> QED BY <2>1, <2>5
<1> QED BY <1>1, <1>2, <1>3 DEF UpdateChannel

\* removeChannel of a registered channel that wants no events takes its entry out.
LEMMA RemoveInv ==
  ASSUME Inv, NEW c \in Channels, c \in channels, events[c] = {}, RemoveChannel(c)
  PROVE  /\ Inv'
         /\ channels' = channels \ {c}
         /\ epoll' = {x \in epoll : x.ptr # c}
<1> DEFINE Rest == {x \in epoll : x.ptr # c}
<1>a. /\ events \in [Channels -> SUBSET Events]
      /\ index \in [Channels -> {"kNew", "kAdded", "kDeleted"}]
      /\ size \in Nat \ {0} /\ fault = FALSE
      /\ epoll = Entries(index, events)
      /\ channels = {d \in Channels : index[d] # "kNew"}
      /\ Free(c)
  BY DEF Inv, TypeOK, KernelAgrees, Entries, Added, Free
<1>b. events' = events /\ events' = [events EXCEPT ![c] = {}] /\ size' = size
  BY <1>a DEF RemoveChannel
<1>1. Others(c) = Rest
  BY <1>a, KernelKnows
<1>2. index[c] # "kAdded" => epoll = Rest
  BY <1>a DEF Entries, Added
<1>3. /\ channels' = channels \ {c} /\ index' = [index EXCEPT ![c] = "kNew"]
      /\ epoll' = Rest /\ fault' = FALSE
  BY <1>a, <1>1, <1>2 DEF RemoveChannel
<1>4. epoll' = Entries(index', events')
  <2>1. Entries(index', events') = {x \in Entries(index, events) : x.ptr # c}
    BY <1>3, <1>b, EntriesWithout, Zenon DEF Inv
  <2> QED BY <2>1, <1>3, <1>a
<1>5. TypeOK'
  BY <1>3, <1>a, <1>b, Zenon DEF TypeOK
<1>6. Inv'
  BY <1>3, <1>4, <1>5, <1>a, <1>b, InvFrom, ZenonT(30)
<1> QED BY <1>3, <1>6

\* poll reports registered channels only.
LEMMA PollInv ==
  ASSUME Inv, NEW ready \in Readiness, Poll(ready)
  PROVE  Inv'
<1>1. \A a \in active' : a.ptr \in channels
  <2> SUFFICES ASSUME NEW a \in active' PROVE a.ptr \in channels
    OBVIOUS
  <2>1. PICK x \in epoll : a = Answer(x, ready)
    BY DEF Poll, Answers
  <2>2. a.ptr = x.ptr
    BY <2>1 DEF Answer
  <2> QED BY <2>2 DEF Inv, KernelAgrees
<1>2. fault' = FALSE
  BY <1>1 DEF Poll
<1>3. size' \in Nat \ {0}
  BY DEF Poll, Inv, TypeOK
<1>4. UNCHANGED <<events, index, channels, epoll>>
  BY DEF Poll
<1>5. TypeOK'
  BY <1>2, <1>3, <1>4, ZenonT(30) DEF Inv, TypeOK
<1>6. KernelAgrees'
  BY <1>2, <1>4 DEF Inv, KernelAgrees
<1> QED BY <1>5, <1>6 DEF Inv

\* Every step of EPoller keeps the invariant.
LEMMA NextInv ==
  ASSUME Inv, [Next]_vars
  PROVE  Inv'
<1>1. CASE \E c \in Channels : c \in channels /\ events[c] = {} /\ RemoveChannel(c)
  BY <1>1, RemoveInv
<1>2. ASSUME NEW c \in Channels, Free(c), NEW e \in Methods(events[c]), UpdateChannel(c, e)
      PROVE  Inv'
  <2>1. e \in SUBSET Events
    BY MethodsType DEF Inv, TypeOK
  <2> QED BY <1>2, <2>1, UpdateInv
<1>3. CASE \E ready \in Readiness : Poll(ready)
  BY <1>3, PollInv
<1>4. CASE Handled
  BY <1>4 DEF Handled, Inv, TypeOK, KernelAgrees
<1>5. CASE UNCHANGED vars
  BY <1>5 DEF vars, Inv, TypeOK, KernelAgrees
<1> QED BY <1>1, <1>2, <1>3, <1>4, <1>5 DEF Next

\* The invariant of EPoller.
LEMMA Invariant == Spec => []Inv
<1>1. Inv /\ [Next]_vars => Inv'
  BY NextInv
<1> QED BY InitInv, <1>1, PTL DEF Spec

(***************************************************************************)
(* For any channels and descriptors: no assert of EPoller fails,           *)
(* epoll_ctl is never refused, and the kernel watches each registered      *)
(* channel for the events it wants now (EPoller.cpp).                      *)
(***************************************************************************)
THEOREM KernelAlwaysAgrees == Spec => []KernelAgrees
<1>1. Inv => KernelAgrees
  BY DEF Inv
<1> QED BY Invariant, <1>1, PTL
-----------------------------------------------------------------------------
(* EPoller implements Watching. *)

interest == [c \in Channels |-> UNION {x.events : x \in {y \in epoll : y.ptr = c}}]

\* The events in the kernel's entries are those the channels want.
LEMMA InterestIsEvents == Inv => interest = events
<1> SUFFICES ASSUME Inv PROVE interest = events
  OBVIOUS
<1>1. ASSUME NEW c \in Channels PROVE interest[c] = events[c]
  <2>1. CASE index[c] = "kAdded"
    <3>1. {y \in epoll : y.ptr = c} = {[ptr |-> c, events |-> events[c]]}
      BY <2>1 DEF Inv, KernelAgrees
    <3>2. {x.events : x \in {[ptr |-> c, events |-> events[c]]}} = {events[c]}
      OBVIOUS
    <3> QED BY <3>1, <3>2 DEF interest
  <2>2. CASE index[c] # "kAdded"
    <3>1. {y \in epoll : y.ptr = c} = {}
      BY <2>2 DEF Inv, KernelAgrees
    <3>2. events[c] = {}
      BY <2>2 DEF Inv, KernelAgrees
    <3> QED BY <3>1, <3>2 DEF interest
  <2> QED BY <2>1, <2>2
<1> QED BY <1>1 DEF interest, Inv, TypeOK

\* What poll reports is what Watching allows it to report.
LEMMA PollIsPoll ==
  ASSUME Inv, Inv', NEW ready \in Readiness, Poll(ready)
  PROVE  W!Poll(ready)
<1>1. interest = events /\ interest' = events'
  <2>1. (Inv => interest = events)'
    BY InterestIsEvents, PTL
  <2> QED BY <2>1, InterestIsEvents
<1>2. ASSUME NEW r \in active'
      PROVE  /\ r.ptr \in channels
             /\ r.revents # {} /\ r.revents \subseteq ready[fd[r.ptr]]
             /\ r.revents \cap Events \subseteq events[r.ptr]
  <2>1. r \in Answers(ready)
    BY DEF Poll
  <2>2. PICK x \in epoll : r = Answer(x, ready)
    BY <2>1 DEF Answers
  <2>3. x.ptr \in channels /\ x.events = events[x.ptr]
    BY DEF Inv, KernelAgrees
  <2>4. r.ptr = x.ptr /\ r.revents = ready[fd[x.ptr]] \cap (x.events \cup {"H"})
    BY <2>2 DEF Answer
  <2>5. r.revents # {}
    BY <2>1 DEF Answers
  <2> QED BY <2>3, <2>4, <2>5 DEF Events
<1>3. ASSUME NEW c \in channels, events[c] \cap ready[fd[c]] # {}
      PROVE  active' # {}
  <2>1. c \in Channels /\ [ptr |-> c, events |-> events[c]] \in epoll
    BY <1>3 DEF Inv, KernelAgrees
  <2>2. Answer([ptr |-> c, events |-> events[c]], ready).revents # {}
    BY <1>3 DEF Answer
  <2>3. Answers(ready) # {}
    BY <2>1, <2>2 DEF Answers
  <2>4. CASE active' = Answers(ready)
    BY <2>3, <2>4
  <2>5. CASE Cardinality(active') = size
    BY <2>5, FS_EmptySet, ZenonT(30) DEF Inv, TypeOK
  <2> QED BY <2>4, <2>5 DEF Poll
<1>4. channels' = channels /\ events' = events
  BY DEF Poll
<1> QED BY <1>1, <1>2, <1>3, <1>4, ZenonT(30) DEF W!Poll, interest, W!Events, Events

\* EPoller keeps the promise of Watching, for any channels, descriptors and size of the list
\* of events (EPoller.cpp).
THEOREM ImplementsWatching == Spec => WatchingSpec
<1>1. Init => W!Init
  BY DEF Init, W!Init
<1>2. ASSUME Inv, Inv', [Next]_vars
      PROVE  [W!Next]_W!vars
  <2>0. interest = events /\ interest' = events'
    <3>1. (Inv => interest = events)'
      BY InterestIsEvents, PTL
    <3> QED BY <1>2, <3>1, InterestIsEvents
  <2>1. ASSUME NEW c \in Channels, c \in channels, events[c] = {}, RemoveChannel(c)
        PROVE  W!RemoveChannel(c)
    <3>1. channels' = channels \ {c}
      BY <1>2, <2>1, RemoveInv
    <3>2. interest' = [interest EXCEPT ![c] = {}] /\ active' = active
      BY <1>2, <2>0, <2>1 DEF RemoveChannel, Inv, TypeOK
    <3> QED BY <2>1, <3>1, <3>2 DEF W!RemoveChannel, interest
  <2>2. ASSUME NEW c \in Channels, Free(c), NEW e \in Methods(events[c]), UpdateChannel(c, e)
        PROVE  e \in SUBSET Events /\ W!UpdateChannel(c, e)
    <3>1. e \in SUBSET Events
      BY <1>2, MethodsType DEF Inv, TypeOK
    <3>2. channels' = channels \cup {c}
      BY <1>2, <2>2, <3>1, UpdateInv
    <3>3. interest' = [interest EXCEPT ![c] = e] /\ active' = active
      BY <2>0, <2>2 DEF UpdateChannel
    <3> QED BY <3>1, <3>2, <3>3 DEF W!UpdateChannel, interest
  <2>3. ASSUME NEW ready \in Readiness, Poll(ready)
        PROVE  W!Poll(ready)
    BY <1>2, <2>3, PollIsPoll
  <2>4. CASE Handled
    BY <2>4 DEF Handled, W!Handled, W!Next
  <2>5. CASE UNCHANGED vars
    BY <2>5 DEF vars, W!vars
  <2>6. W!Events = Events /\ W!Readiness = Readiness
    BY DEF W!Events, Events, W!Readiness, Readiness, W!Revents, Revents
  <2>7. CASE Next
    BY <2>1, <2>2, <2>3, <2>4, <2>6, <2>7 DEF Next, W!Next
  <2> QED BY <1>2, <2>5, <2>7 DEF W!vars
<1> QED BY Invariant, <1>1, <1>2, PTL DEF Spec, WatchingSpec, W!Spec
-----------------------------------------------------------------------------
(* Poller beside EPoller. *)

Table == Seq([fd : Int, events : SUBSET Events])

\* The element of pollfds_ that belongs to channel c.
Row(c) == [fd |-> IF c \in silenced THEN P!Ignored(fd[c]) ELSE fd[c], events |-> events[c]]

(***************************************************************************)
(* Every element is the row of one channel, which has its place as index_; *)
(* a channel that was not silenced is at kAdded in EPoller and, when it    *)
(* wants nothing, was added so; index_ of a removed channel remains.       *)
(***************************************************************************)
TableInv ==
  /\ pollfds \in Table /\ pIndex \in [Channels -> Int] /\ pChannels = channels
  /\ \A c \in channels : pIndex[c] \in 0..(Len(pollfds) - 1) /\ pollfds[pIndex[c] + 1] = Row(c)
  /\ \A i \in 1..Len(pollfds) : \E c \in channels : pIndex[c] = i - 1
  /\ silenced \subseteq channels /\ bare \subseteq channels
  /\ \A c \in channels \ silenced : index[c] = "kAdded" /\ (events[c] = {} => c \in bare)
  /\ \A c \in Channels \ channels : pIndex[c] >= 0 => c \in used

BothInv == Inv /\ pFault \in BOOLEAN /\ (~pFault => TableInv)

\* What EPoller's invariant says of the channels.
LEMMA ChannelTypes ==
  ASSUME Inv
  PROVE  /\ channels \subseteq Channels /\ fd \in [Channels -> Nat]
         /\ events \in [Channels -> SUBSET Events]
         /\ \A c, d \in channels : fd[c] = fd[d] => c = d
BY ChannelAssumption DEF Inv, TypeOK, KernelAgrees

\* The row of a channel, whether it is ignored or not.
LEMMA RowOf ==
  ASSUME Inv, NEW c \in Channels
  PROVE  /\ Row(c) \in [fd : Int, events : SUBSET Events] /\ Row(c).events = events[c]
         /\ Row(c).fd \in {fd[c], P!Ignored(fd[c])}
         /\ c \in silenced => Row(c).fd = P!Ignored(fd[c]) /\ Row(c).fd < 0
         /\ c \notin silenced => Row(c).fd = fd[c] /\ Row(c).fd >= 0
         /\ P!Ignored(fd[c]) \in Int /\ P!Ignored(fd[c]) # fd[c]
         /\ fd[c] = IF Row(c).fd < 0 THEN -Row(c).fd - 1 ELSE Row(c).fd
<1>1. fd[c] \in Nat /\ events[c] \in SUBSET Events
  BY ChannelTypes
<1>2. P!Ignored(fd[c]) \in Int /\ P!Ignored(fd[c]) < 0 /\ -P!Ignored(fd[c]) - 1 = fd[c]
  BY <1>1 DEF P!Ignored
<1>3. fd[c] \in Int /\ fd[c] >= 0 /\ ~(fd[c] < 0)
  BY <1>1
<1> HIDE DEF P!Ignored
<1> QED
  BY <1>1, <1>2, <1>3 DEF Row

\* Two channels have different places.
LEMMA PlacesDiffer ==
  ASSUME Inv, TableInv, NEW c \in channels, NEW d \in channels, pIndex[c] = pIndex[d]
  PROVE  c = d
<1>1. Row(c) = Row(d)
  BY DEF TableInv
<1>2. fd[c] = fd[d]
  <2>1. c \in Channels /\ d \in Channels
    BY ChannelTypes
  <2> QED
    BY <1>1, <2>1, RowOf
<1> QED
  BY <1>2, ChannelTypes

\* updateChannel of a Poller: it fails only for a channel that was removed before.
LEMMA TableUpdate ==
  ASSUME Inv, Inv', TableInv, ~pFault, NEW c \in Channels, NEW e \in SUBSET Events, Update(c, e)
  PROVE  \/ ~pFault' /\ TableInv'
         \/ pFault' = TRUE /\ c \in used /\ c \notin channels
<1>1. /\ Free(c) /\ UpdateChannel(c, e) /\ P!UpdateChannel(c, e)
      /\ Recorded(IF e = {} /\ c \in channels THEN silenced \cup {c} ELSE silenced,
                  IF e = {} /\ c \notin channels THEN bare \cup {c} ELSE bare, used)
  BY DEF Update, Follow
<1>2. /\ channels' = channels \cup {c} /\ events' = [events EXCEPT ![c] = e]
      /\ events \in [Channels -> SUBSET Events] /\ channels \subseteq Channels
      /\ index'[c] = "kAdded" \/ (e = {} /\ c \in channels)
      /\ \A d \in Channels : d # c => index'[d] = index[d]
  <2>1. channels' = channels \cup {c} /\ channels \subseteq Channels
        /\ events \in [Channels -> SUBSET Events] /\ events' = [events EXCEPT ![c] = e]
    BY <1>1, UpdateInv, ChannelTypes, ZenonT(30) DEF UpdateChannel
  <2>2. index' = [index EXCEPT ![c] = "kAdded"] \/ index' = [index EXCEPT ![c] = "kDeleted"]
        \/ index' = index
    BY <1>1 DEF UpdateChannel, AddChannel, DeleteChannel, ModifyChannel, Fail
  <2>3. index'[c] = "kAdded" \/ (e = {} /\ c \in channels)
    BY <1>1 DEF UpdateChannel, AddChannel, DeleteChannel, ModifyChannel, Inv, TypeOK, KernelAgrees, Fail
  <2> QED
    BY <2>1, <2>2, <2>3 DEF Inv, TypeOK
<1>3. /\ pollfds \in Table /\ pIndex \in [Channels -> Int] /\ pIndex[c] \in Int
      /\ pChannels = channels /\ Len(pollfds) \in Nat /\ fd[c] \in Nat
  BY ChannelTypes DEF TableInv, Table
<1>4. c \in channels => pIndex[c] >= 0 /\ pIndex[c] < Len(pollfds)
  BY <1>3 DEF TableInv
<1>5. CASE c \notin channels /\ pIndex[c] >= 0
  <2>1. c \in used
    BY <1>5 DEF TableInv
  <2>2. pFault' = TRUE
    BY <1>1, <1>3, <1>5 DEF P!UpdateChannel, P!AddChannel, P!ChangeChannel, P!Fail
  <2> QED
    BY <1>5, <2>1, <2>2
<1>6. CASE c \notin channels /\ pIndex[c] < 0
  <2> DEFINE n == Len(pollfds)
             row == [fd |-> fd[c], events |-> e]
  <2>1. ~P!FdRegistered(c)
    BY <1>1, <1>3, <1>6 DEF P!FdRegistered, Free
  <2>2. /\ pollfds' = Append(pollfds, row) /\ pIndex' = [pIndex EXCEPT ![c] = n]
        /\ pChannels' = pChannels \cup {c} /\ pFault' = pFault
    BY <1>1, <1>3, <1>6, <2>1 DEF P!UpdateChannel, P!AddChannel, P!ChangeChannel
  <2>3. silenced' = silenced /\ bare' = (IF e = {} THEN bare \cup {c} ELSE bare) /\ used' = used
    BY <1>1, <1>6, <2>2 DEF Recorded
  <2>4. row \in [fd : Int, events : SUBSET Events]
    BY <1>3
  <2>5. /\ pollfds' \in Table /\ Len(pollfds') = n + 1 /\ pollfds'[n + 1] = row
        /\ \A i \in 1..n : pollfds'[i] = pollfds[i]
    BY <1>3, <2>2, <2>4 DEF Table
  <2> HIDE DEF row
  <2>6. pIndex' \in [Channels -> Int] /\ pIndex'[c] = n /\ \A d \in Channels : d # c => pIndex'[d] = pIndex[d]
    BY <1>3, <2>2
  <2>7. Row(c)' = row
    BY <1>2, <1>6, <2>3 DEF Row, row, TableInv
  <2>8. ASSUME NEW d \in channels PROVE d # c /\ Row(d)' = Row(d)
    BY <1>2, <1>6, <2>3 DEF Row
  <2>9. ASSUME NEW d \in channels'
        PROVE  pIndex'[d] \in 0..(Len(pollfds') - 1) /\ pollfds'[pIndex'[d] + 1] = Row(d)'
    <3>1. CASE d = c
      BY <1>3, <2>5, <2>6, <2>7, <3>1
    <3>2. CASE d # c
      <4>1. d \in channels /\ pIndex'[d] = pIndex[d] /\ Row(d)' = Row(d)
        BY <1>2, <2>6, <2>8, <2>9, <3>2
      <4>2. pIndex[d] \in 0..(n - 1) /\ pollfds[pIndex[d] + 1] = Row(d)
        BY <4>1 DEF TableInv
      <4>3. pIndex[d] + 1 \in 1..n /\ pIndex[d] \in 0..((n + 1) - 1)
        BY <1>3, <4>2
      <4> QED
        BY <2>5, <4>1, <4>2, <4>3
    <3> QED
      BY <3>1, <3>2
  <2>10. ASSUME NEW i \in 1..Len(pollfds') PROVE \E d \in channels' : pIndex'[d] = i - 1
    <3>1. i \in 1..n \/ (i = n + 1 /\ i - 1 = n)
      BY <1>3, <2>5
    <3>2. CASE i \in 1..n
      <4>1. PICK d \in channels : pIndex[d] = i - 1
        BY <3>2 DEF TableInv
      <4> QED
        BY <1>2, <2>6, <2>8, <4>1
    <3>3. CASE i - 1 = n
      BY <1>2, <2>6, <3>3
    <3> QED
      BY <3>1, <3>2, <3>3
  <2>11. /\ pChannels' = channels' /\ silenced' \subseteq channels' /\ bare' \subseteq channels'
         /\ \A d \in channels' \ silenced' : index'[d] = "kAdded" /\ (events'[d] = {} => d \in bare')
         /\ \A d \in Channels \ channels' : pIndex'[d] >= 0 => d \in used'
    <3>1. pChannels' = channels' /\ silenced' \subseteq channels' /\ bare' \subseteq channels'
      BY <1>2, <1>3, <2>2, <2>3 DEF TableInv
    <3>2. ASSUME NEW d \in channels' \ silenced'
          PROVE  index'[d] = "kAdded" /\ (events'[d] = {} => d \in bare')
      <4>1. CASE d = c
        BY <1>2, <1>6, <2>3, <4>1
      <4>2. CASE d # c
        BY <1>2, <2>3, <3>2, <4>2 DEF TableInv
      <4> QED
        BY <4>1, <4>2
    <3>3. ASSUME NEW d \in Channels \ channels', pIndex'[d] >= 0 PROVE d \in used'
      BY <1>2, <2>3, <2>6, <3>3 DEF TableInv
    <3> QED
      BY <3>1, <3>2, <3>3
  <2>12. TableInv'
    BY <2>5, <2>6, <2>9, <2>10, <2>11 DEF TableInv
  <2> QED
    BY <2>2, <2>12
<1>7. CASE c \in channels
  <2> DEFINE k == pIndex[c] + 1
             row == [fd |-> IF e = {} THEN P!Ignored(fd[c]) ELSE Row(c).fd, events |-> e]
  <2>1. /\ pIndex[c] >= 0 /\ pIndex[c] < Len(pollfds) /\ k \in 1..Len(pollfds) /\ pollfds[k] = Row(c)
    BY <1>3, <1>4, <1>7 DEF TableInv
  <2>2. Row(c).fd \in {fd[c], P!Ignored(fd[c])} /\ row \in [fd : Int, events : SUBSET Events]
    BY RowOf
  <2>3. /\ pollfds' = [pollfds EXCEPT ![k] = row] /\ pIndex' = pIndex
        /\ pChannels' = pChannels /\ pFault' = pFault
    <3>1. P!At(pIndex[c]) = Row(c) /\ P!Inside(pIndex[c])
      BY <2>1 DEF P!At, P!Inside
    <3>2. P!ChangeChannel(c, e)
      <4>1. ~(pIndex[c] < 0)
        BY <1>3, <2>1
      <4> QED
        BY <1>1, <4>1 DEF P!UpdateChannel, P!AddChannel
    <3>3. ~(\/ c \notin pChannels \/ ~P!Inside(pIndex[c])
            \/ P!At(pIndex[c]).fd \notin {fd[c], P!Ignored(fd[c])})
      BY <1>3, <1>7, <2>2, <3>1
    <3>4. /\ pollfds' = [pollfds EXCEPT ![k] =
                           [fd |-> IF e = {} THEN P!Ignored(fd[c]) ELSE @.fd, events |-> e]]
          /\ pIndex' = pIndex /\ pChannels' = pChannels /\ pFault' = pFault
      BY <3>2, <3>3 DEF P!ChangeChannel
    <3> QED
      BY <2>1, <3>4
  <2>4. /\ silenced' = (IF e = {} THEN silenced \cup {c} ELSE silenced)
        /\ bare' = bare /\ used' = used /\ channels' = channels
    BY <1>1, <1>2, <1>7, <2>3 DEF Recorded
  <2> HIDE DEF row
  <2>5. /\ pollfds' \in Table /\ Len(pollfds') = Len(pollfds) /\ pollfds'[k] = row
        /\ \A i \in 1..Len(pollfds) : i # k => pollfds'[i] = pollfds[i]
    BY <1>3, <2>1, <2>2, <2>3 DEF Table
  <2>6. Row(c)' = row
    BY <1>2, <2>4, RowOf DEF Row, row
  <2>7. ASSUME NEW d \in channels, d # c PROVE Row(d)' = Row(d)
    BY <1>2, <2>4, <2>7 DEF Row
  <2>8. ASSUME NEW d \in channels PROVE pollfds'[pIndex[d] + 1] = Row(d)'
    <3>1. CASE d = c
      BY <2>5, <2>6, <3>1
    <3>2. CASE d # c
      <4>1. pIndex[d] \in 0..(Len(pollfds) - 1) /\ pollfds[pIndex[d] + 1] = Row(d)
        BY DEF TableInv
      <4>2. pIndex[d] # pIndex[c]
        BY <1>7, <3>2, PlacesDiffer
      <4>3. pIndex[d] + 1 \in 1..Len(pollfds) /\ pIndex[d] + 1 # k
        BY <1>3, <4>1, <4>2
      <4> QED
        BY <2>5, <2>7, <3>2, <4>1, <4>3
    <3> QED
      BY <3>1, <3>2
  <2>9. \A d \in channels' \ silenced' : index'[d] = "kAdded" /\ (events'[d] = {} => d \in bare')
    BY <1>2, <2>4, Zenon DEF TableInv
  <2>10. TableInv'
    BY <1>3, <1>7, <2>3, <2>4, <2>5, <2>8, <2>9 DEF TableInv
  <2> QED
    BY <2>3, <2>10
<1> QED
  <2>1. pIndex[c] >= 0 \/ pIndex[c] < 0
    BY <1>3
  <2> QED
    BY <1>5, <1>6, <1>7, <2>1, ZenonT(30)

\* The table without its last element.
LEMMA Popped ==
  ASSUME NEW s \in Table, Len(s) > 0
  PROVE  /\ P!Pop(s) \in Table /\ Len(P!Pop(s)) = Len(s) - 1
         /\ \A i \in 1..(Len(s) - 1) : P!Pop(s)[i] = s[i]
<1> DEFINE n == Len(s)
           E == [fd : Int, events : SUBSET Events]
           t == SubSeq(s, 1, n - 1)
<1>1. s \in Seq(E)
  BY DEF Table
<1> HIDE DEF E
<1>2. n \in Nat /\ n - 1 \in Int /\ 1 \in Int /\ (n - 1) - 1 + 1 = n - 1
      /\ (IF 1 <= n - 1 THEN (n - 1) - 1 + 1 ELSE 0) = n - 1
  <2>1. n \in Nat /\ n > 0
    BY <1>1
  <2> HIDE DEF n
  <2> QED
    BY <2>1
<1>3. \A i \in 1..(n - 1) : s[i] \in E /\ 1 + i - 1 = i
  BY <1>1, <1>2
<1>4. /\ t \in Seq(E) /\ Len(t) = (IF 1 <= n - 1 THEN (n - 1) - 1 + 1 ELSE 0)
      /\ \A i \in 1..((n - 1) - 1 + 1) : t[i] = s[1 + i - 1]
  BY <1>2, <1>3, SubSeqProperties
<1>5. t = P!Pop(s)
  BY DEF P!Pop
<1> HIDE DEF t
<1>6. t \in Table /\ Len(t) = n - 1
  BY <1>2, <1>4, ZenonT(30) DEF Table, E
<1>7. \A i \in 1..(n - 1) : t[i] = s[i]
  BY <1>2, <1>3, <1>4, Zenon
<1> QED
  BY <1>5, <1>6, <1>7

\* removeChannel of a Poller: it fails only for a channel that has never wanted an event.
LEMMA TableRemove ==
  ASSUME Inv, Inv', TableInv, ~pFault, NEW c \in Channels, Remove(c)
  PROVE  \/ ~pFault' /\ TableInv'
         \/ pFault' = TRUE /\ c \in bare \ silenced /\ c \in channels \ channels'
<1> DEFINE n == Len(pollfds)
           k == pIndex[c] + 1
<1>1. /\ c \in channels /\ events[c] = {} /\ RemoveChannel(c) /\ P!RemoveChannel(c)
      /\ Recorded(silenced \ {c}, bare \ {c}, used \cup {c})
  BY DEF Remove, Follow
<1>2. /\ channels' = channels \ {c} /\ events' = events /\ channels \subseteq Channels
      /\ \A d \in Channels : d # c => index'[d] = index[d]
  <2>1. c \in channels /\ events[c] = {} /\ index[c] # "kNew"
    BY <1>1 DEF Inv, KernelAgrees
  <2>2. channels' = channels \ {c} /\ index' = [index EXCEPT ![c] = "kNew"] /\ events' = events
    BY <1>1, <2>1 DEF RemoveChannel
  <2> QED
    BY <2>2, ChannelTypes DEF Inv, TypeOK
<1>3. /\ pollfds \in Table /\ pIndex \in [Channels -> Int] /\ pIndex[c] \in Int
      /\ pChannels = channels /\ n \in Nat /\ fd[c] \in Nat
  BY ChannelTypes DEF TableInv, Table
<1>4. /\ pIndex[c] >= 0 /\ pIndex[c] < n /\ k \in 1..n /\ pollfds[k] = Row(c)
      /\ P!Inside(pIndex[c]) /\ P!At(pIndex[c]) = Row(c)
  BY <1>1, <1>3 DEF TableInv, P!Inside, P!At
<1>5. CASE c \notin silenced
  <2>1. c \in bare
    BY <1>1, <1>5 DEF TableInv
  <2>2. P!At(pIndex[c]) # [fd |-> P!Ignored(fd[c]), events |-> {}]
    <3>1. Row(c).fd = fd[c] /\ fd[c] # P!Ignored(fd[c])
      BY <1>5, RowOf
    <3> QED
      BY <1>4, <3>1
  <2>3. pFault' = TRUE
    BY <1>1, <2>2 DEF P!RemoveChannel, P!Fail
  <2> QED
    BY <1>1, <1>2, <1>5, <2>1, <2>3
<1>6. CASE c \in silenced
  <2>1. P!At(pIndex[c]) = [fd |-> P!Ignored(fd[c]), events |-> {}]
    BY <1>1, <1>4, <1>6 DEF Row
  <2>2. ~(\/ c \notin pChannels \/ events[c] # {} \/ ~P!Inside(pIndex[c])
          \/ P!At(pIndex[c]) # [fd |-> P!Ignored(fd[c]), events |-> {}])
    BY <1>1, <1>3, <1>4, <2>1
  <2>3. /\ pChannels' = pChannels \ {c} /\ pFault' = pFault
        /\ IF pIndex[c] = n - 1
           THEN pollfds' = P!Pop(pollfds) /\ pIndex' = pIndex
           ELSE /\ pollfds' = P!Pop([pollfds EXCEPT ![k] = pollfds[n]])
                /\ pIndex' = [d \in Channels |-> IF d \in P!AtEnd THEN pIndex[c] ELSE pIndex[d]]
    BY <1>1, <2>2 DEF P!RemoveChannel
  <2>4. silenced' = silenced \ {c} /\ bare' = bare \ {c} /\ used' = used \cup {c}
    BY <1>1, <2>3 DEF Recorded
  <2>5. ASSUME NEW d \in channels, d # c PROVE Row(d)' = Row(d) /\ pIndex[d] # pIndex[c]
    BY <1>1, <1>2, <2>4, <2>5, PlacesDiffer DEF Row
  <2>6. /\ pChannels' = channels' /\ silenced' \subseteq channels' /\ bare' \subseteq channels'
        /\ \A d \in channels' \ silenced' : index'[d] = "kAdded" /\ (events'[d] = {} => d \in bare')
    BY <1>2, <1>3, <2>3, <2>4 DEF TableInv
  <2>7. CASE pIndex[c] = n - 1
    <3>1. pollfds' = SubSeq(pollfds, 1, n - 1) /\ pIndex' = pIndex
      BY <2>3, <2>7 DEF P!Pop
    <3>2. n - 1 \in Nat
      BY <1>3, <1>4
    <3>3. /\ pollfds' \in Table /\ Len(pollfds') = n - 1
          /\ \A i \in 1..(n - 1) : pollfds'[i] = pollfds[i]
      BY <1>3, <1>4, <3>1, Popped DEF P!Pop
    <3>4. ASSUME NEW d \in channels'
          PROVE  pIndex'[d] \in 0..(Len(pollfds') - 1) /\ pollfds'[pIndex'[d] + 1] = Row(d)'
      <4>1. d \in channels /\ d # c /\ Row(d)' = Row(d) /\ pIndex[d] # n - 1
        BY <1>2, <2>5, <2>7
      <4>2. pIndex[d] \in 0..(n - 1) /\ pollfds[pIndex[d] + 1] = Row(d)
        BY <4>1 DEF TableInv
      <4>3. pIndex[d] \in 0..((n - 1) - 1) /\ pIndex[d] + 1 \in 1..(n - 1)
        BY <1>3, <4>1, <4>2
      <4> QED
        BY <3>1, <3>3, <4>1, <4>2, <4>3
    <3>5. ASSUME NEW i \in 1..Len(pollfds') PROVE \E d \in channels' : pIndex'[d] = i - 1
      <4>1. i \in 1..n /\ i - 1 # pIndex[c]
        BY <1>3, <2>7, <3>3
      <4>2. PICK d \in channels : pIndex[d] = i - 1
        BY <4>1 DEF TableInv
      <4> QED
        BY <1>2, <3>1, <4>1, <4>2
    <3>6. \A d \in Channels \ channels' : pIndex'[d] >= 0 => d \in used'
      BY <1>2, <2>4, <3>1 DEF TableInv
    <3> QED
      BY <1>3, <2>3, <2>6, <3>1, <3>3, <3>4, <3>5, <3>6, Zenon DEF TableInv
  <2>8. CASE pIndex[c] # n - 1
    <3>1. n \in 1..n /\ n - 1 \in Nat /\ pIndex[c] < n - 1 /\ k \in 1..(n - 1)
      BY <1>3, <1>4, <2>8
    <3>2. PICK b \in channels : pIndex[b] = n - 1
      BY <3>1 DEF TableInv
    <3>3. b # c /\ b \in Channels /\ pollfds[n] = Row(b)
      <4>1. pIndex[b] + 1 = n
        BY <3>1, <3>2
      <4> QED
        BY <1>2, <2>8, <3>2, <4>1 DEF TableInv
    <3>4. P!AtEnd = {b}
      <4>1. fd[b] = IF pollfds[n].fd < 0 THEN -pollfds[n].fd - 1 ELSE pollfds[n].fd
        BY <3>3, RowOf
      <4>2. P!AtEnd = {d \in channels : fd[d] = fd[b]}
        BY <1>3, <4>1 DEF P!AtEnd
      <4> QED
        BY <4>2, <3>2, ChannelTypes
    <3> DEFINE moved == [pollfds EXCEPT ![k] = pollfds[n]]
    <3>5. /\ pollfds' = SubSeq(moved, 1, Len(moved) - 1)
          /\ pIndex' = [d \in Channels |-> IF d \in {b} THEN pIndex[c] ELSE pIndex[d]]
      BY <2>3, <2>8, <3>4 DEF P!Pop
    <3>6. /\ moved \in Table /\ Len(moved) = n /\ moved[k] = Row(b)
          /\ \A i \in 1..n : i # k => moved[i] = pollfds[i]
      <4>1. Row(b) \in [fd : Int, events : SUBSET Events]
        BY <3>3, RowOf
      <4>2. moved = [pollfds EXCEPT ![k] = Row(b)]
        BY <3>3
      <4> HIDE DEF moved
      <4> QED
        BY <1>3, <1>4, <4>1, <4>2 DEF Table
    <3> HIDE DEF moved
    <3>7. /\ pollfds' \in Table /\ Len(pollfds') = n - 1
          /\ \A i \in 1..(n - 1) : pollfds'[i] = moved[i]
      BY <1>4, <3>5, <3>6, Popped DEF P!Pop
    <3>8. /\ pIndex' \in [Channels -> Int] /\ pIndex'[b] = pIndex[c]
          /\ \A d \in Channels : d # b => pIndex'[d] = pIndex[d]
      BY <1>3, <3>3, <3>5
    <3>9. ASSUME NEW d \in channels'
          PROVE  pIndex'[d] \in 0..(Len(pollfds') - 1) /\ pollfds'[pIndex'[d] + 1] = Row(d)'
      <4>1. d \in channels /\ d # c /\ Row(d)' = Row(d) /\ pIndex[d] # pIndex[c]
        BY <1>2, <2>5
      <4>2. CASE d = b
        <5>1. pIndex[c] \in 0..((n - 1) - 1)
          BY <1>3, <1>4, <3>1
        <5> QED
          BY <3>1, <3>6, <3>7, <3>8, <4>1, <4>2, <5>1
      <4>3. CASE d # b
        <5>1. pIndex[d] \in 0..(n - 1) /\ pollfds[pIndex[d] + 1] = Row(d) /\ pIndex[d] # n - 1
          BY <3>2, <4>1, <4>3, PlacesDiffer DEF TableInv
        <5>2. /\ pIndex[d] \in 0..((n - 1) - 1) /\ pIndex[d] + 1 \in 1..(n - 1)
              /\ pIndex[d] + 1 \in 1..n /\ pIndex[d] + 1 # k
          BY <1>3, <4>1, <5>1
        <5>3. pIndex'[d] = pIndex[d]
          BY <1>2, <3>8, <4>1, <4>3
        <5> QED
          BY <3>6, <3>7, <4>1, <5>1, <5>2, <5>3
      <4> QED
        BY <4>2, <4>3
    <3>10. ASSUME NEW i \in 1..Len(pollfds') PROVE \E d \in channels' : pIndex'[d] = i - 1
      <4>1. i \in 1..n /\ i - 1 # n - 1
        BY <1>3, <3>7
      <4>2. PICK d \in channels : pIndex[d] = i - 1
        BY <4>1 DEF TableInv
      <4>3. CASE d = c
        BY <1>2, <3>2, <3>3, <3>8, <4>2, <4>3
      <4>4. CASE d # c
        BY <1>2, <3>2, <3>8, <4>1, <4>2, <4>4
      <4> QED
        BY <4>3, <4>4
    <3>11. ASSUME NEW d \in Channels \ channels', pIndex'[d] >= 0 PROVE d \in used'
      BY <1>2, <2>4, <3>2, <3>3, <3>8, <3>11 DEF TableInv
    <3> QED
      BY <2>3, <2>6, <3>7, <3>8, <3>9, <3>10, <3>11, Zenon DEF TableInv
  <2> QED
    BY <2>7, <2>8, Zenon
<1> QED
  BY <1>5, <1>6, Zenon

\* poll of a Poller reports no descriptor that has no channel.
LEMMA TablePoll ==
  ASSUME Inv, TableInv, ~pFault, NEW ready \in Readiness, P!Poll(ready)
  PROVE  ~pFault'
<1>1. ASSUME NEW p \in P!Range(pollfds), P!Returned(p, ready) # {}
      PROVE  \E c \in pChannels : fd[c] = p.fd
  <2>1. PICK i \in 1..Len(pollfds) : p = pollfds[i]
    BY <1>1 DEF P!Range, TableInv, Table
  <2>2. PICK c \in channels : pIndex[c] = i - 1
    BY DEF TableInv
  <2>3. Len(pollfds) \in Nat /\ i \in Int
    BY DEF TableInv, Table
  <2>4. pIndex[c] + 1 = i
    BY <2>2, <2>3
  <2>5. p = Row(c)
    BY <2>1, <2>2, <2>4 DEF TableInv
  <2>6. ~(p.fd < 0)
    BY <1>1 DEF P!Returned
  <2>7. fd[c] = p.fd
    BY <2>2, <2>5, <2>6, RowOf, ChannelTypes
  <2> QED
    BY <2>2, <2>7 DEF TableInv
<1>2. pFault' = (\E p \in {q \in P!Range(pollfds) : P!Returned(q, ready) # {}} :
                    {c \in pChannels : fd[c] = p.fd} = {})
  BY DEF P!Poll
<1> QED
  BY <1>1, <1>2

\* The Poller's table before anything is registered.
LEMMA BothInitInv == BothInit => BothInv
<1> SUFFICES ASSUME BothInit PROVE BothInv
  OBVIOUS
<1>1. Inv
  BY InitInv DEF BothInit
<1>2. /\ channels = {} /\ pChannels = {} /\ pollfds = <<>> /\ pIndex = [c \in Channels |-> -1]
      /\ silenced = {} /\ bare = {} /\ pFault = FALSE
  BY DEF BothInit, Init, P!Init
<1>3. pollfds \in Table /\ pIndex \in [Channels -> Int] /\ \A c \in Channels : ~(pIndex[c] >= 0)
  BY <1>2 DEF Table
<1>4. 1..Len(pollfds) = {}
  BY <1>2
<1>5. TableInv
  BY <1>2, <1>3, <1>4 DEF TableInv
<1> QED
  BY <1>1, <1>2, <1>5, ZenonT(30) DEF BothInv

\* A step of both is a step of EPoller.
LEMMA BothIsNext == [BothNext]_both => [Next]_vars
BY Zenon DEF BothNext, both, Next, Update, Remove, PollBoth, HandledBoth

\* A step that leaves the tables and the history alone.
LEMMA TableSame ==
  ASSUME TableInv, pollfds' = pollfds, pIndex' = pIndex, pChannels' = pChannels,
         channels' = channels, events' = events, index' = index, UNCHANGED history
  PROVE  TableInv'
<1>1. silenced' = silenced /\ bare' = bare /\ used' = used
  BY DEF history
<1>2. \A c : Row(c)' = Row(c)
  BY <1>1 DEF Row
<1> QED
  BY <1>1, <1>2 DEF TableInv

\* What a step does to a Poller that has not failed.
LEMMA BothStep ==
  ASSUME Inv, Inv', TableInv, ~pFault, [BothNext]_both
  PROVE  \/ ~pFault' /\ TableInv'
         \/ /\ pFault' = TRUE
            /\ \/ \E c \in used : c \in channels' \ channels
               \/ \E c \in bare \ silenced : c \in channels \ channels'
<1>1. ASSUME NEW c \in Channels, Remove(c)
      PROVE  \/ ~pFault' /\ TableInv'
             \/ pFault' = TRUE /\ \E d \in bare \ silenced : d \in channels \ channels'
  BY <1>1, TableRemove, Zenon
<1>2. ASSUME NEW c \in Channels, NEW e \in Methods(events[c]), Update(c, e)
      PROVE  \/ ~pFault' /\ TableInv'
             \/ pFault' = TRUE /\ \E d \in used : d \in channels' \ channels
  <2>1. e \in SUBSET Events
    BY MethodsType DEF Inv, TypeOK
  <2>2. \/ ~pFault' /\ TableInv'
        \/ pFault' = TRUE /\ c \in used /\ c \notin channels
    BY <1>2, <2>1, TableUpdate, Zenon
  <2>3. c \in channels'
    <3>1. Free(c) /\ UpdateChannel(c, e)
      BY <1>2 DEF Update
    <3> QED
      BY <2>1, <3>1, UpdateInv
  <2> QED
    BY <2>2, <2>3
<1>3. ASSUME NEW ready \in Readiness, PollBoth(ready)
      PROVE  ~pFault' /\ TableInv'
  <2>1. Poll(ready) /\ P!Poll(ready) /\ UNCHANGED history
    BY <1>3 DEF PollBoth, Follow
  <2>2. /\ pollfds' = pollfds /\ pIndex' = pIndex /\ pChannels' = pChannels
        /\ channels' = channels /\ events' = events /\ index' = index
    BY <2>1 DEF Poll, P!Poll
  <2> QED
    BY <2>1, <2>2, TablePoll, TableSame
<1>4. CASE HandledBoth
  <2>1. Handled /\ P!Handled /\ UNCHANGED history
    BY <1>4 DEF HandledBoth
  <2>2. /\ pollfds' = pollfds /\ pIndex' = pIndex /\ pChannels' = pChannels /\ pFault' = pFault
        /\ channels' = channels /\ events' = events /\ index' = index
    BY <2>1 DEF Handled, P!Handled
  <2> QED
    BY <2>1, <2>2, TableSame
<1>5. CASE UNCHANGED both
  <2>1. /\ pollfds' = pollfds /\ pIndex' = pIndex /\ pChannels' = pChannels /\ pFault' = pFault
        /\ channels' = channels /\ events' = events /\ index' = index /\ UNCHANGED history
    BY <1>5 DEF both, vars, pVars
  <2> QED
    BY <2>1, TableSame
<1> QED
  BY <1>1, <1>2, <1>3, <1>4, <1>5, Zenon DEF BothNext

\* A Poller that has failed stays so.
LEMMA FailedStays ==
  ASSUME pFault = TRUE, [BothNext]_both
  PROVE  pFault' = TRUE
BY Zenon DEF BothNext, both, pVars, Update, Remove, PollBoth, HandledBoth, Follow, P!Handled

\* The invariant holds after every step.
LEMMA BothInvStep ==
  ASSUME BothInv, [BothNext]_both
  PROVE  BothInv'
<1>1. Inv /\ Inv'
  BY BothIsNext, NextInv DEF BothInv
<1>2. CASE ~pFault
  <2>1. TableInv
    BY <1>2 DEF BothInv
  <2>2. (~pFault' /\ TableInv') \/ pFault' = TRUE
    BY <1>1, <1>2, <2>1, BothStep, Zenon
  <2>3. pFault' \in BOOLEAN
    <3>1. ASSUME NEW ready \in Readiness, PollBoth(ready) PROVE pFault' \in BOOLEAN
      BY <1>2, <3>1 DEF PollBoth, Follow, P!Poll
    <3>2. ASSUME NEW c, NEW e, Update(c, e) \/ Remove(c) PROVE pFault' = pFault \/ pFault' = TRUE
      BY <1>2, <3>2 DEF Update, Remove, Follow, P!UpdateChannel, P!RemoveChannel, P!AddChannel,
           P!ChangeChannel, P!Fail
    <3>3. HandledBoth \/ UNCHANGED both => pFault' = pFault
      BY DEF HandledBoth, P!Handled, both, pVars
    <3> QED
      BY <3>1, <3>2, <3>3, ZenonT(30) DEF BothNext, BothInv
  <2> QED
    BY <1>1, <2>2, <2>3 DEF BothInv
<1>3. CASE pFault = TRUE
  BY <1>1, <1>3, FailedStays, ZenonT(30) DEF BothInv
<1> QED
  BY <1>2, <1>3, Zenon DEF BothInv

\* The invariant of both pollers.
LEMMA BothInvariant == BothSpec => []BothInv
<1>1. BothInv /\ [BothNext]_both => BothInv'
  BY BothInvStep
<1> QED
  BY BothInitInv, <1>1, PTL DEF BothSpec

\* The table in the terms of the property.
LEMMA TableMeans == BothInv => PollersAgree
<1> SUFFICES ASSUME BothInv, ~pFault PROVE PollersAgree
  BY DEF PollersAgree
<1>1. Inv /\ TableInv
  BY DEF BothInv
<1>2. channels \subseteq Channels /\ pChannels = channels
  BY <1>1, ChannelTypes DEF TableInv
<1>3. ASSUME NEW c \in channels
      PROVE  P!Inside(pIndex[c]) /\ P!At(pIndex[c]) = Row(c)
  <2>1. Len(pollfds) \in Nat
    BY <1>1 DEF TableInv, Table
  <2>2. pIndex[c] \in 0..(Len(pollfds) - 1) /\ pollfds[pIndex[c] + 1] = Row(c)
    BY <1>1 DEF TableInv
  <2>3. 0 <= pIndex[c] /\ pIndex[c] < Len(pollfds)
    BY <2>1, <2>2
  <2> QED
    BY <2>2, <2>3 DEF P!Inside, P!At
<1>4. P!TableAgrees
  <2>1. \A c \in channels : /\ P!Inside(pIndex[c])
                            /\ P!At(pIndex[c]).fd \in {fd[c], P!Ignored(fd[c])}
                            /\ P!At(pIndex[c]).events = events[c]
    BY <1>1, <1>2, <1>3, RowOf
  <2>2. DOMAIN pollfds = 1..Len(pollfds)
    BY <1>1 DEF TableInv, Table
  <2> QED
    BY <1>1, <1>2, <2>1, <2>2, ChannelTypes DEF P!TableAgrees, TableInv
<1>5. ASSUME NEW c \in channels \ silenced
      PROVE  [ptr |-> c, events |-> P!At(pIndex[c]).events] \in epoll /\ P!At(pIndex[c]).fd = fd[c]
  <2>1. P!At(pIndex[c]).events = events[c] /\ P!At(pIndex[c]).fd = fd[c] /\ index[c] = "kAdded"
    BY <1>1, <1>2, <1>3, RowOf DEF TableInv
  <2>2. [ptr |-> c, events |-> events[c]] \in epoll
    BY <1>1, <1>2, <2>1 DEF Inv, KernelAgrees
  <2> QED
    BY <2>1, <2>2
<1> QED
  BY <1>2, <1>4, <1>5 DEF PollersAgree

(***************************************************************************)
(* For any channels and descriptors: until an assert of Poller fails, its  *)
(* table is in order and it watches what EPoller watches, but for the      *)
(* channels that were silenced once                                        *)
(* (Poller::updateChannel, Poller::removeChannel, EPoller::updateChannel). *)
(***************************************************************************)
THEOREM PollersAlwaysAgree == BothSpec => []PollersAgree
BY BothInvariant, TableMeans, PTL

(***************************************************************************)
(* For any channels and descriptors: an assert of Poller fails only when a *)
(* removed channel is used again or a channel is removed that was added    *)
(* with no events and has had none since (Poller.cpp).                     *)
(***************************************************************************)
THEOREM PollerFailsInTwoUses == BothSpec => PollerFailsFor
<1>1. BothInv /\ BothInv' /\ [BothNext]_both =>
        [~pFault /\ pFault' =>
           \/ \E c \in used : c \in channels' \ channels
           \/ \E c \in bare \ silenced : c \in channels \ channels']_both
  BY BothStep, Zenon DEF BothInv
<1> QED
  BY BothInvariant, <1>1, PTL DEF BothSpec, PollerFailsFor

(***************************************************************************)
(* EPoller keeps its promises whatever the Poller beside it does: the two  *)
(* share the channels and nothing else (EPoller.cpp, EventLoop.hpp).       *)
(***************************************************************************)
THEOREM BothImplementEPoller == BothSpec => Spec
<1>1. BothInit => Init
  BY DEF BothInit
<1> QED
  BY <1>1, BothIsNext, PTL DEF BothSpec, Spec
=============================================================================
