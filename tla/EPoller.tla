------------------------------ MODULE EPoller ------------------------------
(***************************************************************************)
(* EPoller.cpp: the poller the library is built with.  channels_ maps a    *)
(* descriptor to the Channel that has it, so it is the set of registered   *)
(* Channels; index_ of a Channel tells whether the kernel knows it.  The   *)
(* kernel keeps one entry for a descriptor.  The methods do not read       *)
(* activeChannels, so that a call in a callback is a call after it here.   *)
(***************************************************************************)
EXTENDS Channel

CONSTANT kInitEventListSize

ASSUME SizeAssumption == kInitEventListSize \in Nat \ {0}

VARIABLES
  events,      \* Channel::events_
  index,       \* Channel::index_
  channels,    \* channels_
  epoll,       \* the entries of the kernel for epollfd_
  size,        \* events_.size()
  active,      \* activeChannels, with their revents_, while the loop handles them
  fault        \* an assert has failed or epoll_ctl was refused

vars == <<events, index, channels, epoll, size, active, fault>>

Init ==
  /\ events = [c \in Channels |-> {}]
  /\ index = [c \in Channels |-> "kNew"]
  /\ channels = {} /\ epoll = {}
  /\ size = kInitEventListSize
  /\ active = {}
  /\ fault = FALSE

FdRegistered(c) == \E d \in channels : fd[d] = fd[c]
InKernel(c)     == \E x \in epoll : fd[x.ptr] = fd[c]
Others(c)       == {x \in epoll : fd[x.ptr] # fd[c]}

Fail == fault' = TRUE /\ UNCHANGED <<index, channels, epoll>>
-----------------------------------------------------------------------------
(* updateChannel, with update(): the channel is new or was deleted ... *)

AddChannel(c, e) ==
  /\ index[c] # "kAdded"
  /\ IF \/ index[c] = "kNew" /\ FdRegistered(c)
        \/ index[c] = "kDeleted" /\ c \notin channels
        \/ InKernel(c)
     THEN Fail
     ELSE /\ channels' = channels \cup {c}
          /\ index' = [index EXCEPT ![c] = "kAdded"]
          /\ epoll' = epoll \cup {[ptr |-> c, events |-> e]}
          /\ UNCHANGED fault

\* Mutant: the index says deleted while the kernel goes on watching.
DeleteForgotten(c, e) ==
  /\ index[c] = "kAdded" /\ e = {}
  /\ index' = [index EXCEPT ![c] = "kDeleted"]
  /\ UNCHANGED <<channels, epoll, fault>>

\* ... or wants no more events ...
DeleteChannel(c, e) ==
  /\ index[c] = "kAdded" /\ e = {}
  /\ IF c \notin channels THEN Fail
     ELSE /\ epoll' = Others(c)
          /\ index' = [index EXCEPT ![c] = "kDeleted"]
          /\ UNCHANGED <<channels, fault>>

\* ... or others than before.
ModifyChannel(c, e) ==
  /\ index[c] = "kAdded" /\ e # {}
  /\ IF c \notin channels \/ ~InKernel(c) THEN Fail
     ELSE /\ epoll' = Others(c) \cup {[ptr |-> c, events |-> e]}
          /\ UNCHANGED <<index, channels, fault>>

\* A method of channel c changes its events to e.
UpdateChannel(c, e) ==
  /\ ~fault /\ active = {}
  /\ AddChannel(c, e) \/ DeleteChannel(c, e) \/ ModifyChannel(c, e)
  /\ events' = [events EXCEPT ![c] = e]
  /\ UNCHANGED <<size, active>>

\* Mutant: a channel with an entry in the kernel is taken for a deleted one.
RemoveChannelEntered(c) ==
  /\ ~fault /\ active = {}
  /\ channels' = channels \ {c}
  /\ index' = [index EXCEPT ![c] = "kNew"]
  /\ UNCHANGED <<events, epoll, size, active, fault>>

RemoveChannel(c) ==
  /\ ~fault /\ active = {}
  /\ IF c \notin channels \/ events[c] # {} \/ index[c] = "kNew" THEN Fail
     ELSE /\ channels' = channels \ {c}
          /\ epoll' = IF index[c] = "kAdded" THEN Others(c) ELSE epoll
          /\ index' = [index EXCEPT ![c] = "kNew"]
          /\ UNCHANGED fault
  /\ UNCHANGED <<events, size, active>>
-----------------------------------------------------------------------------
\* What the kernel has to report; a hangup comes unasked.
Answer(x, ready) == [ptr |-> x.ptr, revents |-> ready[fd[x.ptr]] \cap (x.events \cup {"H"})]
Answers(ready)   == {a \in {Answer(x, ready) : x \in epoll} : a.revents # {}}

\* poll with fillActiveChannels: epoll_wait stores as many answers as events_ has room for.
Poll(ready) ==
  /\ ~fault /\ active = {}
  /\ active' \in {a \in SUBSET Answers(ready) :
                    \/ a = Answers(ready) /\ Cardinality(a) <= size
                    \/ Cardinality(a) = size}
  /\ fault' = (\E a \in active' : a.ptr \notin channels)
  /\ size' = IF Cardinality(active') = size THEN size * 2 ELSE size
  /\ UNCHANGED <<events, index, channels, epoll>>

\* The loop has handled the active channels, and forgets them.
Handled ==
  /\ active # {}
  /\ active' = {}
  /\ UNCHANGED <<events, index, channels, epoll, size, fault>>
-----------------------------------------------------------------------------
\* The owner of c may register it: no other Channel is registered for its descriptor.
Free(c) == \A d \in channels : fd[d] = fd[c] => d = c

Next ==
  \/ \E c \in Channels :
       \/ c \in channels /\ events[c] = {} /\ RemoveChannel(c)
       \/ Free(c) /\ \E e \in Methods(events[c]) : UpdateChannel(c, e)
  \/ \E ready \in Readiness : Poll(ready)
  \/ Handled

Spec == Init /\ [][Next]_vars

(***************************************************************************)
(* Whatever the owners of the channels do, no assert of EPoller fails and  *)
(* epoll_ctl is never refused.  The reason is that index_ tells what the   *)
(* kernel knows: it has one entry for each channel at kAdded, with the     *)
(* events that channel wants, and none for the others, which want none     *)
(* (updateChannel, removeChannel, update).                                 *)
(***************************************************************************)
KernelAgrees ==
  /\ ~fault
  /\ epoll = {[ptr |-> c, events |-> events[c]] : c \in {d \in Channels : index[d] = "kAdded"}}
  /\ channels = {c \in Channels : index[c] # "kNew"}
  /\ \A c \in Channels : index[c] # "kAdded" => events[c] = {}
  /\ \A c, d \in channels : fd[c] = fd[d] => c = d

TypeOK ==
  /\ events \in [Channels -> SUBSET Events]
  /\ index \in [Channels -> {"kNew", "kAdded", "kDeleted"}]
  /\ size \in Nat \ {0}
  /\ fault \in BOOLEAN

\* EPoller keeps the promise of Watching.
W == INSTANCE Watching WITH
       registered <- channels,
       interest   <- [c \in Channels |-> UNION {x.events : x \in {y \in epoll : y.ptr = c}}]

WatchingSpec == W!Spec
=============================================================================
