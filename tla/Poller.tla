------------------------------- MODULE Poller -------------------------------
(***************************************************************************)
(* Poller.cpp: the poller made of poll(2), which EventLoop.hpp can be      *)
(* built with instead of EPoller.  pollfds_ is the array handed to the     *)
(* kernel; index_ of a Channel is its place in it, counted from 0; a       *)
(* negative descriptor makes the kernel skip an element.                   *)
(***************************************************************************)
EXTENDS Channel, Sequences, Functions

VARIABLES
  events,      \* Channel::events_
  index,       \* Channel::index_
  channels,    \* channels_
  pollfds,     \* pollfds_
  active,      \* activeChannels, with their revents_, while the loop handles them
  fault        \* an assert has failed

vars == <<events, index, channels, pollfds, active, fault>>

Init ==
  /\ events = [c \in Channels |-> {}]
  /\ index = [c \in Channels |-> -1]
  /\ channels = {} /\ pollfds = <<>>
  /\ active = {}
  /\ fault = FALSE

Ignored(f) == -f - 1

\* The element of pollfds_ at index i.
At(i)     == pollfds[i + 1]
Inside(i) == 0 <= i /\ i < Len(pollfds)

FdRegistered(c) == \E d \in channels : fd[d] = fd[c]

\* A failed assert ends the program, and the tables with it.
Fail ==
  /\ fault' = TRUE
  /\ index' = [c \in Channels |-> -1]
  /\ channels' = {} /\ pollfds' = <<>>
-----------------------------------------------------------------------------
(* updateChannel: a channel without an index is added ... *)

AddChannel(c, e) ==
  /\ index[c] < 0
  /\ IF FdRegistered(c) THEN Fail
     ELSE /\ pollfds' = Append(pollfds, [fd |-> fd[c], events |-> e])
          /\ index' = [index EXCEPT ![c] = Len(pollfds)]
          /\ channels' = channels \cup {c}
          /\ UNCHANGED fault

\* ... and otherwise its element is changed; it is ignored from the first time on that the
\* channel wants nothing.
ChangeChannel(c, e) ==
  /\ index[c] >= 0
  /\ IF \/ c \notin channels \/ ~Inside(index[c])
        \/ At(index[c]).fd \notin {fd[c], Ignored(fd[c])}
     THEN Fail
     ELSE /\ pollfds' = [pollfds EXCEPT ![index[c] + 1] =
                           [fd |-> IF e = {} THEN Ignored(fd[c]) ELSE @.fd, events |-> e]]
          /\ UNCHANGED <<index, channels, fault>>

UpdateChannel(c, e) ==
  /\ ~fault
  /\ AddChannel(c, e) \/ ChangeChannel(c, e)
  /\ events' = [events EXCEPT ![c] = e]
  /\ UNCHANGED active

\* Mutant: the channel of an ignored last element is not found, and keeps its index.
AtEndWatched == {d \in channels : fd[d] = pollfds[Len(pollfds)].fd}

\* The channel that has the last element, as removeChannel finds it.
AtEnd == LET f == pollfds[Len(pollfds)].fd
         IN {d \in channels : fd[d] = IF f < 0 THEN -f - 1 ELSE f}

Pop(s) == SubSeq(s, 1, Len(s) - 1)

\* Mutant: the channel of the last element keeps its index.
RemoveChannelUnmoved(c) ==
  /\ ~fault
  /\ channels' = channels \ {c}
  /\ pollfds' = Pop([pollfds EXCEPT ![index[c] + 1] = pollfds[Len(pollfds)]])
  /\ UNCHANGED <<events, index, active, fault>>

\* removeChannel: the last element takes the place of the removed one.  index_ of the
\* removed channel stays as it is.
RemoveChannel(c) ==
  /\ ~fault
  /\ IF \/ c \notin channels \/ events[c] # {} \/ ~Inside(index[c])
        \/ At(index[c]) # [fd |-> Ignored(fd[c]), events |-> {}]
     THEN Fail
     ELSE /\ channels' = channels \ {c}
          /\ IF index[c] = Len(pollfds) - 1
             THEN /\ pollfds' = Pop(pollfds)
                  /\ UNCHANGED index
             ELSE /\ pollfds' = Pop([pollfds EXCEPT ![index[c] + 1] = pollfds[Len(pollfds)]])
                  /\ index' = [d \in Channels |-> IF d \in AtEnd THEN index[c] ELSE index[d]]
          /\ UNCHANGED fault
  /\ UNCHANGED <<events, active>>
-----------------------------------------------------------------------------
\* What the kernel reports of an element.
Returned(p, ready) == IF p.fd < 0 THEN {} ELSE ready[p.fd] \cap (p.events \cup {"H"})

\* poll with fillActiveChannels, which finds the channel by the descriptor.
Poll(ready) ==
  /\ ~fault
  /\ LET hit   == {p \in Range(pollfds) : Returned(p, ready) # {}}
         of(p) == {c \in channels : fd[c] = p.fd}
     IN /\ active' = UNION {{[ptr |-> c, revents |-> Returned(p, ready)] : c \in of(p)} : p \in hit}
        /\ fault' = (\E p \in hit : of(p) = {})
  /\ UNCHANGED <<events, index, channels, pollfds>>

Handled ==
  /\ active' = {}
  /\ UNCHANGED <<events, index, channels, pollfds, fault>>
-----------------------------------------------------------------------------
(***************************************************************************)
(* index_, pollfds_ and channels_ describe the same table: every element   *)
(* belongs to one registered channel, which has its place as index_ and    *)
(* whose events it has, and an element that is not ignored has the         *)
(* channel's descriptor (updateChannel; removeChannel, which moves the     *)
(* last element).                                                          *)
(***************************************************************************)
TableAgrees ==
  /\ \A c \in channels :
       /\ Inside(index[c])
       /\ At(index[c]).fd \in {fd[c], Ignored(fd[c])}
       /\ At(index[c]).events = events[c]
  /\ \A i \in DOMAIN pollfds : \E c \in channels : index[c] = i - 1
  /\ \A c, d \in channels : fd[c] = fd[d] => c = d
=============================================================================
