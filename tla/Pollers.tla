------------------------------ MODULE Pollers ------------------------------
(***************************************************************************)
(* EPoller and Poller under the same owners of channels.  EventLoop.hpp    *)
(* picks one of them with PollerImpl; here both get every updateChannel    *)
(* and removeChannel and answer every poll for the same descriptors, and   *)
(* so can be compared.  Each has its own index_ in a Channel.  A Poller    *)
(* that has failed an assert stays as it is.                               *)
(***************************************************************************)
EXTENDS EPoller, Sequences

VARIABLES
  pIndex, pChannels, pollfds, pActive, pFault,   \* the Poller
  silenced,    \* history: registered channels that went from some events to none
  bare,        \* history: registered channels that were added with no events
  used         \* history: the channels that were removed

P == INSTANCE Poller WITH
       index <- pIndex, channels <- pChannels, active <- pActive, fault <- pFault

pVars   == <<pIndex, pChannels, pollfds, pActive, pFault>>
history == <<silenced, bare, used>>
both    == <<vars, pVars, history>>

BothInit ==
  /\ Init /\ P!Init
  /\ silenced = {} /\ bare = {} /\ used = {}

\* Poller takes the step too, if it has not failed.
Follow(step) == IF pFault THEN UNCHANGED pVars ELSE step

\* The history ends with the Poller.
Recorded(s, b, u) ==
  IF pFault' THEN silenced' = {} /\ bare' = {} /\ used' = {}
             ELSE silenced' = s /\ bare' = b /\ used' = u

\* EventLoop::updateChannel, called by a method of channel c.
Update(c, e) ==
  /\ Free(c)
  /\ UpdateChannel(c, e)
  /\ Follow(P!UpdateChannel(c, e))
  /\ Recorded(IF e = {} /\ c \in channels THEN silenced \cup {c} ELSE silenced,
              IF e = {} /\ c \notin channels THEN bare \cup {c} ELSE bare,
              used)

\* EventLoop::removeChannel, for a registered channel that wants no events.
Remove(c) ==
  /\ c \in channels /\ events[c] = {}
  /\ RemoveChannel(c)
  /\ Follow(P!RemoveChannel(c))
  /\ Recorded(silenced \ {c}, bare \ {c}, used \cup {c})

PollBoth(ready) ==
  /\ Poll(ready)
  /\ Follow(P!Poll(ready))
  /\ UNCHANGED history

HandledBoth ==
  /\ Handled
  /\ P!Handled
  /\ UNCHANGED history

BothNext ==
  \/ \E c \in Channels : Remove(c) \/ \E e \in Methods(events[c]) : Update(c, e)
  \/ \E ready \in Readiness : PollBoth(ready)
  \/ HandledBoth

BothSpec == BothInit /\ [][BothNext]_both
-----------------------------------------------------------------------------
(* Properties *)

(***************************************************************************)
(* Until an assert fails the table of the Poller is in order, and Poller   *)
(* watches the channels EPoller watches, for the same events, but for the  *)
(* channels that have gone from some events to none: no other registered   *)
(* channel loses its place, its descriptor or its events to the moves and  *)
(* negations in the array                                                  *)
(* (Poller::updateChannel, Poller::removeChannel, EPoller::updateChannel). *)
(***************************************************************************)
PollersAgree ==
  ~pFault =>
    /\ P!TableAgrees
    /\ pChannels = channels
    /\ \A c \in channels \ silenced :
         [ptr |-> c, events |-> P!At(pIndex[c]).events] \in epoll /\ P!At(pIndex[c]).fd = fd[c]

(***************************************************************************)
(* The asserts of Poller fail in two uses that EPoller takes: a channel    *)
(* that was removed is used again, because index_ is not reset, and a      *)
(* channel that was added with no events is removed without having wanted  *)
(* any (Poller::updateChannel, Poller::removeChannel).                     *)
(***************************************************************************)
PollerFailsFor ==
  [][~pFault /\ pFault' =>
       \/ \E c \in used : c \in channels' \ channels
       \/ \E c \in bare \ silenced : c \in channels \ channels']_both
=============================================================================
