------------------------------ MODULE Watching ------------------------------
(***************************************************************************)
(* What a poller promises the loop, whichever system call it is made of:   *)
(* it watches each registered channel for the events that channel wants    *)
(* now, and poll reports registered channels only, for events they want.   *)
(* Of hangups and errors, which the kernel reports unasked, it says only   *)
(* that they come for registered channels.                                 *)
(***************************************************************************)
EXTENDS Channel

VARIABLES
  registered,  \* the channels the poller knows
  interest,    \* the events it watches for each
  active       \* what poll has reported and the loop is handling

vars == <<registered, interest, active>>

Init ==
  /\ registered = {}
  /\ interest = [c \in Channels |-> {}]
  /\ active = {}

UpdateChannel(c, e) ==
  /\ registered' = registered \cup {c}
  /\ interest' = [interest EXCEPT ![c] = e]
  /\ UNCHANGED active

RemoveChannel(c) ==
  /\ c \in registered
  /\ registered' = registered \ {c}
  /\ interest' = [interest EXCEPT ![c] = {}]
  /\ UNCHANGED active

\* A channel that wants an event that is there is not passed over for nothing.
Poll(ready) ==
  /\ \A r \in active' : /\ r.ptr \in registered
                        /\ r.revents # {} /\ r.revents \subseteq ready[fd[r.ptr]]
                        /\ r.revents \cap Events \subseteq interest[r.ptr]
  /\ (\E c \in registered : interest[c] \cap ready[fd[c]] # {}) => active' # {}
  /\ UNCHANGED <<registered, interest>>

Handled ==
  /\ active' = {}
  /\ UNCHANGED <<registered, interest>>

Next ==
  \/ \E c \in Channels : RemoveChannel(c) \/ \E e \in SUBSET Events : UpdateChannel(c, e)
  \/ \E ready \in Readiness : Poll(ready)
  \/ Handled

Spec == Init /\ [][Next]_vars
=============================================================================
