------------------------------ MODULE Channel ------------------------------
(***************************************************************************)
(* Channel.hpp: a Channel keeps the events its owner wants of a descriptor *)
(* and reports every change to the poller of its loop.  Two Channels may   *)
(* have the same descriptor: that of a Connector, and that of the          *)
(* TcpConnection it hands its socket to.                                   *)
(***************************************************************************)
EXTENDS Integers, FiniteSets

CONSTANTS
  Channels,    \* the Channel objects
  fd           \* fd_ of each

ASSUME ChannelAssumption == IsFiniteSet(Channels) /\ fd \in [Channels -> Nat]

Events  == {"R", "W"}            \* kReadEvent, kWriteEvent
Revents == Events \cup {"H"}     \* what poll reports: these, and hangups and errors

\* events_ after each of the methods, which all end in update().
EnableReading(e)  == e \cup {"R"}
EnableWriting(e)  == e \cup {"W"}
DisableWriting(e) == e \ {"W"}
DisableAll(e)     == {}

\* The methods as the classes of the library call them: disableWriting for a channel that
\* is writing, disableAll at any time.
Methods(e) ==
  {EnableReading(e), EnableWriting(e), DisableAll(e)}
    \cup (IF "W" \in e THEN {DisableWriting(e)} ELSE {})

\* How the descriptors are: what could be reported of each.
Readiness == [{fd[c] : c \in Channels} -> SUBSET Revents]
=============================================================================
