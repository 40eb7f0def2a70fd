----------------------------- MODULE MCPollers -----------------------------
(* Three channels, of which two have the same descriptor. *)
EXTENDS Pollers

MCfd == [c \in Channels |-> IF c = 3 THEN 0 ELSE c - 1]
=============================================================================
