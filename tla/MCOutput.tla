------------------------------ MODULE MCOutput ------------------------------
(***************************************************************************)
(* Output for TLC: each caller has messages of its own, of one and of two  *)
(* bytes.                                                                  *)
(***************************************************************************)
EXTENDS Output

CONSTANTS Workers, Owner

MCBytes    == (Workers \cup {Owner}) \X (1..3)
MCMessages == [c \in Workers \cup {Owner} |-> {<<<<c, 1>>>>, <<<<c, 2>>, <<c, 3>>>>}]
=============================================================================
