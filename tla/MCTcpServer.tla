---------------------------- MODULE MCTcpServer ----------------------------
(* TcpServer with interchangeable connections. *)
EXTENDS TcpServer, TLC

Interchangeable == Permutations(Conns)
=============================================================================
