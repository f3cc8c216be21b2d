---------------------------- MODULE MCTcpChannel ----------------------------
(* TcpChannel for TLC: the tasks are interchangeable.                       *)
EXTENDS TcpChannel, TLC

Symmetry == Permutations(Tasks)
=============================================================================
