---------------------------- MODULE MCGameServer ----------------------------
(* GameServer for TLC: threads are interchangeable. *)
EXTENDS GameServer, TLC

Symmetry == Permutations(Threads)
=============================================================================
