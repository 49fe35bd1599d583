------------------------------ MODULE MCEpoll -------------------------------
(* EpollServer on small instances. *)
EXTENDS EpollServer, TLC

Symmetry == Permutations(Conn)
=============================================================================
