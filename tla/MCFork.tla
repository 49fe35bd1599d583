------------------------------- MODULE MCFork -------------------------------
(* ForkServer on small instances. *)
EXTENDS ForkServer, FiniteSets, TLC

Symmetry == Permutations(Conn)
=============================================================================
