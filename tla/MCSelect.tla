------------------------------ MODULE MCSelect ------------------------------
(* SelectServer on small instances. *)
EXTENDS SelectServer, TLC

Symmetry == Permutations(Conn)
=============================================================================
