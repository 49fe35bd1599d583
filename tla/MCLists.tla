------------------------------ MODULE MCLists ------------------------------
(* The program that uses a list, for TLC. *)
EXTENDS LinkedLists, TLC

Signed == {-2, -1}
Symmetry == Permutations(Addr)
=============================================================================
