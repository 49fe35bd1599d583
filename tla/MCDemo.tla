------------------------------- MODULE MCDemo -------------------------------
(* The values of main.c, for TLC. *)
EXTENDS ListDemo

Demonstrated == -1..11 \cup {66}
=============================================================================
