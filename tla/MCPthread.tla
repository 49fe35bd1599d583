----------------------------- MODULE MCPthread -----------------------------
(* PthreadServer on small instances. *)
EXTENDS PthreadServer, TLC

Symmetry == Permutations(Leavers) \cup Permutations(Conn \ Leavers)
              \cup Permutations(Addr)

\* The behaviours in which no SIGINT comes: three served clients fit.
CalmSpec == Init /\ [][Next /\ flag' = FALSE]_vars

\* Behaviours with a SIGINT have one message less than those without.
SignalSpec == Init /\ [][Next /\ (flag' => sent' < MaxSend)]_vars
=============================================================================
