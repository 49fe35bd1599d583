------------------------------ MODULE NodeHeap ------------------------------
(***************************************************************************)
(* Memory as the linked lists use it: a start pointer in the caller, and   *)
(* nodes that malloc gives and free takes.  A call of the library is one   *)
(* step, since nothing runs beside it.  A call that follows NULL or a      *)
(* pointer to a freed node is undefined behaviour, a call can also walk    *)
(* for ever: either is recorded in status, and ends the program.           *)
(***************************************************************************)
EXTENDS Integers, FiniteSets, Sequences

CONSTANTS Addr,   \* the nodes malloc can give: bounds the length of a list
          NULL,
          Half,   \* an int is in -Half..(Half - 1)
          Value   \* the values the program puts on lists

ASSUME HeapAssumption ==
  /\ IsFiniteSet(Addr) /\ NULL \notin Addr
  /\ Half \in Nat \ {0} /\ Value \subseteq -Half..(Half - 1)

VARIABLES kind,    \* which of the five lists the program uses
          start,   \* the caller's pointer to the first node
          heap,    \* the nodes in use; what is freed is not in its domain
          call,    \* the last call, with its arguments
          status   \* how it went

heapVars == <<kind, start, heap, call, status>>

Kinds == {"singly", "pthread", "doubly", "circular", "doublycircular"}
Pointer == Addr \cup {NULL}
Live == DOMAIN heap

\* What malloc may return.
Fresh == Addr \ Live

\* Memory with a node more, or with some less.
Malloc(h, a, node) ==
  [x \in DOMAIN h \cup {a} |-> IF x = a THEN node ELSE h[x]]
Free(h, nodes) == [x \in DOMAIN h \ nodes |-> h[x]]

\* What a node points to.
Succ(p) == IF p \in Live THEN heap[p].next ELSE NULL

\* The n-th node of a walk that begins at p: NULL after the last one.
Walk(p) ==
  LET at[n \in 0..Cardinality(Addr)] == IF n = 0 THEN p ELSE Succ(at[n - 1])
  IN at

\* How far a loop gets that goes on until Done.  It stands at nodes only.
Stops(p, Done(_)) ==
  {n \in 0..Cardinality(Addr) : /\ \A m \in 0..n : Walk(p)[m] \in Live
                                /\ Done(Walk(p)[n])}

\* Where such a loop ends: at the first such node.  Else it walks off the list,
\* to NULL or a freed node; and if there is no end to walk off, it never ends.
Forever == "forever"
Seek(p, Done(_)) ==
  LET stops == Stops(p, Done)
      off == {n \in 0..Cardinality(Addr) : Walk(p)[n] \notin Live}
      First(S) == Walk(p)[CHOOSE n \in S : \A m \in S : n <= m]
  IN IF stops # {} THEN First(stops)
     ELSE IF off # {} THEN First(off) ELSE Forever

\* A call that uses these pointers: as it ends, and only if it ends well has
\* it its effect: the caller's pointer is p then, and the memory h.
Effect(pointers, p, h) ==
  LET outcome == IF Forever \in pointers THEN "endless"
                 ELSE IF pointers \subseteq Live THEN "ok" ELSE "bad_pointer"
  IN /\ status' = outcome
     /\ start' = IF outcome = "ok" THEN p ELSE start
     /\ heap' = IF outcome = "ok" THEN h ELSE heap

Call(name) == call' = name /\ UNCHANGED kind

NoCall == <<"none">>

HeapInit ==
  /\ kind \in Kinds
  /\ start = NULL
  /\ heap = [a \in {} |-> NULL]
  /\ call = NoCall
  /\ status = "ok"
=============================================================================
