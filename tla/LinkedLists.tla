---------------------------- MODULE LinkedLists ----------------------------
(***************************************************************************)
(* A program that uses, in any way, one of the four lists of LinkedList/   *)
(* or the thread server's.                                                 *)
(***************************************************************************)
EXTENDS PthreadList, DoublyList, DoublyCircularList

Init == HeapInit

Next ==
  /\ status = "ok"
  /\ \/ kind = "singly" /\ SinglyNext
     \/ kind = "pthread" /\ PthreadListNext
     \/ kind = "doubly" /\ DoublyNext
     \/ kind = "circular" /\ CircularNext
     \/ kind = "doublycircular" /\ DoublyCircularNext

Spec == Init /\ [][Next]_heapVars

----------------------------------------------------------------------------
(* Properties. *)

TwoWay == kind \in {"doubly", "doublycircular"}
Ring == kind \in {"circular", "doublycircular"}

TypeOK ==
  /\ kind \in Kinds
  /\ start \in Pointer
  /\ Live \subseteq Addr
  /\ \A a \in Live : /\ heap[a].data \in Value
                     /\ heap[a].next \in Pointer
                     /\ TwoWay => heap[a].prev \in Pointer
  /\ status \in {"ok", "bad_pointer", "endless"}

\* The list is whole: a walk from the start meets every node in use once, and
\* ends at NULL or comes round; the way back is the way there.
Size == Cardinality(Live)
Whole ==
  /\ status = "ok"
  /\ {Walk(start)[n] : n \in 0..(Size - 1)} = Live
  /\ Walk(start)[Size] = IF Ring /\ Size > 0 THEN start ELSE NULL
  /\ TwoWay => \A a \in Live :
       IF heap[a].next # NULL THEN heap[heap[a].next].prev = a ELSE TRUE
  /\ kind = "doubly" /\ start # NULL => heap[start].prev = NULL

Contents == [n \in 1..Size |-> heap[Walk(start)[n - 1]].data]

Abstract == INSTANCE ListSpec
              WITH list <- IF Whole THEN Contents ELSE << >>, usable <- Whole

\* Every call that is supported has its effect on the sequence and leaks
\* nothing; and every other call breaks the list: Supported is exact.
IsList == Abstract!ListPromise
=============================================================================
