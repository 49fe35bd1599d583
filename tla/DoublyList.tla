----------------------------- MODULE DoublyList -----------------------------
(***************************************************************************)
(* doublylinkedlist.c of LinkedList/.                                      *)
(***************************************************************************)
EXTENDS SinglyList

appendDNode(v) ==
  \E a \in Fresh :
    LET last == Seek(start, IsLast)
    IN /\ Call(<<"append", v>>)
       /\ \/ /\ start = NULL
             /\ Effect({}, a, Malloc(heap, a, [data |-> v, prev |-> NULL,
                                               next |-> NULL]))
          \/ /\ start # NULL
             /\ Effect({last}, start,
                       Malloc([heap EXCEPT ![last].next = a], a,
                              [data |-> v, prev |-> last, next |-> NULL]))

pushDNode(v) ==
  \E a \in Fresh :
    LET node == [data |-> v, prev |-> NULL, next |-> start]
    IN /\ Call(<<"push", v>>)
       /\ \/ /\ start = NULL
             /\ Effect({}, a, Malloc(heap, a, node))
          \/ /\ start # NULL
             /\ Effect({start}, a,
                       Malloc([heap EXCEPT ![start].prev = a], a, node))

\* The node's next is overwritten before it is copied: the new node gets
\* itself as its successor and its predecessor.
insertDNode(w, v) ==
  LET HasW(a) == Holds(a, w)
      current == Seek(start, HasW)
  IN /\ Call(<<"insert", w, v>>)
     /\ \/ current = NULL /\ Effect({}, start, heap)
        \/ \E a \in Fresh :
             /\ current # NULL
             /\ Effect({current}, start,
                       Malloc([heap EXCEPT ![current].next = a], a,
                              [data |-> v, prev |-> a, next |-> a]))

\* Deletion of the first node writes to the second.
deleteDNode(v) ==
  LET Before(a) == BeforeValue(a, v)
      current == Seek(start, Before)
      second == Succ(start)
      temp == Succ(current)
      third == Succ(temp)
      bypassed == [heap EXCEPT ![current].next = third]
  IN /\ Call(<<"delete", v>>)
     /\ \/ start \notin Live /\ Effect({start}, start, heap)
        \/ /\ start \in Live /\ Holds(start, v)
           /\ Effect({second}, second,
                     Free([heap EXCEPT ![second].prev = NULL], {start}))
        \/ /\ start \in Live /\ ~Holds(start, v)
           /\ Effect({current, temp} \cup ({third} \ {NULL}), start,
                     Free(IF third = NULL THEN bypassed
                          ELSE [bypassed EXCEPT ![third].prev = current],
                          {temp}))

freeallDNodes == freeallNodes
printfallDNodes == printfallNodes
D_bubblesorted == S_bubblesorted

DoublyNext ==
  \/ \E v \in Value : appendDNode(v) \/ pushDNode(v) \/ deleteDNode(v)
  \/ \E w, v \in Value : insertDNode(w, v)
  \/ freeallDNodes \/ printfallDNodes \/ D_bubblesorted
=============================================================================
