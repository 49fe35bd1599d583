---------------------------- MODULE PthreadList ----------------------------
(***************************************************************************)
(* singlylinkedlist.c of pthread_socket/, whose deleteNode alone differs   *)
(* from the other copies: it is for any list and any value.                *)
(***************************************************************************)
EXTENDS SinglyList

\* The loop goes on while there is a next node.
deletePresent(v) ==
  LET Stop(a) == IsLast(a) \/ BeforeValue(a, v)
      current == Seek(start, Stop)
      temp == Succ(current)
  IN /\ Call(<<"delete", v>>)
     /\ \/ start = NULL /\ Effect({}, start, heap)
        \/ /\ start # NULL /\ Holds(start, v)
           /\ Effect({start}, Succ(start), Free(heap, {start}))
        \/ /\ start # NULL /\ ~Holds(start, v)
           /\ Effect({current}, start,
                     IF temp = NULL
                       THEN heap
                       ELSE Free([heap EXCEPT ![current].next = Succ(temp)],
                                 {temp}))

PthreadListNext ==
  \/ \E v \in Value : appendNode(v) \/ pushNode(v) \/ deletePresent(v)
  \/ \E w, v \in Value : insertNode(w, v)
  \/ freeallNodes \/ printfallNodes \/ S_bubblesorted
=============================================================================
