---------------------------- MODULE CircularList ----------------------------
(***************************************************************************)
(* circularlinkedlist.c of LinkedList/.  The last node points to the       *)
(* first, and no loop asks whether it has come round: only the nodes it    *)
(* looks for end it.                                                       *)
(***************************************************************************)
EXTENDS NodeHeap

HasData(a, v) == heap[a].data = v
BeforeData(a, v) == Succ(a) \in Live => HasData(Succ(a), v)
BeforeStart(a) == heap[a].next = start

appendCNode(v) ==
  \E a \in Fresh :
    LET last == Seek(start, BeforeStart)
    IN /\ Call(<<"append", v>>)
       /\ \/ /\ start = NULL
             /\ Effect({}, a, Malloc(heap, a, [data |-> v, next |-> a]))
          \/ /\ start # NULL
             /\ Effect({last}, start,
                       Malloc([heap EXCEPT ![last].next = a], a,
                              [data |-> v, next |-> start]))

insertCNode(w, v) ==
  \E a \in Fresh :
    LET HasW(x) == HasData(x, w)
        current == Seek(start, HasW)
    IN /\ Call(<<"insert", w, v>>)
       /\ Effect({current}, start,
                 Malloc([heap EXCEPT ![current].next = a], a,
                        [data |-> v, next |-> Succ(current)]))

\* The only node is its own predecessor: start stays at what is freed.
deleteCNode(v) ==
  LET Before(a) == BeforeData(a, v)
      second == Succ(start)
      last == Seek(second, BeforeStart)
      current == Seek(second, Before)
      temp == Succ(current)
  IN /\ Call(<<"delete", v>>)
     /\ \/ start \notin Live /\ Effect({start}, start, heap)
        \/ /\ start \in Live /\ HasData(start, v)
           /\ Effect({last}, second,
                     Free([heap EXCEPT ![last].next = second], {start}))
        \/ /\ start \in Live /\ ~HasData(start, v)
           /\ Effect({current}, start,
                     Free([heap EXCEPT ![current].next = Succ(temp)],
                          {temp}))

\* An empty list is not asked for.
pushCNode(v) ==
  \E a \in Fresh :
    LET last == Seek(Succ(start), BeforeStart)
    IN /\ Call(<<"push", v>>)
       /\ \/ start \notin Live /\ Effect({start}, start, heap)
          \/ /\ start \in Live
             /\ Effect({last}, a,
                       Malloc([heap EXCEPT ![last].next = a], a,
                              [data |-> v, next |-> start]))

\* From the second node on, and the first at last.
freeallCNodes ==
  /\ Call(<<"freeall">>)
  /\ Effect({start}, NULL,
            Free(heap, {Walk(start)[n] : n \in 0..Cardinality(Addr)}))

\* The loop ends when it is back at the start.
printfallCNode ==
  /\ Call(<<"print">>)
  /\ Effect(IF start = NULL THEN {} ELSE {Seek(start, BeforeStart)}, start, heap)

CircularNext ==
  \/ \E v \in Value : appendCNode(v) \/ pushCNode(v) \/ deleteCNode(v)
  \/ \E w, v \in Value : insertCNode(w, v)
  \/ freeallCNodes \/ printfallCNode
=============================================================================
