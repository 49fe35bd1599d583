------------------------- MODULE DoublyCircularList -------------------------
(***************************************************************************)
(* doublycircularlinkedlist.c of LinkedList/.                              *)
(***************************************************************************)
EXTENDS CircularList

\* A node between two others of the ring, which may be the same.
BetweenOneWay(a, v, before, behind) ==  \* mutant: the way back is forgotten
  Malloc([heap EXCEPT ![before].next = a], a,
         [data |-> v, prev |-> before, next |-> behind])
Between(a, v, before, behind) ==
  Malloc([heap EXCEPT ![before].next = a, ![behind].prev = a], a,
         [data |-> v, prev |-> before, next |-> behind])

Alone(a, v) == Malloc(heap, a, [data |-> v, prev |-> a, next |-> a])

pushDCNode(v) ==
  \E a \in Fresh :
    LET last == Seek(Succ(start), BeforeStart)
    IN /\ Call(<<"push", v>>)
       /\ \/ start = NULL /\ Effect({}, a, Alone(a, v))
          \/ start \in Pointer \ (Live \cup {NULL}) /\ Effect({start}, start, heap)
          \/ start \in Live /\ Effect({last}, a, Between(a, v, last, start))

appnedDCNode(v) ==
  \E a \in Fresh :
    LET last == Seek(start, BeforeStart)
    IN /\ Call(<<"append", v>>)
       /\ \/ start = NULL /\ Effect({}, a, Alone(a, v))
          \/ start # NULL /\ Effect({last}, start, Between(a, v, last, start))

\* Into an empty list it is inserted whatever it is to follow.
insertDCNode(w, v) ==
  \E a \in Fresh :
    LET HasW(x) == HasData(x, w)
        current == Seek(Succ(start), HasW)
    IN /\ Call(<<"insert", w, v>>)
       /\ \/ start = NULL /\ Effect({}, a, Alone(a, v))
          \/ start \in Pointer \ (Live \cup {NULL}) /\ Effect({start}, start, heap)
          \/ /\ start \in Live
             /\ Effect({current}, start,
                       Between(a, v, current, Succ(current)))

deleteDCNode(v) ==
  LET Before(a) == BeforeData(a, v)
      second == Succ(start)
      last == heap[start].prev
      current == Seek(second, Before)
      temp == Succ(current)
      third == Succ(temp)
  IN /\ Call(<<"delete", v>>)
     /\ \/ start \notin Live /\ Effect({start}, start, heap)
        \/ /\ start \in Live /\ HasData(start, v)
           /\ Effect({second, last}, second,
                     Free([heap EXCEPT ![second].prev = last,
                                       ![last].next = second], {start}))
        \/ /\ start \in Live /\ ~HasData(start, v)
           /\ Effect({current}, start,
                     Free([heap EXCEPT ![current].next = third,
                                       ![third].prev = current], {temp}))

\* An assignment where a comparison was meant: the first node is freed, and
\* nothing else ever is.
freeallDCNode ==
  /\ Call(<<"freeall">>)
  /\ Effect({start}, NULL, Free(heap, {start}))

printfallDCNodes == printfallCNode

DoublyCircularNext ==
  \/ \E v \in Value : pushDCNode(v) \/ appnedDCNode(v) \/ deleteDCNode(v)
  \/ \E w, v \in Value : insertDCNode(w, v)
  \/ freeallDCNode \/ printfallDCNodes
=============================================================================
