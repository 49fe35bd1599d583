----------------------------- MODULE SinglyList -----------------------------
(***************************************************************************)
(* singlylinkedlist.c of LinkedList/, of which the epoll and the fork      *)
(* server have copies (the thread server's copy differs: PthreadList).     *)
(***************************************************************************)
EXTENDS NodeHeap

IsLast(a) == heap[a].next = NULL
Holds(a, v) == heap[a].data = v

\* The loop of a deletion stops before a node with v; it reads the data of the
\* next node without asking whether there is one.
BeforeValue(a, v) == Succ(a) \in Live => Holds(Succ(a), v)

appendNode(v) ==
  \E a \in Fresh :
    LET node == [data |-> v, next |-> NULL]
        last == Seek(start, IsLast)
    IN /\ Call(<<"append", v>>)
       /\ \/ /\ start = NULL
             /\ Effect({}, a, Malloc(heap, a, node))
          \/ /\ start # NULL
             /\ Effect({last}, start,
                       Malloc([heap EXCEPT ![last].next = a], a, node))

\* Nothing is inserted after a value that is not there.
insertNode(w, v) ==
  LET HasW(a) == Holds(a, w)
      current == Seek(start, HasW)
  IN /\ Call(<<"insert", w, v>>)
     /\ \/ current = NULL /\ Effect({}, start, heap)
        \/ \E a \in Fresh :
             /\ current # NULL
             /\ Effect({current}, start,
                       Malloc([heap EXCEPT ![current].next = a], a,
                              [data |-> v, next |-> Succ(current)]))

pushNode(v) ==
  \E a \in Fresh :
    /\ Call(<<"push", v>>)
    /\ Effect({}, a, Malloc(heap, a, [data |-> v, next |-> start]))

\* Without a return, what follows the message about an empty list is done too.
deleteNode(v) ==
  LET Before(a) == BeforeValue(a, v)
      current == Seek(start, Before)
      temp == Succ(current)
  IN /\ Call(<<"delete", v>>)
     /\ \/ start \notin Live /\ Effect({start}, start, heap)
        \/ /\ start \in Live /\ Holds(start, v)
           /\ Effect({start}, Succ(start), Free(heap, {start}))
        \/ /\ start \in Live /\ ~Holds(start, v)
           /\ Effect({current, temp}, start,
                     Free([heap EXCEPT ![current].next = Succ(temp)],
                          {temp}))

----------------------------------------------------------------------------
(* What the doubly linked list does in the same way. *)

\* The nodes a loop passes that goes on until NULL, if it comes to it.
Ends == start # NULL => Seek(start, IsLast) \in Live
Nodes == {Walk(start)[n] : n \in 0..Cardinality(Addr)} \cap Live
ToTheEnd == IF start = NULL THEN {} ELSE {Seek(start, IsLast)}

\* A cycle is freed until the first node comes round: use after free.
freeallNodes ==
  /\ Call(<<"freeall">>)
  /\ Effect(IF Ends THEN {} ELSE {NULL}, NULL, Free(heap, Nodes))

printfallNodes ==
  /\ Call(<<"print">>)
  /\ Effect(ToTheEnd, start, heap)

\* S_swap: exchange by sums, which may wrap.
Wrap(x) == ((x + Half) % (2 * Half)) - Half
SwappedTwice(x, y) ==  \* mutant: the third assignment is forgotten
  LET sum == Wrap(x + y)
  IN <<sum, Wrap(sum - y)>>
SwappedPair(x, y) ==
  LET sum == Wrap(x + y)
      right == Wrap(sum - y)
  IN <<Wrap(sum - right), right>>

\* One pass over the first b nodes.
Pass(values, b) ==
  LET after[i \in 1..b] ==
        IF i = 1 THEN values
        ELSE LET vs == after[i - 1]
                 pair == SwappedPair(vs[i - 1], vs[i])
             IN IF vs[i - 1] > vs[i]
                  THEN [vs EXCEPT ![i - 1] = pair[1], ![i] = pair[2]]
                  ELSE vs
  IN after[b]

\* Each pass ends one node earlier; a pass without an exchange is the last.
BubbleSorted(values) ==
  LET n == Len(values)
      passes[k \in 0..n] ==
        IF k = 0 THEN values
        ELSE IF k > 1 /\ passes[k - 1] = passes[k - 2] THEN passes[k - 1]
        ELSE Pass(passes[k - 1], n + 1 - k)
  IN passes[n]

S_bubblesorted ==
  LET place(a) == CHOOSE n \in 1..Cardinality(Nodes) : Walk(start)[n - 1] = a
      values == [n \in 1..Cardinality(Nodes) |-> heap[Walk(start)[n - 1]].data]
  IN /\ Call(<<"sort">>)
     /\ Effect(ToTheEnd, start,
               [a \in Live |->
                  IF a \in Nodes
                    THEN [heap[a] EXCEPT !.data = BubbleSorted(values)[place(a)]]
                    ELSE heap[a]])

SinglyNext ==
  \/ \E v \in Value : appendNode(v) \/ pushNode(v) \/ deleteNode(v)
  \/ \E w, v \in Value : insertNode(w, v)
  \/ freeallNodes \/ printfallNodes \/ S_bubblesorted
=============================================================================
