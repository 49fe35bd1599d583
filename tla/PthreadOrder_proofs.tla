------------------------ MODULE PthreadOrder_proofs -------------------------
(***************************************************************************)
(* What the clients of the pthread server hear.  All of them hear what was *)
(* broadcast in the order in which the threads took the mutex, although    *)
(* main appends to the list while a thread walks it; and at the end of a   *)
(* broadcast everyone who was on the list has heard it.  Both rest on      *)
(* OrderInv, and on the invariants shown in PthreadServer_proofs.          *)
(***************************************************************************)
EXTENDS PthreadServer_proofs

----------------------------------------------------------------------------
(* What the clients hear, and in which order. *)

\* t is in l up to n, in this order, with gaps.
Embedded(t, l, n) ==
  \E place \in [1..Len(t) -> 1..n] :
    /\ \A i, j \in 1..Len(t) : i < j => place[i] < place[j]
    /\ \A i \in 1..Len(t) : l[place[i]] = t[i]

\* Who has heard nothing has heard it in order.
LEMMA EmbeddedNothing ==
  ASSUME NEW l, NEW n \in Nat
  PROVE  Embedded(<< >>, l, n)
<1> DEFINE place == [i \in 1..0 |-> 1]
<1>1. Len(<< >>) = 0 /\ 1..0 = {}
  OBVIOUS
<1>2. place \in [1..Len(<< >>) -> 1..n]
  BY <1>1
<1>3. \A i \in 1..Len(<< >>) : FALSE
  BY <1>1
<1> QED BY <1>2, <1>3 DEF Embedded

\* Order is kept when the log gets longer.
LEMMA EmbeddedInMore ==
  ASSUME NEW t \in Seq(Entry), NEW l, NEW more, NEW n \in Nat, NEW m \in Nat,
         n <= m, \A i \in 1..n : more[i] = l[i], Embedded(t, l, n)
  PROVE  Embedded(t, more, m)
<1>1. PICK place \in [1..Len(t) -> 1..n] :
        /\ \A i, j \in 1..Len(t) : i < j => place[i] < place[j]
        /\ \A i \in 1..Len(t) : l[place[i]] = t[i]
  BY DEF Embedded
<1>2. place \in [1..Len(t) -> 1..m]
  BY <1>1
<1>3. \A i \in 1..Len(t) : more[place[i]] = t[i]
  BY <1>1
<1> QED BY <1>1, <1>2, <1>3 DEF Embedded

\* ... and when the last entry of the log is heard.
LEMMA EmbeddedHear ==
  ASSUME NEW t \in Seq(Entry), NEW e \in Entry, NEW l, NEW n \in Nat \ {0},
         l[n] = e, Embedded(t, l, n - 1)
  PROVE  Embedded(Hear(t, e), l, n)
<1>1. CASE Hear(t, e) = t
  BY <1>1, EmbeddedInMore
<1>2. CASE Hear(t, e) = Append(t, e)
  <2>1. PICK place \in [1..Len(t) -> 1..(n - 1)] :
          /\ \A i, j \in 1..Len(t) : i < j => place[i] < place[j]
          /\ \A i \in 1..Len(t) : l[place[i]] = t[i]
    BY DEF Embedded
  <2> DEFINE T == Append(t, e)
             L == Len(t)
             longer == [i \in 1..(L + 1) |-> IF i = L + 1 THEN n ELSE place[i]]
  <2>2. L \in Nat /\ Len(T) = L + 1 /\ T[L + 1] = e
        /\ \A i \in 1..L : T[i] = t[i]
    OBVIOUS
  <2>3. \A i \in 1..L : place[i] \in 1..(n - 1)
    BY <2>1
  <2> HIDE DEF T, L
  <2>4. longer \in [1..(L + 1) -> 1..n]
    BY <2>2, <2>3
  <2>5. \A i, j \in 1..(L + 1) : i < j => longer[i] < longer[j]
    <3> SUFFICES ASSUME NEW i \in 1..(L + 1), NEW j \in 1..(L + 1), i < j
                 PROVE  longer[i] < longer[j]
      OBVIOUS
    <3>1. i \in 1..L /\ longer[i] = place[i] /\ place[i] \in Nat /\ place[i] < n
      BY <2>2, <2>3
    <3>2. CASE j = L + 1
      BY <2>2, <3>1, <3>2
    <3>3. CASE j # L + 1
      <4>1. j \in 1..L /\ longer[j] = place[j]
        BY <2>2, <3>3
      <4>2. place[i] < place[j]
        BY <2>1, <3>1, <4>1 DEF L
      <4> QED BY <3>1, <4>1, <4>2
    <3> QED BY <3>2, <3>3
  <2>6. \A i \in 1..(L + 1) : l[longer[i]] = T[i]
    <3> SUFFICES ASSUME NEW i \in 1..(L + 1) PROVE l[longer[i]] = T[i]
      OBVIOUS
    <3>1. CASE i = L + 1
      BY <2>2, <3>1
    <3>2. CASE i # L + 1
      <4>1. i \in 1..L /\ longer[i] = place[i]
        BY <2>2, <3>2
      <4> QED BY <2>1, <2>2, <4>1 DEF L
    <3> QED BY <3>1, <3>2
  <2> HIDE DEF longer
  <2>7. Embedded(T, l, n)
    BY <2>2, <2>4, <2>5, <2>6 DEF Embedded
  <2> QED BY <1>2, <2>7 DEF T
<1> QED BY <1>1, <1>2 DEF Hear

\* What is heard is what was heard last.
LEMMA HearLast ==
  ASSUME NEW t \in Seq(Entry), NEW e \in Entry
  PROVE  Hear(t, e) # << >> /\ Hear(t, e)[Len(Hear(t, e))] = e
<1>1. CASE Hear(t, e) = Append(t, e)
  BY <1>1, AppendIsLonger
<1>2. CASE Hear(t, e) # Append(t, e)
  BY <1>2 DEF Hear
<1> QED BY <1>1, <1>2

\* The nodes a thread is still to come to in its broadcast.
Ahead(k) ==
  {a \in Addr : \A S \in SUBSET Addr : temp[k] \in S \cup {NULL} /\ Follows(S)
                                         => a \in S}

\* Ahead is in every set that has the node and what follows its nodes.
LEMMA AheadLeast ==
  \A k \in Thread : \A S \in SUBSET Addr :
    temp[k] \in S \cup {NULL} /\ Follows(S) => Ahead(k) \subseteq S
BY DEF Ahead

\* Ahead is such a set itself, also in the next state.
LEMMA AheadClosed ==
  HeapTypeOK => \A k \in Thread :
    /\ Ahead(k) \in SUBSET Addr /\ temp[k] \in Ahead(k) \cup {NULL}
    /\ Follows(Ahead(k))
<1> SUFFICES ASSUME HeapTypeOK, NEW k \in Thread
             PROVE  /\ Ahead(k) \in SUBSET Addr /\ temp[k] \in Ahead(k) \cup {NULL}
                    /\ Follows(Ahead(k))
  OBVIOUS
<1>1. temp[k] \in Ahead(k) \cup {NULL}
  BY DEF Ahead, HeapTypeOK
<1>2. ASSUME NEW a \in Ahead(k), next[a] # NULL
      PROVE  next[a] \in Ahead(k)
  <2>1. ASSUME NEW S \in SUBSET Addr, temp[k] \in S \cup {NULL}, Follows(S)
        PROVE  next[a] \in S
    <3>1. a \in S
      BY <2>1 DEF Ahead
    <3> QED BY <1>2, <2>1, <3>1 DEF Follows
  <2>2. next[a] \in Addr
    BY <1>2 DEF Ahead, HeapTypeOK
  <2> QED BY <2>1, <2>2 DEF Ahead
<1> QED BY <1>1, <1>2 DEF Ahead, Follows

\* The same after a step.
LEMMA AheadLeastNext ==
  (\A k \in Thread : \A S \in SUBSET Addr :
     temp[k] \in S \cup {NULL} /\ Follows(S) => Ahead(k) \subseteq S)'
BY AheadLeast, PTL

LEMMA AheadClosedNext ==
  (HeapTypeOK => \A k \in Thread :
     /\ Ahead(k) \in SUBSET Addr /\ temp[k] \in Ahead(k) \cup {NULL}
     /\ Follows(Ahead(k)))'
BY AheadClosed, PTL

\* The nodes of the list are the least linked set, also in the next state.
LEMMA NodesLinkedNext ==
  (\A S \in SUBSET Addr :
     Linked(S) =>
       /\ Nodes \subseteq S /\ NULL \notin Nodes
       /\ head \in Nodes \cup {NULL} /\ Follows(Nodes))'
BY NodesLinked, PTL

\* Every node of the list has a descriptor.
LEMMA NodesGiven ==
  ASSUME Known
  PROVE  Nodes \subseteq Given /\ Nodes \subseteq Addr
<1>1. /\ Given \in SUBSET Addr /\ head \in Given \cup {NULL}
      /\ \A a \in Given : next[a] \in Given \cup {NULL}
  BY DEF Known, Given
<1> HIDE DEF Given, Nodes
<1> QED BY <1>1, NodesLeast

----------------------------------------------------------------------------
(* What InOrder and EveryoneHears rest on. *)

\* The walk of a broadcast does not leave the list.
OnList == \A k \in Thread : hpc[k] = "cast" => temp[k] \in Nodes \cup {NULL}

\* Who is still to be reached has not heard the last entry of the log.
Casting ==
  \A k \in Thread : hpc[k] = "cast" =>
    /\ log # << >> /\ log[Len(log)] = recv_buff[k][1]
    /\ \A a \in Ahead(k) : data[a] # sockfd[k] /\ fdt[data[a]] # Free =>
         Embedded(got[fdt[data[a]]], log, Len(log) - 1)

\* Who is not accepted has heard nothing, nor who is not on the list yet.
Silent ==
  /\ \A c \in Conn : peer[c] = "new" => got[c] = << >>
  /\ \A n \in 1..Len(backlog) : got[backlog[n]] = << >>
Newcomer == Appending => got[fdt[connect_FD]] = << >>

\* Who was on the list when the broadcast began is on it, and has heard or will.
Heard(c) == got[c] # << >> /\ got[c][Len(got[c])] = log[Len(log)]
Awaited ==
  \A k \in Thread : hpc[k] = "cast" => \A c \in due : \E a \in Nodes :
    /\ data[a] # sockfd[k] /\ fdt[data[a]] = c
    /\ peer[c] = "rst" \/ Heard(c) \/ a \in Ahead(k)

\* In the shutdown main frees the nodes under the threads, but the list they
\* walk stays the list it was.
Tidy(S) ==
  /\ Linked(S)
  /\ \A a, b \in Nodes : data[a] = data[b] => a = b
  /\ \A k \in Thread : hpc[k] = "unlink" =>
       /\ temp[k] \in Nodes
       /\ IF before[k] = NULL
            THEN head = temp[k]
            ELSE before[k] \in Nodes /\ next[before[k]] = temp[k]
       /\ after[k] \in {next[temp[k]], NULL}

Ordered == \A c \in Conn : Embedded(got[c], log, Len(log))

OrderInv ==
  ~late =>
    /\ Ordered
    /\ Running => OnList /\ Casting /\ Silent
    /\ Safe => Awaited /\ Newcomer
    /\ Running /\ Closing => \E S \in SUBSET Addr : Tidy(S)

\* Before the shutdown, too.
LEMMA TidyNow ==
  ASSUME ListInv, Inv, OrderInv, ~late, Running
  PROVE  \E S \in SUBSET Addr : Tidy(S)
<1>1. CASE Closing
  BY <1>1 DEF OrderInv
<1>2. CASE ~Closing
  <2>1. Links /\ HeldPointers /\ Placed /\ live \in SUBSET Addr
    BY <1>2 DEF ListInv, Inv, HeapTypeOK
  <2>2. Linked(live)
    BY <2>1 DEF Links, Linked, Follows
  <2> HIDE DEF Nodes
  <2>3. \A k \in Thread : hpc[k] = "unlink" =>
          /\ temp[k] \in Nodes
          /\ IF before[k] = NULL
               THEN head = temp[k]
               ELSE before[k] \in Nodes /\ next[before[k]] = temp[k]
          /\ after[k] \in {next[temp[k]], NULL}
    BY <2>1 DEF HeldPointers, Placed
  <2>4. \A a, b \in Nodes : data[a] = data[b] => a = b
    BY <2>1 DEF Placed
  <2>5. Tidy(live)
    BY <2>2, <2>3, <2>4 DEF Tidy
  <2> QED BY <2>1, <2>5
<1> QED BY <1>1, <1>2

\* The list and who deletes from it stay the same.
LEMMA TidyQuiet ==
  ASSUME NEW S \in SUBSET Addr, Tidy(S), UNCHANGED <<head, data, next>>,
         \A k \in Thread : hpc'[k] = "unlink" =>
           /\ hpc[k] = "unlink" /\ temp'[k] = temp[k]
           /\ before'[k] = before[k] /\ after'[k] = after[k]
  PROVE  Tidy(S)'
<1>1. Nodes' = Nodes
  BY DEF Nodes, At
<1>2. Linked(S)'
  BY DEF Tidy, Linked, Follows
<1> HIDE DEF Nodes
<1> QED BY <1>1, <1>2 DEF Tidy

\* A thread takes a node out of the list that it walks.
LEMMA TidyUnlink ==
  ASSUME ListInv, ListInv', NEW S \in SUBSET Addr, Tidy(S), UNCHANGED data,
         NEW k \in Thread, Unlink(k)
  PROVE  \E D \in SUBSET Addr : Tidy(D)'
<1>1. /\ hpc[k] = "unlink" /\ hpc' = [hpc EXCEPT ![k] = "close"]
      /\ IF before[k] = NULL
           THEN head' = after[k] /\ UNCHANGED next
           ELSE next' = [next EXCEPT ![before[k]] = after[k]] /\ UNCHANGED head
  BY DEF Unlink, Move, Bypass
<1>2. PICK t, b, e : t = temp[k] /\ b = before[k] /\ e = after[k]
  OBVIOUS
<1>3. HeapTypeOK /\ Exclusive
  BY DEF ListInv
<1>4. /\ Nodes \subseteq S /\ NULL \notin Nodes
      /\ head \in Nodes \cup {NULL} /\ Follows(Nodes)
  BY NodesLinked DEF Tidy
<1> HIDE DEF Nodes
<1>5. /\ t \in Nodes /\ e \in {next[t], NULL}
      /\ IF b = NULL THEN head = t ELSE b \in Nodes /\ next[b] = t
      /\ t \in S /\ t # NULL
  BY <1>1, <1>2, <1>4 DEF Tidy
<1>6. /\ head \in S \cup {NULL} /\ \A a \in S : next[a] \in S \cup {NULL}
      /\ \A x, y \in S : next[x] = next[y] /\ next[x] # NULL => x = y
      /\ head # NULL => \A a \in S : next[a] # head
  BY DEF Tidy, Linked, Follows
<1>7. /\ head' = IF b = NULL THEN e ELSE head
      /\ \A a \in Addr : next'[a] = IF a = b THEN e ELSE next[a]
  BY <1>1, <1>2, <1>3, PthreadAssumption DEF HeapTypeOK
<1>8. next[t] # t
  <2> SUFFICES ASSUME next[t] = t PROVE FALSE
    OBVIOUS
  <2> DEFINE D == S \ {t}
  <2>1. D \in SUBSET Addr /\ head \in D \cup {NULL}
        /\ \A a \in D : next[a] \in D \cup {NULL}
    BY <1>5, <1>6
  <2> HIDE DEF D
  <2>2. Nodes \subseteq D
    BY <2>1, NodesLeast
  <2> QED BY <1>5, <2>2 DEF D
<1>9. Nodes' \subseteq Nodes \ {t}
  <2> DEFINE D == Nodes \ {t}
  <2>1. D \in SUBSET Addr /\ e \in D \cup {NULL}
    BY <1>4, <1>5, <1>8 DEF Follows
  <2>2. head' \in D \cup {NULL}
    BY <1>4, <1>5, <1>6, <1>7, <2>1
  <2>3. \A a \in D : next'[a] \in D \cup {NULL}
    BY <1>4, <1>5, <1>6, <1>7, <2>1 DEF Follows
  <2> HIDE DEF D
  <2>4. Nodes' \subseteq D
    BY <2>1, <2>2, <2>3, NodesLeastNext
  <2> QED BY <2>4 DEF D
<1>10. Linked(S \ {t})'
  <2> DEFINE D == S \ {t}
  <2>1. \A a \in D : a # b => next[a] # t
    BY <1>4, <1>5, <1>6
  <2>2. e \in D \cup {NULL} /\ (b # NULL => b \in D)
    BY <1>4, <1>5, <1>6, <1>8
  <2>3. \A a \in D : next'[a] = IF a = b THEN e ELSE next[a]
    BY <1>7
  <2>4. head' \in D \cup {NULL} /\ \A a \in D : next'[a] \in D \cup {NULL}
    BY <1>4, <1>5, <1>6, <1>7, <2>1, <2>2, <2>3
  <2>5. \A x, y \in D : next'[x] = next'[y] /\ next'[x] # NULL => x = y
    BY <1>5, <1>6, <2>3
  <2>6. head' # NULL => \A a \in D : next'[a] # head'
    <3> SUFFICES ASSUME NEW a \in D, next'[a] = head', head' # NULL PROVE FALSE
      OBVIOUS
    <3>1. a \in S /\ a # t /\ a \in Addr
      OBVIOUS
    <3>2. CASE b = NULL
      BY <1>5, <1>6, <1>7, <2>3, <3>1, <3>2, PthreadAssumption
    <3>3. CASE b # NULL
      BY <1>5, <1>6, <1>7, <2>3, <3>1, <3>3
    <3> QED BY <3>2, <3>3
  <2> HIDE DEF D
  <2>7. Linked(D)'
    BY <2>4, <2>5, <2>6 DEF Linked, Follows
  <2> QED BY <2>7 DEF D
<1>11. \A j \in Thread : hpc'[j] # "unlink"
  BY <1>1, <1>3 DEF HeapTypeOK, Exclusive
<1>12. (\A x, y \in Nodes : data[x] = data[y] => x = y)'
  BY <1>9 DEF Tidy
<1>13. Tidy(S \ {t})'
  BY <1>10, <1>11, <1>12 DEF Tidy
<1>14. S \ {t} \in SUBSET Addr
  OBVIOUS
<1> QED BY <1>13, <1>14

\* A connection that overtook a thread has done so for good, and a server that
\* is gone is gone.
LEMMA LateForGood ==
  ASSUME [Next]_vars
  PROVE  (~late' => ~late) /\ (Running' => Running)
<1>1. late => late'
  <2>1. CASE Accept
    BY <2>1, Zenon DEF Accept
  <2>2. CASE ~Accept
    BY <2>2 DEF Next, MainStep, TestFlag, Select, AcceptFails, Refuse, Append1,
       Load, Walk, Link, Create, CloseOne, FreeOne, Return, HandlerStep, Start,
       Stop, Read, LockToCast, Cast, CastDone, LockToDelete, Find, Unlink,
       CloseFd, Crash, SigInt, ClientsAct, vars, history
  <2> QED BY <2>1, <2>2
<1>2. Running' => Running
  BY DEF Next, vars, mainVars, Running
<1> QED BY <1>1, <1>2

\* deleteNode finds the place before the node it takes out.
LEMMA TidyFind ==
  ASSUME ListInv, NEW S \in SUBSET Addr, Tidy(S), NEW k \in Thread, Find(k)
  PROVE  Tidy(S)'
<1>1. UNCHANGED <<head, data, next>> /\ hpc[k] = "find"
  BY DEF Find, heapVars
<1>2. /\ DOMAIN hpc = Thread /\ DOMAIN temp = Thread /\ DOMAIN before = Thread
      /\ DOMAIN after = Thread
  BY DEF ListInv, HeapTypeOK
<1>3. CASE Places(sockfd[k]) = {}
  <2>1. Move(k, "close") /\ UNCHANGED <<temp, before, after>>
    BY <1>3 DEF Find
  <2>2. \A j \in Thread : hpc'[j] = "unlink" => hpc[j] = "unlink"
    BY <1>2, <2>1 DEF Move
  <2> QED BY <1>1, <2>1, <2>2, TidyQuiet
<1>4. CASE Places(sockfd[k]) # {}
  <2> DEFINE n == First(Places(sockfd[k]))
  <2>1. n \in Places(sockfd[k])
    <3>1. Places(sockfd[k]) \in SUBSET Nat
      BY WalkStep DEF Places
    <3> QED BY <1>4, <3>1, LeastExists DEF First
  <2>2. /\ n \in DOMAIN At /\ At[n] # NULL
        /\ temp' = [temp EXCEPT ![k] = At[n]]
        /\ before' = [before EXCEPT ![k] = IF n = 0 THEN NULL ELSE At[n - 1]]
        /\ after' = [after EXCEPT ![k] = next[At[n]]]
        /\ Move(k, "unlink")
    BY <1>4, <2>1 DEF Find, Places
  <2> HIDE DEF n
  <2>3. IF n = 0 THEN At[n] = head
        ELSE /\ n - 1 \in DOMAIN At /\ At[n - 1] # NULL
             /\ At[n] = next[At[n - 1]]
    <3>1. Cardinality(Addr) \in Nat /\ DOMAIN At = 0..Cardinality(Addr)
      BY WalkStep
    <3>2. CASE n = 0
      BY <3>2, WalkStep
    <3>3. CASE n # 0
      <4>1. n \in 1..Cardinality(Addr) /\ n - 1 \in DOMAIN At
        BY <2>2, <3>1, <3>3
      <4>2. At[n] = IF At[n - 1] = NULL THEN NULL ELSE next[At[n - 1]]
        BY <4>1, WalkStep
      <4> HIDE DEF At
      <4> QED BY <2>2, <3>3, <4>1, <4>2
    <3> QED BY <3>2, <3>3
  <2>4. PICK t, b : t = At[n] /\ b = IF n = 0 THEN NULL ELSE At[n - 1]
    OBVIOUS
  <2>5. t \in Nodes /\ IF b = NULL THEN head = t ELSE b \in Nodes /\ next[b] = t
    <3> HIDE DEF At
    <3> QED BY <2>2, <2>3, <2>4 DEF Nodes
  <2>6. Nodes' = Nodes
    BY <1>1 DEF Nodes, At
  <2> HIDE DEF Nodes, At
  <2>7. /\ hpc' = [hpc EXCEPT ![k] = "unlink"] /\ temp' = [temp EXCEPT ![k] = t]
        /\ before' = [before EXCEPT ![k] = b]
        /\ after' = [after EXCEPT ![k] = next[t]]
    BY <2>2, <2>4 DEF Move
  <2>8. \A j \in Thread : hpc'[j] = "unlink" =>
          /\ temp'[j] \in Nodes
          /\ IF before'[j] = NULL
               THEN head = temp'[j]
               ELSE before'[j] \in Nodes /\ next[before'[j]] = temp'[j]
          /\ after'[j] \in {next[temp'[j]], NULL}
    <3> SUFFICES ASSUME NEW j \in Thread, hpc'[j] = "unlink"
                 PROVE  /\ temp'[j] \in Nodes
                        /\ IF before'[j] = NULL
                             THEN head = temp'[j]
                             ELSE /\ before'[j] \in Nodes
                                  /\ next[before'[j]] = temp'[j]
                        /\ after'[j] \in {next[temp'[j]], NULL}
      OBVIOUS
    <3>1. CASE j = k
      BY <1>2, <2>5, <2>7, <3>1
    <3>2. CASE j # k
      <4>1. /\ hpc[j] = "unlink" /\ temp'[j] = temp[j]
            /\ before'[j] = before[j] /\ after'[j] = after[j]
        BY <1>2, <2>7, <3>2
      <4> QED BY <4>1 DEF Tidy
    <3> QED BY <3>1, <3>2
  <2>9. Linked(S)'
    BY <1>1 DEF Tidy, Linked, Follows
  <2>10. (\A x, y \in Nodes : data[x] = data[y] => x = y)'
    BY <1>1, <2>6 DEF Tidy
  <2> QED BY <1>1, <2>6, <2>8, <2>9, <2>10 DEF Tidy
<1> QED BY <1>3, <1>4

\* Nobody extends the list in the shutdown.
LEMMA TidyKeeps ==
  ASSUME ListInv, ListInv', Inv, OrderInv, [Next]_vars, ~late', Running',
         Closing'
  PROVE  \E S \in SUBSET Addr : Tidy(S)'
<1>1. PICK S \in SUBSET Addr : Tidy(S)
  BY LateForGood, TidyNow
<1>2. ASSUME NEW k \in Thread, HandlerStep(k)
      PROVE  \E D \in SUBSET Addr : Tidy(D)'
  <2>1. CASE Unlink(k)
    <3>1. UNCHANGED data
      BY <2>1 DEF Unlink
    <3> QED BY <1>1, <2>1, <3>1, TidyUnlink
  <2>2. CASE Find(k)
    BY <1>1, <2>2, TidyFind
  <2>3. CASE ~ (Unlink(k) \/ Find(k))
    <3>1. UNCHANGED <<head, data, next, before, after>>
      BY <1>2, <2>3 DEF HandlerStep, Start, Stop, Read, LockToCast, Cast,
         CastDone, LockToDelete, CloseFd, heapVars
    <3>2. \A j \in Thread : hpc'[j] = "unlink" => hpc[j] = "unlink"
      <4>1. DOMAIN hpc = Thread
        BY DEF ListInv, HeapTypeOK
      <4>2. CASE CastDone(k)
        <5>1. Move(k, "leave") \/ Move(k, "loop")
          BY <4>2 DEF CastDone
        <5> QED BY <4>1, <5>1 DEF Move
      <4>3. CASE ~CastDone(k)
        BY <1>2, <2>3, <4>1, <4>3 DEF HandlerStep, Start, Stop, Read,
           LockToCast, Cast, LockToDelete, CloseFd, Move
      <4> QED BY <4>2, <4>3
    <3>3. \A j \in Thread : hpc'[j] = "unlink" => temp'[j] = temp[j]
      <4>1. DOMAIN temp = Thread /\ DOMAIN hpc = Thread
        BY DEF ListInv, HeapTypeOK
      <4>2. CASE LockToCast(k) \/ Cast(k)
        <5>1. hpc'[k] # "unlink"
          BY <4>1, <4>2 DEF LockToCast, Cast, Move
        <5> QED BY <4>1, <4>2, <5>1 DEF LockToCast, Cast
      <4>3. CASE ~ (LockToCast(k) \/ Cast(k))
        BY <1>2, <2>3, <4>3 DEF HandlerStep, Start, Stop, Read, CastDone,
           LockToDelete, CloseFd
      <4> QED BY <4>2, <4>3
    <3>4. Tidy(S)'
      BY <1>1, <3>1, <3>2, <3>3, TidyQuiet
    <3> QED BY <3>4
  <2> QED BY <2>1, <2>2, <2>3
<1>3. ASSUME MainStep \/ Crash \/ SigInt \/ ClientsAct \/ UNCHANGED vars
      PROVE  \E D \in SUBSET Addr : Tidy(D)'
  <2>1. UNCHANGED <<head, data, next, hpc, temp, before, after>>
    BY <1>3 DEF MainStep, TestFlag, Select, AcceptFails, Accept, Refuse,
       Append1, Load, Walk, Link, Create, CloseOne, FreeOne, Return, Crash,
       SigInt, ClientsAct, vars, heapVars, thrVars, Closing, Running
  <2>2. Tidy(S)'
    BY <1>1, <2>1, TidyQuiet
  <2> QED BY <2>2
<1> QED BY <1>2, <1>3 DEF Next

\* While a thread broadcasts nobody takes a node out of the list: at most main
\* appends to it.
LEMMA ListWhileCast ==
  ASSUME ListInv, [Next]_vars, NEW k \in Thread, hpc[k] = "cast"
  PROVE  /\ UNCHANGED <<head, data, next>> \/ Append1 \/ Link
         /\ \A j \in Thread : ~ LockToCast(j) /\ (Cast(j) => j = k)
<1>1. Exclusive /\ list_mutex = k /\ k # 0
  BY DEF ListInv, Exclusive, Thread
<1>2. ASSUME NEW j \in Thread
      PROVE  ~ LockToCast(j) /\ (Cast(j) => j = k) /\ ~ Unlink(j)
  BY <1>1 DEF LockToCast, LockFree, Cast, Unlink, Exclusive
<1>3. UNCHANGED <<head, data, next>> \/ Append1 \/ Link
  <2>1. ASSUME NEW j \in Thread, HandlerStep(j)
        PROVE  UNCHANGED <<head, data, next>>
    BY <1>2, <2>1 DEF HandlerStep, Start, Stop, Read, Cast, CastDone,
       LockToDelete, Find, CloseFd, heapVars
  <2>2. ASSUME MainStep, ~ (Append1 \/ Link)
        PROVE  UNCHANGED <<head, data, next>>
    BY <2>2 DEF MainStep, TestFlag, Select, AcceptFails, Accept, Refuse,
       Load, Walk, Create, CloseOne, FreeOne, Return, heapVars
  <2>3. ASSUME Crash \/ SigInt \/ ClientsAct \/ UNCHANGED vars
        PROVE  UNCHANGED <<head, data, next>>
    BY <2>3 DEF Crash, SigInt, ClientsAct, vars, heapVars
  <2> QED BY <2>1, <2>2, <2>3 DEF Next
<1> QED BY <1>2, <1>3

\* main appends only up to the shutdown.
LEMMA AppendIsPunctual ==
  ASSUME Append1 \/ Link, ~late
  PROVE  Punctual /\ Punctual'
<1>1. CASE Append1
  BY <1>1, Zenon DEF Append1, Punctual, Safe, Running, Closing
<1>2. CASE Link
  BY <1>2 DEF Link, history, Punctual, Safe, Running, Closing
<1> QED BY <1>1, <1>2

\* A new node is behind all that the thread is still to come to, or not linked.
LEMMA AheadGrows ==
  ASSUME HeapTypeOK, HeapTypeOK', NEW k \in Thread, temp'[k] = temp[k],
         temp[k] \in Nodes \cup {NULL}, Nodes \in SUBSET Addr, Follows(Nodes),
         NEW x \in Addr \ Nodes, next'[x] = NULL,
         \A b \in Nodes : \/ next'[b] = next[b]
                          \/ next[b] = NULL /\ next'[b] = x
  PROVE  /\ Ahead(k) \subseteq Nodes
         /\ Ahead(k) \subseteq Ahead(k)'
         /\ Ahead(k)' \subseteq Ahead(k) \cup {x}
         /\ (\A b \in Nodes : next'[b] = next[b]) => Ahead(k)' \subseteq Ahead(k)
<1> HIDE DEF Nodes
<1>1. Ahead(k) \subseteq Nodes
  BY AheadLeast
<1>2. /\ Ahead(k) \in SUBSET Addr /\ temp[k] \in Ahead(k) \cup {NULL}
      /\ Follows(Ahead(k))
      /\ Ahead(k)' \in SUBSET Addr /\ temp[k] \in Ahead(k)' \cup {NULL}
      /\ Follows(Ahead(k))'
  BY AheadClosed, AheadClosedNext
<1>3. Ahead(k) \subseteq Ahead(k)'
  <2> DEFINE D == Ahead(k)' \cap Nodes
  <2>1. D \in SUBSET Addr /\ temp[k] \in D \cup {NULL}
    BY <1>2
  <2>2. \A b \in D : next[b] \in D \cup {NULL}
    BY <1>2 DEF Follows
  <2> HIDE DEF D
  <2>3. Ahead(k) \subseteq D
    BY <2>1, <2>2, AheadLeast DEF Follows
  <2> QED BY <2>3 DEF D
<1>4. ASSUME NEW y \in {x, NULL},
             \A b \in Nodes : next'[b] = next[b] \/ next'[b] = y
      PROVE  Ahead(k)' \subseteq Ahead(k) \cup ({y} \ {NULL})
  <2> DEFINE D == Ahead(k) \cup ({y} \ {NULL})
  <2>1. D \in SUBSET Addr /\ temp'[k] \in D \cup {NULL}
    BY <1>2
  <2>2. \A b \in D : next'[b] \in D \cup {NULL}
    BY <1>1, <1>2, <1>4 DEF Follows
  <2> HIDE DEF D
  <2>3. Ahead(k)' \subseteq D
    BY <2>1, <2>2, AheadLeastNext DEF Follows
  <2> QED BY <2>3 DEF D
<1>5. Ahead(k)' \subseteq Ahead(k) \cup {x}
  BY <1>4
<1>6. (\A b \in Nodes : next'[b] = next[b]) => Ahead(k)' \subseteq Ahead(k)
  BY <1>4
<1> QED BY <1>1, <1>3, <1>5, <1>6

\* What main appends comes behind all that the thread is still to come to.
LEMMA AheadKeeps ==
  ASSUME ListInv, ListInv', Inv, OrderInv, [Next]_vars, ~late, Running,
         NEW k \in Thread, hpc[k] = "cast", temp'[k] = temp[k]
  PROVE  /\ Nodes \subseteq Nodes' /\ Nodes \subseteq Addr
         /\ \A a \in Nodes : data'[a] = data[a]
         /\ Ahead(k) \subseteq Nodes
         /\ Ahead(k) \subseteq Ahead(k)'
         /\ \A a \in Ahead(k)' : a \in Ahead(k) \/ (Link /\ a = newnode)
<1>1. PICK S \in SUBSET Addr : Tidy(S)
  BY TidyNow
<1>2. /\ Nodes \in SUBSET Addr /\ NULL \notin Nodes
      /\ Follows(Nodes) /\ temp[k] \in Nodes \cup {NULL}
  BY <1>1, NodesLinked DEF Tidy, OrderInv, OnList
<1>3. HeapTypeOK /\ HeapTypeOK'
  BY DEF ListInv
<1> HIDE DEF Nodes
<1>4. CASE UNCHANGED <<head, data, next>>
  <2>1. Nodes' = Nodes
    BY <1>4 DEF Nodes, At
  <2>2. Ahead(k)' = Ahead(k)
    BY <1>4 DEF Ahead, Follows
  <2>3. Ahead(k) \subseteq Nodes
    BY <1>2, AheadLeast
  <2> QED BY <1>2, <1>4, <2>1, <2>2, <2>3
<1>5. CASE Append1
  <2>1. Punctual /\ Punctual'
    BY <1>5, AppendIsPunctual
  <2>2. PICK a \in Addr : /\ live' = live \cup {a} /\ a \notin live
                          /\ data' = [data EXCEPT ![a] = connect_FD]
                          /\ next' = [next EXCEPT ![a] = NULL]
                          /\ head' = IF head = NULL THEN a ELSE head
    BY <1>5, Zenon DEF Append1
  <2>3. a \notin Nodes /\ Nodes \subseteq Nodes'
    BY <2>1, <2>2, AppendNodes
  <2>4. /\ next'[a] = NULL /\ a \in Addr \ Nodes
        /\ \A b \in Nodes : next'[b] = next[b]
    BY <1>2, <1>3, <2>2, <2>3 DEF HeapTypeOK
  <2>5. /\ Ahead(k) \subseteq Nodes /\ Ahead(k) \subseteq Ahead(k)'
        /\ Ahead(k)' \subseteq Ahead(k)
    BY <1>2, <1>3, <2>4, AheadGrows
  <2>6. \A b \in Nodes : data'[b] = data[b]
    BY <1>2, <2>2, <2>3
  <2> QED BY <1>2, <2>3, <2>5, <2>6
<1>6. CASE Link
  <2>1. Punctual /\ Punctual' /\ Placed /\ AppendPointers
    BY <1>6, AppendIsPunctual DEF Inv, Punctual, Safe, ListInv
  <2>2. /\ Nodes \subseteq Nodes' /\ newnode \in Addr \ Nodes
        /\ \A b \in Nodes : b # current \/ next[b] = NULL
    BY <1>6, <2>1, LinkNodes
  <2>3. /\ next' = [next EXCEPT ![current] = newnode] /\ UNCHANGED data
        /\ next[newnode] = NULL /\ newnode # current
    BY <1>6, <2>1 DEF Link, Placed, AppendPointers
  <2>4. /\ next'[newnode] = NULL
        /\ \A b \in Nodes : \/ next'[b] = next[b]
                            \/ next[b] = NULL /\ next'[b] = newnode
    BY <1>2, <1>3, <2>2, <2>3 DEF HeapTypeOK
  <2>5. /\ Ahead(k) \subseteq Nodes /\ Ahead(k) \subseteq Ahead(k)'
        /\ Ahead(k)' \subseteq Ahead(k) \cup {newnode}
    BY <1>2, <1>3, <2>2, <2>4, AheadGrows
  <2> QED BY <1>2, <1>6, <2>2, <2>3, <2>5
<1> QED BY <1>4, <1>5, <1>6, ListWhileCast

\* A write brings the thread from its node to what follows it.
LEMMA AheadMoves ==
  ASSUME ListInv, ListInv', Inv, OrderInv, ~late, Running,
         NEW k \in Thread, NEW t, t = temp[k], t # NULL, hpc[k] = "cast",
         UNCHANGED <<head, data, next>>, temp' = [temp EXCEPT ![k] = next[t]]
  PROVE  /\ Nodes' = Nodes /\ t \in Nodes /\ Nodes \subseteq Addr
         /\ Ahead(k) \subseteq Nodes /\ t \in Ahead(k)
         /\ Ahead(k) \subseteq Ahead(k)' \cup {t}
         /\ Ahead(k)' \subseteq Ahead(k) \ {t}
<1>1. PICK S \in SUBSET Addr : Tidy(S)
  BY TidyNow
<1>2. /\ Nodes \in SUBSET Addr /\ NULL \notin Nodes /\ Nodes \subseteq S
      /\ Follows(Nodes) /\ t \in Nodes
  BY <1>1, NodesLinked DEF Tidy, OrderInv, OnList
<1>3. HeapTypeOK /\ HeapTypeOK'
  BY DEF ListInv
<1>4. Nodes' = Nodes
  BY DEF Nodes, At
<1> HIDE DEF Nodes
<1>5. /\ Ahead(k) \in SUBSET Addr /\ t \in Ahead(k) /\ Follows(Ahead(k))
  BY <1>3, AheadClosed
<1>6. /\ Ahead(k)' \in SUBSET Addr /\ temp'[k] \in Ahead(k)' \cup {NULL}
      /\ Follows(Ahead(k)') /\ temp'[k] = next[t]
  BY <1>3, AheadClosedNext DEF HeapTypeOK, Follows
<1>7. Ahead(k) \subseteq Nodes
  BY <1>2, AheadLeast
<1>8. Ahead(k) \subseteq Ahead(k)' \cup {t}
  <2> DEFINE D == Ahead(k)' \cup {t}
  <2>1. D \in SUBSET Addr /\ temp[k] \in D \cup {NULL}
    BY <1>2, <1>6
  <2>2. \A b \in D : next[b] \in D \cup {NULL}
    BY <1>6 DEF Follows
  <2> HIDE DEF D
  <2>3. Ahead(k) \subseteq D
    BY <2>1, <2>2, AheadLeast DEF Follows
  <2> QED BY <2>3 DEF D
<1>9. Ahead(k)' \subseteq Ahead(k)
  <2>1. temp'[k] \in Ahead(k) \cup {NULL}
    BY <1>5, <1>6 DEF Follows
  <2>2. \A b \in Ahead(k) : next'[b] \in Ahead(k) \cup {NULL}
    BY <1>5 DEF Follows
  <2> QED BY <1>5, <2>1, <2>2, AheadLeastNext DEF Follows
<1>10. t \notin Ahead(k)'
  <2> SUFFICES ASSUME t \in Ahead(k)' PROVE FALSE
    OBVIOUS
  <2> DEFINE A == Ahead(k)'
  <2>1. A \in SUBSET Addr /\ A \subseteq Nodes /\ \A b \in A : next[b] \in A \cup {NULL}
    BY <1>6, <1>7, <1>9 DEF Follows
  \* Every node of A follows a node of A.
  <2>2. ASSUME NEW b \in A
        PROVE  \E p \in A : next[p] = b
    <3> SUFFICES ASSUME \A p \in A : next[p] # b PROVE FALSE
      OBVIOUS
    <3> DEFINE D == A \ {b}
    <3>1. b # temp'[k]
      BY <1>6
    <3>2. D \in SUBSET Addr /\ temp'[k] \in D \cup {NULL}
      BY <1>6, <3>1
    <3>3. \A p \in D : next'[p] \in D \cup {NULL}
      BY <2>1
    <3> HIDE DEF D
    <3>4. A \subseteq D
      BY <3>2, <3>3, AheadLeastNext DEF Follows
    <3> QED BY <3>4 DEF D
  <2> HIDE DEF A
  <2> DEFINE D == S \ A
  <2>3. /\ head \in S \cup {NULL} /\ \A a \in S : next[a] \in S \cup {NULL}
        /\ \A x, y \in S : next[x] = next[y] /\ next[x] # NULL => x = y
        /\ head # NULL => \A a \in S : next[a] # head
    BY <1>1 DEF Tidy, Linked, Follows
  <2>4. NULL \notin A /\ A \subseteq S
    BY <1>2, <2>1
  <2>5. head \in D \cup {NULL}
    BY <2>2, <2>3, <2>4
  <2>6. \A a \in D : next[a] \in D \cup {NULL}
    BY <2>2, <2>3, <2>4
  <2>7. D \in SUBSET Addr
    OBVIOUS
  <2> HIDE DEF D
  <2>8. Nodes \subseteq D
    BY <2>5, <2>6, <2>7, NodesLeast
  <2> QED BY <1>2, <2>8 DEF A, D
<1> QED BY <1>2, <1>4, <1>5, <1>7, <1>8, <1>9, <1>10

\* What is broadcast is the last entry of the log.
LEMMA LogGrows ==
  ASSUME ListInv, TypeInv, NEW k \in Thread, LockToCast(k)
  PROVE  /\ Len(log) \in Nat /\ log' \in Seq(Entry) /\ Len(log') = Len(log) + 1
         /\ log' # << >> /\ log'[Len(log')] = recv_buff[k][1]
         /\ \A i \in 1..Len(log) : log'[i] = log[i]
<1>1. /\ recv_buff[k] \in Seq(Entry) /\ Len(recv_buff[k]) = 1
      /\ log \in Seq(Entry) /\ log' = log \o recv_buff[k]
  BY DEF LockToCast, TypeInv, TypeOK, Known
<1>2. PICK m : m = recv_buff[k]
  OBVIOUS
<1>3. m \in Seq(Entry) /\ Len(m) = 1 /\ log' = log \o m
  BY <1>1, <1>2
<1>4. /\ Len(log') = Len(log) + 1 /\ log' \in Seq(Entry) /\ Len(log) \in Nat
      /\ \A i \in 1..Len(log) : log'[i] = log[i]
      /\ log'[Len(log) + 1] = m[1]
  <2>1. /\ log \o m \in Seq(Entry) /\ Len(log \o m) = Len(log) + Len(m)
        /\ \A i \in 1..(Len(log) + Len(m)) :
             (log \o m)[i] = IF i <= Len(log) THEN log[i] ELSE m[i - Len(log)]
    BY <1>1, <1>3, ConcatProperties
  <2>2. Len(log) \in Nat
    BY <1>1
  <2>3. /\ \A i \in 1..Len(log) : i \in 1..(Len(log) + 1) /\ i <= Len(log)
        /\ Len(log) + 1 \in 1..(Len(log) + 1) /\ ~ (Len(log) + 1 <= Len(log))
        /\ (Len(log) + 1) - Len(log) = 1
    BY <2>2
  <2> QED BY <1>3, <2>1, <2>2, <2>3
<1>5. log' # << >>
  <2>1. Len(<< >>) = 0
    OBVIOUS
  <2> QED BY <1>4, <2>1
<1> QED BY <1>2, <1>4, <1>5

\* Who is written to, and who is not.
LEMMA CastWrites ==
  ASSUME TypeInv, OrderInv, ~late, Running, NEW k \in Thread, Cast(k), Running',
         NEW t, t = temp[k], NEW e, e = log[Len(log)]
  PROVE  /\ hpc[k] = "cast" /\ t # NULL /\ temp' = [temp EXCEPT ![k] = next[t]]
         /\ e \in Entry /\ log \in Seq(Entry) /\ Len(log) \in Nat \ {0}
         /\ UNCHANGED <<head, data, next, hpc, sockfd, recv_buff, log, due>>
         /\ UNCHANGED <<fdt, backlog, connect_FD, pc>>
         /\ \A c \in Conn : got'[c] = IF /\ data[t] # sockfd[k]
                                         /\ fdt[data[t]] = c /\ peer[c] # "rst"
                                        THEN Hear(got[c], e) ELSE got[c]
         /\ \A c \in Conn : \/ peer'[c] = peer[c]
                            \/ peer[c] = "fin" /\ peer'[c] = "rst"
<1>1. /\ hpc[k] = "cast" /\ t # NULL
      /\ UNCHANGED <<head, data, next, hpc, sockfd, recv_buff, log, due>>
      /\ UNCHANGED <<fdt, backlog, connect_FD>>
  BY DEF Cast, heapVars, history
<1>2. pc' # "killed"
  BY DEF Running
<1>3. PICK to : to = Reached(k, t)
  OBVIOUS
<1>4. /\ got' = Delivered(to, recv_buff[k][1]) /\ peer' \in Answers(to)
      /\ temp' = [temp EXCEPT ![k] = next[t]] /\ pc' = pc
  BY <1>2, <1>3 DEF Cast
<1>5. log # << >> /\ e = recv_buff[k][1]
  BY <1>1 DEF OrderInv, Casting
<1>6. e \in Entry
  <2>1. recv_buff[k] \in Seq(Entry) /\ Len(recv_buff[k]) = 1
    BY <1>1 DEF TypeInv, TypeOK, Known
  <2> QED BY <1>5, <2>1, ElementOfSeq
<1>7. log \in Seq(Entry) /\ Len(log) \in Nat \ {0}
  BY <1>5, EmptySeq DEF TypeInv, TypeOK
<1>8. SockTypeOK
  BY DEF TypeInv, TypeOK
<1>9. \A c \in Conn : c \in to <=> data[t] # sockfd[k] /\ fdt[data[t]] = c
  BY <1>3, SocketAssumption DEF Reached
<1>10. \A c \in Conn : got'[c] = IF c \in to /\ peer[c] # "rst"
                                   THEN Hear(got[c], e) ELSE got[c]
  BY <1>4, <1>5 DEF Delivered
<1>11. \A c \in Conn : \/ peer'[c] = peer[c]
                       \/ peer[c] = "fin" /\ peer'[c] = "rst"
  BY <1>4, <1>8, AnswersType
<1>12. \A c \in Conn : got'[c] = IF /\ data[t] # sockfd[k]
                                    /\ fdt[data[t]] = c /\ peer[c] # "rst"
                                   THEN Hear(got[c], e) ELSE got[c]
  BY <1>9, <1>10
<1> QED BY <1>1, <1>4, <1>6, <1>7, <1>11, <1>12

\* The other steps leave alone what is heard, and who is at which node.
LEMMA QuietStep ==
  ASSUME TypeInv, [Next]_vars, \A k \in Thread : ~ LockToCast(k) /\ ~ Cast(k)
  PROVE  /\ UNCHANGED <<got, log, due>>
         /\ \A k \in Thread : hpc'[k] = "cast" =>
              /\ hpc[k] = "cast" /\ temp'[k] = temp[k]
              /\ sockfd'[k] = sockfd[k] /\ recv_buff'[k] = recv_buff[k]
<1>1. /\ DOMAIN hpc = Thread /\ DOMAIN temp = Thread
      /\ DOMAIN sockfd = Thread /\ DOMAIN recv_buff = Thread
  BY DEF TypeInv, TypeOK, HeapTypeOK
<1>2. ASSUME NEW j \in Thread, HandlerStep(j)
      PROVE  /\ UNCHANGED <<got, log, due>>
             /\ hpc'[j] # "cast"
             /\ \A k \in Thread : k # j =>
                  /\ hpc'[k] = hpc[k] /\ temp'[k] = temp[k]
                  /\ sockfd'[k] = sockfd[k] /\ recv_buff'[k] = recv_buff[k]
  <2>1. CASE Start(j) \/ Stop(j) \/ Read(j) \/ LockToDelete(j) \/ CloseFd(j)
    BY <1>1, <2>1 DEF Start, Stop, Read, LockToDelete, CloseFd, Move, sockVars,
       history
  <2>2. CASE Unlink(j)
    BY <1>1, <2>2 DEF Unlink, Move, sockVars, history
  <2>3. CASE CastDone(j)
    <3>1. Move(j, "leave") \/ Move(j, "loop")
      BY <2>3 DEF CastDone
    <3>2. \A k \in Thread : k # j => recv_buff'[k] = recv_buff[k]
      <4>1. UNCHANGED recv_buff \/ recv_buff' = [recv_buff EXCEPT ![j] = << >>]
        BY <2>3, Zenon DEF CastDone
      <4> QED BY <1>1, <4>1
    <3>3. UNCHANGED <<got, log, due, temp, sockfd>>
      BY <2>3 DEF CastDone, sockVars, history
    <3>4. hpc'[j] # "cast" /\ \A k \in Thread : k # j => hpc'[k] = hpc[k]
      BY <1>1, <3>1 DEF Move
    <3> QED BY <3>2, <3>3, <3>4
  <2>4. CASE Find(j)
    <3>1. /\ Move(j, "close") \/ Move(j, "unlink")
          /\ UNCHANGED <<sockfd, recv_buff, got, log, due>>
      BY <2>4, Zenon DEF Find, sockVars, history
    <3>2. temp' = temp \/ \E a : temp' = [temp EXCEPT ![j] = a]
      BY <2>4, Zenon DEF Find
    <3> QED BY <1>1, <3>1, <3>2 DEF Move
  <2> QED BY <1>2, <2>1, <2>2, <2>3, <2>4 DEF HandlerStep
<1>3. ASSUME MainStep
      PROVE  /\ UNCHANGED <<got, log, due, temp, sockfd, recv_buff>>
             /\ \A k \in Thread : hpc'[k] = "cast" => hpc[k] = "cast"
  <2>1. CASE Accept
    BY <2>1, Zenon DEF Accept, thrVars
  <2>2. CASE Create
    BY <1>1, <2>2 DEF Create, history, sockVars
  <2>3. CASE Append1
    BY <2>3, Zenon DEF Append1, sockVars, thrVars
  <2>4. CASE ~ (Accept \/ Create \/ Append1)
    BY <1>3, <2>4 DEF MainStep, TestFlag, Select, AcceptFails, Refuse, Load,
       Walk, Link, CloseOne, FreeOne, Return, thrVars, history, sockVars
  <2> QED BY <2>1, <2>2, <2>3, <2>4
<1>4. ASSUME Crash \/ SigInt \/ ClientsAct \/ UNCHANGED vars
      PROVE  UNCHANGED <<got, log, due, hpc, temp, sockfd, recv_buff>>
  <2>1. CASE ClientsAct
    BY <2>1 DEF ClientsAct, ClientStep, Connect, Hangup, Send, thrVars, history
  <2>2. CASE Crash \/ SigInt \/ UNCHANGED vars
    BY <2>2 DEF Crash, SigInt, vars, thrVars, history, sockVars
  <2> QED BY <1>4, <2>1, <2>2
<1> QED BY <1>2, <1>3, <1>4 DEF Next

\* A descriptor is opened by accept(2) only.
LEMMA DescriptorOpens ==
  ASSUME TypeInv, [Next]_vars, NEW fd \in Fd
  PROVE  \/ fdt'[fd] \in {fdt[fd], Free}
         \/ /\ Accept /\ backlog # << >> /\ fdt'[fd] = backlog[1]
            /\ fd = connect_FD'
<1>1. SockTypeOK
  BY DEF TypeInv, TypeOK
<1>2. CASE Accept
  <2>1. backlog # << >> /\ fdt' = Opened(LowestFreeFd, Head(backlog))
        /\ connect_FD' = LowestFreeFd
    BY <1>2 DEF Accept, TypeInv, Known
  <2> QED BY <1>1, <1>2, <2>1, BacklogHead DEF Opened, SockTypeOK
<1>3. ASSUME NEW x, Close(x)
      PROVE  fdt'[fd] \in {fdt[fd], Free}
  BY <1>1, <1>3, CloseCloses
<1>4. ASSUME NEW j \in Thread, HandlerStep(j)
      PROVE  fdt'[fd] \in {fdt[fd], Free}
  <2>1. CASE CloseFd(j)
    BY <1>3, <2>1 DEF CloseFd
  <2>2. CASE ~ CloseFd(j)
    BY <1>4, <2>2 DEF HandlerStep, Start, Stop, Read, LockToCast, Cast, CastDone,
       LockToDelete, Find, Unlink, sockVars
  <2> QED BY <2>1, <2>2
<1>5. ASSUME MainStep, ~ Accept
      PROVE  fdt'[fd] \in {fdt[fd], Free}
  <2>1. CASE Refuse
    BY <1>3, <2>1 DEF Refuse
  <2>2. CASE CloseOne
    <3>1. UNCHANGED fdt \/ Close(data[current])
      BY <2>2 DEF CloseOne
    <3> QED BY <1>3, <3>1
  <2>3. CASE ~ (Refuse \/ CloseOne)
    BY <1>5, <2>3 DEF MainStep, TestFlag, Select, AcceptFails, Append1, Load,
       Walk, Link, Create, FreeOne, Return, sockVars
  <2> QED BY <2>1, <2>2, <2>3
<1>6. ASSUME Crash \/ SigInt \/ ClientsAct \/ UNCHANGED vars
      PROVE  UNCHANGED fdt
  BY <1>6, ClientsKeep, <1>1 DEF Crash, SigInt, ClientsAct, vars, sockVars
<1> QED BY <1>2, <1>4, <1>5, <1>6 DEF Next

----------------------------------------------------------------------------
(* OrderInv is kept, part by part. *)

\* Whoever is written to hears the last entry of the log, after others of it.
LEMMA OrderedKeeps ==
  ASSUME ListInv, TypeInv, OrderInv, [Next]_vars, ~late, Running, Running'
  PROVE  Ordered'
<1> SUFFICES ASSUME NEW c \in Conn PROVE Embedded(got[c], log, Len(log))'
  BY DEF Ordered
<1>1. Embedded(got[c], log, Len(log))
  BY DEF OrderInv, Ordered
<1>2. got[c] \in Seq(Entry) /\ log \in Seq(Entry)
  BY DEF TypeInv, TypeOK, SockTypeOK
<1>3. ASSUME NEW k \in Thread, LockToCast(k)
      PROVE  Embedded(got[c], log, Len(log))'
  <2>1. got' = got
    BY <1>3 DEF LockToCast, sockVars
  <2>2. /\ Len(log) \in Nat /\ Len(log') = Len(log) + 1
        /\ \A i \in 1..Len(log) : log'[i] = log[i]
    BY <1>3, LogGrows
  <2>3. Embedded(got[c], log', Len(log'))
    BY <1>1, <1>2, <2>2, EmbeddedInMore
  <2> QED BY <2>1, <2>3 DEF Embedded
<1>4. ASSUME NEW k \in Thread, Cast(k)
      PROVE  Embedded(got[c], log, Len(log))'
  <2>1. PICK t, e : t = temp[k] /\ e = log[Len(log)]
    OBVIOUS
  <2>2. /\ hpc[k] = "cast" /\ t # NULL /\ e \in Entry /\ log' = log
        /\ Len(log) \in Nat \ {0}
        /\ got'[c] = IF data[t] # sockfd[k] /\ fdt[data[t]] = c /\ peer[c] # "rst"
                       THEN Hear(got[c], e) ELSE got[c]
    BY <1>4, <2>1, CastWrites
  <2>3. CASE got'[c] = got[c]
    BY <1>1, <2>2, <2>3 DEF Embedded
  <2>4. CASE got'[c] # got[c]
    <3>1. data[t] # sockfd[k] /\ fdt[data[t]] = c /\ got'[c] = Hear(got[c], e)
      BY <2>2, <2>4
    <3>2. t \in Ahead(k)
      BY <2>1, <2>2, AheadClosed DEF ListInv
    <3>3. Embedded(got[c], log, Len(log) - 1)
      BY <2>2, <3>1, <3>2, SocketAssumption DEF OrderInv, Casting
    <3>4. Embedded(Hear(got[c], e), log, Len(log))
      BY <1>2, <2>1, <2>2, <3>3, EmbeddedHear
    <3>5. Embedded(got'[c], log, Len(log))
      BY <3>1, <3>4, Zenon
    <3> QED BY <2>2, <3>5 DEF Embedded
  <2> QED BY <2>3, <2>4
<1>5. CASE \A k \in Thread : ~ LockToCast(k) /\ ~ Cast(k)
  BY <1>1, <1>5, QuietStep DEF Embedded
<1> QED BY <1>3, <1>4, <1>5

\* The walk goes from node to node of the list.
LEMMA OnListKeeps ==
  ASSUME ListInv, ListInv', Inv, OrderInv, [Next]_vars, ~late, Running, Running'
  PROVE  OnList'
<1> SUFFICES ASSUME NEW j \in Thread, hpc'[j] = "cast"
             PROVE  temp'[j] \in Nodes' \cup {NULL}
  BY DEF OnList
<1>1. TypeInv
  BY DEF Inv, TypeInv
<1>2. DOMAIN hpc = Thread /\ DOMAIN temp = Thread
  BY DEF ListInv, HeapTypeOK
<1>3. PICK S \in SUBSET Addr : Tidy(S)
  BY TidyNow
<1>4. head \in Nodes \cup {NULL} /\ Follows(Nodes)
  BY <1>3, NodesLinked DEF Tidy
<1>5. ASSUME NEW k \in Thread, LockToCast(k)
      PROVE  temp'[j] \in Nodes' \cup {NULL}
  <2>1. /\ UNCHANGED <<head, data, next>> /\ hpc[k] = "lock" /\ list_mutex' = k
        /\ temp' = [temp EXCEPT ![k] = head]
    BY <1>5 DEF LockToCast, heapVars, CastFrom
  <2>2. j = k
    BY <2>1 DEF ListInv, Exclusive
  <2>3. Nodes' = Nodes
    BY <2>1 DEF Nodes, At
  <2> HIDE DEF Nodes
  <2> QED BY <1>2, <1>4, <2>1, <2>2, <2>3
<1>6. ASSUME NEW k \in Thread, Cast(k)
      PROVE  temp'[j] \in Nodes' \cup {NULL}
  <2>1. PICK t, e : t = temp[k] /\ e = log[Len(log)]
    OBVIOUS
  <2>2. /\ hpc[k] = "cast" /\ t # NULL /\ temp' = [temp EXCEPT ![k] = next[t]]
        /\ UNCHANGED <<head, data, next, hpc>>
    BY <1>1, <1>6, <2>1, CastWrites
  <2>3. j = k
    BY <1>6, <2>2, ListWhileCast
  <2>4. Nodes' = Nodes /\ t \in Nodes
    BY <2>1, <2>2, AheadMoves
  <2> HIDE DEF Nodes
  <2> QED BY <1>2, <1>4, <2>2, <2>3, <2>4 DEF Follows
<1>7. CASE \A k \in Thread : ~ LockToCast(k) /\ ~ Cast(k)
  <2>1. hpc[j] = "cast" /\ temp'[j] = temp[j]
    BY <1>1, <1>7, QuietStep
  <2>2. Nodes \subseteq Nodes'
    BY <2>1, AheadKeeps
  <2> HIDE DEF Nodes
  <2> QED BY <2>1, <2>2 DEF OrderInv, OnList
<1> QED BY <1>5, <1>6, <1>7

\* Whom the walk is still to reach is behind a descriptor of the list, and has
\* heard of the log at most what was there before the last entry.
LEMMA CastingKeeps ==
  ASSUME ListInv, ListInv', Inv, OrderInv, [Next]_vars, ~late, Running, Running'
  PROVE  Casting'
<1> SUFFICES ASSUME NEW j \in Thread, hpc'[j] = "cast"
             PROVE  /\ log' # << >> /\ log'[Len(log')] = recv_buff'[j][1]
                    /\ \A a \in Ahead(j)' :
                         data'[a] # sockfd'[j] /\ fdt'[data'[a]] # Free =>
                           Embedded(got'[fdt'[data'[a]]], log', Len(log') - 1)
  BY DEF Casting, Embedded
<1>1. TypeInv /\ SockTypeOK /\ Matched /\ HeapTypeOK
  BY DEF Inv, TypeInv, TypeOK
<1>2. \A a \in Nodes : data[a] \in Fd
  BY <1>1, NodesGiven DEF TypeInv, Given
<1> HIDE DEF Nodes
<1>3. ASSUME NEW k \in Thread, LockToCast(k)
      PROVE  /\ log' # << >> /\ log'[Len(log')] = recv_buff'[j][1]
             /\ \A c \in Conn : Embedded(got'[c], log', Len(log') - 1)
  <2>1. /\ UNCHANGED <<got, recv_buff>> /\ list_mutex' = k
    BY <1>3 DEF LockToCast, sockVars
  <2>2. j = k
    BY <2>1 DEF ListInv, Exclusive
  <2>3. /\ Len(log) \in Nat /\ Len(log') = Len(log) + 1
        /\ log' # << >> /\ log'[Len(log')] = recv_buff[k][1]
        /\ \A i \in 1..Len(log) : log'[i] = log[i]
    BY <1>1, <1>3, LogGrows
  <2>4. ASSUME NEW c \in Conn
        PROVE  Embedded(got[c], log', Len(log') - 1)
    <3>1. Embedded(got[c], log, Len(log)) /\ got[c] \in Seq(Entry)
      BY <1>1 DEF OrderInv, Ordered, SockTypeOK
    <3>2. Len(log') - 1 = Len(log)
      BY <2>3
    <3> QED BY <2>3, <3>1, <3>2, EmbeddedInMore
  <2> QED BY <2>1, <2>2, <2>3, <2>4
<1>4. ASSUME NEW k \in Thread, Cast(k), NEW a \in Ahead(j)',
             data'[a] # sockfd'[j], fdt'[data'[a]] # Free
      PROVE  Embedded(got'[fdt'[data'[a]]], log', Len(log') - 1)
  <2>1. PICK t, e : t = temp[k] /\ e = log[Len(log)]
    OBVIOUS
  <2>2. /\ hpc[k] = "cast" /\ t # NULL /\ temp' = [temp EXCEPT ![k] = next[t]]
        /\ UNCHANGED <<head, data, next, hpc, sockfd, log, fdt>>
        /\ \A c \in Conn : got'[c] = IF /\ data[t] # sockfd[k]
                                        /\ fdt[data[t]] = c /\ peer[c] # "rst"
                                       THEN Hear(got[c], e) ELSE got[c]
    BY <1>1, <1>4, <2>1, CastWrites
  <2>3. j = k
    BY <1>4, <2>2, ListWhileCast
  <2>4. /\ t \in Nodes /\ Ahead(k) \subseteq Nodes
        /\ a \in Ahead(k) \ {t}
    BY <1>4, <2>1, <2>2, <2>3, AheadMoves
  <2>5. data[a] # data[t]
    <3>1. PICK S \in SUBSET Addr : Tidy(S)
      BY TidyNow
    <3> QED BY <2>4, <3>1 DEF Tidy
  <2>6. data[a] \in Fd /\ data[t] \in Fd /\ fdt[data[a]] \in Conn
    BY <1>1, <1>2, <1>4, <2>2, <2>4 DEF SockTypeOK
  <2>7. fdt[data[a]] # fdt[data[t]]
    BY <1>1, <1>4, <2>2, <2>5, <2>6 DEF Matched
  <2>8. got'[fdt[data[a]]] = got[fdt[data[a]]]
    BY <2>2, <2>6, <2>7
  <2>9. Embedded(got[fdt[data[a]]], log, Len(log) - 1)
    BY <1>4, <2>2, <2>3, <2>4 DEF OrderInv, Casting
  <2> QED BY <2>2, <2>8, <2>9
<1>5. ASSUME NEW k \in Thread, Cast(k)
      PROVE  log' # << >> /\ log'[Len(log')] = recv_buff'[j][1]
  <2>1. PICK t, e : t = temp[k] /\ e = log[Len(log)]
    OBVIOUS
  <2>2. UNCHANGED <<hpc, recv_buff, log>>
    BY <1>1, <1>5, <2>1, CastWrites
  <2> QED BY <2>2 DEF OrderInv, Casting
<1>6. ASSUME \A k \in Thread : ~ LockToCast(k) /\ ~ Cast(k)
      PROVE  /\ log' # << >> /\ log'[Len(log')] = recv_buff'[j][1]
             /\ \A a \in Ahead(j)' :
                  data'[a] # sockfd'[j] /\ fdt'[data'[a]] # Free =>
                    Embedded(got'[fdt'[data'[a]]], log', Len(log') - 1)
  <2>1. /\ UNCHANGED <<got, log>> /\ hpc[j] = "cast" /\ temp'[j] = temp[j]
        /\ sockfd'[j] = sockfd[j] /\ recv_buff'[j] = recv_buff[j]
    BY <1>1, <1>6, QuietStep
  <2>2. log # << >> /\ log[Len(log)] = recv_buff[j][1]
    BY <2>1 DEF OrderInv, Casting
  <2>3. Len(log) - 1 \in Nat
    BY <1>1, <2>2, EmptySeq DEF TypeInv, TypeOK
  <2>4. ASSUME NEW a \in Ahead(j)', data'[a] # sockfd'[j], fdt'[data'[a]] # Free
        PROVE  Embedded(got[fdt'[data'[a]]], log, Len(log) - 1)
    <3>1. /\ Nodes \subseteq Addr /\ Ahead(j) \subseteq Nodes
          /\ \A b \in Nodes : data'[b] = data[b]
          /\ a \in Ahead(j) \/ (Link /\ a = newnode)
      BY <2>1, <2>4, AheadKeeps
    <3>2. CASE a \in Ahead(j)
      <4>1. data'[a] = data[a] /\ data[a] \in Fd
        BY <1>2, <3>1, <3>2
      <4>2. CASE fdt'[data[a]] = fdt[data[a]]
        BY <2>1, <2>4, <3>2, <4>1, <4>2 DEF OrderInv, Casting
      <4>3. CASE fdt'[data[a]] # fdt[data[a]]
        <5>1. backlog # << >> /\ fdt'[data[a]] = backlog[1]
          BY <1>1, <2>4, <4>1, <4>3, DescriptorOpens
        <5>2. got[backlog[1]] = << >>
          BY <1>1, <5>1, BacklogHead DEF OrderInv, Silent
        <5> QED BY <2>3, <4>1, <5>1, <5>2, EmbeddedNothing
      <4> QED BY <4>2, <4>3
    <3>3. CASE Link /\ a = newnode
      <4>1. Punctual /\ Placed /\ pc = "link" /\ UNCHANGED <<data, fdt>>
        BY <3>3, AppendIsPunctual DEF Inv, Punctual, Safe, Link, sockVars
      <4>2. data[newnode] = connect_FD /\ got[fdt[connect_FD]] = << >>
        BY <4>1 DEF Placed, OrderInv, Newcomer, Appending, Punctual
      <4> QED BY <2>3, <3>3, <4>1, <4>2, EmbeddedNothing
    <3> QED BY <3>1, <3>2, <3>3
  <2> QED BY <2>1, <2>2, <2>4
<1>7. CASE \E k \in Thread : LockToCast(k)
  <2>1. TypeInv'
    BY <1>1, TypeKept
  <2>2. HeapTypeOK' /\ OnList'
    BY OnListKeeps DEF ListInv
  <2>3. ASSUME NEW a \in Ahead(j)', fdt'[data'[a]] # Free
        PROVE  fdt'[data'[a]] \in Conn
    <3>1. Given' = Given /\ UNCHANGED <<next, data, fdt>>
      BY <1>7 DEF LockToCast, heapVars, sockVars, Given
    <3>2. /\ temp'[j] \in Given \cup {NULL} /\ Given \in SUBSET Addr
          /\ \A b \in Given : next[b] \in Given \cup {NULL}
      BY <2>1, <3>1 DEF TypeInv, Known, Given
    <3> HIDE DEF Given
    <3>3. a \in Given
      BY <2>3, <3>1, <3>2, AheadLeastNext DEF Follows
    <3> QED BY <1>1, <2>3, <3>1, <3>3 DEF Given, SockTypeOK
  <2> QED BY <1>3, <1>7, <2>3
<1> QED BY <1>4, <1>5, <1>6, <1>7

\* Only who is connected and accepted is written to.
LEMMA SilentKeeps ==
  ASSUME ListInv, ListInv', Inv, OrderInv, [Next]_vars, ~late, Running, Running'
  PROVE  Silent'
<1>1. TypeInv /\ SockTypeOK /\ Matched /\ Silent
  BY DEF Inv, TypeInv, TypeOK, OrderInv
<1>2. \A m \in 1..Len(backlog) : backlog[m] \in Conn
  BY <1>1, ElementOfSeq DEF SockTypeOK
<1>3. ASSUME UNCHANGED <<got, backlog>>,
             \A c \in Conn : peer[c] # "new" => peer'[c] # "new"
      PROVE  Silent'
  BY <1>1, <1>3 DEF Silent
<1>4. ASSUME NEW fd, Close(fd), UNCHANGED <<got, backlog>>
      PROVE  Silent'
  <2>1. \A c \in Conn : peer[c] # "new" => peer'[c] # "new"
    BY <1>1, <1>4, CloseCloses
  <2> QED BY <1>3, <1>4, <2>1
<1>5. ASSUME NEW k \in Thread, Cast(k)
      PROVE  Silent'
  <2>1. PICK t, e : t = temp[k] /\ e = log[Len(log)]
    OBVIOUS
  <2>2. /\ hpc[k] = "cast" /\ t # NULL /\ UNCHANGED backlog
        /\ UNCHANGED <<head, data, next>> /\ temp' = [temp EXCEPT ![k] = next[t]]
        /\ \A c \in Conn : fdt[data[t]] # c => got'[c] = got[c]
        /\ \A c \in Conn : peer[c] # "new" => peer'[c] # "new"
    BY <1>1, <1>5, <2>1, CastWrites
  <2>3. t \in Nodes
    BY <2>1, <2>2, AheadMoves
  <2>4. data[t] \in Fd
    BY <1>1, <2>3, NodesGiven DEF TypeInv, Given
  <2>5. ASSUME NEW c \in Conn, peer'[c] = "new"
        PROVE  got'[c] = << >>
    <3>1. peer[c] = "new" /\ got[c] = << >>
      BY <1>1, <2>2, <2>5 DEF Silent
    <3>2. fdt[data[t]] # c
      BY <1>1, <2>4, <3>1, SocketAssumption DEF Matched
    <3> QED BY <2>2, <3>1, <3>2
  <2>6. ASSUME NEW m \in 1..Len(backlog)
        PROVE  got'[backlog[m]] = << >>
    <3>1. fdt[data[t]] # backlog[m] /\ backlog[m] \in Conn
      BY <1>1, <1>2, <2>4 DEF Matched
    <3> QED BY <1>1, <2>2, <3>1 DEF Silent
  <2> QED BY <2>2, <2>5, <2>6 DEF Silent
<1>6. ASSUME NEW k \in Thread, HandlerStep(k), ~ Cast(k)
      PROVE  Silent'
  <2>1. CASE CloseFd(k)
    BY <1>4, <2>1 DEF CloseFd
  <2>2. CASE ~ CloseFd(k)
    <3>1. UNCHANGED <<got, backlog, peer>>
      BY <1>6, <2>2 DEF HandlerStep, Start, Stop, Read, LockToCast, CastDone,
         LockToDelete, Find, Unlink, sockVars
    <3> QED BY <1>3, <3>1
  <2> QED BY <2>1, <2>2
<1>7. CASE Accept
  <2>1. backlog # << >> /\ backlog' = Tail(backlog) /\ UNCHANGED <<got, peer>>
    BY <1>1, <1>7 DEF Accept, TypeInv, Known
  <2>2. \A m \in 1..Len(backlog') :
          m + 1 \in 1..Len(backlog) /\ backlog'[m] = backlog[m + 1]
    BY <1>1, <2>1, BacklogHead
  <2> QED BY <1>1, <2>1, <2>2 DEF Silent
<1>8. ASSUME MainStep, ~ Accept
      PROVE  Silent'
  <2>1. CASE Refuse
    BY <1>4, <2>1 DEF Refuse
  <2>2. CASE CloseOne
    <3>1. \/ UNCHANGED <<got, backlog, peer>>
          \/ Close(data[current]) /\ UNCHANGED <<got, backlog>>
      BY <2>2 DEF CloseOne
    <3> QED BY <1>3, <1>4, <3>1
  <2>3. CASE ~ (Refuse \/ CloseOne)
    <3>1. UNCHANGED <<got, backlog, peer>>
      BY <1>8, <2>3 DEF MainStep, TestFlag, Select, AcceptFails, Append1, Load,
         Walk, Link, Create, FreeOne, Return, sockVars
    <3> QED BY <1>3, <3>1
  <2> QED BY <2>1, <2>2, <2>3
<1>9. CASE ClientsAct
  <2>1. PICK c \in Conn : Connect(c) \/ Hangup(c) \/ \E m \in Message : Send(c, m)
    BY <1>9 DEF ClientsAct, ClientStep
  <2>2. CASE Connect(c)
    <3>1. /\ peer[c] = "new" /\ backlog' = Append(backlog, c) /\ got' = got
          /\ \A d \in Conn : peer'[d] = "new" => peer[d] = "new"
      BY <1>1, <2>2 DEF Connect, SockTypeOK
    <3>2. \A m \in 1..Len(backlog') :
            \/ m \in 1..Len(backlog) /\ backlog'[m] = backlog[m]
            \/ backlog'[m] = c
      <4>1. backlog \in Seq(Conn)
        BY <1>1 DEF SockTypeOK
      <4>2. /\ Len(Append(backlog, c)) = Len(backlog) + 1 /\ Len(backlog) \in Nat
            /\ Append(backlog, c)[Len(backlog) + 1] = c
            /\ \A m \in 1..Len(backlog) : Append(backlog, c)[m] = backlog[m]
        BY <4>1
      <4> QED BY <3>1, <4>2
    <3> QED BY <1>1, <3>1, <3>2 DEF Silent
  <2>3. CASE ~ Connect(c)
    <3>1. UNCHANGED <<got, backlog>>
          /\ \A d \in Conn : peer[d] # "new" => peer'[d] # "new"
      BY <1>1, <2>1, <2>3 DEF Hangup, Send, SockTypeOK
    <3> QED BY <1>3, <3>1
  <2> QED BY <2>2, <2>3
<1>10. CASE Crash \/ SigInt \/ UNCHANGED vars
  <2>1. UNCHANGED <<got, backlog, peer>>
    BY <1>10 DEF Crash, SigInt, vars, sockVars
  <2> QED BY <1>3, <2>1
<1> QED BY <1>5, <1>6, <1>7, <1>8, <1>9, <1>10 DEF Next

\* A descriptor that nobody is about to close stays open, and a connection that
\* was reset stays reset.
LEMMA StaysOpen ==
  ASSUME TypeInv, Matched, [Next]_vars, Punctual, Punctual',
         NEW fd \in Fd, fdt[fd] # Free, ~ (pc = "refuse" /\ connect_FD = fd),
         \A k \in Thread : hpc[k] = "close" => sockfd[k] # fd
  PROVE  /\ fdt'[fd] = fdt[fd]
         /\ peer[fdt[fd]] = "rst" => peer'[fdt[fd]] = "rst"
<1>1. SockTypeOK /\ fdt[fd] \in Conn
  BY DEF TypeInv, TypeOK, SockTypeOK
<1>2. ASSUME NEW x, Close(x), x # fd
      PROVE  /\ fdt'[fd] = fdt[fd]
             /\ peer[fdt[fd]] = "rst" => peer'[fdt[fd]] = "rst"
  <2>1. fdt'[fd] = fdt[fd]
    BY <1>1, <1>2, CloseCloses
  <2>2. \/ peer'[fdt[fd]] = peer[fdt[fd]]
        \/ x \in Fd /\ fdt[x] = fdt[fd]
    BY <1>1, <1>2, CloseCloses
  <2> QED BY <1>2, <2>1, <2>2 DEF Matched
<1>3. ASSUME NEW k \in Thread, HandlerStep(k)
      PROVE  /\ fdt'[fd] = fdt[fd]
             /\ peer[fdt[fd]] = "rst" => peer'[fdt[fd]] = "rst"
  <2>1. CASE CloseFd(k)
    BY <1>2, <2>1 DEF CloseFd
  <2>2. CASE Cast(k)
    <3>1. UNCHANGED fdt /\ (peer' = peer \/ \E to : peer' \in Answers(to))
      BY <2>2 DEF Cast
    <3>2. \/ peer' = peer
          \/ \A c \in Conn : \/ peer'[c] = peer[c]
                             \/ peer[c] = "fin" /\ peer'[c] = "rst"
      BY <1>1, <3>1, AnswersType
    <3> QED BY <1>1, <3>1, <3>2
  <2>3. CASE ~ (CloseFd(k) \/ Cast(k))
    <3>1. UNCHANGED <<fdt, peer>>
      BY <1>3, <2>3 DEF HandlerStep, Start, Stop, Read, LockToCast, CastDone,
         LockToDelete, Find, Unlink, sockVars
    <3> QED BY <3>1
  <2> QED BY <2>1, <2>2, <2>3
<1>4. ASSUME MainStep
      PROVE  /\ fdt'[fd] = fdt[fd]
             /\ peer[fdt[fd]] = "rst" => peer'[fdt[fd]] = "rst"
  <2>1. CASE Refuse
    BY <1>2, <2>1 DEF Refuse
  <2>2. CASE Accept
    <3>1. fdt' = Opened(LowestFreeFd, Head(backlog)) /\ FreeFds # {} /\ peer' = peer
      BY <2>2 DEF Accept
    <3>2. LowestFreeFd # fd
      BY <1>1, <3>1, LowestFreeFdIsFree DEF FreeFds
    <3> QED BY <1>1, <3>1, <3>2 DEF Opened, SockTypeOK
  <2>3. CASE ~ (Refuse \/ Accept)
    <3>1. UNCHANGED <<fdt, peer>>
      BY <1>4, <2>3 DEF MainStep, TestFlag, Select, AcceptFails, Append1, Load,
         Walk, Link, Create, CloseOne, FreeOne, Return, sockVars, Punctual, Safe,
         Closing
    <3> QED BY <3>1
  <2> QED BY <2>1, <2>2, <2>3
<1>5. ASSUME Crash \/ SigInt \/ ClientsAct \/ UNCHANGED vars
      PROVE  /\ fdt'[fd] = fdt[fd]
             /\ peer[fdt[fd]] = "rst" => peer'[fdt[fd]] = "rst"
  <2>1. CASE ClientsAct
    <3>1. PICK c \in Conn : Connect(c) \/ Hangup(c) \/ \E m \in Message : Send(c, m)
      BY <2>1 DEF ClientsAct, ClientStep
    <3> QED BY <1>1, <3>1 DEF Connect, Hangup, Send, SockTypeOK
  <2>2. CASE Crash \/ SigInt \/ UNCHANGED vars
    <3>1. UNCHANGED <<fdt, peer>>
      BY <2>2 DEF Crash, SigInt, vars, sockVars
    <3> QED BY <3>1
  <2> QED BY <1>5, <2>1, <2>2
<1> QED BY <1>3, <1>4, <1>5 DEF Next

\* What is on the list is not about to be closed, nor what main has in its hand.
LEMMA ListedStaysOpen ==
  ASSUME Inv, [Next]_vars, Punctual, Punctual',
         NEW fd \in Fd, fdt[fd] # Free,
         \/ fd \in Listed
         \/ Appending /\ fd = connect_FD
  PROVE  /\ fdt'[fd] = fdt[fd]
         /\ peer[fdt[fd]] = "rst" => peer'[fdt[fd]] = "rst"
<1>1. TypeInv /\ Matched /\ OwnClient /\ Handover
  BY DEF Inv, TypeInv, Punctual, Safe
<1>2. /\ \A j, k \in Owners : sockfd[j] = sockfd[k] => j = k
      /\ \A k \in Owners, j \in Thread :
           hpc[j] = "start" => connect_FD # sockfd[k]
  BY <1>1 DEF OwnClient, Punctual, Safe
<1>3. /\ InHand \/ (\E k \in Thread : hpc[k] = "start") =>
           \A k \in Owners : sockfd[k] # connect_FD
      /\ InHand => \A k \in Thread : hpc[k] # "start"
  BY <1>1 DEF Handover
<1>4. \/ \E k \in Thread : Holds(k) /\ fd = sockfd[k]
      \/ Starting /\ fd = connect_FD
      \/ Appending /\ fd = connect_FD
  BY ListedIs
<1>5. ~ (pc = "refuse" /\ connect_FD = fd)
  BY <1>3, <1>4 DEF Holds, Owners, Starting, InHand, Appending
<1>6. \A k \in Thread : hpc[k] = "close" => sockfd[k] # fd
  BY <1>2, <1>3, <1>4 DEF Holds, Owners, Starting, InHand
<1> QED BY <1>1, <1>5, <1>6, StaysOpen

\* Nobody writes to the connection that main is about to put on the list.
LEMMA NewcomerKeeps ==
  ASSUME ListInv, ListInv', Inv, OrderInv, [Next]_vars, Punctual, Punctual'
  PROVE  Newcomer'
<1> SUFFICES ASSUME Appending' PROVE got'[fdt'[connect_FD']] = << >>
  BY DEF Newcomer
<1>1. /\ TypeInv /\ SockTypeOK /\ Matched /\ Handover /\ Placed
      /\ ~late /\ Running /\ ~Closing /\ Running'
  BY DEF Inv, TypeInv, TypeOK, Punctual, Safe
<1>2. CASE Accept
  <2>1. /\ backlog # << >> /\ UNCHANGED got /\ FreeFds # {}
        /\ connect_FD' = LowestFreeFd
        /\ fdt' = Opened(LowestFreeFd, Head(backlog))
    BY <1>1, <1>2 DEF Accept, TypeInv, Known
  <2>2. fdt'[connect_FD'] = backlog[1]
    BY <1>1, <2>1, BacklogHead, LowestFreeFdIsFree DEF Opened, FreeFds, SockTypeOK
  <2> QED BY <1>1, <2>1, <2>2, BacklogHead DEF OrderInv, Silent
<1>3. ASSUME ~ Accept
      PROVE  Appending /\ connect_FD' = connect_FD
  <2>1. ASSUME NEW k \in Thread, HandlerStep(k)
        PROVE  UNCHANGED connect_FD /\ pc' \in {pc, "killed"}
    BY <2>1 DEF HandlerStep, Start, Stop, Read, LockToCast, Cast, CastDone,
       LockToDelete, Find, Unlink, CloseFd, mainVars
  <2>2. ASSUME MainStep
        PROVE  Appending /\ connect_FD' = connect_FD
    BY <1>3, <2>2 DEF MainStep, TestFlag, Select, AcceptFails, Refuse, Append1,
       Load, Walk, Link, Create, CloseOne, FreeOne, Return, Appending
  <2>3. ASSUME Crash \/ SigInt \/ ClientsAct \/ UNCHANGED vars
        PROVE  Appending /\ connect_FD' = connect_FD
    BY <2>3 DEF Crash, SigInt, ClientsAct, vars, mainVars, Appending
  <2> QED BY <2>1, <2>2, <2>3 DEF Next, Appending
<1>4. CASE ~ Accept
  <2>1. Appending /\ connect_FD' = connect_FD
    BY <1>3, <1>4
  <2>2. /\ got[fdt[connect_FD]] = << >>
        /\ connect_FD \in Fd /\ fdt[connect_FD] # Free /\ fdt[connect_FD] \in Conn
        /\ \A k \in Owners : sockfd[k] # connect_FD
        /\ \A k \in Thread : hpc[k] # "start"
    BY <1>1, <2>1 DEF OrderInv, Newcomer, Safe, Handover, InHand, SockTypeOK
  <2>3. fdt'[connect_FD] = fdt[connect_FD]
    BY <2>1, <2>2, ListedStaysOpen
  <2>4. ASSUME NEW k \in Thread, Cast(k)
        PROVE  got'[fdt[connect_FD]] = << >>
    <3>1. PICK t, e : t = temp[k] /\ e = log[Len(log)]
      OBVIOUS
    <3>2. /\ hpc[k] = "cast" /\ t # NULL /\ temp' = [temp EXCEPT ![k] = next[t]]
          /\ UNCHANGED <<head, data, next>>
          /\ \A c \in Conn : fdt[data[t]] # c => got'[c] = got[c]
      BY <1>1, <2>4, <3>1, CastWrites
    <3>3. t \in Nodes
      BY <1>1, <3>1, <3>2, AheadMoves
    <3> HIDE DEF Nodes, Listed
    <3>4. data[t] \in Fd /\ data[t] \in Listed
      BY <1>1, <3>3, NodesGiven DEF TypeInv, Given, Placed
    <3>5. data[t] # connect_FD
      BY <2>1, <2>2, <3>4, ListedIs DEF Holds, Owners, Starting, Appending
    <3>6. fdt[data[t]] # fdt[connect_FD]
      BY <1>1, <2>2, <3>4, <3>5 DEF Matched
    <3> QED BY <2>2, <3>2, <3>6
  <2>5. CASE \A k \in Thread : ~ Cast(k)
    <3>1. got' = got
      <4>1. CASE \A k \in Thread : ~ LockToCast(k)
        BY <1>1, <2>5, <4>1, QuietStep
      <4>2. CASE \E k \in Thread : LockToCast(k)
        BY <4>2 DEF LockToCast, sockVars
      <4> QED BY <4>1, <4>2
    <3> QED BY <2>1, <2>2, <2>3, <3>1
  <2> QED BY <2>1, <2>3, <2>4, <2>5
<1> QED BY <1>2, <1>4

\* Who waits for the broadcast stays on the list until the walk comes by.
LEMMA AwaitedKeeps ==
  ASSUME ListInv, ListInv', Inv, OrderInv, [Next]_vars, Punctual, Punctual'
  PROVE  Awaited'
<1> DEFINE Told(c, j) ==
      \E a \in Nodes : /\ data[a] # sockfd[j] /\ fdt[data[a]] = c
                       /\ peer[c] = "rst" \/ Heard(c) \/ a \in Ahead(j)
<1> SUFFICES ASSUME NEW j \in Thread, hpc'[j] = "cast", NEW c \in due'
             PROVE  Told(c, j)'
  BY DEF Awaited
<1>1. /\ TypeInv /\ SockTypeOK /\ Matched /\ Placed /\ HeapTypeOK
      /\ ~late /\ Running /\ Running' /\ Awaited
  BY DEF Inv, TypeInv, TypeOK, Punctual, Safe, OrderInv
<1>2. \A a \in Nodes : data[a] \in Fd /\ data[a] \in Listed
  BY <1>1, NodesGiven DEF TypeInv, Given, Placed
<1> HIDE DEF Nodes, Listed
<1>3. c \in Conn
  <2>1. TypeInv'
    BY <1>1, TypeKept
  <2> QED BY <2>1 DEF TypeInv, TypeOK
<1>4. ASSUME NEW k \in Thread, LockToCast(k)
      PROVE  Told(c, j)'
  <2>1. /\ UNCHANGED <<head, data, next, fdt, sockfd>>
        /\ hpc[k] = "lock" /\ list_mutex' = k
        /\ temp' = [temp EXCEPT ![k] = head]
        /\ due' = {fdt[data[a]] : a \in Nodes} \ {Free, fdt[sockfd[k]]}
    BY <1>4 DEF LockToCast, heapVars, CastFrom, sockVars
  <2>2. j = k
    BY <2>1 DEF ListInv, Exclusive
  <2>3. Nodes' = Nodes
    BY <2>1 DEF Nodes, At
  <2>4. PICK a \in Nodes : c = fdt[data[a]] /\ c # fdt[sockfd[k]]
    BY <2>1
  <2>5. Nodes \subseteq Ahead(k)'
    <3>1. /\ Ahead(k)' \in SUBSET Addr /\ temp'[k] \in Ahead(k)' \cup {NULL}
          /\ Follows(Ahead(k))' /\ temp'[k] = head
      BY <1>1, <2>1, AheadClosedNext DEF ListInv, HeapTypeOK
    <3>2. \A b \in Ahead(k)' : next[b] \in Ahead(k)' \cup {NULL}
      BY <2>1, <3>1 DEF Follows
    <3> QED BY <3>1, <3>2, NodesLeast
  <2>6. /\ a \in Nodes' /\ a \in Ahead(j)'
        /\ data'[a] # sockfd'[j] /\ fdt'[data'[a]] = c
    BY <2>1, <2>2, <2>3, <2>4, <2>5
  <2> QED BY <2>6
<1>5. ASSUME NEW k \in Thread, Cast(k)
      PROVE  Told(c, j)'
  <2>1. PICK t, e : t = temp[k] /\ e = log[Len(log)]
    OBVIOUS
  <2>2. /\ hpc[k] = "cast" /\ t # NULL /\ temp' = [temp EXCEPT ![k] = next[t]]
        /\ e \in Entry
        /\ UNCHANGED <<head, data, next, hpc, sockfd, log, due, fdt>>
        /\ got'[c] = IF data[t] # sockfd[k] /\ fdt[data[t]] = c /\ peer[c] # "rst"
                       THEN Hear(got[c], e) ELSE got[c]
        /\ peer'[c] = peer[c] \/ (peer[c] = "fin" /\ peer'[c] = "rst")
    BY <1>1, <1>3, <1>5, <2>1, CastWrites
  <2>3. j = k
    BY <1>5, <2>2, ListWhileCast
  <2>4. Nodes' = Nodes /\ t \in Nodes /\ Ahead(k) \subseteq Ahead(k)' \cup {t}
    BY <1>1, <2>1, <2>2, AheadMoves
  <2>5. PICK a \in Nodes : /\ data[a] # sockfd[j] /\ fdt[data[a]] = c
                           /\ peer[c] = "rst" \/ Heard(c) \/ a \in Ahead(j)
    BY <1>1, <2>2 DEF Awaited
  <2>6. a \in Nodes' /\ data'[a] # sockfd'[j] /\ fdt'[data'[a]] = c
    BY <2>2, <2>4, <2>5
  <2>7. got[c] \in Seq(Entry)
    BY <1>1, <1>3 DEF SockTypeOK
  <2>8. ASSUME got'[c] = Hear(got[c], e)
        PROVE  Heard(c)'
    <3>1. PICK h : h = Hear(got[c], e)
      OBVIOUS
    <3>2. h # << >> /\ h[Len(h)] = e
      BY <2>2, <2>7, <3>1, HearLast
    <3>3. got'[c] = h /\ log' = log
      BY <2>2, <2>8, <3>1
    <3> QED BY <2>1, <3>2, <3>3 DEF Heard
  <2>9. CASE peer[c] = "rst"
    BY <2>2, <2>6, <2>9
  <2>10. CASE Heard(c)
    <3>1. Heard(c)'
      BY <2>2, <2>8, <2>10 DEF Heard
    <3> QED BY <2>6, <3>1
  <2>11. CASE a \in Ahead(j) /\ peer[c] # "rst"
    <3>1. CASE a = t
      <4>1. got'[c] = Hear(got[c], e)
        BY <2>2, <2>3, <2>5, <2>11, <3>1
      <4> QED BY <2>6, <2>8, <4>1
    <3>2. CASE a # t
      <4>1. a \in Ahead(j)'
        BY <2>3, <2>4, <2>11, <3>2
      <4> QED BY <2>6, <4>1
    <3> QED BY <3>1, <3>2
  <2> QED BY <2>5, <2>9, <2>10, <2>11
<1>6. CASE \A k \in Thread : ~ LockToCast(k) /\ ~ Cast(k)
  <2>1. /\ UNCHANGED <<got, log, due>> /\ hpc[j] = "cast" /\ temp'[j] = temp[j]
        /\ sockfd'[j] = sockfd[j]
    BY <1>1, <1>6, QuietStep
  <2>2. PICK a \in Nodes : /\ data[a] # sockfd[j] /\ fdt[data[a]] = c
                           /\ peer[c] = "rst" \/ Heard(c) \/ a \in Ahead(j)
    BY <1>1, <2>1 DEF Awaited
  <2>3. /\ Nodes \subseteq Nodes' /\ data'[a] = data[a]
        /\ Ahead(j) \subseteq Ahead(j)'
    BY <1>1, <2>1, AheadKeeps
  <2>4. /\ fdt'[data[a]] = c
        /\ peer[c] = "rst" => peer'[c] = "rst"
    BY <1>2, <1>3, <2>2, SocketAssumption, ListedStaysOpen
  <2>5. Heard(c) => Heard(c)'
    BY <2>1 DEF Heard
  <2> QED BY <2>1, <2>2, <2>3, <2>4, <2>5
<1> QED BY <1>4, <1>5, <1>6

----------------------------------------------------------------------------
(* The theorems. *)

\* At the start nothing has been said.
LEMMA OrderInit == Init => OrderInv
<1> SUFFICES ASSUME Init PROVE OrderInv
  OBVIOUS
<1>1. /\ pc = "test" /\ log = << >> /\ got = [c \in Conn |-> << >>]
      /\ backlog = << >> /\ hpc = [k \in Thread |-> "none"]
  BY DEF Init, SockInit
<1>2. Ordered
  <2>1. \A c \in Conn : got[c] = << >> /\ Len(log) \in Nat
    BY <1>1
  <2> QED BY <2>1, EmbeddedNothing DEF Ordered
<1>3. \A k \in Thread : hpc[k] # "cast"
  BY <1>1
<1>4. Silent
  BY <1>1 DEF Silent
<1> QED BY <1>1, <1>2, <1>3, <1>4 DEF OrderInv, OnList, Casting, Awaited,
   Newcomer, Appending, Closing

\* Every step keeps OrderInv.
LEMMA OrderKept ==
  ListInv /\ ListInv' /\ Inv /\ OrderInv /\ [Next]_vars => OrderInv'
<1> SUFFICES ASSUME ListInv, ListInv', Inv, OrderInv, [Next]_vars, ~late'
             PROVE  /\ Ordered'
                    /\ Running' => OnList' /\ Casting' /\ Silent'
                    /\ Safe' => Awaited' /\ Newcomer'
                    /\ Running' /\ Closing' => \E S \in SUBSET Addr : Tidy(S)'
  BY DEF OrderInv
<1>1. ~late /\ TypeInv /\ (Running' => Running)
  BY LateForGood DEF Inv, TypeInv
<1>2. CASE Running'
  <2>1. OnList' /\ Casting' /\ Silent' /\ Ordered'
    BY <1>1, <1>2, OnListKeeps, CastingKeeps, SilentKeeps, OrderedKeeps
  <2>2. Safe' => Awaited' /\ Newcomer'
    <3> SUFFICES ASSUME Safe' PROVE Awaited' /\ Newcomer'
      OBVIOUS
    <3>1. Punctual /\ Punctual'
      BY PunctualBefore DEF Punctual
    <3> QED BY <3>1, AwaitedKeeps, NewcomerKeeps
  <2> QED BY <1>2, <2>1, <2>2, TidyKeeps
<1>3. CASE ~Running'
  <2>1. Ordered'
    <3>1. CASE UNCHANGED <<got, log>>
      <4>1. Ordered
        BY <1>1 DEF OrderInv
      <4> QED BY <3>1, <4>1 DEF Ordered, Embedded
    <3>2. CASE ~ UNCHANGED <<got, log>>
      <4>1. PICK k \in Thread : LockToCast(k) \/ Cast(k)
        BY <1>1, <3>2, QuietStep
      <4>2. Running
        BY <3>2 DEF Next, vars, sockVars, history
      <4>3. pc' = pc
        BY <3>2, <4>1 DEF LockToCast, Cast, mainVars, history
      <4> QED BY <1>3, <4>2, <4>3 DEF Running
    <3> QED BY <3>1, <3>2
  <2> QED BY <1>3, <2>1 DEF Safe
<1> QED BY <1>2, <1>3

\* OrderInv holds in every state of the pthread server.
THEOREM OrderInvHolds == Spec => []OrderInv
BY ListInvHolds, InvHolds, OrderInit, OrderKept, PTL DEF Spec

\* All clients of the pthread server hear what they hear in the order in which
\* the threads took the mutex, each entry once (server.c:82-100).
THEOREM InOrderHolds == Spec => []InOrder
<1>1. OrderInv => InOrder
  BY DEF OrderInv, Ordered, Embedded, InOrder
<1> QED BY OrderInvHolds, <1>1, PTL

\* When a broadcast ends, everyone who was on the list at its start has heard
\* it or was reset, whatever main appended meanwhile (server.c:85-100).
THEOREM EveryoneHearsHolds == Spec => []EveryoneHears
<1>1. OrderInv => EveryoneHears
  <2> SUFFICES ASSUME OrderInv, NEW k \in Thread, hpc[k] = "cast",
                      temp[k] = NULL, ~late, Running, ~Closing, NEW c \in due
               PROVE  \/ peer[c] = "rst"
                      \/ got[c] # << >> /\ got[c][Len(got[c])] = log[Len(log)]
    BY DEF EveryoneHears
  <2> HIDE DEF Nodes
  <2>1. \E a \in Nodes : peer[c] = "rst" \/ Heard(c) \/ a \in Ahead(k)
    BY DEF OrderInv, Awaited, Safe
  <2>2. Ahead(k) = {}
    <3>1. {} \in SUBSET Addr /\ Follows({})
      BY DEF Follows
    <3> QED BY <3>1, AheadLeast
  <2> QED BY <2>1, <2>2 DEF Heard
<1> QED BY OrderInvHolds, <1>1, PTL

=============================================================================
