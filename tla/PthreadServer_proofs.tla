----------------------- MODULE PthreadServer_proofs ------------------------
(***************************************************************************)
(* What holds of the pthread server for any number of clients, threads and *)
(* nodes.  ListInv is the safety of the list that main and the threads     *)
(* share: from it follow that the mutex excludes, that the list stays a    *)
(* list, and what can make a thread use a bad pointer.  Inv is about whom  *)
(* a descriptor belongs to: from it follow that each thread has a client   *)
(* of its own, that the list is exact, and that no client is dropped       *)
(* without a reason.  Both are shown to be inductive, action by action.    *)
(***************************************************************************)
EXTENDS PthreadServer, Sockets_proofs

Safe == Running /\ ~Closing
Locked == {"cast", "find", "unlink"}

----------------------------------------------------------------------------
(* Walking the list. *)

\* The walk of n steps is defined for every n: the recursion has a solution.
LEMMA WalkExists ==
  ASSUME NEW N \in Nat
  PROVE  \E f : f = [n \in 0..N |->
                       IF n = 0 THEN head
                       ELSE IF f[n - 1] = NULL THEN NULL ELSE next[f[n - 1]]]
<1> DEFINE Step(f, n) == IF n = 0 THEN head
                         ELSE IF f[n - 1] = NULL THEN NULL ELSE next[f[n - 1]]
           Solved(m) == \E f : f = [n \in 0..m |-> Step(f, n)]
           Unsolved == {m \in Nat : ~ Solved(m)}
<1>1. SUFFICES ASSUME Unsolved # {} PROVE FALSE
  <2>1. Solved(N)
    BY <1>1
  <2> QED BY <2>1
<1>2. PICK m \in Unsolved : \A n \in Unsolved : m <= n
  <2>1. Unsolved \in SUBSET Nat
    OBVIOUS
  <2> HIDE DEF Unsolved
  <2> QED BY <1>1, <2>1, LeastExists
<1>3. CASE m = 0
  <2> DEFINE g == [n \in 0..0 |-> head]
  <2>1. g = [n \in 0..0 |-> Step(g, n)]
    OBVIOUS
  <2>2. Solved(0)
    BY <2>1
  <2> QED BY <1>2, <1>3, <2>2
<1>4. CASE m # 0
  <2>1. m \in Nat /\ m - 1 \in Nat /\ m - 1 < m /\ ~ Solved(m)
    BY <1>2, <1>4
  <2>2. Solved(m - 1)
    <3>1. m - 1 \notin Unsolved
      <4> HIDE DEF Unsolved, Solved
      <4> QED BY <1>2, <2>1
    <3> QED BY <2>1, <3>1
  <2>3. PICK f : f = [n \in 0..(m - 1) |-> Step(f, n)]
    BY <2>2
  <2> DEFINE g == [n \in 0..m |-> IF n = m THEN Step(f, m) ELSE f[n]]
  <2>4. \A n \in 0..m : g[n] = Step(g, n)
    <3> SUFFICES ASSUME NEW n \in 0..m PROVE g[n] = Step(g, n)
      OBVIOUS
    <3>1. CASE n = m
      <4>1. m - 1 \in 0..m /\ m - 1 # m /\ g[m] = Step(f, m)
        BY <2>1
      <4>2. g[m - 1] = f[m - 1]
        BY <4>1
      <4> QED BY <1>4, <3>1, <4>1, <4>2
    <3>2. CASE n # m /\ n # 0
      <4>1. n \in 0..(m - 1) /\ n - 1 \in 0..m /\ n - 1 # m
        BY <2>1, <3>2
      <4>2. f[n] = Step(f, n) /\ g[n] = f[n] /\ g[n - 1] = f[n - 1]
        BY <2>3, <3>2, <4>1
      <4> QED BY <4>2
    <3>3. CASE n # m /\ n = 0
      <4>1. 0 \in 0..(m - 1)
        BY <2>1
      <4>2. f[0] = head
        BY <2>3, <4>1
      <4> QED BY <3>3, <4>2
    <3> QED BY <3>1, <3>2, <3>3
  <2>5. g = [n \in 0..m |-> Step(g, n)]
    BY <2>4
  <2> HIDE DEF g
  <2> QED BY <2>1, <2>5
<1> QED BY <1>3, <1>4

\* One step of the walk.
LEMMA WalkStep ==
  /\ Cardinality(Addr) \in Nat
  /\ DOMAIN At = 0..Cardinality(Addr)
  /\ At[0] = head
  /\ \A n \in 1..Cardinality(Addr) :
       At[n] = IF At[n - 1] = NULL THEN NULL ELSE next[At[n - 1]]
<1>1. Cardinality(Addr) \in Nat
  BY PthreadAssumption, FS_CardinalityType
<1>2. At = [n \in 0..Cardinality(Addr) |->
              IF n = 0 THEN head
              ELSE IF At[n - 1] = NULL THEN NULL ELSE next[At[n - 1]]]
  BY <1>1, WalkExists DEF At
<1> HIDE DEF At
<1> QED BY <1>1, <1>2

\* The walk stays among the nodes; if they are linked, among the live ones.
LEMMA WalkStays ==
  ASSUME NEW S \in SUBSET Addr, head \in S \cup {NULL},
         \A a \in S : next[a] \in S \cup {NULL}
  PROVE  \A n \in DOMAIN At : At[n] \in S \cup {NULL}
<1> DEFINE Astray == {n \in DOMAIN At : At[n] \notin S \cup {NULL}}
<1>1. SUFFICES ASSUME Astray # {} PROVE FALSE
  OBVIOUS
<1>2. Astray \in SUBSET Nat
  BY WalkStep
<1>3. PICK m \in Astray : \A n \in Astray : m <= n
  <2> HIDE DEF Astray
  <2> QED BY <1>1, <1>2, LeastExists
<1>4. m # 0 /\ m \in 1..Cardinality(Addr) /\ m - 1 \in DOMAIN At
  BY <1>3, WalkStep
<1>5. At[m - 1] \in S \cup {NULL}
  <2>1. m - 1 \notin Astray
    BY <1>2, <1>3, <1>4
  <2> QED BY <1>4, <2>1
<1> QED BY <1>3, <1>4, <1>5, WalkStep

\* The head and what follows it are in S, which is linked as a list is.
Follows(S) == \A a \in S : next[a] \in S \cup {NULL}
Linked(S) ==
  /\ head \in S \cup {NULL} /\ Follows(S)
  /\ \A a, b \in S : next[a] = next[b] /\ next[a] # NULL => a = b
  /\ head # NULL => \A a \in S : next[a] # head

\* A list whose nodes are pointed to at most once, the first one never, ends.
LEMMA LinkedEnds ==
  ASSUME NEW S \in SUBSET Addr, Linked(S)
  PROVE  Nodes \subseteq S /\ At[Cardinality(Addr)] = NULL
<1> DEFINE N == Cardinality(Addr)
<1>1. N \in Nat /\ DOMAIN At = 0..N
  BY WalkStep
<1>2. \A n \in 0..N : At[n] \in S \cup {NULL}
  BY <1>1, WalkStays DEF Linked, Follows
<1>3. ASSUME At[N] # NULL
      PROVE  FALSE
  <2>1. ASSUME NEW n \in 0..N, At[n] = NULL
        PROVE  FALSE
    \* The last place before the end that holds nothing.
    <3> DEFINE Back == {d \in 0..N : At[N - d] = NULL}
    <3>1. Back \in SUBSET Nat /\ N - n \in Back
      BY <1>1, <2>1
    <3>2. PICK d \in Back : \A e \in Back : d <= e
      <4> HIDE DEF Back
      <4> QED BY <3>1, LeastExists
    <3>3. d # 0 /\ d \in 1..N /\ N - d \in 0..N /\ At[N - d] = NULL
      BY <1>1, <1>3, <3>2
    <3>4. N - d + 1 \in 1..N /\ (N - d + 1) - 1 = N - d /\ N - (d - 1) = N - d + 1
      BY <1>1, <3>3
    <3>5. At[N - (d - 1)] = NULL
      BY <3>3, <3>4, WalkStep
    <3>6. d - 1 \in Back
      BY <1>1, <3>3, <3>5
    <3> QED BY <3>1, <3>2, <3>3, <3>6
  <2>2. \A n \in 0..N : At[n] \in S /\ At[n] \in Addr
    BY <1>2, <2>1
  <2> DEFINE Twice == {m \in 0..N : \E n \in 0..N : m < n /\ At[m] = At[n]}
  <2>3. Twice # {}
    <3> DEFINE walked == [n \in 0..N |-> At[n]]
    <3>1. IsFiniteSet(0..N) /\ Cardinality(0..N) = N + 1
      BY <1>1, FS_Interval
    <3>2. walked \in [0..N -> Addr]
      BY <2>2
    <3>3. N < N + 1 /\ IsFiniteSet(Addr)
      BY <1>1, PthreadAssumption
    <3>4. \E x, y \in 0..N : x # y /\ walked[x] = walked[y]
      <4> HIDE DEF walked
      <4> QED BY <3>1, <3>2, <3>3, FS_PigeonHole
    <3>5. PICK x, y \in 0..N : x # y /\ At[x] = At[y]
      BY <3>4
    <3>6. x < y \/ y < x
      BY <1>1, <3>5
    <3> QED BY <3>5, <3>6
  <2>4. PICK m \in Twice : \A k \in Twice : m <= k
    <3>1. Twice \in SUBSET Nat
      BY <1>1
    <3> HIDE DEF Twice
    <3> QED BY <2>3, <3>1, LeastExists
  <2>5. PICK n \in 0..N : m < n /\ At[m] = At[n]
    BY <2>4
  <2>6. n \in 1..N /\ n - 1 \in 0..N /\ At[n] = next[At[n - 1]]
    <3>1. n \in 1..N /\ n - 1 \in 0..N
      BY <1>1, <2>4, <2>5
    <3> QED BY <2>2, <3>1, WalkStep, PthreadAssumption
  <2>7. CASE m = 0
    BY <2>2, <2>5, <2>6, <2>7, WalkStep, PthreadAssumption DEF Linked
  <2>8. CASE m # 0
    <3>1. m \in 1..N /\ m - 1 \in 0..N /\ m - 1 < n - 1 /\ m - 1 < m
      BY <1>1, <2>4, <2>5, <2>6, <2>8
    <3>2. At[m] = next[At[m - 1]]
      BY <2>2, <3>1, WalkStep, PthreadAssumption
    <3>3. At[m - 1] = At[n - 1]
      BY <2>2, <2>5, <2>6, <3>1, <3>2, PthreadAssumption DEF Linked
    <3>4. m - 1 \in Twice
      BY <2>6, <3>1, <3>3
    <3> QED BY <1>1, <2>4, <3>1, <3>4
  <2> QED BY <2>7, <2>8
<1> QED BY <1>1, <1>2, <1>3 DEF Nodes

\* A walk along linked nodes meets live nodes only, and ends.
LEMMA WalkEnds ==
  ASSUME HeapTypeOK, Links
  PROVE  Nodes \subseteq live /\ At[Cardinality(Addr)] = NULL
<1>1. live \in SUBSET Addr /\ Linked(live)
  BY DEF HeapTypeOK, Links, Linked, Follows
<1> QED BY <1>1, LinkedEnds

----------------------------------------------------------------------------
(* ListInv is inductive: the initial state and each action. *)

\* What ListInv says of the heap while the server is up.
Shape == Links /\ HeldPointers /\ AppendPointers

\* At the start.
LEMMA ListInit == Init => ListInv
<1> SUFFICES ASSUME Init PROVE ListInv
  OBVIOUS
<1>1. HeapTypeOK /\ Numbered
  BY PthreadAssumption DEF Init, HeapTypeOK, Numbered, Thread, Appending
<1>2. Exclusive
  BY PthreadAssumption DEF Init, Exclusive, Thread
<1>3. Links /\ HeldPointers /\ AppendPointers
  BY DEF Init, Links, HeldPointers, AppendPointers
<1> QED BY <1>1, <1>2, <1>3 DEF ListInv

\* The steps that leave the list and the threads alone.
LEMMA QuietMain ==
  ASSUME ListInv,
         \/ TestFlag \/ Select \/ AcceptFails \/ Accept \/ Refuse \/ Return
         \/ Crash \/ SigInt \/ ClientsAct \/ UNCHANGED vars
  PROVE  ListInv'
<1> USE DEF TestFlag, Select, AcceptFails, Accept, Refuse, Return, Crash,
            SigInt, ClientsAct, vars, mainVars, heapVars, thrVars, history
<1>1. /\ UNCHANGED <<head, next, live, raced>>
      /\ UNCHANGED <<list_mutex, hpc, temp, before, after>>
  OBVIOUS
<1>2. /\ pc' = pc /\ UNCHANGED <<newnode, current>>
      \/ /\ pc' \notin {"load", "walk", "link", "create"}
         /\ newnode' = newnode /\ current' \in {current, head}
         /\ pc' \in {"test", "select", "accept", "refuse", "append",
                     "closing", "return", "exited", "crashed"}
  OBVIOUS
<1>3. HeapTypeOK'
  BY <1>1, <1>2 DEF ListInv, HeapTypeOK
<1>4. Exclusive'
  BY <1>1 DEF ListInv, Exclusive
<1>5. Numbered'
  <2>1. CASE Accept
    <3>1. /\ cli_count' = cli_count + 1 /\ cli_count \in Nat /\ hpc' = hpc
          /\ pc' = IF cli_count' > MAX_CLIENT THEN "refuse" ELSE "append"
      BY <2>1 DEF ListInv, Numbered, Full
    <3>2. \A k \in Thread : k >= cli_count' => hpc[k] = "none"
      BY <3>1, PthreadAssumption DEF ListInv, Numbered, Thread
    <3> QED BY <3>1, <3>2, PthreadAssumption DEF Numbered, Thread, Appending
  <2>2. CASE ~Accept
    <3>1. UNCHANGED <<cli_count, hpc>>
      BY <2>2
    <3>2. (Appending \/ pc = "create")' => Appending \/ pc = "create"
      BY <2>2 DEF Appending
    <3> QED BY <3>1, <3>2 DEF ListInv, Numbered
  <2> QED BY <2>1, <2>2
<1>6. Safe' => Safe
  BY DEF Safe, Running, Closing
<1>7. Safe /\ Safe' => Shape'
  <2> SUFFICES ASSUME Safe, Safe' PROVE Shape'
    OBVIOUS
  <2>1. Links' /\ HeldPointers'
    BY <1>1 DEF ListInv, Safe, Links, HeldPointers
  <2>2. AppendPointers'
    BY <1>1, <1>2 DEF ListInv, Safe, AppendPointers, Deleting
  <2> QED BY <2>1, <2>2 DEF Shape
<1> QED BY <1>3, <1>4, <1>5, <1>6, <1>7 DEF ListInv, Safe, Shape

\* appendNode makes the new node: nothing points to it, and what is not in use
\* is not pointed to either (singlylinkedlist.c:28-36).
LEMMA AppendKeeps ==
  ASSUME ListInv, Append1
  PROVE  ListInv'
<1>1. PICK a \in Addr \ live :
        /\ pc = "append"
        /\ live' = live \cup {a}
        /\ next' = [next EXCEPT ![a] = NULL]
        /\ newnode' = a /\ current' = current
        /\ IF head = NULL THEN head' = a /\ pc' = "create"
                          ELSE pc' = "load" /\ head' = head
  BY DEF Append1
<1>2. /\ raced' = (raced \/ Deleting)
      /\ UNCHANGED <<cli_count, list_mutex, hpc, temp, before, after>>
  BY DEF Append1, thrVars
<1>3. HeapTypeOK'
  BY <1>1, <1>2 DEF ListInv, HeapTypeOK
<1>4. Exclusive' /\ Numbered'
  BY <1>1, <1>2 DEF ListInv, Exclusive, Numbered, Appending
<1>5. Links /\ HeldPointers /\ HeapTypeOK
  BY <1>1 DEF ListInv, Running, Closing
<1>6. Links'
  BY <1>1, <1>5, PthreadAssumption DEF Links, HeapTypeOK
<1>7. HeldPointers'
  BY <1>1, <1>2, <1>5, PthreadAssumption DEF Links, HeldPointers, HeapTypeOK
<1>8. AppendPointers'
  <2> SUFFICES ASSUME pc' = "load" PROVE AppendPointers'
    BY <1>1 DEF AppendPointers
  <2>1. head # NULL /\ head' = head /\ head \in live
    BY <1>1, <1>5 DEF Links
  <2> DEFINE graves == Addr \ live'
  <2>2. \A b \in Addr \ graves : next'[b] \notin graves \cup {newnode'}
    BY <1>1, <1>5, PthreadAssumption DEF Links, HeapTypeOK
  <2>3. graves \in SUBSET (Addr \ live')
    OBVIOUS
  <2> HIDE DEF graves
  <2> QED BY <1>1, <1>2, <2>1, <2>2, <2>3 DEF AppendPointers, Deleting
<1> QED BY <1>3, <1>4, <1>6, <1>7, <1>8 DEF ListInv

\* ... and walks, without the mutex, from a head that may have changed since.
LEMMA WalkKeeps ==
  ASSUME ListInv, Load \/ Walk
  PROVE  ListInv'
<1>1. /\ UNCHANGED <<head, next, live, raced, newnode, cli_count>>
      /\ UNCHANGED <<list_mutex, hpc, temp, before, after>>
  BY DEF Load, Walk, heapVars, thrVars, history
<1>2. /\ Links /\ HeldPointers /\ AppendPointers /\ HeapTypeOK
      /\ pc \in {"load", "walk"} /\ pc' \in {"walk", "link"}
  BY DEF Load, Walk, ListInv, Running, Closing
<1>3. HeapTypeOK'
  BY <1>1, <1>2 DEF Load, Walk, HeapTypeOK
<1>4. Exclusive' /\ Numbered'
  BY <1>1, <1>2 DEF ListInv, Exclusive, Numbered, Appending
<1>5. Links' /\ HeldPointers'
  BY <1>1, <1>2 DEF Links, HeldPointers
<1>6. AppendPointers'
  <2>1. PICK graves \in SUBSET (Addr \ live) :
          /\ \A a \in Addr \ graves : next[a] \notin graves \cup {newnode}
          /\ pc # "load" => current \notin graves \cup {newnode}
    BY <1>2 DEF AppendPointers
  <2>2. current' \notin graves \cup {newnode}
    <3>1. CASE Load
      BY <1>2, <2>1, <3>1, PthreadAssumption DEF Load, AppendPointers, Links
    <3>2. CASE Walk
      <4>1. current # NULL /\ current \in Addr \ graves
        BY <1>2, <2>1, <3>2 DEF Walk, HeapTypeOK
      <4> QED BY <2>1, <3>2, <4>1 DEF Walk
    <3> QED BY <3>1, <3>2
  <2>3. pc' = "link" => next'[current'] = NULL
    BY <1>1 DEF Load, Walk
  <2>4. ~raced => current' \in live
    BY <1>2 DEF Load, Walk, AppendPointers, Links
  <2>5. newnode \in live /\ head # newnode /\ (Deleting => raced)
    BY <1>2 DEF AppendPointers
  <2>6. Deleting' => Deleting
    BY <1>1 DEF Deleting
  <2> QED BY <1>1, <1>2, <2>1, <2>2, <2>3, <2>4, <2>5, <2>6 DEF AppendPointers
<1> QED BY <1>3, <1>4, <1>5, <1>6 DEF ListInv

\* ... and links the new node to the node it has come to, in use or not.
LEMMA LinkKeeps ==
  ASSUME ListInv, Link
  PROVE  ListInv'
<1>1. /\ pc = "link" /\ pc' = "create"
      /\ next' = [next EXCEPT ![current] = newnode]
      /\ UNCHANGED <<head, live, raced, newnode, current, cli_count>>
      /\ UNCHANGED <<list_mutex, hpc, temp, before, after>>
  BY DEF Link, thrVars, history
<1>2. Links /\ HeldPointers /\ AppendPointers /\ HeapTypeOK
  BY <1>1 DEF ListInv, Running, Closing
<1>3. HeapTypeOK'
  BY <1>1, <1>2 DEF HeapTypeOK
<1>4. Exclusive' /\ Numbered'
  BY <1>1 DEF ListInv, Exclusive, Numbered, Appending
<1>5. /\ newnode \in live /\ newnode # NULL /\ head # newnode
      /\ \A a \in live : next[a] # newnode
      /\ current \in live => next[current] = NULL
  BY <1>1, <1>2, PthreadAssumption DEF AppendPointers, HeapTypeOK
<1>6. \A a \in live : next'[a] = IF a = current THEN newnode ELSE next[a]
  BY <1>1, <1>2 DEF HeapTypeOK
<1>7. Links'
  BY <1>1, <1>2, <1>5, <1>6 DEF Links
<1>8. HeldPointers'
  <2> SUFFICES ASSUME NEW k \in Thread
               PROVE  /\ hpc[k] = "cast" => temp[k] \in live \cup {NULL}
                      /\ hpc[k] = "unlink" =>
                           /\ temp[k] \in live
                           /\ IF before[k] = NULL
                                THEN head = temp[k]
                                ELSE /\ before[k] \in live
                                     /\ next'[before[k]] = temp[k]
                           /\ after[k] \in {next'[temp[k]], NULL}
    BY <1>1 DEF HeldPointers
  <2>1. NULL \notin live
    BY <1>2, PthreadAssumption DEF HeapTypeOK
  <2> QED BY <1>2, <1>5, <1>6, <2>1 DEF HeldPointers
<1>9. AppendPointers'
  BY <1>1 DEF AppendPointers
<1> QED BY <1>3, <1>4, <1>7, <1>8, <1>9 DEF ListInv

\* A new thread begins.
LEMMA CreateKeeps ==
  ASSUME ListInv, Create
  PROVE  ListInv'
<1>1. /\ pc = "create" /\ pc' = "test"
      /\ hpc' = [hpc EXCEPT ![cli_count] = "start"]
      /\ UNCHANGED <<head, next, live, newnode, current, cli_count>>
      /\ UNCHANGED <<list_mutex, temp, before, after>>
  BY DEF Create, heapVars
<1>2. /\ Links /\ HeldPointers /\ HeapTypeOK /\ Exclusive /\ Numbered
      /\ cli_count \in Thread /\ hpc[cli_count] = "none"
  BY <1>1 DEF ListInv, Running, Closing, Numbered
<1>3. HeapTypeOK'
  BY <1>1, <1>2 DEF HeapTypeOK
<1>4. \A k \in Thread : hpc'[k] = IF k = cli_count THEN "start" ELSE hpc[k]
  BY <1>1, <1>2 DEF HeapTypeOK
<1>5. Exclusive'
  BY <1>1, <1>2, <1>4 DEF Exclusive
<1>6. Numbered'
  BY <1>1, <1>2, <1>4 DEF Numbered, Appending
<1>7. Links' /\ HeldPointers' /\ AppendPointers'
  BY <1>1, <1>2, <1>4 DEF Links, HeldPointers, AppendPointers
<1> QED BY <1>3, <1>5, <1>6, <1>7 DEF ListInv

\* The shutdown: nothing is said of the heap any more.
LEMMA ShutdownKeeps ==
  ASSUME ListInv, CloseOne \/ FreeOne
  PROVE  ListInv'
<1>1. /\ UNCHANGED <<head, next, newnode, cli_count>>
      /\ UNCHANGED <<list_mutex, hpc, temp, before, after>>
      /\ pc' \in {"closing", "freeing", "return"}
      /\ live' \subseteq live
      /\ \/ current' \in {current, head}
         \/ current # NULL /\ current' = next[current]
  BY DEF CloseOne, FreeOne, heapVars, thrVars
<1>2. HeapTypeOK'
  BY <1>1 DEF ListInv, HeapTypeOK
<1>3. Exclusive' /\ Numbered'
  BY <1>1 DEF ListInv, Exclusive, Numbered, Appending
<1> QED BY <1>1, <1>2, <1>3 DEF ListInv, Closing

----------------------------------------------------------------------------
(* The same for the steps of a thread. *)

\* Outside the mutex a thread does nothing to the list, and the mutex is taken
\* or given back as the thread enters or leaves the part that it protects.
LEMMA QuietHandler ==
  ASSUME ListInv, NEW k \in Thread,
         Start(k) \/ Stop(k) \/ Read(k) \/ CastDone(k) \/ CloseFd(k)
  PROVE  ListInv'
<1>1. /\ UNCHANGED <<pc, newnode, current, cli_count, raced>>
      /\ UNCHANGED <<head, next, live, temp, before, after>>
  BY DEF Start, Stop, Read, CastDone, CloseFd, mainVars, heapVars, history
<1>2. PICK to \in {"loop", "lock", "leave", "gone"} :
        hpc' = [hpc EXCEPT ![k] = to]
  BY DEF Start, Stop, Read, CastDone, CloseFd, Move
<1>3. \/ hpc[k] \notin Locked \cup {"none"} /\ list_mutex' = list_mutex
      \/ hpc[k] = "cast" /\ list_mutex' = 0
  BY DEF Start, Stop, Read, CastDone, CloseFd, UnlockAfterCast, Locked
<1>4. HeapTypeOK /\ Exclusive /\ Numbered
  BY DEF ListInv
<1>5. \A j \in Thread : hpc'[j] = IF j = k THEN to ELSE hpc[j]
  BY <1>2, <1>4 DEF HeapTypeOK
<1>6. HeapTypeOK'
  BY <1>1, <1>2, <1>3, <1>4 DEF HeapTypeOK
<1>7. Exclusive'
  BY <1>3, <1>4, <1>5, PthreadAssumption DEF Exclusive, Locked, Thread
<1>8. Numbered'
  BY <1>1, <1>3, <1>4, <1>5 DEF Numbered, Appending, Locked
<1>9. Safe' => Safe
  BY <1>1 DEF Safe, Running, Closing
<1>10. Safe => Links' /\ HeldPointers' /\ AppendPointers'
  BY <1>1, <1>5 DEF ListInv, Safe, Links, HeldPointers, AppendPointers, Deleting
<1> QED BY <1>6, <1>7, <1>8, <1>9, <1>10 DEF ListInv, Safe

\* Only one thread holds the mutex; the one that takes it starts at the head.
LEMMA LockKeeps ==
  ASSUME ListInv, NEW k \in Thread, LockToCast(k) \/ LockToDelete(k)
  PROVE  ListInv'
<1>1. /\ UNCHANGED <<pc, newnode, current, cli_count>>
      /\ UNCHANGED <<head, next, live, before, after>>
      /\ list_mutex = 0 /\ list_mutex' = k
      /\ hpc[k] \in {"lock", "leave"}
  BY DEF LockToCast, LockToDelete, mainVars, heapVars, LockFree
<1>2. PICK to \in {"cast", "find"} :
        /\ hpc' = [hpc EXCEPT ![k] = to]
        /\ IF to = "cast"
             THEN temp' = [temp EXCEPT ![k] = head] /\ raced' = raced
             ELSE temp' = temp /\ raced' = (raced \/ Appending)
  BY DEF LockToCast, LockToDelete, Move, CastFrom
<1>3. HeapTypeOK /\ Exclusive /\ Numbered
  BY DEF ListInv
<1>4. \A j \in Thread : hpc'[j] = IF j = k THEN to ELSE hpc[j]
  BY <1>2, <1>3 DEF HeapTypeOK
<1>5. HeapTypeOK'
  BY <1>1, <1>2, <1>3 DEF HeapTypeOK
<1>6. Exclusive'
  BY <1>1, <1>3, <1>4, PthreadAssumption DEF Exclusive, Thread
<1>7. Numbered'
  BY <1>1, <1>3, <1>4 DEF Numbered, Appending
<1>8. ASSUME Safe
      PROVE  Links' /\ HeldPointers' /\ AppendPointers'
  <2>1. Links /\ HeldPointers /\ AppendPointers
    BY <1>8 DEF ListInv, Safe
  <2>2. Links'
    BY <1>1, <2>1 DEF Links
  <2>3. HeldPointers'
    BY <1>1, <1>2, <1>3, <1>4, <2>1 DEF HeldPointers, HeapTypeOK, Links
  <2>4. AppendPointers'
    <3>1. raced => raced'
      BY <1>2
    <3>2. Deleting' => Deleting \/ to = "find"
      BY <1>4 DEF Deleting
    <3>3. pc \in {"load", "walk", "link"} => Appending
      BY DEF Appending
    <3> QED BY <1>1, <1>2, <2>1, <3>1, <3>2, <3>3 DEF AppendPointers
  <2> QED BY <2>2, <2>3, <2>4
<1>9. Safe' => Safe
  BY <1>1 DEF Safe, Running, Closing
<1> QED BY <1>5, <1>6, <1>7, <1>8, <1>9 DEF ListInv, Safe

\* A write to one client, and the step to the next node.
LEMMA CastKeeps ==
  ASSUME ListInv, NEW k \in Thread, Cast(k)
  PROVE  ListInv'
<1>1. /\ UNCHANGED <<newnode, current, cli_count, raced, head, next, live>>
      /\ UNCHANGED <<list_mutex, hpc, before, after>>
      /\ hpc[k] = "cast" /\ temp[k] # NULL
      /\ \/ pc' = pc /\ temp' = [temp EXCEPT ![k] = next[temp[k]]]
         \/ pc' = "killed" /\ temp' = temp
  BY DEF Cast, heapVars, history
<1>2. HeapTypeOK /\ Exclusive /\ Numbered
  BY DEF ListInv
<1>3. HeapTypeOK'
  BY <1>1, <1>2 DEF HeapTypeOK
<1>4. Exclusive' /\ Numbered'
  BY <1>1, <1>2 DEF Exclusive, Numbered, Appending
<1>5. ASSUME Safe'
      PROVE  Links' /\ HeldPointers' /\ AppendPointers'
  <2>1. pc' = pc /\ temp' = [temp EXCEPT ![k] = next[temp[k]]]
    BY <1>1, <1>5 DEF Safe, Running
  <2>2. Links /\ HeldPointers /\ AppendPointers
    BY <1>5, <2>1 DEF ListInv, Safe, Running, Closing
  <2>3. Links' /\ AppendPointers'
    BY <1>1, <2>1, <2>2 DEF Links, AppendPointers, Deleting
  <2>4. \A j \in Thread : temp'[j] = IF j = k THEN next[temp[k]] ELSE temp[j]
    BY <1>2, <2>1 DEF HeapTypeOK
  <2>5. temp[k] \in live /\ next[temp[k]] \in live \cup {NULL}
    BY <1>1, <2>2 DEF HeldPointers, Links
  <2>6. HeldPointers'
    BY <1>1, <2>2, <2>4, <2>5 DEF HeldPointers
  <2> QED BY <2>3, <2>6
<1> QED BY <1>3, <1>4, <1>5 DEF ListInv, Safe

\* deleteNode finds its node, the one before and the one after.
LEMMA FindKeeps ==
  ASSUME ListInv, NEW k \in Thread, Find(k)
  PROVE  ListInv'
<1>1. /\ UNCHANGED <<pc, newnode, current, cli_count, raced>>
      /\ UNCHANGED <<head, next, live>> /\ hpc[k] = "find"
  BY DEF Find, mainVars, heapVars, history
<1>2. HeapTypeOK /\ Exclusive /\ Numbered
  BY DEF ListInv
<1>3. list_mutex = k /\ \A j \in Thread : j # k => hpc[j] \notin Locked
  BY <1>1, <1>2 DEF Exclusive, Locked
<1>4. CASE Places(sockfd[k]) = {}
  <2>1. /\ list_mutex' = 0 /\ hpc' = [hpc EXCEPT ![k] = "close"]
        /\ UNCHANGED <<temp, before, after>>
    BY <1>4 DEF Find, Move
  <2>2. \A j \in Thread : hpc'[j] = IF j = k THEN "close" ELSE hpc[j]
    BY <1>2, <2>1 DEF HeapTypeOK
  <2>3. HeapTypeOK'
    BY <1>1, <1>2, <2>1 DEF HeapTypeOK
  <2>4. Exclusive' /\ Numbered'
    BY <1>1, <1>2, <1>3, <2>1, <2>2, PthreadAssumption
       DEF Exclusive, Numbered, Appending, Locked, Thread
  <2>5. Safe => Links' /\ HeldPointers' /\ AppendPointers'
    BY <1>1, <2>1, <2>2
       DEF ListInv, Safe, Links, HeldPointers, AppendPointers, Deleting
  <2> QED BY <1>1, <2>3, <2>4, <2>5 DEF ListInv, Safe, Running, Closing
<1>5. CASE Places(sockfd[k]) # {}
  <2> DEFINE n == First(Places(sockfd[k]))
  <2>1. n \in Places(sockfd[k])
    <3>1. Places(sockfd[k]) \in SUBSET Nat
      BY WalkStep DEF Places
    <3> QED BY <1>5, <3>1, LeastExists DEF First
  <2>2. n \in DOMAIN At /\ n \in Nat /\ At[n] # NULL
    BY <2>1, WalkStep DEF Places
  <2>3. /\ temp' = [temp EXCEPT ![k] = At[n]]
        /\ before' = [before EXCEPT ![k] = IF n = 0 THEN NULL ELSE At[n - 1]]
        /\ after' = [after EXCEPT ![k] = next[At[n]]]
        /\ hpc' = [hpc EXCEPT ![k] = "unlink"] /\ list_mutex' = list_mutex
    BY <1>5 DEF Find, Move
  <2>4. n # 0 => /\ n - 1 \in DOMAIN At /\ At[n - 1] # NULL
                 /\ At[n] = next[At[n - 1]]
    BY <2>2, WalkStep
  <2>5. \A m \in DOMAIN At : At[m] \in Addr \cup {NULL}
    BY <1>2, WalkStays DEF HeapTypeOK
  <2> HIDE DEF n
  <2>6. HeapTypeOK'
    BY <1>1, <1>2, <2>2, <2>3, <2>4, <2>5 DEF HeapTypeOK
  <2>7. \A j \in Thread : hpc'[j] = IF j = k THEN "unlink" ELSE hpc[j]
    BY <1>2, <2>3 DEF HeapTypeOK
  <2>8. Exclusive' /\ Numbered'
    BY <1>1, <1>2, <1>3, <2>3, <2>7 DEF Exclusive, Numbered, Appending
  <2>9. ASSUME Safe
        PROVE  Links' /\ HeldPointers' /\ AppendPointers'
    <3>1. Links /\ HeldPointers /\ AppendPointers
      BY <2>9 DEF ListInv, Safe
    <3>2. \A m \in DOMAIN At : At[m] \in live \cup {NULL}
      BY <1>2, <3>1, WalkStays DEF HeapTypeOK, Links
    <3>3. Links' /\ AppendPointers'
      BY <1>1, <2>7, <3>1 DEF Links, AppendPointers, Deleting
    <3>4. /\ temp'[k] = At[n] /\ after'[k] = next[At[n]]
          /\ before'[k] = IF n = 0 THEN NULL ELSE At[n - 1]
      BY <1>2, <2>3 DEF HeapTypeOK
    <3>5. /\ temp'[k] \in live
          /\ IF before'[k] = NULL
               THEN head = temp'[k]
               ELSE before'[k] \in live /\ next[before'[k]] = temp'[k]
      BY <2>2, <2>4, <3>2, <3>4, WalkStep
    <3>6. HeldPointers'
      BY <1>1, <1>3, <2>7, <3>4, <3>5 DEF HeldPointers, Locked
    <3> QED BY <3>3, <3>6
  <2> QED BY <1>1, <2>6, <2>8, <2>9 DEF ListInv, Safe, Running, Closing
<1> QED BY <1>4, <1>5

\* deleteNode takes its node out.  Nothing in use pointed to it but what has
\* been turned to what followed it, and main's walk is not led to the new node.
LEMMA UnlinkKeeps ==
  ASSUME ListInv, NEW k \in Thread, Unlink(k)
  PROVE  ListInv'
<1>1. /\ UNCHANGED <<pc, newnode, current, cli_count, raced>>
      /\ hpc[k] = "unlink" /\ list_mutex' = 0
      /\ live' = live \ {temp[k]}
      /\ hpc' = [hpc EXCEPT ![k] = "close"]
      /\ temp' = [temp EXCEPT ![k] = NULL]
      /\ before' = [before EXCEPT ![k] = NULL]
      /\ after' = [after EXCEPT ![k] = NULL]
      /\ IF before[k] = NULL
           THEN head' = after[k] /\ next' = next
           ELSE next' = [next EXCEPT ![before[k]] = after[k]] /\ head' = head
  BY DEF Unlink, Bypass, Move, mainVars, history
<1>2. HeapTypeOK /\ Exclusive /\ Numbered
  BY DEF ListInv
<1>3. list_mutex = k /\ \A j \in Thread : j # k => hpc[j] \notin Locked
  BY <1>1, <1>2 DEF Exclusive, Locked
<1>4. \A j \in Thread : hpc'[j] = IF j = k THEN "close" ELSE hpc[j]
  BY <1>1, <1>2 DEF HeapTypeOK
<1>5. HeapTypeOK'
  BY <1>1, <1>2 DEF HeapTypeOK
<1>6. Exclusive' /\ Numbered'
  BY <1>1, <1>2, <1>3, <1>4, PthreadAssumption
     DEF Exclusive, Numbered, Appending, Locked, Thread
<1>7. ASSUME Safe
      PROVE  Links' /\ HeldPointers' /\ AppendPointers'
  <2>1. Links /\ HeldPointers /\ AppendPointers
    BY <1>7 DEF ListInv, Safe
  <2> DEFINE t == temp[k]
             b == before[k]
             f == after[k]
  <2>2. /\ t \in live /\ f \in {next[t], NULL}
        /\ IF b = NULL THEN head = t ELSE b \in live /\ next[b] = t
    BY <1>1, <2>1 DEF HeldPointers
  <2>3. /\ live' = live \ {t} /\ NULL \notin live /\ live \in SUBSET Addr
        /\ IF b = NULL
             THEN head' = f /\ next' = next
             ELSE head' = head /\ next' = [next EXCEPT ![b] = f]
    BY <1>1, <1>2, PthreadAssumption DEF HeapTypeOK
  <2>4. next \in [Addr -> Addr \cup {NULL}]
    BY <1>2 DEF HeapTypeOK
  <2>5. HeldPointers'
    BY <1>1, <1>3, <1>4 DEF HeldPointers, Locked
  <2> HIDE DEF t, b, f
  <2>6. Links'
    <3>1. CASE b = NULL
      BY <2>1, <2>2, <2>3, <3>1 DEF Links
    <3>2. CASE b # NULL
      <4>1. \A a \in live : next'[a] = IF a = b THEN f ELSE next[a]
        BY <2>3, <2>4, <3>2
      <4>2. head \in live' \cup {NULL} /\ head' = head
        BY <2>1, <2>2, <2>3, <3>2 DEF Links
      <4>3. \A a \in live' : next'[a] \in live' \cup {NULL}
        BY <2>1, <2>2, <2>3, <3>2, <4>1 DEF Links
      <4>4. \A a, d \in live' :
              next'[a] = next'[d] /\ next'[a] # NULL => a = d
        BY <2>1, <2>2, <2>3, <3>2, <4>1 DEF Links
      <4>5. head # NULL => \A a \in live' : next'[a] # head
        BY <2>1, <2>2, <2>3, <3>2, <4>1 DEF Links
      <4> QED BY <4>2, <4>3, <4>4, <4>5 DEF Links
    <3> QED BY <3>1, <3>2
  <2>7. AppendPointers'
    <3> SUFFICES ASSUME pc \in {"load", "walk", "link"} PROVE AppendPointers'
      BY <1>1 DEF AppendPointers
    <3>1. PICK graves \in SUBSET (Addr \ live) :
            /\ \A a \in Addr \ graves : next[a] \notin graves \cup {newnode}
            /\ pc # "load" => current \notin graves \cup {newnode}
      BY <2>1 DEF AppendPointers
    <3>2. newnode \in live /\ head # newnode /\ newnode # NULL
      BY <2>1, <2>3 DEF AppendPointers
    <3>3. \A a \in live : next[a] # newnode
      BY <2>3, <3>1
    <3>4. t # newnode
      BY <2>2, <3>2, <3>3
    <3>5. newnode \in live' /\ head' # newnode
      BY <2>2, <2>3, <3>2, <3>3, <3>4
    <3>6. f \notin graves \cup {newnode}
      BY <2>2, <2>3, <3>1, <3>2, PthreadAssumption
    <3>7. \A a \in Addr \ graves : next'[a] \notin graves \cup {newnode}
      BY <2>3, <2>4, <3>1, <3>6
    <3>8. graves \in SUBSET (Addr \ live')
      BY <2>3
    <3>9. pc = "link" /\ current \in live' => next'[current] = NULL
      <4>1. pc = "link" /\ current \in live' => next[current] = NULL
        BY <2>1, <2>3 DEF AppendPointers
      <4>2. b # NULL => next[b] # NULL
        BY <2>2, <2>3
      <4> QED BY <2>3, <2>4, <4>1, <4>2
    <3>10. raced
      BY <1>1, <2>1 DEF AppendPointers, Deleting
    <3> QED BY <1>1, <3>1, <3>5, <3>7, <3>8, <3>9, <3>10 DEF AppendPointers
  <2> QED BY <2>5, <2>6, <2>7
<1> QED BY <1>1, <1>5, <1>6, <1>7 DEF ListInv, Safe, Running, Closing

----------------------------------------------------------------------------
(* The theorems. *)

\* Every step keeps ListInv.
LEMMA ListKept == ListInv /\ [Next]_vars => ListInv'
<1> SUFFICES ASSUME ListInv, [Next]_vars PROVE ListInv'
  OBVIOUS
<1>1. CASE \/ TestFlag \/ Select \/ AcceptFails \/ Accept \/ Refuse \/ Return
           \/ Crash \/ SigInt \/ ClientsAct \/ UNCHANGED vars
  BY <1>1, QuietMain
<1>2. CASE Append1
  BY <1>2, AppendKeeps
<1>3. CASE Load \/ Walk
  BY <1>3, WalkKeeps
<1>4. CASE Link
  BY <1>4, LinkKeeps
<1>5. CASE Create
  BY <1>5, CreateKeeps
<1>6. CASE CloseOne \/ FreeOne
  BY <1>6, ShutdownKeeps
<1>7. ASSUME NEW k \in Thread, HandlerStep(k)
      PROVE  ListInv'
  BY <1>7, QuietHandler, LockKeeps, CastKeeps, FindKeeps, UnlinkKeeps
     DEF HandlerStep
<1> QED BY <1>1, <1>2, <1>3, <1>4, <1>5, <1>6, <1>7 DEF Next, MainStep

\* The list and all pointers into it, whatever main and the threads interleave
\* (pthread_socket/server.c:85-105, 170; singlylinkedlist.c:26-131).
THEOREM ListInvHolds == Spec => []ListInv
<1> QED BY ListInit, ListKept, PTL DEF Spec

\* list_mutex excludes: a thread is in the part it protects exactly if it holds
\* the mutex (server.c:85-95, 103-105).
THEOREM ExclusiveHolds == Spec => []Exclusive
<1>1. ListInv => Exclusive
  BY DEF ListInv
<1> QED BY ListInvHolds, <1>1, PTL

\* Though main appends without the mutex, the list ends and none of its nodes
\* is freed, up to the shutdown (server.c:170).
THEOREM ListSoundHolds == Spec => []ListSound
<1>1. ListInv => ListSound
  BY WalkEnds DEF ListInv, ListSound
<1> QED BY ListInvHolds, <1>1, PTL

\* Up to the shutdown no thread uses a bad pointer, and main only in appendNode
\* and after an append overlapped a deletion (server.c:85-105, 170).
THEOREM CrashCauseHolds == Spec => CrashCause
<1> DEFINE Cause == pc' = "crashed" => \/ Closing
                                       \/ raced /\ pc \in {"walk", "link"}
<1>1. ListInv /\ [Next]_vars => [Cause]_vars
  <2> SUFFICES ASSUME ListInv, Next, pc' = "crashed", ~Closing
               PROVE  raced /\ pc \in {"walk", "link"}
    OBVIOUS
  <2>1. Running /\ Safe
    BY DEF Next, Safe
  <2>2. Links /\ HeldPointers /\ AppendPointers /\ HeapTypeOK
    BY <2>1 DEF ListInv, Safe
  <2>3. Crash
    <3>1. pc # "crashed"
      BY <2>1 DEF Running
    <3> QED BY <3>1
        DEF Next, MainStep, TestFlag, Select, AcceptFails, Accept, Refuse,
            Append1, Load, Walk, Link, Create, CloseOne, FreeOne, Return,
            HandlerStep, Start, Stop, Read, LockToCast, Cast, CastDone,
            LockToDelete, Find, Unlink, CloseFd, mainVars, SigInt, ClientsAct
  <2>4. ASSUME NEW k \in Thread
        PROVE  Touches(k) \subseteq live
    <3>1. CASE hpc[k] = "find"
      <4>1. \A n \in DOMAIN At : At[n] \in live \cup {NULL}
        BY <2>2, WalkStays DEF HeapTypeOK, Links
      <4> HIDE DEF At
      <4> QED BY <3>1, <4>1 DEF Touches
    <3>2. CASE hpc[k] # "find"
      BY <2>2, <3>2 DEF Touches, HeldPointers
    <3> QED BY <3>1, <3>2
  <2>5. ~ (MainTouches \subseteq live)
    BY <2>3, <2>4 DEF Crash
  <2>6. pc \in {"walk", "link"} /\ current \notin live
    BY <2>5 DEF MainTouches, Closing
  <2> QED BY <2>2, <2>6 DEF AppendPointers
<1> QED BY ListInvHolds, <1>1, PTL DEF Spec, CrashCause

----------------------------------------------------------------------------
(* Types. *)

TypeInv == TypeOK /\ Known

\* At the start.
LEMMA TypeInit == Init => TypeInv
<1> SUFFICES ASSUME Init PROVE TypeInv
  OBVIOUS
<1>1. HeapTypeOK
  BY ListInit DEF ListInv
<1>2. SockTypeOK
  BY SockInitType DEF Init
<1>3. TypeOK
  <2>1. \A k \in Thread : recv_buff[k] = << >>
    BY DEF Init
  <2>2. << >> \in Seq(Entry) /\ Len(<< >>) = 0
    OBVIOUS
  <2>3. /\ data \in [Addr -> Fd \cup {Free}]
        /\ sockfd \in [Thread -> Fd \cup {Free, NoFd}]
    BY DEF Init
  <2>4. /\ log \in Seq(Entry) /\ recv_buff \in [Thread -> Seq(Entry)]
        /\ \A k \in Thread : Len(recv_buff[k]) <= 1
    BY <2>1, <2>2 DEF Init
  <2> QED BY <1>1, <1>2, <2>3, <2>4 DEF Init, TypeOK
<1>4. Known
  BY DEF Init, Known
<1> QED BY <1>3, <1>4 DEF TypeInv

\* close keeps the types of the kernel.
LEMMA CloseType ==
  ASSUME SockTypeOK, NEW fd, Close(fd), UNCHANGED <<backlog, rx, sent, got>>
  PROVE  SockTypeOK'
BY DEF Close, Closed, IsOpen, SockTypeOK, PeerState

\* What is usable stays so: main does not return into its loop.
LEMMA UsableStays ==
  ASSUME NEW fd, Usable(fd), ~Safe => ~Safe'
  PROVE  Usable(fd)'
BY DEF Usable, Safe

\* The steps of main that leave nodes and threads alone.
LEMMA MainTypes ==
  ASSUME ListInv, ListInv', TypeInv,
         \/ TestFlag \/ Select \/ AcceptFails \/ Accept \/ Refuse \/ Return
         \/ Crash \/ SigInt \/ ClientsAct \/ UNCHANGED vars
         \/ Load \/ Walk \/ CloseOne \/ FreeOne
  PROVE  TypeInv'
<1> USE DEF TestFlag, Select, AcceptFails, Refuse, Return, Crash, SigInt,
            ClientsAct, vars, mainVars, heapVars, thrVars, history, sockVars,
            Load, Walk, CloseOne, FreeOne
<1>1. /\ UNCHANGED <<head, data, next, sockfd, recv_buff, temp, before, after>>
      /\ UNCHANGED <<hpc, log, due, raced, newnode>>
      /\ late' \in BOOLEAN /\ flag' \in BOOLEAN
      /\ \/ current' \in {current, head}
         \/ current # NULL /\ current' = next[current]
  BY DEF TypeInv, TypeOK, Accept
<1>2. SockTypeOK'
  <2>1. CASE Accept
    <3>1. LowestFreeFd \in Fd
      BY <2>1, LowestFreeFdIsFree DEF Accept, FreeFds, TypeInv, TypeOK
    <3>2. Head(backlog) \in Conn /\ Tail(backlog) \in Seq(Conn)
      <4>1. backlog \in Seq(Conn) /\ backlog # << >>
        BY <2>1 DEF Accept, TypeInv, TypeOK, SockTypeOK, Known
      <4> QED BY <4>1
    <3> QED BY <2>1, <3>1, <3>2 DEF Accept, Opened, TypeInv, TypeOK, SockTypeOK
  <2>2. CASE ClientsAct
    BY <2>2, ClientStepType DEF TypeInv, TypeOK, Known
  <2>3. CASE Refuse
    BY <2>3, CloseType DEF TypeInv, TypeOK, Known
  <2>4. CASE CloseOne
    <3>1. CASE current = NULL
      BY <2>4, <3>1 DEF TypeInv, TypeOK, SockTypeOK, Known
    <3>2. CASE current # NULL
      BY <2>4, <3>2, CloseType DEF TypeInv, TypeOK, Known
    <3> QED BY <3>1, <3>2
  <2>5. CASE ~ (Accept \/ ClientsAct \/ Refuse \/ CloseOne)
    BY <2>5 DEF TypeInv, TypeOK, SockTypeOK, Known
  <2> QED BY <2>1, <2>2, <2>3, <2>4, <2>5
<1>3. ~Safe => ~Safe'
  BY DEF Accept, Safe, Running, Closing
<1>4. connect_FD' \in Fd \cup {Free, NoFd}
      /\ (cli_count' > 0 => Usable(connect_FD)')
  <2>1. CASE Accept
    <3>1. connect_FD' \in Fd
      BY <2>1, LowestFreeFdIsFree DEF Accept, FreeFds, TypeInv, TypeOK
    <3> QED BY <3>1 DEF Usable
  <2>2. CASE AcceptFails
    <3>1. connect_FD' = NoFd /\ Closing'
      BY <2>2 DEF Closing
    <3> QED BY <3>1 DEF Usable
  <2>3. CASE ~ (Accept \/ AcceptFails)
    <3>1. UNCHANGED <<connect_FD, cli_count>>
      BY <2>3
    <3>2. cli_count > 0 => Usable(connect_FD)'
      BY <1>3, <3>1, UsableStays DEF TypeInv, Known, Usable
    <3> QED BY <3>1, <3>2 DEF TypeInv, TypeOK
  <2> QED BY <2>1, <2>2, <2>3
<1>5. \A k \in Thread : hpc'[k] \notin {"none", "start"} => Usable(sockfd[k])'
  BY <1>1, <1>3 DEF TypeInv, Known, Usable, Safe
<1>6. TypeOK'
  BY <1>1, <1>2, <1>4 DEF TypeInv, TypeOK, ListInv, Numbered
<1>7. Known'
  <2>1. current' \in Given \cup {NULL}
    BY <1>1 DEF TypeInv, TypeOK, HeapTypeOK, Known
  <2>2. Given' = Given
    BY <1>1 DEF Given
  <2>3. pc' = "accept" => backlog' # << >>
    <3>1. CASE pc = "accept"
      <4>1. pc' # "accept" \/ UNCHANGED backlog \/ ClientStep
        BY <3>1 DEF Accept
      <4>2. backlog \in Seq(Conn) /\ backlog # << >>
        BY <3>1 DEF TypeInv, TypeOK, SockTypeOK, Known
      <4>3. ASSUME ClientStep PROVE backlog' # << >>
        <5>1. UNCHANGED backlog \/ \E c \in Conn : backlog' = Append(backlog, c)
          BY <4>3 DEF ClientStep, Connect, Hangup, Send
        <5>2. \A c \in Conn : Append(backlog, c) # << >>
          BY <4>2
        <5> QED BY <4>2, <5>1, <5>2
      <4> QED BY <4>1, <4>2, <4>3
    <3>2. CASE pc # "accept"
      BY <3>2 DEF Accept
    <3> QED BY <3>1, <3>2
  <2> QED BY <1>1, <1>4, <1>5, <2>1, <2>2, <2>3 DEF TypeInv, Known
<1> QED BY <1>6, <1>7 DEF TypeInv

\* The steps of main that change the list or make a thread.
LEMMA AppendTypes ==
  ASSUME ListInv, ListInv', TypeInv, Append1 \/ Link \/ Create
  PROVE  TypeInv'
<1>1. /\ UNCHANGED <<connect_FD, cli_count, flag, current>>
      /\ UNCHANGED <<sockfd, recv_buff, temp, before, after, log, due, late>>
      /\ UNCHANGED <<backlog, fdt, peer, rx, sent, got>>
      /\ pc' # "accept" /\ raced' \in BOOLEAN
  BY DEF Append1, Link, Create, thrVars, history, heapVars, sockVars,
         TypeInv, TypeOK
<1>2. SockTypeOK'
  BY <1>1 DEF TypeInv, TypeOK, SockTypeOK
<1>3. cli_count \in Thread /\ connect_FD \in Fd
  BY PthreadAssumption
     DEF Append1, Link, Create, ListInv, Numbered, Appending, TypeInv, Known,
         Thread, Usable, Running, Closing
<1>4. data' \in [Addr -> Fd \cup {Free}] /\ Given \subseteq Given'
  <2>1. CASE Append1
    BY <1>3, <2>1 DEF Append1, Given, TypeInv, TypeOK
  <2>2. CASE Link \/ Create
    BY <2>2 DEF Link, Create, heapVars, Given, TypeInv, TypeOK
  <2> QED BY <2>1, <2>2
<1>5. TypeOK'
  BY <1>1, <1>2, <1>4 DEF TypeInv, TypeOK, ListInv, Numbered
<1>6. /\ \A a \in Addr : next'[a] \in Given' \cup {NULL}
      /\ {head', newnode', current'} \subseteq Given' \cup {NULL}
  <2>1. CASE Append1
    <3>1. PICK a \in Addr : /\ data' = [data EXCEPT ![a] = connect_FD]
                            /\ next' = [next EXCEPT ![a] = NULL]
                            /\ newnode' = a /\ head' \in {head, a}
      BY <2>1 DEF Append1
    <3>2. a \in Given'
      BY <1>1, <1>3, <3>1 DEF Given, TypeInv, TypeOK
    <3> QED BY <1>1, <1>4, <3>1, <3>2 DEF TypeInv, TypeOK, HeapTypeOK, Known
  <2>2. CASE Link
    BY <1>1, <1>4, <2>2 DEF Link, TypeInv, TypeOK, HeapTypeOK, Known
  <2>3. CASE Create
    BY <1>1, <1>4, <2>3 DEF Create, heapVars, TypeInv, TypeOK, HeapTypeOK, Known
  <2> QED BY <2>1, <2>2, <2>3
<1>7. \A k \in Thread : hpc'[k] = hpc[k] \/ hpc'[k] = "start"
  BY DEF Append1, Link, Create, thrVars, TypeInv, TypeOK, HeapTypeOK
<1>8. Safe /\ \A fd : Usable(fd) <=> fd \in Fd
  BY DEF Append1, Link, Create, Usable, Safe, Running, Closing
<1>9. \A fd : fd \in Fd => Usable(fd)'
  BY DEF Usable
<1>10. Known'
  BY <1>1, <1>3, <1>4, <1>6, <1>7, <1>8, <1>9 DEF TypeInv, Known
<1> QED BY <1>5, <1>10 DEF TypeInv

\* A thread reads the descriptor it serves when it starts, and reads from it.
LEMMA ReadTypes ==
  ASSUME ListInv, ListInv', TypeInv, NEW k \in Thread,
         Start(k) \/ Stop(k) \/ Read(k) \/ CastDone(k) \/ CloseFd(k)
  PROVE  TypeInv'
<1>1. /\ UNCHANGED <<pc, flag, cli_count, connect_FD, newnode, current>>
      /\ UNCHANGED <<head, data, next, temp, before, after>>
      /\ UNCHANGED <<log, due, late, raced, backlog, sent, got>>
  BY DEF Start, Stop, Read, CastDone, CloseFd, mainVars, heapVars, history,
         sockVars
<1>2. HeapTypeOK /\ SockTypeOK /\ Known
  BY DEF TypeInv, TypeOK
<1>3. PICK to \in {"loop", "lock", "leave", "gone"} :
        /\ \A j \in Thread : hpc'[j] = IF j = k THEN to ELSE hpc[j]
        /\ to = "lock" => Read(k)
        /\ to = "gone" => CloseFd(k)
  BY <1>2 DEF Start, Stop, Read, CastDone, CloseFd, Move, HeapTypeOK
<1>4. \A fd : Usable(fd) <=> Usable(fd)'
  BY <1>1 DEF Usable, Running, Closing
<1>5. /\ sockfd' \in [Thread -> Fd \cup {Free, NoFd}]
      /\ \A j \in Thread : hpc'[j] \notin {"none", "start"} => Usable(sockfd'[j])
  <2>1. CASE Start(k)
    <3>1. Usable(connect_FD) /\ connect_FD \in Fd \cup {Free, NoFd}
      BY <1>2, <2>1, PthreadAssumption
         DEF Start, ListInv, Numbered, Thread, Known, TypeInv, TypeOK
    <3> QED BY <1>2, <1>3, <2>1, <3>1 DEF Start, TypeInv, TypeOK, Known
  <2>2. CASE ~Start(k)
    <3>1. sockfd' = sockfd /\ hpc[k] \notin {"none", "start"}
      BY <2>2 DEF Stop, Read, CastDone, CloseFd
    <3> QED BY <1>2, <1>3, <3>1 DEF TypeInv, TypeOK, Known
  <2> QED BY <2>1, <2>2
<1>6. /\ SockTypeOK' /\ recv_buff' \in [Thread -> Seq(Entry)]
      /\ \A j \in Thread : /\ Len(recv_buff'[j]) <= 1
                           /\ hpc'[j] \in {"lock", "cast"} => Len(recv_buff'[j]) = 1
  <2>1. CASE Read(k)
    <3> DEFINE c == fdt[sockfd[k]]
               entry == [from |-> c, said |-> ReadChunk(c)]
    <3>1. sockfd[k] \in Fd /\ c \in Conn /\ rx[c] # << >>
      BY <1>2, <2>1 DEF Read, IsOpen, SockTypeOK
    <3>2. ReadChunk(c) \in Chunk /\ Unread(c) \in Seq(Message)
      BY <1>2, <3>1, ReadType
    <3>3. entry \in Entry
      BY <3>1, <3>2 DEF Entry
    <3>4. <<entry>> \in Seq(Entry) /\ Len(<<entry>>) = 1
      <4> HIDE DEF entry
      <4> QED BY <3>3
    <3>5. recv_buff' = [recv_buff EXCEPT ![k] = <<entry>>]
      BY <2>1 DEF Read
    <3>6. \A j \in Thread : recv_buff'[j] = IF j = k THEN <<entry>>
                                                   ELSE recv_buff[j]
      BY <3>5 DEF TypeInv, TypeOK
    <3>7. SockTypeOK'
      BY <1>1, <1>2, <2>1, <3>2 DEF Read, SockTypeOK
    <3> HIDE DEF entry, c
    <3> QED BY <1>2, <1>3, <2>1, <3>4, <3>5, <3>6, <3>7 DEF TypeInv, TypeOK, Known
  <2>2. CASE ~Read(k)
    <3>1. SockTypeOK'
      <4>1. CASE CloseFd(k)
        BY <1>1, <1>2, <4>1, CloseType DEF CloseFd
      <4>2. CASE ~CloseFd(k)
        BY <1>1, <1>2, <2>2, <4>2
           DEF Start, Stop, CastDone, sockVars, SockTypeOK
      <4> QED BY <4>1, <4>2
    <3>2. recv_buff' \in {recv_buff, [recv_buff EXCEPT ![k] = << >>]}
      BY <2>2 DEF Start, Stop, CastDone, CloseFd
    <3>3. \A j \in Thread : \/ recv_buff'[j] = recv_buff[j]
                            \/ j = k /\ recv_buff'[j] = << >>
      BY <3>2 DEF TypeInv, TypeOK
    <3>4. << >> \in Seq(Entry) /\ Len(<< >>) = 0
      OBVIOUS
    <3>5. /\ recv_buff \in [Thread -> Seq(Entry)]
          /\ \A j \in Thread : Len(recv_buff[j]) <= 1
      BY DEF TypeInv, TypeOK
    <3>6. recv_buff' \in [Thread -> Seq(Entry)]
      BY <3>2, <3>4, <3>5
    <3>7. \A j \in Thread : Len(recv_buff'[j]) <= 1
      BY <3>3, <3>4, <3>5
    <3>8. ASSUME NEW j \in Thread, hpc'[j] \in {"lock", "cast"}
          PROVE  Len(recv_buff'[j]) = 1
      BY <1>2, <1>3, <2>2, <3>3, <3>8 DEF Known
    <3> QED BY <3>1, <3>6, <3>7, <3>8
  <2> QED BY <2>1, <2>2
<1>7. TypeOK'
  <2>1. flag' \in BOOLEAN /\ connect_FD' \in Fd \cup {Free, NoFd}
        /\ data' \in [Addr -> Fd \cup {Free}]
        /\ log' \in Seq(Entry) /\ due' \in SUBSET Conn
        /\ late' \in BOOLEAN /\ raced' \in BOOLEAN
    BY <1>1 DEF TypeInv, TypeOK
  <2> QED BY <1>5, <1>6, <2>1 DEF TypeOK, ListInv, Numbered
<1>8. Known'
  <2>1. \A j \in Thread : hpc'[j] \in {"lock", "cast"} => sockfd'[j] \in Fd
    <3>1. CASE Start(k)
      BY <1>2, <1>3, <3>1 DEF Start, Read, Known, TypeInv, TypeOK
    <3>2. CASE ~Start(k)
      <4>1. UNCHANGED sockfd
        BY <3>2 DEF Stop, Read, CastDone, CloseFd
      <4>2. Read(k) => sockfd[k] \in Fd
        BY DEF Read, IsOpen
      <4> QED BY <1>2, <1>3, <4>1, <4>2 DEF Known
    <3> QED BY <3>1, <3>2
  <2>2. cli_count' > 0 => Usable(connect_FD)'
    BY <1>1, <1>2, <1>4 DEF Known
  <2>3. \A j \in Thread : hpc'[j] \notin {"none", "start"} => Usable(sockfd[j])'
    BY <1>4, <1>5
  <2> QED BY <1>1, <1>2, <1>3, <1>5, <1>6, <2>1, <2>2, <2>3 DEF Known, Given
<1> QED BY <1>7, <1>8 DEF TypeInv

\* Under the mutex, a thread goes from node to node of the list.
LEMMA DeleteTypes ==
  ASSUME ListInv, ListInv', TypeInv, NEW k \in Thread,
         LockToDelete(k) \/ Find(k) \/ Unlink(k)
  PROVE  TypeInv'
<1>1. /\ UNCHANGED <<pc, flag, cli_count, connect_FD, newnode, current, data>>
      /\ UNCHANGED <<sockfd, recv_buff, log, due, late>>
      /\ UNCHANGED <<backlog, fdt, peer, rx, sent, got>> /\ raced' \in BOOLEAN
  BY DEF LockToDelete, Find, Unlink, mainVars, heapVars, history, sockVars,
         TypeInv, TypeOK
<1>2. HeapTypeOK /\ SockTypeOK /\ Known
  BY DEF TypeInv, TypeOK
<1>3. /\ hpc[k] \notin {"none", "start"}
      /\ \A j \in Thread : \/ hpc'[j] = hpc[j]
                           \/ j = k /\ hpc'[j] \notin {"lock", "cast"}
  <2>1. /\ hpc[k] \in {"leave", "find", "unlink"}
        /\ \E to \in {"find", "unlink", "close"} : Move(k, to)
    <3>1. CASE LockToDelete(k) BY <3>1 DEF LockToDelete
    <3>2. CASE Unlink(k) BY <3>2 DEF Unlink
    <3>3. CASE Find(k)
      <4>1. hpc[k] = "find" BY <3>3 DEF Find
      <4>2. CASE Places(sockfd[k]) = {}
        <5>1. Move(k, "close") BY <3>3, <4>2 DEF Find
        <5> QED BY <4>1, <5>1
      <4>3. CASE Places(sockfd[k]) # {}
        <5>1. Move(k, "unlink") BY <3>3, <4>3 DEF Find
        <5> QED BY <4>1, <5>1
      <4> QED BY <4>2, <4>3
    <3> QED BY <3>1, <3>2, <3>3
  <2>2. DOMAIN hpc = Thread
    BY <1>2 DEF HeapTypeOK
  <2>3. hpc[k] \notin {"none", "start"}
    BY <2>1
  <2>4. PICK to \in {"find", "unlink", "close"} : hpc' = [hpc EXCEPT ![k] = to]
    BY <2>1 DEF Move
  <2>5. ASSUME NEW j \in Thread
        PROVE  \/ hpc'[j] = hpc[j]
               \/ j = k /\ hpc'[j] \notin {"lock", "cast"}
    BY <2>2, <2>4
  <2> QED BY <2>3, <2>5
<1>4. SockTypeOK'
  BY <1>1, <1>2 DEF SockTypeOK
<1>5. TypeOK'
  BY <1>1, <1>4 DEF TypeInv, TypeOK, ListInv, Numbered
<1>6. /\ \A a \in Addr : next'[a] \in Given \cup {NULL}
      /\ head' \in Given \cup {NULL}
      /\ \A j \in Thread :
           {temp'[j], before'[j], after'[j]} \subseteq Given \cup {NULL}
  <2>1. CASE LockToDelete(k)
    BY <1>2, <2>1 DEF LockToDelete, heapVars, Known
  <2>2. CASE Find(k)
    <3>1. /\ Given \in SUBSET Addr /\ head \in Given \cup {NULL}
          /\ \A a \in Given : next[a] \in Given \cup {NULL}
      BY <1>2 DEF Known, Given
    <3>2. \A n \in DOMAIN At : At[n] \in Given \cup {NULL}
      <4> HIDE DEF Given, At
      <4> QED BY <3>1, WalkStays
    <3>3. UNCHANGED <<head, next>>
      BY <2>2 DEF Find, heapVars
    <3>4. CASE Places(sockfd[k]) = {}
      BY <1>2, <2>2, <3>3, <3>4 DEF Find, Known
    <3>5. CASE Places(sockfd[k]) # {}
      <4> DEFINE n == First(Places(sockfd[k]))
      <4>1. n \in Places(sockfd[k])
        <5>1. Places(sockfd[k]) \in SUBSET Nat
          BY WalkStep DEF Places
        <5> QED BY <3>5, <5>1, LeastExists DEF First
      <4>2. n \in DOMAIN At /\ At[n] # NULL /\ (n # 0 => n - 1 \in DOMAIN At)
        BY <4>1, WalkStep DEF Places
      <4>3. /\ temp' = [temp EXCEPT ![k] = At[n]]
            /\ before' = [before EXCEPT ![k] = IF n = 0 THEN NULL ELSE At[n - 1]]
            /\ after' = [after EXCEPT ![k] = next[At[n]]]
        BY <2>2, <3>5 DEF Find
      <4> HIDE DEF n, Given, At
      <4>4. next[At[n]] \in Given \cup {NULL}
        BY <3>1, <3>2, <4>2
      <4> QED BY <1>2, <3>2, <3>3, <4>2, <4>3, <4>4 DEF Known, HeapTypeOK
    <3> QED BY <3>4, <3>5
  <2>3. CASE Unlink(k)
    <3>1. /\ temp' = [temp EXCEPT ![k] = NULL]
          /\ before' = [before EXCEPT ![k] = NULL]
          /\ after' = [after EXCEPT ![k] = NULL]
          /\ head' \in {head, after[k]}
          /\ next' \in {next, [next EXCEPT ![before[k]] = after[k]]}
      BY <2>3 DEF Unlink, Bypass
    <3> HIDE DEF Given
    <3> QED BY <1>2, <3>1 DEF Known, HeapTypeOK
  <2> QED BY <2>1, <2>2, <2>3
<1>7. Known'
  <2>1. Given' = Given
    BY <1>1 DEF Given
  <2>2. \A fd : Usable(fd) => Usable(fd)'
    BY <1>1 DEF Usable, Running, Closing
  <2> QED BY <1>1, <1>2, <1>3, <1>6, <2>1, <2>2 DEF Known
<1> QED BY <1>5, <1>7 DEF TypeInv

\* A broadcast: whom it reaches is connected, and hears an entry.
LEMMA CastTypes ==
  ASSUME ListInv, ListInv', TypeInv, NEW k \in Thread, LockToCast(k) \/ Cast(k)
  PROVE  TypeInv'
<1>1. /\ UNCHANGED <<flag, cli_count, connect_FD, newnode, current>>
      /\ UNCHANGED <<head, data, next, before, after>>
      /\ UNCHANGED <<sockfd, recv_buff, late, raced, backlog, fdt, rx, sent>>
  BY DEF LockToCast, Cast, mainVars, heapVars, history, sockVars
<1>2. HeapTypeOK /\ SockTypeOK /\ Known
  BY DEF TypeInv, TypeOK
<1>3. /\ hpc[k] \in {"lock", "cast"}
      /\ \A j \in Thread : hpc'[j] = hpc[j] \/ j = k
      /\ pc' = pc \/ pc' = "killed"
  BY <1>2 DEF LockToCast, Cast, mainVars, Move, HeapTypeOK
<1>4. /\ recv_buff[k] \in Seq(Entry) /\ Len(recv_buff[k]) = 1
      /\ recv_buff[k][1] \in Entry
  <2>1. recv_buff[k] \in Seq(Entry) /\ Len(recv_buff[k]) = 1
    BY <1>2, <1>3 DEF TypeInv, TypeOK, Known
  <2> QED BY <2>1, ElementOfSeq
<1>5. SockTypeOK'
  <2>1. got' \in [Conn -> Seq(Entry)] /\ peer' \in [Conn -> PeerState]
    <3>1. CASE UNCHANGED <<got, peer>>
      BY <1>2, <3>1 DEF SockTypeOK
    <3>2. CASE \E to : got' = Delivered(to, recv_buff[k][1]) /\ peer' \in Answers(to)
      BY <1>2, <1>4, <3>2, DeliveredType, AnswersType
    <3> QED BY <3>1, <3>2 DEF LockToCast, Cast, sockVars
  <2> QED BY <1>1, <1>2, <2>1 DEF SockTypeOK
<1>6. log' \in Seq(Entry) /\ due' \in SUBSET Conn
  <2>1. CASE LockToCast(k)
    <3>1. log' = log \o recv_buff[k]
      BY <2>1 DEF LockToCast
    <3>2. log \in Seq(Entry)
      BY DEF TypeInv, TypeOK
    <3>3. log' \in Seq(Entry)
      BY <1>4, <3>1, <3>2
    <3>4. Nodes \subseteq Given
      <4>1. /\ Given \in SUBSET Addr /\ head \in Given \cup {NULL}
            /\ \A a \in Given : next[a] \in Given \cup {NULL}
        BY <1>2 DEF Known, Given
      <4> HIDE DEF Given, At
      <4> QED BY <4>1, WalkStays DEF Nodes
    <3>5. \A a \in Given : fdt[data[a]] \in Conn \cup {Free}
      BY <1>2 DEF Given, SockTypeOK
    <3>6. due' = {fdt[data[a]] : a \in Nodes} \ {Free, fdt[sockfd[k]]}
      BY <2>1 DEF LockToCast
    <3> HIDE DEF Nodes, Given
    <3> QED BY <3>3, <3>4, <3>5, <3>6
  <2>2. CASE Cast(k)
    BY <2>2 DEF Cast, history, TypeInv, TypeOK
  <2> QED BY <2>1, <2>2
<1>7. TypeOK'
  BY <1>1, <1>5, <1>6 DEF TypeInv, TypeOK, ListInv, Numbered
<1>8. Known'
  <2>1. \A j \in Thread : temp'[j] \in Given \cup {NULL}
    <3>1. temp' \in {temp, [temp EXCEPT ![k] = head],
                    [temp EXCEPT ![k] = next[temp[k]]]}
      BY DEF LockToCast, CastFrom, Cast
    <3>2. temp[k] # NULL => next[temp[k]] \in Given \cup {NULL}
      BY <1>2 DEF Known, HeapTypeOK
    <3>3. temp[k] = NULL => temp' \in {temp, [temp EXCEPT ![k] = head]}
      BY DEF LockToCast, CastFrom, Cast
    <3> HIDE DEF Given
    <3> QED BY <1>2, <3>1, <3>2, <3>3 DEF Known, HeapTypeOK
  <2>2. Given' = Given
    BY <1>1 DEF Given
  <2>3. \A fd : Usable(fd) => Usable(fd)'
    BY <1>3, UsableStays DEF Safe, Running, Closing
  <2> QED BY <1>1, <1>2, <1>3, <1>4, <2>1, <2>2, <2>3 DEF Known
<1> QED BY <1>7, <1>8 DEF TypeInv

\* Every step keeps TypeInv.
LEMMA TypeKept == ListInv /\ ListInv' /\ TypeInv /\ [Next]_vars => TypeInv'
<1> SUFFICES ASSUME ListInv, ListInv', TypeInv, [Next]_vars PROVE TypeInv'
  OBVIOUS
<1>1. ASSUME NEW k \in Thread, HandlerStep(k)
      PROVE  TypeInv'
  BY <1>1, ReadTypes, DeleteTypes, CastTypes DEF HandlerStep
<1> QED BY <1>1, MainTypes, AppendTypes DEF Next, MainStep

\* Every variable of the pthread server keeps its type, and every pointer leads
\* to memory malloc has given.
THEOREM TypeCorrect == Spec => []TypeOK
<1>1. TypeInv => TypeOK
  BY DEF TypeInv
<1> QED BY ListInvHolds, TypeInit, TypeKept, <1>1, PTL DEF Spec

----------------------------------------------------------------------------
(* From accept to close: who has which descriptor. *)

\* What Inv says of the descriptors, while no connection overtook a thread.
Own ==
  /\ \A k \in Owners : sockfd[k] \in Fd /\ fdt[sockfd[k]] # Free
  /\ \A j, k \in Owners : sockfd[j] = sockfd[k] => j = k
  /\ Handover

\* The server is up and no connection overtook a thread.
Punctual == ~late /\ Safe

\* What is punctual now has been so before.
LEMMA PunctualBefore == [Next]_vars /\ Punctual' => Punctual
<1> SUFFICES ASSUME [Next]_vars, Punctual' PROVE Punctual
  OBVIOUS
<1>1. ASSUME NEW k \in Thread, HandlerStep(k)
      PROVE  Punctual
  BY <1>1 DEF HandlerStep, Start, Stop, Read, LockToCast, Cast, CastDone,
     LockToDelete, Find, Unlink, CloseFd, mainVars, history, Punctual, Safe,
     Running, Closing
<1>2. ASSUME MainStep PROVE Punctual
  <2>1. CASE Accept
    <3>1. pc = "accept" /\ (late => late')
      BY <2>1, Zenon DEF Accept
    <3> QED BY <3>1 DEF Punctual, Safe, Running, Closing
  <2>2. CASE CloseOne \/ FreeOne \/ Return
    BY <2>2 DEF CloseOne, FreeOne, Return, Punctual, Safe, Running, Closing
  <2>3. CASE TestFlag \/ Select \/ AcceptFails \/ Refuse
    BY <2>3 DEF TestFlag, Select, AcceptFails, Refuse, history, Punctual, Safe,
       Running, Closing
  <2>4. CASE Append1 \/ Load \/ Walk \/ Link \/ Create
    BY <2>4 DEF Append1, Load, Walk, Link, Create, history, Punctual, Safe,
       Running, Closing
  <2> QED BY <1>2, <2>1, <2>2, <2>3, <2>4 DEF MainStep
<1>3. ASSUME Crash \/ SigInt \/ ClientsAct \/ UNCHANGED vars PROVE Punctual
  BY <1>3 DEF Crash, SigInt, ClientsAct, vars, mainVars, history, Punctual,
     Safe, Running, Closing
<1> QED BY <1>1, <1>2, <1>3 DEF Next

\* close(2) takes a descriptor away from nobody else.
LEMMA CloseCloses ==
  ASSUME SockTypeOK, NEW fd, Close(fd)
  PROVE  /\ \A other \in Fd : other # fd => fdt'[other] = fdt[other]
         /\ \A other \in Fd : fdt'[other] \in {fdt[other], Free}
         /\ \A c \in Conn : \/ peer'[c] = peer[c]
                            \/ peer'[c] = "done" /\ fd \in Fd /\ fdt[fd] = c
BY SocketAssumption DEF Close, Closed, IsOpen, SockTypeOK

\* The kernel's part of the steps of the server.
LEMMA MatchedKeeps == TypeInv /\ Matched /\ [Next]_vars => Matched'
<1> SUFFICES ASSUME TypeInv, Matched, [Next]_vars PROVE Matched'
  OBVIOUS
<1>1. SockTypeOK
  BY DEF TypeInv, TypeOK
<1>2. CASE Accept
  <2>1. backlog # << >>
    BY <1>2 DEF Accept, TypeInv, Known
  <2>2. /\ FreeFds # {} /\ fdt' = Opened(LowestFreeFd, Head(backlog))
        /\ backlog' = Tail(backlog) /\ peer' = peer
    BY <1>2 DEF Accept
  <2> QED BY <1>1, <2>1, <2>2, MatchedAccepted
<1>3. ASSUME NEW fd, Close(fd), UNCHANGED backlog
      PROVE  Matched'
  <2>1. \A c \in Conn : peer[c] # "new" => peer'[c] # "new"
    BY <1>1, <1>3, CloseCloses
  <2>2. \A other \in Fd : fdt'[other] \in {fdt[other], Free}
    BY <1>1, <1>3, CloseCloses
  <2> QED BY <1>1, <1>3, <2>1, <2>2, MatchedKept
<1>4. ASSUME UNCHANGED <<backlog, fdt>>,
             \A c \in Conn : peer[c] # "new" => peer'[c] # "new"
      PROVE  Matched'
  BY <1>1, <1>4, MatchedKept
<1>5. ASSUME NEW k \in Thread, Cast(k)
      PROVE  Matched'
  <2>1. UNCHANGED <<backlog, fdt>>
    BY <1>5 DEF Cast
  <2>2. peer' = peer \/ \E to : peer' \in Answers(to)
    BY <1>5 DEF Cast
  <2>3. \A c \in Conn : peer[c] # "new" => peer'[c] # "new"
    <3>1. CASE peer' = peer
      BY <3>1
    <3>2. CASE peer' # peer
      <4>1. PICK to : peer' \in Answers(to)
        BY <2>2, <3>2
      <4> QED BY <1>1, <4>1, AnswersType
    <3> QED BY <3>1, <3>2
  <2> QED BY <1>4, <2>1, <2>3
<1>6. ASSUME NEW k \in Thread, HandlerStep(k), ~ Cast(k)
      PROVE  Matched'
  <2>1. CASE CloseFd(k)
    BY <1>3, <2>1 DEF CloseFd
  <2>2. CASE ~ CloseFd(k)
    <3>1. UNCHANGED <<backlog, fdt, peer>>
      BY <1>6, <2>2 DEF HandlerStep, Start, Stop, Read, LockToCast, CastDone,
         LockToDelete, Find, Unlink, sockVars
    <3> QED BY <1>4, <3>1
  <2> QED BY <2>1, <2>2
<1>7. ASSUME MainStep, ~Accept
      PROVE  Matched'
  <2>1. CASE Refuse
    BY <1>3, <2>1 DEF Refuse
  <2>2. CASE CloseOne
    <3>1. CASE current = NULL
      BY <1>4, <2>2, <3>1 DEF CloseOne
    <3>2. CASE current # NULL
      BY <1>3, <2>2, <3>2 DEF CloseOne
    <3> QED BY <3>1, <3>2
  <2>3. CASE ~ (Refuse \/ CloseOne)
    <3>1. UNCHANGED <<backlog, fdt, peer>>
      BY <1>7, <2>3 DEF MainStep, TestFlag, Select, AcceptFails, Append1, Load,
         Walk, Link, Create, FreeOne, Return, sockVars
    <3> QED BY <1>4, <3>1
  <2> QED BY <2>1, <2>2, <2>3
<1>8. ASSUME Crash \/ SigInt \/ UNCHANGED vars
      PROVE  Matched'
  <2>1. UNCHANGED <<backlog, fdt, peer>>
    BY <1>8 DEF Crash, SigInt, vars, sockVars
  <2> QED BY <1>4, <2>1
<1>9. ASSUME ClientsAct PROVE Matched'
  BY <1>1, <1>9, MatchedClients DEF ClientsAct
<1> QED BY <1>2, <1>5, <1>6, <1>7, <1>8, <1>9 DEF Next

----------------------------------------------------------------------------
(* Own is kept, action by action. *)

\* The steps in which no descriptor is opened, closed or handed over.
LEMMA OwnQuiet ==
  ASSUME TypeInv, Own, UNCHANGED <<fdt, sockfd, connect_FD>>,
         Owners' = Owners,
         \A k \in Thread : hpc'[k] = "start" <=> hpc[k] = "start",
         InHand' => InHand
  PROVE  Own'
BY DEF Own, Handover

\* The steps of main that give and take no descriptor.
LEMMA OwnMain ==
  ASSUME TypeInv, Own, Punctual', MainStep, ~ (Accept \/ Refuse \/ Create)
  PROVE  Own'
<1>1. /\ UNCHANGED <<fdt, sockfd, connect_FD, hpc>>
      /\ InHand' => InHand
  BY DEF MainStep, TestFlag, Select, AcceptFails, Append1, Load, Walk, Link,
     CloseOne, FreeOne, Return, thrVars, sockVars, InHand, Appending, Punctual,
     Safe, Closing, Running
<1> QED BY <1>1, OwnQuiet DEF Owners

\* Punctual: when main accepts, no thread is about to read connect_FD.
LEMMA OwnAccept ==
  ASSUME TypeInv, Own, Punctual', Accept
  PROVE  Own'
<1>1. LowestFreeFd \in Fd /\ fdt[LowestFreeFd] = Free
  BY LowestFreeFdIsFree DEF Accept, FreeFds, TypeInv, TypeOK
<1>2. /\ connect_FD' = LowestFreeFd
      /\ UNCHANGED <<hpc, sockfd>>
  BY DEF Accept, thrVars
<1>3. Head(backlog) \in Conn
  BY BacklogHead DEF Accept, TypeInv, TypeOK, Known
<1>4. fdt' = [fdt EXCEPT ![LowestFreeFd] = Head(backlog)]
  BY DEF Accept, Opened
<1>5. \A fd \in Fd : fdt'[fd] = IF fd = LowestFreeFd THEN Head(backlog)
                                                    ELSE fdt[fd]
  BY <1>4 DEF TypeInv, TypeOK, SockTypeOK
<1>6. \A k \in Thread : hpc[k] # "start"
  <2>1. ~late' /\ late' = (late \/ \E k \in Thread : hpc[k] = "start")
    BY DEF Accept, Punctual
  <2> QED BY <2>1, Zenon
<1>7. \A k \in Owners : sockfd[k] \in Fd /\ fdt[sockfd[k]] # Free
  BY DEF Own, Owners, TypeInv, Known
<1>8. Owners' = Owners
  BY <1>2 DEF Owners
<1> QED BY <1>1, <1>2, <1>3, <1>5, <1>6, <1>7, <1>8, SocketAssumption
        DEF Own, Handover

\* main closes the connection that is one too many.
LEMMA OwnRefuse ==
  ASSUME TypeInv, Own, Refuse
  PROVE  Own'
<1>1. UNCHANGED <<hpc, sockfd, connect_FD>> /\ pc = "refuse" /\ pc' = "test"
  BY DEF Refuse, thrVars
<1>2. \A fd \in Fd : fd # connect_FD => fdt'[fd] = fdt[fd]
  BY CloseCloses DEF Refuse, TypeInv, TypeOK
<1>3. \A k \in Owners : sockfd[k] \in Fd
  BY DEF Own
<1>4. /\ Owners' = Owners /\ ~InHand'
      /\ InHand /\ \A k \in Thread : hpc[k] # "start"
  BY <1>1 DEF Owners, InHand, Appending, Own, Handover
<1> QED BY <1>1, <1>2, <1>3, <1>4 DEF Own, Handover

\* main hands its descriptor over to a new thread.
LEMMA OwnCreate ==
  ASSUME ListInv, TypeInv, Own, Create
  PROVE  Own'
<1>1. /\ pc = "create" /\ pc' = "test"
      /\ UNCHANGED <<fdt, sockfd, connect_FD>>
      /\ hpc' = [hpc EXCEPT ![cli_count] = "start"]
  BY DEF Create, sockVars
<1>2. cli_count \in Thread /\ hpc[cli_count] = "none"
  BY <1>1 DEF ListInv, Numbered
<1>3. \A k \in Thread : hpc'[k] = IF k = cli_count THEN "start" ELSE hpc[k]
  BY <1>1 DEF TypeInv, TypeOK, HeapTypeOK
<1>4. /\ Owners' = Owners /\ InHand /\ ~InHand'
      /\ \A k \in Thread : hpc[k] # "start"
  BY <1>1, <1>2, <1>3 DEF Owners, InHand, Appending, Own, Handover
<1> QED BY <1>1, <1>3, <1>4 DEF Own, Handover

\* A thread starts, with the descriptor that was on its way to it.
LEMMA OwnStart ==
  ASSUME TypeInv, Own, NEW k \in Thread, Start(k)
  PROVE  Own'
<1>1. /\ hpc[k] = "start" /\ UNCHANGED <<pc, fdt, connect_FD>>
      /\ sockfd' = [sockfd EXCEPT ![k] = connect_FD]
      /\ hpc' = [hpc EXCEPT ![k] = "loop"]
  BY DEF Start, Move, mainVars, sockVars
<1>2. /\ \A j \in Thread : hpc'[j] = IF j = k THEN "loop" ELSE hpc[j]
      /\ \A j \in Thread : sockfd'[j] = IF j = k THEN connect_FD ELSE sockfd[j]
  BY <1>1 DEF TypeInv, TypeOK, HeapTypeOK
<1>3. Owners' = Owners \cup {k} /\ k \notin Owners
  BY <1>1, <1>2 DEF Owners
<1>4. /\ \A j \in Thread : hpc'[j] # "start"
      /\ ~InHand /\ ~InHand'
  BY <1>1, <1>2 DEF Own, Handover, InHand, Appending
<1>5. /\ fdt[connect_FD] # Free /\ connect_FD \in Fd
      /\ \A j \in Owners : sockfd[j] # connect_FD
  BY <1>1 DEF Own, Handover
<1> QED BY <1>1, <1>2, <1>3, <1>4, <1>5 DEF Own, Handover

\* A thread closes its client's descriptor, and no other.
LEMMA OwnClose ==
  ASSUME TypeInv, Own, NEW k \in Thread, CloseFd(k)
  PROVE  Own'
<1>1. /\ hpc[k] = "close" /\ UNCHANGED <<pc, sockfd, connect_FD>>
      /\ hpc' = [hpc EXCEPT ![k] = "gone"]
  BY DEF CloseFd, Move, mainVars
<1>2. \A j \in Thread : hpc'[j] = IF j = k THEN "gone" ELSE hpc[j]
  BY <1>1 DEF TypeInv, TypeOK, HeapTypeOK
<1>3. Owners' = Owners \ {k} /\ k \in Owners
  BY <1>1, <1>2 DEF Owners
<1>4. \A fd \in Fd : fd # sockfd[k] => fdt'[fd] = fdt[fd]
  BY CloseCloses DEF CloseFd, TypeInv, TypeOK
<1>5. \A j \in Owners : sockfd[j] \in Fd
  BY DEF Own
<1>6. InHand' = InHand /\ \A j \in Thread : hpc'[j] = "start" <=> hpc[j] = "start"
  BY <1>1, <1>2 DEF InHand, Appending
<1>7. /\ \A j \in Owners' : sockfd'[j] \in Fd /\ fdt'[sockfd'[j]] # Free
      /\ \A i, j \in Owners' : sockfd'[i] = sockfd'[j] => i = j
  BY <1>1, <1>3, <1>4, <1>5 DEF Own
<1>8. Handover'
  BY <1>1, <1>3, <1>4, <1>5, <1>6 DEF Own, Handover
<1> QED BY <1>7, <1>8 DEF Own

\* Where a thread goes.
LEMMA HandlerMoves ==
  ASSUME TypeInv, NEW k \in Thread, HandlerStep(k)
  PROVE  \/ Start(k) \/ CloseFd(k)
         \/ /\ UNCHANGED <<connect_FD, fdt, sockfd>>
            /\ hpc[k] \notin {"none", "start", "gone"}
            /\ hpc'[k] \notin {"none", "start", "gone"}
            /\ \A j \in Thread : j # k => hpc'[j] = hpc[j]
            /\ pc' = pc \/ pc' = "killed"
<1> SUFFICES ASSUME ~ (Start(k) \/ CloseFd(k))
             PROVE  /\ UNCHANGED <<connect_FD, fdt, sockfd>>
                    /\ hpc[k] \notin {"none", "start", "gone"}
                    /\ hpc'[k] \notin {"none", "start", "gone"}
                    /\ \A j \in Thread : j # k => hpc'[j] = hpc[j]
                    /\ pc' = pc \/ pc' = "killed"
  OBVIOUS
<1>1. hpc \in [Thread -> {"none", "start", "loop", "lock", "cast", "leave",
                           "find", "unlink", "close", "gone"}]
  BY DEF TypeInv, TypeOK, HeapTypeOK
<1>2. CASE Stop(k) \/ Read(k) \/ LockToCast(k) \/ LockToDelete(k) \/ Unlink(k)
  BY <1>1, <1>2 DEF Stop, Read, LockToCast, LockToDelete, Unlink, Move,
     mainVars, sockVars
<1>3. CASE Cast(k)
  BY <1>1, <1>3 DEF Cast
<1>4. CASE CastDone(k)
  <2>1. hpc[k] = "cast" /\ (Move(k, "leave") \/ Move(k, "loop"))
    BY <1>4 DEF CastDone
  <2> QED BY <1>1, <1>4, <2>1 DEF CastDone, Move, mainVars, sockVars
<1>5. CASE Find(k)
  <2>1. /\ hpc[k] = "find" /\ UNCHANGED <<pc, connect_FD, fdt, sockfd>>
        /\ Move(k, "close") \/ Move(k, "unlink")
    BY <1>5, Zenon DEF Find, mainVars, sockVars
  <2> QED BY <1>1, <2>1 DEF Move
<1> QED BY <1>2, <1>3, <1>4, <1>5 DEF HandlerStep

\* Every step keeps Own, as long as it is punctual.
LEMMA OwnKeeps ==
  ASSUME ListInv, TypeInv, Own, Punctual', [Next]_vars
  PROVE  Own'
<1>1. ASSUME NEW k \in Thread, HandlerStep(k)
      PROVE  Own'
  <2>1. CASE Start(k) \/ CloseFd(k)
    BY <2>1, OwnStart, OwnClose
  <2>2. CASE ~ (Start(k) \/ CloseFd(k))
    <3>1. /\ UNCHANGED <<connect_FD, fdt, sockfd>>
          /\ hpc[k] \notin {"none", "start", "gone"}
          /\ hpc'[k] \notin {"none", "start", "gone"}
          /\ \A j \in Thread : j # k => hpc'[j] = hpc[j]
          /\ pc' = pc \/ pc' = "killed"
      BY <1>1, <2>2, HandlerMoves
    <3>2. Owners' = Owners /\ (InHand' => InHand)
          /\ \A j \in Thread : hpc'[j] = "start" <=> hpc[j] = "start"
      BY <3>1 DEF Owners, InHand, Appending
    <3> QED BY <3>1, <3>2, OwnQuiet
  <2> QED BY <2>1, <2>2
<1>2. CASE MainStep
  BY <1>2, OwnMain, OwnAccept, OwnRefuse, OwnCreate
<1>3. CASE Crash \/ SigInt \/ ClientsAct \/ UNCHANGED vars
  <2>1. UNCHANGED <<fdt, sockfd, connect_FD, hpc>> /\ (InHand' => InHand)
    <3>1. CASE ClientsAct
      BY <3>1, ClientsKeep DEF ClientsAct, mainVars, thrVars, InHand, Appending,
         TypeInv, TypeOK
    <3>2. CASE ~ClientsAct
      BY <1>3, <3>2 DEF Crash, SigInt, vars, mainVars, thrVars, sockVars,
         InHand, Appending
    <3> QED BY <3>1, <3>2
  <2> QED BY <2>1, OwnQuiet DEF Owners
<1> QED BY <1>1, <1>2, <1>3 DEF Next

----------------------------------------------------------------------------
(* Why a thread leaves. *)

\* What Reasons says of one thread.
Reason(k) ==
  LET c == fdt[sockfd[k]]
  IN /\ hpc[k] \in {"lock", "cast"} => recv_buff[k][1].from = c
     /\ hpc[k] \in {"leave", "find", "unlink", "close"} =>
          \/ peer[c] \in {"fin", "rst"}
          \/ recv_buff[k] = <<[from |-> c, said |-> <<"exit">>]>>

\* A reason stays one while the thread stays where it is and its connection is
\* not closed by somebody else.
LEMMA ReasonStays ==
  ASSUME NEW k \in Thread, Reason(k), hpc'[k] = hpc[k], sockfd'[k] = sockfd[k],
         recv_buff'[k] = recv_buff[k], fdt'[sockfd[k]] = fdt[sockfd[k]],
         LET c == fdt[sockfd[k]]
         IN  peer[c] \in {"fin", "rst"} => peer'[c] \in {"fin", "rst"}
  PROVE  Reason(k)'
<1> DEFINE c == fdt[sockfd[k]]
<1>1. fdt'[sockfd'[k]] = c
  OBVIOUS
<1>2. \/ peer[c] \in {"fin", "rst"} => peer'[c] \in {"fin", "rst"}
  OBVIOUS
<1> HIDE DEF c
<1> QED BY <1>1, <1>2 DEF Reason, c

\* Closing one descriptor leaves alone the connection behind another.
LEMMA CloseSpares ==
  ASSUME TypeInv, Matched, Own, NEW k \in Owners, NEW fd \in Fd, Close(fd),
         fd # sockfd[k]
  PROVE  /\ fdt'[sockfd[k]] = fdt[sockfd[k]]
         /\ peer'[fdt[sockfd[k]]] = peer[fdt[sockfd[k]]]
<1>1. sockfd[k] \in Fd /\ fdt[sockfd[k]] \in Conn
  BY DEF Own, Owners, TypeInv, TypeOK, SockTypeOK, Known
<1>2. SockTypeOK
  BY DEF TypeInv, TypeOK
<1>3. fdt[fd] # fdt[sockfd[k]]
  BY <1>1, SocketAssumption DEF Matched
<1> QED BY <1>1, <1>2, <1>3, CloseCloses

\* The steps of main.
LEMMA ReasonsMain ==
  ASSUME ListInv, TypeInv, Matched, Own, Reasons, Punctual', MainStep
  PROVE  Reasons'
<1>1. UNCHANGED <<sockfd, recv_buff>>
  BY DEF MainStep, TestFlag, Select, AcceptFails, Accept, Refuse, Append1,
     Load, Walk, Link, Create, CloseOne, FreeOne, Return, thrVars
<1>2. \A k \in Thread : hpc'[k] = hpc[k] \/ hpc'[k] = "start"
  <2>1. CASE Create
    BY <2>1 DEF Create, TypeInv, TypeOK, HeapTypeOK
  <2>2. CASE ~Create
    BY <2>2 DEF MainStep, TestFlag, Select, AcceptFails, Accept, Refuse,
       Append1, Load, Walk, Link, CloseOne, FreeOne, Return, thrVars
  <2> QED BY <2>1, <2>2
<1>3. ASSUME NEW k \in Owners, hpc'[k] = hpc[k]
      PROVE  /\ fdt'[sockfd[k]] = fdt[sockfd[k]]
             /\ peer'[fdt[sockfd[k]]] = peer[fdt[sockfd[k]]]
  <2>1. sockfd[k] \in Fd /\ fdt[sockfd[k]] # Free
    BY DEF Own, Owners, TypeInv, Known
  <2>2. CASE Accept
    <3>1. LowestFreeFd \in Fd /\ fdt[LowestFreeFd] = Free
      BY <2>2, LowestFreeFdIsFree DEF Accept, FreeFds, TypeInv, TypeOK
    <3>2. peer' = peer /\ fdt' = [fdt EXCEPT ![LowestFreeFd] = Head(backlog)]
      BY <2>2 DEF Accept, Opened
    <3> QED BY <2>1, <3>1, <3>2 DEF TypeInv, TypeOK, SockTypeOK
  <2>3. CASE Refuse
    <3>1. connect_FD \in Fd /\ connect_FD # sockfd[k] /\ Close(connect_FD)
      BY <2>3 DEF Refuse, Own, Handover, InHand
    <3> QED BY <3>1, CloseSpares
  <2>4. CASE ~ (Accept \/ Refuse)
    <3>1. pc' # "closing" /\ pc' # "freeing" /\ pc' # "exited" /\ pc' # "return"
      BY DEF Punctual, Safe, Running, Closing
    <3> QED BY <2>4, <3>1 DEF MainStep, TestFlag, Select, AcceptFails, Append1,
        Load, Walk, Link, Create, CloseOne, FreeOne, Return, sockVars
  <2> QED BY <2>2, <2>3, <2>4
<1>4. ASSUME NEW k \in Owners'
      PROVE  Reason(k)'
  <2>1. k \in Owners /\ hpc'[k] = hpc[k] /\ k \in Thread
    BY <1>2 DEF Owners
  <2>2. Reason(k)
    BY <2>1 DEF Reasons, Reason
  <2>3. /\ fdt'[sockfd[k]] = fdt[sockfd[k]]
        /\ peer'[fdt[sockfd[k]]] = peer[fdt[sockfd[k]]]
    BY <1>3, <2>1
  <2> QED BY <1>1, <2>1, <2>2, <2>3, ReasonStays
<1> QED BY <1>4 DEF Reasons, Reason

\* The step of the thread itself.
LEMMA ReasonOfMover ==
  ASSUME TypeInv, Own, Reasons, ~flag, NEW k \in Thread, HandlerStep(k),
         k \in Owners', ~ Cast(k)
  PROVE  Reason(k)'
<1> DEFINE c == fdt[sockfd[k]]
<1>0. DOMAIN hpc = Thread /\ DOMAIN recv_buff = Thread
  BY DEF TypeInv, TypeOK, HeapTypeOK
<1>1. CASE Start(k)
  <2>1. hpc'[k] = "loop"
    BY <1>0, <1>1 DEF Start, Move
  <2> QED BY <2>1 DEF Reason
<1>2. CASE Stop(k)
  <2>1. /\ hpc[k] = "loop" /\ hpc'[k] = "leave"
        /\ UNCHANGED <<sockfd, fdt, peer>>
    BY <1>0, <1>2 DEF Stop, Move, sockVars
  <2>2. IsOpen(sockfd[k])
    BY <2>1 DEF Own, Owners, IsOpen
  <2>3. peer[fdt[sockfd[k]]] \in {"fin", "rst"}
    BY <1>2, <2>2 DEF Stop, Ended
  <2> QED BY <2>1, <2>3 DEF Reason
<1>3. CASE Read(k)
  <2>1. /\ hpc'[k] = "lock" /\ UNCHANGED <<sockfd, fdt>>
        /\ recv_buff'[k] = <<[from |-> c, said |-> ReadChunk(c)]>>
    BY <1>0, <1>3 DEF Read, Move
  <2>2. recv_buff'[k][1].from = c
    BY <2>1
  <2>3. fdt'[sockfd'[k]] = c
    BY <2>1
  <2> QED BY <2>1, <2>2, <2>3 DEF Reason
<1>4. CASE LockToCast(k)
  <2>1. /\ hpc[k] = "lock" /\ hpc'[k] = "cast"
        /\ UNCHANGED <<sockfd, fdt, recv_buff>>
    BY <1>0, <1>4 DEF LockToCast, Move, sockVars
  <2>2. recv_buff[k][1].from = fdt[sockfd[k]]
    BY <2>1 DEF Reasons, Owners
  <2> QED BY <2>1, <2>2 DEF Reason
<1>5. CASE CastDone(k)
  <2>1. /\ hpc[k] = "cast" /\ UNCHANGED <<sockfd, fdt>>
    BY <1>5 DEF CastDone, sockVars
  <2>2. recv_buff[k][1].from = c
    BY <2>1 DEF Reasons, Owners
  <2>3. CASE SaidExit(k)
    <3>1. hpc'[k] = "leave" /\ recv_buff' = recv_buff
      BY <1>0, <1>5, <2>3 DEF CastDone, Move
    <3>2. /\ recv_buff[k] \in Seq(Entry) /\ Len(recv_buff[k]) = 1
      BY <2>1 DEF TypeInv, TypeOK, Known
    <3>3. recv_buff[k][1] \in Entry /\ recv_buff[k] = <<recv_buff[k][1]>>
      BY <3>2, ElementOfSeq
    <3>4. recv_buff[k][1] = [from |-> c, said |-> <<"exit">>]
      <4> HIDE DEF c
      <4> QED BY <2>2, <2>3, <3>3 DEF SaidExit, Entry, Announcement
    <3>5. recv_buff'[k] = <<[from |-> c, said |-> <<"exit">>]>>
      BY <3>1, <3>3, <3>4
    <3>6. fdt'[sockfd'[k]] = c
      BY <2>1
    <3> QED BY <3>1, <3>5, <3>6 DEF Reason
  <2>4. CASE ~SaidExit(k)
    <3>1. hpc'[k] = "loop"
      BY <1>0, <1>5, <2>4 DEF CastDone, Move
    <3> QED BY <3>1 DEF Reason
  <2> QED BY <2>3, <2>4
<1>6. CASE LockToDelete(k) \/ Find(k) \/ Unlink(k)
  <2>1. /\ hpc[k] \in {"leave", "find", "unlink"}
        /\ UNCHANGED <<sockfd, fdt, recv_buff, peer>>
        /\ Move(k, "find") \/ Move(k, "unlink") \/ Move(k, "close")
    BY <1>6, Zenon DEF LockToDelete, Find, Unlink, sockVars
  <2>2. hpc'[k] \in {"find", "unlink", "close"}
    BY <1>0, <2>1 DEF Move
  <2>3. \/ peer[c] \in {"fin", "rst"}
        \/ recv_buff[k] = <<[from |-> c, said |-> <<"exit">>]>>
    BY <2>1 DEF Reasons, Owners
  <2>4. fdt'[sockfd'[k]] = c
    BY <2>1
  <2> QED BY <2>1, <2>2, <2>3, <2>4 DEF Reason
<1>7. CASE CloseFd(k)
  <2>1. hpc'[k] = "gone"
    BY <1>0, <1>7 DEF CloseFd, Move
  <2> QED BY <2>1 DEF Owners
<1> QED BY <1>1, <1>2, <1>3, <1>4, <1>5, <1>6, <1>7 DEF HandlerStep

\* The steps of a thread.
LEMMA ReasonsHandler ==
  ASSUME TypeInv, Matched, Own, Reasons, ~flag, NEW k \in Thread, HandlerStep(k)
  PROVE  Reasons'
<1>1. ASSUME NEW j \in Owners', j # k \/ Cast(k)
      PROVE  Reason(j)'
  <2>1. /\ j \in Owners /\ j \in Thread /\ hpc'[j] = hpc[j]
        /\ sockfd'[j] = sockfd[j] /\ recv_buff'[j] = recv_buff[j]
    <3>1. CASE Cast(k)
      BY <3>1 DEF Cast, Owners
    <3>2. CASE ~Cast(k)
      <4>1. j # k /\ j \in Thread
        BY <1>1, <3>2 DEF Owners
      <4>2. /\ DOMAIN sockfd = Thread /\ DOMAIN recv_buff = Thread
            /\ DOMAIN hpc = Thread
        BY DEF TypeInv, TypeOK, HeapTypeOK
      <4>3. sockfd' = sockfd \/ sockfd' = [sockfd EXCEPT ![k] = connect_FD]
        BY <3>2 DEF HandlerStep, Start, Stop, Read, LockToCast, CastDone,
           LockToDelete, Find, Unlink, CloseFd
      <4>4. \/ recv_buff' = recv_buff
            \/ \E b : recv_buff' = [recv_buff EXCEPT ![k] = b]
        <5>1. CASE Read(k)
          BY <5>1 DEF Read
        <5>2. CASE CastDone(k)
          BY <5>2, Zenon DEF CastDone
        <5>3. CASE ~ (Read(k) \/ CastDone(k))
          BY <3>2, <5>3 DEF HandlerStep, Start, Stop, LockToCast, LockToDelete,
             Find, Unlink, CloseFd
        <5> QED BY <5>1, <5>2, <5>3
      <4>5. hpc'[j] = hpc[j]
        <5>1. CASE Start(k) \/ CloseFd(k)
          BY <4>1, <4>2, <5>1 DEF Start, CloseFd, Move
        <5>2. CASE ~ (Start(k) \/ CloseFd(k))
          BY <4>1, <5>2, HandlerMoves
        <5> QED BY <5>1, <5>2
      <4> QED BY <4>1, <4>2, <4>3, <4>4, <4>5 DEF Owners
    <3> QED BY <3>1, <3>2
  <2>2. sockfd[j] \in Fd /\ fdt[sockfd[j]] \in Conn
    BY <2>1 DEF Own, Owners, TypeInv, TypeOK, SockTypeOK, Known
  <2>3. /\ fdt'[sockfd[j]] = fdt[sockfd[j]]
        /\ LET c == fdt[sockfd[j]]
           IN  peer[c] \in {"fin", "rst"} => peer'[c] \in {"fin", "rst"}
    <3>1. CASE Cast(k)
      <4>1. fdt' = fdt /\ (peer' = peer \/ \E to : peer' \in Answers(to))
        BY <3>1 DEF Cast
      <4>2. SockTypeOK
        BY DEF TypeInv, TypeOK
      <4>3. ASSUME NEW c \in Conn, peer[c] \in {"fin", "rst"}
            PROVE  peer'[c] \in {"fin", "rst"}
        BY <4>1, <4>2, <4>3, AnswersType
      <4> QED BY <2>2, <4>1, <4>3
    <3>2. CASE CloseFd(k)
      <4>1. k \in Owners /\ sockfd[k] \in Fd /\ Close(sockfd[k]) /\ j # k
        BY <1>1, <2>1, <3>2 DEF CloseFd, Owners, Own, Cast
      <4>2. sockfd[k] # sockfd[j]
        BY <2>1, <4>1 DEF Own
      <4> QED BY <2>1, <4>1, <4>2, CloseSpares
    <3>3. CASE ~ (Cast(k) \/ CloseFd(k))
      BY <3>3 DEF HandlerStep, Start, Stop, Read, LockToCast, CastDone,
         LockToDelete, Find, Unlink, sockVars
    <3> QED BY <3>1, <3>2, <3>3
  <2>4. Reason(j)
    BY <2>1 DEF Reasons, Reason
  <2> QED BY <2>1, <2>3, <2>4, ReasonStays
<1>2. ASSUME NEW j \in Owners', j = k, ~Cast(k)
      PROVE  Reason(j)'
  BY <1>2, ReasonOfMover
<1>3. \A j \in Owners' : Reason(j)'
  BY <1>1, <1>2
<1> QED BY <1>3 DEF Reasons, Reason

\* Every step keeps Reasons until the shutdown, as long as it is punctual.
LEMMA ReasonsKeep ==
  ASSUME ListInv, TypeInv, Matched, Own, Reasons, Punctual', ~flag', [Next]_vars
  PROVE  Reasons'
<1>1. ASSUME NEW k \in Thread, HandlerStep(k)
      PROVE  Reasons'
  <2>1. ~flag
    BY <1>1 DEF HandlerStep, Start, Stop, Read, LockToCast, Cast, CastDone,
       LockToDelete, Find, Unlink, CloseFd, mainVars
  <2> QED BY <1>1, <2>1, ReasonsHandler
<1>2. CASE Crash \/ UNCHANGED vars
  BY <1>2 DEF Crash, vars, thrVars, sockVars, Reasons, Owners
<1>3. CASE SigInt
  BY <1>3 DEF SigInt
<1>4. CASE ClientsAct
  <2>1. UNCHANGED <<hpc, sockfd, recv_buff, fdt>>
    BY <1>4, ClientsKeep DEF ClientsAct, thrVars, TypeInv, TypeOK
  <2>2. ASSUME NEW c \in Conn, peer[c] \in {"fin", "rst"}
        PROVE  peer'[c] = peer[c]
    <3>1. PICK d \in Conn : Connect(d) \/ Hangup(d) \/ \E m \in Message : Send(d, m)
      BY <1>4 DEF ClientsAct, ClientStep
    <3> QED BY <2>2, <3>1 DEF Connect, Hangup, Send, TypeInv, TypeOK, SockTypeOK
  <2>3. \A k \in Owners : fdt[sockfd[k]] \in Conn
    BY DEF Own, Owners, TypeInv, TypeOK, SockTypeOK, Known
  <2> QED BY <2>1, <2>2, <2>3 DEF Reasons, Owners
<1> QED BY <1>1, <1>2, <1>3, <1>4, ReasonsMain DEF Next

----------------------------------------------------------------------------
(* Which nodes are on the list, and whose descriptors they hold. *)

\* The list leads from node to node.
LEMMA NodesLinked ==
  \A S \in SUBSET Addr :
    Linked(S) =>
      /\ Nodes \subseteq S /\ NULL \notin Nodes
      /\ head \in Nodes \cup {NULL} /\ Follows(Nodes)
<1> SUFFICES ASSUME NEW S \in SUBSET Addr, Linked(S)
             PROVE  /\ Nodes \subseteq S /\ NULL \notin Nodes
                    /\ head \in Nodes \cup {NULL} /\ Follows(Nodes)
  OBVIOUS
<1> DEFINE N == Cardinality(Addr)
<1>1. Nodes \subseteq S /\ At[N] = NULL
  BY LinkedEnds
<1>2. NULL \notin Nodes
  BY DEF Nodes
<1>3. head \in Nodes \cup {NULL}
  BY WalkStep DEF Nodes
<1>4. ASSUME NEW a \in Nodes
      PROVE  next[a] \in Nodes \cup {NULL}
  <2>1. PICK n \in DOMAIN At : At[n] = a
    BY DEF Nodes
  <2>2. n # N /\ n \in 0..N /\ N \in Nat
    BY <1>1, <1>2, <2>1, WalkStep
  <2>3. n + 1 \in 1..N /\ (n + 1) - 1 = n
    BY <2>2
  <2>4. At[n + 1] = next[a] /\ n + 1 \in DOMAIN At
    BY <1>2, <2>1, <2>3, WalkStep
  <2> HIDE DEF N
  <2> QED BY <2>4 DEF Nodes
<1> QED BY <1>1, <1>2, <1>3, <1>4 DEF Follows

\* The nodes of the list are live, and what follows one of them is one.
LEMMA NodesClosed ==
  HeapTypeOK /\ Links =>
    /\ Nodes \subseteq live /\ Nodes \subseteq Addr /\ NULL \notin Nodes
    /\ head \in Nodes \cup {NULL}
    /\ \A a \in Nodes : next[a] \in Nodes \cup {NULL}
<1>1. HeapTypeOK /\ Links => live \in SUBSET Addr /\ Linked(live)
  BY DEF HeapTypeOK, Links, Linked, Follows
<1> QED BY <1>1, NodesLinked DEF Follows

\* ... and every set of nodes with the head and what follows holds the list.
LEMMA NodesLeast ==
  \A S \in SUBSET Addr :
    head \in S \cup {NULL} /\ (\A a \in S : next[a] \in S \cup {NULL})
      => Nodes \subseteq S
<1> SUFFICES ASSUME NEW S \in SUBSET Addr, head \in S \cup {NULL},
                    \A a \in S : next[a] \in S \cup {NULL}
             PROVE  Nodes \subseteq S
  OBVIOUS
<1>1. \A n \in DOMAIN At : At[n] \in S \cup {NULL}
  BY WalkStays
<1> QED BY <1>1 DEF Nodes

\* The same after a step.
LEMMA NodesClosedNext ==
  (HeapTypeOK /\ Links)' =>
    (/\ Nodes \subseteq live /\ Nodes \subseteq Addr /\ NULL \notin Nodes
     /\ head \in Nodes \cup {NULL}
     /\ \A a \in Nodes : next[a] \in Nodes \cup {NULL})'
BY NodesClosed, PTL

\* They are the least such set, also in the next state.
LEMMA NodesLeastNext ==
  (\A S \in SUBSET Addr :
     head \in S \cup {NULL} /\ (\A a \in S : next[a] \in S \cup {NULL})
       => Nodes \subseteq S)'
BY NodesLeast, PTL

\* No node of the list is followed by itself.
LEMMA NoLoop ==
  ASSUME HeapTypeOK, Links, NEW a \in Nodes
  PROVE  next[a] # a
<1> SUFFICES ASSUME next[a] = a PROVE FALSE
  OBVIOUS
<1>1. live \subseteq Addr /\ a \in live /\ a # NULL
  BY NodesClosed, PthreadAssumption DEF HeapTypeOK
<1> DEFINE S == live \ {a}
<1>2. head \in S \cup {NULL}
  BY <1>1 DEF Links
<1>3. \A b \in S : next[b] \in S \cup {NULL}
  BY <1>1 DEF Links
<1>4. Nodes \subseteq S
  <2>1. S \in SUBSET Addr
    BY <1>1
  <2> HIDE DEF S
  <2> QED BY <1>2, <1>3, <2>1, NodesLeast
<1> QED BY <1>4

Holds(k) == hpc[k] \notin {"none", "start", "gone", "close"}
Starting == pc = "create" \/ \E k \in Thread : hpc[k] = "start"

\* Who is to be on the list: whoever a thread serves, and who waits for one.
LEMMA ListedIs ==
  \A fd : fd \in Listed <=> \/ \E k \in Thread : Holds(k) /\ fd = sockfd[k]
                            \/ Starting /\ fd = connect_FD
<1> DEFINE Keeping == {j \in Owners : hpc[j] # "close"}
<1>1. \A j : j \in Keeping <=> j \in Thread /\ Holds(j)
  BY DEF Owners, Holds
<1> DEFINE Coming == IF Starting THEN {connect_FD} ELSE {}
<1>2. \A fd : fd \in Coming <=> Starting /\ fd = connect_FD
  OBVIOUS
<1>3. \A fd : fd \in Listed <=> fd \in {sockfd[k] : k \in Keeping} \/ fd \in Coming
  BY DEF Listed, Starting
<1> HIDE DEF Keeping, Coming
<1>4. \A fd : fd \in {sockfd[k] : k \in Keeping}
               <=> \E k \in Keeping : fd = sockfd[k]
  OBVIOUS
<1> QED BY <1>1, <1>2, <1>3, <1>4, Zenon

LEMMA ListedIsNext ==
  (\A fd : fd \in Listed <=> \/ \E k \in Thread : Holds(k) /\ fd = sockfd[k]
                             \/ Starting /\ fd = connect_FD)'
BY ListedIs, PTL

\* The steps that leave the list alone.
LEMMA PlacedQuiet ==
  ASSUME Placed, UNCHANGED <<head, data, next>>, Listed' = Listed,
         raced => raced',
         \A k \in Thread : hpc'[k] = "unlink" =>
           /\ hpc[k] = "unlink" /\ sockfd'[k] = sockfd[k]
           /\ temp'[k] = temp[k] /\ before'[k] = before[k]
           /\ after'[k] = after[k],
         pc' \in {"load", "walk", "link"} =>
           /\ pc \in {"load", "walk", "link"}
           /\ UNCHANGED <<newnode, connect_FD>>,
         pc' \in {"walk", "link"} =>
           \/ pc \in {"walk", "link"} /\ current' = current
           \/ current' \in Nodes \/ raced'
  PROVE  Placed'
<1>1. Nodes' = Nodes
  BY DEF Nodes, At
<1> HIDE DEF Nodes, Listed
<1>2. {data[a] : a \in Nodes}' = {data[a] : a \in Nodes}
  BY <1>1
<1>3. /\ ({data[a] : a \in Nodes} \subseteq Listed)'
      /\ (\A a, b \in Nodes : data[a] = data[b] => a = b)'
  BY <1>1, <1>2 DEF Placed
<1>4. pc' \in {"load", "walk", "link"} =>
        data'[newnode'] = connect_FD' /\ next'[newnode'] = NULL
  BY DEF Placed
<1>5. \A k \in Thread : hpc'[k] = "unlink" =>
        /\ temp'[k] \in Nodes' /\ data'[temp'[k]] = sockfd'[k]
        /\ before'[k] \in Nodes' \cup {NULL}
  BY <1>1 DEF Placed
<1>6. ASSUME ~raced'
      PROVE  /\ (Listed \subseteq {data[a] : a \in Nodes})'
             /\ pc' \in {"walk", "link"} => current' \in Nodes'
             /\ \A k \in Thread : hpc'[k] = "unlink" => after'[k] = next'[temp'[k]]
  <2>1. ~raced
    BY <1>6
  <2> QED BY <1>1, <1>2, <1>6, <2>1 DEF Placed
<1> QED BY <1>3, <1>4, <1>5, <1>6 DEF Placed

\* appendNode makes a node; the first one is the list at once, another one is
\* not on it yet.
LEMMA AppendNodes ==
  ASSUME ListInv, ListInv', Punctual, Punctual', NEW a \in Addr \ live,
         next' = [next EXCEPT ![a] = NULL],
         head' = IF head = NULL THEN a ELSE head
  PROVE  /\ a \notin Nodes
         /\ IF head = NULL THEN Nodes = {} /\ Nodes' = {a} ELSE Nodes' = Nodes
<1>1. HeapTypeOK /\ Links /\ HeapTypeOK' /\ Links'
  BY DEF ListInv, Punctual, Safe
<1>2. /\ a # NULL /\ next \in [Addr -> Addr \cup {NULL}]
      /\ \A b \in Addr : next'[b] = IF b = a THEN NULL ELSE next[b]
  BY <1>1, PthreadAssumption DEF HeapTypeOK
<1>3. /\ Nodes \subseteq live /\ Nodes \subseteq Addr /\ NULL \notin Nodes
      /\ head \in Nodes \cup {NULL} /\ a \notin Nodes
      /\ \A b \in Nodes : next[b] \in Nodes \cup {NULL}
  BY <1>1, NodesClosed
<1>4. /\ Nodes' \in SUBSET Addr /\ head' \in Nodes' \cup {NULL}
      /\ \A b \in Nodes' : next'[b] \in Nodes' \cup {NULL}
  BY <1>1, NodesClosedNext
<1> HIDE DEF Nodes
<1>5. CASE head = NULL
  <2>1. {} \in SUBSET Addr /\ {a} \in SUBSET Addr
    OBVIOUS
  <2>2. Nodes \subseteq {}
    BY <1>5, <2>1, NodesLeast
  <2>3. Nodes' \subseteq {a}
    <3>1. head' \in {a} \cup {NULL} /\ \A b \in {a} : next'[b] \in {a} \cup {NULL}
      BY <1>2, <1>5
    <3> QED BY <2>1, <3>1, NodesLeastNext
  <2>4. a \in Nodes'
    BY <1>2, <1>4, <1>5
  <2>5. Nodes = {} /\ Nodes' = {a}
    BY <2>2, <2>3, <2>4
  <2> QED BY <1>3, <1>5, <2>5
<1>6. CASE head # NULL
  <2>1. Nodes' \subseteq Nodes
    <3>1. /\ head' \in Nodes \cup {NULL}
          /\ \A b \in Nodes : next'[b] \in Nodes \cup {NULL}
      BY <1>2, <1>3, <1>6
    <3> QED BY <1>3, <3>1, NodesLeastNext
  <2>2. Nodes \subseteq Nodes'
    <3>1. \A b \in Nodes' : next[b] \in Nodes' \cup {NULL}
      BY <1>2, <1>3, <1>4, <2>1
    <3>2. head \in Nodes' \cup {NULL}
      BY <1>4, <1>6
    <3> QED BY <1>4, <3>1, <3>2, NodesLeast
  <2> QED BY <1>3, <1>6, <2>1, <2>2
<1> QED BY <1>5, <1>6

\* It links the new node behind a node where nothing was linked, whether that
\* one is on the list or not.
LEMMA LinkNodes ==
  ASSUME ListInv, ListInv', Placed, Punctual, Punctual', Link
  PROVE  /\ Nodes \subseteq Nodes' /\ Nodes' \subseteq Nodes \cup {newnode}
         /\ newnode \notin Nodes /\ newnode \in Addr
         /\ \A b \in Nodes : b # current \/ next[b] = NULL
         /\ ~raced => newnode \in Nodes'
<1>1. /\ pc = "link" /\ next' = [next EXCEPT ![current] = newnode]
      /\ UNCHANGED <<head, raced>>
  BY DEF Link, history
<1>2. HeapTypeOK /\ Links /\ HeapTypeOK' /\ Links' /\ AppendPointers
  BY DEF ListInv, Punctual, Safe
<1>3. /\ newnode \in Addr /\ newnode # NULL /\ head # newnode
      /\ next[newnode] = NULL /\ newnode # current
  BY <1>1, <1>2, PthreadAssumption DEF AppendPointers, Placed, HeapTypeOK
<1>4. \A b \in Addr : next'[b] = IF b = current THEN newnode ELSE next[b]
  BY <1>1, <1>2 DEF HeapTypeOK
<1>5. /\ Nodes \subseteq live /\ Nodes \subseteq Addr /\ NULL \notin Nodes
      /\ head \in Nodes \cup {NULL}
      /\ \A b \in Nodes : next[b] \in Nodes \cup {NULL}
  BY <1>2, NodesClosed
<1>6. /\ Nodes' \subseteq Addr /\ NULL \notin Nodes'
      /\ head \in Nodes' \cup {NULL}
      /\ \A b \in Nodes' : next'[b] \in Nodes' \cup {NULL}
  BY <1>1, <1>2, NodesClosedNext
<1> HIDE DEF Nodes
<1>7. Nodes' \subseteq Nodes \cup {newnode}
  <2> DEFINE S == Nodes \cup {newnode}
  <2>1. S \in SUBSET Addr /\ head' \in S \cup {NULL}
        /\ \A b \in S : next'[b] \in S \cup {NULL}
    BY <1>1, <1>3, <1>4, <1>5
  <2> HIDE DEF S
  <2>2. Nodes' \subseteq S
    BY <2>1, NodesLeastNext
  <2> QED BY <2>2 DEF S
<1>8. newnode \notin Nodes
  <2> DEFINE S == live \ {newnode}
  <2>1. S \in SUBSET Addr /\ head \in S \cup {NULL}
    BY <1>2, <1>3 DEF HeapTypeOK, Links
  <2>2. \A b \in S : next[b] \in S \cup {NULL}
    BY <1>1, <1>2 DEF AppendPointers, Links, HeapTypeOK
  <2> HIDE DEF S
  <2>3. Nodes \subseteq S
    BY <2>1, <2>2, NodesLeast
  <2> QED BY <2>3 DEF S
<1>9. /\ \A b \in Nodes : b # current \/ next[b] = NULL
      /\ \A b \in Nodes' : b # current \/ next[b] = NULL
  <2> SUFFICES ASSUME current \in Nodes \cup Nodes' PROVE next[current] = NULL
    OBVIOUS
  <2>1. current \in live
    BY <1>3, <1>5, <1>7
  <2> QED BY <1>1, <1>2, <2>1 DEF AppendPointers
<1>10. Nodes \subseteq Nodes'
  <2>1. \A b \in Nodes' : next[b] \in Nodes' \cup {NULL}
    BY <1>4, <1>6, <1>9
  <2> QED BY <1>6, <2>1, NodesLeast
<1>11. ~raced => newnode \in Nodes'
  <2> SUFFICES ASSUME ~raced PROVE newnode \in Nodes'
    OBVIOUS
  <2>1. current \in Nodes /\ current \in Nodes' /\ current \in Addr
    BY <1>1, <1>5, <1>10 DEF Placed
  <2> QED BY <1>3, <1>4, <1>6, <2>1
<1> QED BY <1>3, <1>7, <1>8, <1>9, <1>10, <1>11

\* What is on the list while main appends.
LEMMA PlacedAppend ==
  ASSUME ListInv, ListInv', TypeInv, Own, Placed, Punctual, Punctual', Append1
  PROVE  Placed'
<1>1. PICK a \in Addr \ live :
        /\ pc = "append"
        /\ live' = live \cup {a}
        /\ data' = [data EXCEPT ![a] = connect_FD]
        /\ next' = [next EXCEPT ![a] = NULL]
        /\ newnode' = a
        /\ IF head = NULL THEN head' = a /\ pc' = "create"
                          ELSE pc' = "load" /\ head' = head
  BY DEF Append1
<1>2. /\ UNCHANGED <<connect_FD, current, hpc, sockfd, temp, before, after>>
      /\ raced' = (raced \/ Deleting)
  BY DEF Append1, thrVars
<1>3. HeapTypeOK /\ Links /\ HeapTypeOK' /\ Links' /\ HeldPointers
  BY DEF ListInv, Punctual, Safe
<1>4. /\ \A b \in Addr : next'[b] = IF b = a THEN NULL ELSE next[b]
      /\ \A b \in Addr : data'[b] = IF b = a THEN connect_FD ELSE data[b]
  BY <1>1, <1>3 DEF HeapTypeOK, TypeInv, TypeOK
<1>5. /\ Nodes \subseteq live /\ Nodes \subseteq Addr /\ NULL \notin Nodes
      /\ head \in Nodes \cup {NULL} /\ a \notin Nodes /\ a # NULL
      /\ \A b \in Nodes : next[b] \in Nodes \cup {NULL}
  BY <1>1, <1>3, NodesClosed, PthreadAssumption
<1>6. \A k \in Thread : hpc[k] # "start"
  BY <1>1 DEF Own, Handover, InHand, Appending
<1> HIDE DEF Nodes
<1>7. ASSUME NEW k \in Thread, hpc[k] = "unlink"
      PROVE  raced'
  BY <1>2, <1>7 DEF Deleting
<1>8. IF head = NULL THEN Nodes = {} /\ Nodes' = {a} ELSE Nodes' = Nodes
  <2>1. head' = IF head = NULL THEN a ELSE head
    BY <1>1
  <2> QED BY <1>1, <2>1, AppendNodes
<1>9. CASE head = NULL
  <2>1. Nodes = {}
    BY <1>9, <1>8
  <2>2. Nodes' = {a}
    BY <1>9, <1>8
  <2>3. ASSUME ~raced, NEW k \in Thread
        PROVE  ~Holds(k)
    <3>1. Listed \subseteq {}
      BY <2>1, <2>3 DEF Placed
    <3> HIDE DEF Listed
    <3> QED BY <3>1, ListedIs
  <2>4. connect_FD \in Listed'
    BY <1>1, <1>2, <1>9, ListedIsNext DEF Starting
  <2>5. \A k \in Thread : hpc[k] # "unlink"
    BY <2>1 DEF Placed
  <2>6. {data[b] : b \in Nodes}' = {connect_FD}
    BY <1>4, <2>2
  <2>7. ~raced' => Listed' \subseteq {connect_FD}
    <3> SUFFICES ASSUME ~raced', NEW fd \in Listed' PROVE fd = connect_FD
      OBVIOUS
    <3>1. ~raced
      BY <1>2
    <3>2. \A k \in Thread : ~Holds(k)'
      BY <1>2, <2>3, <3>1 DEF Holds
    <3> HIDE DEF Listed
    <3> QED BY <1>2, <3>2, ListedIsNext
  <2> HIDE DEF Listed
  <2> QED BY <1>1, <1>2, <1>9, <2>2, <2>4, <2>5, <2>6, <2>7 DEF Placed
<1>10. CASE head # NULL
  <2>1. Nodes' = Nodes
    BY <1>10, <1>8
  <2>2. Listed' = Listed
    <3>1. \A k \in Thread : Holds(k)' <=> Holds(k)
      BY <1>2 DEF Holds
    <3>2. ~Starting /\ ~Starting'
      BY <1>1, <1>2, <1>6, <1>10 DEF Starting
    <3> HIDE DEF Listed
    <3> QED BY <1>2, <3>1, <3>2, ListedIs, ListedIsNext
  <2>3. {data[b] : b \in Nodes}' = {data[b] : b \in Nodes}
    BY <1>4, <1>5, <2>1
  <2>4. (\A b, c \in Nodes : data[b] = data[c] => b = c)'
    BY <1>4, <1>5, <2>1 DEF Placed
  <2>5. data'[newnode'] = connect_FD' /\ next'[newnode'] = NULL
    BY <1>1, <1>2, <1>4
  <2>6. ASSUME NEW k \in Thread, hpc'[k] = "unlink"
        PROVE  /\ temp'[k] \in Nodes' /\ data'[temp'[k]] = sockfd'[k]
               /\ before'[k] \in Nodes' \cup {NULL}
    BY <1>2, <1>4, <1>5, <2>1, <2>6 DEF Placed
  <2>7. ~raced' => \A k \in Thread : hpc'[k] # "unlink"
    BY <1>2, <1>7
  <2>8. ~raced' => ~raced
    BY <1>2
  <2> HIDE DEF Listed
  <2> QED BY <1>1, <1>10, <2>2, <2>3, <2>4, <2>5, <2>6, <2>7, <2>8 DEF Placed
<1> QED BY <1>9, <1>10

\* The threads hold the same descriptors, and so does main.
LEMMA ListedSame ==
  ASSUME UNCHANGED sockfd, \A k \in Thread : Holds(k)' <=> Holds(k),
         Starting' <=> Starting, Starting => UNCHANGED connect_FD
  PROVE  Listed' = Listed
<1> USE DEF Starting
<1> HIDE DEF Listed, Starting
<1>1. \A fd : fd \in Listed' <=> fd \in Listed
  BY ListedIs, ListedIsNext
<1> QED BY <1>1

\* The steps of main that leave the list alone.
LEMMA PlacedMain ==
  ASSUME ListInv, TypeInv, Own, Placed, Punctual, Punctual', MainStep,
         ~ (Append1 \/ Link)
  PROVE  Placed'
<1>1. /\ UNCHANGED <<head, data, next, sockfd, temp, before, after, raced>>
      /\ pc' # "closing" /\ pc' # "freeing" /\ pc' # "return" /\ pc' # "exited"
  BY DEF MainStep, TestFlag, Select, AcceptFails, Accept, Refuse, Load,
     Walk, Create, CloseOne, FreeOne, Return, heapVars, thrVars, history,
     Punctual, Safe, Running, Closing
<1>2. \/ TestFlag \/ Select \/ Accept \/ Refuse \/ Load \/ Walk \/ Create
  BY <1>1 DEF MainStep, AcceptFails, CloseOne, FreeOne, Return, Punctual, Safe,
              Closing
<1>3. CASE TestFlag \/ Select \/ Accept \/ Refuse
  <2>1. /\ hpc' = hpc /\ pc # "create" /\ pc' # "create"
        /\ pc' \notin {"load", "walk", "link"}
        /\ Starting => UNCHANGED connect_FD
    <3>1. CASE Accept
      <4>1. \A k \in Thread : hpc[k] # "start"
        <5>1. ~late' /\ late' = (late \/ \E k \in Thread : hpc[k] = "start")
          BY <3>1 DEF Accept, Punctual
        <5> QED BY <5>1, Zenon
      <4> QED BY <3>1, <4>1 DEF Accept, thrVars, Starting
    <3>2. CASE TestFlag \/ Select \/ Refuse
      BY <3>2 DEF TestFlag, Select, Refuse, thrVars
    <3> QED BY <1>3, <3>1, <3>2
  <2>2. Listed' = Listed
    BY <1>1, <2>1, ListedSame DEF Holds, Starting
  <2> QED BY <1>1, <2>1, <2>2, PlacedQuiet
<1>4. CASE Load \/ Walk
  <2>1. /\ hpc' = hpc /\ pc \in {"load", "walk"} /\ pc' \in {"walk", "link"}
        /\ UNCHANGED <<newnode, connect_FD>>
    BY <1>4 DEF Load, Walk, thrVars
  <2>2. Listed' = Listed
    BY <1>1, <2>1, ListedSame DEF Holds, Starting
  <2>3. /\ HeapTypeOK /\ Links /\ AppendPointers
    BY DEF ListInv, Punctual, Safe
  <2>4. /\ NULL \notin Nodes /\ head \in Nodes \cup {NULL}
        /\ \A a \in Nodes : next[a] \in Nodes \cup {NULL}
    BY <2>3, NodesClosed
  <2> HIDE DEF Nodes
  <2>5. current' \in Nodes \/ raced'
    <3>1. CASE Load
      BY <1>1, <2>3, <2>4, <3>1 DEF Load, AppendPointers
    <3>2. CASE Walk
      BY <1>1, <2>4, <3>2 DEF Walk, Placed
    <3> QED BY <1>4, <3>1, <3>2
  <2> HIDE DEF Listed
  <2> QED BY <1>1, <2>1, <2>2, <2>5, PlacedQuiet
<1>5. CASE Create
  <2>1. /\ pc = "create" /\ pc' = "test"
        /\ hpc' = [hpc EXCEPT ![cli_count] = "start"]
        /\ UNCHANGED <<newnode, connect_FD>>
    BY <1>5 DEF Create
  <2>2. cli_count \in Thread /\ hpc[cli_count] = "none"
    BY <2>1 DEF ListInv, Numbered
  <2>3. \A k \in Thread : hpc'[k] = IF k = cli_count THEN "start" ELSE hpc[k]
    BY <2>1 DEF TypeInv, TypeOK, HeapTypeOK
  <2>4. (\A k \in Thread : Holds(k)' <=> Holds(k)) /\ Starting /\ Starting'
    BY <2>1, <2>2, <2>3 DEF Holds, Starting
  <2>5. Listed' = Listed
    BY <1>1, <2>1, <2>4, ListedSame
  <2>6. \A k \in Thread : hpc'[k] = "unlink" => hpc[k] = "unlink"
    BY <2>3
  <2> HIDE DEF Listed
  <2> QED BY <1>1, <2>1, <2>5, <2>6, PlacedQuiet
<1> QED BY <1>2, <1>3, <1>4, <1>5

\* appendNode links the new node, last on the list if nobody has interfered.
LEMMA PlacedLink ==
  ASSUME ListInv, ListInv', TypeInv, Own, Placed, Punctual, Punctual', Link
  PROVE  Placed'
<1>1. /\ pc = "link" /\ pc' = "create"
      /\ next' = [next EXCEPT ![current] = newnode]
      /\ UNCHANGED <<head, data, live, raced, newnode, current, connect_FD>>
      /\ UNCHANGED <<hpc, sockfd, temp, before, after>>
  BY DEF Link, thrVars, history
<1>2. HeapTypeOK /\ Links /\ HeapTypeOK' /\ Links' /\ AppendPointers
  BY DEF ListInv, Punctual, Safe
<1>3. /\ newnode \in Addr /\ newnode # NULL /\ head # newnode
      /\ data[newnode] = connect_FD /\ next[newnode] = NULL
      /\ newnode # current /\ (Deleting => raced)
  BY <1>1, <1>2, PthreadAssumption DEF AppendPointers, Placed, HeapTypeOK
<1>4. \A k \in Thread : hpc[k] # "start"
  BY <1>1 DEF Own, Handover, InHand, Appending
<1>5. /\ Nodes \subseteq Nodes' /\ Nodes' \subseteq Nodes \cup {newnode}
      /\ newnode \notin Nodes /\ (~raced => newnode \in Nodes')
  BY LinkNodes
<1> HIDE DEF Nodes
<1>6. /\ ~Starting /\ Starting'
      /\ \A k \in Thread : Holds(k)' <=> Holds(k)
  BY <1>1, <1>4 DEF Starting, Holds
<1>7. \A fd : fd \in Listed' <=> fd \in Listed \/ fd = connect_FD
  <2> HIDE DEF Listed
  <2> QED BY <1>1, <1>6, ListedIs, ListedIsNext
<1>8. connect_FD \notin Listed
  <2>1. \A k \in Thread : Holds(k) => sockfd[k] # connect_FD
    BY <1>1 DEF Own, Handover, InHand, Appending, Holds, Owners
  <2> HIDE DEF Listed
  <2> QED BY <1>6, <2>1, ListedIs
<1> HIDE DEF Listed
<1>9. \A a \in Nodes : data[a] \in Listed /\ data[a] # connect_FD
  BY <1>8 DEF Placed
<1>10. /\ ({data[a] : a \in Nodes} \subseteq Listed)'
       /\ (\A a, b \in Nodes : data[a] = data[b] => a = b)'
  BY <1>1, <1>3, <1>5, <1>7, <1>9 DEF Placed
<1>11. ~raced => (Listed \subseteq {data[a] : a \in Nodes})'
  BY <1>1, <1>3, <1>5, <1>7 DEF Placed
<1>12. \A k \in Thread : hpc'[k] = "unlink" =>
         /\ temp'[k] \in Nodes' /\ data'[temp'[k]] = sockfd'[k]
         /\ before'[k] \in Nodes' \cup {NULL}
  <2> SUFFICES ASSUME NEW k \in Thread, hpc[k] = "unlink"
               PROVE  /\ temp[k] \in Nodes' /\ data[temp[k]] = sockfd[k]
                      /\ before[k] \in Nodes' \cup {NULL}
    BY <1>1
  <2>1. /\ temp[k] \in Nodes /\ data[temp[k]] = sockfd[k]
        /\ before[k] \in Nodes \cup {NULL}
    BY DEF Placed
  <2> QED BY <1>5, <2>1
<1>13. ~raced => \A k \in Thread : hpc[k] # "unlink"
  BY <1>3 DEF Deleting
<1> QED BY <1>1, <1>10, <1>11, <1>12, <1>13 DEF Placed

\* The steps of a thread that leave the list alone.
LEMMA PlacedHandler ==
  ASSUME ListInv, TypeInv, Own, Placed, NEW k \in Thread, HandlerStep(k),
         ~ (Find(k) \/ Unlink(k)), Punctual'
  PROVE  Placed'
<1>1. /\ UNCHANGED <<head, data, next, newnode, current, connect_FD>>
      /\ pc' = pc /\ (raced => raced')
      /\ UNCHANGED <<before, after>>
      /\ \A j \in Thread : hpc[j] = "unlink" => temp'[j] = temp[j]
  <2>1. CASE LockToDelete(k)
    <3>1. raced' = (raced \/ Appending)
      BY <2>1 DEF LockToDelete
    <3>2. raced => raced'
      BY <3>1, Zenon
    <3> QED BY <2>1, <3>2 DEF LockToDelete, mainVars, heapVars
  <2>2. CASE LockToCast(k) \/ Cast(k)
    <3>1. hpc[k] \in {"lock", "cast"} /\ DOMAIN temp = Thread
      BY <2>2 DEF LockToCast, Cast, TypeInv, TypeOK, HeapTypeOK
    <3> QED BY <2>2, <3>1 DEF LockToCast, Cast, mainVars, heapVars, history,
                Punctual, Safe, Running
  <2>3. CASE Start(k) \/ Stop(k) \/ Read(k) \/ CastDone(k) \/ CloseFd(k)
    BY <2>3 DEF Start, Stop, Read, CastDone, CloseFd, mainVars, heapVars, history
  <2> QED BY <2>1, <2>2, <2>3 DEF HandlerStep
<1>2. DOMAIN hpc = Thread /\ DOMAIN sockfd = Thread
  BY DEF TypeInv, TypeOK, HeapTypeOK
<1>3. Listed' = Listed
  <2>1. CASE Start(k)
    <3>1. /\ hpc[k] = "start" /\ hpc' = [hpc EXCEPT ![k] = "loop"]
          /\ sockfd' = [sockfd EXCEPT ![k] = connect_FD]
      BY <2>1 DEF Start, Move
    <3>2. /\ Starting /\ ~Starting'
      BY <1>1, <1>2, <3>1 DEF Starting, Own, Handover, InHand
    <3>3. /\ ~Holds(k) /\ Holds(k)' /\ sockfd'[k] = connect_FD
          /\ \A j \in Thread \ {k} : (Holds(j)' <=> Holds(j)) /\ sockfd'[j] = sockfd[j]
      BY <1>2, <3>1 DEF Holds
    <3>4. \A fd : fd \in Listed' <=> fd \in Listed
      <4> HIDE DEF Listed, Holds, Starting
      <4>1. \A fd : fd \in Listed' <=> \E j \in Thread : Holds(j)' /\ fd = sockfd'[j]
        BY <3>2, ListedIsNext
      <4>2. \A fd : fd \in Listed <=> \/ \E j \in Thread : Holds(j) /\ fd = sockfd[j]
                                      \/ fd = connect_FD
        BY <3>2, ListedIs
      <4> QED BY <3>3, <4>1, <4>2
    <3> HIDE DEF Listed
    <3> QED BY <3>4
  <2>2. CASE CloseFd(k)
    <3>1. UNCHANGED sockfd /\ hpc[k] = "close" /\ hpc' = [hpc EXCEPT ![k] = "gone"]
      BY <2>2 DEF CloseFd, Move
    <3>2. \A j \in Thread : Holds(j)' <=> Holds(j)
      BY <1>2, <3>1 DEF Holds
    <3>3. Starting' <=> Starting
      BY <1>1, <1>2, <3>1 DEF Starting
    <3> QED BY <1>1, <3>1, <3>2, <3>3, ListedSame
  <2>3. CASE ~ (Start(k) \/ CloseFd(k))
    <3>1. /\ UNCHANGED sockfd
          /\ hpc[k] \notin {"none", "start", "gone"}
          /\ hpc'[k] \notin {"none", "start", "gone"}
          /\ \A j \in Thread : j # k => hpc'[j] = hpc[j]
      BY <2>3, HandlerMoves
    <3>2. hpc[k] # "close" /\ hpc'[k] # "close"
      <4>1. CASE CastDone(k)
        <5>1. hpc[k] = "cast" /\ (Move(k, "leave") \/ Move(k, "loop"))
          BY <4>1 DEF CastDone
        <5> QED BY <1>2, <5>1 DEF Move
      <4>2. CASE ~CastDone(k)
        BY <1>2, <2>3, <4>2 DEF HandlerStep, Stop, Read, LockToCast, Cast,
           LockToDelete, Move
      <4> QED BY <4>1, <4>2
    <3>3. \A j \in Thread : Holds(j)' <=> Holds(j)
      BY <3>1, <3>2 DEF Holds
    <3>4. Starting' <=> Starting
      BY <1>1, <3>1 DEF Starting
    <3> QED BY <1>1, <3>1, <3>3, <3>4, ListedSame
  <2> QED BY <2>1, <2>2, <2>3
<1>4. \A j \in Thread : hpc'[j] = "unlink" =>
        hpc[j] = "unlink" /\ sockfd'[j] = sockfd[j]
  <2>1. CASE CastDone(k)
    <3>1. UNCHANGED sockfd /\ (Move(k, "leave") \/ Move(k, "loop"))
      BY <2>1 DEF CastDone
    <3> QED BY <1>2, <3>1 DEF Move
  <2>2. CASE ~CastDone(k)
    BY <1>2, <2>2 DEF HandlerStep, Start, Stop, Read, LockToCast, Cast,
       LockToDelete, CloseFd, Move
  <2> QED BY <2>1, <2>2
<1> HIDE DEF Listed
<1> QED BY <1>1, <1>3, <1>4, PlacedQuiet

\* deleteNode finds the one node that holds the descriptor, if the list has it.
LEMMA PlacedFind ==
  ASSUME ListInv, TypeInv, Own, Placed, Punctual, NEW k \in Thread, Find(k)
  PROVE  Placed'
<1>1. /\ UNCHANGED <<pc, newnode, current, connect_FD, head, data, next, raced>>
      /\ UNCHANGED sockfd /\ hpc[k] = "find"
  BY DEF Find, mainVars, heapVars, history
<1>2. /\ DOMAIN hpc = Thread /\ DOMAIN temp = Thread /\ DOMAIN before = Thread
      /\ DOMAIN after = Thread
  BY DEF TypeInv, TypeOK, HeapTypeOK
<1>3. Nodes' = Nodes
  BY <1>1 DEF Nodes, At
<1>4. \A fd : fd \in Listed' => fd \in Listed
  <2>1. /\ \A j \in Thread : Holds(j)' => Holds(j)
        /\ Starting' => Starting
    <3>1. Move(k, "close") \/ Move(k, "unlink")
      BY Zenon DEF Find
    <3> QED BY <1>1, <1>2, <3>1 DEF Move, Holds, Starting
  <2> HIDE DEF Listed, Holds, Starting
  <2> QED BY <1>1, <2>1, ListedIs, ListedIsNext
<1>5. CASE Places(sockfd[k]) = {}
  <2>1. Move(k, "close") /\ UNCHANGED <<temp, before, after>>
    BY <1>5 DEF Find
  <2>2. /\ \A j \in Thread : hpc'[j] = IF j = k THEN "close" ELSE hpc[j]
    BY <1>2, <2>1 DEF Move
  <2>3. \A a \in Nodes : data[a] # sockfd[k]
    <3>1. ASSUME NEW a \in Nodes, data[a] = sockfd[k]
          PROVE  FALSE
      <4>1. PICK n \in DOMAIN At : At[n] = a /\ a # NULL
        BY DEF Nodes
      <4>2. n \in Places(sockfd[k])
        BY <3>1, <4>1 DEF Places
      <4> QED BY <1>5, <4>2
    <3> QED BY <3>1
  <2>4. \A fd : fd \in Listed /\ fd # sockfd[k] => fd \in Listed'
    <3>1. /\ \A j \in Thread : Holds(j) /\ j # k => Holds(j)'
          /\ Starting => Starting'
      BY <1>1, <2>2 DEF Holds, Starting
    <3> HIDE DEF Listed, Holds, Starting
    <3> QED BY <1>1, <3>1, ListedIs, ListedIsNext
  <2>5. sockfd[k] \in Listed
    <3>1. Holds(k)
      BY <1>1 DEF Holds
    <3> HIDE DEF Listed, Holds
    <3> QED BY <3>1, ListedIs
  <2> HIDE DEF Nodes, Listed
  <2>6. raced
    <3> SUFFICES ASSUME ~raced PROVE FALSE
      OBVIOUS
    <3> QED BY <2>3, <2>5 DEF Placed
  <2>7. (\A a \in Nodes : data[a] \in Listed)'
    BY <1>1, <1>3, <2>3, <2>4 DEF Placed
  <2> QED BY <1>1, <1>3, <2>1, <2>2, <2>6, <2>7 DEF Placed
<1>6. CASE Places(sockfd[k]) # {}
  <2> DEFINE n == First(Places(sockfd[k]))
  <2>1. n \in Places(sockfd[k])
    <3>1. Places(sockfd[k]) \in SUBSET Nat
      BY WalkStep DEF Places
    <3> QED BY <1>6, <3>1, LeastExists DEF First
  <2>2. n \in DOMAIN At /\ At[n] # NULL /\ data[At[n]] = sockfd[k]
    BY <2>1 DEF Places
  <2>3. /\ temp' = [temp EXCEPT ![k] = At[n]]
        /\ before' = [before EXCEPT ![k] = IF n = 0 THEN NULL ELSE At[n - 1]]
        /\ after' = [after EXCEPT ![k] = next[At[n]]]
        /\ Move(k, "unlink")
    BY <1>6 DEF Find
  <2>4. n # 0 => n - 1 \in DOMAIN At
    BY <2>2, WalkStep
  <2> HIDE DEF n
  <2>5. At[n] \in Nodes /\ (n # 0 => At[n - 1] \in Nodes \cup {NULL})
    <3> HIDE DEF At
    <3> QED BY <2>2, <2>4 DEF Nodes
  <2>6. \A j \in Thread : hpc'[j] = IF j = k THEN "unlink" ELSE hpc[j]
    BY <1>2, <2>3 DEF Move
  <2>7. \A fd : fd \in Listed <=> fd \in Listed'
    <3>1. (\A j \in Thread : Holds(j) <=> Holds(j)') /\ (Starting <=> Starting')
      BY <1>1, <2>6 DEF Holds, Starting
    <3> HIDE DEF Listed, Holds, Starting
    <3> QED BY <1>1, <3>1, ListedIs, ListedIsNext
  <2>8. \A j \in Thread : hpc'[j] = "unlink" =>
          /\ temp'[j] \in Nodes' /\ data'[temp'[j]] = sockfd'[j]
          /\ before'[j] \in Nodes' \cup {NULL}
    <3> HIDE DEF Nodes
    <3> QED BY <1>1, <1>2, <1>3, <2>2, <2>3, <2>5, <2>6 DEF Placed
  <2>9. ~raced' => \A j \in Thread : hpc'[j] = "unlink" => after'[j] = next'[temp'[j]]
    <3> HIDE DEF Nodes
    <3> QED BY <1>1, <1>2, <2>3, <2>6 DEF Placed
  <2> HIDE DEF Nodes, Listed
  <2> QED BY <1>1, <1>3, <2>7, <2>8, <2>9 DEF Placed
<1> QED BY <1>5, <1>6

\* ... and takes it out, with everything behind it if main had not linked to it
\* yet when what follows it was read.
LEMMA PlacedUnlink ==
  ASSUME ListInv, ListInv', TypeInv, Own, Placed, Punctual, Punctual',
         NEW k \in Thread, Unlink(k)
  PROVE  Placed'
<1>1. /\ UNCHANGED <<pc, newnode, current, connect_FD, data, raced, sockfd>>
      /\ hpc[k] = "unlink" /\ hpc' = [hpc EXCEPT ![k] = "close"]
      /\ temp' = [temp EXCEPT ![k] = NULL] /\ before' = [before EXCEPT ![k] = NULL]
      /\ after' = [after EXCEPT ![k] = NULL]
      /\ IF before[k] = NULL
           THEN head' = after[k] /\ UNCHANGED next
           ELSE next' = [next EXCEPT ![before[k]] = after[k]] /\ UNCHANGED head
  BY DEF Unlink, Move, Bypass, mainVars, history
<1>2. PICK t, b, e : t = temp[k] /\ b = before[k] /\ e = after[k]
  OBVIOUS
<1>3. HeapTypeOK /\ Links /\ HeapTypeOK' /\ Links' /\ HeldPointers /\ AppendPointers
  BY DEF ListInv, Punctual, Safe
<1>4. /\ t \in Nodes /\ data[t] = sockfd[k] /\ b \in Nodes \cup {NULL}
      /\ e \in {next[t], NULL} /\ (~raced => e = next[t])
      /\ IF b = NULL THEN head = t ELSE next[b] = t
  BY <1>1, <1>2, <1>3 DEF Placed, HeldPointers
<1>5. /\ Nodes \subseteq live /\ Nodes \subseteq Addr /\ NULL \notin Nodes
      /\ head \in Nodes \cup {NULL}
      /\ \A a \in Nodes : next[a] \in Nodes \cup {NULL}
  BY <1>3, NodesClosed
<1>6. /\ Nodes' \subseteq Addr /\ NULL \notin Nodes'
      /\ head' \in Nodes' \cup {NULL}
      /\ \A a \in Nodes' : next'[a] \in Nodes' \cup {NULL}
  BY <1>3, NodesClosedNext
<1>7. next[t] # t
  BY <1>3, <1>4, NoLoop
<1>8. /\ head' = IF b = NULL THEN e ELSE head
      /\ \A a \in Addr : next'[a] = IF a = b THEN e ELSE next[a]
  BY <1>1, <1>2, <1>3, PthreadAssumption DEF HeapTypeOK
<1> HIDE DEF Nodes
<1>9. Nodes' \subseteq Nodes \ {t}
  <2> DEFINE S == Nodes \ {t}
  <2>1. S \in SUBSET Addr
    BY <1>5
  <2>2. e \in S \cup {NULL}
    BY <1>4, <1>5, <1>7
  <2>3. head' \in S \cup {NULL}
    <3>1. head = t => b = NULL
      BY <1>3, <1>4, <1>5 DEF Links
    <3> QED BY <1>5, <1>8, <2>2, <3>1
  <2>4. \A a \in S : next'[a] \in S \cup {NULL}
    <3> SUFFICES ASSUME NEW a \in S, a # b PROVE next[a] # t
      BY <1>5, <1>8, <2>2
    <3>1. a \in live /\ t # NULL /\ (b # NULL => b \in live /\ next[b] = t)
      BY <1>4, <1>5
    <3> QED BY <1>3, <1>4, <3>1 DEF Links
  <2> HIDE DEF S
  <2>5. Nodes' \subseteq S
    BY <2>1, <2>3, <2>4, NodesLeastNext
  <2> QED BY <2>5 DEF S
<1>10. ~raced => Nodes \ {t} \subseteq Nodes'
  <2> SUFFICES ASSUME e = next[t] PROVE Nodes \ {t} \subseteq Nodes'
    BY <1>4
  <2>1. b # NULL => b \in Nodes'
    <3> SUFFICES ASSUME b # NULL, b \notin Nodes' PROVE FALSE
      OBVIOUS
    <3>1. /\ head \in Nodes' \cup {NULL} /\ Nodes' \in SUBSET Addr
          /\ \A a \in Nodes' : next[a] \in Nodes' \cup {NULL}
      BY <1>6, <1>8
    <3>2. Nodes \subseteq Nodes'
      BY <3>1, NodesLeast
    <3> QED BY <1>4, <3>2
  <2>2. e \in Nodes' \cup {NULL}
    BY <1>4, <1>5, <1>6, <1>8, <2>1
  <2> DEFINE S == Nodes' \cup {t}
  <2>3. S \in SUBSET Addr /\ head \in S \cup {NULL}
    BY <1>4, <1>5, <1>6, <1>8
  <2>4. \A a \in S : next[a] \in S \cup {NULL}
    BY <1>4, <1>6, <1>8, <2>2
  <2> HIDE DEF S
  <2>5. Nodes \subseteq S
    BY <2>3, <2>4, NodesLeast
  <2> QED BY <2>5 DEF S
<1>11. \A j \in Thread : hpc'[j] = IF j = k THEN "close" ELSE hpc[j]
  BY <1>1, <1>3 DEF HeapTypeOK
<1>12. \A fd : fd \in Listed' <=> fd \in Listed /\ fd # sockfd[k]
  <2>1. /\ \A j \in Thread : Holds(j)' <=> Holds(j) /\ j # k
        /\ Starting' <=> Starting
    BY <1>1, <1>11 DEF Holds, Starting
  <2>2. /\ \A j \in Thread : Holds(j) /\ sockfd[j] = sockfd[k] => j = k
        /\ Starting => sockfd[k] # connect_FD
    BY <1>1 DEF Own, Owners, Holds, Starting, Handover, InHand
  <2> HIDE DEF Listed, Holds, Starting
  <2> QED BY <1>1, <2>1, <2>2, ListedIs, ListedIsNext
<1> HIDE DEF Listed
<1>13. \A a \in Nodes : a # t => data[a] # sockfd[k]
  BY <1>4 DEF Placed
<1>14. /\ ({data[a] : a \in Nodes} \subseteq Listed)'
       /\ (\A x, y \in Nodes : data[x] = data[y] => x = y)'
  BY <1>1, <1>9, <1>12, <1>13 DEF Placed
<1>15. ~raced => (Listed \subseteq {data[a] : a \in Nodes})'
  BY <1>1, <1>4, <1>10, <1>12 DEF Placed
<1>16. \A j \in Thread : hpc'[j] # "unlink"
  BY <1>1, <1>11 DEF ListInv, Exclusive
<1>17. ASSUME pc \in {"load", "walk", "link"}
       PROVE  /\ data'[newnode] = connect_FD /\ next'[newnode] = NULL /\ raced
  <2>1. raced /\ newnode \in live /\ head # newnode
    BY <1>1, <1>3, <1>17 DEF AppendPointers, Deleting
  <2>2. data[newnode] = connect_FD /\ next[newnode] = NULL
    BY <1>17 DEF Placed
  <2>3. newnode \in Addr /\ newnode # b
    BY <1>3, <1>4, <1>5, <2>1, <2>2, PthreadAssumption DEF HeapTypeOK
  <2> QED BY <1>1, <1>8, <2>1, <2>2, <2>3
<1> QED BY <1>1, <1>14, <1>15, <1>16, <1>17 DEF Placed

\* Every step keeps Placed.
LEMMA PlacedKeeps ==
  ASSUME ListInv, ListInv', TypeInv, Own, Placed, Punctual, Punctual',
         [Next]_vars
  PROVE  Placed'
<1>1. ASSUME NEW k \in Thread, HandlerStep(k)
      PROVE  Placed'
  BY <1>1, PlacedHandler, PlacedFind, PlacedUnlink
<1>2. CASE Crash \/ SigInt \/ ClientsAct \/ UNCHANGED vars
  <2>1. /\ UNCHANGED <<head, data, next, hpc, sockfd, temp, before, after>>
        /\ UNCHANGED <<raced, newnode, current, connect_FD>>
        /\ \/ pc' = pc
           \/ pc' = "test" /\ pc = "select"
           \/ pc' = "crashed"
    BY <1>2 DEF Crash, SigInt, ClientsAct, vars, mainVars, heapVars, thrVars,
       history
  <2>2. pc' = pc \/ (pc' = "test" /\ pc = "select")
    BY <2>1 DEF Punctual, Safe, Running
  <2>3. Listed' = Listed
    BY <2>1, <2>2, ListedSame DEF Holds, Starting
  <2> HIDE DEF Listed
  <2> QED BY <2>1, <2>2, <2>3, PlacedQuiet
<1>3. CASE MainStep
  BY <1>3, PlacedAppend, PlacedLink, PlacedMain
<1> QED BY <1>1, <1>2, <1>3 DEF Next

----------------------------------------------------------------------------
(* Inv is inductive, with ListInv. *)

\* OwnClient is what Own says.
LEMMA OwnIsClient == Own => OwnClient
BY DEF Own, OwnClient, Handover

\* At the start.
LEMMA InvInit == Init => Inv
<1> SUFFICES ASSUME Init PROVE Inv
  OBVIOUS
<1>1. TypeOK /\ Known
  BY TypeInit DEF TypeInv
<1>2. Matched
  BY MatchedInit DEF Init
<1>3. /\ \A k \in Thread : hpc[k] = "none"
      /\ head = NULL /\ pc = "test"
  BY DEF Init
<1>4. Own /\ ~InHand
  BY <1>3 DEF Own, Owners, Handover, InHand, Appending
<1>5. Reasons
  BY <1>3 DEF Reasons, Owners
<1>6. Placed
  <2>1. Nodes = {}
    <3>1. {} \in SUBSET Addr
      OBVIOUS
    <3>2. Nodes \subseteq {}
      BY <1>3, <3>1, NodesLeast
    <3> QED BY <3>2
  <2>2. \A fd : fd \notin Listed
    <3>1. ~Starting /\ \A k \in Thread : ~Holds(k)
      BY <1>3 DEF Starting, Holds
    <3> HIDE DEF Listed
    <3> QED BY <3>1, ListedIs
  <2> HIDE DEF Nodes, Listed
  <2> QED BY <1>3, <2>1, <2>2 DEF Placed
<1> QED BY <1>1, <1>2, <1>4, <1>5, <1>6, OwnIsClient DEF Inv, Own

\* Every step keeps Inv.
LEMMA InvKept == ListInv /\ ListInv' /\ Inv /\ [Next]_vars => Inv'
<1> SUFFICES ASSUME ListInv, ListInv', Inv, [Next]_vars PROVE Inv'
  OBVIOUS
<1>1. TypeInv /\ Matched
  BY DEF Inv, TypeInv
<1>2. TypeInv' /\ Matched'
  BY <1>1, TypeKept, MatchedKeeps
<1>3. CASE ~Punctual'
  BY <1>2, <1>3 DEF Inv, OwnClient, TypeInv, Punctual, Safe
<1>4. CASE Punctual'
  <2>1. Punctual
    BY <1>4, PunctualBefore
  <2>2. Own /\ Placed /\ (~flag => Reasons)
    BY <2>1 DEF Inv, Own, OwnClient, Punctual, Safe
  <2>3. Own' /\ Placed'
    BY <1>1, <1>4, <2>1, <2>2, OwnKeeps, PlacedKeeps
  <2>4. ~flag' => Reasons'
    <3>1. ~flag' => ~flag
      BY DEF Next, MainStep, TestFlag, Select, AcceptFails, Accept, Refuse,
         Append1, Load, Walk, Link, Create, CloseOne, FreeOne, Return,
         HandlerStep, Start, Stop, Read, LockToCast, Cast, CastDone,
         LockToDelete, Find, Unlink, CloseFd, mainVars, Crash, SigInt,
         ClientsAct, vars
    <3> QED BY <1>1, <1>4, <2>2, <3>1, ReasonsKeep
  <2>5. OwnClient'
    BY <2>3, OwnIsClient, PTL
  <2> QED BY <1>2, <2>3, <2>4, <2>5 DEF Inv, Own, TypeInv
<1> QED BY <1>3, <1>4

\* From its accept(2) to its close(2) a connection has one thread and one node,
\* and the thread leaves it for a reason, unless a second connection overtook a
\* starting thread (pthread_socket/server.c:60-113, 155-171).
THEOREM InvHolds == Spec => []Inv
<1> QED BY ListInvHolds, InvInit, InvKept, PTL DEF Spec

\* Every thread has an open descriptor of its own, though all are handed over
\* through the one variable connect_FD (server.c:60, 155, 171).
THEOREM OwnClientHolds == Spec => []OwnClient
<1>1. Inv => OwnClient
  BY DEF Inv
<1> QED BY InvHolds, <1>1, PTL

\* The list that main extends without the mutex holds the descriptors of the
\* threads, each once, unless an append overlapped a deletion
\* (server.c:103-105, 170).
THEOREM ListExactHolds == Spec => []ListExact
<1>1. Inv => ListExact
  <2> HIDE DEF Nodes, Listed
  <2> QED BY DEF Inv, ListExact, Placed
<1> QED BY InvHolds, <1>1, PTL

\* The server closes a connection only if it has ended, if its client says
\* "exit", at the maximum, and when it stops (server.c:65-113, 160-168).
THEOREM NoWrongfulCloseHolds == Spec => NoWrongfulClose
<1> DEFINE Right(c) ==
      \/ late \/ flag \/ Closing \/ pc = "refuse"
      \/ peer[c] \in {"fin", "rst"}
      \/ \E k \in Thread : /\ hpc[k] = "close"
                           /\ recv_buff[k] = <<[from |-> c, said |-> <<"exit">>]>>
    Rightly == \A c \in Conn : peer[c] # "done" /\ peer'[c] = "done" => Right(c)
<1>1. Inv /\ [Next]_vars => [Rightly]_vars
  <2> SUFFICES ASSUME Inv, Next, NEW c \in Conn, peer[c] # "done",
                      peer'[c] = "done"
               PROVE  Right(c)
    OBVIOUS
  <2>1. TypeInv /\ SockTypeOK /\ Running
    BY DEF Inv, TypeInv, TypeOK, Next
  <2>2. CASE MainStep
    BY <2>2 DEF MainStep, TestFlag, Select, AcceptFails, Accept, Refuse,
       Append1, Load, Walk, Link, Create, CloseOne, FreeOne, Return, sockVars,
       Closing
  <2>3. ASSUME NEW k \in Thread, HandlerStep(k)
        PROVE  Right(c)
    <3>1. CASE Cast(k)
      <4>1. peer' = peer \/ \E to : peer' \in Answers(to)
        BY <3>1 DEF Cast
      <4> QED BY <2>1, <4>1, AnswersType
    <3>2. CASE CloseFd(k)
      <4>1. hpc[k] = "close" /\ Close(sockfd[k]) /\ k \in Owners
        BY <3>2 DEF CloseFd, Owners
      <4>2. fdt[sockfd[k]] = c
        BY <2>1, <4>1, CloseCloses
      <4> SUFFICES ASSUME ~late, ~flag, ~Closing PROVE Right(c)
        OBVIOUS
      <4>3. Reasons
        BY <2>1 DEF Inv
      <4> QED BY <4>1, <4>2, <4>3 DEF Reasons
    <3>3. CASE ~ (Cast(k) \/ CloseFd(k))
      BY <2>3, <3>3 DEF HandlerStep, Start, Stop, Read, LockToCast, CastDone,
         LockToDelete, Find, Unlink, sockVars
    <3> QED BY <3>1, <3>2, <3>3
  <2>4. CASE Crash \/ SigInt
    BY <2>4 DEF Crash, SigInt, sockVars
  <2>5. CASE ClientsAct
    <3>1. PICK d \in Conn : Connect(d) \/ Hangup(d) \/ \E m \in Message : Send(d, m)
      BY <2>5 DEF ClientsAct, ClientStep
    <3> QED BY <2>1, <3>1 DEF Connect, Hangup, Send, SockTypeOK
  <2> QED BY <2>2, <2>3, <2>4, <2>5 DEF Next
<1> QED BY InvHolds, <1>1, PTL DEF Spec, NoWrongfulClose
=============================================================================
