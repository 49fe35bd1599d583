------------------------- MODULE EpollServer_proofs -------------------------
(***************************************************************************)
(* The safety of the epoll server for any number of clients, texts and     *)
(* descriptors.  Inv is shown to be inductive, action by action; from it   *)
(* follow what holds of the list and of the events, what edge triggering   *)
(* can lose and what it cannot, and the refinement of the chat room.       *)
(***************************************************************************)
EXTENDS EpollServer, Sockets_proofs

Distinct == \A m, n \in DOMAIN list : list[m] = list[n] => m = n

----------------------------------------------------------------------------
(* The list. *)

\* deleteNode takes out one node, the one with the descriptor: the nodes before
\* it stay where they are, the ones behind it move up (singlylinkedlist.c:105).
LEMMA DeleteNodeTakesOut ==
  ASSUME list \in Seq(Fd), Distinct, NEW fd \in Listed
  PROVE  /\ DeleteNode(fd) \in Seq(Fd)
         /\ \A m, n \in DOMAIN DeleteNode(fd) :
              DeleteNode(fd)[m] = DeleteNode(fd)[n] => m = n
         /\ {DeleteNode(fd)[n] : n \in DOMAIN DeleteNode(fd)} = Listed \ {fd}
<1> DEFINE First(n) == list[n] = fd /\ \A m \in 1..(n - 1) : list[m] # fd
           n == CHOOSE p \in DOMAIN list : First(p)
           rest == DeleteNode(fd)
<1>1. /\ DOMAIN list = 1..Len(list) /\ Len(list) \in Nat
      /\ \A m \in DOMAIN list : list[m] \in Fd
  BY LenProperties, ElementOfSeq
<1>2. n \in DOMAIN list /\ list[n] = fd
  <2>1. PICK p \in DOMAIN list : list[p] = fd
    BY DEF Listed
  <2>2. \A m \in 1..(p - 1) : m \in DOMAIN list /\ m # p
    BY <1>1, <2>1
  <2>3. First(p)
    BY <2>1, <2>2 DEF Distinct
  <2> HIDE DEF First
  <2>4. n \in DOMAIN list /\ First(n)
    BY <2>1, <2>3
  <2> QED BY <2>4 DEF First
<1>3. rest = SubSeq(list, 1, n - 1) \o SubSeq(list, n + 1, Len(list))
  BY DEF DeleteNode
<1> HIDE DEF n, rest
<1>4. n \in Nat /\ 1 <= n /\ n <= Len(list)
  BY <1>1, <1>2
<1>5. /\ SubSeq(list, 1, n - 1) \in Seq(Fd)
      /\ Len(SubSeq(list, 1, n - 1)) = n - 1
      /\ \A k \in 1..(n - 1) : SubSeq(list, 1, n - 1)[k] = list[k]
  <2>1. n - 1 \in 0..Len(list)
    BY <1>1, <1>4
  <2> QED BY <2>1, Prefix
<1>6. /\ SubSeq(list, n + 1, Len(list)) \in Seq(Fd)
      /\ Len(SubSeq(list, n + 1, Len(list))) = Len(list) - n
      /\ \A k \in 1..(Len(list) - n) :
           SubSeq(list, n + 1, Len(list))[k] = list[n + k]
  <2>1. n \in 0..Len(list)
    BY <1>1, <1>4
  <2> QED BY <2>1, Suffix
<1>7. /\ rest \in Seq(Fd) /\ Len(rest) = Len(list) - 1
      /\ \A k \in 1..(Len(list) - 1) :
           rest[k] = IF k < n THEN list[k] ELSE list[k + 1]
  <2> DEFINE s == SubSeq(list, 1, n - 1)
             t == SubSeq(list, n + 1, Len(list))
  <2>1. /\ rest \in Seq(Fd) /\ Len(rest) = Len(s) + Len(t)
        /\ \A k \in 1..(Len(s) + Len(t)) :
             rest[k] = IF k <= Len(s) THEN s[k] ELSE t[k - Len(s)]
    BY <1>3, <1>5, <1>6, ConcatProperties
  <2>2. /\ Len(s) = n - 1 /\ Len(t) = Len(list) - n
        /\ \A k \in 1..(n - 1) : s[k] = list[k]
        /\ \A k \in 1..(Len(list) - n) : t[k] = list[n + k]
    BY <1>5, <1>6
  <2> HIDE DEF s, t
  <2>3. ASSUME NEW k \in 1..(Len(list) - 1)
        PROVE  rest[k] = IF k < n THEN list[k] ELSE list[k + 1]
    <3>1. CASE k < n
      BY <1>1, <1>4, <2>1, <2>2, <3>1
    <3>2. CASE ~(k < n)
      <4>1. /\ k - (n - 1) \in 1..(Len(list) - n)
            /\ n + (k - (n - 1)) = k + 1 /\ ~(k <= n - 1)
            /\ k \in 1..((n - 1) + (Len(list) - n))
        BY <1>1, <1>4, <3>2
      <4> QED BY <2>1, <2>2, <3>2, <4>1
    <3> QED BY <3>1, <3>2
  <2> QED BY <1>1, <1>4, <2>1, <2>2, <2>3
<1>8. DOMAIN rest = 1..(Len(list) - 1)
  BY <1>7, LenProperties
<1>9. \A k \in DOMAIN rest : \E p \in DOMAIN list :
        p # n /\ rest[k] = list[p] /\ p = (IF k < n THEN k ELSE k + 1)
  <2> SUFFICES ASSUME NEW k \in DOMAIN rest
               PROVE  \E p \in DOMAIN list :
                 p # n /\ rest[k] = list[p] /\ p = (IF k < n THEN k ELSE k + 1)
    OBVIOUS
  <2>1. k \in Nat /\ 1 <= k /\ k <= Len(list) - 1
    BY <1>1, <1>8
  <2>2. CASE k < n
    BY <1>1, <1>4, <1>7, <2>1, <2>2
  <2>3. CASE ~(k < n)
    <3>1. k + 1 \in DOMAIN list /\ k + 1 # n /\ k \in 1..(Len(list) - 1)
      BY <1>1, <1>4, <2>1, <2>3
    <3> QED BY <1>7, <2>3, <3>1
  <2> QED BY <2>2, <2>3
<1>10. \A p \in DOMAIN list : p # n => \E k \in DOMAIN rest : rest[k] = list[p]
  <2> SUFFICES ASSUME NEW p \in DOMAIN list, p # n
               PROVE  \E k \in DOMAIN rest : rest[k] = list[p]
    OBVIOUS
  <2>1. p \in Nat /\ 1 <= p /\ p <= Len(list)
    BY <1>1
  <2>2. CASE p < n
    <3>1. p \in 1..(Len(list) - 1)
      BY <1>1, <1>4, <2>1, <2>2
    <3> QED BY <1>7, <1>8, <2>2, <3>1
  <2>3. CASE p > n
    <3>1. /\ p - 1 \in 1..(Len(list) - 1) /\ ~(p - 1 < n)
          /\ (p - 1) + 1 = p
      BY <1>1, <1>4, <2>1, <2>3
    <3>2. rest[p - 1] = list[(p - 1) + 1]
      BY <1>7, <3>1
    <3> QED BY <1>8, <3>1, <3>2
  <2> QED BY <1>4, <2>1, <2>2, <2>3
<1>11. \A j, k \in DOMAIN rest : rest[j] = rest[k] => j = k
  BY <1>1, <1>4, <1>8, <1>9 DEF Distinct
<1>12. {rest[k] : k \in DOMAIN rest} = Listed \ {fd}
  BY <1>2, <1>9, <1>10 DEF Listed, Distinct
<1> QED BY <1>7, <1>11, <1>12 DEF rest

\* A client that is accepted is on the list once (server.c:131).
LEMMA AppendedOnce ==
  ASSUME list \in Seq(Fd), Distinct, NEW fd \in Fd \ Listed,
         list' = Append(list, fd)
  PROVE  list' \in Seq(Fd) /\ Distinct' /\ Listed' = Listed \cup {fd}
<1>1. /\ DOMAIN list = 1..Len(list) /\ Len(list) \in Nat
      /\ list' \in Seq(Fd) /\ Len(list') = Len(list) + 1
      /\ DOMAIN list' = 1..(Len(list) + 1)
      /\ list'[Len(list) + 1] = fd
      /\ \A n \in DOMAIN list : list'[n] = list[n]
  BY LenProperties
<1>2. \A n \in DOMAIN list' : n \in DOMAIN list \/ n = Len(list) + 1
  BY <1>1
<1>3. \A n \in DOMAIN list : n \in DOMAIN list' /\ list[n] # fd
  BY <1>1 DEF Listed
<1>4. Len(list) + 1 \in DOMAIN list'
  BY <1>1
<1>5. Distinct'
  BY <1>1, <1>2, <1>3 DEF Distinct
<1>6. Listed' = Listed \cup {fd}
  BY <1>1, <1>2, <1>3, <1>4 DEF Listed
<1> QED BY <1>1, <1>5, <1>6

----------------------------------------------------------------------------
(* What Inv says of the clients that are served. *)

\* The listed descriptors are those that are open, and one client has one.
LEMMA ListedIsOpen ==
  ASSUME Inv, Running
  PROVE  /\ Distinct /\ list \in Seq(Fd)
         /\ \A fd \in Fd : fd \in Listed <=> fdt[fd] # Free
         /\ \A fd \in Listed : fd \in Fd /\ fdt[fd] # Free /\ fdt[fd] \in Conn
         /\ \A fd, other \in Listed : fdt[fd] = fdt[other] => fd = other
<1>1. Listed = {fd \in Fd : fdt[fd] # Free} /\ Distinct
  BY DEF Inv, ListExact, Distinct
<1>2. list \in Seq(Fd) /\ fdt \in [Fd -> Conn \cup {Free}]
  BY DEF Inv, TypeOK, SockTypeOK
<1> QED BY <1>1, <1>2 DEF Inv, Matched

\* A client whose event the loop has come to is there (server.c:144).
LEMMA ReportedIsServed ==
  ASSUME Inv, Running, NEW fd \in events, fd \in Fd
  PROVE  /\ fd \in Listed /\ fdt[fd] \in Conn /\ fdt[fd] # Free
         /\ Readable(fdt[fd])
<1>1. fdt[fd] # Free /\ Pending(fd)
  BY DEF Inv, EventsHold
<1>2. fd # listenfd /\ fd # pipe_fd
  BY EpollAssumption
<1> QED BY <1>1, <1>2, ListedIsOpen DEF Pending

----------------------------------------------------------------------------
(* Inv is inductive: the initial state and each action. *)

\* At the start.
LEMMA InvInit == Init => Inv
<1> SUFFICES ASSUME Init PROVE Inv
  OBVIOUS
<1>1. SockTypeOK /\ Matched
  BY SockInitType, MatchedInit DEF Init
<1>2. list \in Seq(Fd) /\ DOMAIN list = {}
  BY DEF Init
<1>3. TypeOK
  BY <1>1, <1>2 DEF Init, TypeOK
<1>4. ListExact
  BY <1>2 DEF Init, SockInit, ListExact, Listed
<1>5. NotedOpen /\ EventsHold
  BY DEF Init, NotedOpen, EventsHold
<1> QED BY <1>1, <1>3, <1>4, <1>5 DEF Inv

\* epoll forgets a descriptor that is closed (close ends the watch).
LEMMA NoteKeeps ==
  ASSUME Inv, Running, Note(ready)
  PROVE  /\ ready' \in SUBSET (Fd \cup {listenfd, pipe_fd})
         /\ NotedOpen'
<1>1. Edges \subseteq Fd \cup {listenfd}
  BY DEF Edges
<1>2. \A fd \in Edges \cap Fd : fdt'[fd] # Free
  BY EpollAssumption DEF Edges
<1>3. ready' = (ready \ {fd \in Fd : fdt'[fd] # fdt[fd]}) \cup Edges
  BY DEF Note
<1> HIDE DEF Edges
<1> QED BY <1>1, <1>2, <1>3 DEF Inv, TypeOK, NotedOpen

\* An event that is left holds, if what it is about is as before.
LEMMA EventsKept ==
  ASSUME Inv, Running, events' \subseteq events,
         \A fd \in events' \cap Fd :
           /\ fdt'[fd] = fdt[fd]
           /\ Readable(fdt[fd]) => Readable(fdt[fd])',
         listenfd \in events' => UNCHANGED backlog \/ backlog' # << >>,
         pipe_fd \in events' => UNCHANGED pipe \/ pipe'
  PROVE  EventsHold'
<1> SUFFICES ASSUME NEW fd \in events'
             PROVE  /\ fd \in Fd => fdt'[fd] # Free
                    /\ Pending(fd)'
  BY DEF EventsHold
<1>1. /\ fd \in events /\ fd \in Fd \cup {listenfd, pipe_fd}
      /\ fd \in Fd => fdt[fd] # Free
      /\ Pending(fd)
  BY DEF Inv, TypeOK, EventsHold
<1>2. CASE fd \in Fd
  BY <1>1, <1>2, EpollAssumption DEF Pending, Readable
<1>3. CASE fd = listenfd
  BY <1>1, <1>3, EpollAssumption DEF Pending
<1>4. CASE fd = pipe_fd
  <2>1. Pending(fd) = pipe /\ Pending(fd)' = pipe'
    BY <1>4, EpollAssumption DEF Pending
  <2>2. pipe
    BY <1>1, <2>1, Zenon
  <2>3. pipe'
    BY <1>4, <2>2, Zenon
  <2> QED BY <1>1, <1>4, <2>1, <2>3, EpollAssumption, Zenon
<1> QED BY <1>1, <1>2, <1>3, <1>4

\* The steps that touch neither the clients nor the list.
LEMMA InvControl ==
  ASSUME Inv, Wait \/ Exit \/ AcceptFails \/ SigInt \/ UNCHANGED vars
  PROVE  Inv'
<1>1. UNCHANGED <<list, sockVars>>
  BY DEF Wait, Exit, AcceptFails, SigInt, vars
<1>2. UNCHANGED <<backlog, fdt, peer, rx, sent, got>>
  BY <1>1 DEF sockVars
<1>3. Running' => Running
  BY DEF Wait, Exit, AcceptFails, SigInt, vars, Reported, Running
<1>4. TypeOK'
  <2>1. SockTypeOK' /\ list' \in Seq(Fd)
    BY <1>1, <1>2 DEF Inv, TypeOK, SockTypeOK
  <2>2. /\ ready' \in SUBSET (Fd \cup {listenfd, pipe_fd})
        /\ events' \in SUBSET (Fd \cup {listenfd, pipe_fd})
        /\ pipe' \in BOOLEAN
    BY DEF Wait, Exit, AcceptFails, SigInt, vars, Reported, Inv, TypeOK
  <2>3. /\ pc' \in {"wait", "events", "close", "exited", "killed"}
        /\ pc' = "wait" => events' = {}
        /\ pc' = "events" => events' # {}
    BY DEF Wait, Exit, AcceptFails, SigInt, vars, Inv, TypeOK
  <2> QED BY <2>1, <2>2, <2>3 DEF TypeOK
<1>5. Matched'
  BY <1>2 DEF Inv, Matched
<1>6. ListExact'
  BY <1>1, <1>2, <1>3 DEF Inv, ListExact, Listed
<1>7. NotedOpen'
  <2>1. ready' \subseteq ready \cup {pipe_fd}
    BY DEF Wait, Exit, AcceptFails, SigInt, vars
  <2> QED BY <1>2, <1>3, <2>1, EpollAssumption DEF Inv, NotedOpen
<1>8. EventsHold'
  <2>1. CASE Wait
    <3>1. \A fd \in events' :
            fd \in ready /\ Pending(fd) /\ (fd \in Fd => fdt[fd] # Free)
      BY <2>1 DEF Wait, Inv, NotedOpen, Running
    <3> QED BY <1>2, <2>1, <3>1 DEF EventsHold, Pending, Readable, Wait
  <2>2. CASE ~Wait /\ Running'
    <3>1. /\ events' \subseteq events
          /\ pipe_fd \in events' => UNCHANGED pipe \/ pipe'
      BY <2>2, EpollAssumption DEF Exit, AcceptFails, SigInt, vars, Reported
    <3> QED BY <1>2, <1>3, <2>2, <3>1, EventsKept DEF Readable
  <2> QED BY <2>1, <2>2 DEF EventsHold
<1> QED BY <1>4, <1>5, <1>6, <1>7, <1>8 DEF Inv

\* A step after which main has returned or the process is dead.
LEMMA InvEnds ==
  ASSUME Inv, CloseAll \/ \E fd \in events : DieWriting(fd)
  PROVE  Inv'
<1>1. /\ ~Running' /\ UNCHANGED <<ready, pipe, backlog, rx, sent>>
      /\ UNCHANGED events \/ pc' = "killed"
  BY DEF CloseAll, DieWriting, Running
<1>2. CASE CloseAll
  <2>1. /\ fdt' \in [Fd -> Conn \cup {Free}] /\ peer' \in [Conn -> PeerState]
        /\ list' \in Seq(Fd)
    BY <1>2 DEF CloseAll, Inv, TypeOK, SockTypeOK, PeerState
  <2>2. TypeOK'
    BY <1>1, <1>2, <2>1 DEF CloseAll, Inv, TypeOK, SockTypeOK
  <2>3. Matched'
    <3>1. /\ \A fd \in Fd : fdt'[fd] \in {fdt[fd], Free}
          /\ \A c \in Conn : peer[c] # "new" => peer'[c] # "new"
      BY <1>2 DEF CloseAll
    <3> QED BY <1>1, <3>1, MatchedKept DEF Inv, TypeOK
  <2> QED BY <1>1, <2>2, <2>3 DEF Inv, ListExact, NotedOpen, EventsHold
<1>3. CASE \E fd \in events : DieWriting(fd)
  <2>1. PICK fd \in events : DieWriting(fd)
    BY <1>3
  <2>2. Running /\ fd \in Fd /\ rx[fdt[fd]] # << >>
    BY <2>1 DEF DieWriting, Reported, Running
  <2>3. fdt[fd] \in Conn
    BY <2>2, ReportedIsServed
  <2>4. [from |-> fdt[fd], said |-> ReadChunk(fdt[fd])] \in Entry
    BY <2>2, <2>3, ReadType DEF Entry, Inv, TypeOK
  <2>5. got' \in [Conn -> Seq(Entry)]
    BY <2>1, <2>4, DeliveredType DEF DieWriting, Inv, TypeOK
  <2>6. TypeOK'
    BY <1>1, <2>1, <2>5 DEF DieWriting, Reported, Inv, TypeOK, SockTypeOK
  <2>7. Matched'
    BY <2>1 DEF DieWriting, Inv, Matched
  <2> QED BY <1>1, <2>6, <2>7 DEF Inv, ListExact, NotedOpen, EventsHold
<1> QED BY <1>2, <1>3

\* A client takes the lowest free descriptor, which no event is about.
LEMMA InvAccept ==
  ASSUME Inv, Accept
  PROVE  Inv'
<1> DEFINE c == Head(backlog)
           connfd == LowestFreeFd
<1>1. /\ backlog # << >> /\ Running /\ Running' /\ c \in Conn
      /\ backlog' = Tail(backlog) /\ backlog' \in Seq(Conn)
  BY BacklogHead
     DEF Accept, Acceptable, Reported, LoopEnds, Running, Inv, TypeOK
<1>2. connfd \in Fd /\ fdt[connfd] = Free /\ FreeFds # {}
  BY LowestFreeFdIsFree DEF Accept, Acceptable, Inv, TypeOK, FreeFds
<1>3. /\ fdt' = Opened(connfd, c) /\ list' = Append(list, connfd)
      /\ UNCHANGED <<pipe, peer, rx, sent, got>>
      /\ events' = events \ {listenfd} /\ Note(ready)
      /\ pc' = IF events' = {} THEN "wait" ELSE "events"
  BY DEF Accept, Reported, LoopEnds
<1>4. /\ fdt'[connfd] = c
      /\ \A fd \in Fd : fd # connfd => fdt'[fd] = fdt[fd]
      /\ fdt' \in [Fd -> Conn \cup {Free}]
  BY <1>1, <1>2, <1>3 DEF Opened, Inv, TypeOK, SockTypeOK
<1>5. list' \in Seq(Fd) /\ Distinct' /\ Listed' = Listed \cup {connfd}
  <2>1. list \in Seq(Fd) /\ Distinct /\ connfd \in Fd \ Listed
    BY <1>1, <1>2, ListedIsOpen
  <2> HIDE DEF connfd
  <2> QED BY <1>3, <2>1, AppendedOnce
<1>6. ready' \in SUBSET (Fd \cup {listenfd, pipe_fd}) /\ NotedOpen'
  BY <1>1, <1>3, NoteKeeps
<1>7. TypeOK'
  <2>1. SockTypeOK'
    BY <1>1, <1>3, <1>4 DEF Inv, TypeOK, SockTypeOK
  <2>2. /\ events' \in SUBSET (Fd \cup {listenfd, pipe_fd})
        /\ pipe' \in BOOLEAN
        /\ pc' \in {"wait", "events", "close", "exited", "killed"}
        /\ pc' = "wait" => events' = {}
        /\ pc' = "events" => events' # {}
    BY <1>3 DEF Inv, TypeOK
  <2> QED BY <1>5, <1>6, <2>1, <2>2 DEF TypeOK
<1>8. Matched'
  BY <1>1, <1>2, <1>3, MatchedAccepted DEF Inv, TypeOK
<1>9. ListExact'
  <2>1. \A fd \in Fd : fd \in Listed' <=> fdt'[fd] # Free
    BY <1>1, <1>2, <1>4, <1>5, SocketAssumption, ListedIsOpen
  <2>2. Listed' \subseteq Fd
    BY <1>1, <1>2, <1>5, ListedIsOpen
  <2> QED BY <1>5, <2>1, <2>2 DEF ListExact, Distinct
<1>10. EventsHold'
  <2>1. \A fd \in events' \cap Fd :
          /\ fdt'[fd] = fdt[fd]
          /\ Readable(fdt[fd]) => Readable(fdt[fd])'
    <3> TAKE fd \in events' \cap Fd
    <3>1. fdt[fd] # Free
      BY <1>1, <1>3 DEF Inv, EventsHold
    <3>2. fdt'[fd] = fdt[fd]
      BY <1>2, <1>4, <3>1
    <3> QED BY <1>3, <3>2 DEF Readable
  <2> QED BY <1>1, <1>3, <2>1, EventsKept
<1> QED BY <1>6, <1>7, <1>8, <1>9, <1>10 DEF Inv

\* A client leaves the list, or nobody does.
LEMMA LeaveKeeps ==
  ASSUME Inv, Running, NEW fd \in Listed, Leave(fd) \/ UNCHANGED <<list, fdt>>
  PROVE  /\ list' \in Seq(Fd) /\ Distinct'
         /\ fdt' \in [Fd -> Conn \cup {Free}]
         /\ \A other \in Fd : /\ fdt'[other] \in {fdt[other], Free}
                              /\ other # fd => fdt'[other] = fdt[other]
         /\ Listed' = {other \in Fd : fdt'[other] # Free}
         /\ Leave(fd) => Listed' = Listed \ {fd}
<1>1. /\ list \in Seq(Fd) /\ Distinct /\ fd \in Fd
      /\ Listed = {other \in Fd : fdt[other] # Free}
      /\ fdt \in [Fd -> Conn \cup {Free}]
  BY ListedIsOpen DEF Inv, ListExact, TypeOK, SockTypeOK
<1>2. CASE Leave(fd)
  <2>1. list' \in Seq(Fd) /\ Distinct' /\ Listed' = Listed \ {fd}
    <3>1. list' = DeleteNode(fd)
      BY <1>2 DEF Leave
    <3>2. /\ DeleteNode(fd) \in Seq(Fd)
          /\ \A m, n \in DOMAIN DeleteNode(fd) :
               DeleteNode(fd)[m] = DeleteNode(fd)[n] => m = n
          /\ {DeleteNode(fd)[n] : n \in DOMAIN DeleteNode(fd)} = Listed \ {fd}
      BY <1>1, DeleteNodeTakesOut
    <3>3. Listed' = {list'[n] : n \in DOMAIN list'}
      BY DEF Listed
    <3> HIDE DEF Listed
    <3> QED BY <3>1, <3>2, <3>3 DEF Distinct
  <2>2. fdt' = [fdt EXCEPT ![fd] = Free]
    BY <1>2 DEF Leave, Closed
  <2> QED BY <1>1, <2>1, <2>2
<1>3. CASE ~Leave(fd)
  <2>1. UNCHANGED <<list, fdt>>
    BY <1>3
  <2>2. Distinct' /\ Listed' = Listed
    BY <1>1, <2>1 DEF Distinct, Listed
  <2> QED BY <1>1, <1>3, <2>1, <2>2
<1> QED BY <1>2, <1>3

\* What serving a client may do keeps Inv: read from its connection, write to
\* the others, take its node out and close its descriptor.
LEMMA InvServed ==
  ASSUME Inv, NEW fd \in events, fd \in Fd, Reported(fd), LoopEnds, Note(ready),
         UNCHANGED <<pipe, backlog, sent>>,
         Leave(fd) \/ UNCHANGED <<list, fdt>>,
         peer' \in [Conn -> PeerState], got' \in [Conn -> Seq(Entry)],
         rx' \in [Conn -> Seq(Message)],
         \A d \in Conn : peer[d] # "new" => peer'[d] # "new",
         \A d \in Conn : d # fdt[fd] => (Readable(d) => Readable(d)')
  PROVE  Inv'
<1>1. /\ Running /\ Running' /\ events' = events \ {fd}
      /\ pc' = IF events' = {} THEN "wait" ELSE "events"
  BY DEF Reported, LoopEnds, Running
<1>2. fd \in Listed /\ fdt[fd] # Free
  BY <1>1, ReportedIsServed
<1>3. /\ list' \in Seq(Fd) /\ Distinct'
      /\ fdt' \in [Fd -> Conn \cup {Free}]
      /\ \A other \in Fd : /\ fdt'[other] \in {fdt[other], Free}
                           /\ other # fd => fdt'[other] = fdt[other]
      /\ Listed' = {other \in Fd : fdt'[other] # Free}
  BY <1>1, <1>2, LeaveKeeps
<1>4. ready' \in SUBSET (Fd \cup {listenfd, pipe_fd}) /\ NotedOpen'
  BY <1>1, NoteKeeps
<1>5. TypeOK'
  <2>1. SockTypeOK'
    BY <1>3 DEF Inv, TypeOK, SockTypeOK
  <2>2. /\ events' \in SUBSET (Fd \cup {listenfd, pipe_fd})
        /\ pipe' \in BOOLEAN
        /\ pc' \in {"wait", "events", "close", "exited", "killed"}
        /\ pc' = "wait" => events' = {}
        /\ pc' = "events" => events' # {}
    BY <1>1 DEF Inv, TypeOK
  <2> QED BY <1>3, <1>4, <2>1, <2>2 DEF TypeOK
<1>6. Matched'
  <2>1. \A other \in Fd : fdt'[other] \in {fdt[other], Free}
    BY <1>3
  <2> QED BY <2>1, MatchedKept DEF Inv, TypeOK
<1>7. ListExact'
  BY <1>3 DEF ListExact, Distinct
<1>8. EventsHold'
  <2>1. \A other \in events' \cap Fd :
          /\ fdt'[other] = fdt[other]
          /\ Readable(fdt[other]) => Readable(fdt[other])'
    <3> SUFFICES ASSUME NEW other \in events' \cap Fd
                 PROVE  /\ fdt'[other] = fdt[other]
                        /\ Readable(fdt[other]) => Readable(fdt[other])'
      OBVIOUS
    <3>1. other # fd /\ other \in events /\ fdt'[other] = fdt[other]
      BY <1>1, <1>3
    <3>2. other \in Listed /\ fdt[other] \in Conn /\ fdt[other] # fdt[fd]
      BY <1>1, <1>2, <3>1, ReportedIsServed, ListedIsOpen
    <3>3. Readable(fdt[other]) => Readable(fdt[other])'
      BY <3>1, <3>2 DEF Readable
    <3> QED BY <3>1, <3>3
  <2> QED BY <1>1, <2>1, EventsKept
<1> QED BY <1>4, <1>5, <1>6, <1>7, <1>8 DEF Inv

\* read returned 0 or failed (server.c:144-152).
LEMMA InvGone ==
  ASSUME Inv, NEW fd \in events, Gone(fd)
  PROVE  Inv'
<1>1. fd \in Fd /\ Reported(fd) /\ fdt[fd] \in Conn
  BY ReportedIsServed DEF Gone, Reported, Running
<1>2. peer' \in [Conn -> PeerState]
  BY <1>1 DEF Gone, Inv, TypeOK, SockTypeOK, PeerState
<1>3. got' \in [Conn -> Seq(Entry)] /\ rx' \in [Conn -> Seq(Message)]
  BY DEF Gone, Inv, TypeOK, SockTypeOK
<1>4. \A d \in Conn : peer[d] # "new" => peer'[d] # "new"
  BY DEF Gone, Inv, TypeOK, SockTypeOK
<1>5. \A d \in Conn : d # fdt[fd] => (Readable(d) => Readable(d)')
  BY DEF Gone, Inv, TypeOK, SockTypeOK, Readable
<1> QED BY <1>1, <1>2, <1>3, <1>4, <1>5, InvServed DEF Gone

\* read returned data (server.c:153-172).
LEMMA InvReadOn ==
  ASSUME Inv, NEW fd \in events, ReadOn(fd)
  PROVE  Inv'
<1> DEFINE c == fdt[fd]
           chunk == ReadChunk(c)
           others == Serving(Listeners(fd))
           entry == [from |-> c, said |-> chunk]
<1>1. fd \in Fd /\ Reported(fd) /\ c \in Conn /\ rx[c] # << >>
  BY ReportedIsServed DEF ReadOn, Reported, Running
<1>2. entry \in Entry /\ Unread(c) \in Seq(Message)
  <2>1. chunk \in Chunk /\ Unread(c) \in Seq(Message)
    BY <1>1, ReadType DEF Inv, TypeOK
  <2> QED BY <1>1, <2>1 DEF Entry
<1>3. /\ got' = Delivered(others, entry)
      /\ \E answered \in Answers(others) :
           peer' = IF IsExit(chunk) THEN [answered EXCEPT ![c] = "done"]
                                    ELSE answered
      /\ Leave(fd) \/ UNCHANGED <<list, fdt>>
      /\ rx' = [rx EXCEPT ![c] = Unread(c)]
      /\ LoopEnds /\ Note(ready) /\ UNCHANGED <<pipe, backlog, sent>>
  BY DEF ReadOn
<1>4. PICK answered \in Answers(others) :
        peer' = IF IsExit(chunk) THEN [answered EXCEPT ![c] = "done"]
                                 ELSE answered
  BY <1>3
<1>5. /\ answered \in [Conn -> PeerState]
      /\ \A d \in Conn : \/ answered[d] = peer[d]
                         \/ peer[d] = "fin" /\ answered[d] = "rst"
  BY AnswersType DEF Inv, TypeOK
<1>6. /\ peer' \in [Conn -> PeerState]
      /\ \A d \in Conn : peer[d] # "new" => peer'[d] # "new"
  BY <1>1, <1>4, <1>5 DEF PeerState
<1>7. got' \in [Conn -> Seq(Entry)] /\ rx' \in [Conn -> Seq(Message)]
  BY <1>1, <1>2, <1>3, DeliveredType DEF Inv, TypeOK, SockTypeOK
<1>8. \A d \in Conn : d # c => (Readable(d) => Readable(d)')
  <2> SUFFICES ASSUME NEW d \in Conn, d # c
               PROVE  Readable(d) => Readable(d)'
    OBVIOUS
  <2>1. rx'[d] = rx[d]
    BY <1>1, <1>3 DEF Inv, TypeOK, SockTypeOK
  <2>2. peer'[d] = answered[d]
    BY <1>4, <1>5
  <2> QED BY <1>5, <2>1, <2>2 DEF Readable
<1> HIDE DEF c, chunk, others, entry
<1> QED BY <1>1, <1>3, <1>6, <1>7, <1>8, InvServed DEF c

\* A client connects, sends or ends its connection.
LEMMA InvClients ==
  ASSUME Inv, ClientsAct
  PROVE  Inv'
<1>1. /\ Running /\ Running' /\ Note(ready) /\ ClientStep
      /\ UNCHANGED <<pc, list, events, pipe>>
  BY DEF ClientsAct, Running
<1>2. /\ UNCHANGED <<fdt, got>>
      /\ \A d \in Conn : peer[d] # "new" =>
           peer'[d] # "new" /\ (Readable(d) => Readable(d)')
      /\ backlog # << >> => backlog' # << >>
  BY <1>1, ClientsKeep DEF Inv, TypeOK
<1>3. ready' \in SUBSET (Fd \cup {listenfd, pipe_fd}) /\ NotedOpen'
  BY <1>1, NoteKeeps
<1>4. TypeOK'
  <2>1. SockTypeOK'
    BY <1>1, ClientStepType DEF Inv, TypeOK
  <2> QED BY <1>1, <1>3, <2>1 DEF Inv, TypeOK
<1>5. Matched'
  BY <1>1, MatchedClients DEF Inv, TypeOK
<1>6. ListExact'
  BY <1>1, <1>2 DEF Inv, ListExact, Listed
<1>7. EventsHold'
  <2>1. \A fd \in events' \cap Fd :
          /\ fdt'[fd] = fdt[fd]
          /\ Readable(fdt[fd]) => Readable(fdt[fd])'
    <3> TAKE fd \in events' \cap Fd
    <3>1. fdt[fd] \in Conn /\ peer[fdt[fd]] # "new"
      BY <1>1, ReportedIsServed DEF Inv, Matched
    <3>2. fdt'[fd] = fdt[fd]
      BY <1>2
    <3>3. Readable(fdt[fd]) => Readable(fdt[fd])'
      BY <1>2, <3>1, <3>2 DEF Readable
    <3> QED BY <3>2, <3>3
  <2>2. listenfd \in events' => backlog' # << >>
    <3>1. listenfd \in events => backlog # << >>
      BY <1>1, EpollAssumption DEF Inv, EventsHold, Pending
    <3> QED BY <1>1, <1>2, <3>1
  <2> QED BY <1>1, <2>1, <2>2, EventsKept
<1> QED BY <1>3, <1>4, <1>5, <1>6, <1>7 DEF Inv

\* Inv is an invariant of the server.
THEOREM InvHolds == Spec => []Inv
<1>1. Inv /\ [Next]_vars => Inv'
  <2> SUFFICES ASSUME Inv, [Next]_vars PROVE Inv'
    OBVIOUS
  <2>1. CASE Wait \/ Exit \/ AcceptFails \/ SigInt \/ UNCHANGED vars
    BY <2>1, InvControl
  <2>2. CASE Accept
    BY <2>2, InvAccept
  <2>3. CASE CloseAll \/ \E fd \in events : DieWriting(fd)
    BY <2>3, InvEnds
  <2>4. CASE \E fd \in events : Gone(fd)
    BY <2>4, InvGone
  <2>5. CASE \E fd \in events : ReadOn(fd)
    BY <2>5, InvReadOn
  <2>6. CASE ClientsAct
    BY <2>6, InvClients
  <2> QED BY <2>1, <2>2, <2>3, <2>4, <2>5, <2>6 DEF Next, ServerStep
<1> QED BY InvInit, <1>1, PTL DEF Spec

\* Every variable keeps its type.
THEOREM TypeCorrect == Spec => []TypeOK
<1>1. Inv => TypeOK
  BY DEF Inv
<1> QED BY InvHolds, <1>1, PTL

\* The list is exact: deleteNode, which does not look for the end of the list
\* (singlylinkedlist.c:119), always finds the node it is called for.
THEOREM ListExactHolds == Spec => []ListExact
<1>1. Inv => ListExact
  BY DEF Inv
<1> QED BY InvHolds, <1>1, PTL

\* An event is still true when the loop comes to it: a read that finds nothing
\* always means that the client is gone (server.c:144).
THEOREM EventsHoldHolds == Spec => []EventsHold
<1>1. Inv => EventsHold
  BY DEF Inv
<1> QED BY InvHolds, <1>1, PTL

----------------------------------------------------------------------------
(* Who is served: one step adds a client, and only three steps remove one. *)

\* Leave takes one client out of those served.
LEMMA LeaveLeaves ==
  ASSUME Inv, Running, NEW fd \in Listed, Leave(fd)
  PROVE  Serving(Listed)' = Serving(Listed) \ {fdt[fd]}
<1>1. /\ Listed' = Listed \ {fd}
      /\ \A other \in Fd : other # fd => fdt'[other] = fdt[other]
  BY LeaveKeeps
<1>2. /\ \A other \in Listed : other \in Fd
      /\ \A f, other \in Listed : fdt[f] = fdt[other] => f = other
  BY ListedIsOpen
<1>3. Serving(Listed)' = {fdt'[other] : other \in Listed \ {fd}}
  BY <1>1 DEF Serving
<1> QED BY <1>1, <1>2, <1>3 DEF Serving

\* Accept adds the first client of the backlog, who was not served.
LEMMA AcceptJoins ==
  ASSUME Inv, Accept
  PROVE  /\ Serving(Listed)' = Serving(Listed) \cup {Head(backlog)}
         /\ Head(backlog) \in Conn \ Serving(Listed)
<1> DEFINE c == Head(backlog)
           connfd == LowestFreeFd
<1>1. /\ backlog # << >> /\ Running /\ c \in Conn
      /\ \A fd \in Fd : fdt[fd] # c
  BY BacklogHead, HeadIsNobody
     DEF Accept, Acceptable, Reported, Running, Inv, TypeOK
<1>2. connfd \in Fd /\ fdt[connfd] = Free
  BY LowestFreeFdIsFree DEF Accept, Acceptable, Inv, TypeOK, FreeFds
<1>3. /\ fdt'[connfd] = c
      /\ \A fd \in Fd : fd # connfd => fdt'[fd] = fdt[fd]
  BY <1>2 DEF Accept, Opened, Inv, TypeOK, SockTypeOK
<1>4. /\ \A fd \in Listed : fd \in Fd /\ fd # connfd
      /\ list \in Seq(Fd) /\ Distinct /\ connfd \in Fd \ Listed
  BY <1>1, <1>2, ListedIsOpen
<1>5. Listed' = Listed \cup {connfd}
  <2>1. list' = Append(list, connfd)
    BY DEF Accept
  <2> HIDE DEF connfd
  <2> QED BY <1>4, <2>1, AppendedOnce
<1>6. Serving(Listed)' = {fdt'[fd] : fd \in Listed \cup {connfd}}
  BY <1>5 DEF Serving
<1> HIDE DEF c, connfd
<1>7. Serving(Listed)' = Serving(Listed) \cup {c}
  BY <1>3, <1>4, <1>6 DEF Serving
<1> QED BY <1>1, <1>4, <1>7 DEF Serving, c

\* The steps after which the same clients are served.
LEMMA SameServed ==
  ASSUME UNCHANGED <<list, fdt>>
  PROVE  Serving(Listed)' = Serving(Listed)
BY DEF Serving, Listed

\* The steps that leave the list and the descriptors alone.
LEMMA QuietList ==
  ASSUME \/ Wait \/ Exit \/ AcceptFails \/ SigInt \/ ClientsAct
         \/ \E fd \in events : DieWriting(fd)
         \/ \E fd \in events : ReadOn(fd) /\ ~IsExit(ReadChunk(fdt[fd]))
         \/ UNCHANGED vars
  PROVE  UNCHANGED <<list, fdt>>
BY DEF Wait, Exit, AcceptFails, SigInt, ClientsAct, ClientStep, Connect, Hangup,
       Send, DieWriting, ReadOn, vars, sockVars

\* A client is dropped only when its connection ended or it said "exit"
\* (server.c:144-171), or when the server leaves.
THEOREM NoWrongfulDropHolds == Spec => NoWrongfulDrop
<1> DEFINE Rightful == \A c \in Serving(Listed) : c \notin Serving(Listed)' =>
                         \/ pc = "close"
                         \/ rx[c] = << >> /\ peer[c] \in {"fin", "rst"}
                         \/ ReadChunk(c) = <<"exit">>
<1>1. Inv /\ [Next]_vars => [Rightful]_vars
  <2> SUFFICES ASSUME Inv, Next PROVE Rightful
    OBVIOUS
  <2>1. CASE UNCHANGED <<list, fdt>>
    BY <2>1, SameServed
  <2>2. CASE CloseAll
    BY <2>2 DEF CloseAll
  <2>3. CASE Accept
    BY <2>3, AcceptJoins
  <2>4. CASE \E fd \in events : Gone(fd)
    <3>1. PICK fd \in events : Gone(fd)
      BY <2>4
    <3>2. /\ fd \in Listed /\ Running /\ Leave(fd)
          /\ Readable(fdt[fd]) /\ rx[fdt[fd]] = << >>
      BY <3>1, ReportedIsServed DEF Gone, Reported, Running
    <3>3. Serving(Listed)' = Serving(Listed) \ {fdt[fd]}
      BY <3>2, LeaveLeaves
    <3> QED BY <3>2, <3>3 DEF Readable
  <2>5. CASE \E fd \in events : ReadOn(fd) /\ IsExit(ReadChunk(fdt[fd]))
    <3>1. PICK fd \in events : ReadOn(fd) /\ IsExit(ReadChunk(fdt[fd]))
      BY <2>5
    <3>2. fd \in Listed /\ Running /\ Leave(fd)
      BY <3>1, ReportedIsServed DEF ReadOn, Reported, Running
    <3>3. Serving(Listed)' = Serving(Listed) \ {fdt[fd]}
      BY <3>2, LeaveLeaves
    <3> QED BY <3>1, <3>3 DEF IsExit
  <2> QED BY <2>1, <2>2, <2>3, <2>4, <2>5, QuietList DEF Next, ServerStep
<1> QED BY InvHolds, <1>1, PTL DEF Spec, NoWrongfulDrop

----------------------------------------------------------------------------
(* What edge triggering can lose. *)

\* What comes true is noted, and a note is kept: so what a step loses is an
\* event that it has taken.
LEMMA LostWasReported ==
  ASSUME Inv, Running, Note(ready), NEW fd \in Watched, Lost(fd)', ~Lost(fd),
         fd \in Fd => fdt'[fd] \in {fdt[fd], Free},
         Pending(fd)' => Pending(fd) \/ fd \in Edges
  PROVE  fd \in events \ events'
<1>1. Pending(fd)' /\ fd \notin ready' \cup events' /\ fd \in Watched'
  BY DEF Lost
<1>2. /\ ready' = (ready \ {f \in Fd : fdt'[f] # fdt[f]}) \cup Edges
      /\ fd \in Fd => fdt'[fd] = fdt[fd]
  BY <1>1, EpollAssumption DEF Note, Watched
<1>3. fd \notin Edges /\ fd \notin ready
  BY <1>1, <1>2
<1>4. Pending(fd)
  BY <1>1, <1>3
<1> QED BY <1>1, <1>3, <1>4 DEF Lost

LossExplained(fd) ==
  \/ fd = listenfd /\ Len(backlog) > 1 /\ backlog' = Tail(backlog)
  \/ fd \in Fd /\ rx'[fdt[fd]] = Unread(fdt[fd]) /\ rx' # rx
  \/ listenfd \in events /\ FreeFds = {} /\ fd \in events

\* A client's step loses nothing.
LEMMA ClientsLoseNothing ==
  ASSUME Inv, ClientsAct, NEW fd \in Watched, Lost(fd)'
  PROVE  Lost(fd)
<1> SUFFICES ASSUME ~Lost(fd) PROVE FALSE
  OBVIOUS
<1>1. Running /\ Note(ready) /\ UNCHANGED <<fdt, events, pipe>> /\ ClientStep
  BY ClientsKeep DEF ClientsAct, Inv, TypeOK
<1>2. Pending(fd)' => Pending(fd) \/ fd \in Edges
  <2>1. CASE fd = pipe_fd
    BY <1>1, <2>1, EpollAssumption, Zenon DEF Pending
  <2>2. CASE fd = listenfd
    <3>1. SUFFICES ASSUME backlog' # << >>, backlog = << >>
                   PROVE  fd \in Edges
      BY <2>2, EpollAssumption DEF Pending
    <3>2. backlog' \in Seq(Conn)
      BY <1>1, ClientStepType DEF Inv, TypeOK, SockTypeOK
    <3>3. Len(backlog') > Len(backlog)
      BY <3>1, <3>2, EmptySeq
    <3> QED BY <2>2, <3>3 DEF Edges
  <2>3. CASE fd \in Fd
    <3>1. fd # listenfd /\ fd # pipe_fd /\ fdt[fd] \in Conn /\ fdt'[fd] = fdt[fd]
          /\ fdt[fd] # Free
      BY <1>1, <2>3, EpollAssumption, SocketAssumption
         DEF Watched, Inv, TypeOK, SockTypeOK
    <3>2. SUFFICES ASSUME Readable(fdt[fd])', ~Readable(fdt[fd])
                   PROVE  Arrives(fdt[fd])
      BY <2>3, <3>1, SocketAssumption DEF Pending, Edges
    <3>3. /\ rx'[fdt[fd]] # << >> \/ peer'[fdt[fd]] \in {"fin", "rst"}
          /\ rx[fdt[fd]] = << >> /\ peer[fdt[fd]] \notin {"fin", "rst"}
      BY <3>1, <3>2 DEF Readable
    <3>4. rx'[fdt[fd]] \in Seq(Message)
      BY <1>1, <3>1, ClientStepType DEF Inv, TypeOK, SockTypeOK
    <3>5. rx'[fdt[fd]] # << >> => Len(rx'[fdt[fd]]) > Len(rx[fdt[fd]])
      BY <3>3, <3>4, EmptySeq
    <3> QED BY <3>3, <3>5 DEF Arrives
  <2> QED BY <2>1, <2>2, <2>3 DEF Watched
<1>3. fd \in events \ events'
  BY <1>1, <1>2, LostWasReported
<1> QED BY <1>1, <1>3

\* One connection is accepted: the others under the same edge are lost.
LEMMA AcceptLoses ==
  ASSUME Inv, Accept, NEW fd \in Watched, Lost(fd)', ~Lost(fd)
  PROVE  LossExplained(fd)
<1>1. /\ Running /\ Note(ready) /\ backlog # << >> /\ FreeFds # {}
      /\ events' = events \ {listenfd}
      /\ backlog' = Tail(backlog) /\ UNCHANGED <<pipe, peer, rx>>
      /\ fdt' = Opened(LowestFreeFd, Head(backlog))
  BY DEF Accept, Acceptable, Reported, Running
<1>2. fd \in Fd => fdt[fd] # Free /\ fdt'[fd] = fdt[fd]
  BY <1>1, LowestFreeFdIsFree, EpollAssumption
     DEF Watched, FreeFds, Opened, Inv, TypeOK, SockTypeOK
<1>3. Pending(fd)' => Pending(fd)
  <2>1. CASE fd = pipe_fd
    BY <1>1, <2>1, EpollAssumption, Zenon DEF Pending
  <2>2. CASE fd # pipe_fd
    BY <1>1, <1>2, <2>2, EpollAssumption DEF Pending, Watched, Readable
  <2> QED BY <2>1, <2>2
<1>4. fd \in events \ events'
  BY <1>1, <1>2, <1>3, LostWasReported
<1>5. fd = listenfd
  BY <1>1, <1>4
<1>6. Tail(backlog) # << >>
  BY <1>1, <1>5, EpollAssumption DEF Lost, Pending
<1>7. /\ Tail(backlog) \in Seq(Conn) /\ Len(backlog) \in Nat
      /\ Len(Tail(backlog)) = Len(backlog) - 1
  BY <1>1, BacklogHead DEF Inv, TypeOK
<1>8. Len(Tail(backlog)) # 0
  BY <1>6, <1>7, EmptySeq
<1> QED BY <1>1, <1>5, <1>7, <1>8 DEF LossExplained

\* What one read leaves is lost, and nothing of the other clients.
LEMMA ServingLoses ==
  ASSUME Inv, NEW f \in events, Gone(f) \/ ReadOn(f),
         NEW fd \in Watched, Lost(fd)', ~Lost(fd)
  PROVE  LossExplained(fd)
<1> DEFINE c == fdt[f]
<1>1. /\ Running /\ Note(ready) /\ f \in Fd /\ events' = events \ {f}
      /\ UNCHANGED <<pipe, backlog>>
      /\ Leave(f) \/ UNCHANGED <<list, fdt>>
  BY DEF Gone, ReadOn, Reported, Running
<1>2. f \in Listed /\ c \in Conn
  BY <1>1, ReportedIsServed
<1>3. \A other \in Fd : /\ fdt'[other] \in {fdt[other], Free}
                        /\ other # f => fdt'[other] = fdt[other]
  BY <1>1, <1>2, LeaveKeeps
<1>4. \A d \in Conn : d # c => (Readable(d)' => Readable(d))
  <2>1. CASE Gone(f)
    BY <1>2, <2>1 DEF Gone, Readable, Inv, TypeOK, SockTypeOK
  <2>2. CASE ReadOn(f)
    <3>1. PICK answered \in Answers(Serving(Listeners(f))) :
            peer' = IF IsExit(ReadChunk(c)) THEN [answered EXCEPT ![c] = "done"]
                                            ELSE answered
      BY <2>2 DEF ReadOn
    <3>2. /\ answered \in [Conn -> PeerState]
          /\ \A d \in Conn : \/ answered[d] = peer[d]
                             \/ peer[d] = "fin" /\ answered[d] = "rst"
      BY AnswersType DEF Inv, TypeOK
    <3>3. \A d \in Conn : d # c => peer'[d] = answered[d] /\ rx'[d] = rx[d]
      BY <2>2, <3>1, <3>2 DEF ReadOn, Inv, TypeOK, SockTypeOK
    <3> QED BY <3>2, <3>3 DEF Readable
  <2> QED BY <2>1, <2>2
<1>5. fd = f => ~Leave(f)
  <2>1. fd = f /\ Leave(f) => fdt'[fd] = Free
    BY <1>1 DEF Leave, Closed, Inv, TypeOK, SockTypeOK
  <2> QED BY <1>1, <2>1, EpollAssumption DEF Lost, Watched
<1>6. CASE fd = f
  <2>1. ReadOn(f)
    BY <1>5, <1>6 DEF Gone
  <2>2. rx'[c] = Unread(c) /\ rx[c] # << >>
    BY <1>2, <2>1 DEF ReadOn, Inv, TypeOK, SockTypeOK
  <2>3. Unread(c) # rx[c]
    BY <1>2, <2>2, UnreadIsLess DEF Inv, TypeOK
  <2> QED BY <1>1, <1>6, <2>2, <2>3 DEF LossExplained
<1>7. CASE fd # f
  <2>1. Pending(fd)' => Pending(fd)
    <3>1. CASE fd = pipe_fd
      <4>1. UNCHANGED pipe
        BY <1>1
      <4> QED BY <3>1, <4>1, EpollAssumption, Zenon DEF Pending
    <3>2. CASE fd = listenfd
      <4>1. UNCHANGED backlog
        BY <1>1
      <4> QED BY <3>2, <4>1, EpollAssumption DEF Pending
    <3>3. CASE fd \in Fd
      <4>1. fd # listenfd /\ fd # pipe_fd /\ fd \in Listed
        BY <1>1, <3>3, EpollAssumption, ListedIsOpen DEF Watched
      <4>2. fdt[fd] \in Conn /\ fdt[fd] # c /\ fdt'[fd] = fdt[fd]
        BY <1>1, <1>2, <1>3, <1>7, <3>3, <4>1, ListedIsOpen
      <4>3. Readable(fdt[fd])' => Readable(fdt[fd])
        BY <1>4, <4>2 DEF Readable
      <4> QED BY <4>1, <4>2, <4>3 DEF Pending, Readable
    <3> QED BY <3>1, <3>2, <3>3 DEF Watched
  <2>2. fd \in events \ events'
    BY <1>1, <1>3, <2>1, LostWasReported
  <2> QED BY <1>1, <1>7, <2>2
<1> QED BY <1>6, <1>7

\* Besides what one accept and one read leave, only the break after a failing
\* accept loses anything, and only when descriptors have run out
\* (server.c:125-130).
THEOREM LostOnlyHolds == Spec => LostOnly
<1> DEFINE OneStep == \A fd \in Watched : Lost(fd)' /\ ~Lost(fd) =>
                        LossExplained(fd)
<1>1. Inv /\ [Next]_vars => [OneStep]_vars
  <2> SUFFICES ASSUME Inv, Next, NEW fd \in Watched, Lost(fd)', ~Lost(fd)
               PROVE  LossExplained(fd)
    OBVIOUS
  <2>1. Running' /\ Pending(fd)' /\ fd \notin ready' \cup events'
    BY DEF Lost
  <2>2. CASE Wait \/ Exit \/ SigInt
    <3>1. UNCHANGED <<fdt, peer, rx, backlog>> /\ Running
      BY <2>1, <2>2 DEF Wait, Exit, SigInt, sockVars, Reported, Running
    <3>2. Pending(fd)' /\ fd # pipe_fd => Pending(fd)
      BY <3>1 DEF Pending, Readable
    <3>3. CASE Wait
      <4>1. fd \in ready /\ events' = {f \in ready : Pending(f)}
            /\ UNCHANGED pipe
        <5>1. Pending(fd)' => Pending(fd)
          <6>1. fd = pipe_fd => (Pending(fd)' => Pending(fd))
            BY <3>3, EpollAssumption, Zenon DEF Pending, Wait
          <6> QED BY <3>2, <6>1
        <5>2. fd \in ready \cup events
          BY <2>1, <3>1, <5>1 DEF Lost
        <5> QED BY <3>3, <5>2 DEF Wait, Inv, TypeOK
      <4>2. ~Pending(fd)
        BY <2>1, <4>1
      <4>3. fd = pipe_fd
        BY <2>1, <3>2, <4>2
      <4> QED BY <2>1, <4>1, <4>2, <4>3, EpollAssumption, Zenon DEF Pending
    <3>4. CASE Exit
      <4>1. pipe' = FALSE /\ events' = events \ {pipe_fd} /\ UNCHANGED ready
        BY <3>4 DEF Exit, Reported
      <4>2. fd # pipe_fd
        BY <2>1, <4>1, EpollAssumption, Zenon DEF Pending
      <4> QED BY <2>1, <3>1, <3>2, <4>1, <4>2 DEF Lost
    <3>5. CASE SigInt
      <4>1. ready' = ready \cup {pipe_fd} /\ UNCHANGED events
        BY <3>5 DEF SigInt
      <4> QED BY <2>1, <3>1, <3>2, <4>1 DEF Lost
    <3> QED BY <2>2, <3>3, <3>4, <3>5
  <2>3. CASE AcceptFails
    <3>1. /\ listenfd \in events /\ ~Acceptable /\ events' = {} /\ Running
          /\ UNCHANGED <<ready, pipe, fdt, peer, rx, backlog>>
      BY <2>3 DEF AcceptFails, sockVars, Running
    <3>2. backlog # << >>
      BY <3>1, EpollAssumption DEF Inv, EventsHold, Pending
    <3>3. Pending(fd)' => Pending(fd)
      <4>1. fd = pipe_fd => (Pending(fd)' => Pending(fd))
        BY <3>1, EpollAssumption, Zenon DEF Pending
      <4>2. fd # pipe_fd => (Pending(fd)' => Pending(fd))
        BY <3>1 DEF Pending, Readable
      <4> QED BY <4>1, <4>2
    <3>4. fd \in events
      BY <2>1, <3>1, <3>3 DEF Lost
    <3> QED BY <3>1, <3>2, <3>4 DEF Acceptable, LossExplained
  <2>4. CASE Accept
    BY <2>4, AcceptLoses
  <2>5. CASE CloseAll \/ \E f \in events : DieWriting(f)
    BY <2>1, <2>5 DEF CloseAll, DieWriting, Running
  <2>6. CASE \E f \in events : Gone(f) \/ ReadOn(f)
    BY <2>6, ServingLoses
  <2>7. CASE ClientsAct
    BY <2>7, ClientsLoseNothing
  <2> QED BY <2>2, <2>3, <2>4, <2>5, <2>6, <2>7 DEF Next, ServerStep
<1> QED BY InvHolds, <1>1, PTL DEF Spec, LostOnly, LossExplained

----------------------------------------------------------------------------
(* The server implements the chat room. *)

RoomMembers == IF Running THEN Serving(Listed) ELSE {}
Cut == {c \in Conn : peer[c] = "rst"}

\* What the room says its members hear is what the server writes to them.
LEMMA HeardIsDelivered ==
  ASSUME NEW listeners, NEW targets, NEW entry,
         \A c \in Conn : c \in listeners <=> c \in targets /\ peer[c] # "rst"
  PROVE  Room!Heard(listeners, entry) = Delivered(targets, entry)
<1>1. \A t : Room!Hear(t, entry) = Hear(t, entry)
  BY DEF Room!Hear, Hear, Room!Announcement, Announcement
<1> QED BY <1>1 DEF Room!Heard, Delivered

\* One read of the server takes what the room lets one Say take.
LEMMA ReadIsSpoken ==
  ASSUME SockTypeOK, NEW c \in Conn, rx[c] # << >>
  PROVE  /\ ReadSize(c) \in Room!Speakable(c)
         /\ Room!Spoken(c, ReadSize(c)) = [from |-> c, said |-> ReadChunk(c)]
         /\ Room!Unspoken(c, ReadSize(c)) = Unread(c)
<1>1. rx[c] \in Seq(Message)
  BY DEF SockTypeOK
<1>2. Len(rx[c]) \in Nat \ {0}
  BY <1>1, EmptySeq
<1>3. ReadSize(c) \in 1..MaxChunk /\ ReadSize(c) <= Len(rx[c])
  BY <1>2, TranscriptAssumption DEF ReadSize
<1> QED BY <1>3 DEF Room!Speakable, Room!Spoken, Room!Unspoken, ReadChunk, Unread

\* A broadcast cut short: those before the broken one on the list have heard it,
\* and nobody else ever will (server.c:161).
LEMMA DyingIsEnding ==
  ASSUME Inv, NEW fd \in events, DieWriting(fd)
  PROVE  Room!End
<1> DEFINE c == fdt[fd]
           entry == [from |-> c, said |-> ReadChunk(c)]
<1>1. /\ fd \in Listed /\ c \in Conn /\ rx[c] # << >>
      /\ Running /\ RoomMembers = Serving(Listed)
      /\ Running' = FALSE /\ RoomMembers' = {} /\ UNCHANGED rx
  BY ReportedIsServed DEF DieWriting, Reported, Running, RoomMembers
<1>2. PICK n \in DOMAIN list :
        got' = Delivered(Serving({list[m] : m \in 1..(n - 1)} \ {fd}), entry)
  BY DEF DieWriting
<1> DEFINE before == {list[m] : m \in 1..(n - 1)} \ {fd}
           told == Serving(before)
           part == told \ Cut
<1>3. before \in SUBSET (Listed \ {fd})
  <2>1. 1..(n - 1) \subseteq DOMAIN list
    BY DEF Inv, TypeOK
  <2> QED BY <2>1 DEF Listed
<1>4. part \in SUBSET RoomMembers
  BY <1>1, <1>3 DEF Serving
<1>5. c \in RoomMembers /\ c \notin told
  <2>1. \A other \in Listed : fdt[other] = c => other = fd
    BY <1>1, ListedIsOpen
  <2> QED BY <1>1, <1>3, <2>1 DEF Serving
<1>6. Room!Heard(part \ {c}, entry) = Delivered(told, entry)
  BY <1>5, HeardIsDelivered DEF Cut
<1>7. \E k \in Room!Speakable(c) : Room!Spoken(c, k) = entry
  BY <1>1, ReadIsSpoken DEF Inv, TypeOK
<1>8. got' = Delivered(told, entry)
  BY <1>2
<1> HIDE DEF part, told, before, entry, c
<1>9. \E d \in RoomMembers, p \in SUBSET RoomMembers :
        \E k \in Room!Speakable(d) : got' = Room!Heard(p \ {d}, Room!Spoken(d, k))
  BY <1>4, <1>5, <1>6, <1>7, <1>8
<1> QED BY <1>1, <1>9 DEF Room!End, RoomMembers

\* At the start the room is empty and open.
LEMMA RoomStarts == Init => Room!RoomInit
<1> SUFFICES ASSUME Init PROVE Room!RoomInit
  OBVIOUS
<1>1. Listed = {} /\ Running /\ Serving(Listed) = {}
  BY DEF Init, Listed, Running, Serving
<1>2. \A c \in Conn : peer[c] # "rst"
  BY DEF Init, SockInit
<1> QED BY <1>1, <1>2 DEF Init, SockInit, Room!RoomInit

\* Steps that serve the same clients and write nothing.
LEMMA QuietSteps ==
  ASSUME UNCHANGED <<list, fdt, rx, got>>, Running' = Running
  PROVE  [Room!RoomNext]_(Room!roomVars)
<1>1. UNCHANGED <<Running, RoomMembers, rx, got>>
  BY SameServed DEF RoomMembers
<1> QED BY <1>1 DEF Room!RoomNext, RoomMembers

\* Reading from a client and writing to the others is its Say.
LEMMA ReadSays ==
  ASSUME Inv, NEW fd \in events, ReadOn(fd)
  PROVE  Running /\ \E c \in Conn : \E n \in Room!Speakable(c) : Room!Say(c, n)
<1> DEFINE c == fdt[fd]
           chunk == ReadChunk(c)
           entry == [from |-> c, said |-> chunk]
           others == Serving(Listeners(fd))
<1>1. /\ fd \in Listed /\ c \in Conn /\ rx[c] # << >> /\ Running /\ Running'
      /\ got' = Delivered(others, entry)
      /\ IF IsExit(chunk) THEN Leave(fd) ELSE UNCHANGED <<list, fdt>>
      /\ rx' = [rx EXCEPT ![c] = Unread(c)]
  BY ReportedIsServed DEF ReadOn, Reported, Running, LoopEnds
<1>2. /\ ReadSize(c) \in Room!Speakable(c)
      /\ Room!Spoken(c, ReadSize(c)) = entry
      /\ Room!Unspoken(c, ReadSize(c)) = Unread(c)
  BY <1>1, ReadIsSpoken DEF Inv, TypeOK
<1>3. c \in Serving(Listed) /\ RoomMembers = Serving(Listed)
      /\ RoomMembers' = Serving(Listed)'
  BY <1>1 DEF Serving, RoomMembers
<1>4. RoomMembers' = IF chunk = <<"exit">> THEN RoomMembers \ {c}
                                          ELSE RoomMembers
  <2>1. CASE IsExit(chunk)
    BY <1>1, <1>3, <2>1, LeaveLeaves DEF IsExit
  <2>2. CASE ~IsExit(chunk)
    BY <1>1, <1>3, <2>2, SameServed DEF IsExit
  <2> QED BY <2>1, <2>2
<1>5. others = Serving(Listed) \ {c}
  <2>1. \A other \in Listed : fdt[other] = c => other = fd
    BY <1>1, ListedIsOpen
  <2> QED BY <1>1, <2>1 DEF Serving, Listeners
<1>6. Room!Heard(RoomMembers \ (Cut \cup {c}), entry) = Delivered(others, entry)
  <2>1. \A d \in Conn : d \in RoomMembers \ (Cut \cup {c})
                          <=> d \in others /\ peer[d] # "rst"
    BY <1>3, <1>5 DEF Cut
  <2> QED BY <2>1, HeardIsDelivered
<1>7. Room!Spoken(c, ReadSize(c)).said = chunk
  BY <1>2
<1> HIDE DEF c, chunk, entry, others
<1>8. Room!Say(c, ReadSize(c))
  BY <1>1, <1>2, <1>3, <1>4, <1>6, <1>7 DEF Room!Say, RoomMembers, Cut
<1> QED BY <1>1, <1>2, <1>8

\* The whole epoll server, for any number of clients, behaves as a chat room,
\* though epoll tells it of an arrival only once and in any order: what a member
\* says is heard at once and once by the others, in one order.
THEOREM EpollImplementsRoom == Spec => IsChatRoom
<1>1. Inv /\ [Next]_vars => [Room!RoomNext]_(Room!roomVars)
  <2> SUFFICES ASSUME Inv, [Next]_vars
               PROVE  [Room!RoomNext]_(Room!roomVars)
    OBVIOUS
  <2>1. CASE Wait \/ Exit \/ AcceptFails \/ SigInt \/ UNCHANGED vars
    <3>1. UNCHANGED <<list, fdt, rx, got>> /\ Running' = Running
      BY <2>1 DEF Wait, Exit, AcceptFails, SigInt, vars, sockVars, Running,
           Reported
    <3> QED BY <3>1, QuietSteps
  <2>2. CASE ClientsAct
    <3>1. UNCHANGED <<list, fdt, got>> /\ Running /\ Running'
      BY <2>2 DEF ClientsAct, ClientStep, Connect, Hangup, Send, Running
    <3>2. CASE UNCHANGED rx
      BY <3>1, <3>2, QuietSteps
    <3>3. CASE \E c \in Conn, m \in Message : Send(c, m)
      <4>1. PICK c \in Conn, m \in Message : Send(c, m)
        BY <3>3
      <4>2. UNCHANGED <<Running, RoomMembers>>
        BY <3>1, SameServed DEF RoomMembers
      <4>3. Room!Write(c, m) /\ m \in Room!Message
        BY <3>1, <4>1, <4>2
           DEF Send, Room!Write, RoomMembers, Room!Message, Message
      <4> QED BY <3>1, <4>3 DEF Room!RoomNext
    <3> QED BY <2>2, <3>2, <3>3 DEF ClientsAct, ClientStep, Connect, Hangup
  <2>3. CASE Accept
    <3>1. Running /\ Running' /\ UNCHANGED <<rx, got>>
      BY <2>3 DEF Accept, Reported, Running, LoopEnds
    <3>2. Room!Join(Head(backlog))
      BY <2>3, <3>1, AcceptJoins DEF Room!Join
    <3>3. Head(backlog) \in Conn
      BY <2>3, AcceptJoins
    <3> QED BY <3>1, <3>2, <3>3 DEF Room!RoomNext
  <2>4. CASE \E fd \in events : Gone(fd)
    <3>1. PICK fd \in events : Gone(fd)
      BY <2>4
    <3>2. /\ Running /\ Running' /\ UNCHANGED <<rx, got>>
          /\ rx[fdt[fd]] = << >> /\ Leave(fd)
      BY <3>1 DEF Gone, Reported, Running, LoopEnds
    <3>3. fd \in Listed /\ fdt[fd] \in Serving(Listed) /\ fdt[fd] \in Conn
      BY <3>1, ReportedIsServed DEF Gone, Reported, Running, Serving
    <3>4. Serving(Listed)' = Serving(Listed) \ {fdt[fd]}
      BY <3>2, <3>3, LeaveLeaves
    <3>5. Room!Leave(fdt[fd])
      BY <3>2, <3>3, <3>4 DEF Room!Leave
    <3> QED BY <3>2, <3>3, <3>5 DEF Room!RoomNext
  <2>5. CASE \E fd \in events : ReadOn(fd)
    BY <2>5, ReadSays DEF Room!RoomNext
  <2>6. CASE \E fd \in events : DieWriting(fd)
    <3>1. Room!End
      BY <2>6, DyingIsEnding
    <3>2. Running
      BY <2>6 DEF DieWriting, Reported, Running
    <3> QED BY <3>1, <3>2 DEF Room!RoomNext
  <2>7. CASE CloseAll
    <3>1. Running /\ Running' = FALSE /\ UNCHANGED <<rx, got>>
      BY <2>7 DEF CloseAll, Running
    <3>2. Room!End
      BY <3>1 DEF Room!End
    <3> QED BY <3>1, <3>2 DEF Room!RoomNext
  <2> QED BY <2>1, <2>2, <2>3, <2>4, <2>5, <2>6, <2>7 DEF Next, ServerStep
<1> QED BY InvHolds, RoomStarts, <1>1, PTL DEF Spec, IsChatRoom, Room!RoomSpec

=============================================================================
