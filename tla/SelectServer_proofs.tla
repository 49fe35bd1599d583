------------------------ MODULE SelectServer_proofs ------------------------
(***************************************************************************)
(* The safety of the select server for any number of clients, texts and    *)
(* descriptors.  Inv is shown to be inductive, action by action; the       *)
(* invariants and the action property follow from it, and so does the      *)
(* refinement of the chat room.                                            *)
(***************************************************************************)
EXTENDS SelectServer, Sockets_proofs

----------------------------------------------------------------------------
(* The table. *)

\* The search of the table finds a free slot (server.c:137-144).
LEMMA FirstFreeSlotIsFree ==
  ASSUME FreeSlots # {}
  PROVE  FirstFreeSlot \in FreeSlots
<1>1. FreeSlots \in SUBSET Nat
  BY SelectAssumption DEF FreeSlots, Slot
<1>2. \E s \in FreeSlots : \A other \in FreeSlots : s <= other
  BY <1>1, LeastExists
<1> QED BY <1>2 DEF FirstFreeSlot


----------------------------------------------------------------------------
(* Inv is inductive: the initial state and each action. *)

\* At the start.
LEMMA InvInit == Init => Inv
<1> SUFFICES ASSUME Init PROVE Inv
  OBVIOUS
<1>1. TypeOK
  <2>1. SockTypeOK
    BY SockInitType DEF Init
  <2>2. client \in [Slot -> Fd \cup {-1}]
    BY DEF Init
  <2>3. i \in 0..FD_SETSIZE
    BY SelectAssumption DEF Init
  <2>4. server_left \in BOOLEAN /\ report_flag \in BOOLEAN
    BY DEF Init
  <2> QED BY <2>1, <2>2, <2>3, <2>4 DEF Init, TypeOK
<1>2. Used = {}
  BY DEF Init, Used
<1>3. Matched
  BY DEF Init, SockInit, Matched
<1>4. Tabled
  BY <1>2 DEF Init, SockInit, Tabled
<1>5. ScanReaches /\ Marked
  BY <1>2 DEF Init, ScanReaches, Marked
<1> QED BY <1>1, <1>3, <1>4, <1>5 DEF Inv

\* The steps that move the program counter, the cursor and rset only.
LEMMA InvControl ==
  ASSUME Inv,
         \/ TestLeft \/ AcceptFails \/ ScanDone \/ ScanSkip \/ SigInt
         \/ UNCHANGED vars
  PROVE  Inv'
<1> USE DEF TestLeft, AcceptFails, ScanDone, ScanSkip, SigInt, vars, ctlVars,
            tabVars, sockVars, Inv
<1>1. TypeOK'
  <2>1. SockTypeOK'
    BY DEF TypeOK, SockTypeOK
  <2>2. i' \in 0..FD_SETSIZE
    BY SelectAssumption DEF TypeOK, Slot, InScan
  <2>3. /\ pc' \in {"test", "select", "accept", "scan", "close",
                   "exited", "killed"}
        /\ rset' \in SUBSET (Fd \cup {listenfd})
    BY DEF TypeOK
  <2>4. server_left' \in BOOLEAN
    BY DEF TypeOK
  <2> QED BY <2>1, <2>2, <2>3, <2>4 DEF TypeOK
<1>2. Matched'
  BY DEF Matched
<1>3. Tabled'
  BY DEF Tabled, Used, Running
<1>4. ScanReaches'
  BY DEF ScanReaches, Used
<1>5. Marked'
  <2>1. CASE ScanSkip
    <3>1. i \in Int /\ i' = i + 1
      BY <2>1, SelectAssumption DEF TypeOK
    <3>2. \A s \in Used : s \in Int
      BY SelectAssumption DEF Used, Slot
    <3>3. \A s \in Used : s >= i' => s >= i
      BY <3>1, <3>2
    <3> QED BY <2>1, <3>3 DEF Marked, Used, ConnOf, Readable
  <2>2. CASE pc' \notin {"accept", "scan"}
    BY <2>2 DEF Marked
  <2>3. CASE ~ScanSkip /\ pc' \in {"accept", "scan"}
    <3>1. UNCHANGED <<pc, backlog, rset, client, fdt, peer, rx, i>>
      BY <2>3
    <3> QED BY <3>1 DEF Marked, Used, ConnOf, Readable
  <2> QED BY <2>1, <2>2, <2>3
<1> QED BY <1>1, <1>2, <1>3, <1>4, <1>5

\* select marks only descriptors that have something to read.
LEMMA InvSelectReady ==
  ASSUME Inv, SelectReady
  PROVE  Inv'
<1> USE DEF SelectReady, ctlVars, tabVars, sockVars, Inv
<1>1. TypeOK'
  BY SelectAssumption DEF TypeOK, SockTypeOK, Selected
<1>2. Matched'
  BY DEF Matched
<1>3. Tabled'
  BY DEF Tabled, Used
<1>4. ScanReaches'
  BY DEF ScanReaches, Used
<1>5. Marked'
  BY DEF Marked, Tabled, Selected, ReadyFd, Used, ConnOf, Readable, TypeOK, Fd
<1> QED BY <1>1, <1>2, <1>3, <1>4, <1>5

\* A slot in use holds an open descriptor of the table, and one client has
\* one slot.
LEMMA UsedSlots ==
  ASSUME Inv, pc # "exited"
  PROVE  /\ \A s \in Used : s \in Slot /\ client[s] \in Fd /\ ConnOf(s) \in Conn
         /\ \A s, t \in Used : ConnOf(s) = ConnOf(t) => s = t
<1>1. ASSUME NEW s \in Used
      PROVE  s \in Slot /\ client[s] \in Fd /\ ConnOf(s) \in Conn
  BY DEF Inv, TypeOK, SockTypeOK, Tabled, Used, ConnOf
<1>2. ASSUME NEW s \in Used, NEW t \in Used, ConnOf(s) = ConnOf(t)
      PROVE  s = t
  <2>1. client[s] = client[t]
    BY <1>1, <1>2 DEF Inv, Matched, Tabled, ConnOf
  <2> QED BY <2>1 DEF Inv, Tabled
<1> QED BY <1>1, <1>2

\* A broadcast that SIGPIPE cuts short changes transcripts only, and ends.
LEMMA InvDieWriting ==
  ASSUME Inv, NEW targets \in SUBSET Used, NEW entry \in Entry,
         DieWriting(targets, entry), pc # "exited"
  PROVE  Inv'
<1> USE DEF DieWriting, tabVars, Inv
<1>1. TypeOK'
  <2>1. got' \in [Conn -> Seq(Entry)]
    BY DeliveredType DEF TypeOK
  <2> QED BY <2>1 DEF TypeOK, SockTypeOK
<1>2. Matched' /\ ScanReaches' /\ Marked'
  BY DEF Matched, ScanReaches, Marked, Used
<1>3. Tabled'
  BY DEF Tabled, Used
<1> QED BY <1>1, <1>2, <1>3

\* The report after five idle seconds.
LEMMA InvTimeout ==
  ASSUME Inv, SelectTimeout
  PROVE  Inv'
<1>1. CASE report_flag /\ DieWriting(Used, Announcement)
  BY <1>1, InvDieWriting, AnnouncementIsEntry DEF SelectTimeout
<1>2. CASE ~(report_flag /\ DieWriting(Used, Announcement))
  <2> USE DEF SelectTimeout, tabVars, Inv
  <2>1. /\ peer' \in [Conn -> PeerState]
        /\ \A c \in Conn : peer[c] # "new" => peer'[c] # "new"
    <3>1. CASE UNCHANGED peer
      BY <3>1 DEF TypeOK, SockTypeOK
    <3>2. CASE peer' \in Answers(Serving(Used))
      BY <3>2, AnswersType DEF TypeOK
    <3> QED BY <1>2, <3>1, <3>2
  <2>2. got' \in [Conn -> Seq(Entry)]
    BY <1>2, DeliveredType, AnnouncementIsEntry DEF TypeOK, SockTypeOK
  <2>3. TypeOK'
    BY <1>2, <2>1, <2>2 DEF TypeOK, SockTypeOK
  <2>4. Matched'
    BY <1>2, <2>1, ElementOfSeq DEF Matched, TypeOK, SockTypeOK
  <2>5. Tabled' /\ ScanReaches' /\ Marked'
    BY <1>2 DEF Tabled, ScanReaches, Marked, Used
  <2> QED BY <2>3, <2>4, <2>5
<1> QED BY <1>1, <1>2 DEF SelectTimeout

\* close_all_client (server.c:40-50).
LEMMA InvCloseAll ==
  ASSUME Inv, CloseAll
  PROVE  Inv'
<1> USE DEF CloseAll, tabVars, Inv
<1>1. TypeOK'
  <2>1. fdt' \in [Fd -> Conn \cup {Free}] /\ peer' \in [Conn -> PeerState]
    BY DEF TypeOK, SockTypeOK, PeerState
  <2> QED BY <2>1 DEF TypeOK, SockTypeOK
<1>2. Matched'
  <2>1. \A fd \in Fd : fdt'[fd] \in {fdt[fd], Free}
    OBVIOUS
  <2>2. \A c \in Conn : peer[c] # "new" => peer'[c] # "new"
    OBVIOUS
  <2> QED BY <2>1, <2>2, MatchedKept DEF TypeOK
<1>3. Tabled' /\ ScanReaches' /\ Marked'
  BY DEF Tabled, ScanReaches, Marked, Used
<1> QED BY <1>1, <1>2, <1>3

\* A client takes the lowest free descriptor and the first free slot.
LEMMA InvAccept ==
  ASSUME Inv, Accept
  PROVE  Inv'
<1> DEFINE c == Head(backlog)
           connfd == LowestFreeFd
           s == FirstFreeSlot
<1>1. /\ backlog # << >> /\ pc = "accept" /\ c \in Conn /\ c = backlog[1]
      /\ 1 \in 1..Len(backlog) /\ backlog' \in Seq(Conn)
  BY BacklogHead DEF Inv, TypeOK, Marked, Accept
<1>2. connfd \in Fd /\ fdt[connfd] = Free /\ connfd # listenfd
  <2>1. connfd \in FreeFds
    BY LowestFreeFdIsFree DEF Accept, Inv, TypeOK
  <2> QED BY <2>1, SelectAssumption DEF FreeFds, Fd, listenfd
<1>3. CASE FreeSlots = {}
  <2> USE <1>3 DEF Accept, tabVars, Inv
  <2>1. peer' \in [Conn -> PeerState]
    BY <1>1 DEF TypeOK, SockTypeOK, PeerState
  <2>2. TypeOK'
    BY <1>1, <2>1 DEF TypeOK, SockTypeOK
  <2>3. Matched'
    <3>1. \A d \in Conn : peer[d] # "new" => peer'[d] # "new"
      BY DEF TypeOK, SockTypeOK
    <3> QED BY <1>1, <3>1, MatchedAccepted DEF TypeOK
  <2>4. Tabled' /\ ScanReaches' /\ Marked'
    BY DEF Tabled, ScanReaches, Marked, Used
  <2> QED BY <2>2, <2>3, <2>4
<1>4. CASE FreeSlots # {}
  <2>1. /\ pc' = "scan" /\ UNCHANGED <<i, rset, peer, rx>>
        /\ fdt' = [fdt EXCEPT ![connfd] = c]
        /\ client' = [client EXCEPT ![s] = connfd]
        /\ allset' = allset \cup {connfd}
        /\ maxfd' = Raised(maxfd, connfd) /\ cli_count' = Raised(cli_count, s)
    BY <1>4 DEF Accept, Opened
  <2>2. s \in Slot /\ s \notin Used /\ client[s] = -1
    BY <1>4, FirstFreeSlotIsFree DEF FreeSlots, Used
  <2>3. Used' = Used \cup {s} /\ connfd # -1
    BY <1>2, <2>1, <2>2, SelectAssumption, SocketAssumption
       DEF Used, Inv, TypeOK, Fd
  <2>4. /\ fdt'[connfd] = c /\ client'[s] = connfd
        /\ \A fd \in Fd \ {connfd} : fdt'[fd] = fdt[fd]
        /\ \A t \in Used : /\ client'[t] = client[t] /\ t # s
                           /\ client[t] \in Fd \ {connfd}
                           /\ fdt[client[t]] \in Conn
    <3>1. \A t \in Used : t \in Slot /\ client[t] \in Fd /\ ConnOf(t) \in Conn
      BY <1>1, UsedSlots
    <3> QED BY <1>2, <2>1, <2>2, <3>1, SocketAssumption
            DEF Inv, TypeOK, SockTypeOK, ConnOf
  <2>5. TypeOK'
    <3>1. /\ fdt' \in [Fd -> Conn \cup {Free}]
          /\ client' \in [Slot -> Fd \cup {-1}]
          /\ allset' \in SUBSET (Fd \cup {listenfd})
      BY <1>1, <1>2, <2>1, <2>2 DEF Inv, TypeOK, SockTypeOK
    <3>2. maxfd' \in Fd \cup {listenfd} /\ cli_count' \in Slot \cup {-1}
      BY <1>2, <2>1, <2>2 DEF Inv, TypeOK, Raised
    <3> QED BY <1>1, <2>1, <3>1, <3>2 DEF Accept, Inv, TypeOK, SockTypeOK
  <2>6. Matched'
    BY <1>1, <1>4, <2>1, MatchedAccepted DEF Accept, Inv, TypeOK
  <2>7. Tabled'
    <3>1. \A t \in Used' : fdt'[client'[t]] # Free
      BY <1>1, <2>3, <2>4, SocketAssumption
    <3>2. \A t, u \in Used' : client'[t] = client'[u] => t = u
      BY <1>1, <2>3, <2>4 DEF Inv, Tabled
    <3>3. \A fd \in Fd : fdt'[fd] # Free => \E t \in Used' : client'[t] = fd
      BY <1>1, <2>3, <2>4 DEF Inv, Tabled
    <3>4. allset' = {listenfd} \cup {client'[t] : t \in Used'}
      BY <1>1, <2>1, <2>3, <2>4 DEF Inv, Tabled
    <3> QED BY <3>1, <3>2, <3>3, <3>4 DEF Tabled
  <2>8. ScanReaches'
    <3>1. maxfd \in Int /\ cli_count \in Int /\ connfd \in Int /\ s \in Int
      BY <1>2, <2>2, SelectAssumption, SocketAssumption
         DEF Inv, TypeOK, Fd, Slot, listenfd
    <3>2. /\ maxfd' >= maxfd /\ maxfd' >= connfd /\ maxfd' \in Int
          /\ cli_count' >= cli_count /\ cli_count' >= s /\ cli_count' \in Int
      BY <2>1, <3>1 DEF Raised
    <3>3. \A t \in Used : t \in Int /\ client[t] \in Int
      BY <2>4, SelectAssumption, SocketAssumption DEF Used, Slot, Fd
    <3> QED BY <2>3, <2>4, <3>1, <3>2, <3>3 DEF Inv, ScanReaches
  <2>9. Marked'
    <3>1. connfd \notin rset
      BY <1>1, <1>2 DEF Inv, Marked
    <3>2. ASSUME NEW t \in Used', client'[t] \in rset'
          PROVE  Readable(ConnOf(t))'
      <4>1. t \in Used /\ client[t] \in rset /\ client[t] # listenfd
        BY <2>1, <2>3, <2>4, <3>1, <3>2, SelectAssumption DEF Fd, listenfd
      <4>2. Readable(fdt[client[t]])
        BY <1>1, <4>1 DEF Inv, Marked
      <4> QED BY <2>1, <2>4, <4>1, <4>2 DEF Readable, ConnOf
    <3> QED BY <2>1, <3>2 DEF Marked
  <2> QED BY <2>5, <2>6, <2>7, <2>8, <2>9 DEF Inv
<1> QED BY <1>3, <1>4

\* The slot the scan serves is in use.
LEMMA ServedSlot ==
  ASSUME Inv, pc = "scan", InScan, client[i] \in rset
  PROVE  i \in Used /\ i \in Int /\ i + 1 \in 0..FD_SETSIZE
<1>1. i \in Slot
  BY SelectAssumption DEF Inv, TypeOK, InScan, Slot
<1>2. client[i] # -1
  BY <1>1, SelectAssumption DEF Inv, TypeOK, Fd, listenfd
<1> QED BY <1>1, <1>2, SelectAssumption DEF Used, Slot

\* What serving slot i may do keeps Inv: read from its connection, write to
\* the others, and give the slot, the descriptor and the bit back together.
LEMMA InvServed ==
  ASSUME Inv, pc = "scan", InScan, client[i] \in rset,
         UNCHANGED <<pc, server_left, rset, backlog, sent>>, i' = i + 1,
         report_flag' \in BOOLEAN,
         Drop(i) \/ UNCHANGED <<tabVars, fdt>>,
         peer' \in [Conn -> PeerState], got' \in [Conn -> Seq(Entry)],
         rx' \in [Conn -> Seq(Message)],
         \A d \in Conn : peer[d] # "new" => peer'[d] # "new",
         \A d \in Conn : d # ConnOf(i) =>
           rx'[d] = rx[d] /\ (Readable(d) => Readable(d)')
  PROVE  Inv'
<1>1. i \in Used /\ i \in Int /\ i' \in 0..FD_SETSIZE
  BY ServedSlot
<1>2. /\ \A s \in Used : s \in Slot /\ client[s] \in Fd /\ ConnOf(s) \in Conn
      /\ \A s, t \in Used : ConnOf(s) = ConnOf(t) => s = t
      /\ \A s, t \in Used : client[s] = client[t] => s = t
  BY UsedSlots DEF Inv, Tabled
<1>3. /\ UNCHANGED <<maxfd, cli_count>>
      /\ \/ /\ client' = [client EXCEPT ![i] = -1]
            /\ allset' = allset \ {client[i]}
            /\ fdt' = [fdt EXCEPT ![client[i]] = Free]
         \/ UNCHANGED <<client, allset, fdt>>
  BY DEF Drop, Closed, tabVars
<1>4. TypeOK'
  <2>1. /\ client' \in [Slot -> Fd \cup {-1}]
        /\ allset' \in SUBSET (Fd \cup {listenfd})
        /\ fdt' \in [Fd -> Conn \cup {Free}]
    BY <1>1, <1>2, <1>3 DEF Inv, TypeOK, SockTypeOK
  <2> QED BY <1>1, <1>3, <2>1 DEF Inv, TypeOK, SockTypeOK
<1>5. Matched'
  <2>1. \A fd \in Fd : fdt'[fd] \in {fdt[fd], Free}
    BY <1>3 DEF Inv, TypeOK, SockTypeOK
  <2> QED BY <2>1, MatchedKept DEF Inv, TypeOK
<1>6. /\ Used' \subseteq Used
      /\ \A s \in Used' : /\ client'[s] = client[s] /\ client[s] \in Fd
                          /\ fdt'[client[s]] = fdt[client[s]]
                          /\ ConnOf(s)' = ConnOf(s)
  <2>1. CASE UNCHANGED <<client, allset, fdt>>
    BY <1>2, <2>1 DEF Used, ConnOf
  <2>2. CASE /\ client' = [client EXCEPT ![i] = -1]
             /\ fdt' = [fdt EXCEPT ![client[i]] = Free]
    <3>1. \A s \in Used' : s \in Used /\ s # i
      BY <1>1, <2>2 DEF Used, Inv, TypeOK
    <3> QED BY <1>1, <1>2, <2>2, <3>1 DEF Inv, TypeOK, SockTypeOK, ConnOf
  <2> QED BY <1>3, <2>1, <2>2
<1>7. Tabled'
  <2>1. CASE UNCHANGED <<client, allset, fdt>>
    BY <2>1 DEF Inv, Tabled, Used
  <2>2. CASE /\ client' = [client EXCEPT ![i] = -1]
             /\ allset' = allset \ {client[i]}
             /\ fdt' = [fdt EXCEPT ![client[i]] = Free]
    <3>1. Used' = Used \ {i}
      BY <1>1, <2>2 DEF Used, Inv, TypeOK
    <3>2. \A s \in Used' : fdt'[client'[s]] # Free
      BY <1>6, <3>1 DEF Inv, Tabled
    <3>3. \A s, t \in Used' : client'[s] = client'[t] => s = t
      BY <1>2, <1>6, <3>1
    <3>4. \A fd \in Fd : fdt'[fd] # Free => \E s \in Used' : client'[s] = fd
      BY <1>1, <1>2, <1>6, <2>2, <3>1 DEF Inv, Tabled, TypeOK, SockTypeOK
    <3>5. allset' = {listenfd} \cup {client'[s] : s \in Used'}
      <4>1. client[i] # listenfd
        BY <1>1, <1>2, SelectAssumption DEF Fd, listenfd
      <4> QED BY <1>1, <1>2, <1>6, <2>2, <3>1, <4>1 DEF Inv, Tabled
    <3> QED BY <3>2, <3>3, <3>4, <3>5 DEF Tabled
  <2> QED BY <1>3, <2>1, <2>2
<1>8. ScanReaches'
  BY <1>3, <1>6 DEF Inv, ScanReaches
<1>9. Marked'
  <2>1. ASSUME NEW s \in Used', s >= i', client'[s] \in rset'
        PROVE  Readable(ConnOf(s))'
    <3>1. s \in Used /\ s \in Int /\ s # i /\ s >= i /\ client[s] \in rset
      BY <1>1, <1>6, <2>1, SelectAssumption DEF Used, Slot
    <3>2. Readable(ConnOf(s)) /\ ConnOf(s) # ConnOf(i) /\ ConnOf(s) \in Conn
      BY <1>1, <1>2, <3>1 DEF Inv, Marked
    <3>3. ConnOf(s)' = ConnOf(s)
      BY <1>6
    <3> QED BY <3>2, <3>3 DEF Readable
  <2> QED BY <2>1 DEF Marked
<1> QED BY <1>4, <1>5, <1>7, <1>8, <1>9 DEF Inv

\* read returned 0 or failed.
LEMMA InvScanGone ==
  ASSUME Inv, ScanGone
  PROVE  Inv'
<1>1. ConnOf(i) \in Conn
  BY ServedSlot, UsedSlots DEF ScanGone
<1>2. peer' \in [Conn -> PeerState]
  BY <1>1 DEF ScanGone, Inv, TypeOK, SockTypeOK, PeerState
<1>3. got' \in [Conn -> Seq(Entry)] /\ rx' \in [Conn -> Seq(Message)]
  BY DEF ScanGone, Inv, TypeOK, SockTypeOK
<1>4. \A d \in Conn : peer[d] # "new" => peer'[d] # "new"
  BY <1>1 DEF ScanGone, Inv, TypeOK, SockTypeOK
<1>5. \A d \in Conn : d # ConnOf(i) =>
        rx'[d] = rx[d] /\ (Readable(d) => Readable(d)')
  BY <1>1 DEF ScanGone, Inv, TypeOK, SockTypeOK, Readable
<1>6. report_flag' \in BOOLEAN
  BY DEF ScanGone, Inv, TypeOK
<1> QED BY <1>2, <1>3, <1>4, <1>5, <1>6, InvServed DEF ScanGone

\* read returned data.
LEMMA InvScanRead ==
  ASSUME Inv, ScanRead
  PROVE  Inv'
<1> DEFINE c == ConnOf(i)
           others == Serving(Listeners(i))
           entry == [from |-> c, said |-> ReadChunk(c)]
<1>1. /\ pc = "scan" /\ InScan /\ client[i] \in rset /\ rx[c] # << >>
      /\ i \in Used /\ c \in Conn /\ TypeOK
  BY ServedSlot, UsedSlots DEF ScanRead, Inv
<1>2. entry \in Entry /\ Unread(c) \in Seq(Message)
  <2>1. ReadChunk(c) \in Chunk /\ Unread(c) \in Seq(Message)
    BY <1>1, ReadType DEF TypeOK
  <2> QED BY <1>1, <2>1 DEF Entry
<1>3. CASE DieWriting(Listeners(i), entry)
  BY <1>1, <1>2, <1>3, InvDieWriting DEF Listeners
<1>4. CASE ~DieWriting(Listeners(i), entry)
  <2>1. /\ got' = Delivered(others, entry)
        /\ \E answered \in Answers(others) :
             peer' = IF IsExit(ReadChunk(c))
                       THEN [answered EXCEPT ![c] = "done"] ELSE answered
        /\ IF IsExit(ReadChunk(c)) THEN Drop(i) ELSE UNCHANGED <<tabVars, fdt>>
        /\ report_flag' = (report_flag \/ ReadChunk(c) = <<"report">>)
        /\ rx' = [rx EXCEPT ![c] = Unread(c)]
        /\ i' = i + 1
        /\ UNCHANGED <<pc, server_left, rset, backlog, sent>>
    BY <1>4 DEF ScanRead
  <2>2. PICK answered \in Answers(others) :
          peer' = IF IsExit(ReadChunk(c))
                    THEN [answered EXCEPT ![c] = "done"] ELSE answered
    BY <2>1
  <2>3. /\ answered \in [Conn -> PeerState]
        /\ \A d \in Conn : \/ answered[d] = peer[d]
                           \/ peer[d] = "fin" /\ answered[d] = "rst"
    BY <1>1, AnswersType DEF TypeOK
  <2>4. /\ peer' \in [Conn -> PeerState]
        /\ \A d \in Conn : peer[d] # "new" => peer'[d] # "new"
    BY <1>1, <2>2, <2>3 DEF PeerState
  <2>5. got' \in [Conn -> Seq(Entry)]
    BY <1>1, <1>2, <2>1, DeliveredType DEF TypeOK
  <2>6. rx' \in [Conn -> Seq(Message)]
    BY <1>1, <1>2, <2>1 DEF TypeOK, SockTypeOK
  <2>7. \A d \in Conn : d # c =>
          rx'[d] = rx[d] /\ (Readable(d) => Readable(d)')
    <3> SUFFICES ASSUME NEW d \in Conn, d # c
                 PROVE  rx'[d] = rx[d] /\ (Readable(d) => Readable(d)')
      OBVIOUS
    <3>1. rx'[d] = rx[d]
      BY <1>1, <2>1 DEF TypeOK, SockTypeOK
    <3>2. peer'[d] = answered[d]
      BY <2>2, <2>3
    <3> QED BY <2>3, <3>1, <3>2 DEF Readable
  <2>8. report_flag' \in BOOLEAN
    BY <2>1
  <2>9. Drop(i) \/ UNCHANGED <<tabVars, fdt>>
    BY <2>1
  <2> QED BY <1>1, <2>1, <2>4, <2>5, <2>6, <2>7, <2>8, <2>9, InvServed
<1> QED BY <1>3, <1>4

\* A client connects, sends or ends its connection.
LEMMA InvClients ==
  ASSUME Inv, ClientsAct
  PROVE  Inv'
<1>1. UNCHANGED <<ctlVars, tabVars, rset, report_flag>> /\ pc # "exited"
  BY DEF ClientsAct, Running
<1>2. PICK c \in Conn : Connect(c) \/ Hangup(c) \/ \E m \in Message : Send(c, m)
  BY DEF ClientsAct, ClientStep
<1>3. UNCHANGED <<fdt, got>>
  BY <1>2 DEF Connect, Hangup, Send
<1>4. \A fd \in Fd : fdt[fd] # Free => fdt[fd] \in Conn
  BY DEF Inv, TypeOK, SockTypeOK
<1>5. \A d \in Conn : peer[d] # "new" =>
        peer'[d] # "new" /\ (Readable(d) => Readable(d)')
  BY ClientsKeep DEF ClientsAct, Inv, TypeOK
<1>6. TypeOK'
  <2>1. SockTypeOK'
    BY ClientStepType DEF ClientsAct, Inv, TypeOK
  <2> QED BY <1>1, <2>1 DEF ctlVars, tabVars, Inv, TypeOK
<1>7. Matched'
  BY MatchedClients DEF ClientsAct, Inv, TypeOK
<1>8. Tabled' /\ ScanReaches'
  BY <1>1, <1>3 DEF ctlVars, tabVars, Inv, Tabled, ScanReaches, Used
<1>9. Marked'
  <2>1. pc = "accept" => backlog' # << >>
    BY <1>2 DEF Inv, Marked, TypeOK, SockTypeOK, Connect, Hangup, Send
  <2>2. ASSUME NEW fd \in Fd, fdt[fd] # Free, Readable(fdt[fd])
        PROVE  Readable(fdt[fd])'
    BY <1>3, <1>4, <1>5, <2>2 DEF Inv, Matched, Readable
  <2>3. rset \ {listenfd} \subseteq Fd
    BY DEF Inv, TypeOK
  <2>4. \A s \in Used : client[s] \in Fd /\ fdt[client[s]] # Free
    BY <1>1, UsedSlots, SocketAssumption DEF Inv, Tabled
  <2> QED BY <1>1, <1>3, <2>1, <2>2, <2>3, <2>4
          DEF ctlVars, tabVars, Inv, Marked, Used, ConnOf, Readable
<1> QED BY <1>6, <1>7, <1>8, <1>9 DEF Inv

\* Inv is an invariant of the server.
THEOREM InvHolds == Spec => []Inv
<1>1. Inv /\ [Next]_vars => Inv'
  <2> SUFFICES ASSUME Inv, [Next]_vars PROVE Inv'
    OBVIOUS
  <2> USE DEF Next, ServerStep
  <2>1. CASE \/ TestLeft \/ AcceptFails \/ ScanDone \/ ScanSkip \/ SigInt
             \/ UNCHANGED vars
    BY <2>1, InvControl
  <2>2. CASE SelectReady
    BY <2>2, InvSelectReady
  <2>3. CASE SelectTimeout
    BY <2>3, InvTimeout
  <2>4. CASE Accept
    BY <2>4, InvAccept
  <2>5. CASE ScanGone
    BY <2>5, InvScanGone
  <2>6. CASE ScanRead
    BY <2>6, InvScanRead
  <2>7. CASE CloseAll
    BY <2>7, InvCloseAll
  <2>8. CASE ClientsAct
    BY <2>8, InvClients
  <2> QED BY <2>1, <2>2, <2>3, <2>4, <2>5, <2>6, <2>7, <2>8
<1> QED BY InvInit, <1>1, PTL DEF Spec

----------------------------------------------------------------------------
(* What Inv implies. *)

\* Every variable keeps its type; in particular every descriptor the server
\* sets in allset is one select(2) can watch, and no index leaves client[].
THEOREM TypeCorrect == Spec => []TypeOK
<1>1. Inv => TypeOK
  BY DEF Inv
<1> QED BY InvHolds, <1>1, PTL

\* The slots, the watched descriptors and the open descriptors agree, for any
\* number of clients (server.c:137-159, 168-202).
THEOREM TableExactHolds == Spec => []TableExact
<1>1. Inv => TableExact
  <2> SUFFICES ASSUME Inv, pc # "exited"
               PROVE  /\ \A s, t \in Used : ConnOf(s) = ConnOf(t) => s = t
                      /\ allset = {listenfd} \cup {client[s] : s \in Used}
                      /\ {fd \in Fd : fdt[fd] # Free}
                           = {client[s] : s \in Used}
    BY DEF TableExact
  <2>1. /\ \A s \in Used : client[s] \in Fd /\ ConnOf(s) \in Conn
        /\ \A s, t \in Used : ConnOf(s) = ConnOf(t) => s = t
    BY UsedSlots
  <2> QED BY <2>1 DEF Inv, Tabled
<1> QED BY InvHolds, <1>1, PTL

\* No client is out of the reach of the scan or of select (server.c:106, 162).
THEOREM ScanReachesHolds == Spec => []ScanReaches
<1>1. Inv => ScanReaches
  BY DEF Inv
<1> QED BY InvHolds, <1>1, PTL

\* No accept and no read of the server ever waits (server.c:129, 169).
THEOREM NeverBlocksHolds == Spec => []NeverBlocks
<1>1. Inv => NeverBlocks
  BY DEF Inv, Marked, NeverBlocks
<1> QED BY InvHolds, <1>1, PTL

\* The table cannot be full: there are fewer descriptors for clients than
\* slots (server.c:145).
THEOREM AlwaysASlotHolds == Spec => []AlwaysASlot
<1>1. Inv => AlwaysASlot
  <2> SUFFICES ASSUME Inv, FreeSlots = {}
               PROVE  FALSE
    BY DEF AlwaysASlot
  <2>1. Used = Slot
    BY DEF FreeSlots, Used
  <2>2. client \in Injection(Slot, Fd)
    <3>1. client \in [Slot -> Fd]
      BY <2>1 DEF Inv, TypeOK, Used
    <3>2. \A s, t \in Slot : client[s] = client[t] => s = t
      BY <2>1 DEF Inv, Tabled
    <3> QED BY <3>1, <3>2 DEF Injection, IsInjective
  <2>3. /\ IsFiniteSet(Slot) /\ Cardinality(Slot) = FD_SETSIZE
        /\ IsFiniteSet(Fd) /\ Cardinality(Fd) < FD_SETSIZE
    <3>1. /\ FD_SETSIZE \in Nat \ {0} /\ NOFILE \in Nat /\ FirstFd = 4
          /\ NOFILE <= FD_SETSIZE
      BY SelectAssumption, SocketAssumption
    <3>2. /\ IsFiniteSet(0..(FD_SETSIZE - 1)) /\ IsFiniteSet(4..(NOFILE - 1))
          /\ Cardinality(0..(FD_SETSIZE - 1)) = FD_SETSIZE
      BY <3>1, FS_Interval
    <3>3. Cardinality(4..(NOFILE - 1))
            = IF 4 > NOFILE - 1 THEN 0 ELSE (NOFILE - 1) - 4 + 1
      BY <3>1, FS_Interval
    <3>4. Cardinality(4..(NOFILE - 1)) < FD_SETSIZE
      BY <3>1, <3>3
    <3> QED BY <3>1, <3>2, <3>4 DEF Slot, Fd
  <2>4. Cardinality(Slot) <= Cardinality(Fd)
    BY <2>2, <2>3, FS_Injection
  <2>5. Cardinality(Fd) \in Nat
    BY <2>3, FS_CardinalityType
  <2> QED BY <2>3, <2>4, <2>5, SelectAssumption
<1> QED BY InvHolds, <1>1, PTL

----------------------------------------------------------------------------
(* Who is served: only Accept adds a client and only three steps remove one. *)

\* Drop takes one client out of those served.
LEMMA DropLeaves ==
  ASSUME Inv, pc = "scan", InScan, client[i] \in rset, Drop(i)
  PROVE  Serving(Used)' = Serving(Used) \ {ConnOf(i)}
<1>1. i \in Used /\ Inv /\ pc # "exited"
  BY ServedSlot
<1>2. /\ \A s \in Used : s \in Slot /\ client[s] \in Fd
      /\ \A s, t \in Used : ConnOf(s) = ConnOf(t) => s = t
      /\ \A s, t \in Used : client[s] = client[t] => s = t
  BY <1>1, UsedSlots DEF Inv, Tabled
<1>3. /\ client' = [client EXCEPT ![i] = -1]
      /\ fdt' = [fdt EXCEPT ![client[i]] = Free]
  BY DEF Drop, Closed
<1>4. Used' = Used \ {i}
  BY <1>1, <1>3 DEF Used, Inv, TypeOK
<1>5. \A s \in Used' : ConnOf(s)' = ConnOf(s)
  BY <1>1, <1>2, <1>3, <1>4 DEF ConnOf, Inv, TypeOK, SockTypeOK
<1> QED BY <1>1, <1>2, <1>4, <1>5 DEF Serving

\* Accept adds the first client of the backlog, who was not served.
LEMMA AcceptJoins ==
  ASSUME Inv, Accept, FreeSlots # {}
  PROVE  /\ Serving(Used)' = Serving(Used) \cup {Head(backlog)}
         /\ Head(backlog) \in Conn \ Serving(Used)
<1> DEFINE connfd == LowestFreeFd
           s == FirstFreeSlot
<1>1. /\ \A t \in Used : t \in Slot /\ client[t] \in Fd /\ ConnOf(t) \in Conn
      /\ backlog \in Seq(Conn) /\ backlog # << >>
  BY UsedSlots DEF Accept, Inv, Marked, TypeOK, SockTypeOK
<1>2. Head(backlog) = backlog[1] /\ 1 \in 1..Len(backlog) /\ Head(backlog) \in Conn
  BY <1>1, EmptySeq, HeadTailProperties
<1>3. connfd \in Fd /\ fdt[connfd] = Free
  BY LowestFreeFdIsFree DEF Accept, Inv, TypeOK, FreeFds
<1>4. s \in Slot /\ s \notin Used
  BY FirstFreeSlotIsFree DEF FreeSlots
<1>5. /\ fdt' = [fdt EXCEPT ![connfd] = Head(backlog)]
      /\ client' = [client EXCEPT ![s] = connfd]
  BY DEF Accept, Opened
<1>6. Used' = Used \cup {s}
  BY <1>3, <1>4, <1>5, SelectAssumption, SocketAssumption
     DEF Used, Inv, TypeOK, Fd
<1>7. fdt'[client'[s]] = Head(backlog)
  BY <1>3, <1>4, <1>5 DEF ConnOf, Inv, TypeOK, SockTypeOK
<1>8. \A t \in Used : fdt'[client'[t]] = fdt[client[t]]
  BY <1>1, <1>3, <1>4, <1>5, SocketAssumption
     DEF ConnOf, Inv, TypeOK, SockTypeOK
<1>9. \A t \in Used : fdt[client[t]] # Head(backlog)
  BY <1>1, <1>2 DEF Inv, Matched
<1>10. Serving(Used)' = {fdt'[client'[t]] : t \in Used \cup {s}}
  BY <1>6 DEF Serving, ConnOf
<1> HIDE DEF s, connfd
<1> QED BY <1>2, <1>7, <1>8, <1>9, <1>10 DEF Serving, ConnOf

\* The steps after which the same clients are served.
LEMMA SameServed ==
  ASSUME UNCHANGED <<client, fdt>>
  PROVE  Serving(Used)' = Serving(Used)
BY DEF Serving, Used, ConnOf

\* A client is dropped only when its connection ended or it said "exit"
\* (server.c:170-202), or when the server leaves.
THEOREM NoWrongfulDropHolds == Spec => NoWrongfulDrop
<1> DEFINE Rightful == \A c \in Serving(Used) : c \notin Serving(Used)' =>
                         \/ pc = "close"
                         \/ rx[c] = << >> /\ peer[c] \in {"fin", "rst"}
                         \/ ReadChunk(c) = <<"exit">>
<1>1. Inv /\ [Next]_vars => [Rightful]_vars
  <2> SUFFICES ASSUME Inv, Next PROVE Rightful
    OBVIOUS
  <2>1. CASE UNCHANGED <<client, fdt>>
    BY <2>1, SameServed
  <2>2. CASE CloseAll
    BY <2>2 DEF CloseAll
  <2>3. CASE Accept /\ FreeSlots # {}
    BY <2>3, AcceptJoins
  <2>4. CASE ScanGone
    <3>1. Serving(Used)' = Serving(Used) \ {ConnOf(i)}
      BY <2>4, DropLeaves DEF ScanGone
    <3> QED BY <2>4, <3>1 DEF ScanGone
  <2>5. CASE ScanRead /\ Drop(i) /\ IsExit(ReadChunk(ConnOf(i)))
    <3>1. Serving(Used)' = Serving(Used) \ {ConnOf(i)}
      BY <2>5, DropLeaves DEF ScanRead
    <3> QED BY <2>5, <3>1 DEF IsExit
  <2>6. CASE ScanRead /\ ~(Drop(i) /\ IsExit(ReadChunk(ConnOf(i))))
    BY <2>1, <2>6, SameServed DEF ScanRead, DieWriting, tabVars
  <2>7. CASE TestLeft \/ SelectReady \/ SelectTimeout \/ AcceptFails
               \/ ScanDone \/ ScanSkip \/ SigInt
    BY <2>1, <2>7 DEF TestLeft, SelectReady, SelectTimeout, AcceptFails,
         ScanDone, ScanSkip, SigInt, DieWriting, tabVars, sockVars
  <2>8. CASE Accept /\ FreeSlots = {}
    BY <2>1, <2>8 DEF Accept, tabVars
  <2>9. CASE ClientsAct
    BY <2>1, <2>9 DEF ClientsAct, ClientStep, Connect, Hangup, Send, tabVars
  <2> QED BY <2>2, <2>3, <2>4, <2>5, <2>6, <2>7, <2>8, <2>9
          DEF Next, ServerStep
<1> QED BY InvHolds, <1>1, PTL DEF Spec, NoWrongfulDrop

----------------------------------------------------------------------------
(* The server implements the chat room. *)

RoomMembers == IF Running THEN Serving(Used) ELSE {}
Cut == {c \in Conn : peer[c] = "rst"}

\* What the room says its members hear is what the server writes to them.
LEMMA HeardIsDelivered ==
  ASSUME NEW listeners, NEW targets, NEW entry,
         \A c \in Conn : c \in listeners <=> c \in targets /\ peer[c] # "rst"
  PROVE  Room!Heard(listeners, entry) = Delivered(targets, entry)
<1>1. \A t : Room!Hear(t, entry) = Hear(t, entry)
  BY DEF Room!Hear, Hear, Room!Announcement, Announcement
<1> QED BY <1>1 DEF Room!Heard, Delivered

\* One read of the server takes what the room lets one Say take.
LEMMA ReadIsSpoken ==
  ASSUME SockTypeOK, NEW c \in Conn, rx[c] # << >>
  PROVE  /\ ReadSize(c) \in Room!Speakable(c)
         /\ Room!Spoken(c, ReadSize(c)) = [from |-> c, said |-> ReadChunk(c)]
         /\ Room!Unspoken(c, ReadSize(c)) = Unread(c)
<1>1. rx[c] \in Seq(Message)
  BY DEF SockTypeOK
<1>2. Len(rx[c]) \in Nat \ {0}
  BY <1>1, EmptySeq
<1>3. ReadSize(c) \in 1..MaxChunk /\ ReadSize(c) <= Len(rx[c])
  BY <1>2, TranscriptAssumption DEF ReadSize
<1> QED BY <1>3 DEF Room!Speakable, Room!Spoken, Room!Unspoken, ReadChunk, Unread

\* A broadcast cut short: the members before the broken one have heard it.
LEMMA DyingIsEnding ==
  ASSUME Inv, pc \in {"select", "scan"}, NEW targets \in SUBSET Used, NEW entry,
         DieWriting(targets, entry),
         \/ entry = Announcement
         \/ \E s \in Used : /\ rx[ConnOf(s)] # << >>
                            /\ entry = [from |-> ConnOf(s),
                                      said |-> ReadChunk(ConnOf(s))]
                            /\ targets = Used \ {s}
  PROVE  Room!End
<1>1. /\ Running' = FALSE /\ RoomMembers = Serving(Used)
      /\ RoomMembers' = {} /\ UNCHANGED rx
  BY DEF Running, DieWriting, RoomMembers
<1>2. PICK s \in targets :
        got' = Delivered(Serving({t \in targets : t < s}), entry)
  BY DEF DieWriting
<1> DEFINE told == Serving({t \in targets : t < s})
           part == told \ Cut
<1>3. part \in SUBSET Serving(Used)
  BY DEF Serving
<1>4. CASE entry = Announcement
  <2>1. Room!Heard(part, Announcement) = Delivered(told, Announcement)
    BY HeardIsDelivered DEF Cut
  <2>2. got' = Delivered(told, Announcement)
    BY <1>2, <1>4
  <2>3. Room!Announcement = Announcement
    BY DEF Room!Announcement, Announcement
  <2> HIDE DEF part, told
  <2>4. \E p \in SUBSET RoomMembers : got' = Room!Heard(p, Room!Announcement)
    BY <1>1, <1>3, <2>1, <2>2, <2>3
  <2> QED BY <1>1, <2>4 DEF Room!End, RoomMembers
<1>5. CASE \E v \in Used : /\ rx[ConnOf(v)] # << >>
                        /\ entry = [from |-> ConnOf(v),
                                    said |-> ReadChunk(ConnOf(v))]
                        /\ targets = Used \ {v}
  <2>1. PICK v \in Used : /\ rx[ConnOf(v)] # << >>
                          /\ entry = [from |-> ConnOf(v),
                                     said |-> ReadChunk(ConnOf(v))]
                          /\ targets = Used \ {v}
    BY <1>5
  <2>2. ConnOf(v) \in Serving(Used) /\ ConnOf(v) \notin told
    BY <2>1, UsedSlots DEF Serving
  <2>3. Room!Heard(part \ {ConnOf(v)}, entry) = Delivered(told, entry)
    BY <2>2, HeardIsDelivered DEF Cut
  <2>4. \E n \in Room!Speakable(ConnOf(v)) : Room!Spoken(ConnOf(v), n) = entry
    BY <2>1, UsedSlots, ReadIsSpoken DEF Inv, TypeOK
  <2>5. got' = Delivered(told, entry)
    BY <1>2
  <2> HIDE DEF part, told
  <2>6. \E c \in RoomMembers, p \in SUBSET RoomMembers :
          \E n \in Room!Speakable(c) : got' = Room!Heard(p \ {c}, Room!Spoken(c, n))
    BY <1>1, <1>3, <2>2, <2>3, <2>4, <2>5
  <2> QED BY <1>1, <2>6 DEF Room!End, RoomMembers
<1> QED BY <1>4, <1>5

\* The room is empty at the start.
LEMMA RoomStarts == Init => Room!RoomInit
<1> SUFFICES ASSUME Init PROVE Room!RoomInit
  OBVIOUS
<1>1. Used = {} /\ Running /\ Serving(Used) = {}
  BY DEF Init, Used, Running, Serving
<1>2. \A c \in Conn : peer[c] # "rst"
  BY DEF Init, SockInit
<1> QED BY <1>1, <1>2 DEF Init, SockInit, Room!RoomInit

\* Steps that serve the same clients and write nothing.
LEMMA QuietSteps ==
  ASSUME UNCHANGED <<client, fdt, rx, got>>, Running' = Running
  PROVE  [Room!RoomNext]_(Room!roomVars)
<1>1. UNCHANGED <<Running, RoomMembers, rx, got>>
  BY SameServed DEF RoomMembers
<1> QED BY <1>1 DEF Room!RoomNext, RoomMembers

\* The report is an announcement to every member.
LEMMA TimeoutAnnounces ==
  ASSUME Inv, SelectTimeout
  PROVE  [Room!RoomNext]_(Room!roomVars)
<1>1. CASE DieWriting(Used, Announcement)
  <2>1. Room!End
    BY <1>1, DyingIsEnding DEF SelectTimeout
  <2> QED BY <2>1 DEF Room!RoomNext, Running, SelectTimeout
<1>2. CASE ~DieWriting(Used, Announcement)
  <2>1. UNCHANGED <<client, fdt, rx>> /\ Running /\ Running'
    BY <1>2 DEF SelectTimeout, tabVars, Running
  <2>2. CASE UNCHANGED got
    BY <2>1, <2>2, QuietSteps
  <2>3. CASE got' = Delivered(Serving(Used), Announcement)
    <3>1. RoomMembers = Serving(Used) /\ UNCHANGED <<Running, RoomMembers>>
      BY <2>1, SameServed DEF RoomMembers
    <3>2. Room!Heard(RoomMembers \ Cut, Announcement)
            = Delivered(Serving(Used), Announcement)
      BY <3>1, HeardIsDelivered DEF Cut
    <3>3. Room!Announcement = Announcement
      BY DEF Room!Announcement, Announcement
    <3>4. Room!Announce
      BY <2>1, <2>3, <3>1, <3>2, <3>3 DEF Room!Announce, RoomMembers, Cut
    <3> QED BY <2>1, <3>4 DEF Room!RoomNext
  <2> QED BY <1>2, <2>2, <2>3 DEF SelectTimeout
<1> QED BY <1>1, <1>2

\* Serving a client that has sent something is its Say.
LEMMA ReadSays ==
  ASSUME Inv, ScanRead
  PROVE  [Room!RoomNext]_(Room!roomVars)
<1> DEFINE c == ConnOf(i)
           chunk == ReadChunk(c)
           entry == [from |-> c, said |-> chunk]
           others == Serving(Listeners(i))
<1>1. /\ pc = "scan" /\ InScan /\ client[i] \in rset /\ rx[c] # << >>
      /\ i \in Used /\ c \in Conn /\ TypeOK
  BY ServedSlot, UsedSlots DEF ScanRead, Inv
<1>2. /\ ReadSize(c) \in Room!Speakable(c)
      /\ Room!Spoken(c, ReadSize(c)) = entry
      /\ Room!Unspoken(c, ReadSize(c)) = Unread(c)
  BY <1>1, ReadIsSpoken DEF TypeOK
<1>3. c \in Serving(Used) /\ Running /\ RoomMembers = Serving(Used)
  BY <1>1 DEF Serving, Running, RoomMembers
<1>4. CASE DieWriting(Listeners(i), entry)
  <2>1. Room!End
    BY <1>1, <1>2, <1>4, DyingIsEnding DEF Listeners
  <2> QED BY <1>3, <2>1 DEF Room!RoomNext
<1>5. CASE ~DieWriting(Listeners(i), entry)
  <2>1. /\ got' = Delivered(others, entry)
        /\ IF IsExit(chunk) THEN Drop(i) ELSE UNCHANGED <<tabVars, fdt>>
        /\ rx' = [rx EXCEPT ![c] = Unread(c)]
        /\ UNCHANGED pc
    BY <1>5 DEF ScanRead
  <2>2. Running' = Running
    BY <2>1 DEF Running
  <2>3. RoomMembers' = IF chunk = <<"exit">> THEN RoomMembers \ {c}
                                            ELSE RoomMembers
    <3>1. CASE IsExit(chunk)
      BY <1>1, <1>3, <2>1, <2>2, <3>1, DropLeaves DEF RoomMembers, IsExit
    <3>2. CASE ~IsExit(chunk)
      BY <1>3, <2>1, <2>2, <3>2, SameServed DEF RoomMembers, IsExit, tabVars
    <3> QED BY <3>1, <3>2
  <2>4. others = Serving(Used) \ {c}
    <3>1. \A s \in Used : ConnOf(s) = c => s = i
      BY <1>1, UsedSlots
    <3> QED BY <1>1, <3>1 DEF Serving, Listeners
  <2>5. Room!Heard(RoomMembers \ (Cut \cup {c}), entry) = Delivered(others, entry)
    <3>1. \A d \in Conn : d \in RoomMembers \ (Cut \cup {c})
                           <=> d \in others /\ peer[d] # "rst"
      BY <1>3, <2>4 DEF Cut
    <3> QED BY <3>1, HeardIsDelivered
  <2>6. Room!Say(c, ReadSize(c))
    <3>1. Room!Spoken(c, ReadSize(c)).said = chunk
      BY <1>2
    <3> HIDE DEF c, chunk, entry, others
    <3> QED BY <1>2, <1>3, <2>1, <2>2, <2>3, <2>5, <3>1
            DEF Room!Say, RoomMembers, Cut
  <2> QED BY <1>1, <1>2, <1>3, <2>6 DEF Room!RoomNext
<1> QED BY <1>4, <1>5

\* The whole select server, for any number of clients, behaves as a chat room:
\* what a member says is heard at once and once by the others, in one order.
THEOREM SelectImplementsRoom == Spec => IsChatRoom
<1>1. Inv /\ [Next]_vars => [Room!RoomNext]_(Room!roomVars)
  <2> SUFFICES ASSUME Inv, [Next]_vars
               PROVE  [Room!RoomNext]_(Room!roomVars)
    OBVIOUS
  <2>1. CASE \/ TestLeft \/ SelectReady \/ AcceptFails \/ ScanDone \/ ScanSkip
             \/ SigInt \/ UNCHANGED vars
    <3>1. UNCHANGED <<client, fdt, rx, got>> /\ Running' = Running
      BY <2>1 DEF TestLeft, SelectReady, AcceptFails, ScanDone, ScanSkip,
           SigInt, vars, ctlVars, tabVars, sockVars, Running
    <3> QED BY <3>1, QuietSteps
  <2>2. CASE ClientsAct
    <3>1. UNCHANGED <<client, fdt, got>> /\ Running /\ Running'
      BY <2>2 DEF ClientsAct, ClientStep, Connect, Hangup, Send, ctlVars,
           tabVars, Running
    <3>2. CASE UNCHANGED rx
      BY <3>1, <3>2, QuietSteps
    <3>3. CASE \E c \in Conn, m \in Message : Send(c, m)
      <4>1. PICK c \in Conn, m \in Message : Send(c, m)
        BY <3>3
      <4>2. UNCHANGED <<Running, RoomMembers>>
        BY <3>1, SameServed DEF RoomMembers
      <4>3. Room!Write(c, m) /\ m \in Room!Message
        BY <3>1, <4>1, <4>2
           DEF Send, Room!Write, RoomMembers, Room!Message, Message
      <4> QED BY <3>1, <4>3 DEF Room!RoomNext
    <3> QED BY <2>2, <3>2, <3>3 DEF ClientsAct, ClientStep, Connect, Hangup
  <2>3. CASE SelectTimeout
    BY <2>3, TimeoutAnnounces
  <2>4. CASE Accept /\ FreeSlots = {}
    <3>1. UNCHANGED <<client, fdt, rx, got>> /\ Running' = Running
      BY <2>4 DEF Accept, tabVars, Running
    <3> QED BY <3>1, QuietSteps
  <2>5. CASE Accept /\ FreeSlots # {}
    <3>1. Running /\ Running' /\ UNCHANGED <<rx, got>>
      BY <2>5 DEF Accept, Running
    <3>2. Room!Join(Head(backlog))
      BY <2>5, <3>1, AcceptJoins DEF Room!Join
    <3>3. Head(backlog) \in Conn
      BY <2>5, AcceptJoins
    <3> QED BY <3>1, <3>2, <3>3 DEF Room!RoomNext
  <2>6. CASE ScanGone
    <3>1. Running /\ Running' /\ UNCHANGED <<rx, got>> /\ rx[ConnOf(i)] = << >>
      BY <2>6 DEF ScanGone, Running
    <3>2. ConnOf(i) \in Serving(Used) /\ ConnOf(i) \in Conn
      BY <2>6, ServedSlot, UsedSlots DEF ScanGone, Serving
    <3>3. Serving(Used)' = Serving(Used) \ {ConnOf(i)}
      BY <2>6, DropLeaves DEF ScanGone
    <3>4. Room!Leave(ConnOf(i))
      BY <3>1, <3>2, <3>3 DEF Room!Leave
    <3> QED BY <3>1, <3>2, <3>4 DEF Room!RoomNext
  <2>7. CASE ScanRead
    BY <2>7, ReadSays
  <2>8. CASE CloseAll
    <3>1. Running /\ Running' = FALSE /\ UNCHANGED <<rx, got>>
      BY <2>8 DEF CloseAll, Running
    <3>2. Room!End
      BY <3>1 DEF Room!End
    <3> QED BY <3>1, <3>2 DEF Room!RoomNext
  <2> QED BY <2>1, <2>2, <2>3, <2>4, <2>5, <2>6, <2>7, <2>8
          DEF Next, ServerStep
<1> QED BY InvHolds, RoomStarts, <1>1, PTL DEF Spec, IsChatRoom, Room!RoomSpec

=============================================================================
