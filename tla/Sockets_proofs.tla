--------------------------- MODULE Sockets_proofs ---------------------------
(***************************************************************************)
(* Facts about the kernel's operators, for the proofs of the servers.      *)
(***************************************************************************)
EXTENDS Sockets, Integers, TLAPS, FiniteSetTheorems, SequenceTheorems,
        WellFoundedInduction

----------------------------------------------------------------------------
(* Choosing the least descriptor and the least slot. *)

\* A non-empty set of natural numbers has a least element.
LEMMA LeastExists ==
  ASSUME NEW S \in SUBSET Nat, S # {}
  PROVE  \E m \in S : \A n \in S : m <= n
<1> DEFINE Below == {0..(m - 1) : m \in S}
           Smaller == StrictSubsetOrdering(Nat)
<1>1. Below \subseteq FiniteSubsetsOf(Nat) /\ Below # {}
  <2>1. ASSUME NEW m \in S
        PROVE  0..(m - 1) \in SUBSET Nat /\ IsFiniteSet(0..(m - 1))
    BY FS_Interval
  <2> QED BY <2>1 DEF FiniteSubsetsOf
<1>2. IsWellFoundedOn(Smaller, FiniteSubsetsOf(Nat))
  BY FS_StrictSubsetOrderingWellFounded
<1>3. \E x \in Below : \A y \in Below : ~ (<<y, x>> \in Smaller)
  <2> HIDE DEF Below, Smaller
  <2> QED BY <1>1, <1>2, WFMin
<1>4. PICK m \in S : \A y \in Below : ~ (<<y, 0..(m - 1)>> \in Smaller)
  BY <1>3
<1>5. ASSUME NEW n \in S, n < m
      PROVE  FALSE
  <2>1. m \in Nat /\ n \in Nat
    OBVIOUS
  <2>2. 0..(n - 1) \subseteq 0..(m - 1)
    BY <1>5, <2>1
  <2>3. n \in 0..(m - 1) /\ n \notin 0..(n - 1)
    BY <1>5, <2>1
  <2>4. 0..(n - 1) \in SUBSET Nat /\ 0..(m - 1) \in SUBSET Nat
    BY <2>1
  <2> QED BY <1>4, <2>2, <2>3, <2>4 DEF StrictSubsetOrdering
<1> QED BY <1>5

\* accept returns a descriptor that is free (server.c:129).
LEMMA LowestFreeFdIsFree ==
  ASSUME SockTypeOK, FreeFds # {}
  PROVE  LowestFreeFd \in FreeFds
<1>1. FreeFds \in SUBSET Nat
  BY SocketAssumption DEF FreeFds, Fd
<1>2. \E fd \in FreeFds : \A other \in FreeFds : fd <= other
  BY <1>1, LeastExists
<1> QED BY <1>2 DEF LowestFreeFd

----------------------------------------------------------------------------
(* Cutting a sequence in two. *)

\* The first n elements of a sequence.
LEMMA Prefix ==
  ASSUME NEW S, NEW seq \in Seq(S), NEW n \in 0..Len(seq)
  PROVE  /\ SubSeq(seq, 1, n) \in Seq(S)
         /\ Len(SubSeq(seq, 1, n)) = n
         /\ \A k \in 1..n : SubSeq(seq, 1, n)[k] = seq[k]
<1>1. /\ Len(seq) \in Nat /\ 1 \in Int /\ n \in Int
      /\ \A k \in 1..n : seq[k] \in S
  BY ElementOfSeq
<1> DEFINE part == SubSeq(seq, 1, n)
<1>2. /\ part \in Seq(S)
      /\ Len(part) = IF 1 <= n THEN n - 1 + 1 ELSE 0
      /\ \A k \in 1..(n - 1 + 1) : part[k] = seq[1 + k - 1]
  BY <1>1, SubSeqProperties
<1> HIDE DEF part
<1>3. Len(part) = n
  BY <1>2
<1>4. ASSUME NEW k \in 1..n PROVE part[k] = seq[k]
  <2>1. k \in 1..(n - 1 + 1) /\ 1 + k - 1 = k
    BY <1>1
  <2> QED BY <1>2, <2>1
<1> QED BY <1>2, <1>3, <1>4 DEF part

\* What comes after the first n elements.
LEMMA Suffix ==
  ASSUME NEW S, NEW seq \in Seq(S), NEW n \in 0..Len(seq)
  PROVE  /\ SubSeq(seq, n + 1, Len(seq)) \in Seq(S)
         /\ Len(SubSeq(seq, n + 1, Len(seq))) = Len(seq) - n
         /\ \A k \in 1..(Len(seq) - n) :
              SubSeq(seq, n + 1, Len(seq))[k] = seq[n + k]
<1> DEFINE L == Len(seq)
           m == n + 1
           part == SubSeq(seq, m, L)
<1>1. L \in Nat /\ n \in 0..L /\ L \in Int /\ m \in Int
  OBVIOUS
<1>2. \A k \in m..L : seq[k] \in S
  BY ElementOfSeq
<1>3. /\ part \in Seq(S)
      /\ Len(part) = IF m <= L THEN L - m + 1 ELSE 0
      /\ \A k \in 1..(L - m + 1) : part[k] = seq[m + k - 1]
  <2> HIDE DEF m, L
  <2> QED BY <1>1, <1>2, SubSeqProperties
<1> HIDE DEF part, L
<1>4. Len(part) = L - n
  BY <1>1, <1>3
<1>5. ASSUME NEW k \in 1..(L - n) PROVE part[k] = seq[n + k]
  <2>1. k \in 1..(L - m + 1) /\ m + k - 1 = n + k
    BY <1>1
  <2> QED BY <1>3, <2>1
<1> QED BY <1>3, <1>4, <1>5 DEF part, L
----------------------------------------------------------------------------
(* What is read and what is written has its type. *)

\* No connection, nothing received, nothing written.
LEMMA SockInitType == SockInit => SockTypeOK
<1> SUFFICES ASSUME SockInit PROVE SockTypeOK
  OBVIOUS
<1>1. /\ << >> \in Seq(Conn) /\ << >> \in Seq(Message)
      /\ << >> \in Seq(Entry)
  OBVIOUS
<1>2. backlog \in Seq(Conn) /\ sent \in Nat
  BY <1>1 DEF SockInit
<1>3. rx \in [Conn -> Seq(Message)] /\ got \in [Conn -> Seq(Entry)]
  BY <1>1 DEF SockInit
<1>4. fdt \in [Fd -> Conn \cup {Free}]
  BY DEF SockInit
<1>5. peer \in [Conn -> PeerState]
  BY DEF SockInit, PeerState
<1> QED BY <1>2, <1>3, <1>4, <1>5 DEF SockTypeOK

\* What is heard and what is announced are transcripts.
LEMMA HearType ==
  ASSUME NEW t \in Seq(Entry), NEW e \in Entry
  PROVE  Hear(t, e) \in Seq(Entry)
BY DEF Hear

LEMMA AnnouncementIsEntry == Announcement \in Entry
BY DEF Entry

\* What is delivered too.
LEMMA DeliveredType ==
  ASSUME SockTypeOK, NEW targets, NEW e \in Entry
  PROVE  Delivered(targets, e) \in [Conn -> Seq(Entry)]
<1>1. ASSUME NEW c \in Conn
      PROVE  /\ got[c] \in Seq(Entry)
             /\ Hear(got[c], e) \in Seq(Entry)
  BY HearType DEF SockTypeOK
<1> QED BY <1>1 DEF Delivered

\* A write changes the state of a connection only from "fin" to "rst".
LEMMA AnswersType ==
  ASSUME SockTypeOK, NEW targets, NEW answered \in Answers(targets)
  PROVE  /\ answered \in [Conn -> PeerState]
         /\ \A c \in Conn : \/ answered[c] = peer[c]
                            \/ peer[c] = "fin" /\ answered[c] = "rst"
BY DEF Answers, SockTypeOK, SockTypeOK, PeerState

\* One read returns at least one message and leaves the rest (server.c:169).
LEMMA ReadType ==
  ASSUME SockTypeOK, NEW c \in Conn, rx[c] # << >>
  PROVE  /\ ReadChunk(c) \in Chunk
         /\ Unread(c) \in Seq(Message)
<1> DEFINE n == ReadSize(c)
<1>1. rx[c] \in Seq(Message)
  BY DEF SockTypeOK
<1>2. Len(rx[c]) \in Nat \ {0} /\ \A k \in 1..Len(rx[c]) : rx[c][k] \in Message
  BY <1>1, EmptySeq, ElementOfSeq
<1>3. n \in 1..MaxChunk /\ n <= Len(rx[c])
  BY <1>2, TranscriptAssumption DEF ReadSize
<1>4. \A k \in 1..n : rx[c][k] \in Message
  BY <1>2, <1>3
<1>5. ReadChunk(c) \in Seq(Message) /\ Len(ReadChunk(c)) = n
  BY <1>3, <1>4, SubSeqProperties DEF ReadChunk
<1>6. ReadChunk(c) \in [1..n -> Message]
  BY <1>5, LenProperties
<1>7. Unread(c) \in Seq(Message)
  BY <1>2, <1>3, SubSeqProperties DEF Unread
<1> QED BY <1>3, <1>6, <1>7 DEF Chunk

\* A read that returns data takes some.
LEMMA UnreadIsLess ==
  ASSUME SockTypeOK, NEW c \in Conn, rx[c] # << >>
  PROVE  Unread(c) # rx[c]
<1>1. rx[c] \in Seq(Message) /\ Len(rx[c]) \in Nat \ {0}
  BY EmptySeq DEF SockTypeOK
<1>2. ReadSize(c) \in 0..Len(rx[c]) /\ ReadSize(c) >= 1
  BY <1>1, TranscriptAssumption DEF ReadSize
<1>3. Len(Unread(c)) = Len(rx[c]) - ReadSize(c)
  BY <1>1, <1>2, Suffix DEF Unread
<1> QED BY <1>1, <1>2, <1>3

\* The steps of the clients.
LEMMA ClientStepType ==
  ASSUME SockTypeOK, ClientStep
  PROVE  SockTypeOK'
<1>1. PICK c \in Conn : Connect(c) \/ Hangup(c) \/ \E m \in Message : Send(c, m)
  BY DEF ClientStep
<1>2. CASE Connect(c)
  BY <1>2 DEF Connect, SockTypeOK, PeerState
<1>3. CASE Hangup(c)
  BY <1>3 DEF Hangup, SockTypeOK, PeerState
<1>4. CASE \E m \in Message : Send(c, m)
  BY <1>4 DEF Send, SockTypeOK
<1> QED BY <1>1, <1>2, <1>3, <1>4

----------------------------------------------------------------------------
(* The kernel never has one connection twice. *)

\* Nothing is open and nothing has come.
LEMMA MatchedInit == SockInit => Matched
BY DEF SockInit, Matched

\* Matched carries over when descriptors are only closed, the backlog stays
\* and no connection becomes new again.
LEMMA MatchedKept ==
  ASSUME SockTypeOK, Matched, UNCHANGED backlog,
         \A fd \in Fd : fdt'[fd] \in {fdt[fd], Free},
         \A c \in Conn : peer[c] # "new" => peer'[c] # "new"
  PROVE  Matched'
<1>1. \A m \in 1..Len(backlog) : backlog[m] \in Conn
  BY ElementOfSeq DEF SockTypeOK
<1>2. \A m \in 1..Len(backlog) : peer'[backlog[m]] # "new"
  BY <1>1 DEF Matched
<1>3. \A m \in 1..Len(backlog), fd \in Fd : fdt'[fd] # backlog[m]
  BY <1>1, SocketAssumption DEF Matched
<1>4. \A fd \in Fd : fdt'[fd] # Free => peer'[fdt'[fd]] # "new"
  BY DEF Matched, SockTypeOK
<1>5. \A fd, other \in Fd : fdt'[fd] = fdt'[other] /\ fdt'[fd] # Free
                              => fd = other
  BY DEF Matched
<1> QED BY <1>2, <1>3, <1>4, <1>5 DEF Matched

\* What is at the head of the backlog, and what is left of it.
LEMMA BacklogHead ==
  ASSUME SockTypeOK, backlog # << >>
  PROVE  /\ Head(backlog) \in Conn /\ Head(backlog) = backlog[1]
         /\ Len(backlog) \in Nat \ {0} /\ 1 \in 1..Len(backlog)
         /\ Tail(backlog) \in Seq(Conn) /\ Len(Tail(backlog)) = Len(backlog) - 1
         /\ \A m \in 1..Len(Tail(backlog)) :
              /\ m + 1 \in 1..Len(backlog) /\ m + 1 # 1
              /\ Tail(backlog)[m] = backlog[m + 1]
<1>1. backlog \in Seq(Conn)
  BY DEF SockTypeOK
<1>2. Len(backlog) \in Nat \ {0}
  BY <1>1, EmptySeq
<1>3. /\ Head(backlog) \in Conn /\ Head(backlog) = backlog[1]
      /\ Tail(backlog) \in Seq(Conn) /\ Len(Tail(backlog)) = Len(backlog) - 1
      /\ \A m \in 1..Len(Tail(backlog)) : Tail(backlog)[m] = backlog[m + 1]
  BY <1>1, HeadTailProperties
<1> QED BY <1>2, <1>3

\* The connection that accept takes leaves the backlog, whatever becomes of it
\* then: it was behind no descriptor, and it is not in the backlog again.
LEMMA HeadIsNobody ==
  ASSUME SockTypeOK, Matched, backlog # << >>
  PROVE  /\ \A fd \in Fd : fdt[fd] # Head(backlog)
         /\ \A m \in 1..Len(Tail(backlog)) : Tail(backlog)[m] # Head(backlog)
BY BacklogHead DEF Matched

\* accept takes a connection out of the backlog, and gives it a descriptor or not.
LEMMA MatchedAccepted ==
  ASSUME SockTypeOK, Matched, backlog # << >>, backlog' = Tail(backlog),
         \A c \in Conn : peer[c] # "new" => peer'[c] # "new",
         \/ UNCHANGED fdt
         \/ FreeFds # {} /\ fdt' = Opened(LowestFreeFd, Head(backlog))
  PROVE  Matched'
<1> DEFINE c == Head(backlog)
           connfd == LowestFreeFd
<1>1. \A m \in 1..Len(backlog) : backlog[m] \in Conn
  BY ElementOfSeq DEF SockTypeOK
<1>2. /\ \A m \in 1..Len(backlog') :
            /\ m + 1 \in 1..Len(backlog) /\ backlog'[m] = backlog[m + 1]
            /\ backlog'[m] \in Conn /\ backlog'[m] # c
      /\ c \in Conn /\ peer'[c] # "new"
      /\ Len(backlog') \in Nat
  BY <1>1, BacklogHead, HeadIsNobody DEF Matched
<1>3. \A m, n \in 1..Len(backlog') : backlog'[m] = backlog'[n] => m = n
  BY <1>2 DEF Matched
<1>4. \A m \in 1..Len(backlog') : peer'[backlog'[m]] # "new"
  BY <1>2 DEF Matched
<1>5. CASE UNCHANGED fdt
  <2>1. \A m \in 1..Len(backlog'), fd \in Fd : fdt'[fd] # backlog'[m]
    BY <1>2, <1>5 DEF Matched
  <2>2. \A fd \in Fd : fdt'[fd] # Free => peer'[fdt'[fd]] # "new"
    BY <1>5 DEF Matched, SockTypeOK
  <2> QED BY <1>3, <1>4, <1>5, <2>1, <2>2 DEF Matched
<1>6. CASE FreeFds # {} /\ fdt' = Opened(connfd, c)
  <2>1. connfd \in Fd /\ fdt' = [fdt EXCEPT ![connfd] = c]
    BY <1>6, LowestFreeFdIsFree DEF FreeFds, Opened
  <2>2. /\ fdt'[connfd] = c
        /\ \A fd \in Fd : fd # connfd => fdt'[fd] = fdt[fd] /\ fdt[fd] # c
    BY <2>1, HeadIsNobody DEF SockTypeOK
  <2>3. \A m \in 1..Len(backlog'), fd \in Fd : fdt'[fd] # backlog'[m]
    BY <1>2, <2>2 DEF Matched
  <2>4. \A fd \in Fd : fdt'[fd] # Free => peer'[fdt'[fd]] # "new"
    BY <1>2, <2>2 DEF Matched, SockTypeOK
  <2>5. \A fd, other \in Fd : fdt'[fd] = fdt'[other] /\ fdt'[fd] # Free
                                => fd = other
    BY <2>2 DEF Matched
  <2> QED BY <1>3, <1>4, <2>3, <2>4, <2>5 DEF Matched
<1> QED BY <1>5, <1>6

----------------------------------------------------------------------------
(* What the clients do to the kernel's state. *)

\* A sequence that something was appended to.
LEMMA AppendIsLonger ==
  ASSUME NEW S, NEW seq \in Seq(S), NEW e \in S
  PROVE  /\ Append(seq, e) # << >>
         /\ Len(seq) \in Nat /\ Len(Append(seq, e)) = Len(seq) + 1
<1>1. Len(Append(seq, e)) = Len(seq) + 1 /\ Len(seq) \in Nat
  OBVIOUS
<1>2. Len(<< >>) = 0
  OBVIOUS
<1> QED BY <1>1, <1>2

\* Nobody becomes new again, and what there was to read is still there.
LEMMA ClientsKeep ==
  ASSUME SockTypeOK, ClientStep
  PROVE  /\ UNCHANGED <<fdt, got>>
         /\ \A d \in Conn : peer[d] # "new" =>
              peer'[d] # "new" /\ (Readable(d) => Readable(d)')
         /\ backlog # << >> => backlog' # << >>
<1>1. PICK c \in Conn : Connect(c) \/ Hangup(c) \/ \E m \in Message : Send(c, m)
  BY DEF ClientStep
<1>2. CASE Connect(c)
  <2>1. backlog' # << >>
    BY <1>2, AppendIsLonger DEF Connect, SockTypeOK
  <2> QED BY <1>2, <2>1 DEF Connect, SockTypeOK, Readable
<1>3. CASE Hangup(c)
  BY <1>3 DEF Hangup, SockTypeOK, Readable
<1>4. CASE \E m \in Message : Send(c, m)
  <2>1. PICK m \in Message : Send(c, m)
    BY <1>4
  <2>2. Append(rx[c], m) # << >>
    BY AppendIsLonger DEF SockTypeOK
  <2>3. \A d \in Conn : rx'[d] = rx[d] \/ rx'[d] # << >>
    BY <2>1, <2>2 DEF Send, SockTypeOK
  <2>4. UNCHANGED <<backlog, fdt, peer, got>>
    BY <2>1 DEF Send
  <2> QED BY <2>3, <2>4 DEF Readable
<1> QED BY <1>1, <1>2, <1>3, <1>4

\* The steps of the clients.
LEMMA MatchedClients ==
  ASSUME SockTypeOK, Matched, ClientStep
  PROVE  Matched'
<1>1. PICK c \in Conn : Connect(c) \/ Hangup(c) \/ \E m \in Message : Send(c, m)
  BY DEF ClientStep
<1>2. CASE ~Connect(c)
  <2>1. UNCHANGED backlog
    BY <1>1, <1>2 DEF Hangup, Send
  <2> QED BY <2>1, ClientsKeep, MatchedKept
<1>3. CASE Connect(c)
  <2>1. /\ backlog \in Seq(Conn) /\ Len(backlog) \in Nat
        /\ backlog' = Append(backlog, c)
        /\ Len(backlog') = Len(backlog) + 1 /\ backlog'[Len(backlog) + 1] = c
        /\ \A m \in 1..Len(backlog) : /\ backlog'[m] = backlog[m]
                                      /\ backlog[m] \in Conn
    BY <1>3, LenProperties, ElementOfSeq DEF Connect, SockTypeOK
  <2>2. peer[c] = "new" /\ peer'[c] # "new" /\ UNCHANGED fdt
    BY <1>3 DEF Connect, SockTypeOK
  <2>3. \A m \in 1..Len(backlog) : backlog[m] # c
    BY <2>2 DEF Matched
  <2>4. \A fd \in Fd : fdt[fd] # c
    BY <2>2, SocketAssumption DEF Matched
  <2>5. \A m \in 1..Len(backlog') :
          m \in 1..Len(backlog) \/ m = Len(backlog) + 1
    BY <2>1
  <2>6. \A m, n \in 1..Len(backlog') : backlog'[m] = backlog'[n] => m = n
    BY <2>1, <2>3, <2>5 DEF Matched
  <2>7. \A m \in 1..Len(backlog') : peer'[backlog'[m]] # "new"
    BY <2>1, <2>2, <2>5, ClientsKeep DEF Matched
  <2>8. \A m \in 1..Len(backlog'), fd \in Fd : fdt'[fd] # backlog'[m]
    BY <2>1, <2>2, <2>4, <2>5 DEF Matched
  <2>9. \A fd \in Fd : fdt'[fd] # Free => peer'[fdt'[fd]] # "new"
    BY <2>2, ClientsKeep DEF Matched, SockTypeOK
  <2> QED BY <2>2, <2>6, <2>7, <2>8, <2>9 DEF Matched
<1> QED BY <1>2, <1>3

=============================================================================
