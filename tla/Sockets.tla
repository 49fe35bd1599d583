------------------------------ MODULE Sockets -------------------------------
(***************************************************************************)
(* The kernel as the chat servers see it: the listening socket's backlog,  *)
(* the process's descriptor table, and one TCP connection per client.      *)
(* None of this is code of the repository; every definition is what the    *)
(* servers rely on when they call accept, read, write and close.           *)
(*                                                                         *)
(* Descriptors 0..2 are the standard streams; the server's own descriptors *)
(* come next and stay open until it stops; FirstFd..NOFILE-1 are the ones  *)
(* accept(2) can return, lowest free one first.                            *)
(***************************************************************************)
EXTENDS Transcripts

CONSTANTS NOFILE,   \* RLIMIT_NOFILE: no descriptor reaches it
          FirstFd,  \* the first descriptor the server does not use itself
          MaxSend,  \* bound: how many messages the clients send in all
          Leavers,  \* bound: the clients that may close their end
          Free      \* "descriptor not open"

ASSUME SocketAssumption ==
  /\ NOFILE \in Nat /\ FirstFd \in Nat \ {0} /\ MaxSend \in Nat
  /\ Leavers \subseteq Conn
  /\ Free \notin Conn

VARIABLES backlog,  \* connections completed by the kernel, not yet accepted
          fdt,      \* fdt[fd]: the connection behind descriptor fd
          peer,     \* peer[c]: c's end of the connection, as the kernel knows
          rx,       \* rx[c]: messages received from c and not read yet
          sent,     \* how many messages the clients have sent
          got       \* got[c]: c's transcript

sockVars == <<backlog, fdt, peer, rx, sent, got>>

Fd == FirstFd..(NOFILE - 1)

\* "new": has not connected.  "up": connected.  "fin": closed its end, the
\* server will read end-of-file.  "rst": reset, the server will read an error
\* or end-of-file and must not write.  "done": the server closed its end.
PeerState == {"new", "up", "fin", "rst", "done"}

SockTypeOK ==
  /\ backlog \in Seq(Conn)
  /\ fdt \in [Fd -> Conn \cup {Free}]
  /\ peer \in [Conn -> PeerState]
  /\ rx \in [Conn -> Seq(Message)]
  /\ sent \in Nat
  /\ got \in [Conn -> Seq(Entry)]

SockInit ==
  /\ backlog = << >>
  /\ fdt = [fd \in Fd |-> Free]
  /\ peer = [c \in Conn |-> "new"]
  /\ rx = [c \in Conn |-> << >>]
  /\ sent = 0
  /\ got = [c \in Conn |-> << >>]

----------------------------------------------------------------------------
(* The clients. *)

Connect(c) ==
  /\ peer[c] = "new"
  /\ peer' = [peer EXCEPT ![c] = "up"]
  /\ backlog' = Append(backlog, c)
  /\ UNCHANGED <<fdt, rx, sent, got>>

Send(c, m) ==
  /\ peer[c] = "up"
  /\ sent < MaxSend
  /\ rx' = [rx EXCEPT ![c] = Append(@, m)]
  /\ sent' = sent + 1
  /\ UNCHANGED <<backlog, fdt, peer, got>>

\* close() sends FIN; with data the client has not read, it sends RST.
Hangup(c) ==
  /\ c \in Leavers
  /\ peer[c] = "up"
  /\ \/ peer' = [peer EXCEPT ![c] = "fin"]
     \/ got[c] # << >> /\ peer' = [peer EXCEPT ![c] = "rst"]
  /\ UNCHANGED <<backlog, fdt, rx, sent, got>>

ClientStep == \E c \in Conn : Connect(c) \/ Hangup(c)
                                 \/ \E m \in Message : Send(c, m)

----------------------------------------------------------------------------
(* What the server's system calls return. *)

FreeFds == {fd \in Fd : fdt[fd] = Free}

\* accept(2) returns the lowest descriptor that is not open.
LowestFreeFd == CHOOSE fd \in FreeFds : \A other \in FreeFds : fd <= other

\* A read that would not block: data, end-of-file or a pending error.
Readable(c) == rx[c] # << >> \/ peer[c] \in {"fin", "rst"}

\* One read(2) takes all that has arrived, up to the size of the buffer.
ReadSize(c) == IF Len(rx[c]) < MaxChunk THEN Len(rx[c]) ELSE MaxChunk
ReadChunk(c) == SubSeq(rx[c], 1, ReadSize(c))
Unread(c) == SubSeq(rx[c], ReadSize(c) + 1, Len(rx[c]))

Opened(fd, c) == [fdt EXCEPT ![fd] = c]
Closed(fd) == [fdt EXCEPT ![fd] = Free]

\* What is written to a reset connection is lost.
Delivered(targets, entry) ==
  [c \in Conn |-> IF c \in targets /\ peer[c] # "rst"
                    THEN Hear(got[c], entry) ELSE got[c]]

\* A client that closed its end answers a write with RST, sooner or later.
Answers(targets) ==
  {[c \in Conn |-> IF c \in reset THEN "rst" ELSE peer[c]] :
     reset \in SUBSET {c \in targets : peer[c] = "fin"}}

\* The kernel never has one connection twice: not two times in the backlog, not
\* there and open, not behind two descriptors; and only one that has come.
Matched ==
  /\ \A m, n \in 1..Len(backlog) : backlog[m] = backlog[n] => m = n
  /\ \A m \in 1..Len(backlog) : peer[backlog[m]] # "new"
  /\ \A m \in 1..Len(backlog), fd \in Fd : fdt[fd] # backlog[m]
  /\ \A fd \in Fd : fdt[fd] # Free => peer[fdt[fd]] # "new"
  /\ \A fd, other \in Fd : fdt[fd] = fdt[other] /\ fdt[fd] # Free
                              => fd = other
=============================================================================
