---------------------------- MODULE EpollServer ----------------------------
(***************************************************************************)
(* socket_prac/epoll_socket/server.c: one thread, sockets that do not      *)
(* block, and edge-triggered epoll.  The kernel notes a descriptor once    *)
(* when something arrives for it, and forgets the note when epoll_wait     *)
(* reports it: what the server leaves unread or not accepted then is not   *)
(* reported again before something else arrives.                           *)
(*                                                                         *)
(* pc: "wait"    about to test flag and to call epoll_wait (server.c:104)  *)
(*     "events"  in the loop over what it reported         (server.c:111)  *)
(*     "close"   flag is set                               (server.c:176)  *)
(*     "exited"  main returned;  "killed"  SIGPIPE ended the process       *)
(*                                                                         *)
(* listenfd and pipe_fd[0] are watched from the start, and a client's      *)
(* descriptor from accept to close: close(2) ends the watch, so that       *)
(* EPOLL_CTL_DEL after it fails and before it adds nothing.                *)
(***************************************************************************)
EXTENDS Sockets

CONSTANTS listenfd, pipe_fd   \* the server's own descriptors

ASSUME EpollAssumption == listenfd # pipe_fd /\ {listenfd, pipe_fd} \cap Fd = {}

VARIABLES pc,
          list,    \* the list of client descriptors, as head leads through it
          ready,   \* what epoll has noted and not reported yet
          events,  \* what epoll_wait reported and the loop has not come to
          pipe     \* the signal handler has written "exit" into the pipe

vars == <<pc, list, ready, events, pipe, sockVars>>

Running == pc \notin {"exited", "killed"}
Listed == {list[n] : n \in DOMAIN list}
Serving(fds) == {fdt[fd] : fd \in fds}

Init ==
  /\ SockInit
  /\ pc = "wait"
  /\ list = << >>
  /\ ready = {} /\ events = {}
  /\ pipe = FALSE

----------------------------------------------------------------------------
(* epoll (external). *)

Pending(fd) == CASE fd = listenfd -> backlog # << >>
                 [] fd = pipe_fd -> pipe
                 [] OTHER -> Readable(fdt[fd])

\* The edges of a step: data, an end or a reset that has arrived for an open
\* descriptor, a connection that has, or what was there when accept opened it.
Arrives(c) == Len(rx'[c]) > Len(rx[c]) \/ (peer'[c] # peer[c] /\ peer'[c] # "done")
Edges ==
  {fd \in Fd : /\ fdt'[fd] # Free
               /\ IF fdt[fd] = fdt'[fd] THEN Arrives(fdt[fd])
                                        ELSE Readable(fdt'[fd])}
    \cup (IF Len(backlog') > Len(backlog) THEN {listenfd} ELSE {})

\* Noted is what was noted before, without what was closed.
Note(noted) ==
  ready' = (noted \ {fd \in Fd : fdt'[fd] # fdt[fd]}) \cup Edges

----------------------------------------------------------------------------
(* main *)

\* epoll_wait reports what is noted and still pending; with timeout 0 it comes
\* back empty-handed otherwise, and is called again.
Wait ==
  /\ pc = "wait"
  /\ events' = {fd \in ready : Pending(fd)}
  /\ pc' = IF events' = {} THEN "wait" ELSE "events"
  /\ ready' = {}
  /\ UNCHANGED <<list, pipe, sockVars>>

ReportedLast(fd) ==  \* mutant: break where the loop goes on
  /\ pc = "events" /\ fd \in events
  /\ events' = {}
ReportedAgain(fd) ==  \* mutant: the loop stays at the same event
  /\ pc = "events" /\ fd \in events
  /\ events' = events
\* The loop has come to one of the events: which is epoll's choice.
Reported(fd) ==
  /\ pc = "events" /\ fd \in events
  /\ events' = events \ {fd}

LoopBreaks == pc' = "wait"  \* mutant: epoll_wait with events left
LoopGoesOn == pc' = "events"  \* mutant: the loop does not stop at n
LoopEnds == pc' = IF events' = {} THEN "wait" ELSE "events"

ExitUnheard ==  \* mutant: what is read from the pipe is not found to be "exit"
  /\ Reported(pipe_fd)
  /\ LoopEnds
  /\ pipe' = FALSE
  /\ UNCHANGED <<list, ready, sockVars>>
Exit ==
  /\ Reported(pipe_fd)
  /\ pc' = "close"
  /\ pipe' = FALSE
  /\ UNCHANGED <<list, ready, sockVars>>

Acceptable == backlog # << >> /\ FreeFds # {}

\* accept fails: break, whatever else was reported.
AcceptFails ==
  /\ pc = "events" /\ listenfd \in events
  /\ ~Acceptable
  /\ events' = {}
  /\ pc' = "wait"
  /\ UNCHANGED <<list, ready, pipe, sockVars>>

\* One connection is accepted, however many have come.
Accept ==
  /\ Reported(listenfd)
  /\ Acceptable
  /\ backlog' = Tail(backlog)
  /\ fdt' = Opened(LowestFreeFd, Head(backlog))
  /\ list' = Append(list, LowestFreeFd)
  /\ LoopEnds
  /\ UNCHANGED <<pipe, peer, rx, sent, got>>
  /\ Note(ready)

\* deleteNode takes out the first node with the descriptor.
DeleteNone(fd) == list  \* mutant: deleteNode is forgotten
DeleteNode(fd) ==
  LET n == CHOOSE n \in DOMAIN list :
             list[n] = fd /\ \A m \in 1..(n - 1) : list[m] # fd
  IN SubSeq(list, 1, n - 1) \o SubSeq(list, n + 1, Len(list))

Leave(fd) ==
  /\ list' = DeleteNode(fd)
  /\ fdt' = Closed(fd)

\* read returns 0 or fails, for whatever reason: the client is taken for gone.
Gone(fd) ==
  /\ Reported(fd) /\ fd \in Fd
  /\ rx[fdt[fd]] = << >>
  /\ Leave(fd)
  /\ peer' = [peer EXCEPT ![fdt[fd]] = "done"]
  /\ LoopEnds
  /\ UNCHANGED <<pipe, backlog, rx, sent, got>>
  /\ Note(ready)

\* Everyone on the list but the one who has written.
ListenersAll(fd) == Listed  \* mutant: the speaker hears itself
Listeners(fd) == Listed \ {fd}

IsExitLast(chunk) == chunk[Len(chunk)] = "exit"  \* mutant: the last line counts
IsExit(chunk) == chunk = <<"exit">>

\* One buffer is read and written to the others; the rest of what has arrived
\* waits for the next edge.
ReadOn(fd) ==
  /\ Reported(fd) /\ fd \in Fd
  /\ rx[fdt[fd]] # << >>
  /\ LET c == fdt[fd]
         chunk == ReadChunk(c)
         others == Serving(Listeners(fd))
     IN /\ got' = Delivered(others, [from |-> c, said |-> chunk])
        /\ \E answered \in Answers(others) :
             peer' = IF IsExit(chunk) THEN [answered EXCEPT ![c] = "done"]
                                      ELSE answered
        /\ IF IsExit(chunk) THEN Leave(fd) ELSE UNCHANGED <<list, fdt>>
        /\ rx' = [rx EXCEPT ![c] = Unread(c)]
  /\ LoopEnds
  /\ UNCHANGED <<pipe, backlog, sent>>
  /\ Note(ready)

\* SIGPIPE: those before the reset connection on the list have heard it.
DieWriting(fd) ==
  /\ Reported(fd) /\ fd \in Fd
  /\ rx[fdt[fd]] # << >>
  /\ \E n \in DOMAIN list :
       /\ list[n] # fd /\ peer[fdt[list[n]]] = "rst"
       /\ got' = Delivered(Serving({list[m] : m \in 1..(n - 1)} \ {fd}),
                           [from |-> fdt[fd], said |-> ReadChunk(fdt[fd])])
  /\ pc' = "killed"
  /\ UNCHANGED <<list, ready, pipe, backlog, fdt, peer, rx, sent>>

\* close_linkedlist, and the server's own descriptors.
CloseAll ==
  /\ pc = "close"
  /\ pc' = "exited"
  /\ fdt' = [fd \in Fd |-> IF fd \in Listed THEN Free ELSE fdt[fd]]
  /\ peer' = [c \in Conn |-> IF c \in Serving(Listed) THEN "done" ELSE peer[c]]
  /\ list' = << >>
  /\ UNCHANGED <<ready, events, pipe, backlog, rx, sent, got>>

\* sig_handler, during any call of main: another write, another edge.
SigInt ==
  /\ Running
  /\ pipe' = TRUE
  /\ ready' = ready \cup {pipe_fd}
  /\ UNCHANGED <<pc, list, events, sockVars>>

ClientsAct ==
  /\ Running /\ ClientStep
  /\ UNCHANGED <<pc, list, events, pipe>>
  /\ Note(ready)

ServerStep ==
  \/ Wait \/ Exit \/ AcceptFails \/ Accept \/ CloseAll
  \/ \E fd \in events : Gone(fd) \/ ReadOn(fd) \/ DieWriting(fd)

Next == ServerStep \/ SigInt \/ ClientsAct

Spec == Init /\ [][Next]_vars
FairSpec == Spec /\ WF_vars(ServerStep)

----------------------------------------------------------------------------
(* Properties. *)

TypeOK ==
  /\ SockTypeOK
  /\ pc \in {"wait", "events", "close", "exited", "killed"}
  /\ list \in Seq(Fd)
  /\ ready \in SUBSET (Fd \cup {listenfd, pipe_fd})
  /\ events \in SUBSET (Fd \cup {listenfd, pipe_fd})
  /\ pc = "wait" => events = {}
  /\ pc = "events" => events # {}
  /\ pipe \in BOOLEAN

\* Every client is on the list once, so that deleteNode, which follows NULL
\* when it does not find its value, finds it (singlylinkedlist.c:119).
ListExact ==
  Running => /\ \A m, n \in DOMAIN list : list[m] = list[n] => m = n
             /\ Listed = {fd \in Fd : fdt[fd] # Free}

\* An event is true when the loop comes to it, though descriptors have been
\* closed, handed out again and read since it was reported.  The code needs
\* it: a read or an accept that finds nothing counts as a failure.
EventsHold ==
  Running => \A fd \in events :
               /\ fd \in Fd => fdt[fd] # Free
               /\ Pending(fd)

\* What these rest on, besides the kernel: nothing is noted for a descriptor that
\* was closed since, so that epoll_wait reports none.
NotedOpen == Running => \A fd \in ready \cap Fd : fdt[fd] # Free

Inv == TypeOK /\ Matched /\ ListExact /\ NotedOpen /\ EventsHold

\* A client loses its place only because its own connection ended, or because
\* the whole of what was read from it was "exit", or with the whole server.
NoWrongfulDrop ==
  [][\A c \in Serving(Listed) : c \notin Serving(Listed)' =>
       \/ pc = "close"
       \/ rx[c] = << >> /\ peer[c] \in {"fin", "rst"}
       \/ ReadChunk(c) = <<"exit">>]_vars

\* The server is a chat room.
Room == INSTANCE ChatRoom WITH
          open <- Running,
          members <- IF Running THEN Serving(Listed) ELSE {},
          cut <- {c \in Conn : peer[c] = "rst"},
          outbox <- rx,
          inbox <- got
IsChatRoom == Room!RoomSpec

\* Lost: there is something to do for a descriptor, and epoll will not say so
\* before something else arrives for it.
Watched == {listenfd, pipe_fd} \cup {fd \in Fd : fdt[fd] # Free}
Lost(fd) ==
  Running /\ fd \in Watched /\ Pending(fd) /\ fd \notin ready \cup events

\* What is lost, and when: of several connections under one edge all but the
\* first; what a read has left, be it data or the end of the connection; and,
\* when accept fails, all that was reported with it, and the connection.
LostOnly ==
  [][\A fd \in Watched : Lost(fd)' /\ ~Lost(fd) =>
       \/ fd = listenfd /\ Len(backlog) > 1 /\ backlog' = Tail(backlog)
       \/ fd \in Fd /\ rx'[fdt[fd]] = Unread(fdt[fd]) /\ rx' # rx
       \/ listenfd \in events /\ FreeFds = {} /\ fd \in events]_vars

\* One edge for many messages is enough, as long as the buffer holds what can
\* arrive between two reads: what a client sends is read, unless it is lost, and
\* nothing more comes to make up for that.
MessagesRead ==
  \A fd \in Fd, c \in Conn :
    fdt[fd] = c /\ rx[c] # << >> ~>
      rx[c] = << >> \/ fdt[fd] # c \/ ~Running \/ []Lost(fd)

\* server.c:54 calls the pipe the way "to transmit flags": after SIGINT main
\* returns, unless the pipe's event is lost and no other SIGINT comes.
ShutsDown == pipe ~> ~Running \/ []Lost(pipe_fd)
=============================================================================
