---------------------------- MODULE SelectServer ----------------------------
(***************************************************************************)
(* socket_prac/socket_with_select/server.c: one thread, blocking sockets,  *)
(* select(2) with a five second timeout.  Between two system calls that    *)
(* can wait or that look at the world, the thread runs alone, so an action *)
(* is one pass through such a stretch of main.                             *)
(*                                                                         *)
(* pc: "test"   while (!server_left)             server.c:100              *)
(*     "select" about to call select, or in it   server.c:106              *)
(*     "accept" the listening socket is ready    server.c:126              *)
(*     "scan"   the loop over client[0..cli_count]  server.c:162           *)
(*     "close"  close_all_client                 server.c:215              *)
(*     "exited" main returned;  "killed"  SIGPIPE ended the process        *)
(***************************************************************************)
EXTENDS Sockets, Integers

CONSTANT FD_SETSIZE   \* slots of client[], and bits of an fd_set

\* The default soft limit on descriptors is the size of an fd_set (1024), so
\* FD_SET(connfd, &allset) stays inside allset; main owns 0..2 and listenfd.
ASSUME SelectAssumption ==
  /\ FD_SETSIZE \in Nat \ {0}
  /\ FirstFd = 4
  /\ NOFILE <= FD_SETSIZE

VARIABLES pc, server_left,
          client,       \* the table of client descriptors, -1 in a free slot
          allset, rset, \* descriptors to watch, descriptors found ready
          maxfd, cli_count,
          report_flag,
          i             \* the slot the scan has reached

ctlVars == <<pc, server_left, i>>
tabVars == <<client, allset, maxfd, cli_count>>
vars == <<ctlVars, tabVars, rset, report_flag, sockVars>>

listenfd == 3
SlotShort == 0..(FD_SETSIZE - FirstFd - 2)  \* mutant: one slot too few
Slot == 0..(FD_SETSIZE - 1)

Used == {s \in Slot : client[s] # -1}
ConnOf(s) == fdt[client[s]]
Serving(slots) == {ConnOf(s) : s \in slots}
Running == pc \notin {"exited", "killed"}

Init ==
  /\ SockInit
  /\ pc = "test" /\ server_left = FALSE /\ i = 0
  /\ client = [s \in Slot |-> -1]
  /\ allset = {listenfd} /\ rset = {}
  /\ maxfd = listenfd /\ cli_count = -1
  /\ report_flag = FALSE

----------------------------------------------------------------------------
(* Helpers. *)

\* Descriptors above the first argument of select are not looked at.
ReadyFd(fd) == IF fd = listenfd THEN backlog # << >> ELSE Readable(fdt[fd])
SelectedAll == allset  \* mutant: FD_ISSET is asked of allset, not of rset
Selected == {fd \in allset : fd < maxfd + 1 /\ ReadyFd(fd)}

\* The first slot with client[i] < 0.
FreeSlots == Slot \ Used
FirstFreeSlot == CHOOSE s \in FreeSlots : \A other \in FreeSlots : s <= other

\* maxfd and cli_count are high-water marks.
RaisedNever(mark, value) == mark  \* mutant: the mark stays where it was
Raised(mark, value) == IF value > mark THEN value ELSE mark

InScanShort == i < cli_count  \* mutant: the last slot is left out
InScan == i <= cli_count

\* The peers whom slot s's message is written to: client[j] > 0 && i != j.
ListenersShort(s) == {t \in Used \ {s} : t < cli_count}  \* mutant: off by one
Listeners(s) == Used \ {s}

\* strcmp(recv_buff, "exit") == 0
IsExitPrefix(chunk) == chunk[1] = "exit"  \* mutant: strncmp(.., "exit", 4)
IsExit(chunk) == chunk = <<"exit">>

DropZero(s) ==  \* mutant: an empty slot holds 0
  /\ client' = [client EXCEPT ![s] = 0]
  /\ allset' = allset \ {client[s]}
  /\ fdt' = Closed(client[s])
  /\ UNCHANGED <<maxfd, cli_count>>

DropWatched(s) ==  \* mutant: FD_CLR is forgotten
  /\ client' = [client EXCEPT ![s] = -1]
  /\ fdt' = Closed(client[s])
  /\ UNCHANGED <<allset, maxfd, cli_count>>

\* close(sockfd); FD_CLR(sockfd, &allset); client[i] = -1; continue
Drop(s) ==
  /\ client' = [client EXCEPT ![s] = -1]
  /\ allset' = allset \ {client[s]}
  /\ fdt' = Closed(client[s])
  /\ UNCHANGED <<maxfd, cli_count>>

\* A broadcast that SIGPIPE cuts short at the first slot it cannot survive.
DieWriting(targets, entry) ==
  \E s \in targets :
    /\ peer[ConnOf(s)] = "rst"
    /\ got' = Delivered(Serving({t \in targets : t < s}), entry)
    /\ pc' = "killed"
    /\ UNCHANGED <<server_left, i, tabVars, rset, report_flag,
                   backlog, fdt, peer, rx, sent>>

----------------------------------------------------------------------------
(* main *)

TestLeft ==
  /\ pc = "test"
  /\ IF server_left THEN pc' = "close" /\ UNCHANGED rset
                    ELSE pc' = "select" /\ rset' = allset
  /\ UNCHANGED <<server_left, i, tabVars, report_flag, sockVars>>

\* select reports what is ready; without the listening socket the scan starts.
SelectReady ==
  /\ pc = "select"
  /\ Selected # {}
  /\ rset' = Selected
  /\ pc' = IF listenfd \in Selected THEN "accept" ELSE "scan"
  /\ i' = 0
  /\ UNCHANGED <<server_left, tabVars, report_flag, sockVars>>

\* mutant: select(.., NULL) waits for ever
SelectForever == FALSE

\* Five seconds without anything ready: the report, if one was asked for.
SelectTimeout ==
  /\ pc = "select"
  /\ Selected = {}
  /\ \/ /\ pc' = "test"
        /\ IF report_flag
             THEN /\ got' = Delivered(Serving(Used), Announcement)
                  /\ peer' \in Answers(Serving(Used))
             ELSE UNCHANGED <<got, peer>>
        /\ UNCHANGED <<server_left, i, tabVars, rset, report_flag,
                       backlog, fdt, rx, sent>>
     \/ report_flag /\ DieWriting(Used, Announcement)

\* accept fails only for want of a descriptor; the rest of the pass is skipped.
AcceptFails ==
  /\ pc = "accept"
  /\ FreeFds = {}
  /\ pc' = "test"
  /\ UNCHANGED <<server_left, i, tabVars, rset, report_flag, sockVars>>

\* The new descriptor enters the table; if no slot is free it is closed.
Accept ==
  /\ pc = "accept"
  /\ FreeFds # {}
  /\ backlog' = Tail(backlog)
  /\ IF FreeSlots = {}
       THEN /\ pc' = "test"
            /\ peer' = [peer EXCEPT ![Head(backlog)] = "done"]
            /\ UNCHANGED <<fdt, tabVars>>
       ELSE LET connfd == LowestFreeFd
                s == FirstFreeSlot
            IN /\ pc' = "scan"
               /\ fdt' = Opened(connfd, Head(backlog))
               /\ client' = [client EXCEPT ![s] = connfd]
               /\ allset' = allset \cup {connfd}
               /\ maxfd' = Raised(maxfd, connfd)
               /\ cli_count' = Raised(cli_count, s)
               /\ UNCHANGED peer
  /\ UNCHANGED <<server_left, i, rset, report_flag, rx, sent, got>>

ScanDone ==
  /\ pc = "scan" /\ ~InScan
  /\ pc' = "test"
  /\ UNCHANGED <<server_left, i, tabVars, rset, report_flag, sockVars>>

\* A free slot, or a client with nothing to read.
ScanSkip ==
  /\ pc = "scan" /\ InScan
  /\ client[i] \notin rset
  /\ i' = i + 1
  /\ UNCHANGED <<pc, server_left, tabVars, rset, report_flag, sockVars>>

\* read returns 0 or fails: the client is gone.
ScanGone ==
  /\ pc = "scan" /\ InScan
  /\ client[i] \in rset
  /\ rx[ConnOf(i)] = << >>
  /\ peer[ConnOf(i)] \in {"fin", "rst"}
  /\ Drop(i)
  /\ peer' = [peer EXCEPT ![ConnOf(i)] = "done"]
  /\ i' = i + 1
  /\ UNCHANGED <<pc, server_left, rset, report_flag, backlog, rx, sent, got>>

\* read returns data: write it to all the others, then look for a command.
ScanRead ==
  /\ pc = "scan" /\ InScan
  /\ client[i] \in rset
  /\ rx[ConnOf(i)] # << >>
  /\ LET c == ConnOf(i)
         others == Serving(Listeners(i))
         entry == [from |-> c, said |-> ReadChunk(c)]
     IN \/ /\ got' = Delivered(others, entry)
           /\ \E answered \in Answers(others) :
                peer' = IF IsExit(ReadChunk(c))
                          THEN [answered EXCEPT ![c] = "done"] ELSE answered
           /\ IF IsExit(ReadChunk(c))
                THEN Drop(i)
                ELSE UNCHANGED <<tabVars, fdt>>
           /\ report_flag' = (report_flag \/ ReadChunk(c) = <<"report">>)
           /\ rx' = [rx EXCEPT ![c] = Unread(c)]
           /\ i' = i + 1
           /\ UNCHANGED <<pc, server_left, rset, backlog, sent>>
        \/ DieWriting(Listeners(i), entry)

\* close_all_client: every client, then the listening socket.
CloseAll ==
  /\ pc = "close"
  /\ pc' = "exited"
  /\ fdt' = [fd \in Fd |-> IF \E s \in Used : client[s] = fd
                             THEN Free ELSE fdt[fd]]
  /\ peer' = [c \in Conn |-> IF c \in Serving(Used) THEN "done" ELSE peer[c]]
  /\ UNCHANGED <<server_left, i, tabVars, rset, report_flag,
                 backlog, rx, sent, got>>

\* SIGINT.  Every other call is restarted; a select that is waiting is not.
SigInt ==
  /\ Running /\ ~server_left
  /\ server_left' = TRUE
  /\ \/ UNCHANGED pc
     \/ pc = "select" /\ Selected = {} /\ pc' = "test"
  /\ UNCHANGED <<i, tabVars, rset, report_flag, sockVars>>

ServerStep == TestLeft \/ SelectReady \/ SelectTimeout \/ AcceptFails \/ Accept
                \/ ScanDone \/ ScanSkip \/ ScanGone \/ ScanRead \/ CloseAll

ClientsAct == Running /\ ClientStep
                /\ UNCHANGED <<ctlVars, tabVars, rset, report_flag>>

Next == ServerStep \/ ClientsAct \/ SigInt

Spec == Init /\ [][Next]_vars
FairSpec == Spec /\ WF_vars(ServerStep)

----------------------------------------------------------------------------
(* Properties. *)

TypeOK ==
  /\ SockTypeOK
  /\ pc \in {"test", "select", "accept", "scan", "close", "exited", "killed"}
  /\ server_left \in BOOLEAN
  /\ client \in [Slot -> Fd \cup {-1}]
  /\ allset \in SUBSET (Fd \cup {listenfd})
  /\ rset \in SUBSET (Fd \cup {listenfd})
  /\ maxfd \in Fd \cup {listenfd}
  /\ cli_count \in Slot \cup {-1}
  /\ report_flag \in BOOLEAN
  /\ i \in 0..FD_SETSIZE

\* The three records of who is connected agree: a descriptor is open exactly
\* if one slot holds it, exactly if select watches it, and no client has two.
TableExact ==
  pc # "exited" =>
    /\ \A s, t \in Used : ConnOf(s) = ConnOf(t) => s = t
    /\ allset = {listenfd} \cup {client[s] : s \in Used}
    /\ {fd \in Fd : fdt[fd] # Free} = {client[s] : s \in Used}

\* The two high-water marks, which are never lowered, cover every client:
\* nobody is beyond the end of the scan or above select's first argument.
ScanReaches == \A s \in Used : s <= cli_count /\ client[s] <= maxfd

\* The sockets block, so one read without data would stop the whole server:
\* what select found ready is still ready when the scan comes to it, also
\* after descriptors were closed and handed out again in the same pass.
NeverBlocks ==
  /\ pc = "accept" => backlog # << >>
  /\ pc = "scan" => \A s \in Used : s >= i /\ client[s] \in rset
                                       => Readable(ConnOf(s))

\* "Reach Max..." (server.c:145-150) cannot happen: descriptors run out first.
AlwaysASlot == FreeSlots # {}

\* What the five rest on, and what every step keeps: the kernel never has one
\* connection twice (Matched), the table and the descriptors agree one to one,
\* and what is marked in rset has something to read until the scan has passed it.
Tabled ==
  /\ \A s, t \in Used : client[s] = client[t] => s = t
  /\ pc # "exited" =>
    /\ \A s \in Used : fdt[client[s]] # Free
    /\ \A fd \in Fd : fdt[fd] # Free => \E s \in Used : client[s] = fd
    /\ allset = {listenfd} \cup {client[s] : s \in Used}

Marked ==
  /\ pc = "accept" =>
       /\ backlog # << >>
       /\ \A fd \in rset \ {listenfd} : fdt[fd] # Free /\ Readable(fdt[fd])
  /\ pc = "scan" =>
       \A s \in Used : s >= i /\ client[s] \in rset => Readable(ConnOf(s))

Inv == TypeOK /\ Matched /\ Tabled /\ ScanReaches /\ Marked

\* A client loses its place only because its own connection ended, or because
\* the whole of what was read from it was "exit", or with the whole server.
NoWrongfulDrop ==
  [][\A c \in Serving(Used) : c \notin Serving(Used)' =>
       \/ pc = "close"
       \/ rx[c] = << >> /\ peer[c] \in {"fin", "rst"}
       \/ ReadChunk(c) = <<"exit">>]_vars

\* The server is a chat room.
Room == INSTANCE ChatRoom WITH
          open <- Running,
          members <- IF Running THEN Serving(Used) ELSE {},
          cut <- {c \in Conn : peer[c] = "rst"},
          outbox <- rx,
          inbox <- got
IsChatRoom == Room!RoomSpec

\* After SIGINT main returns, also when the signal comes just before select:
\* the timeout brings the loop back to its test.
ShutsDown == server_left ~> ~Running

\* Data or the end of a served client is read, whatever the others do: unless
\* one more client waits for a descriptor and there is none.  Then accept fails
\* in every pass, continue skips the clients (server.c:132), and the exit that
\* would free a descriptor is among what is not read.
Starved == FreeFds = {} /\ backlog # << >>
ClientsAttended ==
  \A c \in Conn :
    c \in Serving(Used) /\ Readable(c)
      ~> ~(c \in Serving(Used) /\ Readable(c)) \/ ~Running \/ []Starved
=============================================================================
