--------------------------- MODULE PthreadServer ---------------------------
(***************************************************************************)
(* socket_prac/pthread_socket/server.c with its singlylinkedlist.c: main   *)
(* accepts, one detached thread per client reads and broadcasts, and the   *)
(* list of descriptors is shared.  list_mutex is held by the threads when  *)
(* they walk or change the list; main appends to it, and tears it down,    *)
(* without the mutex.                                                      *)
(*                                                                         *)
(* The list lives in a heap, and an action ends where another thread could *)
(* see or change what the next access reads.  A pointer to a freed node    *)
(* may fault (Crash) or show what the node held before free(3).            *)
(*                                                                         *)
(* pc of main:                                          hpc of a handler:  *)
(*   "test" "select" "accept" "refuse"  144-168           "none" not yet   *)
(*   "append" "load" "walk" "link"      appendNode        "start"  60      *)
(*   "create"                           171               "loop"   65-82   *)
(*   "closing" "freeing" "return"       175-177           "lock" "cast" 85 *)
(*   "exited"; "killed" by SIGPIPE;                       "leave" 103      *)
(*   "crashed" by a bad pointer                           "find" "unlink"  *)
(*                                                        "close" "gone"   *)
(***************************************************************************)
EXTENDS Sockets, Integers, FiniteSets

CONSTANTS MAX_CLIENT,  \* how many connections are ever served
          Addr,        \* where malloc can put a node
          NULL

ASSUME PthreadAssumption ==
  /\ MAX_CLIENT \in Nat
  /\ IsFiniteSet(Addr) /\ NULL \notin Addr

VARIABLES pc, flag, cli_count,
          connect_FD,        \* main's variable, shared with starting threads
          newnode, current,  \* locals of appendNode, current also of the others
          head, data, next,  \* the list
          live,              \* the nodes malloc gave and free has not taken
          list_mutex,        \* the thread that holds it, 0 if none
          hpc, sockfd,
          recv_buff,      \* what a thread read, and from whom; empty at first
          temp,              \* the node a thread is at
          before, after      \* deleteNode: predecessor and successor of temp

\* History: what was broadcast, in the order the mutex was taken, and who was
\* on the list then; whether a connection was accepted while a thread was
\* starting; whether a node was appended while one was deleted.
VARIABLES log, due, late, raced

mainVars == <<pc, flag, cli_count, connect_FD, newnode, current>>
heapVars == <<head, data, next, live>>
thrVars  == <<list_mutex, hpc, sockfd, recv_buff, temp, before, after>>
history  == <<log, due, late, raced>>
vars == <<mainVars, heapVars, thrVars, history, sockVars>>

Thread == 1..MAX_CLIENT
NoFd == -1  \* what accept(2) returns when it fails: no descriptor
Running == pc \notin {"exited", "killed", "crashed"}
Closing == pc \in {"closing", "freeing", "return"}

Init ==
  /\ SockInit
  /\ pc = "test" /\ flag = FALSE /\ cli_count = 0 /\ connect_FD = Free
  /\ newnode = NULL /\ current = NULL
  /\ head = NULL /\ live = {}
  /\ data = [a \in Addr |-> Free] /\ next = [a \in Addr |-> NULL]
  /\ list_mutex = 0
  /\ hpc = [k \in Thread |-> "none"] /\ sockfd = [k \in Thread |-> Free]
  /\ recv_buff = [k \in Thread |-> << >>]
  /\ temp = [k \in Thread |-> NULL]
  /\ before = [k \in Thread |-> NULL] /\ after = [k \in Thread |-> NULL]
  /\ log = << >> /\ due = {} /\ late = FALSE /\ raced = FALSE

----------------------------------------------------------------------------
(* The list. *)

\* Where n steps along next lead.
At[n \in 0..Cardinality(Addr)] ==
  IF n = 0 THEN head
  ELSE IF At[n - 1] = NULL THEN NULL ELSE next[At[n - 1]]

Nodes == {At[n] : n \in DOMAIN At} \ {NULL}

\* The places on the list that hold fd.
PlacesButHead(fd) ==  \* mutant: the head is not compared
  {n \in DOMAIN At : n > 0 /\ At[n] # NULL /\ data[At[n]] = fd}
Places(fd) == {n \in DOMAIN At : At[n] # NULL /\ data[At[n]] = fd}
First(places) == CHOOSE n \in places : \A m \in places : n <= m

\* The nodes the next access of main or of thread k reads or writes.
MainTouches ==
  CASE pc \in {"walk", "link"} -> {current}
    [] pc \in {"closing", "freeing"} -> {current} \ {NULL}
    [] OTHER -> {}

Touches(k) ==
  CASE hpc[k] = "cast" -> {temp[k]} \ {NULL}
    [] hpc[k] = "find" -> {At[n] : n \in {m \in DOMAIN At :
                             \A p \in Places(sockfd[k]) : m <= p}} \ {NULL}
    [] hpc[k] = "unlink" -> {temp[k], before[k]} \ {NULL}
    [] OTHER -> {}

\* A thread is between the lock before deleteNode and its unlock.
Deleting == \E k \in Thread : hpc[k] \in {"find", "unlink"}
Appending == pc \in {"append", "load", "walk", "link"}

----------------------------------------------------------------------------
(* main *)

LeavesNever == FALSE  \* mutant: while (1)
Leaves == flag

TestFlag ==
  /\ pc = "test"
  /\ IF Leaves THEN pc' = "closing" /\ current' = head
             ELSE pc' = "select" /\ UNCHANGED current
  /\ UNCHANGED <<flag, cli_count, connect_FD, newnode,
                 heapVars, thrVars, history, sockVars>>

\* No timeout: select waits until there is a connection.
Select ==
  /\ pc = "select"
  /\ backlog # << >>
  /\ pc' = "accept"
  /\ UNCHANGED <<flag, cli_count, connect_FD, newnode, current,
                 heapVars, thrVars, history, sockVars>>

\* accept fails for want of a descriptor, and main leaves its loop.  Its -1 is
\* in the variable that a starting thread reads.
AcceptFails ==
  /\ pc = "accept"
  /\ FreeFds = {}
  /\ connect_FD' = NoFd
  /\ pc' = "closing" /\ current' = head
  /\ UNCHANGED <<flag, cli_count, newnode,
                 heapVars, thrVars, history, sockVars>>

FullLate(count) == count > MAX_CLIENT + 1  \* mutant: tested before counting
Full(count) == count > MAX_CLIENT

\* cli_count counts every connection accepted, also those that have ended.
Accept ==
  /\ pc = "accept"
  /\ FreeFds # {}
  /\ connect_FD' = LowestFreeFd
  /\ fdt' = Opened(LowestFreeFd, Head(backlog))
  /\ backlog' = Tail(backlog)
  /\ cli_count' = cli_count + 1
  /\ pc' = IF Full(cli_count + 1) THEN "refuse" ELSE "append"
  /\ late' = (late \/ \E k \in Thread : hpc[k] = "start")
  /\ UNCHANGED <<flag, newnode, current, heapVars, thrVars, log, due, raced,
                 peer, rx, sent, got>>

IsOpen(fd) == fd \in Fd /\ fdt[fd] # Free

\* close(2) of a descriptor that may not be open.
Close(fd) ==
  IF IsOpen(fd)
    THEN fdt' = Closed(fd) /\ peer' = [peer EXCEPT ![fdt[fd]] = "done"]
    ELSE UNCHANGED <<fdt, peer>>

Refuse ==
  /\ pc = "refuse"
  /\ Close(connect_FD)
  /\ pc' = "test"
  /\ UNCHANGED <<flag, cli_count, connect_FD, newnode, current,
                 heapVars, thrVars, history, backlog, rx, sent, got>>

\* appendNode up to the test of *start: an empty list gets its head at once.
Append1 ==
  /\ pc = "append"
  /\ \E a \in Addr \ live :
       /\ live' = live \cup {a}
       /\ data' = [data EXCEPT ![a] = connect_FD]
       /\ next' = [next EXCEPT ![a] = NULL]
       /\ newnode' = a
       /\ IF head = NULL THEN head' = a /\ pc' = "create"
                         ELSE pc' = "load" /\ UNCHANGED head
  /\ raced' = (raced \/ Deleting)
  /\ UNCHANGED <<flag, cli_count, connect_FD, current, thrVars, log, due, late,
                 sockVars>>

\* *start is read again.
Load ==
  /\ pc = "load"
  /\ current' = head
  /\ pc' = "walk"
  /\ UNCHANGED <<flag, cli_count, connect_FD, newnode, heapVars, thrVars,
                 history, sockVars>>

\* while (current->next != NULL)
Walk ==
  /\ pc = "walk"
  /\ current # NULL
  /\ IF next[current] = NULL THEN pc' = "link" /\ UNCHANGED current
                             ELSE current' = next[current] /\ UNCHANGED pc
  /\ UNCHANGED <<flag, cli_count, connect_FD, newnode, heapVars, thrVars,
                 history, sockVars>>

Link ==
  /\ pc = "link"
  /\ next' = [next EXCEPT ![current] = newnode]
  /\ pc' = "create"
  /\ UNCHANGED <<flag, cli_count, connect_FD, newnode, current,
                 head, data, live, thrVars, history, sockVars>>

CreateClosing ==  \* mutant: close(connect_FD), as after a fork
  /\ pc = "create"
  /\ hpc' = [hpc EXCEPT ![cli_count] = "start"]
  /\ pc' = "test"
  /\ Close(connect_FD)
  /\ UNCHANGED <<flag, cli_count, connect_FD, newnode, current, heapVars,
                 list_mutex, sockfd, recv_buff, temp, before, after,
                 history, backlog, rx, sent, got>>

\* The thread is given the address of connect_FD.
Create ==
  /\ pc = "create"
  /\ hpc' = [hpc EXCEPT ![cli_count] = "start"]
  /\ pc' = "test"
  /\ UNCHANGED <<flag, cli_count, connect_FD, newnode, current, heapVars,
                 list_mutex, sockfd, recv_buff, temp, before, after,
                 history, sockVars>>

\* close_linkedlist: the descriptors one by one, then the nodes.
CloseOne ==
  /\ pc = "closing"
  /\ IF current = NULL
       THEN pc' = "freeing" /\ current' = head /\ UNCHANGED <<fdt, peer>>
       ELSE Close(data[current]) /\ current' = next[current] /\ UNCHANGED pc
  /\ UNCHANGED <<flag, cli_count, connect_FD, newnode, heapVars, thrVars,
                 history, backlog, rx, sent, got>>

FreeOne ==
  /\ pc = "freeing"
  /\ IF current = NULL
       THEN pc' = "return" /\ UNCHANGED <<current, live>>
       ELSE live' = live \ {current} /\ current' = next[current] /\ UNCHANGED pc
  /\ UNCHANGED <<flag, cli_count, connect_FD, newnode, head, data, next,
                 thrVars, history, sockVars>>

\* return from main ends every thread.
Return ==
  /\ pc = "return"
  /\ pc' = "exited"
  /\ UNCHANGED <<flag, cli_count, connect_FD, newnode, current, heapVars,
                 thrVars, history, sockVars>>

----------------------------------------------------------------------------
(* client_handler, thread k *)

Move(k, to) == hpc' = [hpc EXCEPT ![k] = to]

\* int sockfd = *(int *)fd: what connect_FD holds by now.
Start(k) ==
  /\ hpc[k] = "start"
  /\ sockfd' = [sockfd EXCEPT ![k] = connect_FD]
  /\ Move(k, "loop")
  /\ UNCHANGED <<mainVars, heapVars, list_mutex, recv_buff, temp, before,
                 after, history, sockVars>>

EndedOnError(c) == rx[c] = << >> /\ peer[c] = "rst"  \* mutant: not if n == 0
Ended(c) == rx[c] = << >> /\ peer[c] \in {"fin", "rst"}

\* flag is set, or read returned 0 or an error other than EAGAIN: EBADF too, if
\* the descriptor was closed meanwhile or is none.
Stop(k) ==
  /\ hpc[k] = "loop"
  /\ \/ flag
     \/ ~IsOpen(sockfd[k])
     \/ IsOpen(sockfd[k]) /\ Ended(fdt[sockfd[k]])
  /\ Move(k, "leave")
  /\ UNCHANGED <<mainVars, heapVars, list_mutex, sockfd, recv_buff, temp,
                 before, after, history, sockVars>>

Read(k) ==
  /\ hpc[k] = "loop" /\ ~flag
  /\ IsOpen(sockfd[k])
  /\ LET c == fdt[sockfd[k]]
     IN /\ rx[c] # << >>
        /\ recv_buff' = [recv_buff EXCEPT ![k] =
                            <<[from |-> c, said |-> ReadChunk(c)]>>]
        /\ rx' = [rx EXCEPT ![c] = Unread(c)]
  /\ Move(k, "lock")
  /\ UNCHANGED <<mainVars, heapVars, list_mutex, sockfd, temp, before, after,
                 history, backlog, fdt, peer, sent, got>>

LockIgnored == TRUE  \* mutant: the mutex is not taken
LockFree == list_mutex = 0

CastFromSecond == IF head = NULL THEN NULL ELSE next[head]  \* mutant
CastFrom == head

LockToCast(k) ==
  /\ hpc[k] = "lock"
  /\ LockFree
  /\ list_mutex' = k
  /\ temp' = [temp EXCEPT ![k] = CastFrom]
  /\ log' = log \o recv_buff[k]
  /\ due' = {fdt[data[a]] : a \in Nodes} \ {Free, fdt[sockfd[k]]}
  /\ Move(k, "cast")
  /\ UNCHANGED <<mainVars, heapVars, sockfd, recv_buff, before, after,
                 late, raced, sockVars>>

\* Whom a write to the descriptor in node a reaches, if thread k writes it.
Reached(k, a) ==
  IF data[a] # sockfd[k] THEN {fdt[data[a]]} \ {Free} ELSE {}

Cast(k) ==
  /\ hpc[k] = "cast" /\ temp[k] # NULL
  /\ LET to == Reached(k, temp[k])
     IN \/ /\ got' = Delivered(to, recv_buff[k][1])
           /\ peer' \in Answers(to)
           /\ temp' = [temp EXCEPT ![k] = next[temp[k]]]
           /\ UNCHANGED pc
        \/ /\ \E c \in to : peer[c] = "rst"
           /\ pc' = "killed"
           /\ UNCHANGED <<got, peer, temp>>
  /\ UNCHANGED <<flag, cli_count, connect_FD, newnode, current, heapVars,
                 list_mutex, hpc, sockfd, recv_buff, before, after, history,
                 backlog, fdt, rx, sent>>

\* mutant: if (strcmp(recv_buff, "exit"))
SaidNotExit(k) == recv_buff[k][1].said # <<"exit">>
SaidExit(k) == recv_buff[k][1].said = <<"exit">>

UnlockUnlessExit(k) ==  \* mutant: break before the unlock
  IF SaidExit(k) THEN UNCHANGED list_mutex ELSE list_mutex' = 0
UnlockAfterCast(k) == list_mutex' = 0

CastDone(k) ==
  /\ hpc[k] = "cast" /\ temp[k] = NULL
  /\ UnlockAfterCast(k)
  /\ IF SaidExit(k)
       THEN Move(k, "leave") /\ UNCHANGED recv_buff
       ELSE Move(k, "loop") /\ recv_buff' = [recv_buff EXCEPT ![k] = << >>]
  /\ UNCHANGED <<mainVars, heapVars, sockfd, temp, before, after, history,
                 sockVars>>

LockToDelete(k) ==
  /\ hpc[k] = "leave"
  /\ LockFree
  /\ list_mutex' = k
  /\ Move(k, "find")
  /\ raced' = (raced \/ Appending)
  /\ UNCHANGED <<mainVars, heapVars, sockfd, recv_buff, temp, before, after,
                 log, due, late, sockVars>>

\* deleteNode finds the first node with its descriptor, and what follows it.
Find(k) ==
  /\ hpc[k] = "find"
  /\ LET places == Places(sockfd[k])
     IN IF places = {}
          THEN /\ list_mutex' = 0 /\ Move(k, "close")
               /\ UNCHANGED <<temp, before, after>>
          ELSE LET n == First(places)
               IN /\ temp' = [temp EXCEPT ![k] = At[n]]
                  /\ before' = [before EXCEPT ![k] =
                                  IF n = 0 THEN NULL ELSE At[n - 1]]
                  /\ after' = [after EXCEPT ![k] = next[At[n]]]
                  /\ Move(k, "unlink") /\ UNCHANGED list_mutex
  /\ UNCHANGED <<mainVars, heapVars, sockfd, recv_buff, history, sockVars>>

BypassNotHead(k) ==  \* mutant: *start keeps the freed node
  /\ UNCHANGED head
  /\ next' = IF before[k] = NULL THEN next
             ELSE [next EXCEPT ![before[k]] = after[k]]
Bypass(k) ==
  IF before[k] = NULL
    THEN head' = after[k] /\ UNCHANGED next
    ELSE next' = [next EXCEPT ![before[k]] = after[k]] /\ UNCHANGED head

\* ... and takes it out with what followed it then.
Unlink(k) ==
  /\ hpc[k] = "unlink"
  /\ Bypass(k)
  /\ live' = live \ {temp[k]}
  /\ temp' = [temp EXCEPT ![k] = NULL]
  /\ before' = [before EXCEPT ![k] = NULL]
  /\ after' = [after EXCEPT ![k] = NULL]
  /\ list_mutex' = 0
  /\ Move(k, "close")
  /\ UNCHANGED <<mainVars, data, sockfd, recv_buff, history, sockVars>>

CloseFd(k) ==
  /\ hpc[k] = "close"
  /\ Close(sockfd[k])
  /\ Move(k, "gone")
  /\ UNCHANGED <<mainVars, heapVars, list_mutex, sockfd, recv_buff, temp,
                 before, after, history, backlog, rx, sent, got>>

----------------------------------------------------------------------------

\* Somebody is about to use NULL or a node that was freed.
Crash ==
  /\ (MainTouches \cup UNION {Touches(k) : k \in Thread}) \ live # {}
  /\ pc' = "crashed"
  /\ UNCHANGED <<flag, cli_count, connect_FD, newnode, current, heapVars,
                 thrVars, history, sockVars>>

\* SIGINT.  The kernel prefers the main thread; only its select is ended.
SigInt ==
  /\ ~flag
  /\ flag' = TRUE
  /\ \/ UNCHANGED pc
     \/ pc = "select" /\ backlog = << >> /\ pc' = "test"
  /\ UNCHANGED <<cli_count, connect_FD, newnode, current, heapVars, thrVars,
                 history, sockVars>>

MainStep == TestFlag \/ Select \/ AcceptFails \/ Accept \/ Refuse
              \/ Append1 \/ Load \/ Walk \/ Link \/ Create
              \/ CloseOne \/ FreeOne \/ Return

HandlerStep(k) == Start(k) \/ Stop(k) \/ Read(k) \/ LockToCast(k) \/ Cast(k)
                    \/ CastDone(k) \/ LockToDelete(k) \/ Find(k)
                    \/ Unlink(k) \/ CloseFd(k)

ClientsAct == ClientStep /\ UNCHANGED <<mainVars, heapVars, thrVars, history>>

Next ==
  /\ Running
  /\ \/ MainStep
     \/ \E k \in Thread : HandlerStep(k)
     \/ Crash \/ SigInt \/ ClientsAct

Spec == Init /\ [][Next]_vars

\* The threads are preemptively scheduled; nothing is assumed of the mutex
\* except that a thread which can take it for ever takes it.
FairSpec ==
  /\ Spec
  /\ WF_vars(Running /\ (MainStep \/ Crash))
  /\ \A k \in Thread : WF_vars(Running /\ HandlerStep(k))

----------------------------------------------------------------------------
(* Properties. *)

HeapTypeOK ==
  /\ pc \in {"test", "select", "accept", "refuse", "append", "load", "walk",
             "link", "create", "closing", "freeing", "return", "exited",
             "killed", "crashed"}
  /\ newnode \in Addr \cup {NULL} /\ current \in Addr \cup {NULL}
  /\ head \in Addr \cup {NULL}
  /\ next \in [Addr -> Addr \cup {NULL}]
  /\ live \in SUBSET Addr
  /\ list_mutex \in Thread \cup {0}
  /\ hpc \in [Thread -> {"none", "start", "loop", "lock", "cast", "leave",
                         "find", "unlink", "close", "gone"}]
  /\ temp \in [Thread -> Addr \cup {NULL}]
  /\ before \in [Thread -> Addr \cup {NULL}]
  /\ after \in [Thread -> Addr \cup {NULL}]

TypeOK ==
  /\ HeapTypeOK /\ SockTypeOK
  /\ flag \in BOOLEAN
  /\ cli_count \in Nat /\ (pc = "create" => cli_count \in Thread)
  /\ connect_FD \in Fd \cup {Free, NoFd}
  /\ data \in [Addr -> Fd \cup {Free}]
  /\ sockfd \in [Thread -> Fd \cup {Free, NoFd}]
  /\ recv_buff \in [Thread -> Seq(Entry)]
  /\ \A k \in Thread : Len(recv_buff[k]) <= 1
  /\ log \in Seq(Entry)
  /\ due \in SUBSET Conn
  /\ late \in BOOLEAN /\ raced \in BOOLEAN

\* main appends without the mutex, and still the threads are safe from it:
\* until the shutdown, a bad pointer is used by main only, in appendNode, and
\* only if a deletion overlapped an append.
CrashCause ==
  [][pc' = "crashed" => Closing \/ (raced /\ pc \in {"walk", "link"})]_vars

\* The mutex is held by exactly the thread that walks or changes the list.
Exclusive ==
  \A k \in Thread :
    list_mutex = k <=> hpc[k] \in {"cast", "find", "unlink"}

\* Whatever main and the threads do at the same time, until the shutdown the
\* list ends, and it holds nodes that are not freed.
ListSound ==
  Running /\ ~Closing => Nodes \subseteq live /\ At[Cardinality(Addr)] = NULL

\* What the three rest on, and what every step keeps.  A node in use points to
\* a node in use, and no two to the same one.
Links ==
  /\ head \in live \cup {NULL}
  /\ \A a \in live : next[a] \in live \cup {NULL}
  /\ \A a, b \in live : next[a] = next[b] /\ next[a] # NULL => a = b
  /\ head # NULL => \A a \in live : next[a] # head

\* What a thread has read under the mutex still holds, except that main may
\* have appended to the node the thread takes out.
HeldPointers ==
  \A k \in Thread :
    /\ hpc[k] = "cast" => temp[k] \in live \cup {NULL}
    /\ hpc[k] = "unlink" =>
         /\ temp[k] \in live
         /\ IF before[k] = NULL
              THEN head = temp[k]
              ELSE before[k] \in live /\ next[before[k]] = temp[k]
         /\ after[k] \in {next[temp[k]], NULL}

\* main can be at a node that was freed since it began, never at one that had
\* been freed before ("graves"): so it never comes to the new node itself.
AppendPointers ==
  pc \in {"load", "walk", "link"} =>
    /\ newnode \in live /\ head # newnode
    /\ \E graves \in SUBSET (Addr \ live) :
         /\ \A a \in Addr \ graves : next[a] \notin graves \cup {newnode}
         /\ pc # "load" => current \notin graves \cup {newnode}
    /\ pc = "link" /\ current \in live => next[current] = NULL
    /\ Deleting => raced
    /\ ~raced => IF pc = "load" THEN head # NULL ELSE current \in live

\* The number of the next thread has not been used.
Numbered ==
  /\ cli_count \in Nat
  /\ \A k \in Thread : k > cli_count => hpc[k] = "none"
  /\ Appending \/ pc = "create" =>
       cli_count \in Thread /\ hpc[cli_count] = "none"

ListInv ==
  /\ HeapTypeOK /\ Exclusive /\ Numbered
  /\ Running /\ ~Closing => Links /\ HeldPointers /\ AppendPointers

\* All clients hear what they hear once and in one order, that of the mutex,
\* unless a thread started late: then a descriptor can be on the list twice.
InOrder == ~late =>
  \A c \in Conn :
    \E place \in [1..Len(got[c]) -> 1..Len(log)] :
      /\ \A m, n \in 1..Len(got[c]) : m < n => place[m] < place[n]
      /\ \A m \in 1..Len(got[c]) : log[place[m]] = got[c][m]

\* At the end of a broadcast everyone who was on the list when it began has
\* heard it, whatever main appended meanwhile.
EveryoneHears ==
  \A k \in Thread :
    hpc[k] = "cast" /\ temp[k] = NULL /\ ~late /\ Running /\ ~Closing =>
      \A c \in due : \/ peer[c] = "rst"
                     \/ got[c] # << >> /\ got[c][Len(got[c])] = log[Len(log)]

\* Threads that have a descriptor and have not closed it.
Owners == {k \in Thread : hpc[k] \notin {"none", "start", "gone"}}

\* Unless a second connection is accepted before a thread has started, every
\* thread has a descriptor of its own, and nobody else closes it.
OwnClient ==
  ~late /\ Running /\ ~Closing =>
    /\ \A k \in Owners : sockfd[k] \in Fd /\ fdt[sockfd[k]] # Free
    /\ \A j, k \in Owners : sockfd[j] = sockfd[k] => j = k
    /\ \A k \in Owners, j \in Thread :
         hpc[j] = "start" => connect_FD # sockfd[k] /\ fdt[connect_FD] # Free

\* The descriptors that belong on the list: those of the threads that have not
\* deleted theirs, and the one that a thread is to start with.
Listed ==
  {sockfd[k] : k \in {j \in Owners : hpc[j] # "close"}}
    \cup (IF pc = "create" \/ \E k \in Thread : hpc[k] = "start"
            THEN {connect_FD} ELSE {})

\* Unless, besides, an append overlaps a deletion, the list holds exactly the
\* descriptors of the threads that have not deleted theirs, each once.
ListExact ==
  ~late /\ ~raced /\ Running /\ ~Closing =>
    /\ {data[a] : a \in Nodes} = Listed
    /\ \A a, b \in Nodes : data[a] = data[b] => a = b

\* The nodes that malloc has ever given: they hold a descriptor.
Given == {a \in Addr : data[a] \in Fd}

\* A descriptor that accept returned; behind a failed accept it may be none.
Usable(fd) == fd \in Fd \/ (fd = NoFd /\ (~Running \/ Closing))

\* What the types rest on: main accepts when there is a connection; who has
\* started has a descriptor, except that a failed accept leaves a starting
\* thread without one, which then reads nothing; who has read has a descriptor
\* and something to write; and no pointer leads to memory malloc has not given.
Known ==
  /\ pc = "accept" => backlog # << >>
  /\ cli_count > 0 => Usable(connect_FD)
  /\ \A k \in Thread : hpc[k] \notin {"none", "start"} => Usable(sockfd[k])
  /\ \A k \in Thread : hpc[k] \in {"lock", "cast"} =>
       sockfd[k] \in Fd /\ Len(recv_buff[k]) = 1
  /\ \A a \in Addr : next[a] \in Given \cup {NULL}
  /\ {head, newnode, current} \subseteq Given \cup {NULL}
  /\ \A k \in Thread :
       {temp[k], before[k], after[k]} \subseteq Given \cup {NULL}

\* main has accepted a connection and not made its thread, or closed it, yet.
InHand == Appending \/ pc \in {"refuse", "create"}

\* What OwnClient rests on: one connection at a time is on its way from main to
\* a thread, and nobody else has its descriptor.
Handover ==
  /\ InHand \/ (\E k \in Thread : hpc[k] = "start") =>
       /\ connect_FD \in Fd /\ fdt[connect_FD] # Free
       /\ \A k \in Owners : sockfd[k] # connect_FD
  /\ \A j, k \in Thread : hpc[j] = "start" /\ hpc[k] = "start" => j = k
  /\ InHand => \A k \in Thread : hpc[k] # "start"

\* Why a thread leaves: its connection has ended, or its client says "exit".
Reasons ==
  \A k \in Owners :
    LET c == fdt[sockfd[k]]
    IN /\ hpc[k] \in {"lock", "cast"} => recv_buff[k][1].from = c
       /\ hpc[k] \in {"leave", "find", "unlink", "close"} =>
            \/ peer[c] \in {"fin", "rst"}
            \/ recv_buff[k] = <<[from |-> c, said |-> <<"exit">>]>>

\* What ListExact rests on.  Also if an append and a deletion overlap, the list
\* holds nothing that does not belong there: it can only lose nodes.
Placed ==
  /\ {data[a] : a \in Nodes} \subseteq Listed
  /\ \A a, b \in Nodes : data[a] = data[b] => a = b
  /\ pc \in {"load", "walk", "link"} =>
       data[newnode] = connect_FD /\ next[newnode] = NULL
  /\ \A k \in Thread : hpc[k] = "unlink" =>
       /\ temp[k] \in Nodes /\ data[temp[k]] = sockfd[k]
       /\ before[k] \in Nodes \cup {NULL}
  /\ ~raced =>
       /\ Listed \subseteq {data[a] : a \in Nodes}
       /\ pc \in {"walk", "link"} => current \in Nodes
       /\ \A k \in Thread : hpc[k] = "unlink" => after[k] = next[temp[k]]

\* Every variable has its type, and from its accept to its close(2) each
\* connection has one thread, which closes it for a reason, and one node.
Inv ==
  /\ TypeOK /\ Known /\ Matched /\ OwnClient
  /\ ~late /\ Running /\ ~Closing =>
       /\ Handover /\ Placed
       /\ ~flag => Reasons

\* A connection is closed only because it ended, because its client said
\* "exit", or because the server stops or has reached its maximum.
NoWrongfulClose ==
  [][\A c \in Conn : peer[c] # "done" /\ peer'[c] = "done" =>
       \/ late \/ flag \/ Closing \/ pc = "refuse"
       \/ peer[c] \in {"fin", "rst"}
       \/ \E k \in Thread : /\ hpc[k] = "close"
                            /\ recv_buff[k] = <<[from |-> c,
                                                said |-> <<"exit">>]>>]_vars

\* After SIGINT main returns, unless it was just before select: then it does
\* when one more client connects.
ShutsDown == flag /\ (pc # "select" \/ backlog # << >>) ~> ~Running

\* What an accepted client sends, or its end, is noticed, unless a thread
\* started late: then the client may be without one.
Waiting(c) == Readable(c) /\ \E fd \in Fd : fdt[fd] = c
Attended == \A c \in Conn : Waiting(c) ~> ~Waiting(c) \/ late \/ ~Running

\* Nobody waits for the mutex for ever, also not behind a thread that has it.
Served ==
  \A k \in Thread : hpc[k] \in {"lock", "leave"}
    ~> hpc[k] \notin {"lock", "leave"} \/ ~Running
=============================================================================
