# A verification project for DataStructure_prac

The repository holds four TCP chat servers that do the same job with different
system calls, their clients, four linked lists, and some small exercises. This
directory holds TLA+ models of its core logic, TLC configurations that check
them on small instances, and TLAPS proofs of the most important results for
every size.

## 1. Inventory

A chat server accepts clients on port 12345, writes what one client sends to
all others, and lets a client go that sends `exit` or closes its end. SIGINT
(Ctrl-C) stops the server. The four servers share no code except copies of
`singlylinkedlist.c`; they meet their clients only through the kernel.

| Part | State | Operations | What is hard | What makes it correct |
|---|---|---|---|---|
| select server `socket_with_select/server.c` | `client[]`, `allset`, `rset`, `maxfd`, `cli_count`, `report_flag`, `server_left` | one loop: select with 5 s timeout, accept, scan, broadcast, `report`, close | one fact kept in three tables; stale `rset`; high-water marks; blocking sockets; running out of descriptors; SIGPIPE; SIGINT at any point | the tables agree; no call blocks; nobody is skipped or dropped; it is a chat room; it stops |
| thread server `pthread_socket/server.c` and its list | `head` and the nodes, `list_mutex`, `connect_FD`, `cli_count`, `flag`, one thread per client | main: select, accept, append, create a thread, tear down; thread: read, broadcast, delete, close | main appends and frees without the mutex; `connect_FD` passed by address | mutual exclusion; the list stays a list of live nodes; one thread per client; one order of messages; it stops |
| epoll server `epoll_socket/server.c` | list of descriptors, epoll's interest and ready lists, event batch, SIGINT pipe | wait, accept one, read once, broadcast, delete | edges are reported once; a batch holds stale events; `break` drops the batch | every readiness is acted on; no event acts on another client's descriptor |
| fork server `simple_socket/server.c` | list in every process, descriptors of every process | parent: select, accept, append, fork; child: read, broadcast, delete, exit | a child keeps the list of the moment it was forked; parent never closes | who hears whom; a client loses its child only for a cause |
| clients (four `client.c`) | `left_flag`/`flag`, the socket, stdin | select loop (select and epoll client), two threads, or two processes | flag and blocking call disagree; full socket buffers in both directions; stdio behind select's back | what is typed arrives, once and in order; what comes is read; both halves stop |
| singly, doubly, circular, doubly circular list (`LinkedList/`) | nodes and links | append, push, insert after, delete, sort (two of them), free all, print | first, last and only node; absent values; reuse of memory | the heap is the abstract sequence; nothing is leaked or used after free |
| `LinkedList/main.c`, `pthread_prac/pthread_test.c`, `pthread_socket/temp_server.c` | locals | demos | nothing shared | - |

There is no README, document or automated test in the repository: what it says
of itself is in comments, in printed texts, and in the demo `main`s.

## 2. Modules

| Module | Models | Depends on |
|---|---|---|
| `Transcripts` | what can be said, what one `read` returns, what a client was written | |
| `ChatRoom` | abstract specification of a chat server | `Transcripts` |
| `Sockets` | the kernel: backlog, descriptor table, connections; and the programs at the other ends (external) | `Transcripts` |
| `SelectServer` | the select server; `IsChatRoom` is its refinement of `ChatRoom` | `Sockets` |
| `PthreadServer` | the thread server with its list in a heap | `Sockets` |
| `EpollServer` | the epoll server with edge-triggered epoll; refines `ChatRoom` too | `Sockets` |
| `ForkServer` | the fork server: the parent and a process per client | `Sockets` |
| `ClientWorld` | what one client meets: the user, stdio, a connection with finite buffers, and the server's end of it | |
| `SelectClient`, `ThreadClient`, `ProcessClient` | the programs: one loop, two threads, two processes | each the one before; the first `ClientWorld` |
| `ChatClients` | one of the four clients with its server; the properties of clients | `ProcessClient` |
| `NodeHeap` | memory as the lists use it: nodes, NULL, calls, bad pointers | |
| `SinglyList`, `DoublyList`, `CircularList`, `DoublyCircularList` | the four lists of `LinkedList/` | `NodeHeap` |
| `ListSpec` | abstract specification of a list: a sequence, and which calls it supports | |
| `PthreadList` | the thread server's copy of the singly linked list, with a `deleteNode` of its own | `SinglyList` |
| `LinkedLists` | a program that calls one of the five lists in any way; `IsList` is the refinement of `ListSpec` | the five lists |
| `ListDemo` | `LinkedList/main.c`, call by call | `LinkedLists` |
| `MCSelect`, `MCPthread`, `MCEpoll`, `MCFork`, `MCLists`, `MCDemo` | symmetry sets, values, and the restrictions on SIGINT, for TLC | |
| `Sockets_proofs` | lemmas about the kernel's operators, proved | `Sockets` |
| `SelectServer_proofs`, `PthreadServer_proofs`, `EpollServer_proofs`, `ForkServer_proofs` | proofs about the four servers | the server, `Sockets_proofs` |
| `PthreadOrder_proofs` | proofs about what the thread server's clients hear | `PthreadServer_proofs` |
| `ChatClients_proofs` | proofs about the four clients | `ChatClients` |
| `LinkedLists_proofs` | proofs about the five lists and the sort | `LinkedLists` |

The chat servers are four ways to do one job, so they share one model of the
kernel (`Sockets`) and, where the server has a single thread, one abstract
specification. `ChatRoom` knows who is in the room and who has written what to
whom; `outbox` is what a client has written and the room has not heard. A member
leaves when nothing is left in its `outbox`, or when it said `exit` and nothing
else. What it says, all other members hear at once. The
thread server and the fork server do not implement it, because their broadcasts
take a step per listener and interleave; what holds of them instead is stated
in their own modules (`InOrder`, `EveryoneHears`, `EldersHear`).

### Sockets

`backlog` is the queue of completed connections, `fdt` the descriptor table
from the first descriptor that is not the server's own, `peer[c]` the state of
`c`'s connection, `rx[c]` the bytes received from `c` (as a sequence of
messages) and `got[c]` what was written to `c`. `accept` returns the lowest
free descriptor. A read takes all that has arrived up to `MaxChunk` messages:
TCP keeps no boundaries, so two messages may be glued together. A client may
close its end (`fin`), which with unread input is a reset (`rst`); a write to a
closed end provokes a reset sooner or later, and a write to a reset connection
may raise SIGPIPE. A client connects at most once; another connection is
another member of `Conn`.

Assumed of the environment: clients drain their sockets, so that no write
blocks or is cut short. `Drains`, in `ChatClients`, is weaker than that: it says that the
repository's own clients do not leave a full buffer full for ever, and when they do; what
a write that does not wait loses while the buffer is full, it does not exclude. `malloc` and `pthread_create` succeed; `socket`, `bind`
and `listen` succeed at the start.

### SelectServer

One thread, so an action is one stretch of `main` between two system calls that
may wait or that look at the world: `TestLeft` (line 100), `SelectReady`,
`SelectTimeout` (106-122), `AcceptFails`, `Accept` (126-160), and for the loop
over the clients `ScanSkip`, `ScanGone`, `ScanRead`, `ScanDone` (162-210), one
slot a step, so that clients send, hang up and connect in between. `CloseAll` is
`close_all_client`; `SigInt` the signal at any point, which interrupts select
and restarts every other call (`signal` of glibc sets SA_RESTART). SIGPIPE is
the disjunct `DieWriting` of the two broadcasts.

`SelectAssumption`: the descriptor limit is at most `FD_SETSIZE` (both are 1024
by default). Beyond it the code runs into undefined behaviour, `FD_SET` of a
bit outside the set. `AlwaysASlot` says the consequence: the table of clients is
never full, so lines 145-150 ("Reach Max...") are not reached. They are in the
model, and TLC and the proof show them dead under this assumption.

### PthreadServer

Threads interleave at every access to shared memory that another thread could
disturb. `main`'s `appendNode` takes four actions (`Append1`, `Load`, `Walk` once
per node, `Link`), because it runs without the mutex. A handler's broadcast
takes one step per node. `deleteNode` is `Find` (the walk, which only threads
under the mutex could change, except that main may append behind it) and
`Unlink` (with the successor that was read before). The list is a heap:
`live` is what `malloc` gave and `free` has not taken, and `Crash` is enabled
exactly if the next access of a thread is to NULL or outside `live`; the other
actions stay enabled and see what the freed node held, as a freed node usually
does. `connect_FD` is main's variable, and `Start` reads it when the thread gets
to run. A failed `accept` stores -1 in it too (`NoFd`, line 154) before main goes to the
shutdown: a thread that starts then reads and closes nothing (`IsOpen`). `close` of a descriptor that is not open is harmless, of one that was
reused it hits the wrong client: `Close` models both.

Four history variables serve the properties only: `log` and `due` (the
broadcasts in the order of the mutex, and who was on the list), `late` (a
connection was accepted while a thread had not read `connect_FD` yet) and
`raced` (an append overlapped a deletion).

### EpollServer

One thread, sockets that do not block. `ready` is what epoll has noted and not
reported, `events` what the loop of line 111 has not come to yet. `Edges` says
what epoll notes in a step: new data, an end or a reset for an open descriptor, a
new connection. `Wait` reports what is noted and still true (epoll polls the
descriptor again), and forgets the note. `Reported` takes the events in any
order. `Accept`, `AcceptFails` (with its `break`), `Gone`,
`ReadOn`, `Leave`, `DieWriting` and `Exit` are the branches of the loop, `CloseAll`
what follows it. `SigInt` writes into the pipe, which is a flag here: the bytes behind
`exit` that `sizeof(text)` adds to what is written are not modelled. The list is a sequence of
descriptors here: the calls that the server makes of `singlylinkedlist.c` are
appends, and deletions of a value that `ListExact` shows is there, for which
`SinglyList` implements a sequence (`IsList`).

### ForkServer

`ppc` and `pflag` are the parent's, `cpc[c]`, `cflag[c]`, `temp[c]` and
`recv_buff[c]` belong to the child that serves `c`; all processes run
independently. The parent only appends to its list, and a child only takes out
its own node just before it ends, so a child's list is what the parent's list was
up to its own client (`ListOf`). The broadcast takes one step per node, because
other children write to the same clients meanwhile. A connection is closed when
the last process that has its descriptor exits (`HeldBy`, `ParentHolds`, `Left`).
SIGINT reaches all processes at once and wakes any of them that wait in select; a
process between its test of `flag` and select is not woken. `accept` may fail at any
time, and so may `fork`.

### The clients

`ChatClients` composes one client with what it meets. `kind` chooses the program and
its server, `pipe` whether stdin is a terminal, whose reads return a line, or a
pipe, whose reads return all there is: `stdio` holds what was read and `fgets` has
not returned, and select knows nothing of it (`Input`). `toServer` and `inbox` are
the socket buffers of the two directions, `Cap` messages each: a `write` waits for
room (`Write`). `conn` is what the client's kernel knows of the connection: `fin` and
`rst` after the server's close, `broken` once a write raises SIGPIPE.

`writer` and `reader` are program counters. The select loop uses the first only:
`Select`, `Receive`, `ReadLine` and `SendLine` are its stretches between calls that
wait, and the epoll client is the same code without the signal handler
(`EpollStep`). In the thread client `writer` is `send_handler` and then main
(`Joins`), `reader` is `recv_handler`; in the process client they are the child and
the parent. The two share `left_flag` (`flag` in the thread client). Between
`WriteLine` and `SetFlag` the line has been sent and the flag is not set, which is
where the other half, and the server, may act.

The server's end is an abstraction of the four server modules to what one client
can tell: it reads what has arrived, or part of it (`ServerReads`), takes a lone
`exit` for one and closes, or writes a NUL and leaves the connection open
(`Replies`, the fork server, whose parent holds on to what it accepted, `ParentHolds`); other clients' messages are
written to it (`Casts`), by the select and the fork server with a write that
waits, by the others with one that fails if there is no room. The select server
does nothing else while it waits in that write. SIGINT may stop it (`ServerStops`).

Ctrl-C at the client is left out: it ends all threads and processes of the client
wherever they are. Lines are whole and not empty: neither the line longer than the
buffer, which arrives in pieces, nor the last line without a newline, which loses its
last character (client.c:80), nor the empty line, for which all but the thread client
write no byte, is modelled.

### The lists

`NodeHeap` holds the caller's pointer and the nodes in use. One call is one step,
as nothing runs beside it; a walk (`Walk`) is a recursive function over the number
of steps, and `Seek` the first node of a walk that a loop would stop at. A walk that leaves the nodes in use sets `status` to
`bad_pointer`, one that goes round for ever to `endless`, and the program has no
further step. `int` is `-Half..(Half - 1)`, and the sums by which the sorts swap
wrap around in it. `call` records the last call with its arguments.

`ListSpec` gives each call its effect on a sequence, and in `Supported` the calls
for which a list keeps that promise. `usable` is the abstract image of "the heap
is still a list" (`Whole`: every node is met once, the end is NULL or the start,
the way back is the way there). Because the abstract step requires
`usable' = (usable /\ Supported(call'))`, the refinement checks the contract in
both directions: every supported call works and leaks nothing, and every call
that is not supported does break the list.

`ListDemo` runs the four demonstrations of `main.c` with their values: a step is the
next call of the program, made by the operator that models it.

## 3. Runs

| Run | Bounds | Shows |
|---|---|---|
| `select_safety` | 3 clients, 2 descriptors, 2 messages of 3 kinds, reads of up to 2 | `Inv` and its consequences; the chat room refinement |
| `select_live` | 3 clients, one of which may leave, 2 descriptors | `ShutsDown`, `ClientsAttended` under fairness |
| `pthread_shutdown` | 3 clients, 2 served, 2 descriptors, all may leave, 2 messages, with a SIGINT 1 | `ListInv` and `Inv`: mutex, list, descriptor ownership, reasons; cause of crashes |
| `pthread_order` | 3 clients, all served, staying until they say `exit`, no SIGINT | order and completeness of broadcasts, exactness of the list |
| `pthread_live` | 2 clients, one of which may leave | `ShutsDown`, `Attended`, `Served` under fairness |
| `lists` | 4 nodes, 2 values, 2-bit integers | `IsList`: the five lists keep exactly their contracts |
| `lists_demo` (violation) | the values of `main.c`, 9 nodes, 8-bit integers | `main.c` never comes back from printing the doubly linked list |
| `epoll_safety` | 3 clients, 2 descriptors, 2 messages, all may leave | `Inv` with what it is made of: the list is exact, events hold when handled; what edges can be lost, no wrongful drop, chat room refinement |
| `epoll_live` | 3 clients, one of which may leave, 2 descriptors, reads of 1 of 2 messages | `MessagesRead`, `ShutsDown` under fairness |
| `fork` | 3 clients, 3 descriptors, 2 messages, all may leave, SIGINT, fork may fail | `Inv`, and what follows: who hears whom; why a client is left without its child |
| `fork_live` | 2 clients, 2 descriptors, 2 messages, all may leave | `ShutsDown`, `Attended` under fairness |
| `clients` | buffers of 2 messages, 3 lines typed, 3 messages of others | `Inv`, `SentInOrder` and what the four clients must eventually do |

Why these bounds are enough. The select server needs one client more than
descriptors, to make accept fail, and one descriptor reused while an older one
is still in `rset`; both happen with three clients on two descriptors. A slot
and a descriptor number come apart as soon as one client leaves between two
that stay. Two messages suffice to glue `exit` to another one. In the thread
server two clients give every race of main with a deletion, and a third
connection is refused; three served clients are needed for a broadcast with two
listeners while a third thread deletes. With the client of that server each
write is as long as the reader's buffer, hence `MaxChunk = 1` there.
In `pthread_shutdown` two messages give two broadcasts that overlap, or a broadcast and
the deletion for an `exit`. `SignalSpec` leaves out behaviours with both messages and a
SIGINT: what the shutdown can interrupt is one broadcast or deletion, and the other thread
leaves by the signal itself. The shutdown behind a failed `accept` keeps both messages.
`Leavers` limits which clients may close their ends; where it is not all of them, the
server's own reasons for closing are still all there.

The epoll server needs a descriptor that is closed, handed out again and written
to within one batch, and a third client for which there is none: three clients
on two descriptors, in the live run too, so that `accept` does run out of them
there. That run reads less than what may have arrived, which edge
triggering then leaves lying: `Lost`.
In the fork server three clients give a child that is junior to one client and
elder to another, and two children that write to one client at a time.

The lists need an inner node with neighbours on both sides and one more to be
inserted: four nodes. Two values give equal and different neighbours; the values
are -2 and -1, and in two bits their sum overflows, as the sum swap of the sort
does with large values in 32 bits.

The clients need a buffer of two messages, for an `exit` that is read together with
the line before it, and one line and one message more than fit, for a write that
has to wait: `Cap = 2`, three lines, three messages.

Deadlock checking is off in all runs, because a server that has exited stops.

Fairness. `SelectServer`: weak fairness of the one thread; `select` with a
timeout always returns. `PthreadServer`: weak fairness of main and of each
thread separately (preemptive scheduling). `ChatClients`: weak fairness of each of
the client's two halves, of the server's reading, and of its writing; none of the
user, of the other clients or of SIGINT. `EpollServer`: weak fairness of its one
thread. `ForkServer`: weak fairness of the parent and of each child. The mutex gets no fairness of its
own: a thread that waits for it is served only if it is free from some time on
or the thread's step is taken. No fairness is assumed of the clients, nor that
SIGINT comes.

### What the runs found

* When descriptors run out and one more client connects, `continue` after the failing
  `accept` (select server, line 132) skips the clients too, and since the connection stays in
  the backlog, every following pass does the same. Served clients are starved
  and cannot free a descriptor, because their `exit` is never read. `ClientsAttended`
  has this case as `[]Starved`, and shows that it is the only one.
* Conditions in the thread server's properties are exactly its known races.
  Without `~late`, `OwnClient` fails: main accepts a second client before the first thread has
  read `connect_FD`; both threads serve the second. Without `~raced`,
  `ListExact` fails: an append behind a node that is being taken out is lost.
  `CrashCause` confines bad pointers to those races and to the shutdown.
  `ShutsDown` needs the clause about `select`: a SIGINT that comes between the
  test of `flag` and a `select` without timeout waits for the next client.
* The thread server's `deleteNode` is for every list and every value, the empty list
  and an absent value included, unlike the other copies'.
* Lists. `Supported` is the exact contract. `deleteNode` of an absent value follows
  NULL (a comment in the code says so). `insertDNode` behind a value that is there
  makes the new node its own successor. `deleteDNode` of an absent
  value or of the only node follows NULL. `pushCNode` and `freeallCNodes` need a
  ring that is not empty; insertion and deletion of an absent value go round for
  ever; deletion of the only node of a ring leaves the caller a pointer to freed
  memory. `freeallDCNode` frees only the first node, because its loop condition
  assigns instead of comparing.
* `LostOnly` and `MessagesRead` say together what edge triggering costs the epoll
  server. When two connections arrive under one edge, `accept` takes one and the
  other is stranded until a third comes. What one read leaves is stranded likewise,
  be it data or the end of the connection. `break` after a failing `accept` drops
  the rest of the batch: if the pipe was reported with it, SIGINT is lost until
  another one comes (`ShutsDown` has `[]Lost(pipe_fd)` for that). Nothing else is lost.
* `lists_demo`: line 40 of `main.c` prints for ever, because the insertions before it
  make a node its own successor. The other three demonstrations come to their ends.
* Select server and select client can wait for each other (`Embrace`): both
  buffers are full, the server is in a write to the client, the client in a write
  to the server, and neither reads. With the server all other clients hang. `Drains`
  says that this is the only case in which a client leaves its buffer full.
* `LinesRead`: with input from a pipe, the select and the epoll client leave lines in
  stdio until stdin has something more, because select only sees the descriptor.
* `Leaves` names the two ways in which a client does not end. After the server
  has closed, the thread client and the child of the process client wait for one
  more line of their user, since main joins the sender, and nothing wakes `fgets`.
  The parent of the process client waits in `read` after its user has left.
* `ExitEnds`: the process client relies on the NUL that answers `exit`. It hangs in
  `read` if `exit` was read glued to another line, and if the NUL is read and the
  flag tested before the child, which has already sent the line, sets it.
* Fork server: SIGINT ends every process except one that was about to call select,
  which goes on until its client, or the next one to connect, wakes it. A client
  hears only those that came after it, and a client that said `exit` keeps its
  connection until the parent exits, because the parent never closes its copy
  (`ParentHolds`). `NoWrongfulEnd` has one cause that is not the client's own: a child
  that writes to an elder that was reset is killed by SIGPIPE, and its client, which may
  go on talking, is read by nobody any more.
* Thread server: an `accept` that fails leaves -1 in `connect_FD`, and a thread that had
  not read it yet never serves the client it was made for. `Usable` confines this to
  the shutdown into which the failure leads.

Mutants. Each property has in `PROJECT.json` a mutated operator (a comment
beginning "mutant" marks it in the modules) under which TLC finds it violated.

## 4. Proofs

All theorems hold for every value of the constants under the assumptions named in
the modules: `TranscriptAssumption` (no text is `exit` or `report`, a read returns at
least one message, and no connection is called `server`, the name of the select
server in what it announces), `SocketAssumption`, `SelectAssumption`,
`PthreadAssumption`, `EpollAssumption`, `ClientAssumption` and `HeapAssumption`. Each
says that a set is finite, that a number is in a range, or that two names are not the
same (`NULL` is no address, `Free` no connection, the listening socket no client's
descriptor). `tlapm M.tla` checks module `M`.

`SelectServer_proofs`. `InvHolds` proves the inductive invariant
`Inv == TypeOK /\ Matched /\ Tabled /\ ScanReaches /\ Marked`. None of the
properties is inductive alone. `TableExact` needs that the kernel never has one
connection behind two descriptors or both open and in the backlog (`Matched`),
and that the table maps onto the descriptors (`Tabled`). `NeverBlocks` needs
`Marked`: what is set in `rset` and not yet scanned is still readable, because
only the scan takes data away and each slot is visited once, and because a
descriptor that `accept` returns was free, so its bit was not in `rset`.
`AlwaysASlot` follows by counting: with no free slot the table would be an
injection of the slots into the descriptors that are left to clients, which are
fewer, since the server's own lie below `FirstFd`. There is one lemma per action,
and in it one step per conjunct. From `Inv` follow `TypeCorrect`,
`TableExactHolds`, `ScanReachesHolds`, `NeverBlocksHolds`, `AlwaysASlotHolds`, and
the action property `NoWrongfulDropHolds`. `SelectImplementsRoom` proves the
refinement `Spec => IsChatRoom`, step by step: `Accept` is `Join`, `ScanGone` is
`Leave`, `ScanRead` is `Say`, the timeout with a report is `Announce`, `CloseAll` and
SIGPIPE are `End`, the rest stutters.

`PthreadServer_proofs`. `ListInvHolds` proves that the list survives the races of
main with the threads until the shutdown begins. `ListInv` is
`HeapTypeOK /\ Exclusive /\ Numbered` and, until the shutdown begins, `Links` (the
nodes that are live and linked), `HeldPointers` (what a thread under the mutex
holds) and `AppendPointers` (what main holds while it appends). The last is the
interesting one. Main walks without the mutex and may stand on a node that was
freed; such a node still points to where it pointed. There is a set of "graves",
freed nodes that no other node leads to, which main has not entered, and which
keeps the walk from coming to the new node itself: without it the append could
close a ring, and the invariant would not be inductive. That a walk under the
mutex ends is `WalkEnds`, a pigeonhole argument over the finite set of nodes.
From it follow `ExclusiveHolds` (the mutex), `ListSoundHolds` (the list consists of
live nodes and ends) and `CrashCauseHolds` (a bad pointer is only ever used after
an append has overlapped a deletion, or in the shutdown). `TypeCorrect` needs a
second invariant, `TypeInv == TypeOK /\ Known`: what a thread has read from a node
is a descriptor, which nodes have been given their data, and that a thread which has
started has a descriptor, or, behind a failed `accept`, none (`Usable`); the latter
reads nothing, so it never comes to the broadcast.

`Inv` of the thread server is about whom a descriptor belongs to. `OwnClient` is not
inductive: a descriptor passes from `accept` to main's variable, from there to the
thread that reads the variable, and from the thread to `close`. `Handover` says that
one connection at a time is on its way, that nobody else has its descriptor, and that
main does not accept again before the thread has read it, unless `late`. `Reasons`
keeps why a thread is about to leave, from the read to the `close` three
interleaved steps later; with it `NoWrongfulCloseHolds` is a matter of one step.
`Placed` holds what `ListExact` needs. Its first half, that nothing is on the list
that does not belong there and nothing twice, holds even if appends and deletions
overlap; that nothing is missing, only without `raced`. To reason about "the
nodes from `head` on" without induction over data, the proofs use that `Nodes` is
the least set with `head` in it that is closed under `next` (`NodesLeast`,
`NodesClosed`): what holds of `head` and passes on along `next` holds of all nodes.
From `Inv` follow `OwnClientHolds`, `ListExactHolds` and `NoWrongfulCloseHolds`.

`PthreadOrder_proofs`. A broadcast takes a step per node, main appends meanwhile, so
while it lasts some clients have heard the last entry of `log` and some have not.
`Embedded(t, l, n)` says that `t` is a subsequence of the first `n` entries of
`l`. In `OrderInv`, `OnList` relates the nodes to clients; `Casting` says that while
a thread walks, those behind it have heard at most the log as it is and those
`Ahead` of it (the least set closed under `next` that contains the thread's node) at
most the log without its last entry; `Awaited` that each of those to whom the
broadcast is due is on the list, and has heard it, was reset, or is ahead;
`Silent` and `Newcomer` that a client that is appended in the middle has heard nothing;
and `Tidy` that in the shutdown, where main frees the nodes under the threads, what
they walk is still the list it was. `InOrderHolds` and `EveryoneHearsHolds` follow.
Both need the mutex (`Exclusive`) and the exactness of the list, and `InOrder`
also the descriptor's owner: a client whose thread closed its descriptor while
another one walks would be another client behind the same number.

`EpollServer_proofs`. `Inv == TypeOK /\ Matched /\ ListExact /\ NotedOpen /\ EventsHold`.
`EventsHold` (an event of the batch is never about a descriptor that was closed or
handed out again meanwhile) is not inductive without `NotedOpen`, the same for what
epoll has noted and not reported, and that needs the list to be exact, since
`Leave` takes the descriptor from list, table and interest list in one
go. `LostOnlyHolds` shows of each action which edges it can lose: only one that it
took out of the batch (`LostWasReported`), and of those only what one accept or one
read leaves behind, or what the loop drops when descriptors have run out
(`LossExplained`). `EpollImplementsRoom` proves
`Spec => IsChatRoom` in the way of the select server: `Accept` is `Join`, `Gone` and
`Leave` are `Leave`, `ReadOn` is `Say`.

`ForkServer_proofs`. `EldersHear` relates two transcripts, what a client was written
and what another one said, while several children write to the same connections in
turn. `HeardSoFar` strengthens it by what is still owed: a child that is in the middle
of its list owes its last message to exactly the elders it has not come to.
`SaidBy`, which takes one client's entries out of a transcript, is a recursive
function. That there is such a function is proved by the least place where there would
be none (`SaidByPlaces`); `SaidByAppend`, which rests on it, says that an entry of
another client counts for nothing and one of this client for one more. `AcceptedOnce`, `HeldOpen` (who is on a list is held open by some
process) and `InTheBuffer` complete `Inv`, from which `EldersHearHolds` follows.
`NoWrongfulEndHolds` needs one invariant more. A child decides to stop several steps after
its read, and the code looks at the buffer then: `EndSeen` says that who walks its list
with an empty buffer has a connection that has ended, which stays so (`GoneStays`)
whatever the other processes write to it. That a buffer holding `exit` is what its client
was last heard saying is `InTheBuffer`.

`ChatClients_proofs`. `SentInOrder` alone says nothing of the lines between the keyboard
and the socket. `LinesKept` does: as long as the connection stands, what was typed is
what was sent followed by what is in stdio, in the writer's hand and to come.
`ExitIsLast` (who has sent `exit` sends nothing any more) and `StdinHolds` complete
the invariant. For the actions there are only three cases (`LinesQuiet`, `LineTyped`,
`LineSent`), whichever of the four programs runs.

`LinkedLists_proofs`. `SortSorts`: `BubbleSorted` returns an ordered sequence in which
every number occurs as often as before, for any length and any width of `int`. The
swap adds and subtracts, and its sum may wrap around; `SwapExchanges` shows that the
two wraps cancel out. A pass brings the greatest number to its end, and if it
exchanged nothing, some place never held less than before (`Passed`); that is why a
pass without exchange may be the last. `TypeCorrect` holds for whatever is called,
on broken lists too. What makes it more than a matter of assignments is the
sort, whose loop ends at the first NULL: only if the walk is shown to meet no
node twice (`EndsInChain`) there is a value for every node, and by `SortSorts`
it is one that was on the list.

`Sockets_proofs` holds the lemmas about the kernel's operators that the servers share,
among them `MatchedAccepted` and `MatchedClients`, which keep `Matched` through an
accept and through the clients' steps.

The installed provers cannot instantiate the library's induction rules, so induction
is done by least counterexample: a set of numbers is not empty, hence it has a least
one (`LeastExists`, `LeastNumber`), and the step leads to a smaller one.

Only model-checked:

* liveness, which the prover cannot express: `ShutsDown`, `ClientsAttended`, `Attended`,
  `Served`, `MessagesRead`, and of the clients `Drains`, `LinesRead`, `Leaves`, `ExitEnds`;
* `IsList`, the contract of the lists. Its second half, that a list is never a list
  again after an unsupported call, would need an invariant for each way in which
  each list can be broken, and for the first half the abstract sequence has to be
  rebuilt from the heap at every call. What is proved of it is the sort;
* the violation in `lists_demo`, which is a fact of one program.

## 5. Not modelled, and the plan

Next, in this order:

1. Lists: `ListSpec` for the supported calls, for every number of nodes: append and
   push of the singly linked list, then deletion, from `Chain` of
   `LinkedLists_proofs`.
2. The thread server's copy, for which every call is supported: the whole
   refinement, without the half about unsupported calls.

Not modelled at all: the bytes of a message beyond what the servers compare
(so not the write one past the end of `recv_buff` in the epoll server either),
printing, the set-up of the listening socket, zombie processes; `temp_server.c`,
which reads and prints one client's lines, and `pthread_test.c`, whose two threads
share nothing.
