---------------------------- MODULE ChatClients ----------------------------
(***************************************************************************)
(* One of the four clients with the server of its directory, until all its *)
(* threads or processes have ended.                                        *)
(***************************************************************************)
EXTENDS ProcessClient

vars == <<worldVars, clientVars, early>>

Init ==
  /\ WorldInit
  /\ left_flag = FALSE /\ rset = FALSE /\ send_buff = "" /\ early = FALSE
  /\ writer = IF kind \in {"select", "epoll"} THEN "select" ELSE "test"
  /\ reader = IF kind \in {"select", "epoll"} THEN "end" ELSE "test"

Ended == reader = "end" /\ writer = "end"

SelectStep == kind = "select" /\ send_and_recv /\ UNCHANGED early
EpollStep == kind = "epoll" /\ send_and_recv /\ UNCHANGED early
ThreadStep(step) ==
  kind = "threads" /\ step /\ UNCHANGED <<kind, pipe, serverVars, early>>
ProcessStep(step) ==
  kind = "processes" /\ step /\ UNCHANGED <<kind, pipe, serverVars>>

\* Ctrl-C, which with a handler or without one ends all processes of the client
\* wherever they are, is left out: so is what a user types for nobody to read.
ReaderStep == ThreadStep(recv_handler) \/ ProcessStep(Parent)
WriterStep ==
  \/ SelectStep \/ EpollStep
  \/ ThreadStep(send_handler) \/ ThreadStep(Joins)
  \/ ProcessStep(Child /\ UNCHANGED early)

Next ==
  /\ ~Ended
  /\ \/ ReaderStep \/ WriterStep
     \/ ((writer # "end" /\ UserStep) \/ ServerWorks \/ OthersWork \/ OthersAct)
          /\ UNCHANGED <<clientVars, early>>

Spec == Init /\ [][Next]_vars

\* The client's threads or processes and the servers' are scheduled one by
\* one; nobody has to type, to speak or to send a signal.
FairSpec ==
  /\ Spec
  /\ WF_vars(~Ended /\ ReaderStep) /\ WF_vars(~Ended /\ WriterStep)
  /\ WF_vars(~Ended /\ ServerWorks /\ UNCHANGED <<clientVars, early>>)
  /\ WF_vars(~Ended /\ OthersWork /\ UNCHANGED <<clientVars, early>>)

----------------------------------------------------------------------------
(* Properties. *)

TypeOK ==
  /\ WorldTypeOK
  /\ reader \in {"test", "recv", "end"}
  /\ writer \in {"select", "read", "fgets", "write", "test", "set", "join", "end"}
  /\ kind \in {"select", "epoll"} => reader = "end" /\ writer \notin {"test", "set", "join"}
  /\ writer = "join" => kind = "threads"
  /\ {left_flag, rset, early} \subseteq BOOLEAN
  /\ send_buff \in Line \cup {""} /\ (writer = "write" => send_buff \in Line)
  /\ kind \in {"select", "epoll"} /\ writer = "fgets" => ~Waiting

\* The select server and its client can wait for each other: each is in a
\* write, and reads nothing, and the buffers both ways are full.
Embrace ==
  /\ kind = "select" /\ writer = "write" /\ Len(toServer) = Cap /\ conn = "up"
  /\ pending /\ inbox = Cap

\* What comes is read, as the models of the servers assume of their clients:
\* the servers' writes do not wait for ever, except in the embrace.
Drains == inbox = Cap ~> inbox < Cap \/ Ended \/ Embrace

\* Nobody but the one is held up who waits for the user: a line that was typed
\* is taken by the client.  Of several lines that came in one read from a pipe,
\* select sees the first only: the client with one loop leaves the others in
\* stdio until stdin has something more.
LinesRead ==
  tty # << >> \/ stdio # << >> ~>
    \/ tty = << >> /\ stdio = << >>
    \/ writer = "end" \/ Embrace
    \/ kind \in {"select", "epoll"} /\ pipe /\ ~Input

\* The server reads what was typed, line by line and nothing twice, up to the
\* first "exit", though several processes share stdin and the socket.
Sent == received \o toServer
SentInOrder ==
  /\ Len(Sent) <= Len(typed) /\ Sent = SubSeq(typed, 1, Len(Sent))
  /\ \A n \in 1..(Len(Sent) - 1) : Sent[n] # "exit"

\* What it rests on.  As long as the connection is up, each line typed is in one
\* place: the writer's hand, stdio or the terminal, or sent; after an "exit"
\* the writer does not come back to its loop; and select's answer stays true.
Said(s) == \E n \in DOMAIN s : s[n] = "exit"
InHand == IF writer = "write" THEN <<send_buff>> ELSE << >>
Coming == InHand \o (stdio \o tty)
LinesKept == conn = "up" => typed = Sent \o Coming
ExitIsLast == Said(Sent) => writer \in {"set", "join", "end"}
StdinHolds == kind \in {"select", "epoll"} /\ writer = "read" /\ rset => ~Waiting

Inv == TypeOK /\ SentInOrder /\ LinesKept /\ ExitIsLast /\ StdinHolds

\* Who waits for what may never come: the sender for a line, although the
\* server has closed or the receiver has seen it; the parent of the client in
\* two processes for a message, although its user has left.
WaitsForLine == kind \in {"threads", "processes"} /\ writer = "fgets" /\ Waiting
WaitsForCast ==
  kind = "processes" /\ writer = "end" /\ reader = "recv" /\ inbox = 0 /\ conn = "up"

\* A client whose user has left, or whose server has closed, ends: or it waits
\* for ever in one of the two ways, the only ones.
Leaves ==
  left_flag \/ conn # "up" ~> Ended \/ [](WaitsForLine \/ WaitsForCast)

\* A client that has said "exit" ends.  The client in two processes owes that
\* to the server's NUL: it does not end if the server has read the "exit" with
\* something before it, or if the parent reads the NUL, tests the flag and goes
\* back to read before the child has set the flag.
ExitEnds == Said(toServer) ~> Ended \/ glued \/ early
=============================================================================
