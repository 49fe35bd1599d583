----------------------------- MODULE ForkServer -----------------------------
(***************************************************************************)
(* socket_prac/simple_socket/server.c: a process per client.  The parent   *)
(* accepts, appends to its list and forks; the child serves the client     *)
(* with the list as it was at the fork.  What a process does to its list   *)
(* afterwards no other process sees; the parent does nothing to it but     *)
(* append, and a child nothing but take out its own node when it ends.  So *)
(* a child's list is what the parent's was up to its own client.           *)
(*                                                                         *)
(* ppc: "test"    while (!flag)             server.c:73                    *)
(*      "select"  about to call select, or in it                           *)
(*      "accept"  the listening socket is ready; then fork                 *)
(*      "exited"  exit was called, or main returned                        *)
(* cpc[c], the child that serves c:                                        *)
(*      "none"    not forked                                               *)
(*      "test"    while (!flag)             server.c:101                   *)
(*      "select"  about to call select, or in it                           *)
(*      "cast"    the loop over the list    server.c:110                   *)
(*      "gone"    returned;  "killed"  by SIGPIPE                          *)
(***************************************************************************)
EXTENDS Sockets

VARIABLES ppc, pflag, plist,   \* the parent: its flag, and whom it accepted
          cpc, cflag,          \* the children, and their flags
          temp,                \* temp[c]: the place in its list c's child is at
          recv_buff,           \* recv_buff[c]: what it has read, << >> if nothing
          said                 \* history: said[c]: all that was read from c

parentVars == <<ppc, pflag, plist>>
childVars == <<cpc, cflag, temp, recv_buff, said>>
vars == <<parentVars, childVars, sockVars>>

Accepted == {plist[n] : n \in DOMAIN plist}
Place(c) == CHOOSE n \in DOMAIN plist : plist[n] = c

Forked == {c \in Conn : cpc[c] # "none"}
Alive == {c \in Forked : cpc[c] \notin {"gone", "killed"}}

Init ==
  /\ SockInit
  /\ ppc = "test" /\ pflag = FALSE /\ plist = << >>
  /\ cpc = [c \in Conn |-> "none"]
  /\ cflag = [c \in Conn |-> FALSE]
  /\ temp = [c \in Conn |-> 1]
  /\ recv_buff = [c \in Conn |-> << >>]
  /\ said = [c \in Conn |-> << >>]

----------------------------------------------------------------------------
(* The parent. *)

\* A connection is closed when no process has it open any more.  A child has
\* what the parent had when it forked: its client and those before.
HeldBy(children) ==
  UNION {{plist[n] : n \in 1..Place(c)} : c \in children}
Left(processes, answers) ==
  [c \in Conn |-> IF c \in Accepted \ processes THEN "done" ELSE answers[c]]

ParentExits ==
  /\ ppc' = "exited"
  /\ fdt' = [fd \in Fd |-> Free]
  /\ peer' = Left(HeldBy(Alive), peer)
  /\ UNCHANGED <<plist, pflag, childVars, backlog, rx, sent, got>>

\* while (!flag); behind the loop everything is closed.
TestFlag ==
  /\ ppc = "test"
  /\ \/ pflag /\ ParentExits
     \/ ~pflag /\ ppc' = "select"
        /\ UNCHANGED <<pflag, plist, childVars, sockVars>>

Select ==
  /\ ppc = "select" /\ backlog # << >>
  /\ ppc' = "accept"
  /\ UNCHANGED <<pflag, plist, childVars, sockVars>>

\* accept fails, for want of a descriptor or memory: the parent gives up.
AcceptFails == ppc = "accept" /\ ParentExits

\* The descriptor enters the list, and the child begins with the flag as it is.
Fork ==
  /\ ppc = "accept" /\ FreeFds # {}
  /\ backlog' = Tail(backlog)
  /\ plist' = Append(plist, Head(backlog))
  /\ fdt' = Opened(LowestFreeFd, Head(backlog))
  /\ cpc' = [cpc EXCEPT ![Head(backlog)] = "test"]
  /\ cflag' = [cflag EXCEPT ![Head(backlog)] = pflag]
  /\ ppc' = "test"
  /\ UNCHANGED <<pflag, temp, recv_buff, said, peer, rx, sent, got>>

\* fork fails: the client is let down, and the server stops.
ForkFails ==
  /\ ppc = "accept" /\ FreeFds # {}
  /\ backlog' = Tail(backlog)
  /\ plist' = Append(plist, Head(backlog))
  /\ peer' = [peer EXCEPT ![Head(backlog)] = "done"]
  /\ pflag' = TRUE
  /\ ppc' = "test"
  /\ UNCHANGED <<childVars, fdt, rx, sent, got>>

ParentStep == TestFlag \/ Select \/ AcceptFails \/ Fork \/ ForkFails

----------------------------------------------------------------------------
(* A child. *)

Move(c, to) == cpc' = [cpc EXCEPT ![c] = to]

\* The parent keeps every descriptor it accepted until it exits.
ParentHolds == {c \in Accepted : ppc # "exited"}

\* The child ends; answers is what has become of the connections till then.
ChildEnds(c, how, answers) ==
  /\ Move(c, how)
  /\ peer' = Left(HeldBy(Alive \ {c}) \cup ParentHolds, answers)

ChildTestsNot(c) ==  \* mutant: while (1)
  /\ cpc[c] = "test"
  /\ Move(c, "select")
  /\ UNCHANGED <<parentVars, cflag, temp, recv_buff, said, sockVars>>
ChildTest(c) ==
  /\ cpc[c] = "test"
  /\ \/ cflag[c] /\ ChildEnds(c, "gone", peer)
     \/ ~cflag[c] /\ Move(c, "select") /\ UNCHANGED peer
  /\ UNCHANGED <<parentVars, cflag, temp, recv_buff, said,
                 backlog, fdt, rx, sent, got>>

\* What is read, or nothing if the connection has ended, goes round the list.
ChildRead(c) ==
  LET entry == [from |-> c, said |-> ReadChunk(c)]
  IN /\ cpc[c] = "select" /\ Readable(c)
     /\ IF rx[c] = << >>
          THEN /\ recv_buff' = [recv_buff EXCEPT ![c] = << >>]
               /\ UNCHANGED <<said, rx>>
          ELSE /\ recv_buff' = [recv_buff EXCEPT ![c] = <<entry>>]
               /\ said' = [said EXCEPT ![c] = Append(@, entry)]
               /\ rx' = [rx EXCEPT ![c] = Unread(c)]
     /\ temp' = [temp EXCEPT ![c] = 1]
     /\ Move(c, "cast")
     /\ UNCHANGED <<parentVars, cflag, backlog, fdt, peer, sent, got>>

\* The list of the child up to its end, which is its own client.
ListensAll(c) == plist  \* mutant: the parent's list as it is now
ListOf(c) == SubSeq(plist, 1, Place(c))

FollowingTwice(n) == n + 2  \* mutant: temp->next->next
Following(n) == n + 1

\* One node: its own client is left out; a write may meet a reset connection.
ChildWrite(c) ==
  LET to == ListOf(c)[temp[c]]
  IN /\ cpc[c] = "cast" /\ temp[c] <= Len(ListOf(c))
     /\ \/ to = c /\ UNCHANGED <<cpc, got, peer>>
        \/ /\ to # c /\ UNCHANGED cpc
           /\ IF recv_buff[c] = << >>
                THEN UNCHANGED <<got, peer>>
                ELSE /\ got' = Delivered({to}, recv_buff[c][1])
                     /\ peer' \in Answers({to})
        \/ /\ to # c /\ peer[to] = "rst"
           /\ ChildEnds(c, "killed", peer)
           /\ UNCHANGED got
     /\ temp' = [temp EXCEPT ![c] = Following(@)]
     /\ UNCHANGED <<parentVars, cflag, recv_buff, said,
                    backlog, fdt, rx, sent>>

\* After "exit", an end or an error the child stops (after "exit" and an end
\* it writes one more NUL to its client, which is not in the transcript).  temp
\* and recv_buff are dead till the next read, which clears the buffer.
StopsAtExit(c) ==  \* mutant: ret == 0 and ret == -1 are not looked at
  recv_buff[c] # << >> /\ recv_buff[c][1].said = <<"exit">>
StopsOnPrefix(c) ==  \* mutant: strncmp(recv_buff, "exit", 4)
  recv_buff[c] # << >> => recv_buff[c][1].said[1] = "exit"
Stops(c) ==
  recv_buff[c] # << >> => recv_buff[c][1].said = <<"exit">>

ChildLoops(c) ==
  /\ cpc[c] = "cast" /\ temp[c] > Len(ListOf(c))
  /\ \/ Stops(c) /\ \E answers \in Answers({c}) : ChildEnds(c, "gone", answers)
     \/ ~Stops(c) /\ Move(c, "test") /\ UNCHANGED peer
  /\ temp' = [temp EXCEPT ![c] = 1]
  /\ recv_buff' = [recv_buff EXCEPT ![c] = << >>]
  /\ UNCHANGED <<parentVars, cflag, said, backlog, fdt, rx, sent, got>>

ChildStep(c) == ChildTest(c) \/ ChildRead(c) \/ ChildWrite(c) \/ ChildLoops(c)

----------------------------------------------------------------------------

\* Ctrl-C goes to all processes.  Those that wait in select are woken up; one
\* that was only about to call it waits all the same.
SigInt ==
  /\ ~pflag \/ \E c \in Alive : ~cflag[c]
  /\ pflag' = TRUE
  /\ cflag' = [c \in Conn |-> cflag[c] \/ c \in Alive]
  /\ \/ UNCHANGED ppc
     \/ ppc = "select" /\ backlog = << >> /\ ppc' = "test"
  /\ \E waiting \in SUBSET {c \in Alive : cpc[c] = "select" /\ ~Readable(c)} :
       cpc' = [c \in Conn |-> IF c \in waiting THEN "test" ELSE cpc[c]]
  /\ UNCHANGED <<plist, temp, recv_buff, said, sockVars>>

ClientsAct == ClientStep /\ UNCHANGED <<parentVars, childVars>>

Next ==
  \/ ParentStep \/ SigInt \/ ClientsAct
  \/ \E c \in Forked : ChildStep(c)

Spec == Init /\ [][Next]_vars

\* Processes are scheduled one by one.
FairSpec ==
  Spec /\ WF_vars(ParentStep) /\ \A c \in Conn : WF_vars(ChildStep(c))

----------------------------------------------------------------------------
(* Properties. *)

TypeOK ==
  /\ SockTypeOK
  /\ ppc \in {"test", "select", "accept", "exited"}
  /\ pflag \in BOOLEAN
  /\ plist \in Seq(Conn)
  /\ cpc \in [Conn -> {"none", "test", "select", "cast", "gone", "killed"}]
  /\ cflag \in [Conn -> BOOLEAN]
  /\ temp \in [Conn -> 1..(Len(plist) + 1)]
  /\ recv_buff \in [Conn -> Seq(Entry)]
  /\ \A c \in Conn : Len(recv_buff[c]) <= 1
  /\ said \in [Conn -> Seq(Entry)]

\* However the children's writes interleave, and whoever has left meanwhile:
\* of a client its elders hear all it says, in order and once, as long as they
\* are not reset and its child was not killed; and its juniors hear nothing.
SaidBy(s, transcript) ==
  LET heard[n \in 0..Len(transcript)] ==
        IF n = 0 THEN << >>
        ELSE IF transcript[n].from = s THEN Append(heard[n - 1], transcript[n])
                                       ELSE heard[n - 1]
  IN heard[Len(transcript)]
FromTo(s, e) == SaidBy(s, got[e])
Begins(heard, all) == Len(heard) <= Len(all) /\ heard = SubSeq(all, 1, Len(heard))
EldersHear ==
  \A s, e \in Accepted :
    LET heard == FromTo(s, e)
    IN IF Place(e) < Place(s)
         THEN /\ Begins(heard, said[s])
              /\ peer[e] \in {"up", "fin"} /\ cpc[s] # "killed" =>
                   Len(said[s]) - Len(heard) <= IF cpc[s] = "cast" THEN 1 ELSE 0
         ELSE heard = << >>

\* What these rest on.  A client is accepted once and from the backlog, where
\* accept finds somebody; behind the descriptors that a living child was forked
\* with is an open connection; and an elder lacks exactly the entry that is on
\* its way to it.
AcceptedOnce ==
  /\ \A m, n \in DOMAIN plist : plist[m] = plist[n] => m = n
  /\ \A n \in DOMAIN backlog : /\ backlog[n] \notin Accepted
                               /\ peer[backlog[n]] # "done"
  /\ \A c \in Accepted : peer[c] # "new"
  /\ Forked \subseteq Accepted
  /\ ppc = "accept" => backlog # << >>
HeldOpen ==
  /\ ppc \in {"select", "accept"} \/ (ppc = "test" /\ ~pflag) =>
       \A c \in Accepted : peer[c] # "done"
  /\ \A s \in Alive, e \in Accepted : Place(e) <= Place(s) => peer[e] # "done"
InTheBuffer ==
  \A s \in Conn :
    /\ s \notin Forked => said[s] = << >>
    /\ recv_buff[s] # << >> => /\ cpc[s] \in {"cast", "killed"}
                               /\ said[s] # << >>
                               /\ recv_buff[s][1] = said[s][Len(said[s])]
                               /\ recv_buff[s][1].from = s
Owed(s, e) ==
  IF cpc[s] = "cast" /\ recv_buff[s] # << >> /\ temp[s] <= Place(e) THEN 1 ELSE 0
HeardSoFar ==
  \A s, e \in Conn :
    LET heard == FromTo(s, e)
    IN IF s \in Accepted /\ e \in Accepted /\ Place(e) < Place(s)
         THEN /\ Begins(heard, said[s])
              /\ peer[e] \in {"up", "fin"} /\ cpc[s] # "killed" =>
                   Len(said[s]) = Len(heard) + Owed(s, e)
         ELSE heard = << >>

Inv ==
  /\ TypeOK /\ Matched /\ AcceptedOnce /\ HeldOpen /\ InTheBuffer
  /\ HeardSoFar

\* A client is left without its child only because its own connection ended, the
\* whole of what was read from it last was "exit", or SIGINT came; or because
\* the child wrote to one of its elders that was reset, and SIGPIPE killed it.
NoWrongfulEnd ==
  [][\A c \in Alive : c \notin Alive' =>
       \/ cflag[c]
       \/ peer[c] \in {"fin", "rst"}
       \/ said[c] # << >> /\ said[c][Len(said[c])].said = <<"exit">>
       \/ /\ cpc'[c] = "killed"
          /\ \E e \in Accepted : Place(e) < Place(c) /\ peer[e] = "rst"]_vars

\* After SIGINT, or after a fork that failed, the parent ends, and every child
\* to which the signal came does, also one that is in the middle of a message:
\* except a process that was just about to call select when the signal came.
\* It waits for its client, or the parent for the next one, and ends then.
Unwoken(c) == cpc[c] = "select" /\ ~Readable(c)
ShutsDown ==
  /\ pflag /\ ~(ppc = "select" /\ backlog = << >>) ~> ppc = "exited"
  /\ \A c \in Conn : cflag[c] /\ c \in Alive /\ ~Unwoken(c) ~> c \notin Alive

\* Whoever connects gets a child as long as the parent runs, and whatever the
\* other processes do, it reads all that comes, the end of the connection too.
Attended ==
  \A c \in Conn :
    /\ backlog # << >> /\ Head(backlog) = c ~> c \in Accepted \/ ppc = "exited"
    /\ c \in Alive /\ Readable(c) ~> ~Readable(c) \/ c \notin Alive
=============================================================================
