------------------------------ MODULE ChatRoom ------------------------------
(***************************************************************************)
(* What a chat server promises, whatever system calls it is made of.  A    *)
(* connected client is a member of the room; what a member has written is  *)
(* heard, in the order it was written and once, by every other member and  *)
(* never by itself.  Because one Say is one step, all members hear what    *)
(* they hear in the same order.                                            *)
(***************************************************************************)
EXTENDS Transcripts

VARIABLES open,     \* the server has neither returned from main nor died
          members,  \* the clients the server serves
          cut,      \* the clients whose connection is reset: writes are lost
          outbox,   \* outbox[c]: what c has written and nobody has heard yet
          inbox     \* inbox[c]: what c has been written

roomVars == <<open, members, cut, outbox, inbox>>

RoomInit ==
  /\ open = TRUE
  /\ members = {}
  /\ cut = {}
  /\ outbox = [c \in Conn |-> << >>]
  /\ inbox = [c \in Conn |-> << >>]

Heard(listeners, entry) ==
  [c \in Conn |-> IF c \in listeners THEN Hear(inbox[c], entry) ELSE inbox[c]]

\* The first n messages c has written, as one entry; and the others.
Spoken(c, n) == [from |-> c, said |-> SubSeq(outbox[c], 1, n)]
Unspoken(c, n) == SubSeq(outbox[c], n + 1, Len(outbox[c]))
Speakable(c) == {n \in 1..MaxChunk : n <= Len(outbox[c])}

Join(c) ==
  /\ c \notin members
  /\ members' = members \cup {c}
  /\ UNCHANGED <<open, outbox, inbox>>

\* Nobody leaves before all it has written was heard.
Leave(c) ==
  /\ c \in members
  /\ outbox[c] = << >>
  /\ members' = members \ {c}
  /\ UNCHANGED <<open, outbox, inbox>>

Write(c, m) ==
  /\ outbox' = [outbox EXCEPT ![c] = Append(@, m)]
  /\ UNCHANGED <<open, members, inbox>>

\* Only a lone "exit" makes the speaker leave, and the others hear it too.
Say(c, n) ==
  /\ c \in members
  /\ members' = IF Spoken(c, n).said = <<"exit">> THEN members \ {c}
                                                 ELSE members
  /\ inbox' = Heard(members \ (cut \cup {c}), Spoken(c, n))
  /\ outbox' = [outbox EXCEPT ![c] = Unspoken(c, n)]
  /\ UNCHANGED open

Announce ==
  /\ inbox' = Heard(members \ cut, Announcement)
  /\ UNCHANGED <<open, members, outbox>>

\* The process ends.  If SIGPIPE ends it in the middle of a broadcast, some
\* of the members have heard the last entry and the others never will.
End ==
  /\ open' = FALSE
  /\ members' = {}
  /\ UNCHANGED outbox
  /\ \/ UNCHANGED inbox
     \/ \E c \in members, part \in SUBSET members : \E n \in Speakable(c) :
          inbox' = Heard(part \ {c}, Spoken(c, n))
     \/ \E part \in SUBSET members : inbox' = Heard(part, Announcement)

\* Connections are reset by the network, at any time.
RoomNext ==
  \/ open /\ \/ \E c \in Conn : Join(c) \/ Leave(c)
             \/ \E c \in Conn : \E n \in Speakable(c) : Say(c, n)
             \/ \E c \in Conn, m \in Message : Write(c, m)
             \/ Announce
             \/ End
  \/ UNCHANGED <<open, members, outbox, inbox>>

RoomSpec == RoomInit /\ [][RoomNext]_roomVars
=============================================================================
