---------------------------- MODULE ClientWorld ----------------------------
(***************************************************************************)
(* One chat client's surroundings: the user who types, stdio, the          *)
(* connection with its two finite socket buffers, and what the server of   *)
(* the same directory does at the other end.  The programs themselves are  *)
(* in SelectClient, ThreadClient and ProcessClient.                        *)
(*                                                                         *)
(* The servers as this one client meets them:                              *)
(*   "select"     one thread, blocking writes: while it writes to the      *)
(*                client it does not read from it                          *)
(*   "epoll"      one thread; a write to a full socket fails at once       *)
(*   "threads"    the same, in the threads of the other clients            *)
(*   "processes"  blocking writes in the processes of the other clients;   *)
(*                "exit" is answered with a NUL, and not with a close      *)
(***************************************************************************)
EXTENDS Naturals, Sequences

CONSTANTS Cap,       \* how many messages fit a socket buffer
          MaxLines,  \* bound: how many lines the user types
          MaxCasts   \* bound: how many messages of other clients come

ASSUME ClientAssumption == Cap \in Nat \ {0} /\ MaxLines \in Nat /\ MaxCasts \in Nat

Kinds == {"select", "epoll", "threads", "processes"}
Line == {"hi", "exit"}

VARIABLES kind,      \* which client, and which server
          pipe,      \* stdin is a pipe: one read(2) returns all lines there are
          tty,       \* lines that stdin's read(2) has not returned yet
          stdio,     \* lines it returned and fgets did not
          eof,       \* the user has ended the input
          typed,     \* history: all lines typed
          toServer,  \* messages in the socket buffers towards the server
          inbox,     \* how many messages there are towards the client
          conn,      \* the connection, as the client's kernel knows it
          srv,       \* who serves the client
          pending,   \* a message of another client is being written to this one
          casts,     \* how many such messages there have been
          received,  \* history: all that the server has read
          glued      \* history: it has read "exit" with something else

\* conn: "up"; "fin": the server has closed; "rst": it has, with data unread,
\* and nobody has been told of the error; "broken": a write raises SIGPIPE.
\* srv: "serve"; "reply": about to write the NUL; "gone": it ended, and the
\* connection stays open.
userVars == <<tty, stdio, eof, typed>>
serverVars == <<srv, pending, casts, received, glued>>
netVars == <<toServer, inbox, conn>>
worldVars == <<kind, pipe, userVars, netVars, serverVars>>

WorldInit ==
  /\ kind \in Kinds /\ pipe \in BOOLEAN
  /\ tty = << >> /\ stdio = << >> /\ eof = FALSE /\ typed = << >>
  /\ toServer = << >> /\ inbox = 0 /\ conn = "up"
  /\ srv = "serve" /\ pending = FALSE /\ casts = 0
  /\ received = << >> /\ glued = FALSE

WorldTypeOK ==
  /\ kind \in Kinds /\ pipe \in BOOLEAN
  /\ {tty, stdio, typed} \subseteq Seq(Line) /\ eof \in BOOLEAN
  /\ ~pipe => stdio = << >>
  /\ toServer \in Seq(Line) /\ Len(toServer) <= Cap
  /\ inbox \in 0..Cap
  /\ conn \in {"up", "fin", "rst", "broken"}
  /\ srv \in {"serve", "reply", "gone"} /\ pending \in BOOLEAN
  /\ srv # "serve" => kind = "processes" /\ received[Len(received)] = "exit"
  /\ casts \in 0..MaxCasts
  /\ received \in Seq(Line) /\ glued \in BOOLEAN

----------------------------------------------------------------------------
(* The user. *)

Types(line) ==
  /\ ~eof /\ Len(typed) < MaxLines
  /\ tty' = Append(tty, line)
  /\ typed' = Append(typed, line)
  /\ UNCHANGED <<stdio, eof>>

EndsInput == ~eof /\ eof' = TRUE /\ UNCHANGED <<tty, stdio, typed>>

UserStep ==
  /\ EndsInput \/ \E line \in Line : Types(line)
  /\ UNCHANGED <<kind, pipe, netVars, serverVars>>

----------------------------------------------------------------------------
(* What the client's calls return. *)

Input == tty # << >> \/ eof   \* select's view: stdio is none of its business
Waiting == stdio = << >> /\ tty = << >> /\ ~eof   \* fgets would block

\* fgets returns the first line; reading stdin, it takes more from a pipe.
Fgets(line) ==
  LET lines == stdio \o (IF stdio = << >> THEN tty ELSE << >>)
  IN /\ lines # << >> /\ line = Head(lines)
     /\ IF stdio # << >> \/ pipe
          THEN /\ stdio' = Tail(lines)
               /\ tty' = IF stdio = << >> THEN << >> ELSE tty
          ELSE /\ tty' = Tail(tty)
               /\ UNCHANGED stdio
     /\ UNCHANGED <<eof, typed>>
FgetsNull == stdio = << >> /\ tty = << >> /\ eof /\ UNCHANGED userVars

Readable == inbox > 0 \/ conn # "up"
ReadData == inbox > 0 /\ inbox' = 0 /\ UNCHANGED <<toServer, conn>>
ReadEnd == inbox = 0 /\ conn \in {"fin", "broken"} /\ UNCHANGED netVars
ReadError ==
  inbox = 0 /\ conn = "rst" /\ conn' = "broken" /\ UNCHANGED <<toServer, inbox>>

\* A write waits for room.  What is written after the server has closed is
\* lost, and may be answered with a reset before the next write.
Write(line) ==
  /\ \/ /\ conn = "up" /\ Len(toServer) < Cap
        /\ toServer' = Append(toServer, line)
        /\ UNCHANGED conn
     \/ conn = "fin" /\ conn' \in {"fin", "broken"} /\ UNCHANGED toServer
     \/ conn = "rst" /\ conn' = "broken" /\ UNCHANGED toServer
  /\ UNCHANGED inbox
SigPipe == conn = "broken" /\ UNCHANGED netVars

----------------------------------------------------------------------------
(* The server. *)

Nonblocking == kind \in {"epoll", "threads"}

Closes(rest) == conn' = IF rest = << >> THEN "fin" ELSE "rst"

\* Only a lone "exit" is one.  A message of the thread client fills the buffer
\* of its server, so that no second one is read with it.
ServerReads ==
  /\ srv = "serve" /\ conn = "up" /\ ~(kind = "select" /\ pending)
  /\ \E n \in 1..(IF kind = "threads" /\ toServer # << >> THEN 1 ELSE Len(toServer)) :
       LET chunk == SubSeq(toServer, 1, n)
           rest == SubSeq(toServer, n + 1, Len(toServer))
       IN /\ toServer' = rest
          /\ received' = received \o chunk
          /\ glued' = (glued \/ (n > 1 /\ \E m \in 1..n : chunk[m] = "exit"))
          /\ IF chunk # <<"exit">>
               THEN UNCHANGED <<srv, conn>>
               ELSE IF kind = "processes"
                 THEN srv' = "reply" /\ UNCHANGED conn
                 ELSE Closes(rest) /\ UNCHANGED srv
  /\ UNCHANGED <<inbox, pending, casts>>

Replies ==
  /\ srv = "reply" /\ conn = "up" /\ inbox < Cap
  /\ srv' = "gone"
  /\ inbox' = inbox + 1
  /\ UNCHANGED <<toServer, conn, pending, casts, received, glued>>

\* Another client says something.
OthersSpeak ==
  /\ conn = "up" /\ ~pending /\ casts < MaxCasts
  /\ pending' = TRUE
  /\ casts' = casts + 1
  /\ UNCHANGED <<netVars, srv, received, glued>>

\* It is written to this client, or lost for want of room.
Casts ==
  /\ conn = "up" /\ pending
  /\ \/ inbox < Cap /\ inbox' = inbox + 1
     \/ inbox = Cap /\ Nonblocking /\ UNCHANGED inbox
  /\ pending' = FALSE
  /\ UNCHANGED <<toServer, conn, srv, casts, received, glued>>

\* SIGINT stops the server, unless its one thread hangs in a write.
ServerStops ==
  /\ conn = "up" /\ ~(kind = "select" /\ pending)
  /\ Closes(toServer)
  /\ UNCHANGED <<toServer, inbox, serverVars>>

ServerWorks == (ServerReads \/ Replies) /\ UNCHANGED <<kind, pipe, userVars>>
OthersWork == Casts /\ UNCHANGED <<kind, pipe, userVars>>
OthersAct == (OthersSpeak \/ ServerStops) /\ UNCHANGED <<kind, pipe, userVars>>
=============================================================================
