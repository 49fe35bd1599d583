---------------------------- MODULE Transcripts ----------------------------
(***************************************************************************)
(* The vocabulary shared by the chat servers and by the abstract room they *)
(* implement: what a client can send, what one read(2) returns, and what a *)
(* client has been written so far (its transcript).                        *)
(*                                                                         *)
(* A text is compared by the servers only with "exit" and "report", so any *)
(* other line typed at a client is a member of the set Text.               *)
(***************************************************************************)
EXTENDS Naturals, Sequences

CONSTANTS Conn,      \* client processes; each connects at most once
          Text,      \* lines of text other than the two commands
          MaxChunk   \* BUFFER_SIZE, counted in messages

ASSUME TranscriptAssumption ==
  /\ Text \cap {"exit", "report"} = {}
  /\ MaxChunk \in Nat \ {0}
  /\ "server" \notin Conn

Message == Text \cup {"exit", "report"}

\* One read(2) returns the bytes of one or more messages: TCP keeps no
\* boundary between them, so strcmp sees them glued together.
Chunk == UNION {[1..n -> Message] : n \in 1..MaxChunk}

\* What was written to a client: who said it, and which bytes.
Announcement == [from |-> "server", said |-> <<"server report">>]
Entry == [from : Conn, said : Chunk] \cup {Announcement}

\* A transcript after one more write.  A server that reports every five
\* seconds would make it grow for ever: announcements in a row count as one.
Hear(transcript, entry) ==
  IF entry = Announcement /\ transcript # << >>
       /\ transcript[Len(transcript)] = Announcement
    THEN transcript
    ELSE Append(transcript, entry)
=============================================================================
