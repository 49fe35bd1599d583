--------------------------- MODULE ProcessClient ---------------------------
(***************************************************************************)
(* simple_socket/client.c: the parent (reader) receives, the child         *)
(* (writer) sends; *left_flag is in memory they share.  Each has the       *)
(* socket open, and closes it by ending.                                   *)
(***************************************************************************)
EXTENDS ThreadClient

VARIABLE early   \* history: the parent went back to read, with the server's
                 \* reply behind it, just before the child set *left_flag

\* The sending loop of the child is that of send_handler.
Child ==
  \/ TestFlag("end") \/ NextLine \/ WriteLine \/ SetFlag("end")
  \/ /\ writer = "write" /\ SigPipe
     /\ writer' = "end"
     /\ UNCHANGED <<reader, left_flag, rset, send_buff, userVars>>

\* The parent looks at the flag only between two reads.
Parent ==
  /\ \/ /\ reader = "test"
        /\ reader' = IF left_flag THEN "end" ELSE "recv"
        /\ early' = (early \/ (/\ ~left_flag /\ writer = "set"
                               /\ srv = "gone" /\ inbox = 0))
        /\ UNCHANGED <<left_flag, netVars>>
     \/ /\ reader = "recv" /\ ReadData
        /\ reader' = "test"
        /\ UNCHANGED <<left_flag, early>>
     \/ /\ reader = "recv" /\ (ReadEnd \/ ReadError)
        /\ left_flag' = TRUE
        /\ reader' = "end"
        /\ UNCHANGED early
  /\ UNCHANGED <<writer, rset, send_buff, userVars>>
=============================================================================
