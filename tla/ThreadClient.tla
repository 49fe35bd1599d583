---------------------------- MODULE ThreadClient ----------------------------
(***************************************************************************)
(* pthread_socket/client.c: a thread that receives, a thread that sends,   *)
(* and main, which joins the sending thread only and then closes and       *)
(* returns, whatever the receiving thread does.                            *)
(*                                                                         *)
(* reader: "test"   while (!flag)   (client.c:24)    "recv"  in recv       *)
(* writer: "test"   while (!flag)   (client.c:45)    "fgets" in fgets      *)
(*         "write"  a line is to be sent   "set"  it was "exit"            *)
(*         "join"   the thread has ended, and main goes on                 *)
(* flag is left_flag here.                                                 *)
(***************************************************************************)
EXTENDS SelectClient

\* Another "exit" than by returning from main: all threads end.
Killed == writer' = "end" /\ reader' = "end" /\ UNCHANGED <<left_flag, rset, send_buff>>

recv_handler ==
  /\ \/ /\ reader = "test"
        /\ reader' = IF left_flag THEN "end" ELSE "recv"
        /\ UNCHANGED <<left_flag, netVars>>
     \/ /\ reader = "recv" /\ (ReadData \/ ReadError)
        /\ reader' = "test"
        /\ UNCHANGED left_flag
     \/ /\ reader = "recv" /\ ReadEnd
        /\ left_flag' = TRUE
        /\ reader' = "end"
  /\ UNCHANGED <<writer, rset, send_buff, userVars>>

\* fgets: at the end of the input the flag is set, and tested next.
NextLine ==
  /\ writer = "fgets"
  /\ \/ \E line \in Line : /\ Fgets(line)
                           /\ send_buff' = line
                           /\ writer' = "write"
                           /\ UNCHANGED left_flag
     \/ /\ FgetsNull
        /\ left_flag' = TRUE
        /\ writer' = "test"
        /\ UNCHANGED send_buff
  /\ UNCHANGED <<reader, rset, netVars>>

TestFlag(out) ==
  /\ writer = "test"
  /\ writer' = IF left_flag THEN out ELSE "fgets"
  /\ UNCHANGED <<reader, left_flag, rset, send_buff, userVars, netVars>>

SetNothing(out) ==  \* mutant: break without the flag
  /\ writer = "set"
  /\ writer' = out
  /\ UNCHANGED <<reader, left_flag, rset, send_buff, userVars, netVars>>
\* "exit" is sent first, and the flag is set after it.
SetFlag(out) ==
  /\ writer = "set"
  /\ left_flag' = TRUE
  /\ writer' = out
  /\ UNCHANGED <<reader, rset, send_buff, userVars, netVars>>

WriteLine ==
  /\ writer = "write" /\ Write(send_buff)
  /\ writer' = IF send_buff = "exit" THEN "set" ELSE "test"
  /\ send_buff' = ""
  /\ UNCHANGED <<reader, left_flag, rset, userVars>>

send_handler ==
  \/ TestFlag("join") \/ NextLine \/ WriteLine \/ SetFlag("join")
  \/ writer = "write" /\ SigPipe /\ Killed /\ UNCHANGED userVars

JoinsBoth ==  \* mutant: pthread_join(recv_handler_t) as well
  /\ writer = "join" /\ reader = "end"
  /\ writer' = "end"
  /\ UNCHANGED <<reader, left_flag, rset, send_buff, userVars, netVars>>
\* main: joins the sender, closes and returns.
Joins ==
  /\ writer = "join" /\ Killed
  /\ UNCHANGED <<userVars, netVars>>
=============================================================================
