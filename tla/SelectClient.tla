---------------------------- MODULE SelectClient ----------------------------
(***************************************************************************)
(* socket_with_select/client.c, of which epoll_socket has a copy without   *)
(* the signal handler: one loop waits for the server and for stdin.        *)
(*                                                                         *)
(* writer: "select"  about to wait, or waiting     (client.c:34)           *)
(*         "read"    the connection is in rset     (client.c:49)           *)
(*         "fgets"   stdin is                      (client.c:71)           *)
(*         "write"   a line is to be sent          (client.c:81)           *)
(*         "end"     the process has ended                                 *)
(* reader is for the clients that have a second thread or process; here it *)
(* has ended from the start.                                               *)
(***************************************************************************)
EXTENDS ClientWorld

VARIABLES reader, writer, left_flag,
          rset,       \* select has found stdin readable
          send_buff   \* the line to be sent

clientVars == <<reader, writer, left_flag, rset, send_buff>>

Leave ==
  /\ left_flag' = TRUE
  /\ writer' = "end"
  /\ UNCHANGED <<reader, rset, send_buff>>

SelectStdin ==  \* mutant: FD_SET(connfd) before the loop
  /\ writer = "select" /\ Input
  /\ rset' = TRUE
  /\ writer' = "fgets"
  /\ UNCHANGED <<reader, left_flag, send_buff, userVars, netVars>>
SelectServer ==  \* mutant: FD_SET(fileno(fp)) before the loop
  /\ writer = "select" /\ Readable
  /\ rset' = FALSE
  /\ writer' = "read"
  /\ UNCHANGED <<reader, left_flag, send_buff, userVars, netVars>>
SelectAny ==  \* mutant: fgets without FD_ISSET(fileno(fp))
  /\ writer = "select" /\ (Readable \/ Input)
  /\ rset' = TRUE
  /\ writer' = IF Readable THEN "read" ELSE "fgets"
  /\ UNCHANGED <<reader, left_flag, send_buff, userVars, netVars>>
\* Both are asked about in every round.
Select ==
  /\ writer = "select" /\ (Readable \/ Input)
  /\ rset' = Input
  /\ writer' = IF Readable THEN "read" ELSE "fgets"
  /\ UNCHANGED <<reader, left_flag, send_buff, userVars, netVars>>

\* Whatever has come is shown; an end or an error is the end.
Receive ==
  /\ writer = "read"
  /\ \/ /\ ReadData
        /\ writer' = IF rset THEN "fgets" ELSE "select"
        /\ UNCHANGED <<reader, left_flag, rset, send_buff>>
     \/ (ReadEnd \/ ReadError) /\ Leave
  /\ UNCHANGED userVars

\* One line a round, though stdio may have taken more of them.
ReadLine ==
  /\ writer = "fgets"
  /\ \/ \E line \in Line :
          /\ Fgets(line)
          /\ send_buff' = line
          /\ writer' = "write"
          /\ UNCHANGED <<reader, left_flag, rset>>
     \/ FgetsNull /\ Leave
  /\ UNCHANGED netVars

SendAndStay ==  \* mutant: "exit" is sent, and the loop goes on
  /\ writer = "write" /\ Write(send_buff)
  /\ writer' = "select" /\ rset' = FALSE /\ send_buff' = ""
  /\ UNCHANGED <<reader, left_flag, userVars>>
SendLine ==
  /\ writer = "write"
  /\ \/ /\ Write(send_buff)
        /\ IF send_buff = "exit"
             THEN Leave
             ELSE /\ writer' = "select" /\ rset' = FALSE /\ send_buff' = ""
                  /\ UNCHANGED <<reader, left_flag>>
     \/ SigPipe /\ Leave
  /\ UNCHANGED userVars

send_and_recv ==
  /\ Select \/ Receive \/ ReadLine \/ SendLine
  /\ UNCHANGED <<kind, pipe, serverVars>>
=============================================================================
