------------------------- MODULE ChatClients_proofs -------------------------
(***************************************************************************)
(* What a user types at one of the four clients arrives at the server line *)
(* by line, in order, once, and up to the first "exit": for buffers of any *)
(* size and any number of lines.  A step does one of three things to the   *)
(* line of lines from the keyboard to the server: nothing, or a line more  *)
(* is typed, or one passes from the writer's hand into the connection; and *)
(* each of them keeps Inv.                                                 *)
(***************************************************************************)
EXTENDS ChatClients, Integers, TLAPS, SequenceTheorems

----------------------------------------------------------------------------
(* Sequences that are taken apart and put together. *)

\* A sequence is its head and its tail.
LEMMA HeadFirst ==
  ASSUME NEW S, NEW s \in Seq(S), s # << >>
  PROVE  /\ Head(s) \in S /\ Tail(s) \in Seq(S)
         /\ <<Head(s)>> \o Tail(s) = s
<1> DEFINE h == <<Head(s)>>
           t == Tail(s)
<1>1. /\ Head(s) \in S /\ t \in Seq(S) /\ Len(t) = Len(s) - 1
      /\ \A i \in 1..Len(t) : t[i] = s[i + 1]
  BY HeadTailProperties
<1>2. h \in Seq(S) /\ Len(h) = 1 /\ h[1] = s[1] /\ Len(s) \in Nat \ {0}
  BY <1>1, EmptySeq
<1> HIDE DEF h, t
<1>3. /\ h \o t \in Seq(S) /\ Len(h \o t) = Len(s)
      /\ \A i \in 1..Len(s) : (h \o t)[i] = IF i <= 1 THEN h[i] ELSE t[i - 1]
  <2>1. Len(h) + Len(t) = Len(s) /\ Len(h) = 1
    BY <1>1, <1>2
  <2>2. /\ h \o t \in Seq(S) /\ Len(h \o t) = Len(h) + Len(t)
        /\ \A i \in 1..(Len(h) + Len(t)) :
             (h \o t)[i] = IF i <= Len(h) THEN h[i] ELSE t[i - Len(h)]
    BY <1>1, <1>2, ConcatProperties, Zenon
  <2> QED BY <2>1, <2>2
<1>4. \A i \in 1..Len(s) : (h \o t)[i] = s[i]
  <2> TAKE i \in 1..Len(s)
  <2>1. CASE i = 1
    BY <1>2, <1>3, <2>1
  <2>2. CASE i # 1
    <3>1. i - 1 \in 1..Len(t) /\ (i - 1) + 1 = i /\ ~(i <= 1)
      BY <1>1, <1>2, <2>2
    <3>2. t[i - 1] = s[i]
      BY <1>1, <3>1
    <3> QED BY <1>3, <3>1, <3>2
  <2> QED BY <2>1, <2>2
<1>5. h \o t = s
  BY <1>3, <1>4, SeqEqual
<1> QED BY <1>1, <1>5 DEF h, t

\* A sequence is its first n elements and the others.
LEMMA TakenApart ==
  ASSUME NEW S, NEW s \in Seq(S), NEW n \in 0..Len(s)
  PROVE  /\ SubSeq(s, 1, n) \in Seq(S)
         /\ SubSeq(s, n + 1, Len(s)) \in Seq(S)
         /\ Len(SubSeq(s, n + 1, Len(s))) = Len(s) - n
         /\ SubSeq(s, 1, n) \o SubSeq(s, n + 1, Len(s)) = s
<1>1. /\ Len(s) \in Nat /\ \A i \in 1..Len(s) : s[i] \in S
      /\ 1 \in Int /\ n \in Int /\ n + 1 \in Int /\ Len(s) \in Int
  BY ElementOfSeq
<1>2. /\ \A i \in 1..n : s[i] \in S
      /\ \A i \in (n + 1)..Len(s) : s[i] \in S
  BY <1>1
<1>3. SubSeq(s, 1, n) \in Seq(S)
  BY <1>1, <1>2, SubSeqProperties
<1>4. /\ SubSeq(s, n + 1, Len(s)) \in Seq(S)
      /\ Len(SubSeq(s, n + 1, Len(s)))
           = IF n + 1 <= Len(s) THEN Len(s) - (n + 1) + 1 ELSE 0
  BY <1>1, <1>2, SubSeqProperties
<1>5. /\ 1 \in 1..(Len(s) + 1) /\ n \in (1 - 1)..Len(s)
      /\ Len(s) \in n..Len(s)
  BY <1>1
<1>6. SubSeq(s, 1, n) \o SubSeq(s, n + 1, Len(s)) = SubSeq(s, 1, Len(s))
  BY <1>5, ConcatAdjacentSubSeq
<1>7. Len(SubSeq(s, n + 1, Len(s))) = Len(s) - n
  BY <1>1, <1>4
<1>8. SubSeq(s, 1, Len(s)) = s
  BY SubSeqFull
<1> QED BY <1>3, <1>4, <1>6, <1>7, <1>8

\* What it means that one sequence begins with the other.
LEMMA BeginsWith ==
  ASSUME NEW S, NEW s \in Seq(S), NEW t \in Seq(S), Len(s) <= Len(t)
  PROVE  s = SubSeq(t, 1, Len(s)) <=> \A n \in 1..Len(s) : s[n] = t[n]
<1> DEFINE part == SubSeq(t, 1, Len(s))
<1>1. /\ Len(s) \in Nat /\ Len(t) \in Nat
      /\ 1 \in Int /\ Len(s) \in Int /\ \A i \in 1..Len(s) : t[i] \in S
  BY ElementOfSeq
<1>2. /\ part \in Seq(S)
      /\ Len(part) = IF 1 <= Len(s) THEN Len(s) - 1 + 1 ELSE 0
      /\ \A i \in 1..(Len(s) - 1 + 1) : part[i] = t[1 + i - 1]
  BY <1>1, SubSeqProperties
<1> HIDE DEF part
<1>3. Len(part) = Len(s)
  BY <1>1, <1>2
<1>4. \A i \in 1..Len(s) : part[i] = t[i]
  <2> TAKE i \in 1..Len(s)
  <2>1. i \in 1..(Len(s) - 1 + 1) /\ 1 + i - 1 = i
    BY <1>1
  <2> QED BY <1>2, <2>1
<1>5. (\A n \in 1..Len(s) : s[n] = t[n]) => s = part
  <2> SUFFICES ASSUME \A n \in 1..Len(s) : s[n] = t[n] PROVE s = part
    OBVIOUS
  <2>1. \A n \in 1..Len(s) : s[n] = part[n]
    BY <1>4
  <2> QED BY <1>2, <1>3, <2>1, SeqEqual
<1> QED BY <1>4, <1>5 DEF part

----------------------------------------------------------------------------
(* What a step can do to the line of lines. *)

Lines == SentInOrder /\ LinesKept /\ ExitIsLast
OutOfLoop == {"set", "join", "end"}

OfLines ==
  /\ {received, toServer, stdio, tty, typed} \subseteq Seq(Line)
  /\ Sent \in Seq(Line) /\ Coming \in Seq(Line)
  /\ InHand \in Seq(Line) /\ stdio \o tty \in Seq(Line)

\* Lines are in all places along the way.
LEMMA LineTypes == TypeOK => OfLines
<1> SUFFICES ASSUME TypeOK PROVE OfLines
  OBVIOUS
<1>1. {received, toServer, stdio, tty, typed} \subseteq Seq(Line)
  BY DEF TypeOK, WorldTypeOK
<1>2. Sent \in Seq(Line) /\ stdio \o tty \in Seq(Line)
  BY <1>1, ConcatProperties DEF Sent
<1>3. InHand \in Seq(Line)
  <2>1. writer = "write" => send_buff \in Line
    BY DEF TypeOK
  <2>2. \A line \in Line : <<line>> \in Seq(Line)
    OBVIOUS
  <2> QED BY <2>1, <2>2 DEF InHand
<1>4. Coming \in Seq(Line)
  BY <1>2, <1>3, ConcatProperties DEF Coming
<1> QED BY <1>1, <1>2, <1>3, <1>4 DEF OfLines

\* And after a step.
LEMMA LineTypesNext == TypeOK' => OfLines'
BY LineTypes, PTL

\* Nothing is sent and nothing typed; a writer that is out of its loop stays out.
LEMMA LinesQuiet ==
  ASSUME Lines, UNCHANGED <<Sent, typed>>,
         conn' = "up" => conn = "up" /\ UNCHANGED Coming,
         writer \in OutOfLoop => writer' \in OutOfLoop
  PROVE  Lines'
<1>1. SentInOrder'
  BY DEF Lines, SentInOrder
<1>2. LinesKept'
  BY DEF Lines, LinesKept
<1>3. ExitIsLast'
  BY DEF Lines, ExitIsLast, Said, OutOfLoop
<1> QED BY <1>1, <1>2, <1>3 DEF Lines

\* The user types a line more.
LEMMA LineTyped ==
  ASSUME Lines, TypeOK, NEW line \in Line, UNCHANGED <<Sent, conn, writer>>,
         typed' = Append(typed, line), Coming' = Append(Coming, line)
  PROVE  Lines'
<1>1. typed \in Seq(Line) /\ Sent \in Seq(Line) /\ Coming \in Seq(Line)
  BY LineTypes DEF OfLines
<1>2. SentInOrder'
  <2>1. /\ Len(Sent) \in Nat /\ Len(typed) \in Nat /\ typed' \in Seq(Line)
        /\ Len(typed') = Len(typed) + 1
        /\ \A n \in 1..Len(typed) : typed'[n] = typed[n]
    BY <1>1, AppendProperties
  <2>2. Len(Sent) <= Len(typed) /\ \A n \in 1..Len(Sent) : Sent[n] = typed[n]
    BY <1>1, BeginsWith DEF Lines, SentInOrder
  <2>3. Len(Sent) <= Len(typed') /\ \A n \in 1..Len(Sent) : Sent[n] = typed'[n]
    BY <2>1, <2>2
  <2>4. Sent = SubSeq(typed', 1, Len(Sent))
    BY <1>1, <2>1, <2>3, BeginsWith
  <2> QED BY <2>3, <2>4 DEF Lines, SentInOrder
<1>3. LinesKept'
  <2>1. Sent \o Append(Coming, line) = Append(Sent \o Coming, line)
    <3>1. /\ Append(Coming, line) = Coming \o <<line>> /\ <<line>> \in Seq(Line)
          /\ Sent \o Coming \in Seq(Line)
      BY <1>1, AppendIsConcat, ConcatProperties
    <3>2. Append(Sent \o Coming, line) = (Sent \o Coming) \o <<line>>
      BY <3>1, AppendIsConcat
    <3>3. (Sent \o Coming) \o <<line>> = Sent \o (Coming \o <<line>>)
      BY <1>1, <3>1, ConcatAssociative
    <3> QED BY <3>1, <3>2, <3>3
  <2> QED BY <2>1 DEF Lines, LinesKept
<1>4. ExitIsLast'
  BY DEF Lines, ExitIsLast, Said
<1> QED BY <1>2, <1>3, <1>4 DEF Lines

\* The writer sends the line it has in its hand.
LEMMA LineSent ==
  ASSUME Lines, TypeOK, TypeOK', NEW line \in Line,
         conn = "up", writer = "write", UNCHANGED typed,
         Sent' = Append(Sent, line), Coming = <<line>> \o Coming',
         line = "exit" => writer' \in OutOfLoop
  PROVE  Lines'
<1>1. /\ typed \in Seq(Line) /\ Sent \in Seq(Line) /\ Coming \in Seq(Line)
      /\ Coming' \in Seq(Line) /\ <<line>> \in Seq(Line)
  BY LineTypes, LineTypesNext DEF OfLines
<1>2. /\ Sent' \in Seq(Line) /\ Len(Sent) \in Nat
      /\ Len(Sent') = Len(Sent) + 1 /\ Sent'[Len(Sent) + 1] = line
      /\ \A n \in 1..Len(Sent) : Sent'[n] = Sent[n]
  BY <1>1, AppendProperties
<1>3. typed = Sent' \o Coming'
  <2>1. typed = Sent \o (<<line>> \o Coming')
    BY DEF Lines, LinesKept
  <2>2. Sent \o (<<line>> \o Coming') = (Sent \o <<line>>) \o Coming'
    BY <1>1, ConcatAssociative
  <2>3. Sent \o <<line>> = Sent'
    BY <1>1, AppendIsConcat
  <2> QED BY <2>1, <2>2, <2>3
<1>4. \A n \in 1..Len(Sent) : Sent[n] # "exit"
  <2>1. ~Said(Sent)
    BY DEF Lines, ExitIsLast
  <2>2. DOMAIN Sent = 1..Len(Sent)
    BY <1>1, LenProperties
  <2> QED BY <2>1, <2>2 DEF Said
<1>5. SentInOrder'
  <2>1. /\ Len(typed) = Len(Sent') + Len(Coming') /\ Len(Coming') \in Nat
        /\ \A n \in 1..(Len(Sent') + Len(Coming')) :
             typed[n] = IF n <= Len(Sent') THEN Sent'[n]
                                           ELSE Coming'[n - Len(Sent')]
    BY <1>1, <1>2, <1>3, ConcatProperties, LenProperties
  <2>2. Len(Sent') <= Len(typed) /\ \A n \in 1..Len(Sent') : Sent'[n] = typed[n]
    BY <1>2, <2>1
  <2>3. Sent' = SubSeq(typed, 1, Len(Sent'))
    BY <1>1, <1>2, <2>2, BeginsWith
  <2>4. \A n \in 1..(Len(Sent') - 1) : Sent'[n] # "exit"
    BY <1>2, <1>4
  <2> QED BY <2>2, <2>3, <2>4 DEF SentInOrder
<1>6. ExitIsLast'
  <2>1. DOMAIN Sent' = 1..Len(Sent')
    BY <1>2, LenProperties
  <2>2. Said(Sent)' => line = "exit"
    BY <1>2, <1>4, <2>1 DEF Said
  <2> QED BY <2>2 DEF ExitIsLast, OutOfLoop
<1> QED BY <1>3, <1>5, <1>6 DEF Lines, LinesKept

----------------------------------------------------------------------------
(* The type invariant, in the parts that a step leaves alone or not. *)

UserOK ==
  /\ {tty, stdio, typed} \subseteq Seq(Line) /\ eof \in BOOLEAN
  /\ ~pipe => stdio = << >>
NetOK ==
  /\ toServer \in Seq(Line) /\ Len(toServer) <= Cap
  /\ inbox \in 0..Cap
  /\ conn \in {"up", "fin", "rst", "broken"}
ServerOK ==
  /\ srv \in {"serve", "reply", "gone"} /\ pending \in BOOLEAN
  /\ srv # "serve" => kind = "processes" /\ received[Len(received)] = "exit"
  /\ casts \in 0..MaxCasts
  /\ received \in Seq(Line) /\ glued \in BOOLEAN
FlagsOK == left_flag \in BOOLEAN /\ rset \in BOOLEAN /\ early \in BOOLEAN
OneLoop == kind \in {"select", "epoll"}
PlaceOK ==
  /\ reader \in {"test", "recv", "end"}
  /\ writer \in {"select", "read", "fgets", "write", "test", "set", "join", "end"}
  /\ OneLoop => reader = "end" /\ writer \notin {"test", "set", "join"}
  /\ writer = "join" => kind = "threads"
  /\ send_buff \in Line \cup {""} /\ (writer = "write" => send_buff \in Line)
  /\ OneLoop /\ writer = "fgets" => ~Waiting

\* The parts are the whole.
LEMMA TypeParts ==
  Inv <=> /\ kind \in Kinds /\ pipe \in BOOLEAN
          /\ UserOK /\ NetOK /\ ServerOK /\ FlagsOK /\ PlaceOK
          /\ Lines /\ StdinHolds
BY DEF Inv, TypeOK, WorldTypeOK, UserOK, NetOK, ServerOK, FlagsOK, PlaceOK,
       OneLoop, Lines

\* And after a step.
LEMMA TypePartsNext ==
  Inv' <=> /\ kind' \in Kinds /\ pipe' \in BOOLEAN
           /\ UserOK' /\ NetOK' /\ ServerOK' /\ FlagsOK' /\ PlaceOK'
           /\ Lines' /\ StdinHolds'
BY DEF Inv, TypeOK, WorldTypeOK, UserOK, NetOK, ServerOK, FlagsOK, PlaceOK,
       OneLoop, Lines

\* The types alone, for the lemmas on lines.
LEMMA TypeFromParts ==
  ASSUME kind' \in Kinds, pipe' \in BOOLEAN,
         UserOK', NetOK', ServerOK', FlagsOK', PlaceOK'
  PROVE  TypeOK'
BY DEF TypeOK, WorldTypeOK, UserOK, NetOK, ServerOK, FlagsOK, PlaceOK, OneLoop

----------------------------------------------------------------------------
(* What the client's calls do. *)

\* fgets takes the first line there is, and none is lost: what a read from a
\* pipe brings in addition stays in stdio (client.c:71).
LEMMA FgetsTakes ==
  ASSUME UserOK, pipe' = pipe, NEW line \in Line, Fgets(line),
         writer # "write", writer' = "write", send_buff' = line
  PROVE  UserOK' /\ UNCHANGED typed /\ Coming' = Coming
<1> DEFINE lines == stdio \o (IF stdio = << >> THEN tty ELSE << >>)
<1>1. /\ stdio \in Seq(Line) /\ tty \in Seq(Line) /\ typed \in Seq(Line)
      /\ << >> \in Seq(Line) /\ <<line>> \in Seq(Line)
  BY DEF UserOK
<1>2. /\ stdio = << >> => lines = tty /\ stdio \o tty = tty
      /\ stdio # << >> => lines = stdio
      /\ Coming = stdio \o tty
  <2>1. stdio \o tty \in Seq(Line)
    BY <1>1, ConcatProperties
  <2> QED BY <1>1, <2>1, ConcatEmptySeq DEF InHand, Coming
<1>3. /\ lines # << >> /\ line = Head(lines)
      /\ IF stdio # << >> \/ pipe
           THEN /\ stdio' = Tail(lines)
                /\ tty' = IF stdio = << >> THEN << >> ELSE tty
           ELSE tty' = Tail(tty) /\ UNCHANGED stdio
      /\ UNCHANGED <<eof, typed>>
  BY DEF Fgets
<1> HIDE DEF lines
<1>4. Coming' = <<line>> \o (stdio' \o tty')
  BY DEF Coming, InHand
<1>5. CASE stdio # << >>
  <2>1. /\ Tail(stdio) \in Seq(Line) /\ <<line>> \o Tail(stdio) = stdio
        /\ stdio' = Tail(stdio) /\ tty' = tty
    BY <1>1, <1>2, <1>3, <1>5, HeadFirst
  <2>2. <<line>> \o (Tail(stdio) \o tty) = (<<line>> \o Tail(stdio)) \o tty
    BY <1>1, <2>1, ConcatAssociative
  <2>3. Coming' = Coming
    BY <1>2, <1>4, <2>1, <2>2
  <2> QED BY <1>1, <1>3, <1>5, <2>1, <2>3 DEF UserOK
<1>6. CASE stdio = << >>
  <2>1. Tail(tty) \in Seq(Line) /\ <<line>> \o Tail(tty) = tty
    BY <1>1, <1>2, <1>3, <1>6, HeadFirst
  <2>2. CASE pipe
    <3>1. stdio' = Tail(tty) /\ tty' = << >>
      BY <1>2, <1>3, <1>6, <2>2
    <3>2. Tail(tty) \o << >> = Tail(tty)
      BY <2>1, ConcatEmptySeq
    <3>3. Coming' = Coming
      BY <1>2, <1>4, <1>6, <2>1, <3>1, <3>2
    <3> QED BY <1>1, <1>3, <2>1, <2>2, <3>1, <3>3 DEF UserOK
  <2>3. CASE ~pipe
    <3>1. stdio' = << >> /\ tty' = Tail(tty)
      BY <1>3, <1>6, <2>3
    <3>2. << >> \o Tail(tty) = Tail(tty)
      BY <2>1, ConcatEmptySeq
    <3>3. Coming' = Coming
      BY <1>2, <1>4, <1>6, <2>1, <3>1, <3>2
    <3> QED BY <1>1, <1>3, <2>1, <3>1, <3>3 DEF UserOK
  <2> QED BY <2>2, <2>3
<1> QED BY <1>5, <1>6

\* What is read from the server changes nothing on the way to it.
LEMMA ReadsKeep ==
  ASSUME NetOK, ReadData \/ ReadEnd \/ ReadError
  PROVE  NetOK' /\ UNCHANGED toServer /\ (conn' = "up" => conn = "up")
BY ClientAssumption DEF NetOK, ReadData, ReadEnd, ReadError, netVars

\* A line is in the buffer behind the others, or the connection is not up
\* and it is lost.
LEMMA WriteSends ==
  ASSUME NetOK, ServerOK, UNCHANGED received, NEW line \in Line, Write(line)
  PROVE  /\ NetOK'
         /\ conn = "up" => Sent' = Append(Sent, line)
         /\ conn # "up" => conn' # "up" /\ UNCHANGED Sent
<1>1. toServer \in Seq(Line) /\ received \in Seq(Line) /\ <<line>> \in Seq(Line)
  BY DEF NetOK, ServerOK
<1>2. /\ Append(toServer, line) \in Seq(Line)
      /\ Len(Append(toServer, line)) = Len(toServer) + 1 /\ Len(toServer) \in Nat
  BY <1>1, AppendProperties
<1>3. NetOK'
  BY <1>2, ClientAssumption DEF NetOK, Write
<1>4. ASSUME conn = "up" PROVE Sent' = Append(Sent, line)
  <2>1. toServer' = Append(toServer, line) /\ UNCHANGED received
    BY <1>4 DEF Write
  <2>2. received \o toServer \in Seq(Line)
    BY <1>1, ConcatProperties
  <2>3. /\ Append(toServer, line) = toServer \o <<line>>
        /\ Append(received \o toServer, line) = (received \o toServer) \o <<line>>
    BY <1>1, <2>2, AppendIsConcat
  <2>4. (received \o toServer) \o <<line>> = received \o (toServer \o <<line>>)
    BY <1>1, ConcatAssociative
  <2> QED BY <2>1, <2>3, <2>4 DEF Sent
<1>5. conn # "up" => conn' # "up" /\ UNCHANGED Sent
  BY DEF Write, Sent
<1> QED BY <1>3, <1>4, <1>5

----------------------------------------------------------------------------
(* The client's steps: quiet ones, those that take a line and those that    *)
(* send it.                                                                 *)

\* A step that neither takes a line nor sends one.
LEMMA QuietKeeps ==
  ASSUME Inv, UNCHANGED <<kind, pipe, serverVars, userVars, toServer>>,
         NetOK', FlagsOK', PlaceOK', StdinHolds',
         conn' = "up" => conn = "up" /\ UNCHANGED InHand,
         writer \in OutOfLoop => writer' \in OutOfLoop
  PROVE  Inv'
<1>1. UserOK' /\ ServerOK'
  BY TypeParts DEF UserOK, ServerOK, userVars, serverVars
<1>2. UNCHANGED <<Sent, typed>> /\ (UNCHANGED InHand => UNCHANGED Coming)
  BY DEF Sent, Coming, userVars, serverVars
<1>3. Lines'
  BY <1>2, TypeParts, LinesQuiet
<1> QED BY <1>1, <1>3, TypeParts, TypePartsNext

\* A step that takes a line.
LEMMA TakenKeeps ==
  ASSUME Inv, UNCHANGED <<kind, pipe, serverVars, netVars>>,
         FlagsOK', PlaceOK', writer = "fgets", writer' = "write",
         NEW line \in Line, Fgets(line), send_buff' = line
  PROVE  Inv'
<1>1. UserOK' /\ UNCHANGED typed /\ Coming' = Coming
  BY TypeParts, FgetsTakes
<1>2. NetOK' /\ ServerOK' /\ UNCHANGED <<Sent, conn>>
  BY TypeParts DEF NetOK, ServerOK, Sent, netVars, serverVars
<1>3. Lines'
  BY <1>1, <1>2, TypeParts, LinesQuiet DEF OutOfLoop
<1>4. StdinHolds'
  BY DEF StdinHolds
<1> QED BY <1>1, <1>2, <1>3, <1>4, TypeParts, TypePartsNext

\* A step that sends a line, or tries to.
LEMMA SentKeeps ==
  ASSUME Inv, UNCHANGED <<kind, pipe, serverVars, userVars>>,
         FlagsOK', PlaceOK', writer = "write", Write(send_buff),
         writer' \notin {"write", "read"},
         send_buff = "exit" => writer' \in OutOfLoop
  PROVE  Inv'
<1>1. send_buff \in Line /\ TypeOK
  BY TypeParts DEF PlaceOK, Inv
<1>2. UserOK' /\ ServerOK' /\ UNCHANGED <<received, typed, stdio, tty>>
  BY TypeParts DEF UserOK, ServerOK, userVars, serverVars
<1>3. /\ NetOK'
      /\ conn = "up" => Sent' = Append(Sent, send_buff)
      /\ conn # "up" => conn' # "up" /\ UNCHANGED Sent
  BY <1>1, <1>2, TypeParts, WriteSends
<1>4. TypeOK'
  BY <1>2, <1>3, TypeParts, TypeFromParts
<1>5. CASE conn = "up"
  <2>1. stdio \o tty \in Seq(Line)
    BY <1>1, LineTypes DEF OfLines
  <2>2. Coming' = stdio \o tty
    BY <1>2, <2>1, ConcatEmptySeq DEF Coming, InHand
  <2>3. Coming = <<send_buff>> \o Coming'
    BY <2>2 DEF Coming, InHand
  <2>4. Lines'
    BY <1>1, <1>2, <1>3, <1>4, <1>5, <2>3, TypeParts, LineSent
  <2> QED BY <1>2, <1>3, <2>4, TypeParts, TypePartsNext DEF StdinHolds
<1>6. CASE conn # "up"
  <2>1. Lines'
    BY <1>2, <1>3, <1>6, TypeParts, LinesQuiet DEF OutOfLoop
  <2> QED BY <1>2, <1>3, <2>1, TypeParts, TypePartsNext DEF StdinHolds
<1> QED BY <1>5, <1>6

\* The clients with one loop (socket_with_select/client.c:34-100).
LEMMA LoopKeeps ==
  ASSUME Inv, kind \in {"select", "epoll"}, send_and_recv, UNCHANGED early
  PROVE  Inv'
<1>1. /\ FlagsOK /\ PlaceOK /\ NetOK /\ OneLoop
      /\ UNCHANGED <<kind, pipe, serverVars>> /\ OneLoop'
  BY TypeParts DEF OneLoop, send_and_recv
<1>2. CASE Select
  <2>1. FlagsOK'
    BY <1>1, <1>2 DEF FlagsOK, Select, Input
  <2>2. PlaceOK' /\ StdinHolds'
    BY <1>1, <1>2 DEF PlaceOK, StdinHolds, OneLoop, Select, Waiting, Input,
         userVars
  <2>3. NetOK' /\ UNCHANGED <<conn, toServer, InHand, userVars>>
    BY <1>1, <1>2 DEF NetOK, Select, InHand, netVars
  <2> QED BY <1>1, <1>2, <2>1, <2>2, <2>3, QuietKeeps DEF Select, OutOfLoop
<1>3. CASE Receive
  <2>1. NetOK' /\ UNCHANGED <<toServer, userVars>> /\ (conn' = "up" => conn = "up")
    BY <1>1, <1>3, ReadsKeep DEF Receive
  <2>2. FlagsOK' /\ writer = "read" /\ writer' \in {"fgets", "select", "end"}
    BY <1>1, <1>3 DEF FlagsOK, Receive, Leave
  <2>3. PlaceOK' /\ StdinHolds'
    <3>1. writer' = "fgets" => ~Waiting
      BY <1>1, <1>3, TypeParts DEF Receive, Leave, StdinHolds, OneLoop
    <3>2. Waiting' = Waiting
      BY <2>1 DEF Waiting, userVars
    <3>3. UNCHANGED <<reader, send_buff>>
      BY <1>3 DEF Receive, Leave
    <3> QED BY <1>1, <2>2, <3>1, <3>2, <3>3 DEF PlaceOK, StdinHolds, OneLoop
  <2> QED BY <1>1, <2>1, <2>2, <2>3, QuietKeeps DEF InHand, OutOfLoop
<1>4. CASE ReadLine
  <2>1. CASE FgetsNull /\ Leave
    <3>1. UNCHANGED <<userVars, netVars>> /\ writer = "fgets" /\ writer' = "end"
          /\ UNCHANGED <<reader, rset, send_buff>> /\ left_flag' = TRUE
      BY <1>4, <2>1 DEF ReadLine, FgetsNull, Leave
    <3>2. FlagsOK' /\ PlaceOK' /\ StdinHolds'
      BY <1>1, <3>1 DEF FlagsOK, PlaceOK, StdinHolds, OneLoop
    <3>3. NetOK' /\ UNCHANGED <<toServer, conn, InHand>>
      BY <1>1, <3>1 DEF NetOK, netVars, InHand
    <3> QED BY <1>1, <3>1, <3>2, <3>3, QuietKeeps DEF OutOfLoop
  <2>2. CASE \E line \in Line : /\ Fgets(line) /\ send_buff' = line
                                /\ writer' = "write"
                                /\ UNCHANGED <<reader, left_flag, rset>>
    <3>1. PICK line \in Line : /\ Fgets(line) /\ send_buff' = line
                               /\ writer' = "write"
                               /\ UNCHANGED <<reader, left_flag, rset>>
      BY <2>2
    <3>2. writer = "fgets" /\ UNCHANGED netVars
      BY <1>4 DEF ReadLine
    <3>3. FlagsOK' /\ PlaceOK'
      BY <1>1, <3>1 DEF FlagsOK, PlaceOK, OneLoop
    <3> QED BY <1>1, <3>1, <3>2, <3>3, TakenKeeps
  <2> QED BY <1>4, <2>1, <2>2 DEF ReadLine
<1>5. CASE SendLine
  <2>1. FlagsOK' /\ PlaceOK' /\ UNCHANGED userVars
    BY <1>1, <1>5 DEF FlagsOK, PlaceOK, OneLoop, SendLine, Leave
  <2>2. writer = "write" /\ writer' \in {"select", "end"}
    BY <1>5 DEF SendLine, Leave
  <2>3. CASE SigPipe /\ Leave
    <3>1. NetOK' /\ UNCHANGED toServer /\ conn' # "up"
      BY <1>1, <2>3 DEF SigPipe, NetOK, netVars
    <3> QED BY <1>1, <2>1, <2>2, <3>1, QuietKeeps DEF OutOfLoop, StdinHolds
  <2>4. CASE Write(send_buff) /\ (send_buff = "exit" => Leave)
    <3>1. send_buff = "exit" => writer' \in OutOfLoop
      BY <2>4 DEF Leave, OutOfLoop
    <3> QED BY <1>1, <2>1, <2>2, <2>4, <3>1, SentKeeps
  <2> QED BY <1>5, <2>3, <2>4 DEF SendLine
<1> QED BY <1>2, <1>3, <1>4, <1>5 DEF send_and_recv

\* The receiving thread or process of the other two clients: it sends nothing
\* (pthread_socket/client.c:24-37, simple_socket/client.c:67-84).
LEMMA ReaderKeeps ==
  ASSUME Inv, ReaderStep
  PROVE  Inv'
<1>1. /\ FlagsOK /\ PlaceOK /\ NetOK /\ ~OneLoop /\ ~OneLoop'
      /\ UNCHANGED <<kind, pipe, serverVars>>
  BY TypeParts DEF OneLoop, ReaderStep, ThreadStep, ProcessStep
<1>2. (recv_handler /\ UNCHANGED early) \/ Parent
  BY DEF ReaderStep, ThreadStep, ProcessStep
<1>3. UNCHANGED <<writer, rset, send_buff, userVars>>
  BY <1>2 DEF recv_handler, Parent
<1>4. UNCHANGED netVars \/ ReadData \/ ReadEnd \/ ReadError
  BY <1>2 DEF recv_handler, Parent
<1>5. NetOK' /\ UNCHANGED toServer /\ (conn' = "up" => conn = "up")
  <2>1. CASE UNCHANGED netVars
    BY <1>1, <2>1 DEF NetOK, netVars
  <2>2. CASE ReadData \/ ReadEnd \/ ReadError
    BY <1>1, <2>2, ReadsKeep
  <2> QED BY <1>4, <2>1, <2>2
<1>6. early' \in BOOLEAN /\ left_flag' \in BOOLEAN /\ reader' \in {"test", "recv", "end"}
  BY <1>1, <1>2 DEF FlagsOK, recv_handler, Parent
<1>7. FlagsOK' /\ PlaceOK' /\ StdinHolds'
  BY <1>1, <1>3, <1>6 DEF FlagsOK, PlaceOK, StdinHolds, OneLoop
<1> QED BY <1>1, <1>3, <1>5, <1>7, QuietKeeps DEF InHand

\* The sending thread or process: "exit" is followed by the flag, and by
\* nothing else that it sends (pthread_socket/client.c:45-62,
\* simple_socket/client.c:48-64).
LEMMA SenderKeeps ==
  ASSUME Inv, kind \in {"threads", "processes"},
         UNCHANGED <<kind, pipe, serverVars, early>>,
         NEW out \in {"join", "end"}, out = "join" => kind = "threads",
         TestFlag(out) \/ NextLine \/ WriteLine \/ SetFlag(out)
  PROVE  Inv'
<1>1. FlagsOK /\ PlaceOK /\ NetOK /\ ~OneLoop /\ ~OneLoop'
  BY TypeParts DEF OneLoop
<1>2. CASE TestFlag(out) \/ SetFlag(out)
  <2>1. /\ UNCHANGED <<reader, rset, send_buff, userVars, netVars>>
        /\ left_flag' \in {left_flag, TRUE}
        /\ writer \in {"test", "set"} /\ writer' \in {out, "fgets"}
        /\ writer = "set" => writer' = out
    BY <1>2 DEF TestFlag, SetFlag
  <2>2. FlagsOK' /\ PlaceOK' /\ StdinHolds'
    BY <1>1, <2>1 DEF FlagsOK, PlaceOK, StdinHolds, OneLoop
  <2>3. NetOK' /\ UNCHANGED <<toServer, conn, InHand>>
    BY <1>1, <2>1 DEF NetOK, netVars, InHand
  <2> QED BY <2>1, <2>2, <2>3, QuietKeeps DEF OutOfLoop
<1>3. CASE NextLine
  <2>1. writer = "fgets" /\ UNCHANGED <<reader, rset, netVars>>
    BY <1>3 DEF NextLine
  <2>2. CASE FgetsNull /\ left_flag' = TRUE /\ writer' = "test" /\ UNCHANGED send_buff
    <3>1. UNCHANGED userVars
      BY <2>2 DEF FgetsNull
    <3>2. FlagsOK' /\ PlaceOK' /\ StdinHolds'
      BY <1>1, <2>1, <2>2 DEF FlagsOK, PlaceOK, StdinHolds, OneLoop
    <3>3. NetOK' /\ UNCHANGED <<toServer, conn, InHand>>
      BY <1>1, <2>1, <2>2 DEF NetOK, netVars, InHand
    <3> QED BY <2>1, <3>1, <3>2, <3>3, QuietKeeps DEF OutOfLoop
  <2>3. CASE \E line \in Line : /\ Fgets(line) /\ send_buff' = line
                                /\ writer' = "write" /\ UNCHANGED left_flag
    <3>1. PICK line \in Line : /\ Fgets(line) /\ send_buff' = line
                               /\ writer' = "write" /\ UNCHANGED left_flag
      BY <2>3
    <3>2. FlagsOK' /\ PlaceOK'
      BY <1>1, <2>1, <3>1 DEF FlagsOK, PlaceOK, OneLoop
    <3> QED BY <2>1, <3>1, <3>2, TakenKeeps
  <2> QED BY <1>3, <2>2, <2>3 DEF NextLine
<1>4. CASE WriteLine
  <2>1. /\ writer = "write" /\ Write(send_buff) /\ writer' \in {"set", "test"}
        /\ send_buff = "exit" => writer' = "set"
        /\ send_buff' = "" /\ UNCHANGED <<reader, left_flag, rset, userVars>>
    BY <1>4 DEF WriteLine
  <2>2. FlagsOK' /\ PlaceOK'
    BY <1>1, <2>1 DEF FlagsOK, PlaceOK, OneLoop
  <2> QED BY <2>1, <2>2, SentKeeps DEF OutOfLoop
<1> QED BY <1>2, <1>3, <1>4

\* The ends of the sender: SIGPIPE, and main behind pthread_join.
LEMMA EndsKeep ==
  ASSUME Inv, kind \in {"threads", "processes"},
         UNCHANGED <<kind, pipe, serverVars, early, userVars, netVars>>,
         UNCHANGED <<left_flag, rset, send_buff>>,
         writer' = "end", reader' \in {reader, "end"},
         writer = "write" => conn # "up"
  PROVE  Inv'
<1>1. FlagsOK /\ PlaceOK /\ NetOK /\ ~OneLoop /\ ~OneLoop'
  BY TypeParts DEF OneLoop
<1>2. FlagsOK' /\ PlaceOK' /\ StdinHolds'
  BY <1>1 DEF FlagsOK, PlaceOK, StdinHolds, OneLoop
<1>3. NetOK' /\ UNCHANGED <<toServer, conn>>
  BY <1>1 DEF NetOK, netVars
<1>4. conn' = "up" => conn = "up" /\ UNCHANGED InHand
  BY <1>3 DEF InHand
<1> QED BY <1>2, <1>3, <1>4, QuietKeeps DEF OutOfLoop

\* All steps of the sending side, of whichever client.
LEMMA WriterKeeps ==
  ASSUME Inv, WriterStep
  PROVE  Inv'
<1>1. CASE SelectStep \/ EpollStep
  BY <1>1, LoopKeeps DEF SelectStep, EpollStep
<1>2. CASE ThreadStep(send_handler)
  <2>1. kind = "threads" /\ UNCHANGED <<kind, pipe, serverVars, early>>
    BY <1>2 DEF ThreadStep
  <2>2. CASE TestFlag("join") \/ NextLine \/ WriteLine \/ SetFlag("join")
    BY <2>1, <2>2, SenderKeeps
  <2>3. CASE writer = "write" /\ SigPipe /\ Killed /\ UNCHANGED userVars
    BY <2>1, <2>3, EndsKeep DEF SigPipe, Killed
  <2> QED BY <1>2, <2>2, <2>3 DEF ThreadStep, send_handler
<1>3. CASE ThreadStep(Joins)
  BY <1>3, EndsKeep DEF ThreadStep, Joins, Killed
<1>4. CASE ProcessStep(Child /\ UNCHANGED early)
  <2>1. kind = "processes" /\ UNCHANGED <<kind, pipe, serverVars, early>> /\ Child
    BY <1>4 DEF ProcessStep
  <2>2. CASE TestFlag("end") \/ NextLine \/ WriteLine \/ SetFlag("end")
    BY <2>1, <2>2, SenderKeeps
  <2>3. CASE /\ writer = "write" /\ SigPipe
             /\ writer' = "end"
             /\ UNCHANGED <<reader, left_flag, rset, send_buff, userVars>>
    BY <2>1, <2>3, EndsKeep DEF SigPipe
  <2> QED BY <2>1, <2>2, <2>3 DEF Child
<1> QED BY <1>1, <1>2, <1>3, <1>4 DEF WriterStep

----------------------------------------------------------------------------
(* The user and the server. *)

\* A line more is typed, or the input is ended.
LEMMA UserKeeps ==
  ASSUME Inv, UserStep, UNCHANGED <<clientVars, early>>
  PROVE  Inv'
<1>1. UserOK /\ PlaceOK /\ TypeOK /\ UNCHANGED <<kind, pipe, netVars, serverVars>>
  BY TypeParts DEF UserStep, Inv
<1>2. NetOK' /\ ServerOK' /\ FlagsOK' /\ UNCHANGED <<Sent, conn, writer, InHand>>
  BY <1>1, TypeParts DEF NetOK, ServerOK, FlagsOK, Sent, InHand, netVars,
       serverVars, clientVars
<1>3. CASE EndsInput
  <2>1. UNCHANGED <<tty, stdio, typed>> /\ eof' = TRUE
    BY <1>3 DEF EndsInput
  <2>2. UserOK'
    BY <1>1, <2>1 DEF UserOK
  <2>3. PlaceOK' /\ StdinHolds'
    BY <1>1, <2>1, TypeParts DEF PlaceOK, StdinHolds, OneLoop, Waiting, clientVars
  <2>4. Lines'
    BY <1>2, <2>1, TypeParts, LinesQuiet DEF Coming
  <2> QED BY <1>1, <1>2, <2>2, <2>3, <2>4, TypeParts, TypePartsNext
<1>4. CASE \E line \in Line : Types(line)
  <2>1. PICK line \in Line : Types(line)
    BY <1>4
  <2>2. /\ tty' = Append(tty, line) /\ typed' = Append(typed, line)
        /\ UNCHANGED <<stdio, eof>>
    BY <2>1 DEF Types
  <2>3. tty \in Seq(Line) /\ typed \in Seq(Line) /\ stdio \in Seq(Line)
    BY <1>1 DEF UserOK
  <2>4. UserOK' /\ tty' # << >>
    <3>1. tty' \in Seq(Line) /\ typed' \in Seq(Line) /\ tty' # << >>
      BY <2>2, <2>3, AppendProperties
    <3> QED BY <1>1, <2>2, <3>1 DEF UserOK
  <2>5. PlaceOK' /\ StdinHolds'
    BY <1>1, <2>4, TypeParts DEF PlaceOK, StdinHolds, OneLoop, Waiting, clientVars
  <2>6. Coming' = Append(Coming, line)
    <3>1. InHand \in Seq(Line) /\ stdio \o tty \in Seq(Line)
          /\ <<line>> \in Seq(Line) /\ Coming \in Seq(Line)
      BY <1>1, LineTypes DEF OfLines
    <3>2. tty' = tty \o <<line>> /\ Append(Coming, line) = Coming \o <<line>>
      BY <2>2, <2>3, <3>1, AppendIsConcat
    <3>3. stdio \o (tty \o <<line>>) = (stdio \o tty) \o <<line>>
      BY <2>3, <3>1, ConcatAssociative
    <3>4. InHand \o ((stdio \o tty) \o <<line>>) = (InHand \o (stdio \o tty)) \o <<line>>
      BY <3>1, ConcatAssociative
    <3> QED BY <1>2, <2>2, <3>2, <3>3, <3>4 DEF Coming
  <2>7. Lines'
    BY <1>1, <1>2, <2>2, <2>6, TypeParts, LineTyped
  <2> QED BY <1>1, <1>2, <2>4, <2>5, <2>7, TypeParts, TypePartsNext
<1> QED BY <1>3, <1>4 DEF UserStep

\* One read of the server takes the first lines from the connection.
LEMMA ServerKeeps ==
  ASSUME Inv, ServerReads, UNCHANGED <<kind, pipe, userVars, clientVars, early>>
  PROVE  Inv'
<1>1. UserOK /\ PlaceOK /\ NetOK /\ ServerOK /\ kind \in Kinds
      /\ srv = "serve" /\ conn = "up"
  BY TypeParts DEF ServerReads
<1>2. toServer \in Seq(Line) /\ received \in Seq(Line) /\ Len(toServer) \in Nat
  BY <1>1 DEF NetOK, ServerOK
<1>3. PICK n \in 1..Len(toServer) :
        LET chunk == SubSeq(toServer, 1, n)
            rest == SubSeq(toServer, n + 1, Len(toServer))
        IN /\ toServer' = rest
           /\ received' = received \o chunk
           /\ glued' = (glued \/ (n > 1 /\ \E m \in 1..n : chunk[m] = "exit"))
           /\ IF chunk # <<"exit">>
                THEN UNCHANGED <<srv, conn>>
                ELSE IF kind = "processes"
                  THEN srv' = "reply" /\ UNCHANGED conn
                  ELSE Closes(rest) /\ UNCHANGED srv
  <2>1. toServer # << >> => 1..1 \subseteq 1..Len(toServer)
    BY <1>2, EmptySeq
  <2> QED BY <2>1 DEF ServerReads
<1> DEFINE chunk == SubSeq(toServer, 1, n)
           rest == SubSeq(toServer, n + 1, Len(toServer))
<1>4. /\ chunk \in Seq(Line) /\ rest \in Seq(Line)
      /\ Len(rest) = Len(toServer) - n /\ chunk \o rest = toServer
  <2>1. n \in 0..Len(toServer)
    BY <1>2
  <2> QED BY <1>2, <2>1, TakenApart
<1>5. UNCHANGED <<inbox, pending, casts>>
  BY DEF ServerReads
<1>6. conn' \in {"up", "fin", "rst"} /\ (conn' = "up" => conn = "up")
  BY <1>1, <1>3 DEF Closes
<1>7. NetOK'
  <2> HIDE DEF chunk, rest
  <2>1. toServer' = rest
    BY <1>3 DEF rest
  <2>2. Len(rest) <= Cap
    BY <1>1, <1>2, <1>4, ClientAssumption DEF NetOK
  <2> QED BY <1>1, <1>4, <1>5, <1>6, <2>1, <2>2 DEF NetOK
<1>8. received' = received \o chunk /\ received' \in Seq(Line)
  BY <1>2, <1>3, <1>4, ConcatProperties
<1>9. ServerOK'
  <2>1. glued' \in BOOLEAN
    BY <1>1, <1>3 DEF ServerOK
  <2>2. srv' \in {"serve", "reply"}
    BY <1>1, <1>3
  <2>3. srv' # "serve" => kind = "processes" /\ chunk = <<"exit">>
    BY <1>1, <1>3
  <2>4. chunk = <<"exit">> => received'[Len(received')] = "exit"
    <3>1. Append(received, "exit") = received \o <<"exit">>
          /\ Append(received, "exit")[Len(received) + 1] = "exit"
          /\ Len(Append(received, "exit")) = Len(received) + 1
      BY <1>2, AppendIsConcat, AppendProperties DEF Line
    <3> QED BY <1>8, <3>1
  <2> HIDE DEF chunk
  <2> QED BY <1>1, <1>5, <1>8, <2>1, <2>2, <2>3, <2>4 DEF ServerOK
<1>10. UserOK' /\ FlagsOK' /\ PlaceOK' /\ StdinHolds'
  BY TypeParts DEF UserOK, FlagsOK, PlaceOK, OneLoop, StdinHolds, Waiting,
       userVars, clientVars
<1>11. Sent' = Sent
  <2> HIDE DEF chunk, rest
  <2>1. (received \o chunk) \o rest = received \o (chunk \o rest)
    <3>1. \A a, b, c \in Seq(Line) : (a \o b) \o c = a \o (b \o c)
      BY ConcatAssociative
    <3> QED BY <1>2, <1>4, <3>1
  <2>2. toServer' = rest
    BY <1>3 DEF rest
  <2> QED BY <1>4, <1>8, <2>1, <2>2 DEF Sent
<1>12. UNCHANGED <<Sent, typed, Coming, writer>>
  BY <1>11 DEF Coming, InHand, userVars, clientVars
<1>13. Lines'
  BY <1>6, <1>12, TypeParts, LinesQuiet
<1> QED BY <1>7, <1>9, <1>10, <1>13, TypeParts, TypePartsNext

\* The reply, the other clients' messages and the end of the server.
LEMMA OthersKeep ==
  ASSUME Inv, Replies \/ OthersSpeak \/ Casts \/ ServerStops,
         UNCHANGED <<kind, pipe, userVars, clientVars, early>>
  PROVE  Inv'
<1>1. UNCHANGED <<toServer, received, glued>> /\ NetOK /\ ServerOK
  BY TypeParts DEF Replies, OthersSpeak, Casts, ServerStops, netVars, serverVars
<1>2. NetOK' /\ (conn' = "up" => conn = "up")
  <2>1. CASE Replies \/ Casts
    <3>1. UNCHANGED conn /\ (inbox' = inbox \/ (inbox < Cap /\ inbox' = inbox + 1))
      BY <2>1 DEF Replies, Casts
    <3>2. inbox' \in 0..Cap
      BY <1>1, <3>1, ClientAssumption DEF NetOK
    <3> QED BY <1>1, <3>1, <3>2 DEF NetOK
  <2>2. CASE OthersSpeak
    BY <1>1, <2>2 DEF NetOK, OthersSpeak, netVars
  <2>3. CASE ServerStops
    BY <1>1, <2>3 DEF NetOK, ServerStops, Closes
  <2> QED BY <2>1, <2>2, <2>3
<1>3. ServerOK'
  <2>1. casts' \in 0..MaxCasts
    BY <1>1, ClientAssumption
       DEF ServerOK, Replies, OthersSpeak, Casts, ServerStops, serverVars
  <2>2. /\ srv' \in {"serve", "reply", "gone"} /\ pending' \in BOOLEAN
        /\ srv' # "serve" => srv # "serve"
    BY <1>1 DEF ServerOK, Replies, OthersSpeak, Casts, ServerStops, serverVars
  <2> QED BY <1>1, <2>1, <2>2 DEF ServerOK
<1>4. UserOK' /\ FlagsOK' /\ PlaceOK' /\ StdinHolds'
  BY TypeParts DEF UserOK, FlagsOK, PlaceOK, OneLoop, StdinHolds, Waiting,
       userVars, clientVars
<1>5. UNCHANGED <<Sent, typed, Coming, writer>>
  BY <1>1 DEF Sent, Coming, InHand, userVars, clientVars
<1>6. Lines'
  BY <1>2, <1>5, TypeParts, LinesQuiet
<1> QED BY <1>2, <1>3, <1>4, <1>6, TypeParts, TypePartsNext

----------------------------------------------------------------------------
(* The theorems. *)

\* Nothing is typed and nothing sent.
LEMMA InvInit == Init => Inv
<1> SUFFICES ASSUME Init PROVE Inv
  OBVIOUS
<1>1. /\ kind \in Kinds /\ pipe \in BOOLEAN
      /\ tty = << >> /\ stdio = << >> /\ eof = FALSE /\ typed = << >>
      /\ toServer = << >> /\ inbox = 0 /\ conn = "up"
      /\ srv = "serve" /\ pending = FALSE /\ casts = 0
      /\ received = << >> /\ glued = FALSE
      /\ left_flag = FALSE /\ rset = FALSE /\ send_buff = "" /\ early = FALSE
      /\ writer = IF kind \in {"select", "epoll"} THEN "select" ELSE "test"
      /\ reader = IF kind \in {"select", "epoll"} THEN "end" ELSE "test"
  BY DEF Init, WorldInit
<1>2. /\ << >> \in Seq(Line) /\ Len(<< >>) = 0
      /\ << >> \o << >> = << >>
  BY EmptySeq, ConcatEmptySeq
<1>3. UserOK /\ NetOK /\ ServerOK
  <2>1. UserOK
    BY <1>1, <1>2 DEF UserOK
  <2>2. NetOK
    <3>1. 0 \in 0..Cap /\ 0 <= Cap
      BY ClientAssumption
    <3> QED BY <1>1, <1>2, <3>1 DEF NetOK
  <2>3. ServerOK
    <3>1. 0 \in 0..MaxCasts
      BY ClientAssumption
    <3> QED BY <1>1, <1>2, <3>1 DEF ServerOK
  <2> QED BY <2>1, <2>2, <2>3
<1>4. FlagsOK /\ PlaceOK /\ StdinHolds
  BY <1>1 DEF FlagsOK, PlaceOK, StdinHolds, OneLoop
<1>5. Sent = << >> /\ Coming = << >>
  BY <1>1, <1>2 DEF Sent, Coming, InHand
<1>6. SentInOrder
  <2>1. Len(Sent) = 0 /\ Len(typed) = 0
    BY <1>1, <1>2, <1>5
  <2>2. Sent = SubSeq(typed, 1, Len(Sent))
    <3>1. SubSeq(typed, 1, 0) = << >>
      BY SubSeqEmpty
    <3> QED BY <1>5, <2>1, <3>1
  <2> QED BY <2>1, <2>2 DEF SentInOrder
<1>7. LinesKept /\ ExitIsLast
  <2>1. DOMAIN Sent = {}
    BY <1>2, <1>5, LenProperties
  <2> QED BY <1>1, <1>2, <1>5, <2>1 DEF LinesKept, ExitIsLast, Said
<1> QED BY <1>1, <1>3, <1>4, <1>6, <1>7, TypeParts DEF Lines

\* Inv is inductive.
THEOREM InvHolds == Spec => []Inv
<1>1. Inv /\ [Next]_vars => Inv'
  <2> SUFFICES ASSUME Inv, [Next]_vars PROVE Inv'
    OBVIOUS
  <2>1. CASE ReaderStep
    BY <2>1, ReaderKeeps
  <2>2. CASE WriterStep
    BY <2>2, WriterKeeps
  <2>3. CASE UserStep /\ UNCHANGED <<clientVars, early>>
    BY <2>3, UserKeeps
  <2>4. CASE ServerWorks /\ UNCHANGED <<clientVars, early>>
    BY <2>4, ServerKeeps, OthersKeep DEF ServerWorks
  <2>5. CASE (OthersWork \/ OthersAct) /\ UNCHANGED <<clientVars, early>>
    BY <2>5, OthersKeep DEF OthersWork, OthersAct
  <2>6. CASE UNCHANGED vars
    <3>1. UNCHANGED <<kind, pipe, serverVars, userVars, toServer, conn, writer,
                      InHand>>
      BY <2>6 DEF vars, worldVars, clientVars, netVars, InHand
    <3>2. NetOK' /\ FlagsOK' /\ PlaceOK' /\ StdinHolds'
      BY <2>6, TypeParts DEF vars, worldVars, clientVars, userVars, netVars,
           NetOK, FlagsOK, PlaceOK, OneLoop, StdinHolds, Waiting
    <3> QED BY <3>1, <3>2, QuietKeeps
  <2> QED BY <2>1, <2>2, <2>3, <2>4, <2>5, <2>6 DEF Next
<1> QED BY InvInit, <1>1, PTL DEF Spec

\* Type correctness, for buffers of any size.
THEOREM TypeCorrect == Spec => []TypeOK
<1>1. Inv => TypeOK
  BY DEF Inv
<1> QED BY InvHolds, <1>1, PTL

\* What any of the four clients' users types arrives line by line, in order and
\* once, and nothing behind an "exit", although the client's processes or
\* threads share stdin, stdio and the socket.
THEOREM SentInOrderHolds == Spec => []SentInOrder
<1>1. Inv => SentInOrder
  BY DEF Inv
<1> QED BY InvHolds, <1>1, PTL

=============================================================================
