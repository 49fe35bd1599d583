------------------------- MODULE ForkServer_proofs --------------------------
(***************************************************************************)
(* The fork server for any number of clients and descriptors: whatever the *)
(* children do at the same time, each client is heard by those that were   *)
(* accepted before it, in order and without a gap, and by nobody else; and *)
(* no connection is closed as long as the parent runs.  Inv is shown to be *)
(* inductive, action by action.                                            *)
(***************************************************************************)
EXTENDS ForkServer, Sockets_proofs

----------------------------------------------------------------------------
(* What one client has said, out of a transcript. *)

\* SaidBy, place by place.
LEMMA SaidByPlaces ==
  ASSUME NEW s, NEW t \in Seq(Entry)
  PROVE  \E f : /\ SaidBy(s, t) = f[Len(t)]
                /\ f[0] = << >>
                /\ \A n \in 1..Len(t) : f[n] = IF t[n].from = s
                                                 THEN Append(f[n - 1], t[n])
                                                 ELSE f[n - 1]
<1> DEFINE F == CHOOSE f : f = [n \in 0..Len(t) |->
                       IF n = 0 THEN << >>
                       ELSE IF t[n].from = s THEN Append(f[n - 1], t[n])
                                             ELSE f[n - 1]]
<1>1. Len(t) \in Nat
  OBVIOUS
\* The recursion has a solution up to every place.
<1>2. \E f : f = [n \in 0..Len(t) |->
                       IF n = 0 THEN << >>
                       ELSE IF t[n].from = s THEN Append(f[n - 1], t[n])
                                             ELSE f[n - 1]]
  <2> DEFINE Step(f, n) == IF n = 0 THEN << >>
                           ELSE IF t[n].from = s THEN Append(f[n - 1], t[n])
                                                 ELSE f[n - 1]
             Solved(m) == \E f : f = [n \in 0..m |-> Step(f, n)]
             Unsolved == {m \in Nat : ~ Solved(m)}
  <2>1. SUFFICES ASSUME Unsolved # {} PROVE FALSE
    <3>1. Solved(Len(t))
      BY <1>1, <2>1
    <3> QED BY <3>1
  <2>2. PICK m \in Unsolved : \A n \in Unsolved : m <= n
    <3>1. Unsolved \in SUBSET Nat
      OBVIOUS
    <3> HIDE DEF Unsolved
    <3> QED BY <2>1, <3>1, LeastExists
  <2>3. CASE m = 0
    <3> DEFINE g == [n \in 0..0 |-> << >>]
    <3>1. g = [n \in 0..0 |-> Step(g, n)]
      OBVIOUS
    <3>2. Solved(0)
      BY <3>1
    <3> QED BY <2>2, <2>3, <3>2
  <2>4. CASE m # 0
    <3>1. m \in Nat /\ m - 1 \in Nat /\ m - 1 < m /\ ~ Solved(m)
      <4>1. m \in Nat /\ ~ Solved(m)
        BY <2>2
      <4> HIDE DEF Solved
      <4> QED BY <2>4, <4>1
    <3>2. Solved(m - 1)
      <4>1. m - 1 \notin Unsolved
        <5> HIDE DEF Unsolved, Solved
        <5> QED BY <2>2, <3>1
      <4> QED BY <3>1, <4>1
    <3>3. PICK f : f = [n \in 0..(m - 1) |-> Step(f, n)]
      BY <3>2
    <3> DEFINE g == [n \in 0..m |-> IF n = m THEN Step(f, m) ELSE f[n]]
    <3>4. \A n \in 0..m : g[n] = Step(g, n)
      <4> SUFFICES ASSUME NEW n \in 0..m PROVE g[n] = Step(g, n)
        OBVIOUS
      <4>1. CASE n = m
        <5>1. m - 1 \in 0..m /\ m - 1 # m /\ g[m] = Step(f, m)
          BY <3>1
        <5>2. g[m - 1] = f[m - 1]
          BY <5>1
        <5> QED BY <2>4, <4>1, <5>1, <5>2
      <4>2. CASE n # m /\ n # 0
        <5>1. n \in 0..(m - 1) /\ n - 1 \in 0..m /\ n - 1 # m
          BY <3>1, <4>2
        <5>2. f[n] = Step(f, n) /\ g[n] = f[n] /\ g[n - 1] = f[n - 1]
          BY <3>3, <4>2, <5>1
        <5> QED BY <5>2
      <4>3. CASE n # m /\ n = 0
        <5>1. 0 \in 0..(m - 1)
          BY <3>1
        <5>2. f[0] = << >>
          BY <3>3, <5>1
        <5> QED BY <4>3, <5>2
      <4> QED BY <4>1, <4>2, <4>3
    <3>5. g = [n \in 0..m |-> Step(g, n)]
      BY <3>4
    <3> HIDE DEF g
    <3> QED BY <3>1, <3>5
  <2> QED BY <2>3, <2>4
<1>3. F = [n \in 0..Len(t) |->
                       IF n = 0 THEN << >>
                       ELSE IF t[n].from = s THEN Append(F[n - 1], t[n])
                                             ELSE F[n - 1]]
  BY <1>2
<1>4. SaidBy(s, t) = F[Len(t)]
  BY DEF SaidBy
<1> HIDE DEF F
<1>5. /\ F[0] = << >>
      /\ \A n \in 1..Len(t) : F[n] = IF t[n].from = s THEN Append(F[n - 1], t[n])
                                                     ELSE F[n - 1]
  <2> DEFINE L == Len(t)
  <2>1. L \in Nat /\ 0 \in 0..L /\ \A n \in 1..L : n \in 0..L /\ n # 0
    BY <1>1
  <2>2. \A n \in 0..L : F[n] = IF n = 0 THEN << >>
                             ELSE IF t[n].from = s THEN Append(F[n - 1], t[n])
                                                   ELSE F[n - 1]
    BY <1>3
  <2> HIDE DEF L
  <2>3. F[0] = << >>
    BY <2>1, <2>2
  <2>4. \A n \in 1..L : F[n] = IF t[n].from = s THEN Append(F[n - 1], t[n])
                                                ELSE F[n - 1]
    BY <2>1, <2>2
  <2> QED BY <2>3, <2>4 DEF L
<1> QED BY <1>4, <1>5

\* Nothing is said in an empty transcript.
LEMMA SaidByNobody ==
  ASSUME NEW s
  PROVE  SaidBy(s, << >>) = << >>
<1>1. << >> \in Seq(Entry) /\ Len(<< >>) = 0
  BY EmptySeq
<1> DEFINE t == << >>
<1>2. t \in Seq(Entry)
  BY <1>1
<1> HIDE DEF t
<1>3. PICK f : /\ SaidBy(s, t) = f[Len(t)]
               /\ f[0] = << >>
               /\ \A n \in 1..Len(t) : f[n] = IF t[n].from = s
                                                THEN Append(f[n - 1], t[n])
                                                ELSE f[n - 1]
  BY <1>2, SaidByPlaces
<1> QED BY <1>1, <1>3 DEF t

\* One entry more in a transcript is one more of its speaker, and of nobody else.
LEMMA SaidByAppend ==
  ASSUME NEW s, NEW t \in Seq(Entry), NEW x \in Entry
  PROVE  SaidBy(s, Append(t, x)) = IF x.from = s THEN Append(SaidBy(s, t), x)
                                                 ELSE SaidBy(s, t)
<1> DEFINE u == Append(t, x)
           L == Len(t)
<1>1. /\ u \in Seq(Entry) /\ L \in Nat /\ Len(u) = L + 1 /\ u[L + 1] = x
      /\ \A n \in 1..L : u[n] = t[n]
  BY AppendProperties
<1> HIDE DEF u
<1>2. PICK f : /\ SaidBy(s, t) = f[L]
               /\ f[0] = << >>
               /\ \A n \in 1..L : f[n] = IF t[n].from = s
                                           THEN Append(f[n - 1], t[n])
                                           ELSE f[n - 1]
  BY SaidByPlaces
<1>3. PICK g : /\ SaidBy(s, u) = g[Len(u)]
               /\ g[0] = << >>
               /\ \A n \in 1..Len(u) : g[n] = IF u[n].from = s
                                                THEN Append(g[n - 1], u[n])
                                                ELSE g[n - 1]
  BY <1>1, SaidByPlaces
<1> HIDE DEF L
<1>4. \A n \in 0..L : f[n] = g[n]
  <2> DEFINE Apart == {n \in 0..L : f[n] # g[n]}
  <2>1. SUFFICES ASSUME Apart # {} PROVE FALSE
    OBVIOUS
  <2>2. Apart \in SUBSET Nat
    BY <1>1
  <2>3. PICK m \in Apart : \A n \in Apart : m <= n
    <3> HIDE DEF Apart
    <3> QED BY <2>1, <2>2, LeastExists
  <2>4. m # 0 /\ m \in 1..L /\ m - 1 \in 0..L /\ m \in 1..Len(u)
    BY <1>1, <1>2, <1>3, <2>3
  <2>5. f[m - 1] = g[m - 1]
    <3>1. m - 1 \notin Apart
      BY <2>2, <2>3, <2>4
    <3> QED BY <2>4, <3>1
  <2>6. f[m] = g[m]
    BY <1>1, <1>2, <1>3, <2>4, <2>5
  <2> QED BY <2>3, <2>6
<1>5. L + 1 \in 1..Len(u) /\ (L + 1) - 1 = L /\ L \in 0..L
  BY <1>1
<1>6. g[L + 1] = IF x.from = s THEN Append(g[L], x) ELSE g[L]
  BY <1>1, <1>3, <1>5
<1> QED BY <1>1, <1>2, <1>3, <1>4, <1>5, <1>6 DEF u

\* What is picked out of a transcript is a transcript.
LEMMA SaidByType ==
  ASSUME NEW s, NEW t \in Seq(Entry)
  PROVE  SaidBy(s, t) \in Seq(Entry)
<1> DEFINE L == Len(t)
<1>1. /\ L \in Nat /\ \A n \in 1..L : t[n] \in Entry
      /\ << >> \in Seq(Entry)
  BY ElementOfSeq, EmptySeq
<1>2. PICK f : /\ SaidBy(s, t) = f[L]
               /\ f[0] = << >>
               /\ \A n \in 1..L : f[n] = IF t[n].from = s
                                           THEN Append(f[n - 1], t[n])
                                           ELSE f[n - 1]
  BY SaidByPlaces
<1> HIDE DEF L
<1> DEFINE Odd == {n \in 0..L : f[n] \notin Seq(Entry)}
<1>3. SUFFICES ASSUME Odd # {} PROVE FALSE
  BY <1>1, <1>2
<1>4. PICK m \in Odd : \A n \in Odd : m <= n
  <2>1. Odd \in SUBSET Nat
    BY <1>1
  <2> HIDE DEF Odd
  <2> QED BY <1>3, <2>1, LeastExists
<1>5. m # 0 /\ m \in 1..L /\ m - 1 \in 0..L /\ m - 1 < m
  <2>1. m \in 0..L /\ f[m] \notin Seq(Entry)
    OBVIOUS
  <2>2. m # 0
    BY <1>1, <1>2, <2>1
  <2> HIDE DEF Odd
  <2> QED BY <1>1, <2>1, <2>2
<1>6. f[m - 1] \in Seq(Entry)
  <2>1. m - 1 \notin Odd
    BY <1>1, <1>4, <1>5
  <2> QED BY <1>5, <2>1
<1>7. Append(f[m - 1], t[m]) \in Seq(Entry)
  BY <1>1, <1>5, <1>6, AppendProperties
<1>8. f[m] \in Seq(Entry)
  BY <1>2, <1>5, <1>6, <1>7
<1> QED BY <1>4, <1>8

\* Who has heard the beginning of what was said has still heard the beginning
\* when more is said.
LEMMA BeginsOfMore ==
  ASSUME NEW heard \in Seq(Entry), NEW all \in Seq(Entry), NEW x \in Entry,
         Begins(heard, all)
  PROVE  Begins(heard, Append(all, x))
<1> DEFINE n == Len(heard)
           more == Append(all, x)
<1>1. /\ n \in Nat /\ n \in 0..Len(all) /\ Len(all) \in Nat
      /\ heard = SubSeq(all, 1, n)
  BY DEF Begins
<1>2. /\ more \in Seq(Entry) /\ Len(more) = Len(all) + 1
      /\ \A k \in 1..Len(all) : more[k] = all[k]
  BY AppendProperties
<1> HIDE DEF more
<1>3. n \in 0..Len(more)
  BY <1>1, <1>2
<1>4. /\ SubSeq(more, 1, n) \in Seq(Entry) /\ Len(SubSeq(more, 1, n)) = n
      /\ \A k \in 1..n : SubSeq(more, 1, n)[k] = more[k]
  BY <1>2, <1>3, Prefix
<1>5. \A k \in 1..n : SubSeq(all, 1, n)[k] = all[k]
  BY <1>1, Prefix
<1>6. \A k \in 1..n : k \in 1..Len(all) /\ heard[k] = SubSeq(more, 1, n)[k]
  <2>1. \A k \in 1..n : k \in 1..Len(all)
    BY <1>1
  <2> QED BY <1>1, <1>2, <1>4, <1>5, <2>1
<1>7. heard = SubSeq(more, 1, n)
  <2> DEFINE part == SubSeq(more, 1, n)
  <2>1. part \in Seq(Entry) /\ Len(part) = Len(heard)
        /\ \A k \in 1..Len(heard) : heard[k] = part[k]
    BY <1>4, <1>6
  <2> HIDE DEF part
  <2>2. heard = part
    BY <2>1, SeqEqual
  <2> QED BY <2>2 DEF part
<1> QED BY <1>1, <1>2, <1>3, <1>7 DEF Begins, more

\* Who lacks the last entry, and hears it, has heard all.
LEMMA BeginsToEnd ==
  ASSUME NEW heard \in Seq(Entry), NEW all \in Seq(Entry), NEW x \in Entry,
         Begins(heard, all), Len(all) = Len(heard) + 1, x = all[Len(all)]
  PROVE  Begins(Append(heard, x), all) /\ Len(Append(heard, x)) = Len(all)
<1> DEFINE n == Len(heard)
           now == Append(heard, x)
<1>1. /\ n \in Nat /\ n \in 0..Len(all) /\ n + 1 \in 0..Len(all)
      /\ heard = SubSeq(all, 1, n)
  BY DEF Begins
<1>2. /\ now \in Seq(Entry) /\ Len(now) = n + 1 /\ now[n + 1] = x
      /\ \A k \in 1..n : now[k] = heard[k]
  BY AppendProperties
<1> HIDE DEF now
<1>3. \A k \in 1..n : heard[k] = all[k]
  BY <1>1, Prefix
<1> DEFINE part == SubSeq(all, 1, n + 1)
<1>4. /\ part \in Seq(Entry) /\ Len(part) = n + 1
      /\ \A k \in 1..(n + 1) : part[k] = all[k]
  BY <1>1, Prefix
<1> HIDE DEF part
<1>5. \A k \in 1..Len(now) : now[k] = part[k]
  <2>1. \A k \in 1..Len(now) : k \in 1..n \/ k = n + 1
    BY <1>1, <1>2
  <2>2. \A k \in 1..n : now[k] = all[k]
    BY <1>2, <1>3
  <2>3. n + 1 \in 1..(n + 1) /\ \A k \in 1..n : k \in 1..(n + 1)
    BY <1>1
  <2> HIDE DEF n
  <2> QED BY <1>2, <1>4, <2>1, <2>2, <2>3 DEF n
<1>6. now = part
  BY <1>2, <1>4, <1>5, SeqEqual
<1> QED BY <1>1, <1>2, <1>6 DEF Begins, now, part
----------------------------------------------------------------------------
(* The list. *)

\* A client that was accepted has one place in the parent's list.
LEMMA PlaceOf ==
  ASSUME TypeOK, AcceptedOnce, NEW c \in Accepted
  PROVE  /\ c \in Conn
         /\ Len(plist) \in Nat /\ DOMAIN plist = 1..Len(plist)
         /\ Place(c) \in 1..Len(plist) /\ plist[Place(c)] = c
         /\ \A n \in DOMAIN plist : plist[n] = c => n = Place(c)
<1>1. /\ Len(plist) \in Nat /\ DOMAIN plist = 1..Len(plist)
      /\ \A n \in DOMAIN plist : plist[n] \in Conn
  BY LenProperties, ElementOfSeq DEF TypeOK
<1>2. \E n \in DOMAIN plist : plist[n] = c
  BY DEF Accepted
<1>3. Place(c) \in DOMAIN plist /\ plist[Place(c)] = c
  BY <1>2 DEF Place
<1> QED BY <1>1, <1>3 DEF AcceptedOnce

\* A child's list ends with its own client (server.c:96).
LEMMA ListOfEnds ==
  ASSUME TypeOK, AcceptedOnce, NEW c \in Accepted
  PROVE  /\ Len(ListOf(c)) = Place(c)
         /\ \A n \in 1..Place(c) : ListOf(c)[n] = plist[n] /\ plist[n] \in Accepted
<1>1. /\ Len(plist) \in Nat /\ Place(c) \in 0..Len(plist)
      /\ \A n \in 1..Place(c) : n \in DOMAIN plist
      /\ plist \in Seq(Conn)
  BY PlaceOf DEF TypeOK
<1>2. \A n \in 1..Place(c) : plist[n] \in Accepted
  BY <1>1 DEF Accepted
<1> QED BY <1>1, <1>2, Prefix DEF ListOf

\* Who is accepted comes last, and the places of the others stay (server.c:86).
LEMMA LastPlace ==
  ASSUME TypeOK, AcceptedOnce, NEW c \in Conn \ Accepted,
         plist' = Append(plist, c)
  PROVE  /\ plist' \in Seq(Conn) /\ Len(plist') = Len(plist) + 1
         /\ Accepted' = Accepted \cup {c}
         /\ Place(c)' = Len(plist) + 1
         /\ \A d \in Accepted : Place(d)' = Place(d)
         /\ \A m, n \in DOMAIN plist' : plist'[m] = plist'[n] => m = n
<1>1. /\ plist \in Seq(Conn) /\ Len(plist) \in Nat
      /\ DOMAIN plist = 1..Len(plist)
      /\ plist' \in Seq(Conn) /\ Len(plist') = Len(plist) + 1
      /\ DOMAIN plist' = 1..(Len(plist) + 1)
      /\ plist'[Len(plist) + 1] = c
      /\ \A n \in DOMAIN plist : plist'[n] = plist[n]
  BY LenProperties DEF TypeOK
<1>2. \A n \in DOMAIN plist' : n \in DOMAIN plist \/ n = Len(plist) + 1
  BY <1>1
<1>3. \A n \in DOMAIN plist : n \in DOMAIN plist' /\ plist[n] # c
  BY <1>1 DEF Accepted
<1>4. Len(plist) + 1 \in DOMAIN plist'
  BY <1>1
<1>5. Accepted' = Accepted \cup {c}
  BY <1>1, <1>2, <1>3, <1>4 DEF Accepted
<1>6. \A m, n \in DOMAIN plist' : plist'[m] = plist'[n] => m = n
  BY <1>1, <1>2, <1>3 DEF AcceptedOnce
<1>7. Place(c)' = Len(plist) + 1
  <2> DEFINE P(n) == plist'[n] = c
  <2>1. Place(c)' = CHOOSE n \in DOMAIN plist' : P(n)
    BY DEF Place
  <2>2. Len(plist) + 1 \in DOMAIN plist' /\ P(Len(plist) + 1)
    BY <1>1, <1>4
  <2> HIDE DEF P
  <2>3. Place(c)' \in DOMAIN plist' /\ P(Place(c)')
    BY <2>1, <2>2
  <2> QED BY <1>1, <1>4, <1>6, <2>3 DEF P
<1>8. ASSUME NEW d \in Accepted PROVE Place(d)' = Place(d)
  <2> DEFINE P(n) == plist'[n] = d
  <2>1. Place(d)' = CHOOSE n \in DOMAIN plist' : P(n)
    BY DEF Place
  <2>2. Place(d) \in DOMAIN plist' /\ P(Place(d))
    BY <1>1, <1>3, PlaceOf
  <2> HIDE DEF P
  <2>3. Place(d)' \in DOMAIN plist' /\ P(Place(d)')
    BY <2>1, <2>2
  <2> QED BY <1>6, <2>2, <2>3 DEF P
<1> QED BY <1>1, <1>5, <1>6, <1>7, <1>8

\* The list as it was leaves everybody where he was.
LEMMA SamePlaces ==
  ASSUME UNCHANGED plist
  PROVE  /\ Accepted' = Accepted
         /\ \A c \in Conn : Place(c)' = Place(c)
BY DEF Accepted, Place

----------------------------------------------------------------------------
(* What becomes of the connections. *)

\* Without a client's doing, a connection is only reset, or closed by the
\* server after it was accepted.
WearOut ==
  /\ peer' \in [Conn -> PeerState]
  /\ \A c \in Conn : \/ peer'[c] = peer[c]
                     \/ peer[c] = "fin" /\ peer'[c] = "rst"
                     \/ c \in Accepted /\ peer'[c] = "done"

\* An answer to a write resets.
LEMMA AnswersWearOut ==
  ASSUME SockTypeOK, NEW targets, peer' \in Answers(targets)
  PROVE  WearOut
BY AnswersType DEF WearOut

\* What nobody has open any more is closed, and nothing else.
LEMMA LeftIs ==
  ASSUME NEW processes, NEW answers \in [Conn -> PeerState], NEW c \in Conn
  PROVE  /\ Left(processes, answers) \in [Conn -> PeerState]
         /\ c \in Accepted \ processes => Left(processes, answers)[c] = "done"
         /\ c \notin Accepted \ processes =>
              Left(processes, answers)[c] = answers[c]
BY DEF Left, PeerState

\* The clients a child can write to, and its own, stay open while it lives.
LEMMA HeldByChild ==
  ASSUME TypeOK, AcceptedOnce, NEW children, NEW s \in children,
         NEW e \in Accepted, s \in Accepted, Place(e) <= Place(s)
  PROVE  e \in HeldBy(children)
<1>1. Place(e) \in 1..Place(s) /\ plist[Place(e)] = e
  BY PlaceOf
<1>2. e \in {plist[n] : n \in 1..Place(s)}
  BY <1>1
<1> QED BY <1>2 DEF HeldBy

\* A child that ends closes nothing that another process has open.
LEMMA ChildEndsKeeps ==
  ASSUME TypeOK, AcceptedOnce, NEW c \in Conn, NEW how,
         NEW answers \in [Conn -> PeerState], ChildEnds(c, how, answers),
         \A d \in Conn : answers[d] = peer[d]
                           \/ (peer[d] = "fin" /\ answers[d] = "rst")
  PROVE  /\ WearOut
         /\ ppc # "exited" => \A d \in Conn : peer'[d] = answers[d]
         /\ \A s \in Alive \ {c}, e \in Accepted :
              Place(e) <= Place(s) => peer'[e] = answers[e]
<1>1. \A d \in Conn : peer'[d] = answers[d] \/ (d \in Accepted /\ peer'[d] = "done")
  BY LeftIs DEF ChildEnds
<1>2. peer' \in [Conn -> PeerState]
  BY LeftIs DEF ChildEnds
<1>3. WearOut
  BY <1>1, <1>2 DEF WearOut
<1>4. ASSUME ppc # "exited", NEW d \in Conn PROVE peer'[d] = answers[d]
  BY <1>4, LeftIs DEF ChildEnds, ParentHolds
<1>5. ASSUME NEW s \in Alive \ {c}, NEW e \in Accepted, Place(e) <= Place(s)
      PROVE  peer'[e] = answers[e]
  <2>1. s \in Accepted /\ e \in Conn
    BY PlaceOf DEF Alive, AcceptedOnce
  <2>2. e \in HeldBy(Alive \ {c})
    BY <1>5, <2>1, HeldByChild
  <2> QED BY <2>1, <2>2 DEF ChildEnds, Left
<1> QED BY <1>3, <1>4, <1>5

----------------------------------------------------------------------------
(* What carries over from one state to the next. *)

\* Nobody is accepted and nobody comes.
LEMMA AcceptedOnceKept ==
  ASSUME TypeOK, AcceptedOnce, WearOut, UNCHANGED <<plist, backlog>>,
         Forked' \subseteq Forked, ppc' = "accept" => backlog # << >>
  PROVE  AcceptedOnce'
<1>1. \A n \in DOMAIN backlog : backlog[n] \in Conn
  BY ElementOfSeq, LenProperties DEF TypeOK, SockTypeOK
<1>2. \A c \in Accepted : c \in Conn
  BY PlaceOf
<1>3. Accepted' = Accepted
  BY SamePlaces
<1>4. \A n \in DOMAIN backlog : peer'[backlog[n]] # "done"
  BY <1>1 DEF AcceptedOnce, WearOut
<1>5. \A c \in Accepted : peer'[c] # "new"
  BY <1>2 DEF AcceptedOnce, WearOut
<1> QED BY <1>3, <1>4, <1>5 DEF AcceptedOnce

\* Descriptors are only closed.
LEMMA WearOutMatched ==
  ASSUME TypeOK, Matched, WearOut, UNCHANGED backlog,
         \A fd \in Fd : fdt'[fd] \in {fdt[fd], Free}
  PROVE  Matched'
<1>1. \A c \in Conn : peer[c] # "new" => peer'[c] # "new"
  BY DEF WearOut
<1> QED BY <1>1, MatchedKept DEF TypeOK

\* No connection is closed, no child begins, and the parent runs only if it did.
LEMMA HeldOpenKept ==
  ASSUME TypeOK, AcceptedOnce, HeldOpen, UNCHANGED plist, Alive' \subseteq Alive,
         \A c \in Accepted : peer[c] # "done" => peer'[c] # "done",
         ppc' \in {"select", "accept"} \/ (ppc' = "test" /\ ~pflag') =>
           ppc \in {"select", "accept"} \/ (ppc = "test" /\ ~pflag)
  PROVE  HeldOpen'
<1>1. Accepted' = Accepted /\ \A c \in Conn : Place(c)' = Place(c)
  BY SamePlaces
<1>2. Alive' \subseteq Conn /\ Accepted \subseteq Conn
  BY PlaceOf DEF Alive, Forked
<1> QED BY <1>1, <1>2 DEF HeldOpen

\* Nothing is read and nothing is written, and what was owed is owed.
LEMMA HeardKept ==
  ASSUME TypeOK, AcceptedOnce, HeardSoFar, UNCHANGED <<plist, got, said>>,
         \A e \in Accepted : peer'[e] \in {"up", "fin"} => peer[e] \in {"up", "fin"},
         \A s \in Accepted : cpc'[s] # "killed" =>
           /\ cpc[s] # "killed"
           /\ \A e \in Accepted : Place(e) < Place(s) => Owed(s, e)' = Owed(s, e)
  PROVE  HeardSoFar'
<1>1. Accepted' = Accepted /\ \A c \in Conn : Place(c)' = Place(c)
  BY SamePlaces
<1>2. \A s, e \in Conn : FromTo(s, e)' = FromTo(s, e)
  BY DEF FromTo
<1> SUFFICES ASSUME NEW s \in Conn, NEW e \in Conn
             PROVE  IF s \in Accepted /\ e \in Accepted /\ Place(e) < Place(s)
                      THEN /\ Begins(FromTo(s, e), said[s])
                           /\ peer'[e] \in {"up", "fin"} /\ cpc'[s] # "killed" =>
                                Len(said[s]) = Len(FromTo(s, e)) + Owed(s, e)'
                      ELSE FromTo(s, e) = << >>
  BY <1>1, <1>2 DEF HeardSoFar
<1> QED BY DEF HeardSoFar
----------------------------------------------------------------------------
(* The parent. *)

\* Nobody has come yet.
LEMMA InitInv == Init => Inv
<1> SUFFICES ASSUME Init PROVE Inv
  OBVIOUS
<1>1. /\ plist = << >> /\ Len(plist) = 0 /\ DOMAIN plist = {}
      /\ << >> \in Seq(Conn) /\ << >> \in Seq(Entry) /\ Len(<< >>) = 0
      /\ DOMAIN backlog = {} /\ backlog = << >>
  <2>1. << >> \in Seq(Conn) /\ << >> \in Seq(Entry) /\ Len(<< >>) = 0
    BY EmptySeq
  <2>2. DOMAIN << >> = {}
    OBVIOUS
  <2> QED BY <2>1, <2>2 DEF Init, SockInit
<1>2. Accepted = {} /\ Forked = {} /\ Alive = {}
  BY <1>1 DEF Init, Accepted, Forked, Alive
<1>3. TypeOK
  <2>1. SockTypeOK
    BY SockInitType DEF Init
  <2>2. temp \in [Conn -> 1..(Len(plist) + 1)]
    BY <1>1 DEF Init
  <2>3. \A c \in Conn : Len(recv_buff[c]) <= 1
    <3>1. \A c \in Conn : recv_buff[c] = << >>
      BY DEF Init
    <3>2. Len(<< >>) <= 1
      BY EmptySeq
    <3> QED BY <3>1, <3>2
  <2> QED BY <1>1, <2>1, <2>2, <2>3 DEF Init, TypeOK
<1>4. Matched
  BY MatchedInit DEF Init
<1>5. AcceptedOnce
  BY <1>1, <1>2 DEF AcceptedOnce, Init
<1>6. HeldOpen
  BY <1>2 DEF HeldOpen
<1>7. InTheBuffer
  BY DEF InTheBuffer, Init
<1>8. HeardSoFar
  <2>1. \A s, e \in Conn : FromTo(s, e) = << >>
    BY SaidByNobody DEF FromTo, Init, SockInit
  <2> QED BY <1>2, <2>1 DEF HeardSoFar
<1> QED BY <1>3, <1>4, <1>5, <1>6, <1>7, <1>8 DEF Inv

\* The parent exits: only what no child has open is closed (server.c:127).
LEMMA ParentExitsInv ==
  ASSUME Inv, ParentExits
  PROVE  Inv'
<1> USE DEF Inv, ParentExits
<1>1. peer \in [Conn -> PeerState]
  BY DEF TypeOK, SockTypeOK
<1>2. WearOut
  <2>1. \A c \in Conn : peer'[c] = peer[c] \/ (c \in Accepted /\ peer'[c] = "done")
    BY DEF Left
  <2>2. peer' \in [Conn -> PeerState]
    BY <1>1 DEF Left, PeerState
  <2> QED BY <2>1, <2>2 DEF WearOut
<1>3. TypeOK'
  <2>1. SockTypeOK'
    BY <1>2 DEF TypeOK, SockTypeOK, WearOut
  <2> QED BY <2>1 DEF TypeOK, childVars
<1>4. Matched'
  BY <1>2, WearOutMatched
<1>5. AcceptedOnce'
  <2>1. Forked' = Forked
    BY DEF Forked, childVars
  <2> QED BY <1>2, <2>1, AcceptedOnceKept
<1>6. HeldOpen'
  <2>1. Accepted' = Accepted /\ \A c \in Conn : Place(c)' = Place(c)
    BY SamePlaces
  <2>2. Alive' = Alive /\ Alive \subseteq Accepted
    BY DEF Alive, Forked, childVars, AcceptedOnce
  <2>3. ASSUME NEW s \in Alive, NEW e \in Accepted, Place(e) <= Place(s)
        PROVE  peer'[e] # "done"
    <3>1. s \in Accepted /\ e \in Conn
      BY <2>2, PlaceOf
    <3>2. e \in HeldBy(Alive)
      BY <2>3, <3>1, HeldByChild
    <3>3. peer'[e] = peer[e]
      BY <1>1, <3>1, <3>2, LeftIs
    <3> QED BY <2>3, <3>3 DEF HeldOpen
  <2>4. \A c \in Alive \cup Accepted : c \in Conn
    BY <2>2, PlaceOf
  <2> QED BY <2>1, <2>2, <2>3, <2>4 DEF HeldOpen
<1>7. InTheBuffer'
  BY DEF InTheBuffer, Forked, childVars
<1>8. HeardSoFar'
  <2>1. \A e \in Accepted : peer'[e] \in {"up", "fin"} => peer[e] \in {"up", "fin"}
    BY <1>2, PlaceOf DEF WearOut
  <2>2. \A s, e \in Accepted : Owed(s, e)' = Owed(s, e)
    BY PlaceOf, SamePlaces DEF Owed, childVars
  <2> QED BY <2>1, <2>2, HeardKept DEF childVars
<1> QED BY <1>3, <1>4, <1>5, <1>6, <1>7, <1>8

\* The parent goes on to select, or from select to accept; or nothing happens.
LEMMA ParentTurns ==
  ASSUME Inv, UNCHANGED <<pflag, plist, childVars, sockVars>>,
         \/ UNCHANGED ppc
         \/ ppc = "test" /\ ~pflag /\ ppc' = "select"
         \/ ppc = "select" /\ backlog # << >> /\ ppc' = "accept"
  PROVE  Inv'
<1> USE DEF Inv, childVars, sockVars
<1>1. WearOut
  BY DEF WearOut, TypeOK, SockTypeOK
<1>2. TypeOK'
  BY DEF TypeOK, SockTypeOK
<1>3. Matched'
  BY DEF Matched
<1>4. Forked' = Forked /\ Alive' = Alive
  BY DEF Forked, Alive
<1>5. AcceptedOnce'
  <2>1. ppc' = "accept" => backlog # << >>
    BY DEF AcceptedOnce
  <2> QED BY <1>1, <1>4, <2>1, AcceptedOnceKept
<1>6. HeldOpen'
  BY <1>4, HeldOpenKept
<1>7. InTheBuffer'
  BY <1>4 DEF InTheBuffer
<1>8. HeardSoFar'
  <2>1. \A s, e \in Accepted : Owed(s, e)' = Owed(s, e)
    BY PlaceOf, SamePlaces DEF Owed
  <2> QED BY <2>1, HeardKept
<1> QED BY <1>2, <1>3, <1>5, <1>6, <1>7, <1>8

\* A client that was just accepted has heard nothing and nobody has heard it.
LEMMA HeardAtFork ==
  ASSUME TypeOK, AcceptedOnce, InTheBuffer, HeardSoFar,
         NEW c \in Conn \ Accepted, plist' = Append(plist, c),
         UNCHANGED <<got, said, recv_buff, temp>>,
         \A d \in Conn \ {c} : peer'[d] = peer[d] /\ cpc'[d] = cpc[d],
         cpc'[c] \in {"none", "test"}
  PROVE  HeardSoFar'
<1>1. /\ Accepted' = Accepted \cup {c}
      /\ Place(c)' = Len(plist) + 1
      /\ \A d \in Accepted : Place(d)' = Place(d)
  BY LastPlace
<1>2. /\ Len(plist) \in Nat
      /\ \A d \in Accepted : d \in Conn /\ d # c /\ Place(d) \in 1..Len(plist)
  BY PlaceOf, LenProperties DEF TypeOK
<1>3. \A s, e \in Conn : FromTo(s, e)' = FromTo(s, e)
  BY DEF FromTo
<1>4. said[c] = << >>
  BY DEF InTheBuffer, AcceptedOnce
<1> SUFFICES ASSUME NEW s \in Conn, NEW e \in Conn
             PROVE  IF s \in Accepted' /\ e \in Accepted' /\ Place(e)' < Place(s)'
                      THEN /\ Begins(FromTo(s, e), said[s])
                           /\ peer'[e] \in {"up", "fin"} /\ cpc'[s] # "killed" =>
                                Len(said[s]) = Len(FromTo(s, e)) + Owed(s, e)'
                      ELSE FromTo(s, e) = << >>
  BY <1>3 DEF HeardSoFar
<1>5. CASE s \in Accepted /\ e \in Accepted
  <2>1. /\ Place(s)' = Place(s) /\ Place(e)' = Place(e)
        /\ peer'[e] = peer[e] /\ cpc'[s] = cpc[s]
        /\ s \in Accepted' /\ e \in Accepted'
    BY <1>1, <1>2, <1>5
  <2>2. Owed(s, e)' = Owed(s, e)
    BY <2>1 DEF Owed
  <2> QED BY <1>5, <2>1, <2>2 DEF HeardSoFar
<1>6. CASE s = c /\ e \in Accepted
  <2>1. FromTo(s, e) = << >>
    BY <1>6 DEF HeardSoFar
  <2>2. Begins(<< >>, << >>)
    <3>1. << >> \in Seq(Entry) /\ Len(<< >>) = 0
      BY EmptySeq
    <3>2. Len(SubSeq(<< >>, 1, 0)) = 0 /\ SubSeq(<< >>, 1, 0) \in Seq(Entry)
      BY <3>1, Prefix
    <3>3. SubSeq(<< >>, 1, 0) = << >>
      BY <3>2, EmptySeq
    <3> QED BY <3>1, <3>3 DEF Begins
  <2>3. Owed(s, e)' = 0
    BY <1>6 DEF Owed
  <2>4. Len(<< >>) = 0
    BY EmptySeq
  <2> QED BY <1>4, <1>6, <2>1, <2>2, <2>3, <2>4
<1>7. CASE e = c /\ s \in Accepted
  <2>1. ~(Place(e)' < Place(s)')
    BY <1>1, <1>2, <1>7
  <2>2. FromTo(s, e) = << >>
    BY <1>7 DEF HeardSoFar
  <2> QED BY <2>1, <2>2
<1>8. CASE s = c /\ e = c
  <2>1. ~(Place(e)' < Place(s)')
    BY <1>1, <1>2, <1>8
  <2>2. FromTo(s, e) = << >>
    BY <1>8 DEF HeardSoFar
  <2> QED BY <2>1, <2>2
<1>9. CASE s \notin Accepted' \/ e \notin Accepted'
  <2>1. s \notin Accepted \/ e \notin Accepted
    BY <1>1, <1>9
  <2>2. FromTo(s, e) = << >>
    BY <2>1 DEF HeardSoFar
  <2> QED BY <1>9, <2>2
<1> QED BY <1>1, <1>5, <1>6, <1>7, <1>8, <1>9

\* accept takes a client that was not there before.
LEMMA HeadIsNew ==
  ASSUME Inv, ppc = "accept"
  PROVE  /\ backlog # << >>
         /\ Head(backlog) \in Conn \ Accepted
         /\ peer[Head(backlog)] \notin {"new", "done"}
         /\ \A n \in DOMAIN Tail(backlog) :
              /\ Tail(backlog)[n] \in Conn /\ Tail(backlog)[n] # Head(backlog)
              /\ Tail(backlog)[n] \notin Accepted
              /\ peer[Tail(backlog)[n]] # "done"
<1> USE DEF Inv
<1>1. backlog # << >>
  BY DEF AcceptedOnce
<1>2. SockTypeOK /\ backlog \in Seq(Conn)
  BY DEF TypeOK, SockTypeOK
<1>3. /\ Head(backlog) \in Conn /\ Head(backlog) = backlog[1]
      /\ 1 \in 1..Len(backlog) /\ DOMAIN backlog = 1..Len(backlog)
      /\ Tail(backlog) \in Seq(Conn)
  BY <1>1, <1>2, BacklogHead, LenProperties
<1>4. DOMAIN Tail(backlog) = 1..Len(Tail(backlog))
  BY <1>3, LenProperties
<1>5. \A n \in DOMAIN Tail(backlog) : /\ n + 1 \in DOMAIN backlog
                                      /\ Tail(backlog)[n] = backlog[n + 1]
                                      /\ Tail(backlog)[n] \in Conn
  BY <1>1, <1>2, <1>3, <1>4, BacklogHead, ElementOfSeq
<1>6. \A n \in DOMAIN Tail(backlog) : Tail(backlog)[n] # Head(backlog)
  BY <1>1, <1>2, <1>4, HeadIsNobody
<1> QED BY <1>1, <1>3, <1>5, <1>6 DEF AcceptedOnce, Matched
\* accept, the list, and a child for the client (server.c:79).
LEMMA ForkInv ==
  ASSUME Inv, Fork
  PROVE  Inv'
<1> USE DEF Inv
<1>0. PICK h : h = Head(backlog)
  OBVIOUS
<1>1. /\ ppc = "accept" /\ ppc' = "test" /\ FreeFds # {}
      /\ UNCHANGED <<pflag, temp, recv_buff, said, peer, rx, sent, got>>
      /\ backlog' = Tail(backlog) /\ plist' = Append(plist, h)
      /\ fdt' = Opened(LowestFreeFd, h)
      /\ cpc' = [cpc EXCEPT ![h] = "test"]
      /\ cflag' = [cflag EXCEPT ![h] = pflag]
  BY <1>0 DEF Fork
<1>2. /\ backlog # << >> /\ h \in Conn \ Accepted /\ peer[h] \notin {"new", "done"}
      /\ \A n \in DOMAIN backlog' :
           /\ backlog'[n] \in Conn /\ backlog'[n] # h
           /\ backlog'[n] \notin Accepted /\ peer[backlog'[n]] # "done"
  BY <1>0, <1>1, HeadIsNew
<1>3. /\ plist' \in Seq(Conn) /\ Len(plist') = Len(plist) + 1
      /\ Accepted' = Accepted \cup {h}
      /\ \A m, n \in DOMAIN plist' : plist'[m] = plist'[n] => m = n
  BY <1>1, <1>2, LastPlace
<1>4. h \notin Forked /\ cpc[h] = "none"
  BY <1>2 DEF AcceptedOnce, Forked
<1>5. Forked' = Forked \cup {h} /\ Alive' = Alive \cup {h}
  BY <1>1, <1>2, <1>4 DEF Forked, Alive, TypeOK
<1>6. TypeOK'
  <2>1. fdt' \in [Fd -> Conn \cup {Free}]
    BY <1>1, <1>2, LowestFreeFdIsFree DEF Opened, TypeOK, SockTypeOK
  <2>2. backlog' \in Seq(Conn)
    BY <1>1, <1>2, BacklogHead DEF TypeOK
  <2>3. SockTypeOK'
    BY <1>1, <2>1, <2>2 DEF TypeOK, SockTypeOK
  <2>4. temp' \in [Conn -> 1..(Len(plist') + 1)]
    <3>1. temp \in [Conn -> 1..(Len(plist) + 1)] /\ Len(plist) \in Nat
      BY LenProperties DEF TypeOK
    <3>2. \A n \in 1..(Len(plist) + 1) : n \in 1..(Len(plist') + 1)
      BY <1>3, <3>1
    <3> QED BY <1>1, <3>1, <3>2
  <2>5. /\ cpc' \in [Conn -> {"none", "test", "select", "cast", "gone", "killed"}]
        /\ cflag' \in [Conn -> BOOLEAN]
    BY <1>1 DEF TypeOK
  <2> QED BY <1>1, <1>3, <2>3, <2>4, <2>5 DEF TypeOK
<1>7. Matched'
  BY <1>0, <1>1, <1>2, MatchedAccepted DEF TypeOK
<1>8. AcceptedOnce'
  BY <1>1, <1>2, <1>3, <1>5 DEF AcceptedOnce
<1>9. HeldOpen'
  <2>1. \A e \in Accepted' : peer'[e] # "done"
    BY <1>1, <1>2, <1>3 DEF HeldOpen
  <2> QED BY <2>1 DEF HeldOpen
<1>10. InTheBuffer'
  <2>1. \A s \in Conn : s # h => cpc'[s] = cpc[s]
    BY <1>1 DEF TypeOK
  <2>2. recv_buff[h] = << >>
    BY <1>2, <1>4 DEF InTheBuffer
  <2> QED BY <1>1, <1>5, <2>1, <2>2 DEF InTheBuffer
<1>11. HeardSoFar'
  <2>1. \A d \in Conn \ {h} : peer'[d] = peer[d] /\ cpc'[d] = cpc[d]
    BY <1>1 DEF TypeOK
  <2>2. cpc'[h] = "test"
    BY <1>1, <1>2 DEF TypeOK
  <2> QED BY <1>1, <1>2, <2>1, <2>2, HeardAtFork
<1> QED BY <1>6, <1>7, <1>8, <1>9, <1>10, <1>11

\* accept, the list, but no child (server.c:88): the client is let down.
LEMMA ForkFailsInv ==
  ASSUME Inv, ForkFails
  PROVE  Inv'
<1> USE DEF Inv
<1>0. PICK h : h = Head(backlog)
  OBVIOUS
<1>1. /\ ppc = "accept" /\ ppc' = "test" /\ pflag' = TRUE
      /\ UNCHANGED <<cpc, cflag, temp, recv_buff, said, fdt, rx, sent, got>>
      /\ backlog' = Tail(backlog) /\ plist' = Append(plist, h)
      /\ peer' = [peer EXCEPT ![h] = "done"]
  BY <1>0 DEF ForkFails, childVars
<1>2. /\ backlog # << >> /\ h \in Conn \ Accepted /\ peer[h] \notin {"new", "done"}
      /\ \A n \in DOMAIN backlog' :
           /\ backlog'[n] \in Conn /\ backlog'[n] # h
           /\ backlog'[n] \notin Accepted /\ peer[backlog'[n]] # "done"
  BY <1>0, <1>1, HeadIsNew
<1>3. /\ plist' \in Seq(Conn) /\ Len(plist') = Len(plist) + 1
      /\ Accepted' = Accepted \cup {h}
      /\ Place(h)' = Len(plist) + 1
      /\ \A d \in Accepted : Place(d)' = Place(d)
      /\ \A m, n \in DOMAIN plist' : plist'[m] = plist'[n] => m = n
  BY <1>1, <1>2, LastPlace
<1>4. /\ peer' \in [Conn -> PeerState] /\ peer'[h] = "done"
      /\ \A d \in Conn : d # h => peer'[d] = peer[d]
  BY <1>1, <1>2 DEF TypeOK, SockTypeOK, PeerState
<1>5. Forked' = Forked /\ Alive' = Alive /\ Alive \subseteq Forked
  BY <1>1 DEF Forked, Alive
<1>6. TypeOK'
  <2>1. backlog' \in Seq(Conn)
    BY <1>1, <1>2, BacklogHead DEF TypeOK
  <2>2. SockTypeOK'
    BY <1>1, <1>4, <2>1 DEF TypeOK, SockTypeOK
  <2>3. temp' \in [Conn -> 1..(Len(plist') + 1)]
    <3>1. temp \in [Conn -> 1..(Len(plist) + 1)] /\ Len(plist) \in Nat
      BY LenProperties DEF TypeOK
    <3>2. \A n \in 1..(Len(plist) + 1) : n \in 1..(Len(plist') + 1)
      BY <1>3, <3>1
    <3> QED BY <1>1, <3>1, <3>2
  <2> QED BY <1>1, <1>3, <2>2, <2>3 DEF TypeOK
<1>7. Matched'
  BY <1>0, <1>1, <1>2, <1>4, MatchedAccepted DEF TypeOK
<1>8. AcceptedOnce'
  <2>1. \A n \in DOMAIN backlog' : /\ backlog'[n] \notin Accepted'
                                   /\ peer'[backlog'[n]] # "done"
    BY <1>2, <1>3, <1>4
  <2>2. \A e \in Accepted' : peer'[e] # "new"
    BY <1>3, <1>4, PlaceOf DEF AcceptedOnce
  <2>3. Forked' \subseteq Accepted'
    BY <1>3, <1>5 DEF AcceptedOnce
  <2> QED BY <1>1, <1>3, <2>1, <2>2, <2>3 DEF AcceptedOnce
<1>9. HeldOpen'
  <2>1. ASSUME NEW s \in Alive, NEW e \in Accepted', Place(e)' <= Place(s)'
        PROVE  peer'[e] # "done"
    <3>1. /\ s \in Accepted /\ Place(s)' = Place(s)
          /\ Place(s) \in 1..Len(plist) /\ Len(plist) \in Nat
      BY <1>3, <1>5, PlaceOf DEF AcceptedOnce
    <3>2. e # h
      BY <1>3, <2>1, <3>1
    <3>3. e \in Accepted /\ e \in Conn /\ Place(e) <= Place(s)
      BY <1>3, <2>1, <3>1, <3>2, PlaceOf
    <3> QED BY <1>4, <3>2, <3>3 DEF HeldOpen
  <2> QED BY <1>1, <1>5, <2>1 DEF HeldOpen
<1>10. InTheBuffer'
  BY <1>1, <1>5 DEF InTheBuffer
<1>11. HeardSoFar'
  <2>1. \A d \in Conn \ {h} : peer'[d] = peer[d] /\ cpc'[d] = cpc[d]
    BY <1>1, <1>4
  <2>2. cpc'[h] = "none"
    BY <1>1, <1>2 DEF AcceptedOnce, Forked
  <2> QED BY <1>1, <1>2, <2>1, <2>2, HeardAtFork
<1> QED BY <1>6, <1>7, <1>8, <1>9, <1>10, <1>11

\* The steps of the parent.
LEMMA ParentStepInv ==
  ASSUME Inv, ParentStep
  PROVE  Inv'
<1>1. CASE TestFlag
  <2>1. CASE ParentExits
    BY <2>1, ParentExitsInv
  <2>2. CASE ~ParentExits
    BY <1>1, <2>2, ParentTurns DEF TestFlag
  <2> QED BY <2>1, <2>2
<1>2. CASE Select
  BY <1>2, ParentTurns DEF Select
<1>3. CASE AcceptFails
  BY <1>3, ParentExitsInv DEF AcceptFails
<1>4. CASE Fork
  BY <1>4, ForkInv
<1>5. CASE ForkFails
  BY <1>5, ForkFailsInv
<1> QED BY <1>1, <1>2, <1>3, <1>4, <1>5 DEF ParentStep

\* SIGINT ends nobody at once (server.c:12).
LEMMA SigIntInv ==
  ASSUME Inv, SigInt
  PROVE  Inv'
<1> USE DEF Inv
<1>1. PICK waiting \in SUBSET {c \in Alive : cpc[c] = "select" /\ ~Readable(c)} :
        cpc' = [c \in Conn |-> IF c \in waiting THEN "test" ELSE cpc[c]]
  BY DEF SigInt
<1>2. /\ pflag' = TRUE /\ cflag' \in [Conn -> BOOLEAN]
      /\ UNCHANGED <<plist, temp, recv_buff, said, backlog, fdt, peer, rx, sent, got>>
      /\ UNCHANGED ppc \/ (ppc = "select" /\ ppc' = "test")
  BY DEF SigInt, sockVars, TypeOK
<1>3. \A c \in Conn : \/ cpc'[c] = cpc[c]
                      \/ cpc[c] = "select" /\ cpc'[c] = "test"
  BY <1>1
<1>4. Forked' = Forked /\ Alive' = Alive
  BY <1>3 DEF Forked, Alive
<1>5. TypeOK'
  <2>1. cpc' \in [Conn -> {"none", "test", "select", "cast", "gone", "killed"}]
    BY <1>1 DEF TypeOK
  <2> QED BY <1>2, <2>1 DEF TypeOK, SockTypeOK
<1>6. Matched'
  BY <1>2 DEF Matched
<1>7. AcceptedOnce'
  <2>1. WearOut
    BY <1>2 DEF WearOut, TypeOK, SockTypeOK
  <2>2. ppc' = "accept" => backlog # << >>
    BY <1>2 DEF AcceptedOnce
  <2> QED BY <1>2, <1>4, <2>1, <2>2, AcceptedOnceKept
<1>8. HeldOpen'
  <2>1. ppc' \in {"select", "accept"} \/ (ppc' = "test" /\ ~pflag') =>
          ppc \in {"select", "accept"} \/ (ppc = "test" /\ ~pflag)
    BY <1>2
  <2> QED BY <1>2, <1>4, <2>1, HeldOpenKept
<1>9. InTheBuffer'
  BY <1>2, <1>3, <1>4 DEF InTheBuffer
<1>10. HeardSoFar'
  <2>1. \A s \in Accepted : cpc'[s] # "killed" =>
          /\ cpc[s] # "killed"
          /\ \A e \in Accepted : Owed(s, e)' = Owed(s, e)
    BY <1>2, <1>3, PlaceOf, SamePlaces DEF Owed
  <2> QED BY <1>2, <2>1, HeardKept
<1> QED BY <1>5, <1>6, <1>7, <1>8, <1>9, <1>10

\* What a client does to its connection: it comes, it sends, it leaves.
LEMMA ClientsAccepted ==
  ASSUME Inv, ClientsAct
  PROVE  /\ \A c \in Accepted : /\ peer'[c] # "new"
                                /\ peer'[c] = "done" <=> peer[c] = "done"
                                /\ peer'[c] \in {"up", "fin"} => peer[c] \in {"up", "fin"}
         /\ \A n \in DOMAIN backlog' : /\ backlog'[n] \notin Accepted
                                       /\ peer'[backlog'[n]] # "done"
<1> USE DEF Inv
<1>1. PICK c \in Conn : Connect(c) \/ Hangup(c) \/ \E m \in Message : Send(c, m)
  BY DEF ClientsAct, ClientStep
<1>2. /\ peer \in [Conn -> PeerState] /\ backlog \in Seq(Conn)
      /\ Len(backlog) \in Nat /\ DOMAIN backlog = 1..Len(backlog)
      /\ \A n \in DOMAIN backlog : backlog[n] \in Conn
  BY LenProperties, ElementOfSeq DEF TypeOK, SockTypeOK
<1>3. \A e \in Accepted : e \in Conn /\ peer[e] # "new"
  BY PlaceOf DEF AcceptedOnce
<1>4. CASE Connect(c)
  <2>1. /\ peer[c] = "new" /\ peer'[c] = "up"
        /\ \A d \in Conn : d # c => peer'[d] = peer[d]
        /\ backlog' = Append(backlog, c)
    BY <1>2, <1>4 DEF Connect
  <2>2. \A n \in DOMAIN backlog' : \/ n \in DOMAIN backlog /\ backlog'[n] = backlog[n]
                                   \/ backlog'[n] = c
    BY <1>2, <2>1, LenProperties
  <2>3. c \notin Accepted
    BY <1>3, <2>1
  <2>4. \A n \in DOMAIN backlog' : /\ backlog'[n] \notin Accepted
                                   /\ peer'[backlog'[n]] # "done"
    BY <1>2, <2>1, <2>2, <2>3 DEF AcceptedOnce
  <2> QED BY <1>3, <2>1, <2>3, <2>4
<1>5. CASE ~Connect(c)
  <2>1. /\ UNCHANGED backlog
        /\ \A d \in Conn : \/ peer'[d] = peer[d]
                           \/ peer[d] = "up" /\ peer'[d] \in {"fin", "rst"}
    BY <1>1, <1>2, <1>5 DEF Hangup, Send
  <2> QED BY <1>2, <1>3, <2>1 DEF AcceptedOnce
<1> QED BY <1>4, <1>5

\* The steps of the clients.
LEMMA ClientsActInv ==
  ASSUME Inv, ClientsAct
  PROVE  Inv'
<1> USE DEF Inv
<1>1. ClientStep /\ SockTypeOK /\ UNCHANGED <<ppc, pflag, plist, cpc, cflag, temp, recv_buff, said>>
  BY DEF ClientsAct, TypeOK, parentVars, childVars
<1>2. UNCHANGED got /\ (backlog # << >> => backlog' # << >>)
  BY <1>1, ClientsKeep
<1>3. Forked' = Forked /\ Alive' = Alive /\ Accepted' = Accepted
  BY <1>1 DEF Forked, Alive, Accepted
<1>4. TypeOK'
  BY <1>1, ClientStepType DEF TypeOK
<1>5. Matched'
  BY <1>1, MatchedClients
<1>6. AcceptedOnce'
  BY <1>1, <1>2, <1>3, ClientsAccepted DEF AcceptedOnce
<1>7. HeldOpen'
  BY <1>1, <1>3, ClientsAccepted, HeldOpenKept
<1>8. InTheBuffer'
  BY <1>1, <1>3 DEF InTheBuffer
<1>9. HeardSoFar'
  <2>1. \A s, e \in Accepted : Owed(s, e)' = Owed(s, e)
    BY <1>1, PlaceOf, SamePlaces DEF Owed
  <2> QED BY <1>1, <1>2, <2>1, ClientsAccepted, HeardKept
<1> QED BY <1>4, <1>5, <1>6, <1>7, <1>8, <1>9
----------------------------------------------------------------------------
(* The children. *)

\* What a child's step leaves alone; what it does to its own state is of the
\* right type, and it stays forked and does not come back to life.
ChildOnly(c) ==
  /\ UNCHANGED <<ppc, pflag, plist, cflag, backlog, fdt, sent>>
  /\ cpc' \in [Conn -> {"none", "test", "select", "cast", "gone", "killed"}]
  /\ cpc'[c] # "none"
  /\ \A d \in Conn \ {c} : /\ cpc'[d] = cpc[d] /\ temp'[d] = temp[d]
                           /\ recv_buff'[d] = recv_buff[d] /\ said'[d] = said[d]
  /\ WearOut

\* A living child keeps what does not depend on what is said.
LEMMA ChildKeeps ==
  ASSUME Inv, NEW c \in Alive, ChildOnly(c)
  PROVE  /\ c \in Conn /\ c \in Accepted /\ Accepted' = Accepted
         /\ Matched' /\ AcceptedOnce'
         /\ Forked' = Forked /\ Alive' \subseteq Alive
<1> USE DEF Inv, ChildOnly
<1>1. c \in Conn /\ c \in Forked /\ c \in Accepted
  BY DEF Alive, Forked, AcceptedOnce
<1>2. Forked' = Forked /\ Alive' \subseteq Alive
  BY <1>1 DEF Alive, Forked
<1>3. Matched'
  BY WearOutMatched
<1>4. AcceptedOnce'
  <2>1. ppc' = "accept" => backlog # << >>
    BY DEF AcceptedOnce
  <2> QED BY <1>2, <2>1, AcceptedOnceKept
<1> QED BY <1>1, <1>2, <1>3, <1>4, SamePlaces

\* A child that goes on, or ends, but reads nothing and writes nothing.
LEMMA ChildQuiet ==
  ASSUME Inv, NEW c \in Alive, ChildOnly(c), HeldOpen',
         UNCHANGED <<said, got, rx>>,
         temp' \in [Conn -> 1..(Len(plist) + 1)],
         recv_buff' \in [Conn -> Seq(Entry)],
         \/ recv_buff'[c] = << >>
         \/ recv_buff'[c] = recv_buff[c] /\ cpc'[c] \in {"cast", "killed"},
         cpc'[c] # "killed" =>
           \A e \in Accepted : Place(e) < Place(c) => Owed(c, e)' = Owed(c, e)
  PROVE  Inv'
<1> USE DEF Inv
<1>1. /\ c \in Conn /\ c \in Accepted /\ Matched' /\ AcceptedOnce'
      /\ Accepted' = Accepted /\ Forked' = Forked
  BY ChildKeeps
<1>2. Len(<< >>) <= 1
  BY EmptySeq
<1>3. TypeOK'
  <2>1. SockTypeOK'
    BY DEF TypeOK, SockTypeOK, ChildOnly, WearOut
  <2>2. \A d \in Conn : Len(recv_buff'[d]) <= 1
    BY <1>2 DEF TypeOK, ChildOnly
  <2> QED BY <2>1, <2>2 DEF TypeOK, ChildOnly
<1>4. InTheBuffer'
  <2> SUFFICES ASSUME NEW s \in Conn
               PROVE  /\ s \notin Forked => said'[s] = << >>
                      /\ recv_buff'[s] # << >> =>
                           /\ cpc'[s] \in {"cast", "killed"}
                           /\ said'[s] # << >>
                           /\ recv_buff'[s][1] = said'[s][Len(said'[s])]
                           /\ recv_buff'[s][1].from = s
    BY <1>1 DEF InTheBuffer
  <2>1. said'[s] = said[s]
    OBVIOUS
  <2>2. CASE s # c
    <3>1. recv_buff'[s] = recv_buff[s] /\ cpc'[s] = cpc[s]
      BY <2>2 DEF ChildOnly
    <3> QED BY <2>1, <3>1 DEF InTheBuffer
  <2>3. CASE s = c
    BY <2>1, <2>3 DEF InTheBuffer
  <2> QED BY <2>2, <2>3
<1>5. HeardSoFar'
  <2>1. \A e \in Accepted : peer'[e] \in {"up", "fin"} => peer[e] \in {"up", "fin"}
    BY PlaceOf DEF ChildOnly, WearOut
  <2>2. ASSUME NEW s \in Accepted, cpc'[s] # "killed"
        PROVE  /\ cpc[s] # "killed"
               /\ \A e \in Accepted : Place(e) < Place(s) => Owed(s, e)' = Owed(s, e)
    <3>1. CASE s = c
      BY <2>2, <3>1 DEF Alive
    <3>2. CASE s # c
      <4>1. s \in Conn /\ cpc'[s] = cpc[s] /\ temp'[s] = temp[s]
              /\ recv_buff'[s] = recv_buff[s]
        BY <3>2, PlaceOf DEF ChildOnly
      <4>2. \A e \in Accepted : Place(e)' = Place(e)
        BY PlaceOf, SamePlaces DEF ChildOnly
      <4> QED BY <2>2, <4>1, <4>2 DEF Owed
    <3> QED BY <3>1, <3>2
  <2>3. UNCHANGED plist
    BY DEF ChildOnly
  <2> QED BY <2>1, <2>2, <2>3, HeardKept
<1> QED BY <1>1, <1>3, <1>4, <1>5

\* While nobody ends, whoever is open stays open.
LEMMA ChildOpen ==
  ASSUME Inv, NEW c \in Alive, ChildOnly(c),
         \A e \in Accepted : peer[e] # "done" => peer'[e] # "done"
  PROVE  HeldOpen'
<1>1. Alive' \subseteq Alive
  BY ChildKeeps
<1> QED BY <1>1, HeldOpenKept DEF Inv, ChildOnly

\* Also when a child ends, nobody is closed whom another one can write to.
LEMMA ChildEndsOpen ==
  ASSUME Inv, NEW c \in Alive, ChildOnly(c),
         NEW how \in {"gone", "killed"}, NEW answers \in [Conn -> PeerState],
         ChildEnds(c, how, answers),
         \A d \in Conn : answers[d] = peer[d]
                           \/ (peer[d] = "fin" /\ answers[d] = "rst")
  PROVE  HeldOpen'
<1> USE DEF Inv
<1>1. /\ ppc # "exited" => \A d \in Conn : peer'[d] = answers[d]
      /\ \A s \in Alive \ {c}, e \in Accepted :
           Place(e) <= Place(s) => peer'[e] = answers[e]
  BY ChildEndsKeeps DEF Alive, Forked
<1>2. /\ Accepted' = Accepted /\ Accepted \subseteq Conn
      /\ \A d \in Conn : Place(d)' = Place(d)
      /\ UNCHANGED <<ppc, pflag>>
  BY SamePlaces, PlaceOf DEF ChildOnly
<1>3. Alive' \subseteq Alive \ {c} /\ Alive \subseteq Conn
  <2>1. cpc'[c] = how
    BY DEF ChildEnds, Move, TypeOK, Alive, Forked
  <2>2. c \notin Alive'
    BY <2>1 DEF Alive
  <2> QED BY <2>2, ChildKeeps DEF Alive, Forked
<1>4. ASSUME ppc \in {"select", "accept"} \/ (ppc = "test" /\ ~pflag), NEW e \in Accepted
      PROVE  peer'[e] # "done"
  BY <1>1, <1>2, <1>4 DEF HeldOpen
<1>5. ASSUME NEW s \in Alive \ {c}, NEW e \in Accepted, Place(e) <= Place(s)
      PROVE  peer'[e] # "done"
  BY <1>1, <1>2, <1>5 DEF HeldOpen
<1> QED BY <1>2, <1>3, <1>4, <1>5 DEF HeldOpen

\* The child looks at its flag (server.c:101).
LEMMA ChildTestInv ==
  ASSUME Inv, NEW c \in Forked, ChildTest(c)
  PROVE  Inv'
<1> USE DEF Inv
<1>1. /\ c \in Conn /\ c \in Alive /\ cpc[c] = "test"
      /\ UNCHANGED <<ppc, pflag, plist, cflag, temp, recv_buff, said,
                     backlog, fdt, rx, sent, got>>
  BY DEF ChildTest, parentVars, Forked, Alive
<1>2. recv_buff[c] = << >> /\ temp \in [Conn -> 1..(Len(plist) + 1)]
        /\ recv_buff \in [Conn -> Seq(Entry)] /\ peer \in [Conn -> PeerState]
  BY <1>1 DEF InTheBuffer, TypeOK, SockTypeOK
<1>3. \A to \in {"select", "gone"} :
        Move(c, to) => \A e \in Accepted : Owed(c, e)' = Owed(c, e)
  BY <1>1, <1>2 DEF Owed, Move, TypeOK
<1>4. CASE ChildEnds(c, "gone", peer)
  <2>1. Move(c, "gone")
    BY <1>4 DEF ChildEnds
  <2>2. PICK answers \in [Conn -> PeerState] : answers = peer
    BY <1>2
  <2>3. ChildEnds(c, "gone", answers)
    BY <1>4, <2>2 DEF ChildEnds
  <2>4. \A d \in Conn : answers[d] = peer[d]
    BY <2>2
  <2>5. WearOut
    BY <1>1, <2>3, <2>4, ChildEndsKeeps
  <2>6. ChildOnly(c)
    BY <1>1, <2>1, <2>5 DEF ChildOnly, Move, TypeOK
  <2>7. HeldOpen'
    BY <1>1, <2>3, <2>4, <2>6, ChildEndsOpen
  <2> QED BY <1>1, <1>2, <1>3, <2>1, <2>6, <2>7, ChildQuiet
<1>5. CASE Move(c, "select") /\ UNCHANGED peer
  <2>1. ChildOnly(c)
    BY <1>1, <1>2, <1>5 DEF ChildOnly, Move, TypeOK, WearOut
  <2>2. HeldOpen'
    BY <1>1, <1>5, <2>1, ChildOpen
  <2> QED BY <1>1, <1>2, <1>3, <1>5, <2>1, <2>2, ChildQuiet
<1> QED BY <1>4, <1>5 DEF ChildTest
\* One read is one more entry of what the client has said, and is owed to all
\* its elders (server.c:106).
LEMMA ChildReadInv ==
  ASSUME Inv, NEW c \in Forked, ChildRead(c)
  PROVE  Inv'
<1> USE DEF Inv
<1> DEFINE entry == [from |-> c, said |-> ReadChunk(c)]
<1>1. /\ c \in Conn /\ c \in Alive /\ cpc[c] = "select"
      /\ UNCHANGED <<ppc, pflag, plist, cflag, backlog, fdt, peer, sent, got>>
      /\ temp' = [temp EXCEPT ![c] = 1] /\ cpc' = [cpc EXCEPT ![c] = "cast"]
  BY DEF ChildRead, parentVars, Forked, Alive, Move
<1>2. /\ recv_buff[c] = << >> /\ recv_buff \in [Conn -> Seq(Entry)]
      /\ cpc'[c] = "cast" /\ temp'[c] = 1
      /\ c \in Accepted /\ Len(plist) \in Nat
  BY <1>1, LenProperties DEF InTheBuffer, TypeOK, AcceptedOnce
<1>3. temp' \in [Conn -> 1..(Len(plist) + 1)]
  <2>1. 1 \in 1..(Len(plist) + 1)
    BY <1>2
  <2> QED BY <1>1, <2>1 DEF TypeOK
<1>4. ASSUME \A d \in Conn \ {c} : recv_buff'[d] = recv_buff[d] /\ said'[d] = said[d]
      PROVE  ChildOnly(c) /\ HeldOpen'
  <2>1. ChildOnly(c)
    BY <1>1, <1>4 DEF ChildOnly, TypeOK, SockTypeOK, WearOut
  <2> QED BY <1>1, <2>1, ChildOpen
<1>5. CASE rx[c] = << >>
  <2>1. /\ recv_buff' = [recv_buff EXCEPT ![c] = << >>]
        /\ UNCHANGED <<said, rx>>
    BY <1>5 DEF ChildRead
  <2>2. recv_buff'[c] = << >> /\ recv_buff' \in [Conn -> Seq(Entry)]
    BY <1>1, <1>2, <2>1, EmptySeq
  <2>3. \A e \in Accepted : Owed(c, e)' = Owed(c, e)
    BY <1>2, <2>2 DEF Owed
  <2>4. ChildOnly(c) /\ HeldOpen'
    BY <1>2, <1>4, <2>1
  <2> QED BY <1>1, <1>3, <2>1, <2>2, <2>3, <2>4, ChildQuiet
<1>6. CASE rx[c] # << >>
  <2>1. /\ entry \in Entry /\ entry.from = c
        /\ Unread(c) \in Seq(Message)
    BY <1>1, <1>6, ReadType DEF Entry, TypeOK
  <2>2. /\ recv_buff' = [recv_buff EXCEPT ![c] = <<entry>>]
        /\ said' = [said EXCEPT ![c] = Append(@, entry)]
        /\ rx' = [rx EXCEPT ![c] = Unread(c)]
    BY <1>6 DEF ChildRead
  <2> HIDE DEF entry
  <2>3. /\ <<entry>> \in Seq(Entry) /\ Len(<<entry>>) = 1 /\ <<entry>>[1] = entry
        /\ <<entry>> # << >>
    <3>1. <<entry>> \in Seq(Entry) /\ Len(<<entry>>) = 1 /\ <<entry>>[1] = entry
      BY <2>1
    <3>2. Len(<< >>) = 0
      BY EmptySeq
    <3> QED BY <3>1, <3>2
  <2>4. /\ said[c] \in Seq(Entry) /\ said'[c] = Append(said[c], entry)
        /\ said'[c] \in Seq(Entry) /\ said'[c] # << >>
        /\ Len(said'[c]) = Len(said[c]) + 1 /\ Len(said[c]) \in Nat
        /\ said'[c][Len(said'[c])] = entry
    <3>1. said[c] \in Seq(Entry) /\ said'[c] = Append(said[c], entry)
      BY <1>1, <2>2 DEF TypeOK
    <3> QED BY <2>1, <3>1, AppendProperties, AppendIsLonger, LenProperties
  <2>5. /\ recv_buff'[c] = <<entry>> /\ Len(recv_buff'[c]) = 1
        /\ recv_buff'[c][1] = entry
        /\ \A d \in Conn \ {c} : recv_buff'[d] = recv_buff[d] /\ said'[d] = said[d]
    BY <1>1, <1>2, <2>2, <2>3 DEF TypeOK
  <2>6. /\ ChildOnly(c) /\ HeldOpen' /\ Matched' /\ AcceptedOnce'
        /\ Accepted' = Accepted /\ Forked' = Forked
        /\ \A d \in Conn : Place(d)' = Place(d)
    BY <1>1, <1>4, <2>5, ChildKeeps, SamePlaces
  <2>7. TypeOK'
    <3>1. SockTypeOK'
      BY <1>1, <2>1, <2>2 DEF TypeOK, SockTypeOK
    <3>2. recv_buff' \in [Conn -> Seq(Entry)]
      BY <1>1, <1>2, <2>2, <2>3
    <3>3. said' \in [Conn -> Seq(Entry)]
      <4>1. Append(said[c], entry) \in Seq(Entry) /\ said \in [Conn -> Seq(Entry)]
        BY <2>4 DEF TypeOK
      <4> QED BY <2>2, <4>1
    <3>4. \A d \in Conn : Len(recv_buff'[d]) <= 1
      <4>1. \A d \in Conn \ {c} : Len(recv_buff'[d]) <= 1
        BY <2>5 DEF TypeOK
      <4>2. Len(recv_buff'[c]) <= 1
        BY <2>5
      <4> QED BY <4>1, <4>2
    <3> QED BY <1>1, <1>3, <2>6, <3>1, <3>2, <3>3, <3>4 DEF TypeOK, ChildOnly
  <2>8. InTheBuffer'
    <3> SUFFICES ASSUME NEW s \in Conn
                 PROVE  /\ s \notin Forked => said'[s] = << >>
                        /\ recv_buff'[s] # << >> =>
                             /\ cpc'[s] \in {"cast", "killed"}
                             /\ said'[s] # << >>
                             /\ recv_buff'[s][1] = said'[s][Len(said'[s])]
                             /\ recv_buff'[s][1].from = s
      BY <2>6 DEF InTheBuffer
    <3>1. CASE s # c
      <4>1. recv_buff'[s] = recv_buff[s] /\ cpc'[s] = cpc[s] /\ said'[s] = said[s]
        BY <2>6, <3>1 DEF ChildOnly
      <4> QED BY <4>1 DEF InTheBuffer
    <3>2. CASE s = c
      BY <1>2, <2>1, <2>4, <2>5, <3>2
    <3> QED BY <3>1, <3>2
  <2>9. HeardSoFar'
    <3>1. \A s, e \in Conn : FromTo(s, e)' = FromTo(s, e)
      BY <1>1 DEF FromTo
    <3> SUFFICES ASSUME NEW s \in Conn, NEW e \in Conn
                 PROVE  IF s \in Accepted /\ e \in Accepted /\ Place(e) < Place(s)
                          THEN /\ Begins(FromTo(s, e), said'[s])
                               /\ peer[e] \in {"up", "fin"} /\ cpc'[s] # "killed" =>
                                    Len(said'[s]) = Len(FromTo(s, e)) + Owed(s, e)'
                          ELSE FromTo(s, e) = << >>
      BY <1>1, <2>6, <3>1 DEF HeardSoFar
    <3>2. CASE s # c
      <4>1. /\ recv_buff'[s] = recv_buff[s] /\ cpc'[s] = cpc[s]
            /\ said'[s] = said[s] /\ temp'[s] = temp[s]
        BY <2>6, <3>2 DEF ChildOnly
      <4>2. Owed(s, e)' = Owed(s, e)
        BY <2>6, <4>1 DEF Owed
      <4> QED BY <4>1, <4>2 DEF HeardSoFar
    <3>3. CASE s = c /\ ~(e \in Accepted /\ Place(e) < Place(s))
      BY <3>3 DEF HeardSoFar
    <3>4. CASE s = c /\ e \in Accepted /\ Place(e) < Place(s)
      <4>1. /\ Begins(FromTo(s, e), said[s])
            /\ peer[e] \in {"up", "fin"} => Len(said[s]) = Len(FromTo(s, e)) + Owed(s, e)
        BY <1>1, <1>2, <3>4 DEF HeardSoFar
      <4>2. Owed(s, e) = 0
        BY <1>1, <3>4 DEF Owed
      <4>3. Owed(s, e)' = 1
        <5>1. 1 <= Place(e)
          BY <3>4, PlaceOf
        <5>2. recv_buff'[c] # << >>
          BY <2>3, <2>5
        <5>3. Place(e)' = Place(e)
          BY <2>6
        <5> QED BY <1>2, <3>4, <5>1, <5>2, <5>3 DEF Owed
      <4>4. FromTo(s, e) \in Seq(Entry) /\ Len(FromTo(s, e)) \in Nat
        BY SaidByType, LenProperties DEF FromTo, TypeOK, SockTypeOK
      <4>5. Begins(FromTo(s, e), said'[s])
        BY <2>1, <2>4, <3>4, <4>1, <4>4, BeginsOfMore
      <4>6. peer[e] \in {"up", "fin"} => Len(said'[s]) = Len(FromTo(s, e)) + Owed(s, e)'
        BY <2>4, <3>4, <4>1, <4>2, <4>3, <4>4
      <4> QED BY <1>2, <3>4, <4>5, <4>6
    <3> QED BY <3>2, <3>3, <3>4
  <2> QED BY <2>6, <2>7, <2>8, <2>9
<1> QED BY <1>5, <1>6
\* The loop over the list is at a client that was accepted before the child's own,
\* or at the child's own (server.c:110).
LEMMA ChildAt ==
  ASSUME Inv, NEW c \in Forked, cpc[c] = "cast", temp[c] <= Len(ListOf(c))
  PROVE  LET to == ListOf(c)[temp[c]]
         IN /\ to \in Accepted /\ to \in Conn /\ Place(to) = temp[c]
            /\ to # c => Place(to) < Place(c)
            /\ temp[c] + 1 \in 1..(Len(plist) + 1)
<1> USE DEF Inv
<1>1. c \in Conn /\ c \in Accepted
  BY DEF Forked, AcceptedOnce
<1>2. /\ Len(ListOf(c)) = Place(c) /\ Len(plist) \in Nat
      /\ Place(c) \in 1..Len(plist) /\ plist[Place(c)] = c
      /\ \A n \in 1..Place(c) : ListOf(c)[n] = plist[n] /\ plist[n] \in Accepted
  BY <1>1, PlaceOf, ListOfEnds
<1>3. temp[c] \in 1..(Len(plist) + 1)
  BY <1>1 DEF TypeOK
<1>4. temp[c] \in 1..Place(c) /\ temp[c] \in DOMAIN plist
  BY <1>1, <1>2, <1>3, PlaceOf
<1> DEFINE to == ListOf(c)[temp[c]]
<1>5. to = plist[temp[c]] /\ to \in Accepted
  BY <1>2, <1>4
<1>6. to \in Conn /\ Place(to) = temp[c]
  BY <1>4, <1>5, PlaceOf
<1>7. to # c => temp[c] # Place(c)
  BY <1>2, <1>5
<1> HIDE DEF to
<1>8. (to # c => Place(to) < Place(c)) /\ temp[c] + 1 \in 1..(Len(plist) + 1)
  BY <1>2, <1>3, <1>4, <1>6, <1>7
<1> QED BY <1>5, <1>6, <1>8 DEF to

\* What is written to an elder is the entry that it lacks.
LEMMA ChildDelivers ==
  ASSUME Inv, NEW c \in Forked, NEW to \in Accepted,
         cpc[c] = "cast", Place(to) = temp[c], Place(to) < Place(c),
         recv_buff[c] # << >>,
         got' = Delivered({to}, recv_buff[c][1]), peer' \in Answers({to}),
         temp' = [temp EXCEPT ![c] = temp[c] + 1],
         UNCHANGED <<plist, cpc, recv_buff, said>>
  PROVE  HeardSoFar'
<1> USE DEF Inv
<1>1. PICK entry : entry = recv_buff[c][1]
  OBVIOUS
<1>2. /\ c \in Conn /\ c \in Alive /\ c \in Accepted /\ to \in Conn
      /\ temp'[c] = temp[c] + 1 /\ temp[c] \in Nat
      /\ \A d \in Conn : d # c => temp'[d] = temp[d]
  <2>1. c \in Conn /\ c \in Alive /\ c \in Accepted /\ to \in Conn
    BY PlaceOf DEF Forked, Alive, AcceptedOnce
  <2>2. temp \in [Conn -> 1..(Len(plist) + 1)]
    BY DEF TypeOK
  <2>3. temp[c] \in Nat
    BY <2>1, <2>2
  <2> QED BY <2>1, <2>2, <2>3
<1>3. /\ said[c] \in Seq(Entry) /\ said[c] # << >> /\ Len(said[c]) \in Nat \ {0}
      /\ entry = said[c][Len(said[c])] /\ entry.from = c /\ entry \in Entry
  <2>1. /\ said[c] \in Seq(Entry) /\ said[c] # << >>
        /\ entry = said[c][Len(said[c])] /\ entry.from = c
    BY <1>1, <1>2 DEF InTheBuffer, TypeOK
  <2>2. Len(said[c]) \in Nat \ {0}
    BY <2>1, EmptySeq
  <2> QED BY <2>1, <2>2, ElementOfSeq
<1>4. entry # Announcement
  <2>1. Announcement.from = "server"
    BY DEF Announcement
  <2> QED BY <1>2, <1>3, <2>1, TranscriptAssumption
<1>5. /\ \A e \in Conn : got[e] \in Seq(Entry)
      /\ \A e \in Conn : e # to \/ peer[to] = "rst" => got'[e] = got[e]
      /\ peer[to] # "rst" => got'[to] = Append(got[to], entry)
  BY <1>1, <1>2, <1>4 DEF TypeOK, SockTypeOK, Delivered, Hear
<1>6. \A e \in Conn : peer'[e] \in {"up", "fin"} => peer'[e] = peer[e]
  BY AnswersType DEF TypeOK
<1>7. \A d \in Conn : Place(d)' = Place(d)
  BY SamePlaces
<1>8. Accepted' = Accepted
  BY SamePlaces
<1> SUFFICES ASSUME NEW s \in Conn, NEW e \in Conn
             PROVE  LET heard == SaidBy(s, got'[e])
                    IN IF s \in Accepted /\ e \in Accepted /\ Place(e) < Place(s)
                         THEN /\ Begins(heard, said[s])
                              /\ peer'[e] \in {"up", "fin"} /\ cpc[s] # "killed" =>
                                   Len(said[s]) = Len(heard) + Owed(s, e)'
                         ELSE heard = << >>
  BY <1>7, <1>8 DEF HeardSoFar, FromTo
<1>9. CASE s # c
  <2>1. SaidBy(s, got'[e]) = SaidBy(s, got[e])
    <3>1. CASE got'[e] = got[e]
      BY <3>1
    <3>2. CASE e = to /\ got'[e] = Append(got[e], entry)
      <4>1. SaidBy(s, Append(got[e], entry)) = SaidBy(s, got[e])
        <5>1. got[e] \in Seq(Entry) /\ entry \in Entry /\ entry.from # s
          BY <1>3, <1>5, <1>9
        <5> QED BY Zenon, <5>1, SaidByAppend
      <4> QED BY <3>2, <4>1
    <3> QED BY <1>5, <3>1, <3>2
  <2>2. Owed(s, e)' = Owed(s, e)
    BY <1>2, <1>7, <1>9 DEF Owed
  <2> QED BY <1>6, <2>1, <2>2 DEF HeardSoFar, FromTo
<1>10. CASE s = c /\ e # to
  <2>1. SaidBy(s, got'[e]) = SaidBy(s, got[e])
    BY <1>5, <1>10
  <2>2. CASE e \in Accepted
    <3>1. Place(e) \in Nat /\ Place(e) # temp[c]
      BY <1>10, <2>2, PlaceOf
    <3>2. Owed(s, e)' = Owed(s, e)
      BY <1>2, <1>7, <1>10, <3>1 DEF Owed
    <3> QED BY <1>6, <2>1, <3>2 DEF HeardSoFar, FromTo
  <2>3. CASE e \notin Accepted
    BY <2>1, <2>3 DEF HeardSoFar, FromTo
  <2> QED BY <2>2, <2>3
<1>11. CASE s = c /\ e = to /\ peer[to] = "rst"
  <2>1. SaidBy(s, got'[e]) = SaidBy(s, got[e])
    BY <1>2, <1>5, <1>11
  <2>2. peer'[e] \notin {"up", "fin"}
    BY <1>2, <1>6, <1>11
  <2>3. Begins(SaidBy(s, got[e]), said[s])
    BY <1>2, <1>11 DEF HeardSoFar, FromTo
  <2> QED BY <1>2, <1>11, <2>1, <2>2, <2>3
<1>12. CASE s = c /\ e = to /\ peer[to] # "rst"
  <2>1. peer[to] \in {"up", "fin"}
    <3>1. peer[to] # "new" /\ peer[to] \in PeerState
      BY <1>2 DEF AcceptedOnce, TypeOK, SockTypeOK
    <3>2. peer[to] # "done"
      <4>1. Place(to) <= Place(c)
        BY <1>2, PlaceOf
      <4> QED BY <1>2, <4>1 DEF HeldOpen
    <3> QED BY <1>12, <3>1, <3>2 DEF PeerState
  <2>2. PICK heard : heard = SaidBy(s, got[e])
    OBVIOUS
  <2>3. heard \in Seq(Entry) /\ Len(heard) \in Nat
    BY <1>5, <2>2, SaidByType, LenProperties
  <2>4. Owed(s, e) = 1
    BY <1>2, <1>12 DEF Owed
  <2>5. Begins(heard, said[c]) /\ Len(said[c]) = Len(heard) + 1
    BY <1>2, <1>12, <2>1, <2>2, <2>4 DEF HeardSoFar, FromTo
  <2>6. SaidBy(s, got'[e]) = Append(heard, entry)
    <3>1. got[e] \in Seq(Entry) /\ entry \in Entry /\ entry.from = s
      BY <1>3, <1>5, <1>12
    <3>2. SaidBy(s, Append(got[e], entry)) = Append(heard, entry)
      BY Zenon, <2>2, <3>1, SaidByAppend
    <3>3. got'[e] = Append(got[e], entry)
      BY <1>5, <1>12
    <3> QED BY <3>2, <3>3
  <2>7. /\ Begins(Append(heard, entry), said[c])
        /\ Len(Append(heard, entry)) = Len(said[c])
    BY <1>3, <2>3, <2>5, BeginsToEnd
  <2>8. Owed(s, e)' = 0
    <3>1. ~(temp'[c] <= Place(e)')
      BY <1>2, <1>7, <1>12
    <3> QED BY <1>12, <3>1 DEF Owed
  <2>9. Len(said[s]) = Len(SaidBy(s, got'[e])) + Owed(s, e)'
    BY <1>3, <1>12, <2>6, <2>7, <2>8
  <2> QED BY <1>2, <1>12, <2>6, <2>7, <2>9
<1> QED BY <1>9, <1>10, <1>11, <1>12
\* One node of the list (server.c:110): a write, nothing, or the end by SIGPIPE.
LEMMA ChildWriteInv ==
  ASSUME Inv, NEW c \in Forked, ChildWrite(c)
  PROVE  Inv'
<1> USE DEF Inv
<1>1. PICK to : to = ListOf(c)[temp[c]]
  OBVIOUS
<1>2. /\ c \in Conn /\ c \in Alive /\ c \in Accepted /\ cpc[c] = "cast"
      /\ temp[c] <= Len(ListOf(c))
      /\ UNCHANGED <<ppc, pflag, plist, cflag, recv_buff, said,
                     backlog, fdt, rx, sent>>
      /\ temp' = [temp EXCEPT ![c] = temp[c] + 1]
  BY DEF ChildWrite, parentVars, Forked, Alive, AcceptedOnce, Following
<1>3. /\ to \in Accepted /\ to \in Conn /\ Place(to) = temp[c]
      /\ to # c => Place(to) < Place(c)
      /\ temp[c] + 1 \in 1..(Len(plist) + 1)
  BY <1>1, <1>2, ChildAt
<1>4. /\ temp' \in [Conn -> 1..(Len(plist) + 1)]
      /\ recv_buff' \in [Conn -> Seq(Entry)] /\ said' \in [Conn -> Seq(Entry)]
      /\ temp'[c] = temp[c] + 1 /\ temp[c] \in Nat
      /\ \A d \in Conn : d # c => temp'[d] = temp[d]
  <2>1. temp[c] \in 1..(Len(plist) + 1)
    BY <1>2 DEF TypeOK
  <2>2. temp[c] \in Nat
    BY <2>1
  <2> QED BY <1>2, <1>3, <2>2 DEF TypeOK
<1>5. CASE UNCHANGED <<cpc, peer, got>> /\ (to = c \/ recv_buff[c] = << >>)
  <2>1. ChildOnly(c)
    BY <1>2, <1>4, <1>5 DEF ChildOnly, TypeOK, SockTypeOK, WearOut
  <2>2. HeldOpen'
    BY <1>2, <1>5, <2>1, ChildOpen
  <2>3. ASSUME NEW e \in Accepted, Place(e) < Place(c)
        PROVE  Owed(c, e)' = Owed(c, e)
    <3>1. Place(e) \in Nat /\ Place(e)' = Place(e)
      BY <1>2, PlaceOf, SamePlaces
    <3>2. recv_buff[c] # << >> => ~(temp[c] <= Place(e)) /\ ~(temp'[c] <= Place(e))
      BY <1>3, <1>4, <1>5, <2>3, <3>1
    <3> QED BY <1>2, <3>1, <3>2 DEF Owed
  <2>4. recv_buff'[c] = recv_buff[c] /\ cpc'[c] = "cast"
    BY <1>2, <1>5
  <2> QED BY <1>2, <1>4, <1>5, <2>1, <2>2, <2>3, <2>4, ChildQuiet
<1>6. CASE /\ to # c /\ UNCHANGED cpc /\ recv_buff[c] # << >>
           /\ got' = Delivered({to}, recv_buff[c][1])
           /\ peer' \in Answers({to})
  <2>1. /\ WearOut /\ \A d \in Conn : peer[d] # "done" => peer'[d] # "done"
    BY <1>6, AnswersWearOut, AnswersType DEF TypeOK
  <2>2. ChildOnly(c)
    BY <1>2, <1>4, <1>6, <2>1 DEF ChildOnly, TypeOK
  <2>3. HeldOpen'
    BY <1>2, <2>1, <2>2, PlaceOf, ChildOpen
  <2>4. /\ Matched' /\ AcceptedOnce' /\ Forked' = Forked
    BY <1>2, <2>2, ChildKeeps
  <2>5. TypeOK'
    <3>1. recv_buff[c][1] \in Entry
      BY <1>2, <1>6, ElementOfSeq, EmptySeq DEF TypeOK
    <3>2. got' \in [Conn -> Seq(Entry)]
      BY <1>6, <3>1, DeliveredType DEF TypeOK
    <3>3. SockTypeOK'
      BY <1>2, <2>1, <3>2 DEF TypeOK, SockTypeOK, WearOut
    <3> QED BY <1>2, <1>4, <1>6, <3>3 DEF TypeOK
  <2>6. InTheBuffer'
    BY <1>2, <1>6, <2>4 DEF InTheBuffer
  <2>7. HeardSoFar'
    BY <1>2, <1>3, <1>6, ChildDelivers
  <2> QED BY <2>3, <2>4, <2>5, <2>6, <2>7
<1>7. CASE ChildEnds(c, "killed", peer) /\ UNCHANGED got
  <2>1. PICK answers \in [Conn -> PeerState] : answers = peer
    BY DEF TypeOK, SockTypeOK
  <2>2. ChildEnds(c, "killed", answers) /\ \A d \in Conn : answers[d] = peer[d]
    BY <1>7, <2>1 DEF ChildEnds
  <2>3. WearOut
    BY <1>2, <2>2, ChildEndsKeeps
  <2>4. cpc' = [cpc EXCEPT ![c] = "killed"] /\ cpc'[c] = "killed"
    BY <1>2, <2>2 DEF ChildEnds, Move, TypeOK
  <2>5. ChildOnly(c)
    BY <1>2, <1>4, <2>3, <2>4 DEF ChildOnly, TypeOK
  <2>6. HeldOpen'
    BY <1>2, <2>2, <2>5, ChildEndsOpen
  <2> QED BY <1>2, <1>4, <1>7, <2>4, <2>5, <2>6, ChildQuiet
<1> QED BY <1>1, <1>2, <1>5, <1>6, <1>7 DEF ChildWrite

\* At the end of its list the child stops or looks at its flag again; everybody
\* has been written what was owed (server.c:118).
LEMMA ChildLoopsInv ==
  ASSUME Inv, NEW c \in Forked, ChildLoops(c)
  PROVE  Inv'
<1> USE DEF Inv
<1>1. /\ c \in Conn /\ c \in Alive /\ c \in Accepted /\ cpc[c] = "cast"
      /\ temp[c] > Len(ListOf(c))
      /\ temp' = [temp EXCEPT ![c] = 1]
      /\ recv_buff' = [recv_buff EXCEPT ![c] = << >>]
      /\ UNCHANGED <<ppc, pflag, plist, cflag, said, backlog, fdt, rx, sent, got>>
  BY DEF ChildLoops, parentVars, Forked, Alive, AcceptedOnce
<1>2. /\ Len(plist) \in Nat /\ Place(c) \in Nat /\ Len(ListOf(c)) = Place(c)
  BY <1>1, PlaceOf, ListOfEnds
<1>3. temp' \in [Conn -> 1..(Len(plist) + 1)] /\ temp[c] \in Nat
  <2>1. 1 \in 1..(Len(plist) + 1) /\ \A n \in 1..(Len(plist) + 1) : n \in Nat
    BY <1>2
  <2>2. temp \in [Conn -> 1..(Len(plist) + 1)]
    BY DEF TypeOK
  <2> QED BY <1>1, <2>1, <2>2
<1>4. /\ recv_buff' \in [Conn -> Seq(Entry)] /\ recv_buff'[c] = << >>
      /\ \A d \in Conn : d # c => recv_buff'[d] = recv_buff[d] /\ temp'[d] = temp[d]
  BY <1>1, <1>3, EmptySeq DEF TypeOK
<1>5. ASSUME NEW e \in Accepted, Place(e) < Place(c)
      PROVE  Owed(c, e)' = Owed(c, e)
  <2>1. ~(temp[c] <= Place(e))
    BY <1>1, <1>2, <1>3, <1>5, PlaceOf
  <2> QED BY <1>4, <2>1 DEF Owed
<1>6. ASSUME NEW to \in {"gone", "test"}, Move(c, to), WearOut
      PROVE  ChildOnly(c)
  BY <1>1, <1>4, <1>6 DEF ChildOnly, Move, TypeOK
<1>7. CASE \E answers \in Answers({c}) : ChildEnds(c, "gone", answers)
  <2>1. PICK answers \in Answers({c}) : ChildEnds(c, "gone", answers)
    BY <1>7
  <2>2. /\ answers \in [Conn -> PeerState]
        /\ \A d \in Conn : answers[d] = peer[d]
                             \/ (peer[d] = "fin" /\ answers[d] = "rst")
    BY AnswersType DEF TypeOK
  <2>3. WearOut
    BY <1>1, <2>1, <2>2, ChildEndsKeeps
  <2>4. ChildOnly(c)
    BY <1>6, <2>1, <2>3 DEF ChildEnds
  <2>5. HeldOpen'
    BY <1>1, <2>1, <2>2, <2>4, ChildEndsOpen
  <2> QED BY <1>1, <1>3, <1>4, <1>5, <2>4, <2>5, ChildQuiet
<1>8. CASE Move(c, "test") /\ UNCHANGED peer
  <2>1. WearOut
    BY <1>8 DEF WearOut, TypeOK, SockTypeOK
  <2>2. ChildOnly(c)
    BY <1>6, <1>8, <2>1
  <2>3. HeldOpen'
    BY <1>1, <1>8, <2>2, ChildOpen
  <2> QED BY <1>1, <1>3, <1>4, <1>5, <2>2, <2>3, ChildQuiet
<1> QED BY <1>7, <1>8 DEF ChildLoops

----------------------------------------------------------------------------
(* The theorems. *)

\* Every step keeps the inductive invariant.
LEMMA NextInv == Inv /\ [Next]_vars => Inv'
<1> SUFFICES ASSUME Inv, [Next]_vars PROVE Inv'
  OBVIOUS
<1>1. CASE ParentStep
  BY <1>1, ParentStepInv
<1>2. CASE SigInt
  BY <1>2, SigIntInv
<1>3. CASE ClientsAct
  BY <1>3, ClientsActInv
<1>4. CASE \E c \in Forked : ChildStep(c)
  <2>1. PICK c \in Forked : ChildStep(c)
    BY <1>4
  <2> QED BY <2>1, ChildTestInv, ChildReadInv, ChildWriteInv, ChildLoopsInv
          DEF ChildStep
<1>5. CASE UNCHANGED vars
  BY <1>5, ParentTurns DEF vars, parentVars
<1> QED BY <1>1, <1>2, <1>3, <1>4, <1>5 DEF Next

\* Inv holds always, for any clients, texts and descriptors.
THEOREM InvHolds == Spec => []Inv
<1> QED BY InitInv, NextInv, PTL DEF Spec

\* The values of the variables are what the code expects them to be.
THEOREM TypeCorrect == Spec => []TypeOK
<1>1. Inv => TypeOK
  BY DEF Inv
<1> QED BY <1>1, InvHolds, PTL

\* However the children's writes interleave, what a client says reaches those who
\* were accepted before it, in order, once and, as long as they are there and its
\* child was not killed, all of it but what is being written; and nobody else
\* (server.c:101-121).
THEOREM EldersHearHolds == Spec => []EldersHear
<1>1. Inv => EldersHear
  <2> SUFFICES ASSUME Inv, NEW s \in Accepted, NEW e \in Accepted
               PROVE  LET heard == FromTo(s, e)
                      IN IF Place(e) < Place(s)
                           THEN /\ Begins(heard, said[s])
                                /\ peer[e] \in {"up", "fin"} /\ cpc[s] # "killed" =>
                                     Len(said[s]) - Len(heard)
                                       <= IF cpc[s] = "cast" THEN 1 ELSE 0
                           ELSE heard = << >>
    BY DEF EldersHear
  <2> USE DEF Inv
  <2>1. s \in Conn /\ e \in Conn
    BY PlaceOf
  <2>2. CASE Place(e) < Place(s)
    <3>1. Begins(FromTo(s, e), said[s])
      BY <2>1, <2>2 DEF HeardSoFar
    <3>2. ASSUME peer[e] \in {"up", "fin"}, cpc[s] # "killed"
          PROVE  Len(said[s]) - Len(FromTo(s, e)) <= IF cpc[s] = "cast" THEN 1 ELSE 0
      <4>1. Len(said[s]) = Len(FromTo(s, e)) + Owed(s, e)
        BY <2>1, <2>2, <3>2 DEF HeardSoFar
      <4>2. Len(FromTo(s, e)) \in Nat
        BY <2>1, SaidByType, LenProperties DEF FromTo, TypeOK, SockTypeOK
      <4>3. /\ Owed(s, e) \in {0, 1}
            /\ Owed(s, e) = 1 => cpc[s] = "cast"
        BY DEF Owed
      <4> QED BY <4>1, <4>2, <4>3
    <3> QED BY <2>2, <3>1, <3>2
  <2>3. CASE ~(Place(e) < Place(s))
    BY <2>1, <2>3 DEF HeardSoFar
  <2> QED BY <2>2, <2>3
<1> QED BY <1>1, InvHolds, PTL

----------------------------------------------------------------------------
(* Why a child ends. *)

Gone == {"fin", "rst", "done"}

\* A child that goes round its list with nothing has seen the end of its
\* client's connection.
EndSeen ==
  \A c \in Conn : cpc[c] = "cast" /\ recv_buff[c] = << >> => peer[c] \in Gone

\* A connection that is closed, from whichever side, does not come up again.
LEMMA GoneStays ==
  ASSUME Inv, [Next]_vars, NEW c \in Conn, peer[c] \in Gone
  PROVE  peer'[c] \in Gone
<1> USE DEF Inv, Gone
<1>1. SockTypeOK /\ peer \in [Conn -> PeerState]
  BY DEF TypeOK, SockTypeOK
<1>2. ASSUME NEW processes, NEW answers \in [Conn -> PeerState],
             answers[c] \in Gone, peer' = Left(processes, answers)
      PROVE  peer'[c] \in Gone
  BY <1>2, LeftIs
<1>3. ASSUME NEW targets, NEW answers \in Answers(targets)
      PROVE  answers \in [Conn -> PeerState] /\ answers[c] \in Gone
  BY <1>1, AnswersType
<1>4. CASE ParentStep
  <2>1. ParentExits => peer'[c] \in Gone
    BY <1>1, <1>2 DEF ParentExits
  <2>2. ForkFails => peer'[c] \in Gone
    BY <1>1 DEF ForkFails
  <2>3. ~ParentExits /\ ~ForkFails => UNCHANGED peer
    BY <1>4 DEF ParentStep, TestFlag, Select, AcceptFails, Fork, sockVars
  <2> QED BY <2>1, <2>2, <2>3
<1>5. CASE SigInt \/ UNCHANGED vars
  BY <1>5 DEF SigInt, vars, sockVars
<1>6. CASE ClientsAct
  BY <1>1, <1>6 DEF ClientsAct, ClientStep, Connect, Hangup, Send
<1>7. CASE \E s \in Forked : ChildStep(s)
  <2>1. PICK s \in Forked : ChildStep(s)
    BY <1>7
  <2>2. \/ UNCHANGED peer
        \/ \E how : ChildEnds(s, how, peer)
        \/ \E targets : peer' \in Answers(targets)
        \/ \E answers \in Answers({s}) : ChildEnds(s, "gone", answers)
    BY <2>1 DEF ChildStep, ChildTest, ChildRead, ChildWrite, ChildLoops
  <2>3. ASSUME NEW how, ChildEnds(s, how, peer) PROVE peer'[c] \in Gone
    BY <1>1, <1>2, <2>3 DEF ChildEnds
  <2>4. ASSUME NEW answers \in Answers({s}), ChildEnds(s, "gone", answers)
        PROVE  peer'[c] \in Gone
    BY <1>2, <1>3, <2>4 DEF ChildEnds
  <2> QED BY <1>3, <2>2, <2>3, <2>4
<1> QED BY <1>4, <1>5, <1>6, <1>7 DEF Next

\* A child comes to its list only by a read, and keeps what it read till the end.
LEMMA ReadBeforeCast ==
  ASSUME Inv, [Next]_vars, NEW c \in Conn, cpc'[c] = "cast"
  PROVE  \/ ChildRead(c)
         \/ cpc[c] = "cast" /\ recv_buff'[c] = recv_buff[c]
<1> USE DEF Inv
<1>1. /\ cpc \in [Conn -> {"none", "test", "select", "cast", "gone", "killed"}]
      /\ recv_buff \in [Conn -> Seq(Entry)]
  BY DEF TypeOK
<1>2. CASE ParentStep \/ SigInt \/ ClientsAct \/ UNCHANGED vars
  BY <1>1, <1>2 DEF ParentStep, TestFlag, Select, AcceptFails, ParentExits, Fork,
     ForkFails, SigInt, ClientsAct, vars, childVars
<1>3. CASE \E s \in Forked : ChildStep(s)
  <2>1. PICK s \in Forked : ChildStep(s)
    BY <1>3
  <2>2. CASE ChildTest(s)
    BY <1>1, <2>2 DEF ChildTest, ChildEnds, Move
  <2>3. CASE ChildRead(s)
    BY <1>1, <2>3 DEF ChildRead, Move
  <2>4. CASE ChildWrite(s)
    BY <1>1, <2>4 DEF ChildWrite, ChildEnds, Move
  <2>5. CASE ChildLoops(s)
    <3>1. /\ \E to \in {"gone", "test"} : Move(s, to)
          /\ recv_buff' = [recv_buff EXCEPT ![s] = << >>]
      BY <2>5 DEF ChildLoops, ChildEnds
    <3> QED BY <1>1, <3>1 DEF Move
  <2> QED BY <2>1, <2>2, <2>3, <2>4, <2>5 DEF ChildStep
<1> QED BY <1>2, <1>3 DEF Next

\* An empty buffer in the loop over the list means the end of the connection
\* (server.c:107-118).
LEMMA EndSeenKept == Inv /\ EndSeen /\ [Next]_vars => EndSeen'
<1> SUFFICES ASSUME Inv, EndSeen, [Next]_vars,
                    NEW c \in Conn, cpc'[c] = "cast", recv_buff'[c] = << >>
             PROVE  peer'[c] \in Gone
  BY DEF EndSeen
<1>1. CASE ChildRead(c)
  <2>1. rx[c] # << >> => recv_buff'[c] # << >>
    <3> DEFINE entry == [from |-> c, said |-> ReadChunk(c)]
    <3>1. rx[c] # << >> => recv_buff' = [recv_buff EXCEPT ![c] = <<entry>>]
      BY <1>1 DEF ChildRead
    <3>2. <<entry>> # << >>
      OBVIOUS
    <3> HIDE DEF entry
    <3> QED BY <3>1, <3>2 DEF Inv, TypeOK
  <2>2. Readable(c) /\ UNCHANGED peer
    BY <1>1 DEF ChildRead
  <2> QED BY <2>1, <2>2 DEF Readable, Gone
<1>2. CASE ~ChildRead(c)
  <2>1. peer[c] \in Gone
    BY <1>2, ReadBeforeCast DEF EndSeen
  <2> QED BY <2>1, GoneStays
<1> QED BY <1>1, <1>2

\* What Inv and EndSeen say of a child that takes its last step.
LEMMA EndsForCause ==
  ASSUME Inv, EndSeen, [Next]_vars, NEW c \in Alive, c \notin Alive'
  PROVE  \/ cflag[c]
         \/ peer[c] \in {"fin", "rst"}
         \/ said[c] # << >> /\ said[c][Len(said[c])].said = <<"exit">>
         \/ /\ cpc'[c] = "killed"
            /\ \E e \in Accepted : Place(e) < Place(c) /\ peer[e] = "rst"
<1> USE DEF Inv
<1>1. /\ cpc \in [Conn -> {"none", "test", "select", "cast", "gone", "killed"}]
      /\ c \in Conn /\ c \in Forked /\ c \in Accepted
  BY DEF TypeOK, Alive, Forked, AcceptedOnce
<1>2. cpc'[c] \notin {"test", "select", "cast"} /\ cpc'[c] # cpc[c]
  BY <1>1 DEF Alive, Forked
<1>3. peer[c] # "done"
  BY <1>1, PlaceOf DEF HeldOpen
<1>4. ChildStep(c)
  <2>1. CASE ParentStep \/ SigInt \/ ClientsAct \/ UNCHANGED vars
    BY <1>1, <1>2, <2>1 DEF ParentStep, TestFlag, Select, AcceptFails,
       ParentExits, Fork, ForkFails, SigInt, ClientsAct, vars, childVars
  <2>2. CASE \E s \in Forked : ChildStep(s)
    <3>1. PICK s \in Forked : ChildStep(s)
      BY <2>2
    <3>2. \E to : Move(s, to) \/ UNCHANGED cpc
      BY <3>1 DEF ChildStep, ChildTest, ChildRead, ChildWrite, ChildLoops,
                  ChildEnds
    <3>3. s = c
      BY <1>1, <1>2, <3>2 DEF Move
    <3> QED BY <3>1, <3>3
  <2> QED BY <2>1, <2>2 DEF Next
<1>5. CASE ChildTest(c)
  BY <1>1, <1>2, <1>5 DEF ChildTest, Move
<1>6. CASE ChildRead(c)
  BY <1>1, <1>2, <1>6 DEF ChildRead, Move
<1>7. CASE ChildWrite(c)
  <2> DEFINE to == ListOf(c)[temp[c]]
  <2>1. cpc[c] = "cast" /\ temp[c] <= Len(ListOf(c))
    BY <1>7 DEF ChildWrite
  <2>2. to \in Accepted /\ (to # c => Place(to) < Place(c))
    BY <1>1, <2>1, ChildAt
  <2>3. to # c /\ peer[to] = "rst" /\ Move(c, "killed")
    BY <1>2, <1>7 DEF ChildWrite, ChildEnds
  <2> HIDE DEF to
  <2> QED BY <1>1, <2>2, <2>3 DEF Move
<1>8. CASE ChildLoops(c)
  <2>1. cpc[c] = "cast" /\ Stops(c)
    BY <1>1, <1>2, <1>8 DEF ChildLoops, Move
  <2>2. CASE recv_buff[c] = << >>
    BY <1>1, <1>3, <2>1, <2>2 DEF EndSeen, Gone
  <2>3. CASE recv_buff[c] # << >>
    BY <1>1, <2>1, <2>3 DEF Stops, InTheBuffer
  <2> QED BY <2>2, <2>3
<1> QED BY <1>4, <1>5, <1>6, <1>7, <1>8 DEF ChildStep

\* Nobody is left without a child but by its own doing, by SIGINT, or by the
\* reset connection of an elder (server.c:101-133).
THEOREM NoWrongfulEndHolds == Spec => NoWrongfulEnd
<1>1. Init => EndSeen
  BY DEF Init, EndSeen
<1>2. Spec => []EndSeen
  BY <1>1, EndSeenKept, InvHolds, PTL DEF Spec
<1>3. Inv /\ EndSeen /\ [Next]_vars =>
        [\A c \in Alive : c \notin Alive' =>
           \/ cflag[c]
           \/ peer[c] \in {"fin", "rst"}
           \/ said[c] # << >> /\ said[c][Len(said[c])].said = <<"exit">>
           \/ /\ cpc'[c] = "killed"
              /\ \E e \in Accepted : Place(e) < Place(c) /\ peer[e] = "rst"]_vars
  BY EndsForCause
<1> QED BY <1>2, <1>3, InvHolds, PTL DEF Spec, NoWrongfulEnd
=============================================================================
