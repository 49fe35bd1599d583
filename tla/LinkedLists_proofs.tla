------------------------- MODULE LinkedLists_proofs -------------------------
(***************************************************************************)
(* What holds of the lists in every memory, and for ints of any width: the *)
(* sort sorts, and a node in use never holds anything but pointers and a   *)
(* value that was put on the list.  The recursive functions of the model   *)
(* (the walk, the pass, the passes) are handled by what each of their      *)
(* steps does, and that by Induction: a set of numbers that has 0 and goes *)
(* on from any number to the next lacks none, or it would lack a least     *)
(* one.                                                                    *)
(***************************************************************************)
EXTENDS LinkedLists, TLAPS, FiniteSetTheorems, SequenceTheorems,
        WellFoundedInduction

----------------------------------------------------------------------------
(* Numbers, and functions defined by recursion over them. *)

\* What the remainder is within one period of the numbers around zero.
LEMMA Remainder ==
  ASSUME NEW M \in Nat \ {0}, NEW z \in 0..(M - 1)
  PROVE  z % M = z /\ (z + M) % M = z /\ (z - M) % M = z
<1>1. z % M = z
  OBVIOUS
<1>2. (z + M) % M = z
  OBVIOUS
<1>3. (z - M) % M = z
  OBVIOUS
<1> QED BY <1>1, <1>2, <1>3

\* A non-empty set of natural numbers has a least element.
LEMMA LeastNumber ==
  ASSUME NEW S \in SUBSET Nat, S # {}
  PROVE  \E m \in S : \A n \in S : m <= n
<1> DEFINE Below == {0..(m - 1) : m \in S}
           Smaller == StrictSubsetOrdering(Nat)
<1>1. Below \subseteq FiniteSubsetsOf(Nat) /\ Below # {}
  <2>1. ASSUME NEW m \in S
        PROVE  0..(m - 1) \in SUBSET Nat /\ IsFiniteSet(0..(m - 1))
    BY FS_Interval
  <2> QED BY <2>1 DEF FiniteSubsetsOf
<1>2. IsWellFoundedOn(Smaller, FiniteSubsetsOf(Nat))
  BY FS_StrictSubsetOrderingWellFounded
<1>3. \E x \in Below : \A y \in Below : ~ (<<y, x>> \in Smaller)
  <2> HIDE DEF Below, Smaller
  <2> QED BY <1>1, <1>2, WFMin
<1>4. PICK m \in S : \A y \in Below : ~ (<<y, 0..(m - 1)>> \in Smaller)
  BY <1>3
<1>5. ASSUME NEW n \in S, n < m
      PROVE  FALSE
  <2>1. m \in Nat /\ n \in Nat
    OBVIOUS
  <2>2. 0..(n - 1) \subseteq 0..(m - 1)
    BY <1>5, <2>1
  <2>3. n \in 0..(m - 1) /\ n \notin 0..(n - 1)
    BY <1>5, <2>1
  <2>4. 0..(n - 1) \in SUBSET Nat /\ 0..(m - 1) \in SUBSET Nat
    BY <2>1
  <2> QED BY <1>4, <2>2, <2>3, <2>4 DEF StrictSubsetOrdering
<1> QED BY <1>5

\* Induction, for a set of numbers.
LEMMA Induction ==
  ASSUME NEW N \in Nat, NEW S, 0 \in S, \A n \in 1..N : n - 1 \in S => n \in S
  PROVE  0..N \subseteq S
<1> DEFINE Missing == (0..N) \ S
<1>1. SUFFICES ASSUME Missing # {} PROVE FALSE
  OBVIOUS
<1>2. PICK m \in Missing : \A n \in Missing : m <= n
  <2>1. Missing \in SUBSET Nat
    OBVIOUS
  <2> HIDE DEF Missing
  <2> QED BY <1>1, <2>1, LeastNumber
<1>3. m \in 1..N /\ m - 1 \in 0..N /\ ~ (m <= m - 1)
  BY <1>2
<1>4. m - 1 \in S
  BY <1>2, <1>3
<1> QED BY <1>2, <1>3, <1>4

\* f goes from a on, N steps, each as G says.
Goes(f, a, G, N) == f[0] = a /\ \A n \in 1..N : f[n] = G[n][f[n - 1]]
Arrives(S, a, G, N) == \E f \in [0..N -> S] : Goes(f, a, G, N)

\* What is defined step by step is defined.
LEMMA Recursion ==
  ASSUME NEW S, NEW a \in S, NEW G \in [Nat -> [S -> S]], NEW N \in Nat
  PROVE  Arrives(S, a, G, N)
<1> DEFINE Defined == {m \in Nat : \E f \in [0..m -> S] :
                         f[0] = a /\ \A n \in 1..m : f[n] = G[n][f[n - 1]]}
<1>1. 0 \in Defined
  <2> DEFINE f == [n \in 0..0 |-> a]
  <2>1. f \in [0..0 -> S] /\ f[0] = a /\ 1..0 = {}
    OBVIOUS
  <2> HIDE DEF f
  <2> QED BY <2>1
<1>2. ASSUME NEW m \in 1..N, m - 1 \in Defined
      PROVE  m \in Defined
  <2>1. PICK f \in [0..(m - 1) -> S] :
          f[0] = a /\ \A n \in 1..(m - 1) : f[n] = G[n][f[n - 1]]
    BY <1>2
  <2> DEFINE g == [n \in 0..m |-> IF n = m THEN G[m][f[m - 1]] ELSE f[n]]
  <2>2. m - 1 \in 0..(m - 1) /\ m \in Nat /\ G[m][f[m - 1]] \in S
    BY <2>1
  <2>3. g \in [0..m -> S] /\ g[0] = a
    BY <2>1, <2>2
  <2>4. \A n \in 1..m : g[n] = G[n][g[n - 1]]
    <3> SUFFICES ASSUME NEW n \in 1..m PROVE g[n] = G[n][g[n - 1]]
      OBVIOUS
    <3>1. g[n - 1] = f[n - 1]
      BY <2>2
    <3>2. CASE n = m
      BY <3>1, <3>2
    <3>3. CASE n # m
      <4>1. n \in 1..(m - 1) /\ g[n] = f[n]
        BY <2>2, <3>3
      <4> QED BY <2>1, <3>1, <4>1
    <3> QED BY <3>2, <3>3
  <2> HIDE DEF g
  <2> QED BY <2>2, <2>3, <2>4
<1>3. N \in Defined
  <2> HIDE DEF Defined
  <2>1. 0..N \subseteq Defined
    BY <1>1, <1>2, Induction
  <2> QED BY <2>1
<1> QED BY <1>3 DEF Arrives, Goes

----------------------------------------------------------------------------
(* Sorting. *)

\* The numbers an int can hold.
CInt == -Half..(Half - 1)

\* S_swap exchanges the two numbers, also if their sum overflows.
LEMMA SwapExchanges ==
  ASSUME NEW x \in CInt, NEW y \in CInt
  PROVE  SwappedPair(x, y) = <<y, x>>
<1> DEFINE M == 2 * Half
           s == Wrap(x + y)
<1>1. Half \in Nat \ {0} /\ M \in Nat \ {0}
  BY HeapAssumption
<1>2. ASSUME NEW z \in CInt
      PROVE  Wrap(z) = z /\ Wrap(z + M) = z /\ Wrap(z - M) = z
  <2>1. z + Half \in 0..(M - 1) /\ z \in Int
    BY <1>1 DEF CInt
  <2> HIDE DEF M
  <2>2. PICK w \in 0..(M - 1) : w = z + Half
    BY <2>1
  <2>3. w % M = w /\ (w + M) % M = w /\ (w - M) % M = w
    BY <1>1, Remainder
  <2>4. (z + M) + Half = w + M /\ (z - M) + Half = w - M
    BY <1>1, <2>1, <2>2
  <2>5. Wrap(z) = w - Half /\ Wrap(z + M) = w - Half /\ Wrap(z - M) = w - Half
    BY <2>2, <2>3, <2>4 DEF Wrap, M
  <2> QED BY <1>1, <2>1, <2>2, <2>5
<1>3. x \in Int /\ y \in Int /\ M \in Int
  BY <1>1 DEF CInt
<1>4. s \in {x + y, x + y - M, x + y + M}
  <2>1. CASE x + y \in CInt
    BY <1>2, <2>1
  <2>2. CASE x + y - M \in CInt
    <3>1. Wrap((x + y - M) + M) = x + y - M
      BY <1>2, <2>2
    <3>2. (x + y - M) + M = x + y
      BY <1>3
    <3> QED BY <3>1, <3>2
  <2>3. CASE x + y + M \in CInt
    <3>1. Wrap((x + y + M) - M) = x + y + M
      BY <1>2, <2>3
    <3>2. (x + y + M) - M = x + y
      BY <1>3
    <3> QED BY <3>1, <3>2
  <2>4. \/ x + y \in CInt \/ x + y - M \in CInt \/ x + y + M \in CInt
    BY <1>1 DEF CInt
  <2> QED BY <2>1, <2>2, <2>3, <2>4
<1> HIDE DEF s, M
<1>5. Wrap(s - y) = x
  <2>1. s - y \in {x, x - M, x + M}
    BY <1>3, <1>4
  <2> QED BY <1>2, <2>1
<1>6. Wrap(s - x) = y
  <2>1. s - x \in {y, y - M, y + M}
    BY <1>3, <1>4
  <2> QED BY <1>2, <2>1
<1> QED BY <1>5, <1>6 DEF SwappedPair, s

\* One step of a pass: two neighbours in the wrong order are exchanged.
Exchanged(vs, i) ==
  IF vs[i - 1] > vs[i] THEN [vs EXCEPT ![i - 1] = vs[i], ![i] = vs[i - 1]] ELSE vs

\* How often v is in vs is not changed by an exchange.
LEMMA ExchangeCounts ==
  ASSUME NEW n \in Nat, NEW vs \in [1..n -> CInt], NEW i \in 2..n, NEW v
  PROVE  /\ Exchanged(vs, i) \in [1..n -> CInt]
         /\ Abstract!Count(Exchanged(vs, i), v) = Abstract!Count(vs, v)
<1> DEFINE ws == [vs EXCEPT ![i - 1] = vs[i], ![i] = vs[i - 1]]
           S == {j \in 1..n : vs[j] = v}
           T == {j \in 1..n : ws[j] = v}
           f == [j \in S |-> IF j = i THEN i - 1 ELSE IF j = i - 1 THEN i ELSE j]
<1>1. i \in 1..n /\ i - 1 \in 1..n /\ i - 1 # i /\ i \in Int
  OBVIOUS
<1>2. /\ ws \in [1..n -> CInt] /\ ws[i] = vs[i - 1] /\ ws[i - 1] = vs[i]
      /\ \A j \in 1..n : j # i /\ j # i - 1 => ws[j] = vs[j]
  BY <1>1
<1>3. f \in Bijection(S, T)
  <2>1. f \in [S -> T]
    BY <1>1, <1>2
  <2>2. \A a, b \in S : f[a] = f[b] => a = b
    BY <1>1
  <2>3. ASSUME NEW t \in T
        PROVE  \E a \in S : f[a] = t
    <3>1. CASE t = i
      <4>1. i - 1 \in S /\ f[i - 1] = i
        BY <1>1, <1>2, <3>1
      <4> QED BY <3>1, <4>1
    <3>2. CASE t = i - 1
      <4>1. i \in S /\ f[i] = i - 1
        BY <1>1, <1>2, <3>2
      <4> QED BY <3>2, <4>1
    <3>3. CASE t # i /\ t # i - 1
      <4>1. t \in S /\ f[t] = t
        BY <1>2, <3>3
      <4> QED BY <4>1
    <3> QED BY <3>1, <3>2, <3>3
  <2> HIDE DEF f, S, T
  <2> QED BY <2>1, <2>2, <2>3 DEF Bijection, Injection, Surjection, IsInjective
<1>4. IsFiniteSet(S)
  <2>1. IsFiniteSet(1..n) /\ S \in SUBSET (1..n)
    BY FS_Interval
  <2> QED BY <2>1, FS_Subset
<1>5. Cardinality(T) = Cardinality(S)
  <2> HIDE DEF f, S, T
  <2> QED BY <1>3, <1>4, FS_Bijection DEF ExistsBijection
<1>6. Abstract!Count(ws, v) = Abstract!Count(vs, v)
  <2>1. DOMAIN ws = 1..n /\ DOMAIN vs = 1..n
    BY <1>2
  <2>2. Abstract!Count(ws, v) = Cardinality(T)
    BY <2>1, Zenon DEF Abstract!Count, Abstract!Cardinality, Cardinality
  <2>3. Abstract!Count(vs, v) = Cardinality(S)
    BY <2>1, Zenon DEF Abstract!Count, Abstract!Cardinality, Cardinality
  <2> QED BY <1>5, <2>2, <2>3
<1> HIDE DEF ws
<1>7. CASE vs[i - 1] > vs[i]
  <2>1. Exchanged(vs, i) = ws
    BY <1>7 DEF Exchanged, ws
  <2> QED BY <1>2, <1>6, <2>1
<1>8. CASE ~ (vs[i - 1] > vs[i])
  <2>1. Exchanged(vs, i) = vs
    BY <1>8 DEF Exchanged
  <2> QED BY <2>1
<1> QED BY <1>7, <1>8

\* A pass goes from one pair of neighbours to the next.
LEMMA PassSteps ==
  ASSUME NEW n \in Nat, NEW values \in [1..n -> CInt], NEW b \in 1..n
  PROVE  \E after \in [1..b -> [1..n -> CInt]] :
           /\ after[1] = values /\ Pass(values, b) = after[b]
           /\ \A i \in 2..b : after[i] = Exchanged(after[i - 1], i)
<1> DEFINE S == [1..n -> CInt]
           body(f, i) ==
             IF i = 1 THEN values
             ELSE LET vs == f[i - 1]
                      pair == SwappedPair(vs[i - 1], vs[i])
                  IN IF vs[i - 1] > vs[i]
                       THEN [vs EXCEPT ![i - 1] = pair[1], ![i] = pair[2]]
                       ELSE vs
           after[i \in 1..b] == body(after, i)
           G == [i \in Nat |-> [vs \in S |-> IF i \in 2..b THEN Exchanged(vs, i)
                                             ELSE vs]]
<1>1. Pass(values, b) = after[b]
  BY DEF Pass
<1>2. ASSUME NEW vs \in S, NEW i \in 2..b
      PROVE  /\ Exchanged(vs, i) \in S
             /\ Exchanged(vs, i) =
                  LET pair == SwappedPair(vs[i - 1], vs[i])
                  IN IF vs[i - 1] > vs[i]
                       THEN [vs EXCEPT ![i - 1] = pair[1], ![i] = pair[2]]
                       ELSE vs
  <2>1. i \in 2..n /\ vs[i - 1] \in CInt /\ vs[i] \in CInt
    OBVIOUS
  <2>2. SwappedPair(vs[i - 1], vs[i]) = <<vs[i], vs[i - 1]>>
    BY <2>1, SwapExchanges
  <2> QED BY <2>1, <2>2, ExchangeCounts DEF Exchanged
<1>3. values \in S /\ G \in [Nat -> [S -> S]] /\ b \in Nat
  BY <1>2
<1>4. Arrives(S, values, G, b)
  <2> HIDE DEF G, S, body, after
  <2> QED BY <1>3, Recursion
<1>5. PICK f \in [0..b -> S] : f[0] = values /\ \A i \in 1..b : f[i] = G[i][f[i - 1]]
  <2> HIDE DEF G, S, body, after
  <2> QED BY <1>4 DEF Arrives, Goes
<1>6. PICK g : g = [i \in 1..b |-> f[i]]
  OBVIOUS
<1>7. /\ g \in [1..b -> S] /\ g[1] = values
      /\ \A i \in 2..b : g[i] = Exchanged(g[i - 1], i)
  <2>1. 1 \in 1..b /\ 0 \in 0..b /\ 1 - 1 = 0 /\ 1 \notin 2..b
    OBVIOUS
  <2>2. g \in [1..b -> S] /\ g[1] = f[1]
    <3> HIDE DEF S, G, body, after
    <3> QED BY <1>6, <2>1
  <2>3. ASSUME NEW vs \in S, NEW i \in 1..b
        PROVE  G[i][vs] = IF i \in 2..b THEN Exchanged(vs, i) ELSE vs
    <3> HIDE DEF S
    <3> QED OBVIOUS
  <2>4. f[1] = values
    <3> HIDE DEF S, G, body, after
    <3>1. f[1] = G[1][f[0]]
      BY <1>5, <2>1
    <3> QED BY <1>3, <1>5, <2>1, <2>3, <3>1
  <2>5. ASSUME NEW i \in 2..b
        PROVE  g[i] = Exchanged(g[i - 1], i)
    <3>1. i \in 1..b /\ i - 1 \in 1..b /\ i - 1 \in 0..b
      OBVIOUS
    <3>2. f[i] = G[i][f[i - 1]] /\ f[i - 1] \in S
      BY <1>5, <3>1
    <3>3. g[i] = f[i] /\ g[i - 1] = f[i - 1]
      BY <1>6, <3>1
    <3> HIDE DEF S, G, body, after
    <3> QED BY <2>3, <3>1, <3>2, <3>3
  <2> QED BY <2>2, <2>4, <2>5
<1>8. g = [i \in 1..b |-> body(g, i)]
  <2>1. \A i \in 1..b : g[i] = body(g, i)
    <3> SUFFICES ASSUME NEW i \in 1..b PROVE g[i] = body(g, i)
      OBVIOUS
    <3>1. CASE i = 1
      BY <1>7, <3>1
    <3>2. CASE i # 1
      <4>1. i \in 2..b /\ i - 1 \in 1..b
        BY <3>2
      <4>2. g[i - 1] \in S
        <5> HIDE DEF S
        <5> QED BY <1>7, <4>1
      <4>3. g[i] = Exchanged(g[i - 1], i)
        BY <1>7, <4>1
      <4> QED BY <1>2, <3>2, <4>1, <4>2, <4>3
    <3> QED BY <3>1, <3>2
  <2> HIDE DEF body, S
  <2> QED BY <1>7, <2>1
<1>9. after = [i \in 1..b |-> body(after, i)]
  <2> HIDE DEF body, S, G
  <2> QED BY <1>8, Zenon
<1>10. after = g
  <2>1. \A i \in 0..b : i \in 1..b => after[i] = g[i]
    <3> DEFINE Same == {i \in 0..b : i \in 1..b => after[i] = g[i]}
    <3>1. 0 \in Same
      OBVIOUS
    <3>2. ASSUME NEW i \in 1..b, i - 1 \in Same
          PROVE  i \in Same
      <4>1. after[i] = body(after, i) /\ g[i] = body(g, i)
        <5> HIDE DEF body, S, G, after, Same
        <5> QED BY <1>8, <1>9
      <4>2. CASE i = 1
        BY <4>1, <4>2
      <4>3. CASE i # 1
        <5>1. after[i - 1] = g[i - 1]
          BY <3>2, <4>3
        <5> HIDE DEF after
        <5> QED BY <4>1, <4>3, <5>1
      <4> QED BY <4>2, <4>3
    <3>3. 0..b \subseteq Same
      <4> HIDE DEF Same
      <4> QED BY <1>3, <3>1, <3>2, Induction
    <3> QED BY <3>3
  <2> HIDE DEF body, S, G, after
  <2> QED BY <1>7, <1>9, <2>1
<1> QED
  <2> HIDE DEF body, G, after
  <2> QED BY <1>1, <1>7, <1>10

\* vs rises as far as i.
RisesTo(vs, i) == \A j, k \in 1..i : j < k => vs[j] <= vs[k]

\* What a pass has made of the values when it has come to i: the greatest of
\* those it has passed is in front; and if anything was exchanged at all, then
\* a place behind holds less than before, and will not be touched again.
Passed(n, values, vs, i) ==
  /\ vs \in [1..n -> CInt]
  /\ \A v : Abstract!Count(vs, v) = Abstract!Count(values, v)
  /\ \A j \in 1..n : j > i => vs[j] = values[j]
  /\ \A j \in 1..i : vs[j] <= vs[i] /\ \E k \in 1..i : vs[j] = values[k]
  /\ \/ vs = values /\ RisesTo(values, i)
     \/ \E q \in 1..(i - 1) : vs[q] < values[q]

\* An exchange takes the pass one place further.
LEMMA ExchangePasses ==
  ASSUME NEW n \in Nat, NEW values \in [1..n -> CInt], NEW i \in 2..n, NEW vs,
         Passed(n, values, vs, i - 1)
  PROVE  Passed(n, values, Exchanged(vs, i), i)
<1> DEFINE ws == Exchanged(vs, i)
           h == i - 1
<1>1. i \in 1..n /\ h \in 1..n /\ h # i /\ i \in Int /\ h \in Int /\ i = h + 1
  OBVIOUS
<1>2. /\ vs \in [1..n -> CInt] /\ CInt \subseteq Int
      /\ \A v : Abstract!Count(vs, v) = Abstract!Count(values, v)
      /\ vs[i] = values[i]
  BY <1>1, HeapAssumption DEF Passed, CInt
<1>3. /\ ws \in [1..n -> CInt]
      /\ \A v : Abstract!Count(ws, v) = Abstract!Count(values, v)
  BY <1>2, ExchangeCounts
<1>4. /\ vs[h] > vs[i] => ws[h] = vs[i] /\ ws[i] = vs[h]
      /\ ~ (vs[h] > vs[i]) => ws = vs
      /\ \A j \in 1..n : j # i /\ j # h => ws[j] = vs[j]
  BY <1>1, <1>2 DEF Exchanged
<1> HIDE DEF ws, h
<1>5. \A j \in 1..n : vs[j] \in Int /\ ws[j] \in Int /\ values[j] \in Int
  BY <1>2, <1>3
<1>6. /\ \A j \in 1..n : j > h => vs[j] = values[j]
      /\ \A j \in 1..h : vs[j] <= vs[h] /\ \E k \in 1..h : vs[j] = values[k]
      /\ \/ vs = values /\ RisesTo(values, h)
         \/ \E q \in 1..(h - 1) : vs[q] < values[q]
  BY DEF Passed, h
<1>7. ASSUME NEW j \in 1..n, j > i
      PROVE  ws[j] = values[j]
  <2>1. j # i /\ j # h /\ j > h
    BY <1>1, <1>7
  <2>2. ws[j] = vs[j]
    BY <1>4, <2>1
  <2> QED BY <1>6, <2>1, <2>2
<1>8. ASSUME NEW j \in 1..i
      PROVE  ws[j] <= ws[i] /\ \E k \in 1..i : ws[j] = values[k]
  <2>1. j \in 1..n /\ (j # i => j \in 1..h)
    BY <1>1
  <2>2. ws[j] <= ws[i]
    <3>1. CASE j = i \/ j = h
      BY <1>1, <1>4, <1>5, <3>1
    <3>2. CASE j # i /\ j # h
      <4>1. ws[j] = vs[j] /\ vs[j] <= vs[h]
        BY <1>4, <1>6, <2>1, <3>2
      <4> QED BY <1>1, <1>4, <1>5, <2>1, <4>1
    <3> QED BY <3>1, <3>2
  <2>3. \E k \in 1..i : ws[j] = values[k]
    <3>1. \E k \in 1..i : ws[j] = vs[k]
      <4>1. ws[j] = vs[j] \/ ws[j] = vs[h] \/ ws[j] = vs[i]
        BY <1>1, <1>4, <2>1
      <4>2. h \in 1..i /\ i \in 1..i
        BY <1>1
      <4> QED BY <4>1, <4>2
    <3>2. \A k \in 1..i : \E m \in 1..i : vs[k] = values[m]
      <4> SUFFICES ASSUME NEW k \in 1..i PROVE \E m \in 1..i : vs[k] = values[m]
        OBVIOUS
      <4>1. CASE k = i
        BY <1>1, <1>2, <4>1
      <4>2. CASE k # i
        <5>1. k \in 1..h /\ 1..h \subseteq 1..i
          BY <1>1, <4>2
        <5> QED BY <1>6, <5>1
      <4> QED BY <4>1, <4>2
    <3> QED BY <3>1, <3>2
  <2> QED BY <2>2, <2>3
<1>9. \/ ws = values /\ RisesTo(values, i)
      \/ \E q \in 1..(i - 1) : ws[q] < values[q]
  <2>1. CASE \E q \in 1..(h - 1) : vs[q] < values[q]
    <3>1. PICK q \in 1..(h - 1) : vs[q] < values[q]
      BY <2>1
    <3>2. q \in 1..n /\ q # i /\ q # h /\ q \in 1..(i - 1)
      BY <1>1
    <3>3. ws[q] = vs[q]
      BY <1>4, <3>2
    <3> QED BY <3>1, <3>2, <3>3
  <2>2. CASE vs = values /\ RisesTo(values, h) /\ vs[h] > vs[i]
    <3>1. ws[h] < values[h] /\ h \in 1..(i - 1)
      BY <1>1, <1>4, <1>5, <2>2
    <3> QED BY <3>1
  <2>3. CASE vs = values /\ RisesTo(values, h) /\ ~ (vs[h] > vs[i])
    <3>1. ws = values
      BY <1>4, <2>3
    <3>2. ASSUME NEW j \in 1..i, NEW k \in 1..i, j < k
          PROVE  values[j] <= values[k]
      <4>1. CASE k = i
        <5>1. ws[j] <= ws[i]
          BY <1>8
        <5> QED BY <3>1, <4>1, <5>1
      <4>2. CASE k # i
        <5>1. j \in 1..h /\ k \in 1..h
          BY <1>1, <3>2, <4>2
        <5> QED BY <2>3, <3>2, <5>1 DEF RisesTo
      <4> QED BY <4>1, <4>2
    <3> QED BY <3>1, <3>2 DEF RisesTo
  <2> QED BY <1>6, <2>1, <2>2, <2>3
<1> QED BY <1>3, <1>7, <1>8, <1>9 DEF Passed, ws

\* A pass over the first b places brings the greatest of them to b; and if it
\* exchanges nothing, they were in order.
LEMMA PassSorts ==
  ASSUME NEW n \in Nat, NEW values \in [1..n -> CInt], NEW b \in 1..n
  PROVE  Passed(n, values, Pass(values, b), b)
<1>1. PICK after \in [1..b -> [1..n -> CInt]] :
        /\ after[1] = values /\ Pass(values, b) = after[b]
        /\ \A i \in 2..b : after[i] = Exchanged(after[i - 1], i)
  BY PassSteps
<1> DEFINE Good == {i \in 0..b : i # 0 => Passed(n, values, after[i], i)}
<1>2. 0 \in Good /\ b \in Nat /\ b \in 0..b /\ b # 0
  OBVIOUS
<1>3. ASSUME NEW i \in 1..b, i - 1 \in Good
      PROVE  i \in Good
  <2>1. CASE i = 1
    <3>1. Passed(n, values, values, 1)
      <4>1. 1 \in 1..n /\ \A j \in 1..1 : j = 1
        OBVIOUS
      <4>2. values[1] \in Int
        BY <4>1, HeapAssumption DEF CInt
      <4>3. \A j \in 1..1 : values[j] <= values[1] /\ \E k \in 1..1 : values[j] = values[k]
        BY <4>1, <4>2
      <4>4. RisesTo(values, 1)
        BY DEF RisesTo
      <4> QED BY <4>1, <4>3, <4>4 DEF Passed
    <3> QED BY <1>1, <2>1, <3>1
  <2>2. CASE i # 1
    <3>1. i \in 2..n /\ i \in 2..b /\ i - 1 # 0
      BY <2>2
    <3>2. Passed(n, values, after[i - 1], i - 1)
      BY <1>3, <3>1
    <3>3. Passed(n, values, Exchanged(after[i - 1], i), i)
      BY <3>1, <3>2, ExchangePasses
    <3> QED BY <1>1, <3>1, <3>3
  <2> QED BY <2>1, <2>2
<1>4. 0..b \subseteq Good
  <2> HIDE DEF Good
  <2> QED BY <1>2, <1>3, Induction
<1>5. Passed(n, values, after[b], b)
  BY <1>2, <1>4
<1> QED BY <1>1, <1>5

\* What the values are after each of the passes.
Sorts(n, values, passes) ==
  /\ passes[0] = values /\ BubbleSorted(values) = passes[n]
  /\ \A k \in 1..n :
       passes[k] = IF k > 1 /\ passes[k - 1] = passes[k - 2]
                     THEN passes[k - 1]
                     ELSE Pass(passes[k - 1], n + 1 - k)

\* One pass follows another, until one has exchanged nothing.
LEMMA PassesStep ==
  ASSUME NEW n \in Nat, NEW values \in [1..n -> CInt]
  PROVE  \E passes \in [0..n -> [1..n -> CInt]] : Sorts(n, values, passes)
<1> DEFINE S == [1..n -> CInt]
           body(f, k) ==
             IF k = 0 THEN values
             ELSE IF k > 1 /\ f[k - 1] = f[k - 2] THEN f[k - 1]
             ELSE Pass(f[k - 1], n + 1 - k)
           passes[k \in 0..n] == body(passes, k)
           Next2(k, p) == IF k > 1 /\ p[2] = p[1] THEN p[2] ELSE Pass(p[2], n + 1 - k)
           G == [k \in Nat |-> [p \in S \X S |->
                   IF k \in 1..n THEN <<p[2], Next2(k, p)>> ELSE p]]
<1>1. BubbleSorted(values) = passes[n]
  <2>1. Len(values) = n
    <3>1. values \in Seq(CInt) /\ DOMAIN values = 1..n
      BY SeqDef
    <3>2. Len(values) \in Nat /\ DOMAIN values = 1..Len(values)
      BY <3>1, LenProperties
    <3> QED BY <3>1, <3>2
  <2> QED BY <2>1 DEF BubbleSorted
<1>2. ASSUME NEW k \in 1..n, NEW vs \in S
      PROVE  Pass(vs, n + 1 - k) \in S
  <2>1. n + 1 - k \in 1..n
    OBVIOUS
  <2> QED BY <2>1, PassSorts DEF Passed
<1>3. values \in S /\ <<values, values>> \in S \X S
      /\ G \in [Nat -> [S \X S -> S \X S]]
  <2> HIDE DEF S, passes, body
  <2>1. ASSUME NEW k \in Nat, NEW p \in S \X S
        PROVE  G[k][p] \in S \X S
    <3>1. p = <<p[1], p[2]>> /\ p[1] \in S /\ p[2] \in S
      OBVIOUS
    <3>2. k \in 1..n => Next2(k, p) \in S
      BY <1>2, <3>1
    <3> HIDE DEF Next2
    <3> QED BY <3>1, <3>2
  <2>2. values \in S
    BY DEF S
  <2> HIDE DEF Next2
  <2> QED BY <2>1, <2>2
<1>4. Arrives(S \X S, <<values, values>>, G, n)
  <2> HIDE DEF G, S, body, passes, Next2
  <2>1. \A T, a : a \in T /\ G \in [Nat -> [T -> T]] => Arrives(T, a, G, n)
    BY Recursion
  <2> QED BY <1>3, <2>1
<1>5. PICK f \in [0..n -> S \X S] :
        /\ f[0] = <<values, values>>
        /\ \A k \in 1..n : f[k] = G[k][f[k - 1]]
  <2> HIDE DEF G, S, body, passes, Next2
  <2> QED BY <1>4 DEF Arrives, Goes
<1>6. ASSUME NEW k \in 1..n
      PROVE  f[k] = <<f[k - 1][2], Next2(k, f[k - 1])>>
  <2>1. k \in Nat /\ k - 1 \in 0..n
    OBVIOUS
  <2> HIDE DEF S, body, passes, Next2
  <2>2. f[k - 1] \in S \X S
    BY <2>1
  <2> QED BY <1>5, <2>1, <2>2
<1>7. PICK g : g = [k \in 0..n |-> f[k][2]]
  OBVIOUS
<1>8. g \in [0..n -> S] /\ g[0] = values
  <2> HIDE DEF G, S, body, passes, Next2
  <2> QED BY <1>5, <1>7
<1>9. ASSUME NEW k \in 1..n
      PROVE  f[k][1] = g[k - 1] /\ g[k] = Next2(k, f[k - 1]) /\ f[k - 1][2] = g[k - 1]
  <2>1. k \in 0..n /\ k - 1 \in 0..n
    OBVIOUS
  <2> HIDE DEF G, S, body, passes, Next2
  <2> QED BY <1>6, <1>7, <2>1
<1>10. ASSUME NEW k \in 1..n
       PROVE  g[k] = body(g, k)
  <2>1. k # 0 /\ (k > 1 => k - 1 \in 1..n /\ (k - 1) - 1 = k - 2)
    OBVIOUS
  <2>2. k > 1 => f[k - 1][1] = g[k - 2]
    <3> HIDE DEF G, S, body, passes, Next2
    <3> QED BY <1>9, <2>1
  <2>3. f[k - 1][2] = g[k - 1] /\ g[k] = Next2(k, f[k - 1])
    BY <1>9
  <2> HIDE DEF G, S, passes
  <2> QED BY <2>1, <2>2, <2>3
<1>11. g = [k \in 0..n |-> body(g, k)]
  <2>1. \A k \in 0..n : g[k] = body(g, k)
    <3> SUFFICES ASSUME NEW k \in 0..n PROVE g[k] = body(g, k)
      OBVIOUS
    <3>1. CASE k = 0
      BY <1>8, <3>1
    <3>2. CASE k # 0
      <4>1. k \in 1..n
        BY <3>2
      <4> QED BY <1>10, <4>1
    <3> QED BY <3>1, <3>2
  <2> HIDE DEF body, S, passes, G, Next2
  <2> QED BY <1>8, <2>1
<1>12. passes = [k \in 0..n |-> body(passes, k)]
  <2> HIDE DEF body, S, G, Next2
  <2> QED BY <1>11, Zenon
<1>13. passes = g
  <2>0. \A k \in 0..n : passes[k] = body(passes, k)
    <3> HIDE DEF body, S, G, Next2, passes
    <3>1. PICK h : h = [k \in 0..n |-> body(passes, k)]
      OBVIOUS
    <3>2. passes = h
      BY <1>12, <3>1
    <3>3. \A k \in 0..n : h[k] = body(passes, k)
      BY <3>1
    <3> QED BY <3>2, <3>3
  <2> DEFINE Same == {k \in 0..n : \A m \in 0..k : passes[m] = g[m]}
  <2>1. 0 \in Same
    <3>1. passes[0] = body(passes, 0) /\ g[0] = values /\ 0 \in 0..n
      <4>1. 0 \in 0..n
        OBVIOUS
      <4> HIDE DEF body, S, G, passes, Next2
      <4> QED BY <1>8, <2>0, <4>1
    <3>2. \A m \in 0..0 : m = 0
      OBVIOUS
    <3> HIDE DEF passes
    <3> QED BY <3>1, <3>2
  <2>2. ASSUME NEW k \in 1..n, k - 1 \in Same
        PROVE  k \in Same
    <3>1. \A m \in 0..(k - 1) : passes[m] = g[m]
      <4> HIDE DEF passes
      <4> QED BY <2>2
    <3>2. passes[k] = body(passes, k) /\ g[k] = body(g, k) /\ k \in 0..n
      <4>1. k \in 0..n
        OBVIOUS
      <4> HIDE DEF body, S, G, passes, Next2
      <4> QED BY <1>10, <2>0, <4>1
    <3>3. passes[k - 1] = g[k - 1] /\ (k > 1 => passes[k - 2] = g[k - 2])
      <4>1. k - 1 \in 0..(k - 1) /\ (k > 1 => k - 2 \in 0..(k - 1))
        OBVIOUS
      <4> HIDE DEF passes
      <4> QED BY <3>1, <4>1
    <3>4. passes[k] = g[k]
      <4> HIDE DEF passes
      <4> QED BY <3>2, <3>3
    <3>5. \A m \in 0..k : m \in 0..(k - 1) \/ m = k
      OBVIOUS
    <3> HIDE DEF passes
    <3> QED BY <3>1, <3>2, <3>4, <3>5
  <2>3. 0..n \subseteq Same
    <3> HIDE DEF Same
    <3> QED BY <2>1, <2>2, Induction
  <2>4. \A m \in 0..n : passes[m] = g[m]
    <3> HIDE DEF passes
    <3>1. n \in Same
      <4> HIDE DEF Same
      <4> QED BY <2>3
    <3> QED BY <3>1
  <2> HIDE DEF body, S, G, passes, Next2
  <2> QED BY <1>8, <1>12, <2>4
<1>14. \A k \in 1..n : k # 0 /\ g[k] = body(g, k)
  BY <1>10
<1> QED
  <2> HIDE DEF passes, G, Next2
  <2>1. Sorts(n, values, g)
    BY <1>1, <1>8, <1>13, <1>14 DEF Sorts
  <2> HIDE DEF body
  <2> QED BY <1>8, <2>1

\* What k passes have made of the values: the k last places are in order and
\* hold nothing less than what is before them; and if the last of the passes
\* exchanged nothing, then all is in order.
AfterPasses(n, values, vs, before, k) ==
  /\ vs \in [1..n -> CInt]
  /\ \A v : Abstract!Count(vs, v) = Abstract!Count(values, v)
  /\ \A i, j \in 1..n : i < j /\ j > n - k => vs[i] <= vs[j]
  /\ k > 0 /\ vs = before => RisesTo(vs, n)

\* bubblesorted puts any list of numbers in order, whatever wraps on the way,
\* and neither loses nor invents one.
THEOREM SortSorts ==
  ASSUME NEW n \in Nat, NEW values \in [1..n -> CInt]
  PROVE  /\ BubbleSorted(values) \in [1..n -> CInt]
         /\ \A i, j \in 1..n :
              i < j => BubbleSorted(values)[i] <= BubbleSorted(values)[j]
         /\ \A v : Abstract!Count(BubbleSorted(values), v)
                     = Abstract!Count(values, v)
<1>1. PICK passes \in [0..n -> [1..n -> CInt]] :
        /\ passes[0] = values /\ BubbleSorted(values) = passes[n]
        /\ \A k \in 1..n :
             passes[k] = IF k > 1 /\ passes[k - 1] = passes[k - 2]
                           THEN passes[k - 1]
                           ELSE Pass(passes[k - 1], n + 1 - k)
  <2>1. \E passes \in [0..n -> [1..n -> CInt]] : Sorts(n, values, passes)
    BY PassesStep
  <2> QED BY <2>1 DEF Sorts
<1> DEFINE Good ==
             {k \in 0..n : AfterPasses(n, values, passes[k], passes[k - 1], k)}
<1>2. 0 \in Good
  <2>1. \A j \in 1..n : ~ (j > n - 0)
    OBVIOUS
  <2>2. AfterPasses(n, values, passes[0], passes[0 - 1], 0)
    BY <1>1, <2>1 DEF AfterPasses
  <2> QED BY <2>2
<1>3. ASSUME NEW k \in 1..n, k - 1 \in Good
      PROVE  k \in Good
  <2> DEFINE vs == passes[k - 1]
             ws == passes[k]
             b == n + 1 - k
  <2>1. /\ b \in 1..n /\ k \in 0..n /\ k - 1 \in 0..n /\ k > 0 /\ k \in Int
        /\ (k - 1) - 1 = k - 2 /\ (k > 1 => k - 1 > 0) /\ n - k + 1 = b
        /\ n - (k - 1) = b
    OBVIOUS
  <2>2. AfterPasses(n, values, vs, passes[k - 2], k - 1)
    BY <1>3, <2>1
  <2>3. /\ vs \in [1..n -> CInt]
        /\ \A v : Abstract!Count(vs, v) = Abstract!Count(values, v)
        /\ \A i, j \in 1..n : i < j /\ j > b => vs[i] <= vs[j]
        /\ k > 1 /\ vs = passes[k - 2] => RisesTo(vs, n)
    <3> HIDE DEF vs, b
    <3> QED BY <2>1, <2>2 DEF AfterPasses
  <2>4. CASE k > 1 /\ vs = passes[k - 2]
    <3>1. ws = vs /\ RisesTo(vs, n)
      BY <1>1, <2>3, <2>4
    <3>2. \A i, j \in 1..n : i < j => ws[i] <= ws[j]
      BY <3>1 DEF RisesTo
    <3> HIDE DEF vs, ws, b
    <3> QED BY <2>1, <2>3, <3>1, <3>2 DEF AfterPasses, vs, ws
  <2>5. CASE ~ (k > 1 /\ vs = passes[k - 2])
    <3>1. ws = Pass(vs, b)
      BY <1>1, <2>5
    <3> HIDE DEF vs, ws, b
    <3>2. Passed(n, vs, ws, b)
      BY <2>1, <2>3, <3>1, PassSorts
    <3>3. /\ ws \in [1..n -> CInt]
          /\ \A v : Abstract!Count(ws, v) = Abstract!Count(vs, v)
          /\ \A j \in 1..n : j > b => ws[j] = vs[j]
          /\ \A j \in 1..b : ws[j] <= ws[b] /\ \E m \in 1..b : ws[j] = vs[m]
          /\ \/ ws = vs /\ RisesTo(vs, b)
             \/ \E q \in 1..(b - 1) : ws[q] < vs[q]
      BY <3>2 DEF Passed
    <3>4. ASSUME NEW i \in 1..n, NEW j \in 1..n, i < j, j > n - k
          PROVE  ws[i] <= ws[j]
      <4>1. j >= b
        BY <2>1, <3>4
      <4>2. CASE j = b
        <5>1. i \in 1..b
          BY <2>1, <3>4, <4>2
        <5> QED BY <3>3, <4>2, <5>1
      <4>3. CASE j > b /\ i > b
        <5>1. ws[i] = vs[i] /\ ws[j] = vs[j]
          BY <3>3, <4>3
        <5> QED BY <2>3, <3>4, <4>3, <5>1
      <4>4. CASE j > b /\ ~ (i > b)
        <5>1. i \in 1..b /\ ws[j] = vs[j]
          BY <2>1, <3>3, <4>4
        <5>2. PICK m \in 1..b : ws[i] = vs[m]
          BY <3>3, <5>1
        <5>3. m \in 1..n /\ m < j
          BY <2>1, <4>4
        <5> QED BY <2>3, <4>4, <5>1, <5>2, <5>3
      <4> QED BY <2>1, <4>1, <4>2, <4>3, <4>4
    <3>5. ASSUME ws = vs
          PROVE  RisesTo(ws, n)
      <4>1. RisesTo(vs, b)
        <5>1. \A q \in 1..(b - 1) : ~ (vs[q] < vs[q])
          <6>1. ASSUME NEW q \in 1..(b - 1)
                PROVE  vs[q] \in Int
            <7>1. q \in 1..n
              BY <2>1
            <7>2. vs[q] \in CInt
              BY <2>3, <7>1
            <7> QED BY <7>2, HeapAssumption DEF CInt
          <6> QED BY <6>1
        <5> QED BY <3>3, <3>5, <5>1
      <4>2. ASSUME NEW i \in 1..n, NEW j \in 1..n, i < j
            PROVE  vs[i] <= vs[j]
        <5>1. CASE j > b
          BY <2>3, <4>2, <5>1
        <5>2. CASE ~ (j > b)
          <6>1. i \in 1..b /\ j \in 1..b
            BY <2>1, <4>2, <5>2
          <6> QED BY <4>1, <4>2, <6>1 DEF RisesTo
        <5> QED BY <5>1, <5>2
      <4> QED BY <3>5, <4>2 DEF RisesTo
    <3>6. \A v : Abstract!Count(ws, v) = Abstract!Count(values, v)
      BY <2>3, <3>3
    <3>7. AfterPasses(n, values, ws, vs, k)
      BY <3>3, <3>4, <3>5, <3>6 DEF AfterPasses
    <3> QED BY <2>1, <3>7 DEF vs, ws
  <2> QED BY <2>4, <2>5
<1>4. 0..n \subseteq Good
  <2> HIDE DEF Good
  <2> QED BY <1>2, <1>3, Induction
<1>5. AfterPasses(n, values, passes[n], passes[n - 1], n)
  <2>1. n \in 0..n
    OBVIOUS
  <2> QED BY <1>4, <2>1
<1>6. \A j \in 1..n : j > n - n
  OBVIOUS
<1> QED BY <1>1, <1>5, <1>6 DEF AfterPasses

----------------------------------------------------------------------------
(* Types. *)

Node == IF TwoWay THEN [data : Value, prev : Pointer, next : Pointer]
        ELSE [data : Value, next : Pointer]

\* A memory of nodes, and no others.
Memory(h) == DOMAIN h \subseteq Addr /\ h \in [DOMAIN h -> Node]

TypeInv ==
  /\ kind \in Kinds
  /\ start \in Pointer
  /\ Memory(heap)
  /\ status \in {"ok", "bad_pointer", "endless"}

\* The type invariant of the runs is part of it.
LEMMA TypeInvTypes ==
  ASSUME TypeInv
  PROVE  TypeOK
<1>1. ASSUME NEW a \in Live
      PROVE  /\ heap[a].data \in Value
             /\ heap[a].next \in Pointer
             /\ TwoWay => heap[a].prev \in Pointer
  <2>1. heap[a] \in Node
    BY DEF TypeInv, Memory, Live
  <2> HIDE DEF Pointer, TwoWay
  <2> QED BY <2>1 DEF Node
<1> QED BY <1>1 DEF TypeInv, TypeOK, Memory, Live

\* What a node points to is a pointer.
LEMMA SuccType ==
  ASSUME TypeInv, NEW p
  PROVE  Succ(p) \in Pointer
BY TypeInvTypes DEF TypeOK, Succ, Pointer

\* malloc, free and an assignment to a pointer of a node keep it a memory; an
\* assignment to what is no node is none.
LEMMA MemoryKept ==
  ASSUME NEW h, Memory(h)
  PROVE  /\ \A a \in Addr, node \in Node : Memory(Malloc(h, a, node))
         /\ \A nodes : Memory(Free(h, nodes))
         /\ \A x, q \in Pointer : Memory([h EXCEPT ![x].next = q])
         /\ TwoWay => \A x, q \in Pointer : Memory([h EXCEPT ![x].prev = q])
<1>1. DOMAIN h \subseteq Addr /\ h \in [DOMAIN h -> Node]
  BY DEF Memory
<1>2. ASSUME NEW a \in Addr, NEW node \in Node
      PROVE  Memory(Malloc(h, a, node))
  <2> HIDE DEF Node
  <2> QED BY <1>1 DEF Memory, Malloc
<1>3. ASSUME NEW nodes
      PROVE  Memory(Free(h, nodes))
  <2> HIDE DEF Node
  <2> QED BY <1>1 DEF Memory, Free
<1>4. ASSUME NEW x \in Pointer, NEW q \in Pointer
      PROVE  Memory([h EXCEPT ![x].next = q])
  <2>1. ASSUME NEW node \in Node
        PROVE  [node EXCEPT !.next = q] \in Node
    <3> HIDE DEF Pointer, TwoWay
    <3> QED BY DEF Node
  <2> HIDE DEF Node
  <2> QED BY <1>1, <2>1 DEF Memory
<1>5. ASSUME TwoWay, NEW x \in Pointer, NEW q \in Pointer
      PROVE  Memory([h EXCEPT ![x].prev = q])
  <2>1. ASSUME NEW node \in Node
        PROVE  [node EXCEPT !.prev = q] \in Node
    <3> HIDE DEF Pointer, TwoWay
    <3> QED BY <1>5 DEF Node
  <2> HIDE DEF Node
  <2> QED BY <1>1, <2>1 DEF Memory
<1> QED BY <1>2, <1>3, <1>4, <1>5

\* The effect of a call has the type of its pointer and its memory.
LEMMA EffectTypes ==
  ASSUME TypeInv, NEW ps, NEW p, NEW h, Effect(ps, p, h), UNCHANGED kind,
         ps \subseteq Live /\ Forever \notin ps => p \in Pointer /\ Memory(h)
  PROVE  TypeInv'
<1> QED BY DEF TypeInv, Effect, Memory, Node, TwoWay

\* What a node is made of.
LEMMA NodeType ==
  ASSUME NEW v \in Value, NEW x \in Pointer, NEW q \in Pointer
  PROVE  /\ ~TwoWay => [data |-> v, next |-> q] \in Node
         /\ TwoWay => [data |-> v, prev |-> x, next |-> q] \in Node
<1> HIDE DEF Pointer, TwoWay
<1> QED BY DEF Node

\* What malloc gives is a node, and what is in use is one.
LEMMA FreshType ==
  ASSUME TypeInv
  PROVE  /\ \A a \in Fresh : a \in Addr /\ a \in Pointer
         /\ Live \subseteq Addr /\ Live \subseteq Pointer
         /\ NULL \in Pointer /\ start \in Pointer /\ Memory(heap)
BY DEF TypeInv, Memory, Fresh, Live, Pointer

\* The calls of the lists that know one way only.
LEMMA OneWayTypes ==
  ASSUME TypeInv, ~TwoWay, NEW v \in Value, NEW w \in Value,
         \/ appendNode(v) \/ pushNode(v) \/ deleteNode(v) \/ deletePresent(v)
         \/ insertNode(w, v)
  PROVE  TypeInv'
<1> USE FreshType
<1>1. CASE appendNode(v)
  <2>1. PICK a, last :
          /\ a \in Fresh /\ UNCHANGED kind
          /\ \/ Effect({}, a, Malloc(heap, a, [data |-> v, next |-> NULL]))
             \/ Effect({last}, start,
                       Malloc([heap EXCEPT ![last].next = a], a,
                              [data |-> v, next |-> NULL]))
    BY <1>1, Zenon DEF appendNode, Call
  <2>2. [data |-> v, next |-> NULL] \in Node
    BY NodeType
  <2> HIDE DEF Node
  <2>3. CASE Effect({}, a, Malloc(heap, a, [data |-> v, next |-> NULL]))
    <3>1. Memory(Malloc(heap, a, [data |-> v, next |-> NULL]))
      BY <2>1, <2>2, MemoryKept
    <3> QED BY <2>1, <2>3, <3>1, EffectTypes
  <2>4. CASE Effect({last}, start,
                    Malloc([heap EXCEPT ![last].next = a], a,
                           [data |-> v, next |-> NULL]))
    <3>1. ASSUME last \in Pointer
          PROVE  Memory(Malloc([heap EXCEPT ![last].next = a], a,
                               [data |-> v, next |-> NULL]))
      <4>1. Memory([heap EXCEPT ![last].next = a])
        BY <2>1, <3>1, MemoryKept
      <4> QED BY <2>1, <2>2, <4>1, MemoryKept
    <3> QED BY <2>1, <2>4, <3>1, EffectTypes
  <2> QED BY <2>1, <2>3, <2>4
<1>2. CASE pushNode(v)
  <2>1. PICK a \in Fresh :
          /\ UNCHANGED kind
          /\ Effect({}, a, Malloc(heap, a, [data |-> v, next |-> start]))
    BY <1>2, Zenon DEF pushNode, Call
  <2>2. [data |-> v, next |-> start] \in Node
    BY NodeType
  <2>3. Memory(Malloc(heap, a, [data |-> v, next |-> start]))
    BY <2>2, MemoryKept
  <2> QED BY <2>1, <2>3, EffectTypes
<1>3. CASE insertNode(w, v)
  <2>1. PICK current :
          /\ UNCHANGED kind
          /\ \/ Effect({}, start, heap)
             \/ \E a \in Fresh :
                  Effect({current}, start,
                         Malloc([heap EXCEPT ![current].next = a], a,
                                [data |-> v, next |-> Succ(current)]))
    BY <1>3, Zenon DEF insertNode, Call
  <2>2. CASE Effect({}, start, heap)
    BY <2>1, <2>2, EffectTypes
  <2>3. ASSUME NEW a \in Fresh,
               Effect({current}, start,
                      Malloc([heap EXCEPT ![current].next = a], a,
                             [data |-> v, next |-> Succ(current)]))
        PROVE  TypeInv'
    <3>1. ASSUME current \in Pointer
          PROVE  Memory(Malloc([heap EXCEPT ![current].next = a], a,
                               [data |-> v, next |-> Succ(current)]))
      <4>1. Memory([heap EXCEPT ![current].next = a])
        BY <3>1, MemoryKept
      <4>2. [data |-> v, next |-> Succ(current)] \in Node
        BY SuccType, NodeType
      <4> QED BY <4>1, <4>2, MemoryKept
    <3> QED BY <2>1, <2>3, <3>1, EffectTypes
  <2> QED BY <2>1, <2>2, <2>3
<1>4. CASE deleteNode(v) \/ deletePresent(v)
  <2>1. PICK current, temp, ps :
          /\ UNCHANGED kind /\ current \in ps
          /\ \/ \E qs : Effect(qs, start, heap)
             \/ Effect({start}, Succ(start), Free(heap, {start}))
             \/ Effect(ps, start,
                       Free([heap EXCEPT ![current].next = Succ(temp)],
                            {temp}))
    <3>1. CASE deleteNode(v)
      <4>1. PICK current, temp :
              /\ UNCHANGED kind
              /\ \/ Effect({start}, start, heap)
                 \/ Effect({start}, Succ(start), Free(heap, {start}))
                 \/ Effect({current, temp}, start,
                           Free([heap EXCEPT ![current].next = Succ(temp)],
                                {temp}))
        BY <3>1, Zenon DEF deleteNode, Call
      <4>2. current \in {current, temp}
        OBVIOUS
      <4> QED BY <4>1, <4>2, Zenon
    <3>2. CASE deletePresent(v)
      <4>1. PICK current, temp :
              /\ UNCHANGED kind
              /\ \/ Effect({}, start, heap)
                 \/ Effect({start}, Succ(start), Free(heap, {start}))
                 \/ Effect({current}, start,
                           IF temp = NULL THEN heap
                           ELSE Free([heap EXCEPT ![current].next = Succ(temp)],
                                     {temp}))
        BY <3>2, Zenon DEF deletePresent, Call
      <4>2. current \in {current}
        OBVIOUS
      <4>3. CASE temp = NULL
        <5>1. (IF temp = NULL THEN heap
               ELSE Free([heap EXCEPT ![current].next = Succ(temp)], {temp})) = heap
          BY <4>3
        <5> QED BY <4>1, <4>2, <5>1, Zenon
      <4>4. CASE temp # NULL
        <5>1. (IF temp = NULL THEN heap
               ELSE Free([heap EXCEPT ![current].next = Succ(temp)], {temp}))
              = Free([heap EXCEPT ![current].next = Succ(temp)], {temp})
          BY <4>4
        <5> QED BY <4>1, <4>2, <5>1, Zenon
      <4> QED BY <4>3, <4>4
    <3> QED BY <1>4, <3>1, <3>2
  <2>2. ASSUME NEW qs, Effect(qs, start, heap)
        PROVE  TypeInv'
    BY <2>1, <2>2, EffectTypes
  <2>3. CASE Effect({start}, Succ(start), Free(heap, {start}))
    <3>1. Memory(Free(heap, {start})) /\ Succ(start) \in Pointer
      BY SuccType, MemoryKept
    <3> QED BY <2>1, <2>3, <3>1, EffectTypes
  <2>4. CASE Effect(ps, start,
                    Free([heap EXCEPT ![current].next = Succ(temp)], {temp}))
    <3>1. ASSUME current \in Pointer
          PROVE  Memory(Free([heap EXCEPT ![current].next = Succ(temp)], {temp}))
      <4>1. Memory([heap EXCEPT ![current].next = Succ(temp)])
        BY <3>1, SuccType, MemoryKept
      <4> QED BY <4>1, MemoryKept
    <3> QED BY <2>1, <2>4, <3>1, EffectTypes
  <2> QED BY <2>1, <2>2, <2>3, <2>4
<1> QED BY <1>1, <1>2, <1>3, <1>4

\* A new node behind another one, and a node taken out of the list.
LEMMA LinkTypes ==
  ASSUME TypeInv, NEW x \in Pointer, NEW q \in Pointer
  PROVE  /\ ~TwoWay =>
              \A a \in Fresh, v \in Value :
                Memory(Malloc([heap EXCEPT ![x].next = a], a,
                              [data |-> v, next |-> q]))
         /\ \A nodes : Memory(Free([heap EXCEPT ![x].next = q], nodes))
<1>1. Memory([heap EXCEPT ![x].next = q])
  BY FreshType, MemoryKept
<1>2. ASSUME ~TwoWay, NEW a \in Fresh, NEW v \in Value
      PROVE  Memory(Malloc([heap EXCEPT ![x].next = a], a,
                           [data |-> v, next |-> q]))
  <2>1. Memory([heap EXCEPT ![x].next = a]) /\ a \in Addr
    BY FreshType, MemoryKept
  <2>2. [data |-> v, next |-> q] \in Node
    BY <1>2, NodeType
  <2> QED BY <2>1, <2>2, MemoryKept
<1> QED BY <1>1, <1>2, MemoryKept

\* The calls of the circular list.
LEMMA CircularTypes ==
  ASSUME TypeInv, ~TwoWay, NEW v \in Value, NEW w \in Value,
         \/ appendCNode(v) \/ pushCNode(v) \/ deleteCNode(v) \/ insertCNode(w, v)
  PROVE  TypeInv'
<1> USE FreshType
<1>1. CASE appendCNode(v)
  <2>1. PICK a, last :
          /\ a \in Fresh /\ UNCHANGED kind
          /\ \/ Effect({}, a, Malloc(heap, a, [data |-> v, next |-> a]))
             \/ Effect({last}, start,
                       Malloc([heap EXCEPT ![last].next = a], a,
                              [data |-> v, next |-> start]))
    BY <1>1, Zenon DEF appendCNode, Call
  <2>2. Memory(Malloc(heap, a, [data |-> v, next |-> a]))
    <3>1. [data |-> v, next |-> a] \in Node
      BY <2>1, NodeType
    <3> QED BY <2>1, <3>1, MemoryKept
  <2>3. last \in Pointer =>
          Memory(Malloc([heap EXCEPT ![last].next = a], a,
                        [data |-> v, next |-> start]))
    BY <2>1, LinkTypes
  <2> QED BY <2>1, <2>2, <2>3, EffectTypes
<1>2. CASE pushCNode(v)
  <2>1. PICK a, last :
          /\ a \in Fresh /\ UNCHANGED kind
          /\ \/ Effect({start}, start, heap)
             \/ Effect({last}, a,
                       Malloc([heap EXCEPT ![last].next = a], a,
                              [data |-> v, next |-> start]))
    BY <1>2, Zenon DEF pushCNode, Call
  <2>2. last \in Pointer =>
          Memory(Malloc([heap EXCEPT ![last].next = a], a,
                        [data |-> v, next |-> start]))
    BY <2>1, LinkTypes
  <2> QED BY <2>1, <2>2, EffectTypes
<1>3. CASE deleteCNode(v)
  <2>1. PICK last, current, temp :
          /\ UNCHANGED kind
          /\ \/ Effect({start}, start, heap)
             \/ Effect({last}, Succ(start),
                       Free([heap EXCEPT ![last].next = Succ(start)], {start}))
             \/ Effect({current}, start,
                       Free([heap EXCEPT ![current].next = Succ(temp)], {temp}))
    BY <1>3, Zenon DEF deleteCNode, Call
  <2>2. Succ(start) \in Pointer /\ Succ(temp) \in Pointer
    BY SuccType
  <2>3. last \in Pointer =>
          Memory(Free([heap EXCEPT ![last].next = Succ(start)], {start}))
    BY <2>2, LinkTypes
  <2>4. current \in Pointer =>
          Memory(Free([heap EXCEPT ![current].next = Succ(temp)], {temp}))
    BY <2>2, LinkTypes
  <2> QED BY <2>1, <2>2, <2>3, <2>4, EffectTypes
<1>4. CASE insertCNode(w, v)
  <2>1. PICK a, current :
          /\ a \in Fresh /\ UNCHANGED kind
          /\ Effect({current}, start,
                    Malloc([heap EXCEPT ![current].next = a], a,
                           [data |-> v, next |-> Succ(current)]))
    BY <1>4, Zenon DEF insertCNode, Call
  <2>2. current \in Pointer =>
          Memory(Malloc([heap EXCEPT ![current].next = a], a,
                        [data |-> v, next |-> Succ(current)]))
    BY <2>1, SuccType, LinkTypes
  <2> QED BY <2>1, <2>2, EffectTypes
<1> QED BY <1>1, <1>2, <1>3, <1>4

\* The calls of the doubly linked list.
LEMMA DoublyTypes ==
  ASSUME TypeInv, TwoWay, NEW v \in Value, NEW w \in Value,
         \/ appendDNode(v) \/ pushDNode(v) \/ deleteDNode(v) \/ insertDNode(w, v)
  PROVE  TypeInv'
<1> USE FreshType
<1>0. ASSUME NEW a \in Fresh, NEW x \in Pointer, NEW q \in Pointer, NEW g,
             Memory(g)
      PROVE  Memory(Malloc(g, a, [data |-> v, prev |-> x, next |-> q]))
  <2>1. [data |-> v, prev |-> x, next |-> q] \in Node
    BY NodeType
  <2> QED BY <1>0, <2>1, MemoryKept
<1>1. CASE appendDNode(v)
  <2>1. PICK a, last :
          /\ a \in Fresh /\ UNCHANGED kind
          /\ \/ Effect({}, a, Malloc(heap, a, [data |-> v, prev |-> NULL,
                                               next |-> NULL]))
             \/ Effect({last}, start,
                       Malloc([heap EXCEPT ![last].next = a], a,
                              [data |-> v, prev |-> last, next |-> NULL]))
    BY <1>1, Zenon DEF appendDNode, Call
  <2>2. Memory(Malloc(heap, a, [data |-> v, prev |-> NULL, next |-> NULL]))
    BY <2>1, <1>0
  <2>3. ASSUME last \in Pointer
        PROVE  Memory(Malloc([heap EXCEPT ![last].next = a], a,
                             [data |-> v, prev |-> last, next |-> NULL]))
    <3>1. Memory([heap EXCEPT ![last].next = a])
      BY <2>1, <2>3, MemoryKept
    <3> QED BY <2>1, <1>0, <2>3, <3>1
  <2> QED BY <2>1, <2>2, <2>3, EffectTypes
<1>2. CASE pushDNode(v)
  <2>1. PICK a \in Fresh :
          /\ UNCHANGED kind
          /\ \/ Effect({}, a, Malloc(heap, a, [data |-> v, prev |-> NULL,
                                               next |-> start]))
             \/ Effect({start}, a,
                       Malloc([heap EXCEPT ![start].prev = a], a,
                              [data |-> v, prev |-> NULL, next |-> start]))
    BY <1>2, Zenon DEF pushDNode, Call
  <2>2. Memory(Malloc(heap, a, [data |-> v, prev |-> NULL, next |-> start]))
    BY <1>0
  <2>3. Memory(Malloc([heap EXCEPT ![start].prev = a], a,
                      [data |-> v, prev |-> NULL, next |-> start]))
    <3>1. Memory([heap EXCEPT ![start].prev = a])
      BY MemoryKept
    <3> QED BY <1>0, <3>1
  <2> QED BY <2>1, <2>2, <2>3, EffectTypes
<1>3. CASE insertDNode(w, v)
  <2>1. PICK current :
          /\ UNCHANGED kind
          /\ \/ Effect({}, start, heap)
             \/ \E a \in Fresh :
                  Effect({current}, start,
                         Malloc([heap EXCEPT ![current].next = a], a,
                                [data |-> v, prev |-> a, next |-> a]))
    BY <1>3, Zenon DEF insertDNode, Call
  <2>2. ASSUME NEW a \in Fresh, current \in Pointer
        PROVE  Memory(Malloc([heap EXCEPT ![current].next = a], a,
                             [data |-> v, prev |-> a, next |-> a]))
    <3>1. Memory([heap EXCEPT ![current].next = a])
      BY <2>2, MemoryKept
    <3> QED BY <1>0, <3>1
  <2> QED BY <2>1, <2>2, EffectTypes
<1>4. CASE deleteDNode(v)
  <2>1. PICK current, temp, third, ps :
          /\ UNCHANGED kind /\ current \in ps /\ third \in Pointer
          /\ \/ Effect({start}, start, heap)
             \/ Effect({Succ(start)}, Succ(start),
                       Free([heap EXCEPT ![Succ(start)].prev = NULL], {start}))
             \/ Effect(ps, start, Free([heap EXCEPT ![current].next = third],
                                       {temp}))
             \/ Effect(ps, start,
                       Free([[heap EXCEPT ![current].next = third]
                               EXCEPT ![third].prev = current], {temp}))
    <3>1. PICK current, temp, third, qs :
            /\ UNCHANGED kind /\ third = Succ(temp)
            /\ \/ Effect({start}, start, heap)
               \/ Effect({Succ(start)}, Succ(start),
                         Free([heap EXCEPT ![Succ(start)].prev = NULL], {start}))
               \/ Effect({current, temp} \cup qs, start,
                         Free(IF third = NULL
                                THEN [heap EXCEPT ![current].next = third]
                              ELSE [[heap EXCEPT ![current].next = third]
                                      EXCEPT ![third].prev = current],
                              {temp}))
      BY <1>4, Zenon DEF deleteDNode, Call
    <3>2. current \in {current, temp} \cup qs /\ third \in Pointer
      BY <3>1, SuccType
    <3>3. CASE third = NULL
      BY <3>1, <3>2, <3>3
    <3>4. CASE third # NULL
      BY <3>1, <3>2, <3>4
    <3> QED BY <3>3, <3>4
  <2>2. Succ(start) \in Pointer
    BY SuccType
  <2>3. Memory(Free([heap EXCEPT ![Succ(start)].prev = NULL], {start}))
    BY <2>2, MemoryKept
  <2>4. ASSUME current \in Pointer
        PROVE  /\ Memory(Free([heap EXCEPT ![current].next = third], {temp}))
               /\ Memory(Free([[heap EXCEPT ![current].next = third]
                                 EXCEPT ![third].prev = current], {temp}))
    <3>1. PICK g : g = [heap EXCEPT ![current].next = third]
      OBVIOUS
    <3>2. Memory(g)
      BY <2>1, <2>4, <3>1, MemoryKept
    <3>3. Memory([g EXCEPT ![third].prev = current])
      BY <2>1, <2>4, <3>2, MemoryKept
    <3> QED BY <3>1, <3>2, <3>3, MemoryKept
  <2> QED BY <2>1, <2>2, <2>3, <2>4, EffectTypes
<1> QED BY <1>1, <1>2, <1>3, <1>4

\* Two assignments, to the way there and the way back.
LEMMA BothWays ==
  ASSUME TypeInv, TwoWay, NEW x \in Pointer, NEW q \in Pointer,
         NEW y \in Pointer, NEW z \in Pointer
  PROVE  /\ Memory([heap EXCEPT ![x].next = y, ![q].prev = z])
         /\ Memory([heap EXCEPT ![q].prev = z, ![x].next = y])
<1> USE FreshType
<1>1. PICK g : g = [heap EXCEPT ![x].next = y]
  OBVIOUS
<1>2. PICK f : f = [heap EXCEPT ![q].prev = z]
  OBVIOUS
<1>3. Memory(g) /\ Memory(f)
  BY <1>1, <1>2, MemoryKept
<1>4. Memory([g EXCEPT ![q].prev = z]) /\ Memory([f EXCEPT ![x].next = y])
  BY <1>3, MemoryKept
<1> QED BY <1>1, <1>2, <1>4

\* A node in a ring, alone or between two others.
LEMMA RingTypes ==
  ASSUME TypeInv, TwoWay, NEW a \in Fresh, NEW v \in Value, NEW x \in Pointer,
         NEW q \in Pointer
  PROVE  Memory(Alone(a, v)) /\ Memory(Between(a, v, x, q))
<1> USE FreshType
<1>1. Memory(Alone(a, v))
  <2>1. [data |-> v, prev |-> a, next |-> a] \in Node
    BY NodeType
  <2> QED BY <2>1, MemoryKept DEF Alone
<1>2. Memory(Between(a, v, x, q))
  <2>1. [data |-> v, prev |-> x, next |-> q] \in Node
    BY NodeType
  <2>2. Memory([heap EXCEPT ![x].next = a, ![q].prev = a])
    BY BothWays
  <2> QED BY <2>1, <2>2, MemoryKept DEF Between
<1> QED BY <1>1, <1>2

\* The calls of the doubly circular list.
LEMMA DoublyCircularTypes ==
  ASSUME TypeInv, TwoWay, NEW v \in Value, NEW w \in Value,
         \/ pushDCNode(v) \/ appnedDCNode(v) \/ deleteDCNode(v)
         \/ insertDCNode(w, v)
  PROVE  TypeInv'
<1> USE FreshType
<1>1. CASE pushDCNode(v) \/ appnedDCNode(v) \/ insertDCNode(w, v)
  <2>1. PICK a, last, p, before, behind :
          /\ a \in Fresh /\ UNCHANGED kind /\ p \in {a, start}
          /\ before = last /\ behind \in {start, Succ(last)}
          /\ \/ Effect({}, a, Alone(a, v))
             \/ Effect({start}, start, heap)
             \/ Effect({last}, p, Between(a, v, before, behind))
    <3>1. CASE pushDCNode(v)
      <4>1. PICK a, last :
              /\ a \in Fresh /\ UNCHANGED kind
              /\ \/ Effect({}, a, Alone(a, v))
                 \/ Effect({start}, start, heap)
                 \/ Effect({last}, a, Between(a, v, last, start))
        BY <3>1, Zenon DEF pushDCNode, Call
      <4> QED BY <4>1
    <3>2. CASE appnedDCNode(v)
      <4>1. PICK a, last :
              /\ a \in Fresh /\ UNCHANGED kind
              /\ \/ Effect({}, a, Alone(a, v))
                 \/ Effect({last}, start, Between(a, v, last, start))
        BY <3>2, Zenon DEF appnedDCNode, Call
      <4> QED BY <4>1
    <3>3. CASE insertDCNode(w, v)
      <4>1. PICK a, last :
              /\ a \in Fresh /\ UNCHANGED kind
              /\ \/ Effect({}, a, Alone(a, v))
                 \/ Effect({start}, start, heap)
                 \/ Effect({last}, start, Between(a, v, last, Succ(last)))
        BY <3>3, Zenon DEF insertDCNode, Call
      <4> QED BY <4>1
    <3> QED BY <1>1, <3>1, <3>2, <3>3
  <2>2. Memory(Alone(a, v))
    BY <2>1, RingTypes
  <2>3. last \in Pointer => Memory(Between(a, v, before, behind))
    BY <2>1, SuccType, RingTypes
  <2>4. p \in Pointer
    BY <2>1
  <2> QED BY <2>1, <2>2, <2>3, <2>4, EffectTypes
<1>2. CASE deleteDCNode(v)
  <2>1. PICK last, current, temp, third :
          /\ UNCHANGED kind /\ third = Succ(temp)
          /\ \/ Effect({start}, start, heap)
             \/ Effect({Succ(start), last}, Succ(start),
                       Free([heap EXCEPT ![Succ(start)].prev = last,
                                         ![last].next = Succ(start)], {start}))
             \/ Effect({current}, start,
                       Free([heap EXCEPT ![current].next = third,
                                         ![third].prev = current], {temp}))
    BY <1>2, Zenon DEF deleteDCNode, Call
  <2>2. Succ(start) \in Pointer /\ third \in Pointer
    BY <2>1, SuccType
  <2>3. last \in Pointer =>
          Memory(Free([heap EXCEPT ![Succ(start)].prev = last,
                                   ![last].next = Succ(start)], {start}))
    BY <2>2, BothWays, MemoryKept
  <2>4. current \in Pointer =>
          Memory(Free([heap EXCEPT ![current].next = third,
                                   ![third].prev = current], {temp}))
    BY <2>2, BothWays, MemoryKept
  <2> QED BY <2>1, <2>2, <2>3, <2>4, EffectTypes
<1> QED BY <1>1, <1>2

\* What changes no node, and frees some.
LEMMA CommonTypes ==
  ASSUME TypeInv, \/ freeallNodes \/ printfallNodes \/ freeallCNodes
                  \/ printfallCNode \/ freeallDCNode
  PROVE  TypeInv'
<1> USE FreshType
<1>1. CASE freeallNodes \/ freeallCNodes \/ freeallDCNode
  <2>1. PICK ps, nodes : UNCHANGED kind /\ Effect(ps, NULL, Free(heap, nodes))
    BY <1>1, Zenon DEF freeallNodes, freeallCNodes, freeallDCNode, Call
  <2>2. Memory(Free(heap, nodes))
    BY MemoryKept
  <2> QED BY <2>1, <2>2, EffectTypes
<1>2. CASE printfallNodes \/ printfallCNode
  <2>1. PICK ps : UNCHANGED kind /\ Effect(ps, start, heap)
    BY <1>2, Zenon DEF printfallNodes, printfallCNode, Call
  <2> QED BY <2>1, EffectTypes
<1> QED BY <1>1, <1>2

\* A walk goes from pointer to pointer.
LEMMA WalkSteps ==
  ASSUME TypeInv, NEW p \in Pointer
  PROVE  /\ Cardinality(Addr) \in Nat
         /\ Walk(p) \in [0..Cardinality(Addr) -> Pointer]
         /\ Walk(p)[0] = p
         /\ \A n \in 1..Cardinality(Addr) : Walk(p)[n] = Succ(Walk(p)[n - 1])
<1>1. PICK C : C = Cardinality(Addr)
  OBVIOUS
<1>2. C \in Nat
  BY <1>1, HeapAssumption, FS_CardinalityType
<1> DEFINE body(f, n) == IF n = 0 THEN p ELSE Succ(f[n - 1])
           at[n \in 0..C] == body(at, n)
           G == [n \in Nat |-> [q \in Pointer |-> Succ(q)]]
<1>3. Walk(p) = at
  BY <1>1 DEF Walk
<1>4. G \in [Nat -> [Pointer -> Pointer]]
  <2> HIDE DEF Pointer
  <2> QED BY SuccType
<1>5. Arrives(Pointer, p, G, C)
  <2> HIDE DEF G, Pointer
  <2> QED BY <1>2, <1>4, Recursion
<1>6. PICK g \in [0..C -> Pointer] : g[0] = p /\ \A n \in 1..C : g[n] = G[n][g[n - 1]]
  <2> HIDE DEF G, Pointer
  <2> QED BY <1>5 DEF Arrives, Goes
<1>7. \A n \in 1..C : g[n] = Succ(g[n - 1])
  <2> TAKE n \in 1..C
  <2>1. n - 1 \in 0..C /\ n \in Nat
    BY <1>2
  <2> HIDE DEF Pointer
  <2>2. g[n - 1] \in Pointer
    BY <2>1
  <2> QED BY <1>6, <2>1, <2>2
<1>8. g = [n \in 0..C |-> body(g, n)]
  <2>1. \A n \in 0..C : g[n] = body(g, n)
    <3> SUFFICES ASSUME NEW n \in 0..C PROVE g[n] = body(g, n)
      OBVIOUS
    <3>1. CASE n = 0
      BY <1>6, <3>1
    <3>2. CASE n # 0
      <4>1. n \in 1..C
        BY <1>2, <3>2
      <4> QED BY <1>7, <3>2, <4>1
    <3> QED BY <3>1, <3>2
  <2> HIDE DEF body, Pointer
  <2> QED BY <2>1
<1>9. at = [n \in 0..C |-> body(at, n)]
  <2> HIDE DEF body
  <2> QED BY <1>8, Zenon
<1>10. \A n \in 0..C : at[n] = body(at, n)
  <2> HIDE DEF body, at
  <2>1. PICK h : h = [n \in 0..C |-> body(at, n)]
    OBVIOUS
  <2>2. at = h
    BY <1>9, <2>1
  <2>3. \A n \in 0..C : h[n] = body(at, n)
    BY <2>1
  <2> QED BY <2>2, <2>3
<1>11. at = g
  <2> DEFINE Same == {n \in 0..C : at[n] = g[n]}
  <2>1. 0 \in Same
    <3>1. 0 \in 0..C
      BY <1>2
    <3> HIDE DEF at
    <3> QED BY <1>6, <1>10, <3>1
  <2>2. ASSUME NEW n \in 1..C, n - 1 \in Same
        PROVE  n \in Same
    <3>1. n \in 0..C /\ n # 0
      BY <1>2
    <3>2. at[n - 1] = g[n - 1]
      <4> HIDE DEF at
      <4> QED BY <2>2
    <3> HIDE DEF at
    <3> QED BY <1>7, <1>10, <3>1, <3>2
  <2>3. 0..C \subseteq Same
    <3> HIDE DEF Same
    <3> QED BY <1>2, <2>1, <2>2, Induction
  <2>4. \A n \in 0..C : at[n] = g[n]
    <3> HIDE DEF at
    <3> QED BY <2>3
  <2> HIDE DEF body, at, Pointer
  <2> QED BY <1>9, <2>4
<1> QED
  <2> HIDE DEF at, Pointer
  <2> QED BY <1>1, <1>2, <1>3, <1>6, <1>7, <1>11

\* The nodes of a list that ends, in their order, and no node twice: those of
\* the walk, until the first that points to NULL.
Chain(m) ==
  LET W == Walk(start)
  IN /\ m \in 0..Cardinality(Addr)
     /\ Nodes = {W[n] : n \in 0..m}
     /\ \A n \in 0..m : W[n] \in Live
     /\ \A i, j \in 0..m : W[i] = W[j] => i = j

\* If the loop to the last node ends there, the list is a chain.
LEMMA EndsInChain ==
  ASSUME TypeInv, start # NULL, Seek(start, IsLast) \in Live,
         Seek(start, IsLast) # Forever
  PROVE  \E m \in Nat : Chain(m)
<1>1. PICK W : W = Walk(start)
  OBVIOUS
<1>2. PICK C : C = Cardinality(Addr)
  OBVIOUS
<1>3. /\ C \in Nat /\ W \in [0..C -> Pointer] /\ W[0] = start
      /\ \A n \in 1..C : W[n] = Succ(W[n - 1])
  BY <1>1, <1>2, FreshType, WalkSteps
<1> DEFINE stops == {n \in 0..C : /\ \A k \in 0..n : W[k] \in Live
                                  /\ heap[W[n]].next = NULL}
           off == {n \in 0..C : W[n] \notin Live}
           First(S) == W[CHOOSE n \in S : \A k \in S : n <= k]
<1>4. Seek(start, IsLast) = IF stops # {} THEN First(stops)
                            ELSE IF off # {} THEN First(off) ELSE Forever
  <2>1. Stops(start, IsLast) = stops
    BY <1>1, <1>2 DEF Stops, IsLast
  <2> DEFINE away == {n \in 0..Cardinality(Addr) : Walk(start)[n] \notin Live}
  <2>2. Seek(start, IsLast) =
          IF Stops(start, IsLast) # {}
            THEN Walk(start)[CHOOSE n \in Stops(start, IsLast) :
                               \A k \in Stops(start, IsLast) : n <= k]
          ELSE IF away # {}
            THEN Walk(start)[CHOOSE n \in away : \A k \in away : n <= k]
          ELSE Forever
    BY DEF Seek
  <2> QED BY <1>1, <1>2, <2>1, <2>2, Zenon
<1>5. stops # {}
  <2>1. SUFFICES ASSUME stops = {}, off # {} PROVE FALSE
    BY <1>4
  <2>2. off \subseteq Nat /\ off # {}
    BY <2>1
  <2>3. \E n \in off : \A k \in off : n <= k
    <3> HIDE DEF off
    <3> QED BY <2>2, LeastNumber
  <2>4. (CHOOSE n \in off : \A k \in off : n <= k) \in off
    <3> HIDE DEF off
    <3> QED BY <2>3, Zenon
  <2>5. PICK n \in off : First(off) = W[n]
    <3> HIDE DEF off
    <3> QED BY <2>4
  <2> HIDE DEF First
  <2> QED BY <1>4, <2>1, <2>5
<1>6. PICK m \in stops : \A n \in stops : m <= n
  <2>1. stops \subseteq Nat
    OBVIOUS
  <2> HIDE DEF stops
  <2> QED BY <1>5, <2>1, LeastNumber
<1>7. /\ m \in 0..C /\ \A k \in 0..m : W[k] \in Live
      /\ heap[W[m]].next = NULL
  BY <1>6
<1>8. \A n \in 0..(m - 1) : heap[W[n]].next # NULL
  <2> SUFFICES ASSUME NEW n \in 0..(m - 1), heap[W[n]].next = NULL PROVE FALSE
    OBVIOUS
  <2>1. n \in 0..C /\ 0..n \subseteq 0..m /\ ~ (m <= n)
    BY <1>3, <1>7
  <2>2. n \in stops
    BY <1>7, <2>1
  <2> HIDE DEF stops
  <2> QED BY <1>6, <2>1, <2>2
<1> HIDE DEF stops, off, First
<1>9. \A n \in 0..C : n > m => W[n] = NULL
  <2> DEFINE Off == {n \in 0..C : n > m => W[n] = NULL}
  <2>1. 0 \in Off
    BY <1>3, <1>7
  <2>2. ASSUME NEW n \in 1..C, n - 1 \in Off
        PROVE  n \in Off
    <3>1. W[n] = Succ(W[n - 1]) /\ n \in 0..C /\ n \in Int /\ m \in Int
      BY <1>3, <1>7
    <3>2. CASE n > m /\ n - 1 = m
      <4>1. W[n - 1] \in Live
        BY <1>7, <3>2
      <4> QED BY <1>7, <3>1, <3>2, <4>1 DEF Succ
    <3>3. CASE n > m /\ n - 1 > m
      <4>1. W[n - 1] = NULL
        BY <2>2, <3>3
      <4>2. NULL \notin Live
        BY FreshType, HeapAssumption
      <4> QED BY <3>1, <4>1, <4>2 DEF Succ
    <3> QED BY <3>1, <3>2, <3>3
  <2>3. 0..C \subseteq Off
    <3> HIDE DEF Off
    <3> QED BY <1>3, <2>1, <2>2, Induction
  <2> QED BY <2>3
<1>10. Nodes = {W[n] : n \in 0..m}
  <2>1. Nodes = {W[n] : n \in 0..C} \cap Live
    BY <1>1, <1>2 DEF Nodes
  <2>2. NULL \notin Live
    BY FreshType, HeapAssumption
  <2>3. 0..m \subseteq 0..C /\ \A n \in 0..C : n > m \/ n \in 0..m
    BY <1>3, <1>7
  <2> QED BY <1>7, <1>9, <2>1, <2>2, <2>3
<1>11. ASSUME NEW i \in 0..m, NEW j \in 0..m, i < j, W[i] = W[j]
       PROVE  FALSE
  <2> DEFINE Along == {k \in 0..(m - j) : W[i + k] = W[j + k]}
  <2>0. m \in Nat /\ i \in Nat /\ j \in Nat /\ m - j \in Nat
    BY <1>3, <1>7
  <2>1. 0 \in Along
    BY <1>11, <2>0
  <2>2. ASSUME NEW k \in 1..(m - j), k - 1 \in Along
        PROVE  k \in Along
    <3>1. /\ W[i + (k - 1)] = W[j + (k - 1)]
          /\ i + k \in 1..C /\ j + k \in 1..C /\ (i + k) - 1 = i + (k - 1)
          /\ (j + k) - 1 = j + (k - 1) /\ k \in 0..(m - j)
      BY <1>3, <1>7, <1>11, <2>0, <2>2
    <3> QED BY <1>3, <3>1
  <2>3. 0..(m - j) \subseteq Along
    <3> HIDE DEF Along
    <3> QED BY <2>0, <2>1, <2>2, Induction
  <2>4. /\ m - j \in 0..(m - j) /\ j + (m - j) = m
        /\ i + (m - j) \in 0..(m - 1)
    BY <1>11, <2>0
  <2>5. W[i + (m - j)] = W[m]
    BY <2>3, <2>4
  <2> QED BY <1>7, <1>8, <2>4, <2>5
<1>12. \A i, j \in 0..m : W[i] = W[j] => i = j
  <2> TAKE i, j \in 0..m
  <2>1. i < j \/ j < i \/ i = j
    BY <1>3, <1>7
  <2> QED BY <1>11, <2>1
<1> QED BY <1>1, <1>2, <1>3, <1>7, <1>10, <1>12 DEF Chain

\* A value is counted if and only if it occurs.
LEMMA CountOccurs ==
  ASSUME NEW n \in Nat, NEW vs, DOMAIN vs = 1..n, NEW v
  PROVE  Abstract!Count(vs, v) = 0 <=> \A i \in 1..n : vs[i] # v
<1> DEFINE S == {i \in 1..n : vs[i] = v}
<1>1. Abstract!Count(vs, v) = Cardinality(S)
  BY Zenon DEF Abstract!Count, Abstract!Cardinality, Cardinality
<1>2. IsFiniteSet(S)
  <2>1. IsFiniteSet(1..n) /\ S \in SUBSET (1..n)
    BY FS_Interval
  <2> QED BY <2>1, FS_Subset
<1>3. Cardinality(S) = 0 <=> S = {}
  <2> HIDE DEF S
  <2> QED BY <1>2, FS_EmptySet
<1> QED BY <1>1, <1>3

\* Sorting gives every node of the list a value that was on it.
LEMMA SortTypes ==
  ASSUME TypeInv, S_bubblesorted
  PROVE  TypeInv'
<1> USE FreshType
<1> DEFINE place(a) == CHOOSE n \in 1..Cardinality(Nodes) : Walk(start)[n - 1] = a
           values == [n \in 1..Cardinality(Nodes) |-> heap[Walk(start)[n - 1]].data]
           h == [a \in Live |->
                   IF a \in Nodes
                     THEN [heap[a] EXCEPT !.data = BubbleSorted(values)[place(a)]]
                     ELSE heap[a]]
<1>1. UNCHANGED kind /\ Effect(ToTheEnd, start, h)
  BY Zenon DEF S_bubblesorted, Call
<1>2. CASE start = NULL
  <2>1. Nodes = {}
    <3>1. PICK W : W = Walk(start)
      OBVIOUS
    <3>2. PICK C : C = Cardinality(Addr)
      OBVIOUS
    <3>3. /\ C \in Nat /\ W[0] = NULL
          /\ \A n \in 1..C : W[n] = Succ(W[n - 1])
      BY <1>2, <3>1, <3>2, WalkSteps
    <3>4. NULL \notin Live
      BY HeapAssumption
    <3> DEFINE Off == {n \in 0..C : W[n] = NULL}
    <3>5. 0 \in Off
      BY <3>3
    <3>6. ASSUME NEW n \in 1..C, n - 1 \in Off
          PROVE  n \in Off
      BY <3>3, <3>4, <3>6 DEF Succ
    <3>7. 0..C \subseteq Off
      <4> HIDE DEF Off
      <4> QED BY <3>3, <3>5, <3>6, Induction
    <3> QED BY <3>1, <3>2, <3>4, <3>7 DEF Nodes
  <2>2. h = heap
    <3> HIDE DEF place, values
    <3> QED BY <2>1 DEF Memory, Live
  <2> HIDE DEF h
  <2> QED BY <1>1, <2>2, EffectTypes
<1>3. ASSUME start # NULL, ToTheEnd \subseteq Live, Forever \notin ToTheEnd
      PROVE  Memory(h)
  <2>1. Seek(start, IsLast) \in Live /\ Seek(start, IsLast) # Forever
    BY <1>3 DEF ToTheEnd
  <2>2. PICK m \in Nat : Chain(m)
    BY <1>3, <2>1, EndsInChain
  <2>3. PICK W : W = Walk(start)
    OBVIOUS
  <2>4. /\ Nodes = {W[n] : n \in 0..m}
        /\ \A n \in 0..m : W[n] \in Live
        /\ \A i, j \in 0..m : W[i] = W[j] => i = j
    BY <2>2, <2>3 DEF Chain
  <2>5. Cardinality(Nodes) = m + 1
    <3> DEFINE f == [n \in 1..(m + 1) |-> W[n - 1]]
    <3>1. f \in Bijection(1..(m + 1), Nodes)
      <4>1. \A n \in 1..(m + 1) : n - 1 \in 0..m
        BY <2>2
      <4>2. f \in [1..(m + 1) -> Nodes]
        BY <2>4, <4>1
      <4>3. ASSUME NEW i \in 1..(m + 1), NEW j \in 1..(m + 1), f[i] = f[j]
            PROVE  i = j
        <5>1. i - 1 = j - 1
          BY <2>4, <4>1, <4>3
        <5> QED BY <5>1
      <4>4. ASSUME NEW a \in Nodes
            PROVE  \E n \in 1..(m + 1) : f[n] = a
        <5>1. PICK n \in 0..m : a = W[n]
          BY <2>4
        <5>2. n + 1 \in 1..(m + 1) /\ (n + 1) - 1 = n
          BY <2>2
        <5>3. f[n + 1] = a
          BY <5>1, <5>2
        <5> QED BY <5>2, <5>3
      <4> HIDE DEF f
      <4> QED BY <4>2, <4>3, <4>4
              DEF Bijection, Injection, Surjection, IsInjective
    <3>2. IsFiniteSet(1..(m + 1)) /\ Cardinality(1..(m + 1)) = m + 1
      BY <2>2, FS_Interval
    <3> HIDE DEF f
    <3> QED BY <3>1, <3>2, FS_Bijection DEF ExistsBijection
  <2>6. /\ values \in [1..(m + 1) -> Value]
        /\ \A a \in Nodes : place(a) \in 1..(m + 1)
    <3>1. \A n \in 1..(m + 1) : n - 1 \in 0..m
      BY <2>2
    <3>2. ASSUME NEW n \in 1..(m + 1)
          PROVE  heap[Walk(start)[n - 1]].data \in Value
      <4>1. Walk(start)[n - 1] \in Live
        BY <2>3, <2>4, <3>1
      <4> QED BY <4>1, TypeInvTypes DEF TypeOK
    <3>3. ASSUME NEW a \in Nodes
          PROVE  place(a) \in 1..(m + 1)
      <4>1. PICK n \in 0..m : a = W[n]
        BY <2>4
      <4>2. n + 1 \in 1..(m + 1) /\ (n + 1) - 1 = n
        BY <2>2
      <4>3. \E k \in 1..Cardinality(Nodes) : Walk(start)[k - 1] = a
        BY <2>3, <2>5, <4>1, <4>2
      <4> QED BY <2>5, <4>3, Zenon
    <3> QED BY <2>5, <3>2, <3>3
  <2>7. PICK sorted : sorted = BubbleSorted(values)
    OBVIOUS
  <2>8. ASSUME NEW n \in 1..(m + 1)
        PROVE  sorted[n] \in Value
    <3> HIDE DEF values
    <3>1. values \in [1..(m + 1) -> CInt] /\ m + 1 \in Nat
      <4>1. Value \subseteq CInt
        BY HeapAssumption DEF CInt
      <4> QED BY <2>2, <2>6, <4>1
    <3>2. /\ sorted \in [1..(m + 1) -> CInt]
          /\ Abstract!Count(sorted, sorted[n]) = Abstract!Count(values, sorted[n])
      BY <2>7, <3>1, SortSorts
    <3>3. Abstract!Count(sorted, sorted[n]) # 0
      BY <3>1, <3>2, CountOccurs
    <3>4. PICK k \in 1..(m + 1) : values[k] = sorted[n]
      BY <3>1, <3>2, <3>3, CountOccurs
    <3> QED BY <2>6, <3>4
  <2>9. ASSUME NEW a \in Live
        PROVE  h[a] \in Node
    <3>1. heap[a] \in Node
      BY DEF Memory, Live
    <3>2. ASSUME NEW node \in Node, NEW v \in Value
          PROVE  [node EXCEPT !.data = v] \in Node
      <4> HIDE DEF Pointer, TwoWay
      <4> QED BY DEF Node
    <3>3. a \in Nodes => sorted[place(a)] \in Value
      <4> HIDE DEF place
      <4> QED BY <2>6, <2>8
    <3> HIDE DEF place, values, Node
    <3> QED BY <2>7, <3>1, <3>2, <3>3
  <2> HIDE DEF place, values, Node
  <2> QED BY <2>9 DEF Memory
<1> HIDE DEF h
<1> QED BY <1>1, <1>2, <1>3, EffectTypes

\* The lists keep their types whatever is called: a node in use has a value
\* that was put on the list, also when the list has been sorted, and pointers.
THEOREM TypeCorrect == Spec => []TypeOK
<1>1. Init => TypeInv
  <2> SUFFICES ASSUME Init PROVE TypeInv
    OBVIOUS
  <2>1. DOMAIN heap = {} /\ heap \in [{} -> Node]
    BY DEF Init, HeapInit
  <2> QED BY <2>1 DEF Init, HeapInit, TypeInv, Memory, Pointer
<1>2. TypeInv /\ [Next]_heapVars => TypeInv'
  <2> SUFFICES ASSUME TypeInv, [Next]_heapVars PROVE TypeInv'
    OBVIOUS
  <2>1. CASE kind \in {"singly", "pthread"} /\ (SinglyNext \/ PthreadListNext)
    <3>1. ~TwoWay
      BY <2>1 DEF TwoWay
    <3> QED BY <2>1, <3>1, OneWayTypes, CommonTypes, SortTypes
            DEF SinglyNext, PthreadListNext
  <2>2. CASE kind = "doubly" /\ DoublyNext
    <3>1. TwoWay
      BY <2>2 DEF TwoWay
    <3> QED BY <2>2, <3>1, DoublyTypes, CommonTypes, SortTypes
            DEF DoublyNext, freeallDNodes, printfallDNodes, D_bubblesorted
  <2>3. CASE kind = "circular" /\ CircularNext
    <3>1. ~TwoWay
      BY <2>3 DEF TwoWay
    <3> QED BY <2>3, <3>1, CircularTypes, CommonTypes DEF CircularNext
  <2>4. CASE kind = "doublycircular" /\ DoublyCircularNext
    <3>1. TwoWay
      BY <2>4 DEF TwoWay
    <3> QED BY <2>4, <3>1, DoublyCircularTypes, CommonTypes
            DEF DoublyCircularNext, printfallDCNodes
  <2>5. CASE UNCHANGED heapVars
    BY <2>5 DEF heapVars, TypeInv, Memory, Node, TwoWay
  <2> QED BY <2>1, <2>2, <2>3, <2>4, <2>5 DEF Next
<1>3. TypeInv => TypeOK
  BY TypeInvTypes
<1> QED BY <1>1, <1>2, <1>3, PTL DEF Spec

=============================================================================
