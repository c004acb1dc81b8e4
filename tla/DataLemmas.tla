----------------------------- MODULE DataLemmas -----------------------------
(***************************************************************************)
(* Facts about data that the proofs of several modules need: induction on  *)
(* the natural numbers and functions defined by recursion, least and       *)
(* greatest elements, and what RemoveAt and concatenation do to the        *)
(* elements of a sequence.                                                 *)
(***************************************************************************)
EXTENDS Integers, Sequences, SequencesExt, FiniteSetsExt, WellFoundedInduction, SequenceTheorems, TLAPS

\* Induction on the natural numbers, for a set: its complement has no least element.
LEMMA SetInduction ==
  ASSUME NEW S, 0 \in S, \A n \in Nat : n \in S => n + 1 \in S
  PROVE  Nat \subseteq S
  <1> DEFINE T == Nat \ S
             R == OpToRel(<, Nat)
  <1> SUFFICES ASSUME T # {} PROVE FALSE
    OBVIOUS
  <1>1. IsWellFoundedOn(R, Nat)
    BY NatLessThanWellFounded, Zenon
  <1>2. T \subseteq Nat
    OBVIOUS
  <1> HIDE DEF T, R
  <1>3. PICK x \in T : \A y \in T : ~ (<<y, x>> \in R)
    BY <1>1, <1>2, WFMin
  <1>4. x \in Nat /\ x # 0 /\ x - 1 \in Nat
    BY <1>2, <1>3 DEF T
  <1>5. x - 1 \in T
    BY <1>4, <1>3 DEF T
  <1>6. <<x - 1, x>> \in R
    BY <1>4 DEF R, OpToRel
  <1>7. QED
    BY <1>3, <1>5, <1>6

\* h is built from a by n steps of G.
Unrolled(h, n, V, a, G) ==
    /\ h \in [0 .. n -> V]
    /\ h[0] = a
    /\ \A k \in 0 .. n - 1 : h[k + 1] = G[<<h[k], k + 1>>]

\* Two such functions agree as far as both go.
LEMMA UnrolledUnique ==
  ASSUME NEW V, NEW a, NEW G, NEW m \in Nat, NEW n \in Nat, NEW g, NEW h,
         Unrolled(g, m, V, a, G), Unrolled(h, n, V, a, G)
  PROVE  \A k \in Nat : k <= m /\ k <= n => g[k] = h[k]
  <1> DEFINE S == {k \in Nat : k <= m /\ k <= n => g[k] = h[k]}
  <1>1. 0 \in S
    BY DEF Unrolled
  <1>2. ASSUME NEW k \in Nat, k \in S PROVE k + 1 \in S
    <2> SUFFICES ASSUME k + 1 <= m, k + 1 <= n PROVE g[k + 1] = h[k + 1]
      OBVIOUS
    <2>1. g[k] = h[k]
      BY <1>2
    <2>2. k \in 0 .. m - 1 /\ k \in 0 .. n - 1
      OBVIOUS
    <2>3. QED
      BY <2>1, <2>2 DEF Unrolled
  <1> HIDE DEF S
  <1>3. Nat \subseteq S
    BY <1>1, <1>2, SetInduction
  <1>4. QED
    BY <1>3 DEF S

\* There is one for every number of steps.
LEMMA UnrolledExists ==
  ASSUME NEW V, NEW a \in V, NEW G \in [V \X Nat -> V], NEW n \in Nat
  PROVE  \E h : Unrolled(h, n, V, a, G)
  <1> DEFINE S == {k \in Nat : \E h : Unrolled(h, k, V, a, G)}
  <1>1. 0 \in S
    <2>1. Unrolled([i \in 0 .. 0 |-> a], 0, V, a, G)
      BY DEF Unrolled
    <2>2. QED
      BY <2>1
  <1>2. ASSUME NEW k \in Nat, k \in S PROVE k + 1 \in S
    <2>1. PICK h : Unrolled(h, k, V, a, G)
      BY <1>2
    <2> DEFINE g == [i \in 0 .. k + 1 |-> IF i = k + 1 THEN G[<<h[k], k + 1>>] ELSE h[i]]
    <2>2. h[k] \in V
      BY <2>1 DEF Unrolled
    <2>3. g \in [0 .. k + 1 -> V]
      BY <2>1, <2>2 DEF Unrolled
    <2>4. g[0] = a
      BY <2>1 DEF Unrolled
    <2>5. ASSUME NEW i \in 0 .. k PROVE g[i + 1] = G[<<g[i], i + 1>>]
      <3>1. CASE i = k
        <4>1. i # k + 1 /\ i + 1 = k + 1 /\ i + 1 \in 0 .. k + 1
          BY <3>1
        <4>2. QED
          BY <4>1, <3>1
      <3>2. CASE i # k
        <4>1. i \in 0 .. k - 1 /\ i \in 0 .. k + 1 /\ i + 1 \in 0 .. k + 1
          BY <3>2
        <4>2. h[i + 1] = G[<<h[i], i + 1>>]
          BY <2>1, <4>1 DEF Unrolled
        <4>3. g[i] = h[i]
          BY <4>1
        <4>4. g[i + 1] = h[i + 1]
          BY <4>1
        <4>5. QED
          BY <4>2, <4>3, <4>4
      <3>3. QED
        BY <3>1, <3>2
    <2> HIDE DEF g
    <2>6. Unrolled(g, k + 1, V, a, G)
      BY <2>3, <2>4, <2>5 DEF Unrolled
    <2>7. QED
      BY <2>6
  <1> HIDE DEF S
  <1>3. Nat \subseteq S
    BY <1>1, <1>2, SetInduction
  <1>4. QED
    BY <1>3 DEF S

\* f is what a and G define by recursion.
Recursion(f, V, a, G) ==
    /\ f \in [Nat -> V]
    /\ f[0] = a
    /\ \A n \in Nat : f[n + 1] = G[<<f[n], n + 1>>]

\* A recursive definition defines a function.
LEMMA RecursionExists ==
  ASSUME NEW V, NEW a, NEW G, a \in V, G \in [V \X Nat -> V]
  PROVE  \E f : Recursion(f, V, a, G)
  <1> DEFINE H(n) == CHOOSE h : Unrolled(h, n, V, a, G)
             f == [n \in Nat |-> H(n)[n]]
  <1>1. \A n \in Nat : Unrolled(H(n), n, V, a, G)
    BY UnrolledExists
  <1> HIDE DEF H
  <1>2. f \in [Nat -> V]
    BY <1>1 DEF Unrolled
  <1>3. f[0] = a
    BY <1>1 DEF Unrolled
  <1>4. ASSUME NEW n \in Nat PROVE f[n + 1] = G[<<f[n], n + 1>>]
    <2>1. Unrolled(H(n + 1), n + 1, V, a, G) /\ Unrolled(H(n), n, V, a, G)
      BY <1>1
    <2>2. H(n + 1)[n] = H(n)[n]
      BY <2>1, UnrolledUnique
    <2>3. H(n + 1)[n + 1] = G[<<H(n + 1)[n], n + 1>>]
      BY <2>1 DEF Unrolled
    <2>4. QED
      BY <2>2, <2>3
  <1> HIDE DEF f
  <1>5. QED
    BY <1>2, <1>3, <1>4 DEF Recursion

\* Induction up to a bound.
LEMMA BoundedInduction ==
  ASSUME NEW S, NEW n \in Nat, 0 \in S, \A k \in 0 .. n - 1 : k \in S => k + 1 \in S
  PROVE  0 .. n \subseteq S
  <1> DEFINE U == {k \in Nat : k <= n => k \in S}
  <1>1. 0 \in U
    OBVIOUS
  <1>2. ASSUME NEW k \in Nat, k \in U PROVE k + 1 \in U
    <2>1. k + 1 <= n => k \in 0 .. n - 1
      OBVIOUS
    <2>2. QED
      BY <1>2, <2>1
  <1> HIDE DEF U
  <1>3. Nat \subseteq U
    BY <1>1, <1>2, SetInduction
  <1>4. QED
    BY <1>3 DEF U

\* f is what a and G define by recursion on 0 .. n.
Walked(f, n, V, a, G) ==
    /\ f \in [0 .. n -> V]
    /\ f = [k \in 0 .. n |-> IF k = 0 THEN a ELSE G[<<f[k - 1], k>>]]

\* There is one.
LEMMA WalkExists ==
  ASSUME NEW V, NEW a \in V, NEW G \in [V \X Nat -> V], NEW n \in Nat
  PROVE  \E f : Walked(f, n, V, a, G)
  <1>1. PICK f : Unrolled(f, n, V, a, G)
    BY UnrolledExists
  <1>2. ASSUME NEW k \in 0 .. n
        PROVE  f[k] = IF k = 0 THEN a ELSE G[<<f[k - 1], k>>]
    <2>1. CASE k = 0
      BY <1>1, <2>1 DEF Unrolled
    <2>2. CASE k # 0
      <3>1. k - 1 \in 0 .. n - 1 /\ (k - 1) + 1 = k
        BY <2>2
      <3>2. QED
        BY <1>1, <2>2, <3>1 DEF Unrolled
    <2>3. QED
      BY <2>1, <2>2
  <1>3. f \in [0 .. n -> V]
    BY <1>1 DEF Unrolled
  <1>4. Walked(f, n, V, a, G)
    BY <1>2, <1>3 DEF Walked
  <1>5. QED
    BY <1>4

\* Min(S) is the least element of S.
LEMMA LeastElement ==
  ASSUME NEW S, S # {}, S \subseteq Nat
  PROVE  Min(S) \in S /\ \A y \in S : Min(S) <= y
  <1> DEFINE R == OpToRel(<, Nat)
  <1>1. IsWellFoundedOn(R, Nat)
    BY NatLessThanWellFounded, Zenon
  <1> HIDE DEF R
  <1>2. PICK x \in S : \A y \in S : ~ (<<y, x>> \in R)
    BY <1>1, WFMin
  <1>3. ASSUME NEW y \in S PROVE x <= y
    <2>1. x \in Nat /\ y \in Nat
      OBVIOUS
    <2>2. y < x => <<y, x>> \in R
      BY <2>1 DEF R, OpToRel
    <2>3. QED
      BY <1>2, <2>1, <2>2
  <1>4. QED
    BY <1>3 DEF Min

\* Max(S) is the greatest element of S.
LEMMA GreatestElement ==
  ASSUME NEW S, S # {}, NEW n \in Nat, S \subseteq 1 .. n
  PROVE  Max(S) \in S /\ \A y \in S : Max(S) >= y
  <1> DEFINE T == {k \in 0 .. n : n - k \in S}
  <1>1. T # {} /\ T \subseteq Nat
    <2>1. PICK x : x \in S
      OBVIOUS
    <2>2. n - x \in 0 .. n /\ n - (n - x) = x
      BY <2>1
    <2>3. n - x \in T
      BY <2>1, <2>2
    <2>4. QED
      BY <2>3
  <1>2. Min(T) \in T /\ \A k \in T : Min(T) <= k
    <2> HIDE DEF T
    <2>1. QED
      BY <1>1, LeastElement
  <1> DEFINE m == n - Min(T)
  <1>3. m \in S /\ Min(T) \in 0 .. n
    BY <1>2
  <1>4. ASSUME NEW y \in S PROVE m >= y
    <2>1. n - y \in 0 .. n /\ n - (n - y) = y
      OBVIOUS
    <2>2. n - y \in T
      BY <2>1
    <2>3. Min(T) <= n - y
      BY <1>2, <2>2
    <2>4. QED
      BY <1>3, <2>1, <2>3
  <1> HIDE DEF m
  <1>5. QED
    BY <1>3, <1>4 DEF Max

\* new is what old holds at the indices I, in order; e says where.
Embeds(e, new, old, I) ==
    /\ e \in [1 .. Len(new) -> I]
    /\ \A j, k \in 1 .. Len(new) : j < k => e[j] < e[k]
    /\ \A j \in 1 .. Len(new) : new[j] = old[e[j]]
    /\ \A i \in I : \E j \in 1 .. Len(new) : e[j] = i

\* RemoveAt(s, i) moves the elements after i one place down,
LEMMA RemoveAtElements ==
  ASSUME NEW S, NEW s \in Seq(S), NEW i \in 1 .. Len(s)
  PROVE  /\ RemoveAt(s, i) \in Seq(S)
         /\ Len(RemoveAt(s, i)) = Len(s) - 1
         /\ \A j \in 1 .. Len(s) - 1 : RemoveAt(s, i)[j] = IF j < i THEN s[j] ELSE s[j + 1]
  <1> DEFINE a == SubSeq(s, 1, i - 1)
             b == SubSeq(s, i + 1, Len(s))
  <1>1. a \in Seq(S) /\ Len(a) = i - 1 /\ \A j \in 1 .. i - 1 : a[j] = s[j]
    <2>1. \A j \in 1 .. i - 1 : s[j] \in S
      OBVIOUS
    <2>2. QED
      BY <2>1, SubSeqProperties
  <1>2. b \in Seq(S) /\ Len(b) = Len(s) - i /\ \A j \in 1 .. Len(s) - i : b[j] = s[i + j]
    <2>1. \A j \in i + 1 .. Len(s) : s[j] \in S
      OBVIOUS
    <2>2. QED
      BY <2>1, SubSeqProperties
  <1>3. RemoveAt(s, i) = a \o b
    BY DEF RemoveAt
  <1> HIDE DEF a, b
  <1>4. /\ a \o b \in Seq(S) /\ Len(a \o b) = Len(s) - 1
        /\ \A j \in 1 .. Len(s) - 1 : (a \o b)[j] = IF j <= i - 1 THEN a[j] ELSE b[j - (i - 1)]
    <2>1. /\ a \o b \in Seq(S) /\ Len(a \o b) = Len(a) + Len(b)
          /\ \A j \in 1 .. Len(a) + Len(b) :
                (a \o b)[j] = IF j <= Len(a) THEN a[j] ELSE b[j - Len(a)]
      BY <1>1, <1>2, ConcatProperties
    <2>2. Len(a) = i - 1 /\ Len(a) + Len(b) = Len(s) - 1
      BY <1>1, <1>2
    <2>3. QED
      BY <2>1, <2>2
  <1>5. ASSUME NEW j \in 1 .. Len(s) - 1
        PROVE  (a \o b)[j] = IF j < i THEN s[j] ELSE s[j + 1]
    <2>1. CASE j < i
      BY <1>1, <1>4, <2>1
    <2>2. CASE ~(j < i)
      <3>1. j - (i - 1) \in 1 .. Len(s) - i /\ i + (j - (i - 1)) = j + 1
        BY <2>2
      <3>2. b[j - (i - 1)] = s[j + 1]
        BY <1>2, <3>1
      <3>3. QED
        BY <1>4, <2>2, <3>2
    <2>3. QED
      BY <2>1, <2>2
  <1>6. QED
    BY <1>3, <1>4, <1>5

\* and so holds the others in order.
LEMMA RemoveAtEmbeds ==
  ASSUME NEW S, NEW s \in Seq(S), NEW i \in 1 .. Len(s)
  PROVE  \E e : Embeds(e, RemoveAt(s, i), s, (1 .. Len(s)) \ {i})
  <1> DEFINE e == [j \in 1 .. Len(s) - 1 |-> IF j < i THEN j ELSE j + 1]
             I == (1 .. Len(s)) \ {i}
  <1>1. Len(RemoveAt(s, i)) = Len(s) - 1
        /\ \A j \in 1 .. Len(s) - 1 : RemoveAt(s, i)[j] = IF j < i THEN s[j] ELSE s[j + 1]
    BY RemoveAtElements
  <1>2. e \in [1 .. Len(s) - 1 -> I]
    OBVIOUS
  <1>3. \A j, k \in 1 .. Len(s) - 1 : j < k => e[j] < e[k]
    OBVIOUS
  <1>4. \A j \in 1 .. Len(s) - 1 : RemoveAt(s, i)[j] = s[e[j]]
    BY <1>1
  <1>5. ASSUME NEW k \in I PROVE \E j \in 1 .. Len(s) - 1 : e[j] = k
    <2>1. CASE k < i
      <3>1. k \in 1 .. Len(s) - 1 /\ e[k] = k
        BY <2>1
      <3>2. QED
        BY <3>1
    <2>2. CASE k > i
      <3>1. k - 1 \in 1 .. Len(s) - 1 /\ e[k - 1] = k
        BY <2>2
      <3>2. QED
        BY <3>1
    <2>3. QED
      BY <2>1, <2>2
  <1> HIDE DEF e, I
  <1>6. Embeds(e, RemoveAt(s, i), s, I)
    BY <1>1, <1>2, <1>3, <1>4, <1>5 DEF Embeds
  <1>7. QED
    BY <1>6 DEF I

\* An element added at the head moves the others one place up.
LEMMA ConsElements ==
  ASSUME NEW S, NEW s \in Seq(S), NEW t \in S
  PROVE  /\ <<t>> \o s \in Seq(S)
         /\ Len(<<t>> \o s) = Len(s) + 1
         /\ (<<t>> \o s)[1] = t
         /\ \A i \in 1 .. Len(s) : (<<t>> \o s)[i + 1] = s[i]
  <1> DEFINE h == <<t>>
  <1>1. h \in Seq(S) /\ Len(h) = 1 /\ h[1] = t
    OBVIOUS
  <1> HIDE DEF h
  <1>2. /\ h \o s \in Seq(S)
        /\ Len(h \o s) = Len(h) + Len(s)
        /\ \A i \in 1 .. Len(h) + Len(s) : (h \o s)[i] = IF i <= Len(h) THEN h[i] ELSE s[i - Len(h)]
    BY <1>1, ConcatProperties
  <1>3. (h \o s)[1] = t
    BY <1>1, <1>2
  <1>4. ASSUME NEW i \in 1 .. Len(s) PROVE (h \o s)[i + 1] = s[i]
    <2>1. i + 1 \in 1 .. Len(h) + Len(s) /\ ~(i + 1 <= Len(h)) /\ (i + 1) - Len(h) = i
      BY <1>1
    <2>2. QED
      BY <1>2, <2>1
  <1>5. QED
    BY <1>1, <1>2, <1>3, <1>4 DEF h

\* The elements of a sequence at some indices, in their order.
Picked(s, I) ==
    LET F[n \in Nat] == IF n = 0 THEN <<>>
                        ELSE IF n \in I THEN Append(F[n - 1], s[n]) ELSE F[n - 1]
    IN  F[Len(s)]

\* They keep their order, and there are no others.
LEMMA PickedEmbeds ==
  ASSUME NEW S, NEW s \in Seq(S), NEW I, I \subseteq 1 .. Len(s)
  PROVE  /\ Picked(s, I) \in Seq(S)
         /\ Len(Picked(s, I)) <= Len(s)
         /\ \E e : Embeds(e, Picked(s, I), s, I)
  <1> DEFINE G == [x \in Seq(S) \X Nat |->
                      IF x[2] \in I THEN Append(x[1], s[x[2]]) ELSE x[1]]
             F == CHOOSE F : F = [n \in Nat |->
                      IF n = 0 THEN <<>>
                      ELSE IF n \in I THEN Append(F[n - 1], s[n]) ELSE F[n - 1]]
  <1>1. G \in [Seq(S) \X Nat -> Seq(S)]
    <2>1. ASSUME NEW v \in Seq(S), NEW n \in Nat
          PROVE  (IF n \in I THEN Append(v, s[n]) ELSE v) \in Seq(S)
      <3>1. n \in I => s[n] \in S
        BY ElementOfSeq
      <3>2. QED
        BY <3>1, AppendProperties
    <2>2. QED
      BY <2>1
  <1>2. \A v \in Seq(S), n \in Nat : G[<<v, n>>] = IF n \in I THEN Append(v, s[n]) ELSE v
    OBVIOUS
  <1> HIDE DEF G
  <1>3. PICK f : Recursion(f, Seq(S), <<>>, G)
    <2>1. <<>> \in Seq(S)
      OBVIOUS
    <2>2. QED
      BY <1>1, <2>1, RecursionExists
  <1>4. \A n \in Nat : f[n] \in Seq(S)
    BY <1>3 DEF Recursion
  <1>5. ASSUME NEW n \in Nat
        PROVE  f[n] = IF n = 0 THEN <<>>
                      ELSE IF n \in I THEN Append(f[n - 1], s[n]) ELSE f[n - 1]
    <2>1. CASE n = 0
      BY <1>3, <2>1 DEF Recursion
    <2>2. CASE n # 0
      <3>1. n - 1 \in Nat /\ (n - 1) + 1 = n
        BY <2>2
      <3>2. f[n] = G[<<f[n - 1], n>>]
        BY <1>3, <3>1 DEF Recursion
      <3>3. QED
        BY <1>2, <1>4, <2>2, <3>1, <3>2
    <2>3. QED
      BY <2>1, <2>2
  <1>6. f = [n \in Nat |-> IF n = 0 THEN <<>>
                           ELSE IF n \in I THEN Append(f[n - 1], s[n]) ELSE f[n - 1]]
    <2> DEFINE B(n) == IF n = 0 THEN <<>>
                       ELSE IF n \in I THEN Append(f[n - 1], s[n]) ELSE f[n - 1]
    <2>1. f = [n \in Nat |-> f[n]]
      BY <1>3 DEF Recursion
    <2>2. \A n \in Nat : f[n] = B(n)
      BY <1>5
    <2> HIDE DEF B
    <2>3. f = [n \in Nat |-> B(n)]
      BY <2>1, <2>2
    <2>4. QED
      BY <2>3, Zenon DEF B
  <1>7. F = [n \in Nat |-> IF n = 0 THEN <<>>
                           ELSE IF n \in I THEN Append(F[n - 1], s[n]) ELSE F[n - 1]]
    BY <1>6, Zenon
  <1>8. Picked(s, I) = F[Len(s)]
    BY DEF Picked
  <1> HIDE DEF F
  <1>9. F[0] = <<>>
    BY <1>7
  <1>10. ASSUME NEW n \in Nat
         PROVE  F[n + 1] = IF n + 1 \in I THEN Append(F[n], s[n + 1]) ELSE F[n]
    <2>1. n + 1 \in Nat /\ n + 1 # 0 /\ (n + 1) - 1 = n
      OBVIOUS
    <2>2. QED
      BY <1>7, <2>1
  <1> DEFINE Right(n) == /\ F[n] \in Seq(S)
                         /\ Len(F[n]) <= n
                         /\ \E e : Embeds(e, F[n], s, I \cap 1 .. n)
             T == {n \in Nat : Right(n)}
  <1>11. 0 \in T
    <2> DEFINE e == [j \in 1 .. 0 |-> j]
    <2>1. Embeds(e, <<>>, s, I \cap 1 .. 0)
      BY DEF Embeds
    <2> HIDE DEF e
    <2>2. <<>> \in Seq(S) /\ Len(<<>>) = 0
      BY EmptySeq
    <2>3. Embeds(e, F[0], s, I \cap 1 .. 0) /\ F[0] \in Seq(S) /\ Len(F[0]) <= 0
      BY <1>9, <2>1, <2>2
    <2>4. Right(0)
      BY <2>3
    <2>5. QED
      BY <2>4
  <1>12. ASSUME NEW n \in Nat, n \in T PROVE n + 1 \in T
    <2>1. F[n] \in Seq(S) /\ Len(F[n]) <= n /\ Len(F[n]) \in Nat
      BY <1>12
    <2>2. PICK e : Embeds(e, F[n], s, I \cap 1 .. n)
      BY <1>12
    <2> DEFINE m == Len(F[n])
    <2>3. CASE n + 1 \notin I
      <3>1. F[n + 1] = F[n]
        BY <1>10, <2>3
      <3>2. \A i \in I : i <= n + 1 <=> i <= n
        BY <2>3
      <3>3. I \cap 1 .. n + 1 = I \cap 1 .. n
        BY <3>2
      <3>4. Embeds(e, F[n + 1], s, I \cap 1 .. n + 1)
        BY <2>2, <3>1, <3>3
      <3>5. Right(n + 1)
        BY <2>1, <3>1, <3>4
      <3>6. QED
        BY <3>5
    <2>4. CASE n + 1 \in I
      <3> DEFINE d == [j \in 1 .. m + 1 |-> IF j = m + 1 THEN n + 1 ELSE e[j]]
      <3>1. F[n + 1] = Append(F[n], s[n + 1]) /\ s[n + 1] \in S
        BY <1>10, <2>4, ElementOfSeq
      <3>2. /\ F[n + 1] \in Seq(S) /\ Len(F[n + 1]) = m + 1
            /\ \A j \in 1 .. m : F[n + 1][j] = F[n][j]
            /\ F[n + 1][m + 1] = s[n + 1]
        BY <2>1, <3>1, AppendProperties
      <3>3. \A j \in 1 .. m : e[j] \in I \cap 1 .. n /\ F[n][j] = s[e[j]]
        BY <2>2 DEF Embeds
      <3>4. d \in [1 .. m + 1 -> I \cap 1 .. n + 1]
        BY <2>1, <2>4, <3>3
      <3>5. \A j, k \in 1 .. m + 1 : j < k => d[j] < d[k]
        <4> SUFFICES ASSUME NEW j \in 1 .. m + 1, NEW k \in 1 .. m + 1, j < k
                     PROVE  d[j] < d[k]
          OBVIOUS
        <4>1. j \in 1 .. m /\ d[j] = e[j]
          BY <2>1
        <4>2. CASE k = m + 1
          BY <3>3, <4>1, <4>2
        <4>3. CASE k # m + 1
          <5>1. k \in 1 .. m /\ d[k] = e[k]
            BY <2>1, <4>3
          <5>2. QED
            BY <2>2, <4>1, <5>1 DEF Embeds
        <4>4. QED
          BY <4>2, <4>3
      <3>6. \A j \in 1 .. m + 1 : F[n + 1][j] = s[d[j]]
        BY <2>1, <3>2, <3>3
      <3>7. ASSUME NEW i \in I \cap 1 .. n + 1 PROVE \E j \in 1 .. m + 1 : d[j] = i
        <4>1. CASE i = n + 1
          <5>1. m + 1 \in 1 .. m + 1 /\ d[m + 1] = i
            BY <2>1, <4>1
          <5>2. QED
            BY <5>1
        <4>2. CASE i # n + 1
          <5>1. i \in I \cap 1 .. n
            BY <4>2
          <5>2. PICK j \in 1 .. m : e[j] = i
            BY <2>2, <5>1 DEF Embeds
          <5>3. j \in 1 .. m + 1 /\ d[j] = i
            BY <2>1, <5>2
          <5>4. QED
            BY <5>3
        <4>3. QED
          BY <4>1, <4>2
      <3> HIDE DEF d
      <3>8. Embeds(d, F[n + 1], s, I \cap 1 .. n + 1)
        BY <3>2, <3>4, <3>5, <3>6, <3>7 DEF Embeds
      <3>9. QED
        BY <2>1, <3>2, <3>8
    <2>5. QED
      BY <2>3, <2>4
  <1> HIDE DEF T
  <1>13. Nat \subseteq T
    BY <1>11, <1>12, SetInduction
  <1>14. Right(Len(s))
    <2>1. Len(s) \in T
      BY <1>13
    <2>2. QED
      BY <2>1 DEF T
  <1>15. I \cap 1 .. Len(s) = I
    OBVIOUS
  <1>16. QED
    BY <1>8, <1>14, <1>15
=============================================================================
