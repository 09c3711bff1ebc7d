---------------------------- MODULE Reading_proofs ----------------------------
(* What a client reads and what it concludes.  The positions it accepts with *)
(* a path are those the trees give it, for every width of an index; it       *)
(* reports of a transaction only what was proved, and believes a truthful    *)
(* gateway, for any chain, networks, positions and events.  The arguments    *)
(* and orders it builds read back, the phrase of a seed restores it, a       *)
(* response that is cut is not taken for another one, and what it reads of a *)
(* gateway's answers was said there, for any widths, sizes and answers.  The *)
(* proofs share their inductions over numbers.                               *)
EXTENDS Confirmation, ArgumentCodec, PhraseCodec, AnswerCodec, ResponseCodec, TLAPS,
        SequenceTheorems, FiniteSetTheorems, WellFoundedInduction

-----------------------------------------------------------------------------
(* Induction and recursion over the naturals, from the order being well      *)
(* founded: the provers cite no lemma that takes an operator.                *)

\* The order of the naturals.
Below == {p \in Nat \X Nat : p[1] < p[2]}

\* Induction, as the least element of a set of numbers.
LEMMA LeastElement ==
  ASSUME NEW S \in SUBSET Nat, S # {}
  PROVE  \E n \in S : \A m \in S : n <= m
<1>1. IsWellFoundedOn(Below, Nat)
  BY NatLessThanWellFounded DEF OpToRel, Below
<1>2. PICK n \in S : \A m \in S : ~ (<<m, n>> \in Below)
  BY <1>1, WFMin
<1>3. \A m \in S : ~ (m < n)
  BY <1>2 DEF Below
<1> QED
  BY <1>3

\* A set with 0 and the successor of each of its numbers holds them all.
LEMMA StepInduction ==
  ASSUME NEW S, 0 \in S, \A n \in Nat : n \in S => n + 1 \in S
  PROVE  \A n \in Nat : n \in S
<1> DEFINE T == Nat \ S
<1>1. SUFFICES ASSUME T # {} PROVE FALSE
  OBVIOUS
<1>2. PICK n \in T : \A m \in T : n <= m
  BY <1>1, LeastElement
<1>3. n - 1 \in Nat /\ n - 1 \notin T
  BY <1>2
<1> QED
  BY <1>2, <1>3

\* So does one with each number whose predecessors it holds.
LEMMA StrongInduction ==
  ASSUME NEW S, \A n \in Nat : (\A m \in 0 .. n - 1 : m \in S) => n \in S
  PROVE  \A n \in Nat : n \in S
<1> DEFINE T == Nat \ S
<1>1. SUFFICES ASSUME T # {} PROVE FALSE
  OBVIOUS
<1>2. PICK n \in T : \A m \in T : n <= m
  BY <1>1, LeastElement
<1>3. \A m \in 0 .. n - 1 : m \in S
  BY <1>2
<1> QED
  BY <1>2, <1>3

\* What a function gives the numbers before n; to follow G as far as n is to
\* have there the values that G gives from those before.
Up(f, n) == [m \in 0 .. n - 1 |-> f[m]]

Follows(f, G, n) == \A m \in 0 .. n - 1 : f[m] = G[m][Up(f, m)]

\* G gives every number a value of S from such values; f is the function of it.
Continues(G, S) == \A n \in Nat : \A h \in [0 .. n - 1 -> S] : G[n][h] \in S

Solves(f, G) == \A n \in Nat : f[n] = G[n][Up(f, n)]

\* A value for every number, given from those of the numbers before, is that of
\* a function.
LEMMA StrongRecursion ==
  ASSUME NEW S, NEW G, Continues(G, S)
  PROVE  \E f \in [Nat -> S] : Solves(f, G)
<1>1. \A n \in Nat : \A f, g : Follows(f, G, n) /\ Follows(g, G, n) => \A m \in 0 .. n - 1 : f[m] = g[m]
  <2> SUFFICES ASSUME NEW n \in Nat, NEW f, NEW g, Follows(f, G, n), Follows(g, G, n)
               PROVE  \A m \in 0 .. n - 1 : f[m] = g[m]
    OBVIOUS
  <2> DEFINE A == {m \in Nat : m < n => f[m] = g[m]}
  <2>1. ASSUME NEW m \in Nat, \A l \in 0 .. m - 1 : l \in A PROVE m \in A
    <3> SUFFICES ASSUME m < n PROVE f[m] = g[m]
      OBVIOUS
    <3>1. \A l \in 0 .. m - 1 : f[l] = g[l]
      BY <2>1
    <3>2. Up(f, m) = Up(g, m)
      BY <3>1 DEF Up
    <3>3. m \in 0 .. n - 1
      OBVIOUS
    <3>4. f[m] = G[m][Up(f, m)] /\ g[m] = G[m][Up(g, m)]
      BY <3>3, Zenon DEF Follows
    <3> QED
      BY <3>2, <3>4
  <2> HIDE DEF A
  <2>2. \A m \in Nat : m \in A
    BY <2>1, StrongInduction
  <2> QED
    BY <2>2 DEF A
<1> DEFINE E == {n \in Nat : \E f \in [0 .. n - 1 -> S] : Follows(f, G, n)}
<1>2. 0 \in E
  <2> DEFINE f == [m \in 0 .. -1 |-> CHOOSE s \in S : TRUE]
  <2>1. f \in [0 .. 0 - 1 -> S] /\ Follows(f, G, 0)
    BY DEF Follows
  <2> QED
    BY <2>1
<1>3. ASSUME NEW n \in Nat, n \in E PROVE n + 1 \in E
  <2>1. PICK f \in [0 .. n - 1 -> S] : Follows(f, G, n)
    BY <1>3
  <2> DEFINE g == [m \in 0 .. n |-> IF m = n THEN G[n][f] ELSE f[m]]
  <2>3. g \in [0 .. n -> S]
    BY DEF Continues
  <2>4. \A m \in 0 .. n : Up(g, m) = Up(f, m)
    BY DEF Up
  <2>5. Up(f, n) = f
    BY DEF Up
  <2>6. Follows(g, G, n + 1)
    <3>1. ASSUME NEW m \in 0 .. n PROVE g[m] = G[m][Up(f, m)]
      <4>1. CASE m = n
        BY <4>1, <2>5
      <4>2. CASE m # n
        BY <4>2, <2>1 DEF Follows
      <4> QED
        BY <4>1, <4>2
    <3> HIDE DEF g
    <3>2. (n + 1) - 1 = n
      OBVIOUS
    <3>3. \A m \in 0 .. n : g[m] = G[m][Up(g, m)]
      BY <3>1, <2>4
    <3> QED
      BY <3>2, <3>3 DEF Follows
  <2>7. g \in [0 .. (n + 1) - 1 -> S]
    BY <2>3
  <2> HIDE DEF g
  <2>8. n + 1 \in Nat
    OBVIOUS
  <2> QED
    BY <2>6, <2>7, <2>8, Zenon DEF E
<1> HIDE DEF E
<1>4. \A n \in Nat : n \in E
  BY <1>2, <1>3, StepInduction
<1>5. \A n \in Nat : \E f \in [0 .. n - 1 -> S] : Follows(f, G, n)
  BY <1>4 DEF E
<1> DEFINE part(n) == CHOOSE f : f \in [0 .. n - 1 -> S] /\ Follows(f, G, n)
<1>6. \A n \in Nat : part(n) \in [0 .. n - 1 -> S] /\ Follows(part(n), G, n)
  BY <1>5, Zenon
<1> DEFINE F == [n \in Nat |-> part(n + 1)[n]]
<1> HIDE DEF part
<1>7. F \in [Nat -> S]
  <2> SUFFICES ASSUME NEW n \in Nat PROVE part(n + 1)[n] \in S
    OBVIOUS
  <2>1. part(n + 1) \in [0 .. (n + 1) - 1 -> S] /\ n \in 0 .. (n + 1) - 1
    BY <1>6
  <2> QED
    BY <2>1
<1>8. ASSUME NEW n \in Nat PROVE F[n] = G[n][Up(F, n)]
  <2>1. Follows(part(n + 1), G, n + 1)
    BY <1>6
  <2>2. ASSUME NEW m \in 0 .. n - 1 PROVE F[m] = part(n + 1)[m]
    <3>1. Follows(part(m + 1), G, m + 1)
      BY <1>6
    <3>2. Follows(part(n + 1), G, m + 1)
      BY <2>1 DEF Follows
    <3> QED
      BY <1>1, <3>1, <3>2
  <2>3. Up(F, n) = Up(part(n + 1), n)
    BY <2>2 DEF Up
  <2> HIDE DEF F
  <2>4. part(n + 1)[n] = G[n][Up(part(n + 1), n)]
    BY <2>1 DEF Follows
  <2> QED
    BY <2>3, <2>4 DEF F
<1> QED
  BY <1>7, <1>8 DEF Solves

\* The recursive definitions have the functions they describe.
LEMMA Pow2Rec == Pow2 = [e \in Nat |-> IF e = 0 THEN 1 ELSE 2 * Pow2[e - 1]]
<1> DEFINE G == [n \in Nat |-> [h \in [0 .. n - 1 -> Nat] |-> IF n = 0 THEN 1 ELSE 2 * h[n - 1]]]
<1>1. ASSUME NEW n \in Nat, NEW h \in [0 .. n - 1 -> Nat] PROVE G[n][h] \in Nat
  OBVIOUS
<1>2. PICK f \in [Nat -> Nat] : \A n \in Nat : f[n] = G[n][Up(f, n)]
  <2> HIDE DEF G
  <2>1. Continues(G, Nat)
    BY <1>1 DEF Continues
  <2> QED
    BY <2>1, StrongRecursion DEF Solves
<1>3. ASSUME NEW n \in Nat PROVE G[n][Up(f, n)] = IF n = 0 THEN 1 ELSE 2 * f[n - 1]
  <2>1. Up(f, n) \in [0 .. n - 1 -> Nat]
    BY DEF Up
  <2>2. n # 0 => Up(f, n)[n - 1] = f[n - 1]
    BY DEF Up
  <2> QED
    BY <2>1, <2>2
<1> HIDE DEF G
<1>4. f = [e \in Nat |-> IF e = 0 THEN 1 ELSE 2 * f[e - 1]]
  BY <1>2, <1>3
<1> QED
  BY <1>4 DEF Pow2

\* The same of the count of set bits, which is a number.
LEMMA CountOnesRec ==
  /\ CountOnes = [x \in Nat |-> IF x = 0 THEN 0 ELSE CountOnes[x \div 2] + (x % 2)]
  /\ CountOnes \in [Nat -> Nat]
<1> DEFINE G == [n \in Nat |-> [h \in [0 .. n - 1 -> Nat] |->
                   IF n = 0 THEN 0 ELSE h[n \div 2] + (n % 2)]]
<1>0. \A n \in Nat : n # 0 => n \div 2 \in 0 .. n - 1 /\ n % 2 \in Nat
  OBVIOUS
<1>1. ASSUME NEW n \in Nat, NEW h \in [0 .. n - 1 -> Nat] PROVE G[n][h] \in Nat
  BY <1>0
<1>2. PICK f \in [Nat -> Nat] : \A n \in Nat : f[n] = G[n][Up(f, n)]
  <2> HIDE DEF G
  <2>1. Continues(G, Nat)
    BY <1>1 DEF Continues
  <2> QED
    BY <2>1, StrongRecursion DEF Solves
<1>3. ASSUME NEW n \in Nat
      PROVE  G[n][Up(f, n)] = IF n = 0 THEN 0 ELSE f[n \div 2] + (n % 2)
  <2>1. Up(f, n) \in [0 .. n - 1 -> Nat]
    BY DEF Up
  <2>2. n # 0 => Up(f, n)[n \div 2] = f[n \div 2]
    BY <1>0 DEF Up
  <2> QED
    BY <2>1, <2>2
<1> HIDE DEF G
<1>4. f = [x \in Nat |-> IF x = 0 THEN 0 ELSE f[x \div 2] + (x % 2)]
  BY <1>2, <1>3
<1>5. CountOnes = [x \in Nat |-> IF x = 0 THEN 0 ELSE CountOnes[x \div 2] + (x % 2)]
  BY <1>4 DEF CountOnes
<1> DEFINE T == {x \in Nat : CountOnes[x] \in Nat}
<1>6. ASSUME NEW n \in Nat, \A m \in 0 .. n - 1 : m \in T PROVE n \in T
  <2>1. n # 0 => n \div 2 \in T
    BY <1>0, <1>6
  <2>2. CountOnes[n] = IF n = 0 THEN 0 ELSE CountOnes[n \div 2] + (n % 2)
    BY <1>5
  <2> QED
    BY <2>1, <2>2, <1>0
<1> HIDE DEF T
<1>7. \A n \in Nat : n \in T
  BY <1>6, StrongInduction
<1> QED
  BY <1>5, <1>7 DEF T

\* Powers of two: their type, the first and the next.
LEMMA Pow2Facts ==
  /\ Pow2 \in [Nat -> Nat \ {0}]
  /\ Pow2[0] = 1
  /\ \A e \in Nat : Pow2[e + 1] = 2 * Pow2[e]
<1> DEFINE T == {e \in Nat : Pow2[e] \in Nat \ {0}}
<1>1. Pow2[0] = 1 /\ \A e \in Nat : Pow2[e + 1] = 2 * Pow2[e]
  <2>1. \A e \in Nat : Pow2[e] = IF e = 0 THEN 1 ELSE 2 * Pow2[e - 1]
    BY Pow2Rec
  <2> QED
    BY <2>1
<1>2. 0 \in T
  BY <1>1
<1>3. ASSUME NEW n \in Nat, n \in T PROVE n + 1 \in T
  BY <1>1, <1>3
<1> HIDE DEF T
<1>4. \A n \in Nat : n \in T
  BY <1>2, <1>3, StepInduction
<1>5. \A n \in Nat : Pow2[n] \in Nat \ {0}
  BY <1>4 DEF T
<1>6. DOMAIN Pow2 = Nat /\ Pow2 = [e \in DOMAIN Pow2 |-> Pow2[e]]
  BY Pow2Rec
<1> QED
  BY <1>1, <1>5, <1>6

\* The next power, for one exponent.
LEMMA Pow2Step ==
  ASSUME NEW e \in Nat
  PROVE  Pow2[e] \in Nat \ {0} /\ Pow2[e + 1] = 2 * Pow2[e] /\ e + 1 \in Nat
  BY Pow2Facts

\* They do not decrease.
LEMMA Pow2Grows ==
  \A a, b \in Nat : a <= b => Pow2[a] <= Pow2[b]
<1>1. ASSUME NEW a \in Nat PROVE \A c \in Nat : Pow2[a] <= Pow2[a + c]
  <2> DEFINE T == {c \in Nat : Pow2[a] <= Pow2[a + c]}
  <2>1. 0 \in T
    BY Pow2Facts
  <2>2. ASSUME NEW c \in Nat, c \in T PROVE c + 1 \in T
    <3>1. a + c \in Nat /\ a + (c + 1) = (a + c) + 1
      OBVIOUS
    <3>2. Pow2[a + (c + 1)] = 2 * Pow2[a + c]
      BY <3>1, Pow2Facts
    <3> QED
      BY <2>2, <3>1, <3>2, Pow2Facts
  <2> HIDE DEF T
  <2>3. \A c \in Nat : c \in T
    BY <2>1, <2>2, StepInduction
  <2> QED
    BY <2>3 DEF T
<1>2. ASSUME NEW a \in Nat, NEW b \in Nat, a <= b PROVE Pow2[a] <= Pow2[b]
  <2>1. b - a \in Nat /\ a + (b - a) = b
    BY <1>2
  <2> QED
    BY <1>1, <2>1
<1> QED
  BY <1>2

\* The exponents of a product add.
LEMMA Pow2Product ==
  \A a, c \in Nat : Pow2[a + c] = Pow2[a] * Pow2[c]
<1> SUFFICES ASSUME NEW a \in Nat PROVE \A c \in Nat : Pow2[a + c] = Pow2[a] * Pow2[c]
  OBVIOUS
<1> DEFINE T == {c \in Nat : Pow2[a + c] = Pow2[a] * Pow2[c]}
<1>1. 0 \in T
  BY Pow2Facts
<1>2. ASSUME NEW c \in Nat, c \in T PROVE c + 1 \in T
  <2>1. a + c \in Nat /\ a + (c + 1) = (a + c) + 1
    OBVIOUS
  <2>2. Pow2[a + (c + 1)] = 2 * Pow2[a + c] /\ Pow2[c + 1] = 2 * Pow2[c]
    BY <2>1, Pow2Facts
  <2>3. Pow2[a] \in Nat /\ Pow2[c] \in Nat
    BY Pow2Facts
  <2>4. Pow2[a] * (2 * Pow2[c]) = 2 * (Pow2[a] * Pow2[c])
    BY <2>3
  <2> QED
    BY <1>2, <2>2, <2>4
<1> HIDE DEF T
<1>3. \A c \in Nat : c \in T
  BY <1>1, <1>2, StepInduction
<1> QED
  BY <1>3 DEF T

\* A tree of more than one leaf splits at the power of two it lies above.
LEMMA SplitsAt ==
  ASSUME NEW n \in Nat, NEW k \in 0 .. Bits, Pow2[k] < n, n <= 2 * Pow2[k]
  PROVE  LeftSize(n) = Pow2[k]
<1> USE BitsAssumption
<1>1. Pow2[k] \in {Pow2[e] : e \in 0 .. Bits}
  OBVIOUS
<1>2. ASSUME NEW e \in 0 .. Bits, Pow2[e] < n, n <= 2 * Pow2[e] PROVE e = k
  <2>1. Pow2[e + 1] = 2 * Pow2[e] /\ Pow2[k + 1] = 2 * Pow2[k]
    BY Pow2Facts
  <2>2. /\ e + 1 <= k => Pow2[e + 1] <= Pow2[k]
        /\ k + 1 <= e => Pow2[k + 1] <= Pow2[e]
    BY Pow2Grows
  <2>3. Pow2[e] \in Nat /\ Pow2[k] \in Nat
    BY Pow2Facts
  <2> QED
    BY <1>2, <2>1, <2>2, <2>3
<1> QED
  BY <1>1, <1>2 DEF LeftSize

\* Every tree of more than one leaf does.
LEMMA Splits ==
  ASSUME NEW n \in 2 .. Pow2[Bits]
  PROVE  \E k \in 0 .. Bits - 1 : Pow2[k] < n /\ n <= 2 * Pow2[k] /\ LeftSize(n) = Pow2[k]
<1> USE BitsAssumption
<1> DEFINE T == {e \in Nat : n <= Pow2[e]}
<1>1. T \in SUBSET Nat /\ Bits \in T
  OBVIOUS
<1>2. PICK e \in T : \A d \in T : e <= d
  BY <1>1, LeastElement
<1>3. e \in Nat /\ e <= Bits /\ n <= Pow2[e] /\ e # 0
  BY <1>1, <1>2, Pow2Facts
<1>4. e - 1 \in 0 .. Bits - 1 /\ e - 1 \notin T
  BY <1>2, <1>3
<1>5. Pow2[e - 1] \in Nat /\ Pow2[(e - 1) + 1] = 2 * Pow2[e - 1] /\ (e - 1) + 1 = e
  BY <1>3, Pow2Facts
<1>6. Pow2[e - 1] < n /\ n <= 2 * Pow2[e - 1]
  BY <1>3, <1>4, <1>5
<1>7. LeftSize(n) = Pow2[e - 1]
  BY <1>4, <1>6, SplitsAt
<1> QED
  BY <1>4, <1>6, <1>7

\* Both subtrees have leaves, and fewer than the tree.
LEMMA LeftSizeType ==
  ASSUME NEW n \in 2 .. Pow2[Bits]
  PROVE  LeftSize(n) \in 1 .. n - 1
<1>1. PICK k \in 0 .. Bits - 1 : Pow2[k] < n /\ LeftSize(n) = Pow2[k]
  BY Splits
<1> QED
  BY <1>1, Pow2Facts, BitsAssumption

\* A path with a side put before it.
LEMMA Prepended ==
  ASSUME NEW s \in Seq(BOOLEAN), NEW b \in BOOLEAN
  PROVE  /\ <<b>> \o s \in Seq(BOOLEAN)
         /\ Len(<<b>> \o s) = Len(s) + 1
         /\ (<<b>> \o s)[1] = b
         /\ \A j \in 1 .. Len(s) : (<<b>> \o s)[j + 1] = s[j]
  OBVIOUS

\* PathOf is the function its definition describes.
LEMMA PathOfRec ==
  ASSUME NEW n \in 1 .. Pow2[Bits]
  PROVE  PathOf[n] =
           [i \in 0 .. n - 1 |->
              IF n = 1 THEN <<>>
              ELSE IF i < LeftSize(n) THEN <<FALSE>> \o PathOf[LeftSize(n)][i]
              ELSE <<TRUE>> \o PathOf[n - LeftSize(n)][i - LeftSize(n)]]
<1> DEFINE N == Pow2[Bits]
           Sides == [Nat -> Seq(BOOLEAN)]
           G == [m \in Nat |-> [h \in [0 .. m - 1 -> Sides] |-> [i \in Nat |->
                   IF m \notin 2 .. N THEN <<>>
                   ELSE IF i < LeftSize(m) THEN <<FALSE>> \o h[LeftSize(m)][i]
                   ELSE <<TRUE>> \o h[m - LeftSize(m)][i - LeftSize(m)]]]]
<1>1. N \in Nat
  BY Pow2Facts, BitsAssumption
<1>2. ASSUME NEW m \in 2 .. N
      PROVE  LeftSize(m) \in 1 .. m - 1 /\ m - LeftSize(m) \in 1 .. m - 1
  BY <1>1, <1>2, LeftSizeType
<1>3. Continues(G, Sides)
  <2> SUFFICES ASSUME NEW m \in Nat, NEW h \in [0 .. m - 1 -> Sides] PROVE G[m][h] \in Sides
    BY DEF Continues
  <2>1. G[m][h] = [i \in Nat |->
                   IF m \notin 2 .. N THEN <<>>
                   ELSE IF i < LeftSize(m) THEN <<FALSE>> \o h[LeftSize(m)][i]
                   ELSE <<TRUE>> \o h[m - LeftSize(m)][i - LeftSize(m)]]
    OBVIOUS
  <2> HIDE DEF G, Sides
  <2>2. ASSUME NEW i \in Nat PROVE G[m][h][i] \in Seq(BOOLEAN)
    <3>1. CASE m \notin 2 .. N
      BY <2>1, <3>1
    <3>2. CASE m \in 2 .. N /\ i < LeftSize(m)
      <4>1. h[LeftSize(m)] \in Sides
        BY <1>2, <3>2
      <4>2. h[LeftSize(m)][i] \in Seq(BOOLEAN)
        BY <4>1 DEF Sides
      <4>3. <<FALSE>> \o h[LeftSize(m)][i] \in Seq(BOOLEAN)
        BY <4>2, Prepended
      <4>4. G[m][h][i] = <<FALSE>> \o h[LeftSize(m)][i]
        BY <2>1, <3>2
      <4> QED
        BY <4>3, <4>4
    <3>3. CASE m \in 2 .. N /\ ~(i < LeftSize(m))
      <4>1. h[m - LeftSize(m)] \in Sides /\ i - LeftSize(m) \in Nat
        BY <1>2, <3>3
      <4>2. h[m - LeftSize(m)][i - LeftSize(m)] \in Seq(BOOLEAN)
        BY <4>1 DEF Sides
      <4>3. <<TRUE>> \o h[m - LeftSize(m)][i - LeftSize(m)] \in Seq(BOOLEAN)
        BY <4>2, Prepended
      <4>4. G[m][h][i] = <<TRUE>> \o h[m - LeftSize(m)][i - LeftSize(m)]
        BY <2>1, <3>3
      <4> QED
        BY <4>3, <4>4
    <3> QED
      BY <3>1, <3>2, <3>3
  <2> QED
    BY <2>1, <2>2 DEF Sides
<1> HIDE DEF Sides
<1>4. PICK f \in [Nat -> Sides] : Solves(f, G)
  BY <1>3, StrongRecursion
<1> DEFINE P == [m \in 1 .. N |-> [i \in 0 .. m - 1 |-> f[m][i]]]
<1>5. ASSUME NEW m \in 1 .. N, NEW i \in 0 .. m - 1
      PROVE  f[m][i] = IF m = 1 THEN <<>>
                       ELSE IF i < LeftSize(m) THEN <<FALSE>> \o P[LeftSize(m)][i]
                       ELSE <<TRUE>> \o P[m - LeftSize(m)][i - LeftSize(m)]
  <2>1. m \in Nat /\ i \in Nat
    BY <1>1
  <2>2. Up(f, m) \in [0 .. m - 1 -> Sides]
    BY <2>1 DEF Up
  <2>3. f[m][i] = IF m \notin 2 .. N THEN <<>>
                  ELSE IF i < LeftSize(m) THEN <<FALSE>> \o Up(f, m)[LeftSize(m)][i]
                  ELSE <<TRUE>> \o Up(f, m)[m - LeftSize(m)][i - LeftSize(m)]
    <3>1. f[m] = G[m][Up(f, m)]
      BY <1>4, <2>1 DEF Solves
    <3>2. G[m][Up(f, m)] =
            [j \in Nat |->
                  IF m \notin 2 .. N THEN <<>>
                  ELSE IF j < LeftSize(m) THEN <<FALSE>> \o Up(f, m)[LeftSize(m)][j]
                  ELSE <<TRUE>> \o Up(f, m)[m - LeftSize(m)][j - LeftSize(m)]]
      BY <2>1, <2>2
    <3> HIDE DEF G
    <3> QED
      BY <2>1, <3>1, <3>2
  <2> HIDE DEF G
  <2>4. CASE m = 1
    BY <2>3, <2>4
  <2>5. CASE m # 1
    <3>1. m \in 2 .. N
      BY <2>5, <1>1, <2>1
    <3>2. LeftSize(m) \in 1 .. m - 1 /\ m - LeftSize(m) \in 1 .. m - 1
      BY <1>2, <3>1
    <3>3. /\ LeftSize(m) \in 1 .. N /\ LeftSize(m) \in 0 .. m - 1
          /\ m - LeftSize(m) \in 1 .. N /\ m - LeftSize(m) \in 0 .. m - 1
      BY <3>2, <2>1, <1>1
    <3>4. Up(f, m)[LeftSize(m)] = f[LeftSize(m)] /\ Up(f, m)[m - LeftSize(m)] = f[m - LeftSize(m)]
      BY <3>3 DEF Up
    <3>5. i < LeftSize(m) => P[LeftSize(m)][i] = f[LeftSize(m)][i]
      <4> SUFFICES ASSUME i < LeftSize(m) PROVE P[LeftSize(m)][i] = f[LeftSize(m)][i]
        OBVIOUS
      <4>1. i \in 0 .. LeftSize(m) - 1
        BY <3>2, <2>1
      <4> QED
        BY <3>3, <4>1
    <3>6. ~(i < LeftSize(m)) => P[m - LeftSize(m)][i - LeftSize(m)] = f[m - LeftSize(m)][i - LeftSize(m)]
      <4> SUFFICES ASSUME ~(i < LeftSize(m))
                   PROVE  P[m - LeftSize(m)][i - LeftSize(m)] = f[m - LeftSize(m)][i - LeftSize(m)]
        OBVIOUS
      <4>1. i - LeftSize(m) \in 0 .. (m - LeftSize(m)) - 1
        BY <3>2, <2>1, <1>1
      <4> QED
        BY <3>3, <4>1
    <3> HIDE DEF P
    <3> QED
      BY <2>3, <2>5, <3>1, <3>4, <3>5, <3>6
  <2> QED
    BY <2>4, <2>5
<1>6. P = [m \in 1 .. N |-> [i \in 0 .. m - 1 |->
             IF m = 1 THEN <<>>
             ELSE LET left == LeftSize(m)
                  IN  IF i < left THEN <<FALSE>> \o P[left][i]
                      ELSE <<TRUE>> \o P[m - left][i - left]]]
  BY <1>5, Zenon
<1> HIDE DEF P, G
<1>7. PathOf = [m \in 1 .. Pow2[Bits] |-> [i \in 0 .. m - 1 |->
             IF m = 1 THEN <<>>
             ELSE LET left == LeftSize(m)
                  IN  IF i < left THEN <<FALSE>> \o PathOf[left][i]
                      ELSE <<TRUE>> \o PathOf[m - left][i - left]]]
  BY <1>6 DEF PathOf, Sizes
<1> QED
  BY <1>7, Zenon

\* Spelled is the function its definition describes, and its values numbers.
LEMMA SpelledRec ==
  ASSUME NEW path \in Seq(BOOLEAN)
  PROVE  /\ Spelled(path) \in [0 .. Len(path) -> Nat]
         /\ Spelled(path)[0] = 0
         /\ \A j \in 1 .. Len(path) :
              Spelled(path)[j] = 2 * Spelled(path)[j - 1] + (IF path[j] THEN 1 ELSE 0)
<1> DEFINE L == Len(path)
           bit == [j \in 1 .. L |-> IF path[j] THEN 1 ELSE 0]
           G == [m \in Nat |-> [h \in [0 .. m - 1 -> Nat] |->
                   IF m \notin 1 .. L THEN 0 ELSE 2 * h[m - 1] + bit[m]]]
<1>1. L \in Nat
  OBVIOUS
<1>2. \A j \in 1 .. L : bit[j] \in Nat
  OBVIOUS
<1>20. \A j \in 1 .. L : bit[j] = IF path[j] THEN 1 ELSE 0
  OBVIOUS
<1> HIDE DEF bit, L
<1>3. Continues(G, Nat)
  <2> SUFFICES ASSUME NEW m \in Nat, NEW h \in [0 .. m - 1 -> Nat] PROVE G[m][h] \in Nat
    BY DEF Continues
  <2>1. m \in 1 .. L => h[m - 1] \in Nat
    BY <1>1
  <2> QED
    BY <1>2, <2>1
<1>4. PICK f \in [Nat -> Nat] : Solves(f, G)
  <2> HIDE DEF G
  <2> QED
    BY <1>3, StrongRecursion
<1> DEFINE P == [j \in 0 .. L |-> f[j]]
<1>5. ASSUME NEW j \in 0 .. L PROVE f[j] = IF j = 0 THEN 0 ELSE 2 * P[j - 1] + bit[j]
  <2>1. j \in Nat
    BY <1>1
  <2>2. Up(f, j) \in [0 .. j - 1 -> Nat]
    BY <2>1 DEF Up
  <2>3. f[j] = IF j \notin 1 .. L THEN 0 ELSE 2 * Up(f, j)[j - 1] + bit[j]
    <3>1. f[j] = G[j][Up(f, j)]
      BY <1>4, <2>1 DEF Solves
    <3>2. G[j][Up(f, j)] = IF j \notin 1 .. L THEN 0 ELSE 2 * Up(f, j)[j - 1] + bit[j]
      BY <2>1, <2>2
    <3> QED
      BY <3>1, <3>2
  <2>4. CASE j = 0
    BY <2>3, <2>4, <1>1
  <2>5. CASE j # 0
    <3>1. Up(f, j)[j - 1] = f[j - 1] /\ P[j - 1] = f[j - 1]
      BY <2>1, <2>5, <1>1 DEF Up
    <3>2. j \in 1 .. L
      BY <1>1, <2>1, <2>5
    <3> HIDE DEF P
    <3> QED
      BY <2>3, <2>5, <3>1, <3>2
  <2> QED
    BY <2>4, <2>5
<1>6. P = [j \in 0 .. L |-> IF j = 0 THEN 0 ELSE 2 * P[j - 1] + bit[j]]
  BY <1>5, Zenon
<1> HIDE DEF P, G
<1>21. P = [j \in 0 .. Len(path) |->
              IF j = 0 THEN 0 ELSE 2 * P[j - 1] + (IF path[j] THEN 1 ELSE 0)]
  <2>1. \A j \in 0 .. L : (IF j = 0 THEN 0 ELSE 2 * P[j - 1] + bit[j])
                        = IF j = 0 THEN 0 ELSE 2 * P[j - 1] + (IF path[j] THEN 1 ELSE 0)
    BY <1>1, <1>20
  <2> QED
    BY <1>6, <2>1, Zenon DEF L
<1>22. Spelled(path) = [j \in 0 .. Len(path) |->
              IF j = 0 THEN 0 ELSE 2 * Spelled(path)[j - 1] + (IF path[j] THEN 1 ELSE 0)]
  BY <1>21 DEF Spelled
<1>7. \A j \in 0 .. L : Spelled(path)[j]
                      = IF j = 0 THEN 0 ELSE 2 * Spelled(path)[j - 1] + (IF path[j] THEN 1 ELSE 0)
  BY <1>22, Zenon DEF L
<1>8. /\ Spelled(path)[0] = 0
      /\ \A j \in 1 .. L : Spelled(path)[j] = 2 * Spelled(path)[j - 1] + bit[j]
  BY <1>1, <1>7, <1>20
<1> DEFINE T == {j \in Nat : j <= L => Spelled(path)[j] \in Nat}
<1>9. 0 \in T
  BY <1>8
<1>10. ASSUME NEW j \in Nat, j \in T PROVE j + 1 \in T
  <2> SUFFICES ASSUME j + 1 <= L PROVE Spelled(path)[j + 1] \in Nat
    OBVIOUS
  <2>1. Spelled(path)[j] \in Nat /\ j + 1 \in 1 .. L /\ (j + 1) - 1 = j
    BY <1>1, <1>10
  <2>2. Spelled(path)[j + 1] = 2 * Spelled(path)[j] + bit[j + 1]
    BY <1>8, <2>1
  <2>3. bit[j + 1] \in Nat
    BY <1>2, <2>1
  <2> QED
    <3>1. \A a, b \in Nat : 2 * a + b \in Nat
      OBVIOUS
    <3>2. 2 * Spelled(path)[j] + bit[j + 1] \in Nat
      BY <2>1, <2>3, <3>1, Zenon
    <3> QED
      BY <2>2, <3>2, Zenon
<1> HIDE DEF T
<1>11. \A j \in Nat : j \in T
  BY <1>9, <1>10, StepInduction
<1>12. Spelled(path) \in [0 .. L -> Nat]
  <2>1. \A j \in 0 .. L : Spelled(path)[j] \in Nat
    BY <1>1, <1>11 DEF T
  <2>2. DOMAIN Spelled(path) = 0 .. L
    BY <1>22 DEF L
  <2>3. Spelled(path) = [j \in DOMAIN Spelled(path) |-> Spelled(path)[j]]
    BY <1>22
  <2> QED
    BY <2>1, <2>2, <2>3
<1> QED
  BY <1>8, <1>12, <1>20 DEF L

\* A side at the front adds its power of two.
LEMMA LowBitsPrepended ==
  ASSUME NEW q \in Seq(BOOLEAN), NEW b \in BOOLEAN
  PROVE  /\ LowBits(q) \in Nat
         /\ LowBits(<<b>> \o q) = (IF b THEN Pow2[Len(q)] ELSE 0) + LowBits(q)
<1> DEFINE p == <<b>> \o q
           top == [j \in Nat |-> IF b THEN Pow2[j] ELSE 0]
<1>1. /\ p \in Seq(BOOLEAN) /\ Len(p) = Len(q) + 1 /\ p[1] = b
      /\ \A j \in 1 .. Len(q) : p[j + 1] = q[j]
  BY Prepended
<1>2. Len(q) \in Nat
  OBVIOUS
<1> HIDE DEF p
<1>3. /\ Spelled(p)[0] = 0
      /\ \A j \in 1 .. Len(q) + 1 :
           Spelled(p)[j] = 2 * Spelled(p)[j - 1] + (IF p[j] THEN 1 ELSE 0)
  BY <1>1, SpelledRec
<1>4. /\ Spelled(q) \in [0 .. Len(q) -> Nat]
      /\ Spelled(q)[0] = 0
      /\ \A j \in 1 .. Len(q) :
           Spelled(q)[j] = 2 * Spelled(q)[j - 1] + (IF q[j] THEN 1 ELSE 0)
  BY SpelledRec
<1>5. /\ top[0] = IF b THEN 1 ELSE 0
      /\ \A j \in Nat : top[j + 1] = 2 * top[j] /\ top[j] \in Nat
  <2>1. top[0] = IF b THEN 1 ELSE 0
    BY Pow2Facts
  <2>2. ASSUME NEW j \in Nat PROVE top[j + 1] = 2 * top[j] /\ top[j] \in Nat
    <3>1. Pow2[j + 1] = 2 * Pow2[j] /\ Pow2[j] \in Nat /\ j + 1 \in Nat
      BY Pow2Step
    <3> QED
      BY <3>1
  <2> QED
    BY <2>1, <2>2
<1> HIDE DEF top
<1> DEFINE T == {j \in Nat : j <= Len(q) => Spelled(p)[j + 1] = top[j] + Spelled(q)[j]}
<1>6. 0 \in T
  <2>1. 1 \in 1 .. Len(q) + 1 /\ 1 - 1 = 0
    BY <1>2
  <2>2. Spelled(p)[1] = 2 * 0 + (IF p[1] THEN 1 ELSE 0)
    BY <1>3, <2>1
  <2> QED
    BY <1>1, <1>4, <1>5, <2>2
<1>7. ASSUME NEW j \in Nat, j \in T PROVE j + 1 \in T
  <2> SUFFICES ASSUME j + 1 <= Len(q) PROVE Spelled(p)[(j + 1) + 1] = top[j + 1] + Spelled(q)[j + 1]
    OBVIOUS
  <2>1. /\ j + 1 \in 1 .. Len(q) /\ (j + 1) - 1 = j
        /\ (j + 1) + 1 \in 1 .. Len(q) + 1 /\ ((j + 1) + 1) - 1 = j + 1
        /\ j \in 0 .. Len(q)
    BY <1>2
  <2>2. Spelled(p)[j + 1] = top[j] + Spelled(q)[j]
    BY <1>2, <1>7
  <2>3. Spelled(q)[j + 1] = 2 * Spelled(q)[j] + (IF q[j + 1] THEN 1 ELSE 0)
    BY <1>4, <2>1
  <2>4. Spelled(p)[(j + 1) + 1] = 2 * Spelled(p)[j + 1] + (IF q[j + 1] THEN 1 ELSE 0)
    BY <1>1, <1>3, <2>1
  <2>5. top[j + 1] = 2 * top[j] /\ top[j] \in Nat /\ Spelled(q)[j] \in Nat
    BY <1>4, <1>5, <2>1
  <2> QED
    BY <2>2, <2>3, <2>4, <2>5
<1> HIDE DEF T
<1>8. \A j \in Nat : j \in T
  BY <1>6, <1>7, StepInduction
<1>9. Spelled(p)[Len(q) + 1] = top[Len(q)] + Spelled(q)[Len(q)]
  BY <1>2, <1>8 DEF T
<1>10. Spelled(q)[Len(q)] \in Nat
  BY <1>2, <1>4
<1> QED
  BY <1>1, <1>9, <1>10 DEF LowBits, p, top

\* The same for each side.
LEMMA LowBitsOfSides ==
  ASSUME NEW q \in Seq(BOOLEAN)
  PROVE  /\ LowBits(<<FALSE>> \o q) = LowBits(q)
         /\ LowBits(<<TRUE>> \o q) = Pow2[Len(q)] + LowBits(q)
<1>1. LowBits(q) \in Nat
  BY LowBitsPrepended
<1>2. LowBits(<<FALSE>> \o q) = (IF FALSE THEN Pow2[Len(q)] ELSE 0) + LowBits(q)
  BY LowBitsPrepended
<1>3. LowBits(<<TRUE>> \o q) = (IF TRUE THEN Pow2[Len(q)] ELSE 0) + LowBits(q)
  BY LowBitsPrepended
<1> QED
  BY <1>1, <1>2, <1>3

\* An empty path spells nothing.
LEMMA LowBitsEmpty == LowBits(<<>>) = 0
<1>1. <<>> \in Seq(BOOLEAN) /\ Len(<<>>) = 0
  OBVIOUS
<1> QED
  BY <1>1, SpelledRec DEF LowBits

\* The path of an only leaf is empty.
LEMMA PathOfOne == PathOf[1][0] = <<>>
<1>1. 1 \in 1 .. Pow2[Bits]
  BY Pow2Facts, BitsAssumption
<1>2. PathOf[1] = [i \in 0 .. 1 - 1 |->
              IF 1 = 1 THEN <<>>
              ELSE IF i < LeftSize(1) THEN <<FALSE>> \o PathOf[LeftSize(1)][i]
              ELSE <<TRUE>> \o PathOf[1 - LeftSize(1)][i - LeftSize(1)]]
  BY <1>1, PathOfRec
<1>3. 0 \in 0 .. 1 - 1
  OBVIOUS
<1> QED
  BY <1>2, <1>3

\* A perfect tree splits in two perfect trees.
LEMMA PerfectSplits ==
  ASSUME NEW d \in 0 .. Bits - 1, NEW r \in 0 .. Pow2[d + 1] - 1
  PROVE  PathOf[Pow2[d + 1]][r] =
           IF r < Pow2[d] THEN <<FALSE>> \o PathOf[Pow2[d]][r]
                          ELSE <<TRUE>> \o PathOf[Pow2[d]][r - Pow2[d]]
<1> USE BitsAssumption
<1>1. Pow2[d + 1] = 2 * Pow2[d] /\ Pow2[d] \in Nat \ {0} /\ Pow2[d + 1] \in Nat /\ Pow2[Bits] \in Nat
  BY Pow2Facts
<1>2. Pow2[d + 1] <= Pow2[Bits]
  BY Pow2Grows
<1>3. LeftSize(Pow2[d + 1]) = Pow2[d]
  BY <1>1, SplitsAt
<1>4. Pow2[d + 1] \in 1 .. Pow2[Bits] /\ Pow2[d + 1] # 1 /\ Pow2[d + 1] - Pow2[d] = Pow2[d]
  BY <1>1, <1>2
<1> DEFINE n == Pow2[d + 1]
<1>5. PathOf[n] = [i \in 0 .. n - 1 |->
              IF n = 1 THEN <<>>
              ELSE IF i < LeftSize(n) THEN <<FALSE>> \o PathOf[LeftSize(n)][i]
              ELSE <<TRUE>> \o PathOf[n - LeftSize(n)][i - LeftSize(n)]]
  BY <1>4, PathOfRec
<1> QED
  BY <1>3, <1>4, <1>5

\* In a perfect tree the path of a leaf is its position in binary.
LEMMA PerfectPaths ==
  ASSUME NEW d \in 0 .. Bits
  PROVE  /\ \A r \in 0 .. Pow2[d] - 1 :
              /\ PathOf[Pow2[d]][r] \in Seq(BOOLEAN)
              /\ Len(PathOf[Pow2[d]][r]) = d
              /\ LowBits(PathOf[Pow2[d]][r]) = r
         /\ \A q \in Seq(BOOLEAN) :
              Len(q) = d => LowBits(q) \in 0 .. Pow2[d] - 1 /\ PathOf[Pow2[d]][LowBits(q)] = q
<1> USE BitsAssumption
<1> DEFINE Spells(e) ==
              \A r \in 0 .. Pow2[e] - 1 :
                /\ PathOf[Pow2[e]][r] \in Seq(BOOLEAN)
                /\ Len(PathOf[Pow2[e]][r]) = e
                /\ LowBits(PathOf[Pow2[e]][r]) = r
           Spelt(e) ==
              \A q \in Seq(BOOLEAN) :
                Len(q) = e => LowBits(q) \in 0 .. Pow2[e] - 1 /\ PathOf[Pow2[e]][LowBits(q)] = q
           T == {e \in Nat : e <= Bits => Spells(e) /\ Spelt(e)}
<1>1. 0 \in T
  <2>1. Pow2[0] = 1 /\ PathOf[1][0] = <<>>
    BY Pow2Facts, PathOfOne
  <2>2. Spells(0)
    <3>1. \A r \in 0 .. Pow2[0] - 1 : r = 0
      BY <2>1
    <3>2. <<>> \in Seq(BOOLEAN) /\ Len(<<>>) = 0 /\ PathOf[Pow2[0]][0] = <<>>
      BY <2>1
    <3> QED
      BY <3>1, <3>2, LowBitsEmpty
  <2>3. \A q \in Seq(BOOLEAN) : Len(q) = 0 => q = <<>>
    OBVIOUS
  <2>4. Spelt(0)
    BY <2>1, <2>3, LowBitsEmpty
  <2> QED
    BY <2>2, <2>4
<1>2. ASSUME NEW e \in Nat, e \in T PROVE e + 1 \in T
  <2> SUFFICES ASSUME e + 1 <= Bits PROVE Spells(e + 1) /\ Spelt(e + 1)
    OBVIOUS
  <2>1. e \in 0 .. Bits - 1 /\ Spells(e) /\ Spelt(e)
    BY <1>2
  <2>2. Pow2[e + 1] = 2 * Pow2[e] /\ Pow2[e] \in Nat \ {0}
    BY Pow2Facts
  <2>3. Spells(e + 1)
    <3> SUFFICES ASSUME NEW r \in 0 .. Pow2[e + 1] - 1
                 PROVE  /\ PathOf[Pow2[e + 1]][r] \in Seq(BOOLEAN)
                        /\ Len(PathOf[Pow2[e + 1]][r]) = e + 1
                        /\ LowBits(PathOf[Pow2[e + 1]][r]) = r
      OBVIOUS
    <3>1. CASE r < Pow2[e]
      <4> DEFINE q == PathOf[Pow2[e]][r]
      <4>1. q \in Seq(BOOLEAN) /\ Len(q) = e /\ LowBits(q) = r
        BY <2>1, <2>2, <3>1
      <4>2. PathOf[Pow2[e + 1]][r] = <<FALSE>> \o q
        BY <2>1, <3>1, PerfectSplits
      <4> HIDE DEF q
      <4>3. LowBits(<<FALSE>> \o q) = r
        BY <2>2, <4>1, LowBitsOfSides
      <4> QED
        BY <4>1, <4>2, <4>3, Prepended
    <3>2. CASE ~(r < Pow2[e])
      <4> DEFINE q == PathOf[Pow2[e]][r - Pow2[e]]
      <4>0. r - Pow2[e] \in 0 .. Pow2[e] - 1
        BY <2>2, <3>2
      <4>1. q \in Seq(BOOLEAN) /\ Len(q) = e /\ LowBits(q) = r - Pow2[e]
        BY <2>1, <4>0
      <4>2. PathOf[Pow2[e + 1]][r] = <<TRUE>> \o q
        BY <2>1, <3>2, PerfectSplits
      <4> HIDE DEF q
      <4>3. LowBits(<<TRUE>> \o q) = r
        BY <2>2, <4>1, LowBitsOfSides
      <4> QED
        BY <4>1, <4>2, <4>3, Prepended
    <3> QED
      BY <3>1, <3>2
  <2>4. Spelt(e + 1)
    <3> SUFFICES ASSUME NEW p \in Seq(BOOLEAN), Len(p) = e + 1
                 PROVE  LowBits(p) \in 0 .. Pow2[e + 1] - 1 /\ PathOf[Pow2[e + 1]][LowBits(p)] = p
      OBVIOUS
    <3> DEFINE q == Tail(p)
    <3>1. q \in Seq(BOOLEAN) /\ Len(q) = e /\ p = <<p[1]>> \o q /\ p[1] \in BOOLEAN
      OBVIOUS
    <3> HIDE DEF q
    <3>2. LowBits(q) \in 0 .. Pow2[e] - 1 /\ PathOf[Pow2[e]][LowBits(q)] = q
      BY <2>1, <3>1
    <3>3. LowBits(p) = (IF p[1] THEN Pow2[e] ELSE 0) + LowBits(q)
      BY <3>1, LowBitsPrepended
    <3>4. LowBits(p) \in 0 .. Pow2[e + 1] - 1
      BY <2>2, <3>2, <3>3
    <3>5. CASE p[1]
      <4>1. ~(LowBits(p) < Pow2[e]) /\ LowBits(p) - Pow2[e] = LowBits(q)
        BY <2>2, <3>2, <3>3, <3>5
      <4>2. PathOf[Pow2[e + 1]][LowBits(p)] = <<TRUE>> \o q
        <5>1. PathOf[Pow2[e + 1]][LowBits(p)] = <<TRUE>> \o PathOf[Pow2[e]][LowBits(p) - Pow2[e]]
          BY <2>1, <3>4, <4>1, PerfectSplits
        <5> QED
          BY <3>2, <4>1, <5>1
      <4> QED
        BY <3>1, <3>4, <3>5, <4>2
    <3>6. CASE ~p[1]
      <4>1. LowBits(p) < Pow2[e] /\ LowBits(p) = LowBits(q)
        BY <2>2, <3>2, <3>3, <3>6
      <4>2. PathOf[Pow2[e + 1]][LowBits(p)] = <<FALSE>> \o q
        BY <2>1, <3>2, <3>4, <4>1, PerfectSplits
      <4>3. p[1] = FALSE
        BY <3>1, <3>6
      <4> QED
        BY <3>1, <3>4, <4>2, <4>3
    <3> QED
      BY <3>5, <3>6
  <2> QED
    BY <2>3, <2>4
<1> HIDE DEF T
<1>3. \A e \in Nat : e \in T
  BY <1>1, <1>2, StepInduction
<1> QED
  BY <1>3 DEF T

\* The bits of a number are those of its half and its last.
LEMMA CountOnesHalves ==
  ASSUME NEW x \in Nat
  PROVE  /\ x \div 2 \in Nat /\ x % 2 \in Nat /\ CountOnes[x] \in Nat
         /\ CountOnes[x] = CountOnes[x \div 2] + (x % 2)
<1>1. x \div 2 \in Nat /\ x % 2 \in Nat /\ (x = 0 => x \div 2 = 0 /\ x % 2 = 0)
  OBVIOUS
<1>2. CountOnes[x] = IF x = 0 THEN 0 ELSE CountOnes[x \div 2] + (x % 2)
  BY CountOnesRec
<1>3. CountOnes[x] \in Nat
  BY CountOnesRec
<1> QED
  BY <1>1, <1>2, <1>3

\* A number and a greater power of two have one more bit set together.
LEMMA CountOnesAboveTop ==
  \A k \in Nat : \A x \in 0 .. Pow2[k] - 1 : CountOnes[x + Pow2[k]] = CountOnes[x] + 1
<1> DEFINE T == {k \in Nat : \A x \in 0 .. Pow2[k] - 1 : CountOnes[x + Pow2[k]] = CountOnes[x] + 1}
<1>1. 0 \in T
  <2>1. Pow2[0] = 1 /\ \A x \in 0 .. Pow2[0] - 1 : x = 0
    BY Pow2Facts
  <2>2. 1 \div 2 = 0 /\ 1 % 2 = 1
    OBVIOUS
  <2>3. CountOnes[1] = CountOnes[0] + 1 /\ 0 + 1 = 1
    BY <2>2, CountOnesHalves
  <2> QED
    BY <2>1, <2>3
<1>2. ASSUME NEW k \in Nat, k \in T PROVE k + 1 \in T
  <2> SUFFICES ASSUME NEW x \in 0 .. Pow2[k + 1] - 1
               PROVE  CountOnes[x + Pow2[k + 1]] = CountOnes[x] + 1
    BY Pow2Step
  <2> DEFINE P == Pow2[k]
             y == x + Pow2[k + 1]
  <2>1. P \in Nat \ {0} /\ Pow2[k + 1] = 2 * P
    BY Pow2Step
  <2>2. x \in Nat /\ y \in Nat /\ y = x + 2 * P /\ x < 2 * P
    BY <2>1
  <2> HIDE DEF P, y
  <2>3. y \div 2 = x \div 2 + P /\ y % 2 = x % 2 /\ x \div 2 \in 0 .. P - 1
    BY <2>1, <2>2
  <2>4. CountOnes[x \div 2 + P] = CountOnes[x \div 2] + 1
    BY <1>2, <2>3 DEF P
  <2>5. CountOnes[y] = CountOnes[y \div 2] + (y % 2)
    BY <2>2, CountOnesHalves
  <2>6. CountOnes[x] = CountOnes[x \div 2] + (x % 2) /\ x % 2 \in Nat /\ CountOnes[x \div 2] \in Nat
    BY <2>2, CountOnesHalves
  <2> QED
    BY <2>3, <2>4, <2>5, <2>6 DEF y
<1> HIDE DEF T
<1>3. \A k \in Nat : k \in T
  BY <1>1, <1>2, StepInduction
<1> QED
  BY <1>3 DEF T

\* The greatest power of two in a number.
LEMMA TopBit ==
  ASSUME NEW h \in Nat \ {0}, NEW c \in Nat, h < Pow2[c]
  PROVE  \E k \in 0 .. c - 1 : Pow2[k] <= h /\ h < 2 * Pow2[k]
<1> DEFINE T == {e \in Nat : h < Pow2[e]}
<1>1. T \in SUBSET Nat /\ c \in T
  OBVIOUS
<1>2. PICK e \in T : \A d \in T : e <= d
  BY <1>1, LeastElement
<1>3. e \in Nat /\ e <= c /\ h < Pow2[e] /\ e # 0
  BY <1>1, <1>2, Pow2Facts
<1>4. e - 1 \in 0 .. c - 1 /\ e - 1 \notin T /\ e - 1 \in Nat /\ (e - 1) + 1 = e
  BY <1>2, <1>3
<1>5. Pow2[e - 1] \in Nat /\ Pow2[e] = 2 * Pow2[e - 1]
  BY <1>4, Pow2Step
<1>6. Pow2[e - 1] <= h /\ h < 2 * Pow2[e - 1]
  BY <1>3, <1>4, <1>5
<1> QED
  BY <1>4, <1>6

\* m right turns.
Rights(m) == [j \in 1 .. m |-> TRUE]

\* One more right turn before right turns.
LEMMA OneMoreRight ==
  ASSUME NEW m \in Nat, NEW q \in Seq(BOOLEAN)
  PROVE  /\ Rights(m) \o q \in Seq(BOOLEAN)
         /\ <<TRUE>> \o (Rights(m) \o q) = Rights(m + 1) \o q
<1>1. Rights(m) \in Seq(BOOLEAN) /\ Len(Rights(m)) = m /\ \A j \in 1 .. m : Rights(m)[j] = TRUE
  BY DEF Rights
<1>2. /\ Rights(m + 1) \in Seq(BOOLEAN) /\ Len(Rights(m + 1)) = m + 1
      /\ \A j \in 1 .. m + 1 : Rights(m + 1)[j] = TRUE
  BY DEF Rights
<1>3. Rights(m + 1) = <<TRUE>> \o Rights(m)
  <2>1. /\ <<TRUE>> \o Rights(m) \in Seq(BOOLEAN) /\ Len(<<TRUE>> \o Rights(m)) = m + 1
        /\ (<<TRUE>> \o Rights(m))[1] = TRUE
        /\ \A j \in 1 .. m : (<<TRUE>> \o Rights(m))[j + 1] = Rights(m)[j]
    BY <1>1, Prepended
  <2>2. ASSUME NEW j \in 1 .. m + 1 PROVE (<<TRUE>> \o Rights(m))[j] = TRUE
    <3>1. j = 1 \/ (j - 1 \in 1 .. m /\ j = (j - 1) + 1)
      OBVIOUS
    <3> QED
      BY <1>1, <2>1, <3>1
  <2> DEFINE s == Rights(m + 1)
             t == <<TRUE>> \o Rights(m)
  <2>3. s \in Seq(BOOLEAN) /\ t \in Seq(BOOLEAN) /\ Len(s) = Len(t) /\ Len(s) = m + 1
    BY <1>2, <2>1
  <2>4. \A j \in 1 .. Len(s) : s[j] = t[j]
    BY <1>2, <2>2, <2>3
  <2> HIDE DEF s, t
  <2>5. s = t
    BY <2>3, <2>4, SeqEqual
  <2> QED
    BY <2>5 DEF s, t
<1>4. <<TRUE>> \in Seq(BOOLEAN)
  OBVIOUS
<1>5. (<<TRUE>> \o Rights(m)) \o q = <<TRUE>> \o (Rights(m) \o q)
  BY <1>1, <1>4, ConcatAssociative
<1>6. Rights(m) \o q \in Seq(BOOLEAN)
  BY <1>1, ConcatProperties
<1> QED
  BY <1>3, <1>5, <1>6

\* No right turns.
LEMMA NoRights == ASSUME NEW q \in Seq(BOOLEAN) PROVE Rights(0) \o q = q
  BY DEF Rights

\* A common factor drops from an inequality.
LEMMA FactorBelow ==
  ASSUME NEW a \in Nat, NEW b \in Nat, NEW c \in Nat \ {0}, a * c < b * c
  PROVE  a < b
<1> SUFFICES ASSUME b <= a PROVE FALSE
  OBVIOUS
<1>1. PICK d \in Nat : a = b + d
  <2>1. a - b \in Nat /\ a = b + (a - b)
    OBVIOUS
  <2> QED
    BY <2>1
<1>2. a * c = b * c + d * c /\ d * c \in Nat /\ b * c \in Nat
  BY <1>1
<1> QED
  BY <1>2

\* Leaf r of a perfect tree of Pow2[e] that h leaves' worth of trees precede:
\* its position i, and its path p.
Shape(i, p, e, h, r) ==
  /\ i = h * Pow2[e] + r /\ r < Pow2[e] /\ (e = 0 \/ r < Pow2[e - 1])
  /\ p = Rights(CountOnes[h]) \o PathOf[Pow2[e]][r]

\* The path of a leaf, where the tree is known to split.
LEMMA PathOfSplit ==
  ASSUME NEW n \in 2 .. Pow2[Bits], NEW k \in 0 .. Bits, Pow2[k] < n, n <= 2 * Pow2[k],
         NEW i \in 0 .. n - 1
  PROVE  PathOf[n][i] = IF i < Pow2[k] THEN <<FALSE>> \o PathOf[Pow2[k]][i]
                        ELSE <<TRUE>> \o PathOf[n - Pow2[k]][i - Pow2[k]]
<1>1. Pow2[Bits] \in Nat /\ n \in Nat /\ n \in 1 .. Pow2[Bits] /\ n # 1
  BY Pow2Facts, BitsAssumption
<1>2. LeftSize(n) = Pow2[k]
  BY <1>1, SplitsAt
<1>3. PathOf[n] = [j \in 0 .. n - 1 |->
              IF n = 1 THEN <<>>
              ELSE IF j < LeftSize(n) THEN <<FALSE>> \o PathOf[LeftSize(n)][j]
              ELSE <<TRUE>> \o PathOf[n - LeftSize(n)][j - LeftSize(n)]]
  BY <1>1, PathOfRec
<1> QED
  BY <1>1, <1>2, <1>3

\* Zero has no bit set.
LEMMA CountOnesZero == CountOnes[0] = 0
  BY CountOnesRec

\* Every leaf of every tree is of that shape.
LEMMA LeavesHaveShape ==
  ASSUME NEW n \in 1 .. Pow2[Bits], NEW i \in 0 .. n - 1
  PROVE  \E e \in 0 .. Bits, h \in Nat, r \in Nat : Shape(i, PathOf[n][i], e, h, r)
<1> USE BitsAssumption
<1> DEFINE N == Pow2[Bits]
           Shaped(m, j) == \E e \in 0 .. Bits, h \in Nat, r \in Nat :
                             Shape(j, PathOf[m][j], e, h, r) /\ (e = 0 \/ Pow2[e - 1] < m)
           T == {m \in Nat : m \in 1 .. N => \A j \in 0 .. m - 1 : Shaped(m, j)}
<1>1. N \in Nat
  BY Pow2Facts
<1> HIDE DEF N
<1>2. Shaped(1, 0)
  <2>1. <<>> \in Seq(BOOLEAN) /\ Pow2[0] = 1 /\ PathOf[1][0] = <<>>
    BY Pow2Facts, PathOfOne
  <2>2. PathOf[1][0] = Rights(CountOnes[0]) \o PathOf[Pow2[0]][0]
    BY <2>1, NoRights, CountOnesZero
  <2>3. Shape(0, PathOf[1][0], 0, 0, 0)
    BY <2>1, <2>2 DEF Shape
  <2> QED
    BY <2>3
<1>3. ASSUME NEW m \in 2 .. N, NEW j \in 0 .. m - 1, \A l \in 1 .. m - 1 : \A q \in 0 .. l - 1 : Shaped(l, q)
      PROVE  Shaped(m, j)
  <2> HIDE DEF Shaped
  <2>1. PICK k \in 0 .. Bits - 1 : Pow2[k] < m /\ m <= 2 * Pow2[k]
    BY Splits DEF N
  <2>2. k \in Nat /\ k \in 0 .. Bits /\ Pow2[k] \in Nat \ {0} /\ Pow2[k + 1] = 2 * Pow2[k]
    BY Pow2Step
  <2>3. PathOf[m][j] = IF j < Pow2[k] THEN <<FALSE>> \o PathOf[Pow2[k]][j]
                       ELSE <<TRUE>> \o PathOf[m - Pow2[k]][j - Pow2[k]]
    BY <2>1, <2>2, PathOfSplit DEF N
  <2>4. CASE j < Pow2[k]
    <3>1. j \in 0 .. Pow2[k + 1] - 1 /\ k + 1 \in 0 .. Bits /\ j \in 0 .. Pow2[k] - 1 /\ j \in Nat
      BY <1>1, <2>1, <2>2, <2>4
    <3>2. PathOf[Pow2[k + 1]][j] = PathOf[m][j]
      BY <2>3, <2>4, <3>1, PerfectSplits
    <3>3. PathOf[Pow2[k + 1]][j] \in Seq(BOOLEAN)
      BY <3>1, PerfectPaths
    <3>4. PathOf[m][j] = Rights(CountOnes[0]) \o PathOf[Pow2[k + 1]][j]
      BY <3>2, <3>3, NoRights, CountOnesZero
    <3>5. /\ j = 0 * Pow2[k + 1] + j /\ j < Pow2[k + 1] /\ (k + 1) - 1 = k
      BY <2>2, <2>4, <3>1
    <3>6. Shape(j, PathOf[m][j], k + 1, 0, j)
      BY <2>4, <3>4, <3>5 DEF Shape
    <3> QED
      BY <2>1, <3>1, <3>5, <3>6 DEF Shaped
  <2>5. CASE ~(j < Pow2[k])
    <3> DEFINE l == m - Pow2[k]
               q == j - Pow2[k]
    <3>1. l \in 1 .. m - 1 /\ q \in 0 .. l - 1 /\ l <= Pow2[k] /\ j = q + Pow2[k] /\ q \in Nat
      BY <1>1, <2>1, <2>2, <2>5
    <3>2. PathOf[m][j] = <<TRUE>> \o PathOf[l][q]
      BY <2>3, <2>5
    <3> HIDE DEF l, q
    <3>3. PICK e \in 0 .. Bits, h \in Nat, r \in Nat :
                 Shape(q, PathOf[l][q], e, h, r) /\ (e = 0 \/ Pow2[e - 1] < l)
      BY <1>3, <3>1 DEF Shaped
    <3>4. e \in Nat /\ Pow2[e] \in Nat \ {0}
      BY Pow2Step
    <3>5. e <= k
      <4> SUFFICES ASSUME k < e PROVE FALSE
        BY <2>2, <3>4
      <4>1. e # 0 /\ e - 1 \in Nat /\ k <= e - 1
        BY <2>2, <3>4
      <4>2. Pow2[k] <= Pow2[e - 1] /\ Pow2[e - 1] \in Nat /\ Pow2[e - 1] < l
        BY <2>2, <3>3, <4>1, Pow2Grows, Pow2Step
      <4> QED
        BY <1>1, <2>2, <3>1, <4>2
    <3> DEFINE g == Pow2[k - e]
    <3>6. k - e \in Nat /\ g \in Nat \ {0} /\ Pow2[k] = Pow2[e] * g
      <4>1. k - e \in Nat /\ e + (k - e) = k
        BY <2>2, <3>4, <3>5
      <4>2. Pow2[e + (k - e)] = Pow2[e] * Pow2[k - e]
        BY <3>4, <4>1, Pow2Product
      <4> QED
        BY <4>1, <4>2, Pow2Step
    <3>7. q = h * Pow2[e] + r /\ r < Pow2[e] /\ (e = 0 \/ r < Pow2[e - 1])
      BY <3>3 DEF Shape
    <3>8. h < g
      <4>1. q < Pow2[k]
        BY <1>1, <2>2, <3>1
      <4>2. h * Pow2[e] < g * Pow2[e]
        BY <3>4, <3>6, <3>7, <4>1, <3>1
      <4> QED
        BY <3>4, <3>6, <4>2, FactorBelow
    <3>9. CountOnes[h + g] = CountOnes[h] + 1 /\ CountOnes[h] \in Nat
      <4>1. h \in 0 .. Pow2[k - e] - 1
        BY <3>6, <3>8
      <4> QED
        BY <3>6, <4>1, CountOnesAboveTop, CountOnesHalves
    <3>10. j = (h + g) * Pow2[e] + r /\ h + g \in Nat
      BY <3>1, <3>4, <3>6, <3>7
    <3>11. PathOf[Pow2[e]][r] \in Seq(BOOLEAN)
      <4>1. r \in 0 .. Pow2[e] - 1
        BY <3>4, <3>7
      <4> QED
        BY <4>1, PerfectPaths
    <3>12. PathOf[l][q] = Rights(CountOnes[h]) \o PathOf[Pow2[e]][r]
      BY <3>3 DEF Shape
    <3>13. PathOf[m][j] = Rights(CountOnes[h + g]) \o PathOf[Pow2[e]][r]
      BY <3>2, <3>9, <3>11, <3>12, OneMoreRight
    <3>14. Shape(j, PathOf[m][j], e, h + g, r)
      BY <3>7, <3>10, <3>13 DEF Shape
    <3>15. e = 0 \/ Pow2[e - 1] < m
      <4> SUFFICES ASSUME e # 0 PROVE Pow2[e - 1] < m
        OBVIOUS
      <4>1. Pow2[e - 1] < l /\ l < m /\ Pow2[e - 1] \in Nat
        BY <3>1, <3>3, <3>4, <1>1, Pow2Facts
      <4> QED
        BY <1>1, <3>1, <4>1
    <3> QED
      BY <3>10, <3>14, <3>15 DEF Shaped
  <2> QED
    BY <2>4, <2>5
<1>4. ASSUME NEW m \in Nat, \A l \in 0 .. m - 1 : l \in T PROVE m \in T
  <2> SUFFICES ASSUME m \in 1 .. N, NEW j \in 0 .. m - 1 PROVE Shaped(m, j)
    OBVIOUS
  <2>1. CASE m = 1
    <3>1. j = 0
      BY <2>1
    <3> QED
      BY <2>1, <3>1, <1>2
  <2>2. CASE m # 1
    <3>1. m \in 2 .. N
      BY <1>1, <2>2
    <3>2. \A l \in 1 .. m - 1 : l \in 0 .. m - 1 /\ l \in Nat /\ l \in 1 .. N
      BY <1>1
    <3> HIDE DEF Shaped
    <3>3. \A l \in 1 .. m - 1 : \A q \in 0 .. l - 1 : Shaped(l, q)
      BY <1>4, <3>2
    <3> QED
      BY <1>3, <3>1, <3>3
  <2> QED
    BY <2>1, <2>2
<1> HIDE DEF T, Shaped
<1>5. \A m \in Nat : m \in T
  BY <1>4, StrongInduction
<1>6. Shaped(n, i)
  BY <1>1, <1>5 DEF T, N
<1> QED
  BY <1>6 DEF Shaped

\* A number of that many bits is below that many times the power.
LEMMA TimesPow2 ==
  ASSUME NEW e \in 0 .. Bits, NEW h \in Nat, h * Pow2[e] < Pow2[Bits]
  PROVE  h < Pow2[Bits - e] /\ (h + 1) * Pow2[e] <= Pow2[Bits]
<1> USE BitsAssumption
<1> DEFINE P == Pow2[e]
           g == Pow2[Bits - e]
<1>1. e \in Nat /\ Bits - e \in Nat /\ e + (Bits - e) = Bits
  OBVIOUS
<1>2. P \in Nat \ {0} /\ g \in Nat \ {0}
  BY <1>1, Pow2Step
<1>3. Pow2[e + (Bits - e)] = P * g
  BY <1>1, Pow2Product
<1>4. Pow2[Bits] = g * P /\ h * P < Pow2[Bits]
  BY <1>1, <1>2, <1>3
<1> HIDE DEF P, g
<1>5. h < g
  BY <1>2, <1>4, FactorBelow
<1>6. (h + 1) * P <= g * P
  <2>1. g - (h + 1) \in Nat /\ g = (h + 1) + (g - (h + 1))
    BY <1>2, <1>5
  <2>2. g * P = (h + 1) * P + (g - (h + 1)) * P /\ (g - (h + 1)) * P \in Nat /\ (h + 1) * P \in Nat
    BY <1>2, <2>1
  <2> QED
    BY <2>2
<1> QED
  BY <1>4, <1>5, <1>6 DEF P, g

\* What has that shape is the path of a leaf of some tree.
LEMMA ShapesAreLeaves ==
  ASSUME NEW e \in 0 .. Bits, NEW h \in Nat, NEW r \in Nat, r < Pow2[e],
         h * Pow2[e] + r < Pow2[Bits]
  PROVE  /\ (h + 1) * Pow2[e] \in 1 .. Pow2[Bits]
         /\ h * Pow2[e] + r \in 0 .. (h + 1) * Pow2[e] - 1
         /\ PathOf[(h + 1) * Pow2[e]][h * Pow2[e] + r] = Rights(CountOnes[h]) \o PathOf[Pow2[e]][r]
<1> USE BitsAssumption
<1> DEFINE P == Pow2[e]
           N == Pow2[Bits]
           Leaf(g) == PathOf[(g + 1) * P][g * P + r] = Rights(CountOnes[g]) \o PathOf[P][r]
           T == {g \in Nat : g * P + r < N => Leaf(g)}
<1>1. P \in Nat \ {0} /\ N \in Nat /\ e \in Nat /\ r \in 0 .. P - 1
  BY Pow2Step, Pow2Facts
<1>2. \A g \in Nat : g * P \in Nat /\ (g + 1) * P = g * P + P
  BY <1>1
<1>4. PathOf[P][r] \in Seq(BOOLEAN)
  BY <1>1, PerfectPaths
<1> HIDE DEF P, N
<1>3. ASSUME NEW g \in Nat, g * P + r < N
      PROVE  g < Pow2[Bits - e] /\ (g + 1) * P <= N
  <2>1. g * P < N
    BY <1>1, <1>2, <1>3
  <2> QED
    BY <2>1, TimesPow2 DEF P, N
<1>5. Leaf(0)
  <2>1. (0 + 1) * P = P /\ 0 * P + r = r
    BY <1>1
  <2> QED
    BY <1>4, <2>1, NoRights, CountOnesZero
<1>6. ASSUME NEW g \in Nat \ {0}, g * P + r < N,
             \A x \in 0 .. g - 1 : x * P + r < N => Leaf(x)
      PROVE  Leaf(g)
  <2>1. g < Pow2[Bits - e] /\ (g + 1) * P <= N /\ Bits - e \in Nat
    BY <1>3, <1>6, <1>1
  <2>2. PICK k \in 0 .. (Bits - e) - 1 : Pow2[k] <= g /\ g < 2 * Pow2[k]
    BY <2>1, TopBit
  <2> DEFINE t == Pow2[k]
             x == g - t
  <2>3. k \in Nat /\ t \in Nat \ {0} /\ x \in Nat /\ x \in 0 .. t - 1 /\ x \in 0 .. g - 1 /\ g = x + t
    <3>1. k \in Nat /\ t \in Nat \ {0}
      BY <2>1, Pow2Step
    <3> HIDE DEF t
    <3> QED
      BY <2>2, <3>1 DEF t
  <2>4. k + e \in 0 .. Bits /\ Pow2[k + e] = t * P
    BY <1>1, <2>3, Pow2Product DEF P
  <2>5. CountOnes[g] = CountOnes[x] + 1 /\ CountOnes[x] \in Nat
    <3>1. CountOnes[x + Pow2[k]] = CountOnes[x] + 1
      BY <2>3, CountOnesAboveTop
    <3>2. CountOnes[x] \in Nat
      BY <2>3, CountOnesHalves
    <3> HIDE DEF x
    <3> QED
      BY <2>3, <3>1, <3>2
  <2>6. t <= g /\ g < 2 * t
    BY <2>2
  <2> HIDE DEF t, x
  <2>7. /\ g * P = x * P + t * P /\ x * P \in Nat /\ t * P \in Nat /\ t * P >= P
        /\ (g + 1) * P = g * P + P /\ (x + 1) * P = x * P + P
    <3>1. t - 1 \in Nat /\ t * P = P + (t - 1) * P /\ (t - 1) * P \in Nat
      BY <1>1, <2>3
    <3> QED
      BY <1>1, <2>3, <3>1
  <2>8. x * P + P <= t * P
    <3>1. PICK z \in Nat : t = (x + 1) + z
      <4>1. t - (x + 1) \in Nat /\ t = (x + 1) + (t - (x + 1))
        BY <2>3
      <4> QED
        BY <4>1
    <3>2. t * P = (x * P + P) + z * P /\ z * P \in Nat
      BY <1>1, <2>3, <3>1
    <3> QED
      BY <1>1, <2>7, <3>2
  <2> DEFINE n == (g + 1) * P
             i == g * P + r
  <2>9. n \in 2 .. N /\ t * P < n /\ n <= 2 * (t * P) /\ i \in 0 .. n - 1
    BY <1>1, <2>1, <2>7, <2>8
  <2>10. ~(i < t * P) /\ n - t * P = (x + 1) * P /\ i - t * P = x * P + r
    BY <1>1, <2>7
  <2> HIDE DEF n, i
  <2>11. PathOf[n][i] = <<TRUE>> \o PathOf[n - t * P][i - t * P]
    <3> DEFINE c == k + e
    <3>1. c \in 0 .. Bits /\ Pow2[c] < n /\ n <= 2 * Pow2[c] /\ ~(i < Pow2[c]) /\ Pow2[c] = t * P
      BY <2>4, <2>9, <2>10
    <3> HIDE DEF c
    <3>2. PathOf[n][i] = <<TRUE>> \o PathOf[n - Pow2[c]][i - Pow2[c]]
      BY <2>9, <3>1, PathOfSplit DEF N
    <3> QED
      BY <3>1, <3>2
  <2>12. x * P + r < N
    BY <1>1, <1>6, <2>7
  <2>13. PathOf[(x + 1) * P][x * P + r] = Rights(CountOnes[x]) \o PathOf[P][r]
    BY <1>6, <2>3, <2>12
  <2>14. PathOf[n][i] = Rights(CountOnes[x] + 1) \o PathOf[P][r]
    <3>1. PathOf[n][i] = <<TRUE>> \o (Rights(CountOnes[x]) \o PathOf[P][r])
      BY <2>10, <2>11, <2>13
    <3> QED
      BY <1>4, <2>5, <3>1, OneMoreRight
  <2> QED
    BY <2>5, <2>14 DEF n, i
<1>7. ASSUME NEW g \in Nat, \A x \in 0 .. g - 1 : x \in T PROVE g \in T
  <2> HIDE DEF Leaf
  <2>1. \A x \in 0 .. g - 1 : x * P + r < N => Leaf(x)
    BY <1>7
  <2> SUFFICES ASSUME g * P + r < N PROVE Leaf(g)
    OBVIOUS
  <2> QED
    BY <1>5, <1>6, <2>1
<1> HIDE DEF T, Leaf
<1>8. \A g \in Nat : g \in T
  BY <1>7, StrongInduction
<1>9. Leaf(h) /\ (h + 1) * P <= N
  BY <1>3, <1>8 DEF T, P, N
<1>10. (h + 1) * P \in 1 .. N /\ h * P + r \in 0 .. (h + 1) * P - 1
  BY <1>1, <1>2, <1>9
<1> QED
  BY <1>9, <1>10 DEF Leaf, P, N

\* A quotient and a remainder are told by their bounds.
LEMMA Quotient ==
  ASSUME NEW a \in Nat, NEW b \in Nat \ {0}
  PROVE  /\ a \div b \in Nat /\ a % b \in 0 .. b - 1 /\ a = (a \div b) * b + (a % b)
         /\ \A q, r \in Nat : a = q * b + r /\ r < b => a \div b = q /\ a % b = r
<1>1. a \div b \in Nat
  OBVIOUS
<1>2. a % b \in 0 .. b - 1
  OBVIOUS
<1>3. a = (a \div b) * b + (a % b)
  OBVIOUS
<1>4. ASSUME NEW q \in Nat, NEW r \in Nat, a = q * b + r, r < b PROVE a \div b = q /\ a % b = r
  <2>1. a \div b = q
    BY <1>4
  <2>2. a % b = r
    BY <1>4
  <2> QED
    BY <2>1, <2>2
<1> QED
  BY <1>1, <1>2, <1>3, <1>4

\* The low bits, a bit that is not set, and the bits above it.
LEMMA LowBitAndHigh ==
  ASSUME NEW i \in Nat, NEW P \in Nat \ {0}, NEW h \in Nat, NEW r \in Nat
  PROVE  (i = h * (2 * P) + r /\ r < P)
           <=> (i % P = r /\ (i \div P) % 2 = 0 /\ i \div (2 * P) = h)
<1>1. ASSUME i = h * (2 * P) + r, r < P
      PROVE  i % P = r /\ (i \div P) % 2 = 0 /\ i \div (2 * P) = h
  <2>1. i = (2 * h) * P + r /\ 2 * h \in Nat
    BY <1>1
  <2>2. i \div P = 2 * h /\ i % P = r
    <3>1. \A q, s \in Nat : i = q * P + s /\ s < P => i \div P = q /\ i % P = s
      BY Quotient
    <3> QED
      BY <1>1, <2>1, <3>1
  <2>3. r < 2 * P /\ 2 * P \in Nat \ {0}
    BY <1>1
  <2>4. i \div (2 * P) = h
    <3>1. \A q, s \in Nat : i = q * (2 * P) + s /\ s < 2 * P => i \div (2 * P) = q
      BY <2>3, Quotient
    <3> QED
      BY <1>1, <2>3, <3>1
  <2>5. (2 * h) % 2 = 0
    OBVIOUS
  <2> QED
    BY <2>2, <2>4, <2>5
<1>2. ASSUME i % P = r, (i \div P) % 2 = 0, i \div (2 * P) = h
      PROVE  i = h * (2 * P) + r /\ r < P
  <2>1. PICK a \in Nat : i = a * P + r /\ r < P /\ a % 2 = 0
    BY <1>2, Quotient
  <2>2. PICK c \in Nat : a = 2 * c
    <3>1. a \div 2 \in Nat /\ a = 2 * (a \div 2)
      BY <2>1
    <3> QED
      BY <3>1
  <2>3. i = c * (2 * P) + r
    BY <2>1, <2>2
  <2>4. r < 2 * P /\ 2 * P \in Nat \ {0}
    BY <2>1
  <2>5. i \div (2 * P) = c
    BY <2>3, <2>4, Quotient
  <2> QED
    BY <1>2, <2>1, <2>3, <2>5
<1> QED
  BY <1>1, <1>2

\* A path of right turns only.
LEMMA RightsAlone ==
  ASSUME NEW m \in Nat
  PROVE  /\ Rights(m) \in Seq(BOOLEAN) /\ Len(Rights(m)) = m
         /\ Rights(m) \o <<>> = Rights(m) /\ OnlyRight(Rights(m))
  BY DEF Rights, OnlyRight

\* Right turns and what follows them.
LEMMA RightsThen ==
  ASSUME NEW m \in Nat, NEW s \in Seq(BOOLEAN)
  PROVE  /\ Rights(m) \o s \in Seq(BOOLEAN) /\ Len(Rights(m) \o s) = m + Len(s)
         /\ \A j \in 1 .. m : (Rights(m) \o s)[j] = TRUE
         /\ \A j \in 1 .. Len(s) : (Rights(m) \o s)[m + j] = s[j]
<1>1. Rights(m) \in Seq(BOOLEAN) /\ Len(Rights(m)) = m /\ \A j \in 1 .. m : Rights(m)[j] = TRUE
  BY DEF Rights
<1>2. /\ Rights(m) \o s \in Seq(BOOLEAN) /\ Len(Rights(m) \o s) = m + Len(s)
      /\ \A j \in 1 .. m + Len(s) : (Rights(m) \o s)[j] = IF j <= m THEN Rights(m)[j] ELSE s[j - m]
  BY <1>1, ConcatProperties
<1>3. Len(s) \in Nat
  OBVIOUS
<1>4. ASSUME NEW j \in 1 .. m PROVE (Rights(m) \o s)[j] = TRUE
  <2>1. j \in 1 .. m + Len(s) /\ j <= m
    BY <1>3
  <2> QED
    BY <1>1, <1>2, <2>1
<1>5. ASSUME NEW j \in 1 .. Len(s) PROVE (Rights(m) \o s)[m + j] = s[j]
  <2>1. m + j \in 1 .. m + Len(s) /\ ~(m + j <= m) /\ (m + j) - m = j
    BY <1>3
  <2> QED
    BY <1>2, <2>1
<1> QED
  BY <1>2, <1>4, <1>5

\* There is one such path of each length.
LEMMA OnlyRightIsRights ==
  ASSUME NEW p \in Seq(BOOLEAN), OnlyRight(p)
  PROVE  p = Rights(Len(p))
<1>1. /\ Rights(Len(p)) \in Seq(BOOLEAN) /\ Len(Rights(Len(p))) = Len(p)
      /\ \A j \in 1 .. Len(p) : Rights(Len(p))[j] = TRUE
  BY DEF Rights
<1>2. \A j \in 1 .. Len(p) : p[j] = TRUE
  BY DEF OnlyRight
<1> QED
  BY <1>1, <1>2, SeqEqual

\* The first left turn after m right ones, and what follows it.
LEMMA LeftAfterRights ==
  ASSUME NEW m \in Nat, NEW q \in Seq(BOOLEAN), NEW p, p = Rights(m) \o (<<FALSE>> \o q)
  PROVE  /\ p \in Seq(BOOLEAN) /\ Len(p) = m + 1 + Len(q)
         /\ ~OnlyRight(p) /\ Turn(p) = m
         /\ SubSeq(p, m + 2, Len(p)) = q
<1> DEFINE s == <<FALSE>> \o q
<1>1. /\ s \in Seq(BOOLEAN) /\ Len(s) = Len(q) + 1 /\ s[1] = FALSE
      /\ \A j \in 1 .. Len(q) : s[j + 1] = q[j]
  BY Prepended
<1> HIDE DEF s
<1>3. /\ p \in Seq(BOOLEAN) /\ Len(p) = m + Len(s)
      /\ \A j \in 1 .. m : p[j] = TRUE
      /\ \A j \in 1 .. Len(s) : p[m + j] = s[j]
  <2>1. p = Rights(m) \o s
    BY DEF s
  <2> QED
    <3>1. /\ Rights(m) \o s \in Seq(BOOLEAN) /\ Len(Rights(m) \o s) = m + Len(s)
          /\ \A j \in 1 .. m : (Rights(m) \o s)[j] = TRUE
          /\ \A j \in 1 .. Len(s) : (Rights(m) \o s)[m + j] = s[j]
      BY <1>1, RightsThen
    <3> QED
      BY <2>1, <3>1, Zenon
<1>4. Len(q) \in Nat /\ Len(p) = m + 1 + Len(q)
  BY <1>1, <1>3
<1>5. \A j \in 1 .. m : p[j] = TRUE
  BY <1>3
<1>6. p[m + 1] = FALSE
  <2>1. 1 \in 1 .. Len(s)
    BY <1>1, <1>4
  <2> QED
    BY <1>1, <1>3, <2>1
<1>7. \A j \in 1 .. Len(q) : p[j + (m + 1)] = q[j]
  <2> SUFFICES ASSUME NEW j \in 1 .. Len(q) PROVE p[j + (m + 1)] = q[j]
    OBVIOUS
  <2>1. j + 1 \in 1 .. Len(s) /\ m + (j + 1) = j + (m + 1)
    BY <1>1, <1>4
  <2> QED
    BY <1>1, <1>3, <2>1
<1>8. ~OnlyRight(p)
  <2>1. m + 1 \in DOMAIN p
    BY <1>3, <1>4
  <2> QED
    BY <1>6, <2>1 DEF OnlyRight
<1>9. Turn(p) = m
  <2>1. m \in 0 .. Len(p) - 1
    BY <1>4
  <2>2. ASSUME NEW t \in 0 .. Len(p) - 1, ~p[t + 1], \A j \in 1 .. t : p[j] PROVE t = m
    <3>1. t \in Nat
      BY <1>4
    <3>2. ~(t < m)
      <4>1. t < m => t + 1 \in 1 .. m
        BY <3>1
      <4> QED
        BY <1>5, <2>2, <4>1
    <3>3. ~(m < t)
      <4>1. m < t => m + 1 \in 1 .. t
        BY <3>1
      <4> QED
        BY <1>6, <2>2, <4>1
    <3> QED
      BY <3>1, <3>2, <3>3
  <2> QED
    BY <1>5, <1>6, <2>1, <2>2 DEF Turn
<1>10. SubSeq(p, m + 2, Len(p)) = q
  <2> DEFINE u == SubSeq(p, m + 2, Len(p))
  <2>1. m + 2 \in 1 .. Len(p) + 1 /\ Len(p) \in m + 1 .. Len(p) /\ Len(p) - (m + 2) + 1 = Len(q)
    BY <1>4
  <2>2. u \in Seq(BOOLEAN) /\ Len(u) = Len(q) /\ \A j \in 1 .. Len(q) : u[j] = p[(m + 2) + j - 1]
    BY <1>3, <1>4, <2>1, SubSeqProperties
  <2>3. \A j \in 1 .. Len(q) : (m + 2) + j - 1 = j + (m + 1)
    BY <1>4
  <2>4. \A j \in 1 .. Len(u) : u[j] = q[j]
    BY <1>7, <2>2, <2>3
  <2> HIDE DEF u
  <2>5. u = q
    BY <2>2, <2>4, SeqEqual
  <2> QED
    BY <2>5 DEF u
<1> QED
  BY <1>3, <1>4, <1>8, <1>9, <1>10

\* Every other path goes left after some right turns.
LEMMA FirstLeft ==
  ASSUME NEW p \in Seq(BOOLEAN), ~OnlyRight(p)
  PROVE  \E m \in Nat, q \in Seq(BOOLEAN) : p = Rights(m) \o (<<FALSE>> \o q)
<1> DEFINE L == {j \in Nat : j \in 1 .. Len(p) /\ ~p[j]}
<1>1. L \in SUBSET Nat /\ L # {}
  BY DEF OnlyRight
<1>2. PICK f \in L : \A j \in L : f <= j
  BY <1>1, LeastElement
<1>3. f \in 1 .. Len(p) /\ p[f] = FALSE /\ f \in Nat /\ Len(p) \in Nat
  BY <1>2
<1>4. \A j \in 1 .. f - 1 : p[j] = TRUE
  BY <1>2, <1>3
<1> HIDE DEF L
<1> DEFINE m == f - 1
           q == SubSeq(p, f + 1, Len(p))
           s == <<FALSE>> \o q
<1> HIDE DEF s
<1>5. m \in Nat /\ f = m + 1
  BY <1>3
<1> HIDE DEF m
<1>6. q \in Seq(BOOLEAN) /\ Len(q) = Len(p) - f /\ \A j \in 1 .. Len(p) - f : q[j] = p[(f + 1) + j - 1]
  <2>1. \A i \in f + 1 .. Len(p) : p[i] \in BOOLEAN
    BY <1>3
  <2>2. f + 1 \in Int /\ Len(p) \in Int /\ Len(p) - (f + 1) + 1 = Len(p) - f
    BY <1>3
  <2>3. /\ q \in Seq(BOOLEAN) /\ Len(q) = (IF f + 1 <= Len(p) THEN Len(p) - (f + 1) + 1 ELSE 0)
        /\ \A i \in 1 .. Len(p) - (f + 1) + 1 : q[i] = p[(f + 1) + i - 1]
    BY <2>1, <2>2, SubSeqProperties
  <2> HIDE DEF q
  <2>4. Len(q) = Len(p) - f
    <3>1. f = Len(p) \/ f + 1 <= Len(p)
      BY <1>3
    <3>2. CASE f = Len(p)
      BY <1>3, <2>3, <3>2
    <3>3. CASE f + 1 <= Len(p)
      BY <2>2, <2>3, <3>3
    <3> QED
      BY <3>1, <3>2, <3>3
  <2>5. \A i \in 1 .. Len(p) - f : q[i] = p[(f + 1) + i - 1]
    BY <2>2, <2>3, Zenon
  <2> QED
    BY <2>3, <2>4, <2>5
<1> HIDE DEF q
<1>7. /\ s \in Seq(BOOLEAN) /\ Len(s) = Len(q) + 1 /\ s[1] = FALSE
      /\ \A j \in 1 .. Len(q) : s[j + 1] = q[j]
  BY <1>6, Prepended DEF s
<1> DEFINE t == Rights(m) \o s
<1>9. /\ t \in Seq(BOOLEAN) /\ Len(t) = m + Len(s)
      /\ \A j \in 1 .. m : t[j] = TRUE
      /\ \A j \in 1 .. Len(s) : t[m + j] = s[j]
  BY <1>5, <1>7, RightsThen
<1> HIDE DEF t
<1>10. t \in Seq(BOOLEAN) /\ Len(t) = Len(p)
  BY <1>3, <1>5, <1>6, <1>7, <1>9
<1>11. ASSUME NEW j \in 1 .. Len(p) PROVE t[j] = p[j]
  <2>1. CASE j <= m
    <3>1. j \in 1 .. m /\ j \in 1 .. f - 1
      BY <1>5, <2>1
    <3> QED
      BY <1>4, <1>9, <3>1
  <2>2. CASE j = f
    <3>1. 1 \in 1 .. Len(s) /\ m + 1 = j
      BY <1>3, <1>5, <1>6, <1>7, <2>2
    <3>2. t[j] = FALSE
      BY <1>7, <1>9, <3>1
    <3> QED
      BY <1>3, <2>2, <3>2
  <2>3. CASE j > f
    <3>1. /\ j - f \in 1 .. Len(p) - f /\ (j - f) + 1 \in 1 .. Len(s) /\ j - f \in 1 .. Len(q)
          /\ m + ((j - f) + 1) = j /\ (f + 1) + (j - f) - 1 = j
      BY <1>3, <1>5, <1>6, <1>7, <2>3
    <3>2. t[j] = s[(j - f) + 1] /\ s[(j - f) + 1] = q[j - f]
      BY <1>7, <1>9, <3>1
    <3>3. q[j - f] = p[j]
      BY <1>6, <3>1
    <3> QED
      BY <3>2, <3>3
  <2> QED
    BY <1>3, <1>5, <2>1, <2>2, <2>3
<1> HIDE DEF t
<1>12. p = t
  BY <1>10, <1>11, SeqEqual
<1> QED
  BY <1>5, <1>6, <1>12 DEF s, t

\* A position fits a path just when it is the shape of a leaf with it.
LEMMA FitsHasShape ==
  ASSUME NEW i \in Nat, i < Pow2[Bits], NEW p \in Seq(BOOLEAN)
  PROVE  IndexFitsPath(i, p) <=> \E e \in 0 .. Bits, h \in Nat, r \in Nat : Shape(i, p, e, h, r)
<1> USE BitsAssumption
<1>0. Pow2[0] = 1 /\ PathOf[1][0] = <<>> /\ 0 \in 0 .. Bits
  BY Pow2Facts, PathOfOne
<1>1. ASSUME IndexFitsPath(i, p), OnlyRight(p)
      PROVE  \E e \in 0 .. Bits, h \in Nat, r \in Nat : Shape(i, p, e, h, r)
  <2>1. p = Rights(CountOnes[i])
    BY <1>1, OnlyRightIsRights DEF IndexFitsPath
  <2>2. CountOnes[i] \in Nat
    BY CountOnesHalves
  <2>3. p = Rights(CountOnes[i]) \o PathOf[Pow2[0]][0]
    BY <1>0, <2>1, <2>2, RightsAlone
  <2>4. i = i * Pow2[0] + 0 /\ 0 < Pow2[0]
    BY <1>0
  <2>5. Shape(i, p, 0, i, 0)
    BY <2>3, <2>4 DEF Shape
  <2> QED
    BY <1>0, <2>5
<1>2. ASSUME IndexFitsPath(i, p), ~OnlyRight(p)
      PROVE  \E e \in 0 .. Bits, h \in Nat, r \in Nat : Shape(i, p, e, h, r)
  <2>1. PICK m \in Nat, q \in Seq(BOOLEAN) : p = Rights(m) \o (<<FALSE>> \o q)
    BY <1>2, FirstLeft
  <2>2. Len(p) = m + 1 + Len(q) /\ Turn(p) = m /\ SubSeq(p, m + 2, Len(p)) = q
    BY <2>1, LeftAfterRights
  <2> DEFINE d == Len(q)
             P == Pow2[d]
             h == i \div (2 * P)
             r == i % P
  <2>3. d \in Nat /\ Len(p) - m - 1 = d
    BY <2>2
  <2>4. P \in Nat \ {0} /\ Pow2[d + 1] = 2 * P /\ d + 1 \in Nat
    BY <2>3, Pow2Step
  <2>5. d < Bits /\ i % P = LowBits(q) /\ (i \div P) % 2 = 0 /\ CountOnes[i \div Pow2[d + 1]] = m
    BY <1>2, <2>2, <2>3 DEF IndexFitsPath, BitAt
  <2> HIDE DEF d, P
  <2>6. h \in Nat /\ r \in Nat
    <3>1. 2 * P \in Nat \ {0}
      BY <2>4
    <3>2. i \div (2 * P) \in Nat
      BY <3>1, Quotient
    <3>3. i % P \in 0 .. P - 1
      BY <2>4, Quotient
    <3> QED
      BY <2>4, <3>2, <3>3
  <2>7. i = h * (2 * P) + r /\ r < P
    <3>1. i % P = r /\ (i \div P) % 2 = 0 /\ i \div (2 * P) = h
      BY <2>5
    <3> HIDE DEF h, r
    <3>2. (i = h * (2 * P) + r /\ r < P)
            <=> (i % P = r /\ (i \div P) % 2 = 0 /\ i \div (2 * P) = h)
      BY <2>4, <2>6, LowBitAndHigh
    <3> QED
      BY <3>1, <3>2, Zenon
  <2>8. d \in 0 .. Bits - 1 /\ d + 1 \in 0 .. Bits /\ (d + 1) - 1 = d /\ d \in 0 .. Bits
    BY <2>3, <2>5
  <2>9. PathOf[P][r] = q
    BY <2>5, <2>8, PerfectPaths DEF d, P
  <2>10. r \in 0 .. Pow2[d + 1] - 1 /\ r < Pow2[d + 1]
    BY <2>4, <2>6, <2>7
  <2>11. PathOf[Pow2[d + 1]][r] = <<FALSE>> \o q
    BY <2>7, <2>8, <2>9, <2>10, PerfectSplits DEF P
  <2>12. CountOnes[h] = m
    BY <2>4, <2>5
  <2>13. p = Rights(CountOnes[h]) \o PathOf[Pow2[d + 1]][r]
    BY <2>1, <2>11, <2>12
  <2> HIDE DEF h, r
  <2>14. Shape(i, p, d + 1, h, r)
    BY <2>4, <2>7, <2>8, <2>10, <2>13 DEF Shape, P
  <2> QED
    BY <2>6, <2>8, <2>14
<1>3. ASSUME NEW e \in 0 .. Bits, NEW h \in Nat, NEW r \in Nat, Shape(i, p, e, h, r)
      PROVE  IndexFitsPath(i, p)
  <2>1. /\ i = h * Pow2[e] + r /\ r < Pow2[e] /\ (e = 0 \/ r < Pow2[e - 1])
        /\ p = Rights(CountOnes[h]) \o PathOf[Pow2[e]][r]
    BY <1>3 DEF Shape
  <2>2. CountOnes[h] \in Nat
    BY CountOnesHalves
  <2>3. CASE e = 0
    <3>1. r = 0 /\ i = h
      BY <1>0, <2>1, <2>3
    <3>2. p = Rights(CountOnes[h])
      BY <1>0, <2>1, <2>2, <2>3, <3>1, RightsAlone
    <3> QED
      BY <2>2, <3>1, <3>2, RightsAlone DEF IndexFitsPath
  <2>4. CASE e # 0
    <3> DEFINE d == e - 1
               P == Pow2[d]
               q == PathOf[P][r]
               m == CountOnes[h]
    <3>1. d \in Nat /\ d \in 0 .. Bits - 1 /\ d \in 0 .. Bits /\ d + 1 = e
      BY <2>4
    <3>2. P \in Nat \ {0} /\ Pow2[e] = 2 * P
      BY <3>1, Pow2Step
    <3>3. r \in 0 .. P - 1 /\ r \in 0 .. Pow2[d + 1] - 1
      BY <2>1, <2>4, <3>1, <3>2
    <3>4. q \in Seq(BOOLEAN) /\ Len(q) = d /\ LowBits(q) = r
      BY <3>1, <3>3, PerfectPaths
    <3>5. PathOf[Pow2[e]][r] = <<FALSE>> \o q
      <4>1. PathOf[Pow2[d + 1]][r] = IF r < Pow2[d] THEN <<FALSE>> \o PathOf[Pow2[d]][r]
                                     ELSE <<TRUE>> \o PathOf[Pow2[d]][r - Pow2[d]]
        BY <3>1, <3>3, PerfectSplits
      <4>2. r < Pow2[d]
        BY <2>1, <2>4
      <4> QED
        BY <3>1, <4>1, <4>2
    <3> HIDE DEF d, P, q, m
    <3>6. p = Rights(m) \o (<<FALSE>> \o q) /\ m \in Nat
      BY <2>1, <2>2, <3>5 DEF m
    <3>7. Len(p) = m + 1 + Len(q) /\ ~OnlyRight(p) /\ Turn(p) = m /\ SubSeq(p, m + 2, Len(p)) = q
      BY <3>4, <3>6, LeftAfterRights
    <3>8. Len(p) - m - 1 = d
      BY <3>1, <3>4, <3>6, <3>7
    <3>9. i = h * (2 * P) + r /\ r < P
      BY <2>1, <3>2, <3>3
    <3>10. i % P = r /\ (i \div P) % 2 = 0 /\ i \div (2 * P) = h
      BY <3>2, <3>9, LowBitAndHigh
    <3>11. Pow2[d + 1] = 2 * P /\ d < Bits
      BY <3>1, <3>2
    <3> QED
      BY <3>4, <3>7, <3>8, <3>10, <3>11 DEF IndexFitsPath, BitAt, P, m
  <2> QED
    BY <2>3, <2>4
<1> QED
  BY <1>1, <1>2, <1>3

\* The positions accepted with a path are those some tree gives to it.
LEMMA PositionsAgree == AcceptedPositions = TreePositions
<1> USE BitsAssumption
<1>1. Pow2[Bits] \in Nat
  BY Pow2Facts
<1>2. ASSUME NEW p \in AllPaths, NEW i \in Indices
      PROVE  IndexFitsPath(i, p) <=> \E n \in 1 .. Pow2[Bits] : i < n /\ PathOf[n][i] = p
  <2>1. p \in Seq(BOOLEAN) /\ i \in Nat /\ i < Pow2[Bits]
    BY <1>1 DEF AllPaths, Indices
  <2>2. ASSUME NEW n \in 1 .. Pow2[Bits], i < n, PathOf[n][i] = p PROVE IndexFitsPath(i, p)
    <3>1. i \in 0 .. n - 1
      BY <1>1, <2>1, <2>2
    <3>2. \E e \in 0 .. Bits, h \in Nat, r \in Nat : Shape(i, p, e, h, r)
      BY <2>2, <3>1, LeavesHaveShape
    <3> QED
      BY <2>1, <3>2, FitsHasShape
  <2>3. ASSUME IndexFitsPath(i, p) PROVE \E n \in 1 .. Pow2[Bits] : i < n /\ PathOf[n][i] = p
    <3>1. PICK e \in 0 .. Bits, h \in Nat, r \in Nat : Shape(i, p, e, h, r)
      BY <2>1, <2>3, FitsHasShape
    <3>2. /\ i = h * Pow2[e] + r /\ r < Pow2[e]
          /\ p = Rights(CountOnes[h]) \o PathOf[Pow2[e]][r]
      BY <3>1 DEF Shape
    <3> DEFINE n == (h + 1) * Pow2[e]
    <3>3. n \in 1 .. Pow2[Bits] /\ i \in 0 .. n - 1 /\ PathOf[n][i] = p
      BY <2>1, <3>2, ShapesAreLeaves
    <3> HIDE DEF n
    <3>4. i < n
      BY <1>1, <3>3
    <3> QED
      BY <3>3, <3>4
  <2> QED
    BY <2>2, <2>3
<1>3. \A p \in AllPaths : {i \in Indices : IndexFitsPath(i, p)}
                          = {i \in Indices : \E n \in 1 .. Pow2[Bits] : i < n /\ PathOf[n][i] = p}
  BY <1>2
<1> QED
  BY <1>3, Zenon DEF AcceptedPositions, TreePositions, Sizes

\* A position is accepted with a path just when some tree of the width's size
\* has a leaf there with it, however wide an index is.
THEOREM PositionsAreExact == Spec => []PositionsFitSomeTree
<1>1. PositionsFitSomeTree
  BY PositionsAgree DEF PositionsFitSomeTree
<1> QED
  BY <1>1, PTL

-----------------------------------------------------------------------------
(* The argument memory.                                                      *)

\* Spans with something to lay.
SpanSet == [at : Nat, cells : Seq(Nat) \ {<<>>}]

\* A span ends behind its start.
LEMMA EndOfSpan ==
  ASSUME NEW s \in SpanSet
  PROVE  /\ s.at \in Nat /\ Len(s.cells) \in Nat \ {0} /\ End(s) \in Nat
         /\ End(s) = s.at + Len(s.cells) /\ s.at < End(s)
<1>1. s.at \in Nat /\ s.cells \in Seq(Nat) /\ s.cells # <<>>
  BY DEF SpanSet
<1>2. Len(s.cells) \in Nat \ {0}
  BY <1>1
<1> QED
  BY <1>1, <1>2 DEF End

\* A non-empty set of numbers up to a bound has a largest.
LEMMA LargestIsThere ==
  ASSUME NEW S, NEW N \in Nat, S \subseteq 0 .. N, S # {}
  PROVE  Largest(S) \in S /\ \A m \in S : m <= Largest(S)
<1> DEFINE T == {n \in Nat : \A m \in S : m <= n}
<1>1. T # {} /\ T \subseteq Nat
  <2>1. \A m \in S : m <= N
    OBVIOUS
  <2>2. N \in T
    BY <2>1
  <2> QED
    BY <2>2
<1>2. PICK n \in T : \A m \in T : n <= m
  BY <1>1, LeastElement
<1>3. n \in S
  <2>1. SUFFICES ASSUME n \notin S PROVE FALSE
    OBVIOUS
  <2>2. n > 0
    <3>1. PICK m \in S : TRUE
      OBVIOUS
    <3>2. m <= n /\ m # n /\ m \in Nat
      BY <1>2, <2>1, <3>1
    <3> QED
      BY <3>2
  <2>3. n - 1 \in T
    BY <1>2, <2>1, <2>2
  <2> QED
    BY <1>2, <2>3
<1> QED
  BY <1>2, <1>3 DEF Largest

\* Among the spans behind one in the sorted order there is a next.
LEMMA NextSpan ==
  ASSUME NEW spans \in Seq(SpanSet), NEW i \in DOMAIN spans, NEW j \in DOMAIN spans,
         ComesBefore(spans, i, j)
  PROVE  \E k \in DOMAIN spans : RightBefore(spans, i, k) /\ spans[k].at <= spans[j].at
<1> DEFINE A(k) == spans[k].at
           Later == {k \in DOMAIN spans : ComesBefore(spans, i, k)}
           Ats == {A(k) : k \in Later}
<1>0. \A k \in DOMAIN spans : A(k) \in Nat /\ k \in Nat
  <2> SUFFICES ASSUME NEW k \in DOMAIN spans PROVE A(k) \in Nat /\ k \in Nat
    OBVIOUS
  <2>1. spans[k] \in SpanSet /\ k \in Nat
    OBVIOUS
  <2> QED
    BY <2>1, EndOfSpan
<1>1. Ats \subseteq Nat /\ Ats # {}
  BY <1>0
<1>2. PICK a \in Ats : \A b \in Ats : a <= b
  BY <1>1, LeastElement
<1> DEFINE First == {k \in Later : A(k) = a}
<1>3. First # {} /\ First \subseteq Nat
  BY <1>0
<1>4. PICK k \in First : \A l \in First : k <= l
  BY <1>3, LeastElement
<1>5. k \in DOMAIN spans /\ ComesBefore(spans, i, k) /\ A(k) <= A(j)
  BY <1>2, <1>4
<1>6. ASSUME NEW l \in DOMAIN spans, ComesBefore(spans, i, l), ComesBefore(spans, l, k) PROVE FALSE
  <2>1. l \in Later /\ A(l) \in Ats
    BY <1>6
  <2>2. a <= A(l) /\ a = A(k)
    BY <2>1, <1>2, <1>4
  <2>3. A(l) < A(k) \/ (A(l) = A(k) /\ l < k)
    BY <1>6, Zenon DEF ComesBefore
  <2>4. A(l) = a /\ l < k
    BY <2>2, <2>3, <1>0, <1>5
  <2>5. l \in First
    BY <2>1, <2>4
  <2> QED
    BY <2>4, <2>5, <1>4, <1>0, <1>5
<1> QED
  BY <1>5, <1>6 DEF RightBefore

\* No span reaches into the next exactly if no two share a cell.
LEMMA ApartIsDisjoint ==
  ASSUME NEW spans \in Seq(SpanSet)
  PROVE  Apart(spans) <=> \A i, j \in DOMAIN spans :
                            i # j => Covered(spans[i]) \cap Covered(spans[j]) = {}
<1>0. ASSUME NEW k \in DOMAIN spans
      PROVE  /\ k \in Nat /\ spans[k].at \in Nat /\ End(spans[k]) \in Nat
             /\ spans[k].at < End(spans[k])
  <2>1. spans[k] \in SpanSet /\ k \in Nat
    OBVIOUS
  <2> QED
    BY <2>1, EndOfSpan
<1>1. ASSUME Apart(spans), NEW i \in DOMAIN spans, NEW j \in DOMAIN spans, i # j
      PROVE  Covered(spans[i]) \cap Covered(spans[j]) = {}
  <2>1. ASSUME NEW m \in DOMAIN spans, NEW n \in DOMAIN spans, ComesBefore(spans, m, n)
        PROVE  Covered(spans[m]) \cap Covered(spans[n]) = {}
    <3>1. PICK k \in DOMAIN spans : RightBefore(spans, m, k) /\ spans[k].at <= spans[n].at
      BY <2>1, NextSpan
    <3>2. End(spans[m]) <= spans[k].at
      BY <1>1, <3>1 DEF Apart
    <3>3. End(spans[m]) <= spans[n].at
      BY <3>1, <3>2, <1>0
    <3>5. /\ spans[m].at \in Nat /\ End(spans[m]) \in Nat
          /\ spans[n].at \in Nat /\ End(spans[n]) \in Nat
      BY <1>0
    <3>4. ASSUME NEW c \in Int, c \in spans[m].at + 1 .. End(spans[m])
          PROVE  c \notin spans[n].at + 1 .. End(spans[n])
      BY <3>3, <3>4, <3>5
    <3> QED
      BY <3>4 DEF Covered
  <2>2. ComesBefore(spans, i, j) \/ ComesBefore(spans, j, i)
    BY <1>0, <1>1 DEF ComesBefore
  <2> QED
    BY <2>1, <2>2
<1>2. ASSUME \A i, j \in DOMAIN spans : i # j => Covered(spans[i]) \cap Covered(spans[j]) = {},
             NEW i \in DOMAIN spans, NEW j \in DOMAIN spans, RightBefore(spans, i, j)
      PROVE  End(spans[i]) <= spans[j].at
  <2>1. i # j /\ spans[i].at <= spans[j].at
    BY <1>0, <1>2 DEF RightBefore, ComesBefore
  <2>2. Covered(spans[i]) \cap Covered(spans[j]) = {}
    BY <1>2, <2>1
  <2>3. spans[j].at + 1 \in Covered(spans[j])
    BY <1>0 DEF Covered
  <2>4. spans[j].at + 1 \notin spans[i].at + 1 .. End(spans[i])
    BY <2>2, <2>3 DEF Covered
  <2> QED
    BY <2>1, <2>4, <1>0
<1> QED
  BY <1>1, <1>2 DEF Apart

\* The ends of the spans, and what the call has of them as its memory.
LEMMA MemoryHoldsSpans ==
  ASSUME NEW spans \in Seq(SpanSet), \A k \in DOMAIN spans : End(spans[k]) <= MaxMemory
  PROVE  /\ MemoryLength(spans) \in Context .. MaxMemory
         /\ \A k \in DOMAIN spans : End(spans[k]) <= MemoryLength(spans)
<1> DEFINE Ends == {Context} \cup {End(s) : s \in ToSet(spans)}
<1>1. \A k \in DOMAIN spans : spans[k] \in ToSet(spans) /\ End(spans[k]) \in Nat
  <2> SUFFICES ASSUME NEW k \in DOMAIN spans
               PROVE  spans[k] \in ToSet(spans) /\ End(spans[k]) \in Nat
    OBVIOUS
  <2>1. spans[k] \in SpanSet
    OBVIOUS
  <2> QED
    BY <2>1, EndOfSpan DEF ToSet
<1>2. \A e \in Ends : e \in 0 .. MaxMemory
  <2> SUFFICES ASSUME NEW s \in ToSet(spans) PROVE End(s) \in 0 .. MaxMemory
    BY MemoryAssumption
  <2>1. PICK k \in DOMAIN spans : s = spans[k]
    BY DEF ToSet
  <2> QED
    BY <2>1, <1>1, MemoryAssumption
<1>3. Ends # {} /\ Context \in Ends /\ \A k \in DOMAIN spans : End(spans[k]) \in Ends
  BY <1>1
<1> HIDE DEF Ends
<1>4. Largest(Ends) \in Ends /\ \A e \in Ends : e <= Largest(Ends)
  BY <1>2, <1>3, MemoryAssumption, LargestIsThere
<1>5. MemoryLength(spans) = Largest(Ends)
  BY DEF MemoryLength, Ends
<1> DEFINE m == Largest(Ends)
<1> HIDE DEF m
<1>6. m \in 0 .. MaxMemory /\ Context <= m /\ \A k \in DOMAIN spans : End(spans[k]) <= m
  BY <1>2, <1>3, <1>4 DEF m
<1>7. m \in Context .. MaxMemory
  BY <1>6, MemoryAssumption
<1> QED
  BY <1>5, <1>6, <1>7 DEF m

\* Spans that share no cell are found where they were put, and nothing else.
LEMMA WrittenIsFound ==
  ASSUME NEW spans \in Seq(SpanSet),
         \A k \in DOMAIN spans : spans[k].at >= Context /\ End(spans[k]) <= MaxMemory,
         \A i, j \in DOMAIN spans : i # j => Covered(spans[i]) \cap Covered(spans[j]) = {}
  PROVE  /\ Written(spans) \in [1 .. MemoryLength(spans) -> Nat]
         /\ \A k \in DOMAIN spans : \A c \in 1 .. Len(spans[k].cells) :
              /\ spans[k].at + c \in DOMAIN Written(spans)
              /\ Written(spans)[spans[k].at + c] = spans[k].cells[c]
         /\ BlankElsewhere(Written(spans), spans)
<1> DEFINE L == MemoryLength(spans)
           W == Written(spans)
<1>1. L \in Context .. MaxMemory /\ L \in Nat /\ \A k \in DOMAIN spans : End(spans[k]) <= L
  BY MemoryHoldsSpans, MemoryAssumption
<1>2. ASSUME NEW k \in DOMAIN spans
      PROVE  /\ k \in Nat /\ spans[k].at \in Nat /\ spans[k].cells \in Seq(Nat)
             /\ Len(spans[k].cells) \in Nat
             /\ Covered(spans[k]) = spans[k].at + 1 .. spans[k].at + Len(spans[k].cells)
             /\ End(spans[k]) = spans[k].at + Len(spans[k].cells)
  <2>1. spans[k] \in SpanSet /\ k \in Nat
    OBVIOUS
  <2>2. spans[k].cells \in Seq(Nat)
    BY <2>1 DEF SpanSet
  <2> QED
    BY <2>1, <2>2, EndOfSpan DEF Covered
<1>3. \A cell \in 1 .. L : W[cell] = IF Writers(spans, cell) = {} THEN 0
        ELSE spans[Largest(Writers(spans, cell))].cells[cell - spans[Largest(Writers(spans, cell))].at]
  BY DEF Written
<1>4. DOMAIN W = 1 .. L /\ W = [cell \in 1 .. L |-> W[cell]]
  BY DEF Written
<1>5. ASSUME NEW cell \in 1 .. L, NEW k \in DOMAIN spans, cell \in Covered(spans[k])
      PROVE  W[cell] = spans[k].cells[cell - spans[k].at]
  <2>1. \A l \in DOMAIN spans : cell \in Covered(spans[l]) => l = k
    BY <1>5
  <2>2. Writers(spans, cell) = {k}
    BY <2>1, <1>5 DEF Writers
  <2>3. Largest({k}) = k
    BY <1>2 DEF Largest
  <2> QED
    BY <2>2, <2>3, <1>3
<1>6. ASSUME NEW cell \in 1 .. L, \A k \in DOMAIN spans : cell \notin Covered(spans[k])
      PROVE  W[cell] = 0
  <2>1. Writers(spans, cell) = {}
    BY <1>6 DEF Writers
  <2> QED
    BY <2>1, <1>3
<1>7. ASSUME NEW cell \in 1 .. L PROVE W[cell] \in Nat
  <2>1. CASE \E k \in DOMAIN spans : cell \in Covered(spans[k])
    <3>1. PICK k \in DOMAIN spans : cell \in Covered(spans[k])
      BY <2>1
    <3>2. cell - spans[k].at \in 1 .. Len(spans[k].cells)
      <4> DEFINE at == spans[k].at
                 n == Len(spans[k].cells)
      <4>1. at \in Nat /\ n \in Nat /\ Covered(spans[k]) = at + 1 .. at + n
        BY <1>2
      <4> HIDE DEF at, n
      <4>2. cell \in at + 1 .. at + n
        BY <3>1, <4>1, Zenon
      <4>3. cell - at \in 1 .. n
        BY <4>1, <4>2
      <4> QED
        BY <4>3 DEF at, n
    <3>3. spans[k].cells[cell - spans[k].at] \in Nat
      <4> DEFINE cells == spans[k].cells
      <4>1. cells \in Seq(Nat)
        BY <1>2
      <4> HIDE DEF cells
      <4>2. \A c \in 1 .. Len(cells) : cells[c] \in Nat
        BY <4>1
      <4> QED
        BY <3>2, <4>2 DEF cells
    <3> QED
      BY <3>1, <3>3, <1>5
  <2>2. CASE \A k \in DOMAIN spans : cell \notin Covered(spans[k])
    BY <2>2, <1>6
  <2> QED
    BY <2>1, <2>2
<1>8. W \in [1 .. L -> Nat]
  BY <1>4, <1>7
<1> HIDE DEF L, W
<1>9. ASSUME NEW k \in DOMAIN spans, NEW c \in 1 .. Len(spans[k].cells)
      PROVE  spans[k].at + c \in DOMAIN W /\ W[spans[k].at + c] = spans[k].cells[c]
  <2>1. spans[k].at + c \in Covered(spans[k]) /\ spans[k].at + c \in 1 .. L
    <3>1. /\ spans[k].at \in Nat /\ Len(spans[k].cells) \in Nat
          /\ Covered(spans[k]) = spans[k].at + 1 .. spans[k].at + Len(spans[k].cells)
          /\ End(spans[k]) = spans[k].at + Len(spans[k].cells)
      BY <1>2
    <3>2. L \in Nat /\ End(spans[k]) <= L
      BY <1>1
    <3>3. /\ spans[k].at + c \in spans[k].at + 1 .. spans[k].at + Len(spans[k].cells)
          /\ spans[k].at + c \in 1 .. L
      BY <3>1, <3>2
    <3> QED
      BY <3>1, <3>3, Zenon
  <2>2. (spans[k].at + c) - spans[k].at = c
    BY <1>2
  <2> QED
    BY <2>1, <2>2, <1>5, <1>4
<1>10. BlankElsewhere(W, spans)
  <2>1. Len(W) = L
    BY <1>1, <1>4
  <2>2. ASSUME NEW i \in DOMAIN W, i <= Context \/ \A s \in ToSet(spans) : i \notin Covered(s)
        PROVE  W[i] = 0
    <3>1. i \in 1 .. L
      BY <1>4
    <3>2. ASSUME NEW k \in DOMAIN spans PROVE i \notin Covered(spans[k])
      <4>1. CASE i <= Context
        <5>1. spans[k].at >= Context /\ Context \in Nat /\ i \in Nat
          BY <3>1, <1>1, MemoryAssumption
        <5>2. ~ (spans[k].at + 1 <= i)
          BY <4>1, <5>1, <1>2
        <5> QED
          BY <5>1, <5>2, <1>2
      <4>2. CASE \A s \in ToSet(spans) : i \notin Covered(s)
        BY <4>2 DEF ToSet
      <4> QED
        BY <4>1, <4>2, <2>2
    <3> QED
      BY <3>1, <3>2, <1>6
  <2> QED
    BY <2>1, <2>2, <1>1 DEF BlankElsewhere
<1> QED
  BY <1>8, <1>9, <1>10 DEF L, W

\* What is laid can be laid, and what can be laid is.
LEMMA LaidIffLayable ==
  ASSUME NEW spans \in Seq(SpanSet)
  PROVE  /\ Laid(spans).ok <=> Layable(spans)
         /\ Laid(spans).ok => Laid(spans).memory = Written(spans)
<1>1. \A s \in ToSet(spans) : End(s) \in Nat
  <2> SUFFICES ASSUME NEW s \in ToSet(spans) PROVE End(s) \in Nat
    OBVIOUS
  <2>1. s \in SpanSet
    BY DEF ToSet
  <2> QED
    BY <2>1, EndOfSpan
<1>2. \A s \in ToSet(spans) : NoOverflow(s) <=> End(s) <= MaxMemory
  BY <1>1, MemoryAssumption DEF NoOverflow
<1>3. Laid(spans).ok <=> /\ \A s \in ToSet(spans) : s.at >= Context /\ NoOverflow(s)
                         /\ Apart(spans)
  BY DEF Laid, Refused
<1>4. Laid(spans).ok => Laid(spans).memory = Written(spans)
  BY DEF Laid, Refused
<1> QED
  BY <1>2, <1>3, <1>4, ApartIsDisjoint DEF Layable

-----------------------------------------------------------------------------
\* The parts of a message one after another are a sequence of cells.
LEMMA JoinedType ==
  ASSUME NEW parts \in Seq(Seq(Nat))
  PROVE  Joined(parts) \in Seq(Nat)
<1> DEFINE L == Len(parts)
           G == [m \in Nat |-> [h \in [0 .. m - 1 -> Seq(Nat)] |->
                   IF m \notin 1 .. L THEN <<>> ELSE h[m - 1] \o parts[m]]]
<1>1. L \in Nat /\ \A k \in 1 .. L : parts[k] \in Seq(Nat)
  OBVIOUS
<1> HIDE DEF L
<1>2. Continues(G, Seq(Nat))
  <2> SUFFICES ASSUME NEW m \in Nat, NEW h \in [0 .. m - 1 -> Seq(Nat)] PROVE G[m][h] \in Seq(Nat)
    BY DEF Continues
  <2>1. CASE m \in 1 .. L
    <3>1. h[m - 1] \in Seq(Nat) /\ parts[m] \in Seq(Nat)
      BY <1>1, <2>1
    <3>2. \A a, b \in Seq(Nat) : a \o b \in Seq(Nat)
      OBVIOUS
    <3>3. h[m - 1] \o parts[m] \in Seq(Nat)
      BY <3>1, <3>2, Zenon
    <3> QED
      BY <2>1, <3>3
  <2>2. CASE m \notin 1 .. L
    BY <2>2
  <2> QED
    BY <2>1, <2>2
<1>3. PICK f \in [Nat -> Seq(Nat)] : Solves(f, G)
  <2> HIDE DEF G
  <2> QED
    BY <1>2, StrongRecursion
<1> DEFINE P == [j \in 0 .. L |-> f[j]]
<1>4. ASSUME NEW j \in 0 .. L PROVE f[j] = IF j = 0 THEN <<>> ELSE P[j - 1] \o parts[j]
  <2>1. j \in Nat
    BY <1>1
  <2>2. Up(f, j) \in [0 .. j - 1 -> Seq(Nat)]
    BY <2>1 DEF Up
  <2>3. f[j] = IF j \notin 1 .. L THEN <<>> ELSE Up(f, j)[j - 1] \o parts[j]
    <3>1. f[j] = G[j][Up(f, j)]
      BY <1>3, <2>1 DEF Solves
    <3>2. G[j][Up(f, j)] = IF j \notin 1 .. L THEN <<>> ELSE Up(f, j)[j - 1] \o parts[j]
      BY <2>1, <2>2
    <3> QED
      BY <3>1, <3>2
  <2>4. CASE j = 0
    BY <2>3, <2>4, <1>1
  <2>5. CASE j # 0
    <3>1. Up(f, j)[j - 1] = f[j - 1] /\ P[j - 1] = f[j - 1]
      BY <2>1, <2>5, <1>1 DEF Up
    <3>2. j \in 1 .. L
      BY <1>1, <2>1, <2>5
    <3> HIDE DEF P
    <3> QED
      BY <2>3, <2>5, <3>1, <3>2
  <2> QED
    BY <2>4, <2>5
<1>5. P = [j \in 0 .. L |-> IF j = 0 THEN <<>> ELSE P[j - 1] \o parts[j]]
  BY <1>4, Zenon
<1>6. P[L] = f[L] /\ f[L] \in Seq(Nat)
  BY <1>1
<1> DEFINE Q == CHOOSE Q : Q = [j \in 0 .. L |-> IF j = 0 THEN <<>> ELSE Q[j - 1] \o parts[j]]
<1> HIDE DEF P, G
<1>7. Q = [j \in 0 .. L |-> IF j = 0 THEN <<>> ELSE Q[j - 1] \o parts[j]]
  BY <1>5
<1>8. Joined(parts) = Q[L]
  BY DEF Joined, L
<1> HIDE DEF Q
<1> DEFINE T == {j \in Nat : j <= L => Q[j] \in Seq(Nat)}
<1>9. 0 \in T
  <2>1. Q[0] = <<>> /\ <<>> \in Seq(Nat)
    BY <1>7, <1>1
  <2> QED
    BY <2>1, Zenon
<1>10. ASSUME NEW j \in Nat, j \in T PROVE j + 1 \in T
  <2> SUFFICES ASSUME j + 1 <= L PROVE Q[j + 1] \in Seq(Nat)
    OBVIOUS
  <2>1. Q[j] \in Seq(Nat) /\ j + 1 \in 1 .. L /\ j + 1 \in 0 .. L /\ j + 1 # 0 /\ (j + 1) - 1 = j
    BY <1>1, <1>10
  <2>2. Q[j + 1] = Q[j] \o parts[j + 1]
    BY <1>7, <2>1
  <2>3. \A a, b \in Seq(Nat) : a \o b \in Seq(Nat)
    OBVIOUS
  <2> QED
    BY <1>1, <2>1, <2>2, <2>3, Zenon
<1> HIDE DEF T
<1>11. \A j \in Nat : j \in T
  BY <1>9, <1>10, StepInduction
<1>12. Q[L] \in Seq(Nat)
  <2>1. L \in T /\ L <= L
    BY <1>1, <1>11
  <2> QED
    BY <2>1 DEF T
<1> QED
  BY <1>8, <1>12

\* The cells of a value are at least one.
LEMMA BytesType ==
  ASSUME NEW v \in FieldValue
  PROVE  Bytes(v) \in Seq(Nat) \ {<<>>}
<1>1. CASE v \in {"word", "wide"} \X Nat
  <2>1. CASE v[1] = "word"
    BY <1>1, <2>1 DEF Bytes
  <2>2. CASE v[1] = "wide"
    <3>1. v[2] % Radix \in Nat /\ v[2] \div Radix \in Nat
      <4>1. v[2] \in Nat /\ Radix \in Nat \ {0}
        BY <1>1, MemoryAssumption
      <4>2. \A n \in Nat : n % Radix \in 0 .. Radix - 1 /\ n \div Radix \in Nat
        BY <4>1, Quotient
      <4>3. v[2] % Radix \in 0 .. Radix - 1 /\ v[2] \div Radix \in Nat
        BY <4>1, <4>2, Zenon
      <4> QED
        BY <4>1, <4>3
    <3> QED
      BY <2>2, <3>1 DEF Bytes
  <2> QED
    BY <1>1, <2>1, <2>2
<1>2. CASE v \in {"address"} \X (Seq(Nat) \ {<<>>})
  BY <1>2 DEF Bytes
<1>3. CASE v \in {"name"} \X Seq(Nat)
  <2>1. v[1] = "name" /\ v[2] \in Seq(Nat)
    BY <1>3
  <2> DEFINE w == [i \in 1 .. Window |-> IF i <= Len(v[2]) THEN v[2][i] ELSE 0]
  <2>2. w \in Seq(Nat)
    BY <2>1, MemoryAssumption
  <2>3. Bytes(v) = w \o <<Len(v[2])>>
    BY <2>1 DEF Bytes
  <2>4. Len(v[2]) \in Nat
    BY <2>1
  <2> HIDE DEF w
  <2> QED
    BY <2>2, <2>3, <2>4
<1> QED
  BY <1>1, <1>2, <1>3 DEF FieldValue

\* The span of a field is laid at its offset and holds its bytes.
LEMMA FieldSpansType ==
  ASSUME NEW fields \in Seq(FieldArg)
  PROVE  /\ FieldSpans(fields) \in Seq(SpanSet) /\ DOMAIN FieldSpans(fields) = DOMAIN fields
         /\ Len(FieldSpans(fields)) = Len(fields)
         /\ \A i \in DOMAIN fields : /\ FieldSpans(fields)[i].at = fields[i].at
                                     /\ FieldSpans(fields)[i].cells = Bytes(fields[i].value)
<1>1. ASSUME NEW i \in DOMAIN fields
      PROVE  Span(fields[i].at, Bytes(fields[i].value)) \in SpanSet
  <2>1. fields[i] \in FieldArg
    OBVIOUS
  <2>2. fields[i].at \in Nat /\ fields[i].value \in FieldValue
    BY <2>1 DEF FieldArg
  <2> QED
    BY <2>2, BytesType DEF Span, SpanSet
<1>2. DOMAIN fields = 1 .. Len(fields) /\ Len(fields) \in Nat
  OBVIOUS
<1>3. FieldSpans(fields) \in [1 .. Len(fields) -> SpanSet]
  BY <1>1, <1>2 DEF FieldSpans
<1>4. \A i \in DOMAIN fields : FieldSpans(fields)[i] = Span(fields[i].at, Bytes(fields[i].value))
  BY DEF FieldSpans
<1> QED
  BY <1>2, <1>3, <1>4 DEF Span

\* Three words, parts of any number and a last one, put together.
LEMMA ThreeParts ==
  ASSUME NEW S, NEW a \in Seq(S), NEW b \in Seq(S), NEW c \in Seq(S), Len(a) = 3, Len(c) = 1
  PROVE  /\ (a \o b) \o c \in Seq(S) /\ DOMAIN ((a \o b) \o c) = 1 .. Len(b) + 4
         /\ ((a \o b) \o c)[1] = a[1] /\ ((a \o b) \o c)[2] = a[2] /\ ((a \o b) \o c)[3] = a[3]
         /\ \A i \in 1 .. Len(b) : ((a \o b) \o c)[i + 3] = b[i]
         /\ ((a \o b) \o c)[Len(b) + 4] = c[1]
<1> DEFINE ab == a \o b
           n == Len(b)
           s == ab \o c
<1>1. n \in Nat
  OBVIOUS
<1>2. /\ ab \in Seq(S) /\ Len(ab) = Len(a) + Len(b)
      /\ \A i \in 1 .. Len(a) + Len(b) : ab[i] = IF i <= Len(a) THEN a[i] ELSE b[i - Len(a)]
  <2>1. a \in Seq(S) /\ b \in Seq(S)
    OBVIOUS
  <2> QED
    BY <2>1, ConcatProperties
<1> HIDE DEF ab
<1>3. /\ s \in Seq(S) /\ Len(s) = Len(ab) + Len(c)
      /\ \A i \in 1 .. Len(ab) + Len(c) : s[i] = IF i <= Len(ab) THEN ab[i] ELSE c[i - Len(ab)]
  <2>1. ab \in Seq(S)
    BY <1>2
  <2> QED
    BY <2>1, ConcatProperties
<1> HIDE DEF s, n
<1>4. Len(ab) = n + 3 /\ \A i \in 1 .. n + 3 : ab[i] = IF i <= 3 THEN a[i] ELSE b[i - 3]
  BY <1>1, <1>2 DEF n
<1>5. Len(s) = n + 4 /\ \A i \in 1 .. n + 4 : s[i] = IF i <= n + 3 THEN ab[i] ELSE c[i - (n + 3)]
  BY <1>1, <1>3, <1>4
<1>6. s[1] = a[1] /\ s[2] = a[2] /\ s[3] = a[3]
  BY <1>1, <1>4, <1>5
<1>7. ASSUME NEW i \in 1 .. n PROVE s[i + 3] = b[i]
  BY <1>1, <1>4, <1>5
<1>8. s[n + 4] = c[1]
  BY <1>1, <1>5
<1>9. DOMAIN s = 1 .. n + 4
  BY <1>1, <1>3, <1>5
<1> QED
  BY <1>3, <1>6, <1>7, <1>8, <1>9, Zenon DEF s, ab, n

\* The spans of an order: the three words, the fields, the verify region.
LEMMA OrderSpansType ==
  ASSUME NEW order \in Order(FieldArg)
  PROVE  LET spans == OrderSpans(order)
             n == Len(order.fields)
             signed == KeyAndSignature \o OrderMessage(order)
         IN  /\ spans \in Seq(SpanSet) /\ n \in Nat /\ DOMAIN spans = 1 .. n + 4
             /\ spans[1] = Span(order.scheme, <<Scheme>>)
             /\ spans[2] = Span(order.ptr, <<RegionOf(order)>>)
             /\ spans[3] = Span(order.expiryAt, <<order.expiry>>)
             /\ \A i \in DOMAIN order.fields : spans[i + 3] = FieldSpans(order.fields)[i]
             /\ spans[n + 4] = Span(RegionOf(order), signed)
             /\ signed \in Seq(Nat) /\ RegionOf(order) \in Nat
<1> DEFINE n == Len(order.fields)
           signed == KeyAndSignature \o OrderMessage(order)
           front == <<Span(order.scheme, <<Scheme>>), Span(order.ptr, <<RegionOf(order)>>),
                      Span(order.expiryAt, <<order.expiry>>)>>
           middle == FieldSpans(order.fields)
           last == <<Span(RegionOf(order), signed)>>
<1>1. /\ order.scheme \in Nat /\ order.ptr \in Nat /\ order.expiryAt \in Nat /\ order.region \in Nat
      /\ order.nonce \in Nat /\ order.expiry \in Nat /\ order.fields \in Seq(FieldArg)
  BY DEF Order
<1>2. RegionOf(order) \in Nat
  BY <1>1, MemoryAssumption DEF RegionOf
<1>3. signed \in Seq(Nat) /\ signed # <<>>
  <2> DEFINE parts == [i \in DOMAIN order.fields |-> Bytes(order.fields[i].value)]
  <2>1. \A i \in DOMAIN order.fields : Bytes(order.fields[i].value) \in Seq(Nat)
    <3> SUFFICES ASSUME NEW i \in DOMAIN order.fields
                 PROVE  Bytes(order.fields[i].value) \in Seq(Nat)
      OBVIOUS
    <3>1. order.fields[i] \in FieldArg
      BY <1>1
    <3> QED
      BY <3>1, BytesType DEF FieldArg
  <2>2. n \in Nat /\ DOMAIN order.fields = 1 .. n
    BY <1>1
  <2>3. parts \in [1 .. n -> Seq(Nat)]
    BY <2>1, <2>2
  <2>4. parts \in Seq(Seq(Nat))
    <3> HIDE DEF parts
    <3> QED
      BY <2>2, <2>3
  <2> HIDE DEF parts
  <2>5. Joined(parts) \in Seq(Nat)
    BY <2>4, JoinedType
  <2>6. signed = <<1>> \o (<<order.nonce, order.expiry>> \o Joined(parts))
    BY DEF KeyAndSignature, OrderMessage, parts
  <2>7. <<order.nonce, order.expiry>> \o Joined(parts) \in Seq(Nat)
    BY <1>1, <2>5
  <2> QED
    BY <2>6, <2>7
<1> HIDE DEF signed
<1>4. front \in Seq(SpanSet) /\ Len(front) = 3 /\ last \in Seq(SpanSet) /\ Len(last) = 1
  <2>1. \A at, x \in Nat : Span(at, <<x>>) \in SpanSet
    BY DEF Span, SpanSet
  <2>2. Scheme \in Nat
    BY DEF Scheme
  <2>3. Span(RegionOf(order), signed) \in SpanSet
    BY <1>2, <1>3 DEF Span, SpanSet
  <2> QED
    BY <1>1, <1>2, <2>1, <2>2, <2>3
<1>5. middle \in Seq(SpanSet) /\ Len(middle) = n /\ n \in Nat /\ DOMAIN order.fields = 1 .. n
  BY <1>1, FieldSpansType
<1>6. OrderSpans(order) = (front \o middle) \o last
  BY DEF OrderSpans, signed
<1>7. /\ front[1] = Span(order.scheme, <<Scheme>>)
      /\ front[2] = Span(order.ptr, <<RegionOf(order)>>)
      /\ front[3] = Span(order.expiryAt, <<order.expiry>>)
      /\ last[1] = Span(RegionOf(order), signed)
  OBVIOUS
<1> HIDE DEF front, middle, last
<1> DEFINE spans == (front \o middle) \o last
<1>8. /\ spans \in Seq(SpanSet) /\ DOMAIN spans = 1 .. Len(middle) + 4
      /\ spans[1] = front[1] /\ spans[2] = front[2] /\ spans[3] = front[3]
      /\ \A i \in 1 .. Len(middle) : spans[i + 3] = middle[i]
      /\ spans[Len(middle) + 4] = last[1]
  <2>1. /\ front \in Seq(SpanSet) /\ middle \in Seq(SpanSet) /\ last \in Seq(SpanSet)
        /\ Len(front) = 3 /\ Len(last) = 1
    BY <1>4, <1>5
  <2> QED
    BY <2>1, ThreeParts, SMTT(60)
<1> HIDE DEF spans, n
<1>9. /\ spans \in Seq(SpanSet) /\ DOMAIN spans = 1 .. n + 4
      /\ spans[1] = front[1] /\ spans[2] = front[2] /\ spans[3] = front[3]
      /\ \A i \in DOMAIN order.fields : spans[i + 3] = middle[i]
      /\ spans[n + 4] = last[1]
  BY <1>5, <1>8
<1>10. OrderSpans(order) = spans
  BY <1>6 DEF spans
<1>11. \A i \in DOMAIN order.fields : spans[i + 3] = FieldSpans(order.fields)[i]
  BY <1>9 DEF middle
<1> QED
  BY <1>2, <1>3, <1>5, <1>7, <1>9, <1>10, <1>11 DEF n, signed

\* Cells that are where they were put are what is read there.
LEMMA ReadsCells ==
  ASSUME NEW memory \in Seq(Nat), NEW at \in Nat, NEW cells \in Seq(Nat),
         \A c \in 1 .. Len(cells) : at + c \in DOMAIN memory /\ memory[at + c] = cells[c]
  PROVE  Reads(memory, at, Len(cells)) = cells
<1> DEFINE w == Len(cells)
           L == Len(memory)
<1>1. w \in Nat /\ L \in Nat /\ DOMAIN memory = 1 .. L
  OBVIOUS
<1>2. SubSeq(memory, at + 1, at + w) = [i \in 1 .. w |-> memory[at + i]]
  BY <1>1, SubSeqProperties
<1>3. cells = [i \in 1 .. w |-> cells[i]]
  OBVIOUS
<1> QED
  BY <1>2, <1>3 DEF Reads

\* A value whose cells are there is found.
LEMMA FindsValue ==
  ASSUME NEW memory \in Seq(Nat), NEW at \in Nat, NEW v \in FieldValue, EnsureFits(v),
         \A c \in 1 .. Len(Bytes(v)) :
           at + c \in DOMAIN memory /\ memory[at + c] = Bytes(v)[c]
  PROVE  Finds(memory, at, v)
<1>1. CASE v[1] = "word" /\ v[2] \in Nat
  <2>1. Bytes(v) = <<v[2]>>
    BY <1>1 DEF Bytes
  <2>2. Len(Bytes(v)) = 1 /\ Bytes(v)[1] = v[2]
    BY <2>1
  <2>3. memory[at + 1] = v[2]
    BY <2>2
  <2> QED
    BY <1>1, <2>3 DEF Finds
<1>2. CASE v[1] = "wide" /\ v[2] \in Nat
  <2>1. Bytes(v) = <<v[2] % Radix, v[2] \div Radix>>
    BY <1>2 DEF Bytes
  <2>2. Len(Bytes(v)) = 2 /\ Bytes(v)[1] = v[2] % Radix /\ Bytes(v)[2] = v[2] \div Radix
    BY <2>1
  <2>3. memory[at + 1] = v[2] % Radix /\ memory[at + 2] = v[2] \div Radix
    BY <2>2
  <2>4. \A n \in Nat : (n % Radix) + Radix * (n \div Radix) = n
    <3> SUFFICES ASSUME NEW n \in Nat PROVE (n % Radix) + Radix * (n \div Radix) = n
      OBVIOUS
    <3>1. /\ n \div Radix \in Nat /\ n % Radix \in 0 .. Radix - 1 /\ Radix \in Nat
          /\ n = (n \div Radix) * Radix + (n % Radix)
      BY MemoryAssumption, Quotient
    <3> QED
      BY <3>1
  <2>5. memory[at + 1] + Radix * memory[at + 2] = v[2]
    BY <1>2, <2>3, <2>4, Zenon
  <2> QED
    BY <1>2, <2>5 DEF Finds
<1>3. CASE v[1] = "address" /\ v[2] \in Seq(Nat)
  <2> DEFINE cells == v[2]
  <2>1. cells \in Seq(Nat) /\ Bytes(v) = cells
    BY <1>3 DEF Bytes
  <2> HIDE DEF cells
  <2>2. \A c \in 1 .. Len(cells) : at + c \in DOMAIN memory /\ memory[at + c] = cells[c]
    BY <2>1
  <2>3. Reads(memory, at, Len(cells)) = cells
    BY <2>1, <2>2, ReadsCells
  <2> QED
    BY <1>3, <2>3 DEF Finds, cells
<1>4. CASE v[1] = "name" /\ v[2] \in Seq(Nat)
  <2> DEFINE w == [i \in 1 .. Window |-> IF i <= Len(v[2]) THEN v[2][i] ELSE 0]
             label == v[2]
  <2>1. label \in Seq(Nat) /\ Len(label) <= Window /\ Len(label) \in Nat /\ Window \in Nat
    BY <1>4, MemoryAssumption DEF EnsureFits
  <2>2. Bytes(v) = w \o <<Len(label)>>
    BY <1>4 DEF Bytes
  <2>3. w \in Seq(Nat) /\ Len(w) = Window
    BY <2>1
  <2>4. \A i \in 1 .. Len(label) : w[i] = label[i]
    BY <2>1
  <2> HIDE DEF w, label
  <2>5. /\ Len(Bytes(v)) = Window + 1 /\ Bytes(v)[Window + 1] = Len(label)
        /\ \A i \in 1 .. Window : Bytes(v)[i] = w[i]
    <3> DEFINE t == <<Len(label)>>
    <3>1. t \in Seq(Nat) /\ Len(t) = 1 /\ t[1] = Len(label)
      BY <2>1
    <3> HIDE DEF t
    <3>2. /\ Len(w \o t) = Len(w) + Len(t)
          /\ \A i \in 1 .. Len(w) + Len(t) :
               (w \o t)[i] = IF i <= Len(w) THEN w[i] ELSE t[i - Len(w)]
      <4>1. w \in Seq(Nat) /\ t \in Seq(Nat)
        BY <2>3, <3>1
      <4> QED
        BY <4>1, ConcatProperties
    <3> DEFINE s == w \o t
    <3> HIDE DEF s
    <3>3. /\ Len(s) = Window + 1
          /\ \A i \in 1 .. Window + 1 : s[i] = IF i <= Window THEN w[i] ELSE t[i - Window]
      BY <2>3, <3>1, <3>2 DEF s
    <3>4. s[Window + 1] = Len(label) /\ \A i \in 1 .. Window : s[i] = w[i]
      BY <2>1, <3>1, <3>3
    <3>5. Bytes(v) = s
      BY <2>2 DEF s, t
    <3> QED
      BY <3>3, <3>4, <3>5
  <2>6. \A c \in 1 .. Window + 1 : at + c \in DOMAIN memory /\ memory[at + c] = Bytes(v)[c]
    BY <2>5
  <2>7. memory[at + Window + 1] = Len(label)
    <3>1. at + Window + 1 = at + (Window + 1) /\ Window + 1 \in 1 .. Window + 1
      BY <2>1
    <3> QED
      BY <3>1, <2>5, <2>6
  <2>8. \A c \in 1 .. Len(label) : at + c \in DOMAIN memory /\ memory[at + c] = label[c]
    <3> SUFFICES ASSUME NEW c \in 1 .. Len(label)
                 PROVE  at + c \in DOMAIN memory /\ memory[at + c] = label[c]
      OBVIOUS
    <3>1. c \in 1 .. Window + 1 /\ c \in 1 .. Window
      BY <2>1
    <3> QED
      BY <3>1, <2>4, <2>5, <2>6
  <2>9. Reads(memory, at, Len(label)) = label
    BY <2>1, <2>8, ReadsCells
  <2> QED
    BY <1>4, <2>7, <2>9 DEF Finds, label
<1> QED
  BY <1>1, <1>2, <1>3, <1>4 DEF FieldValue

\* What is laid is found, behind the context and beside nothing else.
LEMMA LaidIsFound ==
  ASSUME NEW spans \in Seq(SpanSet), Laid(spans).ok
  PROVE  LET m == Laid(spans).memory
         IN  /\ m \in Seq(Nat)
             /\ \A k \in DOMAIN spans : \A c \in 1 .. Len(spans[k].cells) :
                  spans[k].at + c \in DOMAIN m /\ m[spans[k].at + c] = spans[k].cells[c]
             /\ BlankElsewhere(m, spans)
             /\ Layable(spans)
<1>1. Layable(spans) /\ Laid(spans).memory = Written(spans)
  BY LaidIffLayable
<1>2. /\ \A k \in DOMAIN spans : spans[k].at >= Context /\ End(spans[k]) <= MaxMemory
      /\ \A i, j \in DOMAIN spans : i # j => Covered(spans[i]) \cap Covered(spans[j]) = {}
  BY <1>1 DEF Layable, ToSet
<1>3. /\ Written(spans) \in [1 .. MemoryLength(spans) -> Nat]
      /\ \A k \in DOMAIN spans : \A c \in 1 .. Len(spans[k].cells) :
           /\ spans[k].at + c \in DOMAIN Written(spans)
           /\ Written(spans)[spans[k].at + c] = spans[k].cells[c]
      /\ BlankElsewhere(Written(spans), spans)
  BY <1>2, WrittenIsFound
<1>4. MemoryLength(spans) \in Nat
  <2>1. MemoryLength(spans) \in Context .. MaxMemory
    BY <1>2, MemoryHoldsSpans
  <2> QED
    BY <2>1, MemoryAssumption
<1>5. Written(spans) \in Seq(Nat)
  BY <1>3, <1>4
<1> DEFINE m == Laid(spans).memory
<1>6. m = Written(spans)
  BY <1>1
<1> HIDE DEF m
<1>7. m \in Seq(Nat) /\ BlankElsewhere(m, spans)
  BY <1>3, <1>5, <1>6
<1>8. \A k \in DOMAIN spans : \A c \in 1 .. Len(spans[k].cells) :
        spans[k].at + c \in DOMAIN m /\ m[spans[k].at + c] = spans[k].cells[c]
  BY <1>3, <1>6, Zenon
<1> QED
  BY <1>1, <1>7, <1>8 DEF m

\* Where the cells of the values are, a contract finds them.
LEMMA FieldsAreFound ==
  ASSUME NEW memory \in Seq(Nat), NEW fields \in Seq(FieldArg), NEW shift \in Nat,
         NEW spans \in Seq(SpanSet),
         \A k \in DOMAIN spans : \A c \in 1 .. Len(spans[k].cells) :
           spans[k].at + c \in DOMAIN memory /\ memory[spans[k].at + c] = spans[k].cells[c],
         \A i \in DOMAIN fields : /\ i + shift \in DOMAIN spans
                                  /\ spans[i + shift] = FieldSpans(fields)[i],
         \A f \in ToSet(fields) : EnsureFits(f.value)
  PROVE  \A f \in ToSet(fields) : Finds(memory, f.at, f.value)
<1> SUFFICES ASSUME NEW f \in ToSet(fields) PROVE Finds(memory, f.at, f.value)
  OBVIOUS
<1>1. PICK i \in DOMAIN fields : f = fields[i]
  BY DEF ToSet
<1>2. f \in FieldArg
  BY <1>1
<1>3. f.at \in Nat /\ f.value \in FieldValue
  BY <1>2 DEF FieldArg
<1>4. FieldSpans(fields)[i].at = f.at /\ FieldSpans(fields)[i].cells = Bytes(f.value)
  BY <1>1, FieldSpansType
<1>5. \A c \in 1 .. Len(Bytes(f.value)) :
        f.at + c \in DOMAIN memory /\ memory[f.at + c] = Bytes(f.value)[c]
  <2> DEFINE k == i + shift
  <2>1. k \in DOMAIN spans /\ spans[k] = FieldSpans(fields)[i]
    OBVIOUS
  <2> HIDE DEF k
  <2>2. \A c \in 1 .. Len(spans[k].cells) :
          spans[k].at + c \in DOMAIN memory /\ memory[spans[k].at + c] = spans[k].cells[c]
    BY <2>1
  <2>3. spans[k].at = f.at /\ spans[k].cells = Bytes(f.value)
    BY <1>4, <2>1
  <2> QED
    BY <2>2, <2>3
<1> QED
  BY <1>3, <1>5, FindsValue

\* An accepted call and an accepted order are read back.
LEMMA CallIsFound ==
  ASSUME NEW fields \in Seq(FieldArg), BuildCallArgs(fields).ok
  PROVE  LET m == BuildCallArgs(fields).memory
         IN  /\ \A f \in ToSet(fields) : Finds(m, f.at, f.value)
             /\ BlankElsewhere(m, FieldSpans(fields))
             /\ Layable(FieldSpans(fields))
<1> DEFINE spans == FieldSpans(fields)
           m == Laid(spans).memory
<1>1. /\ \A f \in ToSet(fields) : EnsureFits(f.value)
      /\ BuildCallArgs(fields) = Laid(spans) /\ Laid(spans).ok
  BY DEF BuildCallArgs, Refused
<1>2. spans \in Seq(SpanSet) /\ DOMAIN spans = DOMAIN fields
  BY FieldSpansType
<1> HIDE DEF spans
<1>3. /\ m \in Seq(Nat)
      /\ \A k \in DOMAIN spans : \A c \in 1 .. Len(spans[k].cells) :
           spans[k].at + c \in DOMAIN m /\ m[spans[k].at + c] = spans[k].cells[c]
      /\ BlankElsewhere(m, spans)
      /\ Layable(spans)
  BY <1>1, <1>2, LaidIsFound, Zenon
<1>4. \A i \in DOMAIN fields : i + 0 \in DOMAIN spans /\ spans[i + 0] = FieldSpans(fields)[i]
  <2>1. \A i \in DOMAIN fields : i + 0 = i
    OBVIOUS
  <2> QED
    BY <1>2, <2>1 DEF spans
<1> HIDE DEF m
<1>5. 0 \in Nat
  OBVIOUS
<1>6. \A f \in ToSet(fields) : Finds(m, f.at, f.value)
  BY <1>1, <1>2, <1>3, <1>4, <1>5, FieldsAreFound
<1> QED
  BY <1>1, <1>3, <1>6 DEF m, spans

\* An order that is built holds, where it says they are, all that was ordered.
LEMMA OrderIsRead ==
  ASSUME NEW order \in Order(FieldArg), BuildTypedOrder(order).ok
  PROVE  LET m == BuildTypedOrder(order).memory
             signed == KeyAndSignature \o OrderMessage(order)
         IN  /\ \A f \in ToSet(order.fields) : Finds(m, f.at, f.value)
             /\ m[order.scheme + 1] = Scheme /\ m[order.ptr + 1] = RegionOf(order)
             /\ m[order.expiryAt + 1] = order.expiry
             /\ Reads(m, RegionOf(order), Len(signed)) = signed
             /\ BlankElsewhere(m, OrderSpans(order))
             /\ Layable(OrderSpans(order))
<1> DEFINE spans == OrderSpans(order)
           n == Len(order.fields)
           signed == KeyAndSignature \o OrderMessage(order)
           m == Laid(spans).memory
<1>1. /\ \A f \in ToSet(order.fields) : EnsureFits(f.value)
      /\ BuildTypedOrder(order) = Laid(spans) /\ Laid(spans).ok
  BY DEF BuildTypedOrder, Refused
<1>2. /\ spans \in Seq(SpanSet) /\ n \in Nat /\ DOMAIN spans = 1 .. n + 4
      /\ spans[1] = Span(order.scheme, <<Scheme>>)
      /\ spans[2] = Span(order.ptr, <<RegionOf(order)>>)
      /\ spans[3] = Span(order.expiryAt, <<order.expiry>>)
      /\ \A i \in DOMAIN order.fields : spans[i + 3] = FieldSpans(order.fields)[i]
      /\ spans[n + 4] = Span(RegionOf(order), signed)
      /\ signed \in Seq(Nat) /\ RegionOf(order) \in Nat
  BY OrderSpansType
<1>3. order.fields \in Seq(FieldArg) /\ DOMAIN order.fields = 1 .. n
  BY DEF Order
<1> HIDE DEF spans, signed
<1>4. /\ m \in Seq(Nat)
      /\ \A k \in DOMAIN spans : \A c \in 1 .. Len(spans[k].cells) :
           spans[k].at + c \in DOMAIN m /\ m[spans[k].at + c] = spans[k].cells[c]
      /\ BlankElsewhere(m, spans)
      /\ Layable(spans)
  BY <1>1, <1>2, LaidIsFound, Zenon
<1> HIDE DEF m, n
<1>5. \A f \in ToSet(order.fields) : Finds(m, f.at, f.value)
  <2>1. \A i \in DOMAIN order.fields :
          i + 3 \in DOMAIN spans /\ spans[i + 3] = FieldSpans(order.fields)[i]
    BY <1>2, <1>3
  <2>2. m \in Seq(Nat) /\ order.fields \in Seq(FieldArg) /\ 3 \in Nat /\ spans \in Seq(SpanSet)
    BY <1>2, <1>3, <1>4
  <2> QED
    BY <1>1, <1>4, <2>1, <2>2, FieldsAreFound
<1>6. ASSUME NEW k \in DOMAIN spans, NEW at \in Nat, NEW x, spans[k] = Span(at, <<x>>)
      PROVE  m[at + 1] = x
  <2>1. spans[k].at = at /\ spans[k].cells = <<x>> /\ Len(<<x>>) = 1 /\ <<x>>[1] = x
    BY <1>6 DEF Span
  <2>2. 1 \in 1 .. Len(spans[k].cells)
    BY <2>1
  <2>3. m[spans[k].at + 1] = spans[k].cells[1]
    BY <1>4, <2>2, Zenon
  <2> QED
    BY <2>1, <2>3
<1>7. order.scheme \in Nat /\ order.ptr \in Nat /\ order.expiryAt \in Nat
  BY DEF Order
<1>8. 1 \in DOMAIN spans /\ 2 \in DOMAIN spans /\ 3 \in DOMAIN spans /\ n + 4 \in DOMAIN spans
  BY <1>2
<1>9. /\ m[order.scheme + 1] = Scheme /\ m[order.ptr + 1] = RegionOf(order)
      /\ m[order.expiryAt + 1] = order.expiry
  <2>0. /\ spans[1] = Span(order.scheme, <<Scheme>>)
        /\ spans[2] = Span(order.ptr, <<RegionOf(order)>>)
    BY <1>2
  <2>1. m[order.scheme + 1] = Scheme
    BY <2>0, <1>6, <1>7, <1>8, Zenon
  <2>2. m[order.ptr + 1] = RegionOf(order)
    BY <2>0, <1>6, <1>7, <1>8, Zenon
  <2>3. m[order.expiryAt + 1] = order.expiry
    BY <1>2, <1>6, <1>7, <1>8, Zenon
  <2> QED
    BY <2>1, <2>2, <2>3
<1>10. Reads(m, RegionOf(order), Len(signed)) = signed
  <2>1. spans[n + 4].at = RegionOf(order) /\ spans[n + 4].cells = signed
    BY <1>2 DEF Span
  <2>2. \A c \in 1 .. Len(signed) :
          RegionOf(order) + c \in DOMAIN m /\ m[RegionOf(order) + c] = signed[c]
    BY <1>4, <1>8, <2>1
  <2> QED
    BY <1>2, <1>4, <2>2, ReadsCells
<1> QED
  BY <1>1, <1>4, <1>5, <1>9, <1>10 DEF m, spans, signed

\* The order whose values were laid.
TheOrder == [asked.order EXCEPT !.fields = asked.fields]

\* What the answer is, by what was asked.
AnswerIsBuilt ==
  /\ asked.codec = "arguments" =>
       asked.fields \in Seq(FieldArg) /\ answer = BuildCallArgs(asked.fields)
  /\ asked.codec = "order" =>
       TheOrder \in Order(FieldArg) /\ answer = BuildTypedOrder(TheOrder)
  /\ asked.codec = "converted" /\ answer.ok =>
       TheOrder \in Order(FieldArg) /\ answer = BuildTypedOrder(TheOrder)

\* An order with other fields is an order, of those fields.
LEMMA OrderWithFields ==
  ASSUME NEW F, NEW order \in Order(F), NEW fields \in Seq(FieldArg)
  PROVE  /\ [order EXCEPT !.fields = fields] \in Order(FieldArg)
         /\ [order EXCEPT !.fields = fields].fields = fields
BY DEF Order

\* Asked for the arguments of a call.
LEMMA ArgumentsAnswered ==
  ASSUME NEW fields \in Seq(FieldArg), AskArguments(fields)
  PROVE  AnswerIsBuilt'
<1>1. asked' = [codec |-> "arguments", fields |-> fields] /\ answer' = BuildCallArgs(fields)
  BY DEF AskArguments
<1>2. asked'.codec = "arguments" /\ asked'.fields = fields
  BY <1>1
<1> QED
  BY <1>1, <1>2 DEF AnswerIsBuilt

\* Asked for an order of fields.
LEMMA OrderAnswered ==
  ASSUME NEW order \in Orders, AskOrder(order)
  PROVE  AnswerIsBuilt'
<1>1. asked' = [codec |-> "order", fields |-> order.fields, order |-> order]
      /\ answer' = BuildTypedOrder(order)
  BY DEF AskOrder
<1>2. asked'.codec = "order" /\ asked'.fields = order.fields /\ asked'.order = order
  BY <1>1
<1>3. order \in Order(FieldArg)
  BY ArgumentAssumption
<1>4. [order EXCEPT !.fields = order.fields] = order
  BY <1>3 DEF Order
<1>5. TheOrder' = order
  BY <1>2, <1>4 DEF TheOrder
<1> QED
  BY <1>1, <1>2, <1>3, <1>5 DEF AnswerIsBuilt

\* Asked for an order of typed values, which become fields.
LEMMA TypedAnswered ==
  ASSUME NEW order \in TypedOrders, AskTyped(order)
  PROVE  AnswerIsBuilt'
<1> DEFINE fields == [i \in DOMAIN order.fields |->
                        [at    |-> order.fields[i].at,
                         value |-> TypedValue(order.fields[i].width, order.fields[i].text)]]
           TypedField == [at : Nat, width : Nat, text : TypedText]
<1>1. asked' = [codec |-> "converted", order |-> order, fields |-> fields]
      /\ answer' = BuildFromTyped(order)
  BY DEF AskTyped
<1>2. asked'.codec = "converted" /\ asked'.fields = fields /\ asked'.order = order
  BY <1>1
<1>3. order \in Order(TypedField)
  BY ArgumentAssumption
<1>4. order.fields \in Seq(TypedField)
  BY <1>3 DEF Order
<1>5. fields \in Seq(FieldArg)
  <2>1. ASSUME NEW i \in DOMAIN order.fields
        PROVE  [at    |-> order.fields[i].at,
                value |-> TypedValue(order.fields[i].width, order.fields[i].text)] \in FieldArg
    <3>1. order.fields[i] \in TypedField
      <4> HIDE DEF TypedField, fields
      <4> QED
        BY <1>4
    <3>2. order.fields[i].at \in Nat /\ order.fields[i].text \in TypedText
      BY <3>1
    <3>3. TypedValue(order.fields[i].width, order.fields[i].text) \in FieldValue
      BY <3>2 DEF TypedValue, TypedText, FieldValue
    <3> QED
      BY <3>2, <3>3 DEF FieldArg
  <2>2. DOMAIN order.fields = 1 .. Len(order.fields) /\ Len(order.fields) \in Nat
    BY <1>4
  <2>3. fields \in [1 .. Len(order.fields) -> FieldArg]
    BY <2>1, <2>2
  <2> HIDE DEF fields
  <2> QED
    BY <2>2, <2>3
<1>6. [order EXCEPT !.fields = fields] \in Order(FieldArg)
  BY <1>3, <1>5, OrderWithFields
<1>7. TheOrder' = [order EXCEPT !.fields = fields]
  BY <1>2 DEF TheOrder
<1>8. BuildFromTyped(order).ok => BuildFromTyped(order) = BuildTypedOrder([order EXCEPT !.fields = fields])
  BY DEF BuildFromTyped, Refused
<1> HIDE DEF fields
<1> QED
  BY <1>1, <1>2, <1>6, <1>7, <1>8 DEF AnswerIsBuilt

\* Asked for an order of words, which become fields of eight bytes.
LEMMA WordsAnswered ==
  ASSUME NEW order \in WordOrders, NEW offsets \in WordLists, NEW words \in WordLists,
         AskWords(order, offsets, words)
  PROVE  AnswerIsBuilt'
<1> DEFINE all == [i \in DOMAIN words |-> [at |-> offsets[i], value |-> <<"word", words[i]>>]]
           fields == [i \in DOMAIN words \cap DOMAIN offsets |->
                        [at |-> offsets[i], value |-> <<"word", words[i]>>]]
<1>1. asked' = [codec |-> "converted", order |-> order, fields |-> fields]
      /\ answer' = BuildSigned(order, offsets, words)
  BY DEF AskWords
<1>2. asked'.codec = "converted" /\ asked'.fields = fields /\ asked'.order = order
  BY <1>1
<1>3. order \in Order({}) /\ words \in Seq(Nat) /\ offsets \in Seq(Nat)
  BY ArgumentAssumption
<1> SUFFICES ASSUME answer'.ok
             PROVE  TheOrder' \in Order(FieldArg) /\ answer' = BuildTypedOrder(TheOrder')
  BY <1>2 DEF AnswerIsBuilt
<1>4. Len(offsets) = Len(words)
      /\ answer' = BuildTypedOrder([order EXCEPT !.fields = all])
  BY <1>1 DEF BuildSigned, Refused
<1>5. DOMAIN words = 1 .. Len(words) /\ Len(words) \in Nat
      /\ DOMAIN words \cap DOMAIN offsets = DOMAIN words
  BY <1>3, <1>4
<1>6. fields = all
  BY <1>5
<1>7. all \in Seq(FieldArg)
  <2>1. ASSUME NEW i \in 1 .. Len(words)
        PROVE  [at |-> offsets[i], value |-> <<"word", words[i]>>] \in FieldArg
    <3>1. offsets[i] \in Nat /\ words[i] \in Nat
      BY <1>3, <1>4
    <3> QED
      BY <3>1 DEF FieldArg, FieldValue
  <2>2. all \in [1 .. Len(words) -> FieldArg]
    BY <1>5, <2>1
  <2> HIDE DEF all
  <2> QED
    BY <1>5, <2>2
<1> HIDE DEF all, fields
<1>8. [order EXCEPT !.fields = all] \in Order(FieldArg)
  BY <1>3, <1>7, OrderWithFields
<1>9. TheOrder' = [order EXCEPT !.fields = all]
  BY <1>2, <1>6 DEF TheOrder
<1> QED
  BY <1>4, <1>8, <1>9

\* The answer is what was built of the fields asked for, in every state.
LEMMA AnswersAreBuilt == ArgumentSpec => []AnswerIsBuilt
<1>1. NothingAsked => AnswerIsBuilt
  BY DEF NothingAsked, AnswerIsBuilt
<1>2. AnswerIsBuilt /\ [AskForArguments \/ AnotherIsAsked(ArgumentCodecs)]_exchange => AnswerIsBuilt'
  <2> SUFFICES ASSUME AnswerIsBuilt,
                      [AskForArguments \/ AnotherIsAsked(ArgumentCodecs)]_exchange
               PROVE  AnswerIsBuilt'
    OBVIOUS
  <2>1. CASE AskForArguments
    <3>1. ASSUME NEW n \in 0 .. MaxFields, NEW fields \in [1 .. n -> Fields(n)],
                 AskArguments(fields)
          PROVE  AnswerIsBuilt'
      <4>1. n \in Nat /\ \A i \in 1 .. n : fields[i] \in FieldArg
        BY ArgumentAssumption
      <4>2. fields \in [1 .. n -> FieldArg]
        BY <4>1
      <4>3. fields \in Seq(FieldArg)
        BY <4>1, <4>2
      <4> QED
        BY <3>1, <4>3, ArgumentsAnswered
    <3> QED
      BY <2>1, <3>1, OrderAnswered, TypedAnswered, WordsAnswered DEF AskForArguments
  <2>2. CASE AnotherIsAsked(ArgumentCodecs)
    BY <2>2 DEF AnotherIsAsked, ArgumentCodecs, AnswerIsBuilt
  <2>3. CASE UNCHANGED exchange
    BY <2>3 DEF exchange, AnswerIsBuilt, TheOrder
  <2> QED
    BY <2>1, <2>2, <2>3
<1> QED
  BY <1>1, <1>2, PTL DEF ArgumentSpec

\* A contract finds in an accepted call or order what was put there, and
\* nothing else, for any offsets, values and memory
\* (build_typed_order_call, build_call_args).
THEOREM CallsReadBack == ArgumentSpec => []ArgumentsReadBack
<1>1. AnswerIsBuilt => ArgumentsReadBack
  <2> SUFFICES ASSUME AnswerIsBuilt, Placing, answer.ok
               PROVE  /\ \A f \in ToSet(asked.fields) : Finds(answer.memory, f.at, f.value)
                      /\ asked.codec # "arguments" => OrderIsFound
                      /\ BlankElsewhere(answer.memory, Spans)
    BY DEF ArgumentsReadBack
  <2>1. CASE asked.codec = "arguments"
    <3>1. asked.fields \in Seq(FieldArg) /\ answer = BuildCallArgs(asked.fields)
      BY <2>1 DEF AnswerIsBuilt
    <3>2. Spans = FieldSpans(asked.fields)
      BY <2>1 DEF Spans
    <3> QED
      BY <2>1, <3>1, <3>2, CallIsFound
  <2>2. CASE asked.codec # "arguments"
    <3>1. asked.codec \in {"order", "converted"}
      BY <2>2 DEF Placing, ArgumentCodecs
    <3>2. TheOrder \in Order(FieldArg) /\ answer = BuildTypedOrder(TheOrder)
      BY <3>1 DEF AnswerIsBuilt
    <3>3. Spans = OrderSpans(TheOrder)
      BY <2>2 DEF Spans, TheOrder
    <3>4. TheOrder.fields = asked.fields
      BY <3>2 DEF TheOrder, Order
    <3> DEFINE m == answer.memory
               o == TheOrder
               signed == KeyAndSignature \o OrderMessage(o)
    <3>5. /\ \A f \in ToSet(o.fields) : Finds(m, f.at, f.value)
          /\ m[o.scheme + 1] = Scheme /\ m[o.ptr + 1] = RegionOf(o)
          /\ m[o.expiryAt + 1] = o.expiry
          /\ Reads(m, RegionOf(o), Len(signed)) = signed
          /\ BlankElsewhere(m, OrderSpans(o))
      BY <3>2, OrderIsRead
    <3>6. OrderIsFound
      BY <3>5 DEF OrderIsFound, TheOrder, RegionOf
    <3> QED
      BY <3>3, <3>4, <3>5, <3>6
  <2> QED
    BY <2>1, <2>2
<1> QED
  BY <1>1, AnswersAreBuilt, PTL

\* Calls and orders are accepted exactly when their spans can be laid
\* (build_typed_order_call, build_call_args).
THEOREM CallsAreAdmitted == ArgumentSpec => []ArgumentsAdmitted
<1>1. AnswerIsBuilt => ArgumentsAdmitted
  <2> SUFFICES ASSUME AnswerIsBuilt PROVE ArgumentsAdmitted
    OBVIOUS
  <2>1. ASSUME Placing, answer.ok PROVE Layable(Spans)
    <3>1. CASE asked.codec = "arguments"
      <4>1. asked.fields \in Seq(FieldArg) /\ answer = BuildCallArgs(asked.fields)
        BY <3>1 DEF AnswerIsBuilt
      <4>2. Spans = FieldSpans(asked.fields)
        BY <3>1 DEF Spans
      <4> QED
        BY <2>1, <4>1, <4>2, CallIsFound
    <3>2. CASE asked.codec # "arguments"
      <4>1. asked.codec \in {"order", "converted"}
        BY <2>1, <3>2 DEF Placing, ArgumentCodecs
      <4>2. TheOrder \in Order(FieldArg) /\ answer = BuildTypedOrder(TheOrder)
        BY <2>1, <4>1 DEF AnswerIsBuilt
      <4>3. Spans = OrderSpans(TheOrder)
        BY <3>2 DEF Spans, TheOrder
      <4> QED
        BY <2>1, <4>2, <4>3, OrderIsRead
    <3> QED
      BY <3>1, <3>2
  <2>2. ASSUME WellFormed, Layable(Spans) PROVE answer.ok
    <3>1. \A f \in ToSet(asked.fields) : EnsureFits(f.value)
      BY <2>2 DEF WellFormed
    <3>2. CASE asked.codec = "arguments"
      <4>1. asked.fields \in Seq(FieldArg) /\ answer = BuildCallArgs(asked.fields)
        BY <3>2 DEF AnswerIsBuilt
      <4>2. Spans = FieldSpans(asked.fields) /\ Spans \in Seq(SpanSet)
        BY <3>2, <4>1, FieldSpansType DEF Spans
      <4>3. Laid(Spans).ok
        BY <2>2, <4>2, LaidIffLayable
      <4>4. answer = Laid(Spans)
        BY <3>1, <4>1, <4>2 DEF BuildCallArgs
      <4> QED
        BY <4>3, <4>4
    <3>3. CASE asked.codec = "order" /\ asked.order.expiry # 0
      <4>1. TheOrder \in Order(FieldArg) /\ answer = BuildTypedOrder(TheOrder)
        BY <3>3 DEF AnswerIsBuilt
      <4>2. Spans = OrderSpans(TheOrder)
        BY <3>3 DEF Spans, TheOrder
      <4>3. Spans \in Seq(SpanSet)
        BY <4>1, <4>2, OrderSpansType
      <4>4. TheOrder.fields = asked.fields /\ TheOrder.expiry # 0
        BY <3>3, <4>1 DEF TheOrder, Order
      <4>5. answer = Laid(Spans)
        BY <3>1, <4>1, <4>2, <4>4 DEF BuildTypedOrder
      <4> QED
        BY <2>2, <4>3, <4>5, LaidIffLayable
    <3> QED
      BY <2>2, <3>2, <3>3 DEF WellFormed
  <2> QED
    BY <2>1, <2>2 DEF ArgumentsAdmitted
<1> QED
  BY <1>1, AnswersAreBuilt, PTL

-----------------------------------------------------------------------------
(* Numbers digit by digit.                                                   *)

\* The value of the first digits is the function its definition describes.
LEMMA UpToRec ==
  ASSUME NEW base \in Nat, NEW digits \in Seq(Nat)
  PROVE  /\ UpTo(base, digits) \in [0 .. Len(digits) -> Nat]
         /\ UpTo(base, digits)[0] = 0
         /\ \A k \in 1 .. Len(digits) :
              UpTo(base, digits)[k] = base * UpTo(base, digits)[k - 1] + digits[k]
<1> DEFINE L == Len(digits)
           G == [m \in Nat |-> [h \in [0 .. m - 1 -> Nat] |->
                   IF m \notin 1 .. L THEN 0 ELSE base * h[m - 1] + digits[m]]]
<1>1. L \in Nat /\ \A k \in 1 .. L : digits[k] \in Nat
  OBVIOUS
<1>2. \A a, c \in Nat : base * a + c \in Nat
  OBVIOUS
<1> HIDE DEF L
<1>3. Continues(G, Nat)
  <2> SUFFICES ASSUME NEW m \in Nat, NEW h \in [0 .. m - 1 -> Nat] PROVE G[m][h] \in Nat
    BY DEF Continues
  <2>1. CASE m \in 1 .. L
    <3>1. h[m - 1] \in Nat /\ digits[m] \in Nat
      BY <1>1, <2>1
    <3>2. base * h[m - 1] + digits[m] \in Nat
      BY <3>1, <1>2, Zenon
    <3> QED
      BY <2>1, <3>2
  <2>2. CASE m \notin 1 .. L
    BY <2>2
  <2> QED
    BY <2>1, <2>2
<1>4. PICK f \in [Nat -> Nat] : Solves(f, G)
  <2> HIDE DEF G
  <2> QED
    BY <1>3, StrongRecursion
<1> DEFINE P == [j \in 0 .. L |-> f[j]]
<1>5. ASSUME NEW j \in 0 .. L PROVE f[j] = IF j = 0 THEN 0 ELSE base * P[j - 1] + digits[j]
  <2>1. j \in Nat
    BY <1>1
  <2>2. Up(f, j) \in [0 .. j - 1 -> Nat]
    BY <2>1 DEF Up
  <2>3. f[j] = IF j \notin 1 .. L THEN 0 ELSE base * Up(f, j)[j - 1] + digits[j]
    <3>1. f[j] = G[j][Up(f, j)]
      BY <1>4, <2>1 DEF Solves
    <3>2. G[j][Up(f, j)] = IF j \notin 1 .. L THEN 0 ELSE base * Up(f, j)[j - 1] + digits[j]
      BY <2>1, <2>2
    <3> QED
      BY <3>1, <3>2
  <2>4. CASE j = 0
    BY <2>3, <2>4, <1>1
  <2>5. CASE j # 0
    <3>1. Up(f, j)[j - 1] = f[j - 1] /\ P[j - 1] = f[j - 1]
      BY <2>1, <2>5, <1>1 DEF Up
    <3>2. j \in 1 .. L
      BY <1>1, <2>1, <2>5
    <3> HIDE DEF P
    <3> QED
      BY <2>3, <2>5, <3>1, <3>2
  <2> QED
    BY <2>4, <2>5
<1>6. P = [j \in 0 .. L |-> IF j = 0 THEN 0 ELSE base * P[j - 1] + digits[j]]
  BY <1>5, Zenon
<1> DEFINE Q == UpTo(base, digits)
<1> HIDE DEF P, G
<1>7. Q = [j \in 0 .. L |-> IF j = 0 THEN 0 ELSE base * Q[j - 1] + digits[j]]
  BY <1>6 DEF UpTo, L
<1> HIDE DEF Q
<1>8. DOMAIN Q = 0 .. L /\ Q = [j \in DOMAIN Q |-> Q[j]]
  BY <1>7
<1>9. Q[0] = 0 /\ \A k \in 1 .. L : Q[k] = base * Q[k - 1] + digits[k]
  <2>1. \A k \in 0 .. L : Q[k] = IF k = 0 THEN 0 ELSE base * Q[k - 1] + digits[k]
    BY <1>7, Zenon
  <2> QED
    BY <1>1, <2>1
<1> DEFINE T == {j \in Nat : j <= L => Q[j] \in Nat}
<1>10. 0 \in T
  BY <1>9
<1>11. ASSUME NEW j \in Nat, j \in T PROVE j + 1 \in T
  <2> SUFFICES ASSUME j + 1 <= L PROVE Q[j + 1] \in Nat
    OBVIOUS
  <2>1. Q[j] \in Nat /\ j + 1 \in 1 .. L /\ (j + 1) - 1 = j
    BY <1>1, <1>11
  <2>2. Q[j + 1] = base * Q[j] + digits[j + 1]
    BY <1>9, <2>1
  <2> QED
    BY <1>1, <1>2, <2>1, <2>2, Zenon
<1> HIDE DEF T
<1>12. \A j \in Nat : j \in T
  BY <1>10, <1>11, StepInduction
<1>13. \A j \in 0 .. L : Q[j] \in Nat
  BY <1>1, <1>12 DEF T
<1>14. Q \in [0 .. L -> Nat]
  BY <1>8, <1>13
<1> QED
  BY <1>9, <1>14 DEF Q, L

\* Halving after a division is dividing by twice as much.
LEMMA HalfQuotient ==
  ASSUME NEW n \in Nat, NEW P \in Nat \ {0}
  PROVE  n \div (2 * P) = (n \div P) \div 2
<1> DEFINE q == n \div P
           r == n % P
           h == q \div 2
           b == q % 2
<1>1. q \in Nat /\ r \in 0 .. P - 1 /\ n = q * P + r
  BY Quotient
<1> HIDE DEF q, r
<1>2. h \in Nat /\ b \in 0 .. 1 /\ q = h * 2 + b
  BY <1>1
<1> HIDE DEF h, b
<1>3. n = h * (2 * P) + (b * P + r) /\ b * P + r \in Nat /\ b * P + r < 2 * P
  <2>1. b = 0 \/ b = 1
    BY <1>2
  <2>2. (h * 2 + b) * P = h * (2 * P) + b * P
    BY <1>2
  <2> QED
    BY <1>1, <1>2, <2>1, <2>2
<1>4. 2 * P \in Nat \ {0}
  OBVIOUS
<1>5. n \div (2 * P) = h
  BY <1>3, <1>4, <1>2, Quotient
<1> QED
  BY <1>5 DEF h, q

\* The bits of a number that bits came to are those bits.
LEMMA BitsOfFromBits ==
  ASSUME NEW w \in Nat, NEW p \in [1 .. w -> 0 .. 1]
  PROVE  FromBits(p) \in 0 .. Pow2[w] - 1 /\ BitsOf(FromBits(p), w) = p
<1> DEFINE u == UpTo(2, p)
<1>1. p \in Seq(Nat) /\ Len(p) = w
  OBVIOUS
<1>2. /\ \A k \in 0 .. w : u[k] \in Nat
      /\ u[0] = 0 /\ \A k \in 1 .. w : u[k] = 2 * u[k - 1] + p[k]
      /\ FromBits(p) = u[w]
  <2>1. 2 \in Nat /\ p \in Seq(Nat)
    BY <1>1
  <2>2. /\ u \in [0 .. Len(p) -> Nat] /\ u[0] = 0
        /\ \A k \in 1 .. Len(p) : u[k] = 2 * u[k - 1] + p[k]
    BY <2>1, UpToRec, Zenon
  <2>3. FromBits(p) = u[Len(p)]
    BY DEF FromBits, ValueOf
  <2> HIDE DEF u
  <2> QED
    BY <1>1, <2>2, <2>3
<1> HIDE DEF u
<1> DEFINE T == {k \in Nat : k <= w => u[k] < Pow2[k]}
<1>3. 0 \in T
  <2>1. Pow2[0] = 1
    BY Pow2Facts
  <2> QED
    BY <1>2, <2>1
<1>4. ASSUME NEW k \in Nat, k \in T PROVE k + 1 \in T
  <2> SUFFICES ASSUME k + 1 <= w PROVE u[k + 1] < Pow2[k + 1]
    OBVIOUS
  <2>1. u[k] < Pow2[k] /\ u[k] \in Nat /\ k + 1 \in 1 .. w /\ (k + 1) - 1 = k
    BY <1>2, <1>4
  <2>2. u[k + 1] = 2 * u[k] + p[k + 1] /\ p[k + 1] \in 0 .. 1
    BY <1>2, <2>1
  <2>3. Pow2[k + 1] = 2 * Pow2[k] /\ Pow2[k] \in Nat
    BY Pow2Step
  <2> QED
    BY <2>1, <2>2, <2>3
<1> HIDE DEF T
<1>5. \A k \in Nat : k \in T
  BY <1>3, <1>4, StepInduction
<1>6. u[w] \in Nat /\ u[w] < Pow2[w] /\ Pow2[w] \in Nat
  <2>1. w \in T /\ w \in 0 .. w
    BY <1>5
  <2> QED
    BY <1>2, <2>1, Pow2Step DEF T
<1> DEFINE n == u[w]
           R == {j \in Nat : j <= w => n \div Pow2[j] = u[w - j]}
<1> HIDE DEF n
<1>7. n \in Nat
  BY <1>6 DEF n
<1>8. 0 \in R
  <2>1. n \div 1 = n /\ w - 0 = w
    BY <1>7
  <2> QED
    BY <2>1, Pow2Facts DEF n
<1>9. ASSUME NEW j \in Nat, j < w, n \div Pow2[j] = u[w - j]
      PROVE  n \div Pow2[j + 1] = u[w - (j + 1)] /\ (n \div Pow2[j]) % 2 = p[w - j]
  <2> DEFINE k == w - j
  <2>1. k \in 1 .. w /\ k - 1 \in 0 .. w /\ w - (j + 1) = k - 1
    BY <1>9
  <2>2. u[k] = 2 * u[k - 1] + p[k] /\ u[k - 1] \in Nat /\ p[k] \in 0 .. 1
    BY <1>2, <2>1
  <2>3. u[k] \div 2 = u[k - 1] /\ u[k] % 2 = p[k]
    BY <2>2
  <2>4. n \div Pow2[j + 1] = (n \div Pow2[j]) \div 2
    BY <1>7, Pow2Step, HalfQuotient
  <2> QED
    BY <1>9, <2>1, <2>3, <2>4
<1>10. ASSUME NEW j \in Nat, j \in R PROVE j + 1 \in R
  BY <1>9, <1>10
<1> HIDE DEF R
<1>11. \A j \in Nat : j \in R
  BY <1>8, <1>10, StepInduction
<1>12. ASSUME NEW i \in 1 .. w PROVE (n \div Pow2[w - i]) % 2 = p[i]
  <2>1. w - i \in Nat /\ w - i < w /\ w - i \in R /\ w - (w - i) = i
    BY <1>11
  <2>2. n \div Pow2[w - i] = u[w - (w - i)]
    BY <2>1 DEF R
  <2> QED
    BY <1>9, <2>1, <2>2
<1>13. BitsOf(n, w) = p
  BY <1>12 DEF BitsOf
<1> QED
  BY <1>2, <1>6, <1>13 DEF n

\* The number that its bits come to is that number.
LEMMA FromBitsOfBits ==
  ASSUME NEW w \in Nat, NEW n \in 0 .. Pow2[w] - 1
  PROVE  BitsOf(n, w) \in [1 .. w -> 0 .. 1] /\ FromBits(BitsOf(n, w)) = n
<1> DEFINE p == BitsOf(n, w)
           u == UpTo(2, p)
<1>0. n \in Nat /\ Pow2[w] \in Nat \ {0} /\ n < Pow2[w]
  BY Pow2Facts
<1>1. \A i \in 1 .. w : p[i] = (n \div Pow2[w - i]) % 2
  BY DEF BitsOf
<1>2. p \in [1 .. w -> 0 .. 1]
  <2>1. ASSUME NEW i \in 1 .. w PROVE (n \div Pow2[w - i]) % 2 \in 0 .. 1
    <3>1. w - i \in Nat
      OBVIOUS
    <3>2. n \div Pow2[w - i] \in Nat
      BY <1>0, <3>1, Pow2Step, Quotient
    <3> QED
      BY <3>2
  <2> QED
    BY <2>1 DEF BitsOf
<1> HIDE DEF p
<1>3. p \in Seq(Nat) /\ Len(p) = w
  BY <1>2
<1>4. /\ \A k \in 0 .. w : u[k] \in Nat
      /\ u[0] = 0 /\ \A k \in 1 .. w : u[k] = 2 * u[k - 1] + p[k]
      /\ FromBits(p) = u[w]
  <2>1. 2 \in Nat /\ p \in Seq(Nat)
    BY <1>3
  <2>2. /\ u \in [0 .. Len(p) -> Nat] /\ u[0] = 0
        /\ \A k \in 1 .. Len(p) : u[k] = 2 * u[k - 1] + p[k]
    BY <2>1, UpToRec, Zenon
  <2>3. FromBits(p) = u[Len(p)]
    BY DEF FromBits, ValueOf
  <2> HIDE DEF u
  <2> QED
    BY <1>3, <2>2, <2>3
<1> HIDE DEF u
<1> DEFINE T == {k \in Nat : k <= w => u[k] = n \div Pow2[w - k]}
<1>5. 0 \in T
  <2>1. n = 0 * Pow2[w] + n
    BY <1>0
  <2>2. n \div Pow2[w] = 0
    BY <1>0, <2>1, Quotient
  <2>3. w - 0 = w
    OBVIOUS
  <2> QED
    BY <1>4, <2>2, <2>3
<1>6. ASSUME NEW k \in Nat, k \in T PROVE k + 1 \in T
  <2> SUFFICES ASSUME k + 1 <= w PROVE u[k + 1] = n \div Pow2[w - (k + 1)]
    OBVIOUS
  <2> DEFINE e == w - (k + 1)
             m == n \div Pow2[e]
  <2>1. e \in Nat /\ w - k = e + 1 /\ k + 1 \in 1 .. w /\ (k + 1) - 1 = k /\ k <= w
    OBVIOUS
  <2>2. u[k] = n \div Pow2[e + 1]
    BY <1>6, <2>1
  <2>3. n \div Pow2[e + 1] = m \div 2
    BY <1>0, <2>1, Pow2Step, HalfQuotient
  <2>4. m \in Nat
    BY <1>0, <2>1, Pow2Step, Quotient
  <2>5. u[k + 1] = 2 * u[k] + p[k + 1] /\ p[k + 1] = m % 2
    BY <1>1, <1>4, <2>1
  <2> HIDE DEF e, m
  <2>6. 2 * (m \div 2) + (m % 2) = m
    BY <2>4
  <2> QED
    BY <2>2, <2>3, <2>5, <2>6 DEF m, e
<1> HIDE DEF T
<1>7. \A k \in Nat : k \in T
  BY <1>5, <1>6, StepInduction
<1>8. u[w] = n
  <2>1. u[w] = n \div Pow2[w - w]
    BY <1>7 DEF T
  <2>2. w - w = 0 /\ n \div 1 = n
    BY <1>0
  <2> QED
    BY <2>1, <2>2, Pow2Facts
<1> QED
  BY <1>2, <1>4, <1>8 DEF p

-----------------------------------------------------------------------------
(* Phrases word by word.                                                     *)

\* A phrase has as many words as its bits fill.
LEMMA PhraseLength ==
  PhraseWords \in Nat /\ WordBits * PhraseWords = SeedBits + ChecksumBits
<1>1. SeedBits + ChecksumBits \in Nat /\ WordBits \in Nat \ {0} /\ (SeedBits + ChecksumBits) % WordBits = 0
  BY PhraseAssumption
<1> DEFINE a == SeedBits + ChecksumBits
<1>2. a \div WordBits \in Nat /\ a = (a \div WordBits) * WordBits + (a % WordBits)
  BY <1>1, Quotient
<1> QED
  BY <1>1, <1>2 DEF PhraseWords

\* A bit of a phrase, by its word and its place in the word.
LEMMA WordAndPlace ==
  ASSUME NEW N \in Nat, NEW k \in 1 .. WordBits * N
  PROVE  LET q == (k - 1) \div WordBits
             r == (k - 1) % WordBits
         IN  q + 1 \in 1 .. N /\ r + 1 \in 1 .. WordBits /\ WordBits * q + (r + 1) = k
<1> DEFINE W == WordBits
           q == (k - 1) \div W
           r == (k - 1) % W
<1>1. W \in Nat \ {0} /\ k \in Nat /\ k - 1 \in Nat /\ k <= W * N
  BY PhraseAssumption
<1> HIDE DEF W
<1>2. q \in Nat /\ r \in 0 .. W - 1 /\ k - 1 = q * W + r
  BY <1>1, Quotient
<1> HIDE DEF q, r
<1>3. q < N
  <2> SUFFICES ASSUME N <= q PROVE FALSE
    BY <1>2
  <2>1. PICK d \in Nat : q = N + d
    <3>1. q - N \in Nat /\ q = N + (q - N)
      BY <1>2
    <3> QED
      BY <3>1
  <2>2. W * d \in Nat /\ q * W = W * N + W * d /\ W * N \in Nat
    BY <1>1, <2>1
  <2> QED
    BY <1>1, <1>2, <2>2
<1>4. q + 1 \in 1 .. N /\ r + 1 \in 1 .. W /\ W * q + (r + 1) = k
  <2>1. q * W = W * q /\ q * W \in Nat
    BY <1>1, <1>2
  <2> QED
    BY <1>1, <1>2, <1>3, <2>1
<1> QED
  BY <1>4 DEF q, r, W

\* The bits of a word.
LEMMA PartFacts ==
  ASSUME NEW N \in Nat, NEW bits \in [1 .. WordBits * N -> 0 .. 1], NEW i \in 1 .. N
  PROVE  /\ Part(bits, i) \in [1 .. WordBits -> 0 .. 1]
         /\ \A r \in 1 .. WordBits : Part(bits, i)[r] = bits[WordBits * (i - 1) + r]
<1> DEFINE W == WordBits
           a == W * (i - 1)
<1>1. W \in Nat \ {0}
  BY PhraseAssumption
<1> HIDE DEF W
<1>2. i - 1 \in Nat /\ N - i \in Nat
  OBVIOUS
<1>3. a \in Nat /\ W * i = a + W /\ W * N = a + W + W * (N - i) /\ W * (N - i) \in Nat
  BY <1>1, <1>2
<1> HIDE DEF a
<1>4. W * N \in Nat /\ a + W <= W * N
  BY <1>1, <1>3
<1>5. bits \in Seq(0 .. 1) /\ Len(bits) = W * N
  BY <1>4 DEF W
<1>6. Part(bits, i) = [r \in 1 .. W |-> bits[a + r]]
  <2>1. SubSeq(bits, a + 1, a + W) = [r \in 1 .. W |-> bits[a + r]]
    <3>1. SubSeq(bits, a + 1, a + W) = [r \in 1 .. (a + W) - (a + 1) + 1 |-> bits[r + (a + 1) - 1]]
      BY <1>1, <1>3, <1>4, <1>5
    <3>2. (a + W) - (a + 1) + 1 = W /\ \A r \in 1 .. W : r + (a + 1) - 1 = a + r
      BY <1>1, <1>3
    <3> QED
      BY <3>1, <3>2
  <2> QED
    BY <1>3, <2>1 DEF Part, W, a
<1>7. \A r \in 1 .. W : bits[a + r] \in 0 .. 1
  <2>1. \A r \in 1 .. W : a + r \in 1 .. W * N
    BY <1>1, <1>3, <1>4
  <2> QED
    BY <2>1 DEF W
<1>8. Part(bits, i) \in [1 .. W -> 0 .. 1] /\ \A r \in 1 .. W : Part(bits, i)[r] = bits[a + r]
  BY <1>6, <1>7
<1> QED
  BY <1>8 DEF a, W

\* The words that bits are cut into enter those bits.
LEMMA BitsOfWords ==
  ASSUME NEW N \in Nat, NEW bits \in [1 .. WordBits * N -> 0 .. 1],
         NEW words, words = [i \in 1 .. N |-> FromBits(Part(bits, i))]
  PROVE  words \in [1 .. N -> 0 .. Unlisted - 1] /\ EnteredBits(words) = bits
<1>0. WordBits \in Nat \ {0}
  BY PhraseAssumption
<1>1. ASSUME NEW i \in 1 .. N
      PROVE  words[i] \in 0 .. Unlisted - 1 /\ BitsOf(words[i], WordBits) = Part(bits, i)
  <2>1. Part(bits, i) \in [1 .. WordBits -> 0 .. 1]
    BY PartFacts
  <2>2. words[i] = FromBits(Part(bits, i))
    OBVIOUS
  <2> QED
    BY <1>0, <2>1, <2>2, BitsOfFromBits DEF Unlisted
<1>2. words \in [1 .. N -> 0 .. Unlisted - 1]
  BY <1>1
<1>3. Len(words) = N
  OBVIOUS
<1>4. ASSUME NEW k \in 1 .. WordBits * N
      PROVE  BitsOf(words[((k - 1) \div WordBits) + 1], WordBits)[((k - 1) % WordBits) + 1] = bits[k]
  <2> DEFINE q == (k - 1) \div WordBits
             r == (k - 1) % WordBits
  <2>1. q + 1 \in 1 .. N /\ r + 1 \in 1 .. WordBits /\ WordBits * q + (r + 1) = k
    BY WordAndPlace
  <2> HIDE DEF q, r
  <2>2. Part(bits, q + 1)[r + 1] = bits[WordBits * ((q + 1) - 1) + (r + 1)]
    <3>1. PICK i \in 1 .. N : i = q + 1
      BY <2>1
    <3>2. PICK p \in 1 .. WordBits : p = r + 1
      BY <2>1
    <3>3. \A j \in 1 .. N : \A r1 \in 1 .. WordBits : Part(bits, j)[r1] = bits[WordBits * (j - 1) + r1]
      <4>1. N \in Nat /\ bits \in [1 .. WordBits * N -> 0 .. 1]
        OBVIOUS
      <4> QED
        BY <4>1, PartFacts, Zenon
    <3>4. Part(bits, i)[p] = bits[WordBits * (i - 1) + p]
      BY <3>3, Zenon
    <3> QED
      BY <3>1, <3>2, <3>4
  <2>3. (q + 1) - 1 = q
    <3>1. q \in Int
      BY <1>0 DEF q
    <3> QED
      BY <3>1
  <2>4. BitsOf(words[q + 1], WordBits) = Part(bits, q + 1)
    BY <1>1, <2>1
  <2>5. BitsOf(words[q + 1], WordBits)[r + 1] = bits[k]
    BY <2>1, <2>2, <2>3, <2>4
  <2> QED
    BY <2>5 DEF q, r
<1>5. EnteredBits(words) = [k \in 1 .. WordBits * N |-> bits[k]]
  BY <1>3, <1>4 DEF EnteredBits
<1> QED
  BY <1>2, <1>5

\* The words that a phrase's bits are cut into are its words.
LEMMA WordsOfBits ==
  ASSUME NEW N \in Nat, NEW words \in [1 .. N -> 0 .. Unlisted - 1]
  PROVE  /\ EnteredBits(words) \in [1 .. WordBits * N -> 0 .. 1]
         /\ \A i \in 1 .. N : FromBits(Part(EnteredBits(words), i)) = words[i]
<1> DEFINE bits == EnteredBits(words)
<1>0. WordBits \in Nat \ {0} /\ Len(words) = N
  BY PhraseAssumption
<1>1. \A i \in 1 .. N : /\ BitsOf(words[i], WordBits) \in [1 .. WordBits -> 0 .. 1]
                        /\ FromBits(BitsOf(words[i], WordBits)) = words[i]
  BY <1>0, FromBitsOfBits DEF Unlisted
<1>2. \A k \in 1 .. WordBits * N :
        bits[k] = BitsOf(words[((k - 1) \div WordBits) + 1], WordBits)[((k - 1) % WordBits) + 1]
  BY <1>0 DEF EnteredBits
<1>3. DOMAIN bits = 1 .. WordBits * N /\ bits = [k \in DOMAIN bits |-> bits[k]]
  BY <1>0 DEF EnteredBits
<1> HIDE DEF bits
<1>4. ASSUME NEW k \in 1 .. WordBits * N PROVE bits[k] \in 0 .. 1
  <2> DEFINE q == (k - 1) \div WordBits
             r == (k - 1) % WordBits
  <2>1. q + 1 \in 1 .. N /\ r + 1 \in 1 .. WordBits
    BY WordAndPlace
  <2>2. bits[k] = BitsOf(words[q + 1], WordBits)[r + 1]
    BY <1>2
  <2> HIDE DEF q, r
  <2> QED
    BY <1>1, <2>1, <2>2
<1>5. bits \in [1 .. WordBits * N -> 0 .. 1]
  BY <1>3, <1>4
<1>6. ASSUME NEW i \in 1 .. N PROVE FromBits(Part(bits, i)) = words[i]
  <2>1. /\ Part(bits, i) \in [1 .. WordBits -> 0 .. 1]
        /\ \A s \in 1 .. WordBits : Part(bits, i)[s] = bits[WordBits * (i - 1) + s]
    BY <1>5, PartFacts
  <2>2. ASSUME NEW s \in 1 .. WordBits PROVE Part(bits, i)[s] = BitsOf(words[i], WordBits)[s]
    <3> DEFINE k == WordBits * (i - 1) + s
    <3>1. i - 1 \in Nat /\ s - 1 \in Nat /\ s - 1 < WordBits /\ N - i \in Nat
      BY <1>0
    <3>2. k \in 1 .. WordBits * N /\ k - 1 = (i - 1) * WordBits + (s - 1) /\ k - 1 \in Nat
      <4>1. WordBits * N = WordBits * (i - 1) + WordBits + WordBits * (N - i)
        BY <1>0, <3>1
      <4>2. WordBits * (i - 1) = (i - 1) * WordBits /\ WordBits * (i - 1) \in Nat /\ WordBits * (N - i) \in Nat
        BY <1>0, <3>1
      <4> QED
        BY <1>0, <3>1, <4>1, <4>2
    <3> HIDE DEF k
    <3>3. (k - 1) \div WordBits = i - 1 /\ (k - 1) % WordBits = s - 1
      BY <1>0, <3>1, <3>2, Quotient
    <3>4. bits[k] = BitsOf(words[(i - 1) + 1], WordBits)[(s - 1) + 1]
      BY <1>2, <3>2, <3>3
    <3>5. (i - 1) + 1 = i /\ (s - 1) + 1 = s
      OBVIOUS
    <3> QED
      BY <2>1, <3>4, <3>5 DEF k
  <2>3. Part(bits, i) = BitsOf(words[i], WordBits)
    <3>1. BitsOf(words[i], WordBits) \in [1 .. WordBits -> 0 .. 1]
      BY <1>1
    <3> DEFINE f == Part(bits, i)
               g == BitsOf(words[i], WordBits)
    <3>2. f \in [1 .. WordBits -> 0 .. 1] /\ g \in [1 .. WordBits -> 0 .. 1]
      BY <2>1, <3>1
    <3>3. \A s \in 1 .. WordBits : f[s] = g[s]
      BY <2>2
    <3> HIDE DEF f, g
    <3>4. f = [s \in 1 .. WordBits |-> f[s]] /\ g = [s \in 1 .. WordBits |-> g[s]]
      BY <3>2
    <3>5. [s \in 1 .. WordBits |-> f[s]] = [s \in 1 .. WordBits |-> g[s]]
      BY <3>3, Zenon
    <3>6. f = g
      BY <3>4, <3>5, Zenon
    <3> QED
      BY <3>6 DEF f, g
  <2> QED
    BY <1>1, <2>3
<1> QED
  BY <1>5, <1>6 DEF bits

\* A seed and its checksum fill the words of a phrase.
LEMMA SeedAndChecksum ==
  ASSUME NEW seed \in [1 .. SeedBits -> 0 .. 1]
  PROVE  LET bits == seed \o SubSeq(Digest(seed), 1, ChecksumBits)
         IN  /\ bits \in [1 .. WordBits * PhraseWords -> 0 .. 1]
             /\ \A i \in 1 .. SeedBits : bits[i] = seed[i]
             /\ \A i \in 1 .. ChecksumBits : bits[SeedBits + i] = Digest(seed)[i]
<1> DEFINE D == Digest(seed)
           c == SubSeq(D, 1, ChecksumBits)
           bits == seed \o c
<1>1. SeedBits \in Nat /\ ChecksumBits \in Nat /\ D \in Seq(0 .. 1) /\ Len(D) >= ChecksumBits
  BY PhraseAssumption
<1>2. WordBits * PhraseWords = SeedBits + ChecksumBits
  BY PhraseLength
<1> HIDE DEF D
<1>3. c = [i \in 1 .. ChecksumBits |-> D[i]]
  <2>1. c = [i \in 1 .. ChecksumBits - 1 + 1 |-> D[i + 1 - 1]]
    BY <1>1
  <2>2. ChecksumBits - 1 + 1 = ChecksumBits /\ \A i \in 1 .. ChecksumBits : i + 1 - 1 = i
    BY <1>1
  <2> QED
    BY <2>1, <2>2
<1>4. \A i \in 1 .. ChecksumBits : D[i] \in 0 .. 1
  BY <1>1
<1> HIDE DEF c
<1>5. c \in Seq(0 .. 1) /\ Len(c) = ChecksumBits
  BY <1>1, <1>3, <1>4
<1>6. seed \in Seq(0 .. 1) /\ Len(seed) = SeedBits
  BY <1>1
<1>7. /\ bits \in Seq(0 .. 1) /\ Len(bits) = SeedBits + ChecksumBits
      /\ \A i \in 1 .. SeedBits : bits[i] = seed[i]
      /\ \A i \in 1 .. ChecksumBits : bits[SeedBits + i] = c[i]
  BY <1>1, <1>5, <1>6
<1> HIDE DEF bits
<1>8. bits \in [1 .. SeedBits + ChecksumBits -> 0 .. 1]
  BY <1>7
<1> QED
  BY <1>2, <1>3, <1>7, <1>8 DEF bits, c, D

\* The words of a seed's phrase are those its bits are cut into, all in the
\* list, and they enter those bits.
LEMMA PhraseOfSeed ==
  ASSUME NEW seed \in [1 .. SeedBits -> 0 .. 1]
  PROVE  LET bits  == seed \o SubSeq(Digest(seed), 1, ChecksumBits)
             words == Normalized(MnemonicFromSeed(seed))
         IN  /\ words = [i \in 1 .. PhraseWords |-> FromBits(Part(bits, i))]
             /\ words \in [1 .. PhraseWords -> 0 .. Unlisted - 1]
             /\ EnteredBits(words) = bits
<1> DEFINE bits  == seed \o SubSeq(Digest(seed), 1, ChecksumBits)
           words == Normalized(MnemonicFromSeed(seed))
<1>1. words = [i \in 1 .. PhraseWords |-> FromBits(Part(bits, i))]
  BY DEF Normalized, MnemonicFromSeed
<1>2. bits \in [1 .. WordBits * PhraseWords -> 0 .. 1]
  BY SeedAndChecksum
<1>3. PhraseWords \in Nat
  BY PhraseLength
<1> HIDE DEF bits, words
<1>4. words \in [1 .. PhraseWords -> 0 .. Unlisted - 1] /\ EnteredBits(words) = bits
  BY <1>1, <1>2, <1>3, BitsOfWords
<1> QED
  BY <1>1, <1>4 DEF bits, words

\* The phrase of a seed restores it.
LEMMA SeedReadsBack ==
  ASSUME NEW seed \in [1 .. SeedBits -> 0 .. 1]
  PROVE  SeedFromMnemonic(MnemonicFromSeed(seed)) = [ok |-> TRUE, why |-> "none", seed |-> seed]
<1> DEFINE words == Normalized(MnemonicFromSeed(seed))
           bits  == EnteredBits(words)
<1>1. words \in [1 .. PhraseWords -> 0 .. Unlisted - 1]
  BY PhraseOfSeed
<1>2. /\ bits \in [1 .. WordBits * PhraseWords -> 0 .. 1]
      /\ \A i \in 1 .. SeedBits : bits[i] = seed[i]
      /\ \A i \in 1 .. ChecksumBits : bits[SeedBits + i] = Digest(seed)[i]
  BY PhraseOfSeed, SeedAndChecksum
<1> HIDE DEF words, bits
<1>3. /\ SeedBits \in Nat /\ ChecksumBits \in Nat /\ PhraseWords \in Nat
      /\ WordBits * PhraseWords = SeedBits + ChecksumBits
  BY PhraseAssumption, PhraseLength
<1>4. Unlisted \in Nat
  BY PhraseAssumption, Pow2Facts DEF Unlisted
<1>5. Unlisted \notin ToSet(words) /\ Len(words) = PhraseWords
  BY <1>1, <1>3, <1>4 DEF ToSet
<1>6. SubSeq(bits, 1, SeedBits) = seed
  <2>1. bits \in Seq(0 .. 1) /\ Len(bits) = SeedBits + ChecksumBits
    BY <1>2, <1>3
  <2>2. SubSeq(bits, 1, SeedBits) = [i \in 1 .. SeedBits - 1 + 1 |-> bits[i + 1 - 1]]
    BY <1>3, <2>1
  <2>3. SeedBits - 1 + 1 = SeedBits /\ \A i \in 1 .. SeedBits : i + 1 - 1 = i
    BY <1>3
  <2>4. SubSeq(bits, 1, SeedBits) = [i \in 1 .. SeedBits |-> seed[i]]
    BY <1>2, <2>2, <2>3
  <2> QED
    BY <2>4
<1>7. ChecksumHolds(seed, bits)
  BY <1>2 DEF ChecksumHolds
<1>8. SeedFromMnemonic(MnemonicFromSeed(seed)) =
        CASE Unlisted \in ToSet(words) -> Refusal("word")
          [] Unlisted \notin ToSet(words) /\ Len(words) # PhraseWords ->
               Refusal(IF IsStandardPhrase(bits) THEN "standard" ELSE "length")
          [] Unlisted \notin ToSet(words) /\ Len(words) = PhraseWords /\ ~ChecksumHolds(SubSeq(bits, 1, SeedBits), bits) ->
               Refusal(IF IsStandardPhrase(bits) THEN "standard" ELSE "checksum")
          [] OTHER -> [ok |-> TRUE, why |-> "none", seed |-> SubSeq(bits, 1, SeedBits)]
  BY DEF SeedFromMnemonic, words, bits
<1> QED
  BY <1>5, <1>6, <1>7, <1>8

\* A phrase that restores a seed is that seed's phrase.
LEMMA PhraseReadsBack ==
  ASSUME NEW phrase \in Seq([word : 0 .. Unlisted, spelling : {"plain", "capitals"}]),
         SeedFromMnemonic(phrase).ok
  PROVE  Normalized(MnemonicFromSeed(SeedFromMnemonic(phrase).seed)) = Normalized(phrase)
<1> DEFINE words == Normalized(phrase)
           bits  == EnteredBits(words)
           seed  == SubSeq(bits, 1, SeedBits)
<1>1. words \in Seq(0 .. Unlisted)
  <2>1. ASSUME NEW i \in 1 .. Len(phrase) PROVE phrase[i].word \in 0 .. Unlisted
    <3> DEFINE R == [word : 0 .. Unlisted, spelling : {"plain", "capitals"}]
    <3>1. phrase \in Seq(R) /\ \A e \in R : e.word \in 0 .. Unlisted
      OBVIOUS
    <3> HIDE DEF R
    <3>2. phrase[i] \in R
      BY <3>1
    <3> QED
      BY <3>1, <3>2
  <2>2. words = [i \in 1 .. Len(phrase) |-> phrase[i].word] /\ Len(phrase) \in Nat
    BY DEF Normalized
  <2> HIDE DEF words
  <2> QED
    BY <2>1, <2>2
<1> HIDE DEF words, bits, seed
<1>2. SeedFromMnemonic(phrase) =
        CASE Unlisted \in ToSet(words) -> Refusal("word")
          [] Unlisted \notin ToSet(words) /\ Len(words) # PhraseWords ->
               Refusal(IF IsStandardPhrase(bits) THEN "standard" ELSE "length")
          [] Unlisted \notin ToSet(words) /\ Len(words) = PhraseWords /\ ~ChecksumHolds(seed, bits) ->
               Refusal(IF IsStandardPhrase(bits) THEN "standard" ELSE "checksum")
          [] OTHER -> [ok |-> TRUE, why |-> "none", seed |-> seed]
  BY DEF SeedFromMnemonic, words, bits, seed
<1>3. /\ Unlisted \notin ToSet(words) /\ Len(words) = PhraseWords /\ ChecksumHolds(seed, bits)
      /\ SeedFromMnemonic(phrase).seed = seed
  BY <1>2 DEF Refusal
<1>4. /\ SeedBits \in Nat /\ ChecksumBits \in Nat /\ PhraseWords \in Nat /\ Unlisted \in Nat
      /\ WordBits * PhraseWords = SeedBits + ChecksumBits
  BY PhraseAssumption, PhraseLength, Pow2Facts DEF Unlisted
<1>5. words \in [1 .. PhraseWords -> 0 .. Unlisted - 1]
  <2>1. ASSUME NEW i \in 1 .. PhraseWords PROVE words[i] \in 0 .. Unlisted /\ words[i] # Unlisted
    <3>1. words[i] \in 0 .. Unlisted /\ i \in DOMAIN words
      <4>1. words \in Seq(0 .. Unlisted) /\ i \in 1 .. Len(words)
        <5>1. Len(words) = PhraseWords
          BY <1>3
        <5> QED
          BY <1>1, <5>1
      <4> DEFINE U == 0 .. Unlisted
      <4> HIDE DEF U
      <4>2. words \in Seq(U) /\ i \in 1 .. Len(words)
        BY <4>1 DEF U
      <4>3. words[i] \in U /\ i \in DOMAIN words
        BY <4>2
      <4> QED
        BY <4>3 DEF U
    <3>2. words[i] \in ToSet(words)
      BY <3>1, Zenon DEF ToSet
    <3> QED
      BY <1>3, <3>1, <3>2
  <2>2. \A i \in 1 .. PhraseWords : words[i] \in 0 .. Unlisted - 1
    BY <1>4, <2>1
  <2>3. words = [i \in 1 .. PhraseWords |-> words[i]]
    BY <1>1, <1>3
  <2> QED
    BY <2>2, <2>3
<1>6. /\ bits \in [1 .. WordBits * PhraseWords -> 0 .. 1]
      /\ \A i \in 1 .. PhraseWords : FromBits(Part(bits, i)) = words[i]
  BY <1>4, <1>5, WordsOfBits DEF bits
<1>7. bits \in Seq(0 .. 1) /\ Len(bits) = SeedBits + ChecksumBits
  BY <1>4, <1>6
<1>8. seed = [i \in 1 .. SeedBits |-> bits[i]]
  <2>1. seed = [i \in 1 .. SeedBits - 1 + 1 |-> bits[i + 1 - 1]]
    BY <1>4, <1>7 DEF seed
  <2>2. SeedBits - 1 + 1 = SeedBits /\ \A i \in 1 .. SeedBits : i + 1 - 1 = i
    BY <1>4
  <2> QED
    BY <2>1, <2>2
<1>9. seed \in [1 .. SeedBits -> 0 .. 1]
  <2>1. \A i \in 1 .. SeedBits : bits[i] \in 0 .. 1
    BY <1>4, <1>6
  <2> QED
    BY <1>8, <2>1
<1> DEFINE whole == seed \o SubSeq(Digest(seed), 1, ChecksumBits)
<1>10. /\ whole \in [1 .. WordBits * PhraseWords -> 0 .. 1]
       /\ \A i \in 1 .. SeedBits : whole[i] = seed[i]
       /\ \A i \in 1 .. ChecksumBits : whole[SeedBits + i] = Digest(seed)[i]
  BY <1>9, SeedAndChecksum
<1> HIDE DEF whole
<1>11. whole = bits
  <2>1. ASSUME NEW k \in 1 .. SeedBits + ChecksumBits PROVE whole[k] = bits[k]
    <3>1. CASE k <= SeedBits
      BY <1>4, <1>8, <1>10, <3>1
    <3>2. CASE k > SeedBits
      <4>1. k - SeedBits \in 1 .. ChecksumBits /\ SeedBits + (k - SeedBits) = k
        BY <1>4, <3>2
      <4> QED
        BY <1>3, <1>10, <4>1 DEF ChecksumHolds
    <3> QED
      BY <1>4, <3>1, <3>2
  <2> QED
    BY <1>4, <1>6, <1>10, <2>1
<1>12. Normalized(MnemonicFromSeed(seed)) = [i \in 1 .. PhraseWords |-> FromBits(Part(whole, i))]
  BY <1>9, PhraseOfSeed DEF whole
<1>13. words = [i \in 1 .. PhraseWords |-> words[i]]
  BY <1>5
<1> QED
  BY <1>3, <1>6, <1>11, <1>12, <1>13 DEF words

\* The answer about a phrase or a seed is what the code makes of it.
PhraseAnswered ==
  /\ asked.codec = "phrase" =>
       /\ asked.phrase \in Seq([word : 0 .. Unlisted, spelling : {"plain", "capitals"}])
       /\ answer = SeedFromMnemonic(asked.phrase)
  /\ asked.codec = "seed" =>
       /\ asked.seed \in [1 .. SeedBits -> 0 .. 1]
       /\ answer = SeedFromMnemonic(MnemonicFromSeed(asked.seed))

\* The answer is the seed of the phrase asked about, in every state.
LEMMA PhrasesAnswered == PhraseSpec => []PhraseAnswered
<1>1. NothingAsked => PhraseAnswered
  BY DEF NothingAsked, PhraseAnswered
<1>2. ASSUME PhraseAnswered, [AskForPhrase \/ AnotherIsAsked({"phrase", "seed"})]_exchange
      PROVE  PhraseAnswered'
  <2>1. ASSUME NEW n \in 0 .. PhraseWords + 1, NEW spelling \in {"plain", "capitals"},
               NEW words \in [1 .. n -> 0 .. Unlisted],
               AskPhrase([i \in 1 .. n |-> [word |-> words[i], spelling |-> spelling]])
        PROVE  PhraseAnswered'
    <3> DEFINE phrase == [i \in 1 .. n |-> [word |-> words[i], spelling |-> spelling]]
    <3>1. n \in Nat
      BY PhraseLength
    <3>2. phrase \in Seq([word : 0 .. Unlisted, spelling : {"plain", "capitals"}])
      BY <3>1
    <3>3. asked' = [codec |-> "phrase", phrase |-> phrase] /\ answer' = SeedFromMnemonic(phrase)
      BY <2>1 DEF AskPhrase
    <3> HIDE DEF phrase
    <3> QED
      BY <3>2, <3>3 DEF PhraseAnswered
  <2>2. ASSUME NEW seed \in [1 .. SeedBits -> 0 .. 1], AskSeed(seed) PROVE PhraseAnswered'
    BY <2>2 DEF AskSeed, PhraseAnswered
  <2>3. CASE AnotherIsAsked({"phrase", "seed"})
    BY <2>3 DEF AnotherIsAsked, PhraseAnswered
  <2>4. CASE UNCHANGED exchange
    BY <1>2, <2>4 DEF exchange, PhraseAnswered
  <2> QED
    BY <1>2, <2>1, <2>2, <2>3, <2>4 DEF AskForPhrase
<1> QED
  BY <1>1, <1>2, PTL DEF PhraseSpec

\* The phrase of a seed restores it, and a phrase restores a seed only if it is
\* that seed's phrase (mnemonic_from_seed, seed_from_mnemonic): for any length
\* of seed, of checksum and of word, and whatever the digest.
THEOREM PhrasesRestore == PhraseSpec => []PhrasesReadBack
<1>1. ASSUME PhraseAnswered PROVE PhrasesReadBack
  <2>1. CASE asked.codec = "seed"
    <3>1. answer = [ok |-> TRUE, why |-> "none", seed |-> asked.seed]
      BY <1>1, <2>1, SeedReadsBack DEF PhraseAnswered
    <3> QED
      BY <2>1, <3>1 DEF PhrasesReadBack
  <2>2. CASE asked.codec = "phrase"
    <3>1. answer.ok => Normalized(MnemonicFromSeed(answer.seed)) = Normalized(asked.phrase)
      BY <1>1, <2>2, PhraseReadsBack DEF PhraseAnswered
    <3> QED
      BY <2>2, <3>1 DEF PhrasesReadBack
  <2>3. CASE asked.codec \notin {"phrase", "seed"}
    BY <2>3 DEF PhrasesReadBack
  <2> QED
    BY <2>1, <2>2, <2>3
<1> QED
  BY <1>1, PhrasesAnswered, PTL

-----------------------------------------------------------------------------
(* Numbers as texts.                                                         *)

DigitTexts == Seq(DOMAIN Numerals)

\* The digit of a count.
DigitOf(n) == CHOOSE c \in DOMAIN Numerals : Numerals[c] = n

\* A digit and what it counts tell each other.
LEMMA DigitFacts ==
  /\ Base \in Nat \ {0, 1} /\ WideMax \in Nat
  /\ \A c \in DOMAIN Numerals : Numerals[c] \in 0 .. Base - 1 /\ DigitOf(Numerals[c]) = c
  /\ \A n \in 0 .. Base - 1 : DigitOf(n) \in DOMAIN Numerals /\ Numerals[DigitOf(n)] = n
<1>1. Base \in Nat \ {0, 1} /\ WideMax \in Nat
  BY AnswerAssumption
<1>2. ASSUME NEW n \in 0 .. Base - 1 PROVE DigitOf(n) \in DOMAIN Numerals /\ Numerals[DigitOf(n)] = n
  <2>1. \E c \in DOMAIN Numerals : Numerals[c] = n
    BY AnswerAssumption
  <2> QED
    BY <2>1, Zenon DEF DigitOf
<1>3. ASSUME NEW c \in DOMAIN Numerals PROVE Numerals[c] \in 0 .. Base - 1 /\ DigitOf(Numerals[c]) = c
  <2>1. Numerals[c] \in 0 .. Base - 1
    BY AnswerAssumption
  <2>2. \A d \in DOMAIN Numerals : Numerals[c] = Numerals[d] => c = d
    BY AnswerAssumption
  <2> QED
    BY <1>2, <2>1, <2>2
<1> QED
  BY <1>1, <1>2, <1>3

\* What the digits of a text count.
Counts(text) == [i \in DOMAIN text |-> Numerals[text[i]]]

\* The digits of a text count numbers, one each.
LEMMA CountsType ==
  ASSUME NEW text \in DigitTexts
  PROVE  Counts(text) \in Seq(Nat) /\ Len(Counts(text)) = Len(text)
<1>1. \A i \in 1 .. Len(text) : text[i] \in DOMAIN Numerals
  BY DEF DigitTexts
<1>2. \A i \in 1 .. Len(text) : Numerals[text[i]] \in Nat
  <2>1. \A c \in DOMAIN Numerals : Numerals[c] \in Nat
    BY DigitFacts
  <2> QED
    BY <1>1, <2>1
<1>3. Counts(text) = [i \in 1 .. Len(text) |-> Numerals[text[i]]] /\ Len(text) \in Nat
  BY DEF Counts, DigitTexts
<1> QED
  BY <1>2, <1>3

\* A number grows by a digit.
LEMMA NumberGrows ==
  ASSUME NEW text \in DigitTexts, NEW c \in DOMAIN Numerals
  PROVE  /\ NumberOf(<<>>) = 0
         /\ NumberOf(text) \in Nat
         /\ NumberOf(Append(text, c)) = Base * NumberOf(text) + Numerals[c]
<1> DEFINE L == Len(text)
           more == Append(text, c)
           a == Counts(text)
           b == Counts(more)
           u == UpTo(Base, a)
           v == UpTo(Base, b)
<1>1. /\ L \in Nat /\ more \in DigitTexts /\ Len(more) = L + 1 /\ more[L + 1] = c
      /\ \A i \in 1 .. L : more[i] = text[i]
  BY DEF DigitTexts
<1>2. a \in Seq(Nat) /\ Len(a) = L /\ b \in Seq(Nat) /\ Len(b) = L + 1
  BY <1>1, CountsType
<1>3. b[L + 1] = Numerals[c] /\ \A i \in 1 .. L : b[i] = a[i]
  <2>1. DOMAIN text = 1 .. L /\ DOMAIN more = 1 .. L + 1
    BY <1>1 DEF DigitTexts
  <2> HIDE DEF more, L
  <2>2. \A i \in 1 .. L : a[i] = Numerals[text[i]]
    BY <2>1, Zenon DEF Counts
  <2>3. \A i \in 1 .. L + 1 : b[i] = Numerals[more[i]]
    BY <2>1, Zenon DEF Counts
  <2>4. L + 1 \in 1 .. L + 1 /\ \A i \in 1 .. L : i \in 1 .. L + 1
    BY <1>1
  <2> QED
    BY <1>1, <2>2, <2>3, <2>4, Zenon
<1>4. /\ \A k \in 0 .. L : u[k] \in Nat
      /\ u[0] = 0 /\ \A k \in 1 .. L : u[k] = Base * u[k - 1] + a[k]
      /\ v[0] = 0 /\ \A k \in 1 .. L + 1 : v[k] = Base * v[k - 1] + b[k]
  <2>1. Base \in Nat
    BY DigitFacts
  <2>2. /\ u \in [0 .. Len(a) -> Nat] /\ u[0] = 0
        /\ \A k \in 1 .. Len(a) : u[k] = Base * u[k - 1] + a[k]
    BY <2>1, <1>2, UpToRec, Zenon
  <2>3. v[0] = 0 /\ \A k \in 1 .. Len(b) : v[k] = Base * v[k - 1] + b[k]
    BY <2>1, <1>2, UpToRec, Zenon
  <2> HIDE DEF u, v, a, b
  <2> QED
    BY <1>2, <2>2, <2>3
<1>5. NumberOf(text) = u[L] /\ NumberOf(more) = v[L + 1]
  <2>1. NumberOf(text) = u[Len(a)] /\ NumberOf(more) = v[Len(b)]
    BY DEF NumberOf, ValueOf, Counts
  <2> HIDE DEF u, v, a, b
  <2> QED
    BY <1>2, <2>1
<1> HIDE DEF u, v, a, b
<1> DEFINE T == {k \in Nat : k <= L => v[k] = u[k]}
<1>6. 0 \in T
  BY <1>4
<1>7. ASSUME NEW k \in Nat, k \in T PROVE k + 1 \in T
  <2> SUFFICES ASSUME k + 1 <= L PROVE v[k + 1] = u[k + 1]
    OBVIOUS
  <2>1. v[k] = u[k] /\ k + 1 \in 1 .. L /\ k + 1 \in 1 .. L + 1 /\ (k + 1) - 1 = k
    BY <1>1, <1>7
  <2>2. v[k + 1] = Base * v[k] + b[k + 1] /\ u[k + 1] = Base * u[k] + a[k + 1] /\ b[k + 1] = a[k + 1]
    BY <1>3, <1>4, <2>1
  <2> QED
    BY <2>1, <2>2
<1> HIDE DEF T
<1>8. \A k \in Nat : k \in T
  BY <1>6, <1>7, StepInduction
<1>9. v[L] = u[L] /\ u[L] \in Nat
  BY <1>1, <1>4, <1>8 DEF T
<1>10. v[L + 1] = Base * v[L] + b[L + 1]
  BY <1>1, <1>4
<1>11. NumberOf(<<>>) = 0
  <2>1. <<>> \in DigitTexts /\ Len(<<>>) = 0
    BY DEF DigitTexts
  <2>2. Counts(<<>>) \in Seq(Nat) /\ Len(Counts(<<>>)) = 0
    BY <2>1, CountsType
  <2>3. UpTo(Base, Counts(<<>>))[0] = 0
    BY <2>2, DigitFacts, UpToRec
  <2> QED
    BY <2>2, <2>3 DEF NumberOf, ValueOf, Counts
<1> QED
  BY <1>3, <1>5, <1>9, <1>10, <1>11

\* The canonical text is the function its definition describes.
LEMMA DecimalRec ==
  \A n \in 0 .. WideMax :
    /\ Decimal[n] \in DigitTexts
    /\ Decimal[n] = IF n < Base THEN <<DigitOf(n % Base)>> ELSE Append(Decimal[n \div Base], DigitOf(n % Base))
<1> DEFINE G == [n \in Nat |-> [h \in [0 .. n - 1 -> DigitTexts] |->
                   IF n < Base THEN <<DigitOf(n % Base)>> ELSE Append(h[n \div Base], DigitOf(n % Base))]]
<1>1. Base \in Nat \ {0, 1} /\ WideMax \in Nat
  BY DigitFacts
<1>2. ASSUME NEW n \in Nat PROVE DigitOf(n % Base) \in DOMAIN Numerals /\ n \div Base \in Nat /\ (n >= Base => n \div Base \in 0 .. n - 1)
  <2> DEFINE q == n \div Base
             r == n % Base
  <2>1. q \in Nat /\ r \in 0 .. Base - 1 /\ n = q * Base + r
    BY <1>1, Quotient
  <2> HIDE DEF q, r
  <2>2. DigitOf(r) \in DOMAIN Numerals
    BY <2>1, DigitFacts
  <2>3. n >= Base => q < n
    <3> SUFFICES ASSUME n >= Base, n <= q PROVE FALSE
      BY <2>1
    <3>1. q * Base >= q * 2
      <4>1. PICK d \in Nat : Base = 2 + d
        <5>1. Base - 2 \in Nat /\ Base = 2 + (Base - 2)
          BY <1>1
        <5> QED
          BY <5>1
      <4>2. q * (2 + d) = q * 2 + q * d /\ q * d \in Nat
        BY <2>1
      <4> QED
        BY <2>1, <4>1, <4>2
    <3>2. q * Base \in Nat
      BY <1>1, <2>1
    <3> QED
      BY <1>1, <2>1, <3>1, <3>2
  <2> QED
    BY <2>1, <2>2, <2>3 DEF q, r
<1>3. Continues(G, DigitTexts)
  <2> SUFFICES ASSUME NEW n \in Nat, NEW h \in [0 .. n - 1 -> DigitTexts] PROVE G[n][h] \in DigitTexts
    BY DEF Continues
  <2>1. DigitOf(n % Base) \in DOMAIN Numerals
    BY <1>2
  <2>2. CASE n < Base
    <3>1. <<DigitOf(n % Base)>> \in DigitTexts
      BY <2>1 DEF DigitTexts
    <3> QED
      BY <2>2, <3>1
  <2>3. CASE ~(n < Base)
    <3>1. n >= Base
      BY <1>1, <2>3
    <3>2. h[n \div Base] \in DigitTexts
      BY <1>2, <3>1
    <3>3. Append(h[n \div Base], DigitOf(n % Base)) \in DigitTexts
      BY <2>1, <3>2, AppendProperties DEF DigitTexts
    <3> QED
      BY <2>3, <3>3
  <2> QED
    BY <2>2, <2>3
<1>4. PICK f \in [Nat -> DigitTexts] : Solves(f, G)
  <2> HIDE DEF G
  <2> QED
    BY <1>3, StrongRecursion
<1> DEFINE P == [n \in 0 .. WideMax |-> f[n]]
<1>5. ASSUME NEW n \in 0 .. WideMax
      PROVE  f[n] = IF n < Base THEN <<DigitOf(n % Base)>> ELSE Append(P[n \div Base], DigitOf(n % Base))
  <2>1. n \in Nat
    BY <1>1
  <2>2. Up(f, n) \in [0 .. n - 1 -> DigitTexts]
    BY <2>1 DEF Up
  <2>3. f[n] = IF n < Base THEN <<DigitOf(n % Base)>> ELSE Append(Up(f, n)[n \div Base], DigitOf(n % Base))
    <3>1. f[n] = G[n][Up(f, n)]
      BY <1>4, <2>1 DEF Solves
    <3> DEFINE X(h) == IF n < Base THEN <<DigitOf(n % Base)>> ELSE Append(h[n \div Base], DigitOf(n % Base))
    <3>2. G[n] = [h \in [0 .. n - 1 -> DigitTexts] |-> X(h)]
      BY <2>1, Zenon
    <3>3. G[n][Up(f, n)] = X(Up(f, n))
      BY <2>2, <3>2, Zenon
    <3> QED
      BY <3>1, <3>3, Zenon
  <2> HIDE DEF G
  <2>4. ~(n < Base) => Up(f, n)[n \div Base] = P[n \div Base]
    <3> SUFFICES ASSUME ~(n < Base) PROVE Up(f, n)[n \div Base] = P[n \div Base]
      OBVIOUS
    <3>1. n >= Base
      BY <1>1, <2>1
    <3>2. n \div Base \in 0 .. n - 1 /\ n \div Base \in 0 .. WideMax
      <4>1. n \div Base \in 0 .. n - 1
        BY <1>2, <2>1, <3>1
      <4> QED
        BY <4>1, <1>1
    <3>3. Up(f, n)[n \div Base] = f[n \div Base]
      BY <3>2, Zenon DEF Up
    <3> QED
      BY <3>2, <3>3, Zenon
  <2> HIDE DEF P
  <2> QED
    BY <2>3, <2>4, Zenon
<1> HIDE DEF G
<1>6. P = [n \in 0 .. WideMax |-> IF n < Base THEN <<DigitOf(n % Base)>> ELSE Append(P[n \div Base], DigitOf(n % Base))]
  BY <1>5, Zenon
<1> HIDE DEF P
<1> DEFINE E(p) == p = [n \in 0 .. WideMax |->
                          IF n < Base THEN <<DigitOf(n % Base)>> ELSE Append(p[n \div Base], DigitOf(n % Base))]
<1>7. Decimal = CHOOSE p : E(p)
  BY DEF Decimal, DigitOf
<1>8. E(P)
  BY <1>6
<1> HIDE DEF E
<1>9. E(Decimal)
  BY <1>7, <1>8, Zenon
<1>10. \A n \in 0 .. WideMax :
        Decimal[n] = IF n < Base THEN <<DigitOf(n % Base)>> ELSE Append(Decimal[n \div Base], DigitOf(n % Base))
  BY <1>9, Zenon DEF E
<1> DEFINE T == {n \in Nat : n <= WideMax => Decimal[n] \in DigitTexts}
<1>11. ASSUME NEW n \in Nat, \A m \in 0 .. n - 1 : m \in T PROVE n \in T
  <2> SUFFICES ASSUME n <= WideMax PROVE Decimal[n] \in DigitTexts
    OBVIOUS
  <2>1. n \in 0 .. WideMax /\ DigitOf(n % Base) \in DOMAIN Numerals
    BY <1>2
  <2>2. CASE n < Base
    <3>1. Decimal[n] = <<DigitOf(n % Base)>>
      BY <1>10, <2>1, <2>2, Zenon
    <3> QED
      BY <2>1, <3>1 DEF DigitTexts
  <2>3. CASE ~(n < Base)
    <3>1. Decimal[n] = Append(Decimal[n \div Base], DigitOf(n % Base))
      BY <1>10, <2>1, <2>3, Zenon
    <3>2. n >= Base
      BY <1>1, <2>3
    <3>3. n \div Base \in 0 .. n - 1
      BY <1>2, <3>2
    <3>4. n \div Base \in T /\ n \div Base <= WideMax
      BY <1>1, <1>11, <3>3
    <3>5. Decimal[n \div Base] \in DigitTexts
      BY <3>4
    <3> QED
      BY <2>1, <3>1, <3>5, AppendProperties DEF DigitTexts
  <2> QED
    BY <2>2, <2>3
<1> HIDE DEF T
<1>12. \A n \in Nat : n \in T
  BY <1>11, StrongInduction
<1>13. \A n \in 0 .. WideMax : Decimal[n] \in DigitTexts
  BY <1>1, <1>12 DEF T
<1> QED
  BY <1>10, <1>13

\* A text of one digit.
LEMMA OneDigit ==
  ASSUME NEW c \in DOMAIN Numerals
  PROVE  /\ <<c>> \in DigitTexts /\ Len(<<c>>) = 1 /\ <<c>>[1] = c
         /\ NumberOf(<<c>>) = Numerals[c] /\ Numerals[c] \in 0 .. Base - 1
<1>1. <<>> \in DigitTexts /\ <<c>> = Append(<<>>, c)
  BY DEF DigitTexts
<1>2. NumberOf(<<c>>) = Base * NumberOf(<<>>) + Numerals[c] /\ NumberOf(<<>>) = 0
  BY <1>1, NumberGrows
<1>3. Numerals[c] \in 0 .. Base - 1 /\ Base \in Nat
  BY DigitFacts
<1>4. <<c>> \in DigitTexts /\ Len(<<c>>) = 1 /\ <<c>>[1] = c
  BY DEF DigitTexts
<1> QED
  BY <1>2, <1>3, <1>4

\* A text of a digit more.
LEMMA OneDigitMore ==
  ASSUME NEW text \in DigitTexts, Len(text) >= 1, NEW c \in DOMAIN Numerals
  PROVE  /\ Append(text, c) \in DigitTexts /\ Len(Append(text, c)) = Len(text) + 1
         /\ Append(text, c)[1] = text[1]
  BY DEF DigitTexts

Canonical(text) == Len(text) >= 1 /\ (Len(text) > 1 => text[1] # "0")

\* The canonical text of a number is one, and reads as that number.
LEMMA DecimalReads ==
  \A n \in 0 .. WideMax : Canonical(Decimal[n]) /\ NumberOf(Decimal[n]) = n
<1>1. Base \in Nat \ {0, 1} /\ WideMax \in Nat /\ Numerals["0"] = 0
  BY DigitFacts, AnswerAssumption
<1> DEFINE Good(n) == /\ Canonical(Decimal[n]) /\ NumberOf(Decimal[n]) = n
                      /\ n >= 1 => Decimal[n][1] # "0"
           T == {n \in Nat : n <= WideMax => Good(n)}
<1>2. ASSUME NEW n \in Nat, \A m \in 0 .. n - 1 : m \in T PROVE n \in T
  <2> SUFFICES ASSUME n <= WideMax PROVE Good(n)
    OBVIOUS
  <2> DEFINE q == n \div Base
             r == n % Base
             c == DigitOf(r)
  <2>1. q \in Nat /\ r \in 0 .. Base - 1 /\ n = q * Base + r
    BY <1>1, Quotient
  <2>2. c \in DOMAIN Numerals /\ Numerals[c] = r
    BY <2>1, DigitFacts
  <2>3. Decimal[n] = IF n < Base THEN <<c>> ELSE Append(Decimal[q], c)
    <3>1. n \in 0 .. WideMax
      OBVIOUS
    <3> QED
      BY <3>1, DecimalRec
  <2> HIDE DEF q, r, c
  <2>4. CASE n < Base
    <3>1. q = 0
      <4> SUFFICES ASSUME q # 0 PROVE FALSE
        OBVIOUS
      <4>1. PICK d \in Nat : q = 1 + d
        <5>1. q - 1 \in Nat /\ q = 1 + (q - 1)
          BY <2>1
        <5> QED
          BY <5>1
      <4>2. q * Base = Base + d * Base /\ d * Base \in Nat
        BY <1>1, <4>1
      <4> QED
        BY <1>1, <2>1, <2>4, <4>2
    <3>2. n = r
      BY <1>1, <2>1, <3>1
    <3>3. Decimal[n] = <<c>>
      BY <2>3, <2>4
    <3>4. Len(<<c>>) = 1 /\ <<c>>[1] = c /\ NumberOf(<<c>>) = r
      BY <2>2, OneDigit
    <3>5. n >= 1 => c # "0"
      BY <1>1, <2>2, <3>2
    <3> QED
      BY <3>2, <3>3, <3>4, <3>5 DEF Canonical
  <2>5. CASE ~(n < Base)
    <3>1. q \in 1 .. n - 1
      <4>1. q # 0
        <5> SUFFICES ASSUME q = 0 PROVE FALSE
          OBVIOUS
        <5>1. n = r
          BY <1>1, <2>1
        <5> QED
          BY <1>1, <2>1, <2>5, <5>1
      <4>2. q < n
        <5>1. PICK d \in Nat : Base = 2 + d
          <6>1. Base - 2 \in Nat /\ Base = 2 + (Base - 2)
            BY <1>1
          <6> QED
            BY <6>1
        <5>2. q * (2 + d) = q * 2 + q * d /\ q * d \in Nat
          BY <2>1, <5>1
        <5>3. n = q * 2 + q * d + r
          BY <2>1, <5>1, <5>2
        <5> QED
          BY <2>1, <4>1, <5>2, <5>3
      <4> QED
        BY <2>1, <4>1, <4>2
    <3>2. Good(q)
      <4>1. q \in T /\ q <= WideMax
        BY <1>1, <1>2, <3>1
      <4> QED
        BY <4>1
    <3>3. Decimal[q] \in DigitTexts
      <4>1. q \in 0 .. WideMax
        BY <1>1, <3>1
      <4> QED
        BY <4>1, DecimalRec
    <3>4. Decimal[n] = Append(Decimal[q], c)
      BY <2>3, <2>5
    <3>5. Decimal[q][1] # "0" /\ Len(Decimal[q]) >= 1
      BY <3>1, <3>2 DEF Canonical
    <3>6. Len(Decimal[n]) = Len(Decimal[q]) + 1 /\ Decimal[n][1] = Decimal[q][1]
      BY <2>2, <3>3, <3>4, <3>5, OneDigitMore
    <3>7. NumberOf(Decimal[n]) = Base * NumberOf(Decimal[q]) + Numerals[c]
      BY <2>2, <3>3, <3>4, NumberGrows
    <3>8. Base * q = q * Base
      BY <1>1, <2>1
    <3>9. NumberOf(Decimal[n]) = n
      BY <2>1, <2>2, <3>2, <3>7, <3>8
    <3>10. Len(Decimal[q]) \in Nat
      BY <3>3 DEF DigitTexts
    <3> QED
      BY <3>5, <3>6, <3>9, <3>10 DEF Canonical
  <2> QED
    BY <2>4, <2>5
<1> HIDE DEF T
<1>3. \A n \in Nat : n \in T
  BY <1>2, StrongInduction
<1> QED
  BY <1>1, <1>3 DEF T

\* A canonical text is that of the number it reads as.
LEMMA CanonicalIsDecimal ==
  ASSUME NEW text \in DigitTexts, Canonical(text), NumberOf(text) <= WideMax
  PROVE  NumberOf(text) \in 0 .. WideMax /\ Decimal[NumberOf(text)] = text
<1>1. Base \in Nat \ {0, 1} /\ WideMax \in Nat
  BY DigitFacts
<1> DEFINE Good(t) == /\ t[1] # "0" => NumberOf(t) >= 1
                      /\ Canonical(t) /\ NumberOf(t) <= WideMax => Decimal[NumberOf(t)] = t
           T == {l \in Nat : \A t \in DigitTexts : Len(t) = l + 1 => Good(t)}
<1>2. ASSUME NEW t \in DigitTexts, Len(t) = 1 PROVE Good(t)
  <2> DEFINE c == t[1]
  <2>1. c \in DOMAIN Numerals /\ t = <<c>>
    <3> DEFINE D == DOMAIN Numerals
    <3>1. t \in Seq(D) /\ Len(t) = 1
      BY <1>2 DEF DigitTexts
    <3> HIDE DEF D
    <3>2. c \in D /\ t = <<c>>
      BY <3>1
    <3> QED
      BY <3>2 DEF D
  <2> HIDE DEF c
  <2>2. NumberOf(t) = Numerals[c] /\ Numerals[c] \in 0 .. Base - 1
    BY <2>1, OneDigit
  <2>3. DigitOf(Numerals[c]) = c /\ \A d \in DOMAIN Numerals : Numerals[d] = 0 => d = "0"
    BY <2>1, DigitFacts, AnswerAssumption
  <2>4. c # "0" => NumberOf(t) >= 1
    BY <2>1, <2>2, <2>3, <1>1
  <2>5. ASSUME NumberOf(t) <= WideMax PROVE Decimal[NumberOf(t)] = t
    <3> DEFINE n == NumberOf(t)
    <3>1. n \in 0 .. WideMax /\ n < Base /\ n % Base = n
      <4>1. n = 0 * Base + n /\ n \in Nat /\ n < Base /\ 0 \in Nat
        BY <1>1, <2>2
      <4> HIDE DEF n
      <4>2. n % Base = n
        BY <1>1, <4>1, Quotient
      <4> QED
        BY <1>1, <2>5, <4>1, <4>2 DEF n
    <3>2. Decimal[n] = <<DigitOf(n % Base)>>
      BY <3>1, DecimalRec
    <3> QED
      BY <2>1, <2>2, <2>3, <3>1, <3>2
  <2> QED
    BY <2>4, <2>5 DEF c
<1>3. 0 \in T
  BY <1>2
<1>4. ASSUME NEW l \in Nat, l \in T PROVE l + 1 \in T
  <2> SUFFICES ASSUME NEW t \in DigitTexts, Len(t) = (l + 1) + 1 PROVE Good(t)
    OBVIOUS
  <2> DEFINE h == SubSeq(t, 1, l + 1)
             c == t[l + 2]
  <2>1. c \in DOMAIN Numerals /\ h \in DigitTexts /\ Len(h) = l + 1 /\ t = Append(h, c) /\ h[1] = t[1]
    BY DEF DigitTexts
  <2> HIDE DEF h, c
  <2>2. Good(h)
    <3>1. \A x \in DigitTexts : Len(x) = l + 1 => Good(x)
      BY <1>4
    <3> QED
      BY <2>1, <3>1, Zenon
  <2>3. NumberOf(t) = Base * NumberOf(h) + Numerals[c] /\ NumberOf(h) \in Nat
    BY <2>1, NumberGrows
  <2>4. Numerals[c] \in 0 .. Base - 1 /\ DigitOf(Numerals[c]) = c
    BY <2>1, DigitFacts
  <2> DEFINE n == NumberOf(t)
             q == NumberOf(h)
             r == Numerals[c]
  <2> HIDE DEF n, q, r
  <2>5. n = q * Base + r /\ q \in Nat /\ r \in 0 .. Base - 1
    BY <1>1, <2>3, <2>4 DEF n, q, r
  <2>6. q >= 1 => n >= Base
    <3> SUFFICES ASSUME q >= 1 PROVE n >= Base
      OBVIOUS
    <3>1. q - 1 \in Nat /\ q * Base = (q - 1) * Base + Base /\ (q - 1) * Base \in Nat
      BY <1>1, <2>5
    <3> QED
      BY <1>1, <2>5, <3>1
  <2>7. t[1] # "0" => n >= Base
    BY <2>1, <2>2, <2>6 DEF q
  <2>8. ASSUME t[1] # "0", n <= WideMax PROVE Decimal[n] = t
    <3>1. n \in 0 .. WideMax /\ ~(n < Base)
      BY <1>1, <2>5, <2>7, <2>8
    <3>2. n \div Base = q /\ n % Base = r
      <4>1. n \in Nat /\ r < Base /\ r \in Nat
        BY <1>1, <2>5, <3>1
      <4> QED
        BY <1>1, <2>5, <4>1, Quotient
    <3>3. Decimal[n] = Append(Decimal[q], DigitOf(r))
      <4>1. Decimal[n] = Append(Decimal[n \div Base], DigitOf(n % Base))
        BY <3>1, DecimalRec
      <4> QED
        BY <3>2, <4>1
    <3>4. q <= WideMax
      <4>1. q <= q * Base
        <5>1. PICK d \in Nat : Base = 1 + d
          <6>1. Base - 1 \in Nat /\ Base = 1 + (Base - 1)
            BY <1>1
          <6> QED
            BY <6>1
        <5>2. q * (1 + d) = q + q * d /\ q * d \in Nat
          BY <2>5, <5>1
        <5> QED
          BY <2>5, <5>1, <5>2
      <4>2. q * Base \in Nat
        BY <1>1, <2>5
      <4> QED
        BY <1>1, <2>5, <2>8, <4>1, <4>2
    <3>5. Canonical(h)
      BY <2>1, <2>8 DEF Canonical
    <3>6. Decimal[q] = h
      BY <2>2, <3>4, <3>5 DEF q
    <3> QED
      BY <2>1, <2>4, <3>3, <3>6 DEF r
  <2>9. Canonical(t) => t[1] # "0"
    BY DEF Canonical
  <2> QED
    BY <1>1, <2>5, <2>7, <2>8, <2>9 DEF n
<1> HIDE DEF T
<1>5. \A l \in Nat : l \in T
  BY <1>3, <1>4, StepInduction
<1>6. Len(text) - 1 \in Nat /\ Len(text) = (Len(text) - 1) + 1
  BY DEF Canonical, DigitTexts
<1>7. Good(text)
  BY <1>5, <1>6 DEF T
<1>8. NumberOf(text) \in Nat
  <2>1. 0 \in 0 .. Base - 1
    BY <1>1
  <2> QED
    BY <2>1, DigitFacts, NumberGrows
<1> QED
  BY <1>1, <1>7, <1>8

-----------------------------------------------------------------------------
(* What the readers of fields read.                                          *)

AtMostOne(S) == \A x, y \in S : x = y

\* At most one reading is a set of one or none.
LEMMA AtMostOneSize ==
  ASSUME NEW S, AtMostOne(S)
  PROVE  Cardinality(S) <= 1
<1>1. CASE S = {}
  BY <1>1, FS_EmptySet
<1>2. CASE S # {}
  <2>1. PICK x \in S : TRUE
    BY <1>2
  <2>2. S = {x}
    BY <2>1 DEF AtMostOne
  <2> QED
    <3>1. Cardinality({x}) = 1
      BY FS_Singleton
    <3>2. Cardinality(S) = 1
      BY <2>2, <3>1, Zenon
    <3> QED
      BY <3>2
<1> QED
  BY <1>1, <1>2

\* A field of a type is read if it is there.
LEMMA TypedReads ==
  ASSUME NEW o, NEW key, NEW type, IsEntry(o[key])
  PROVE  /\ AtMostOne(Typed(o, key, type))
         /\ \A v \in Typed(o, key, type) : o[key] = <<type, v>>
         /\ \A v : o[key] = <<type, v>> => Typed(o, key, type) = {v}
         /\ o[key][1] = type => Typed(o, key, type) # {}
<1> DEFINE e == o[key]
<1>1. e = <<e[1], e[2]>>
  BY DEF IsEntry
<1>2. Typed(o, key, type) = {v[2] : v \in {w \in {e} : w[1] = type}}
  BY DEF Typed
<1> HIDE DEF e
<1>3. \A v : v \in Typed(o, key, type) <=> e[1] = type /\ v = e[2]
  BY <1>2
<1>4. ASSUME NEW v, e = <<type, v>> PROVE Typed(o, key, type) = {v}
  BY <1>3, <1>4
<1>5. \A v \in Typed(o, key, type) : e = <<type, v>>
  BY <1>1, <1>3
<1>6. AtMostOne(Typed(o, key, type))
  BY <1>3 DEF AtMostOne
<1> QED
  BY <1>3, <1>4, <1>5, <1>6 DEF e

\* A field of text.
LEMMA StrReads ==
  ASSUME NEW o, NEW key, IsEntry(o[key])
  PROVE  /\ AtMostOne(FieldStr(o, key))
         /\ \A v \in FieldStr(o, key) : o[key] = <<"str", v>> /\ v \in Seq(STRING)
         /\ \A v : o[key] = <<"str", v>> => FieldStr(o, key) = {v}
         /\ o[key][1] = "str" => FieldStr(o, key) # {}
<1>1. \A v : o[key] = <<"str", v>> => v \in Seq(STRING)
  BY DEF IsEntry
<1> QED
  BY <1>1, TypedReads DEF FieldStr

\* A text that is a number.
LEMMA WholeReads ==
  ASSUME NEW text \in Seq(STRING)
  PROVE  /\ AtMostOne(WholeNumber(text))
         /\ \A n \in WholeNumber(text) : /\ n = NumberOf(text) /\ n \in 0 .. WideMax
                                         /\ text \in DigitTexts /\ Len(text) >= 1
<1>1. AtMostOne(WholeNumber(text)) /\ \A n \in WholeNumber(text) :
        n = NumberOf(text) /\ text # <<>> /\ ToSet(text) \subseteq DOMAIN Numerals /\ NumberOf(text) <= WideMax
  BY DEF WholeNumber, AtMostOne
<1>2. ASSUME ToSet(text) \subseteq DOMAIN Numerals PROVE text \in DigitTexts
  <2>1. \A i \in DOMAIN text : text[i] \in ToSet(text)
    BY Zenon DEF ToSet
  <2>2. Len(text) \in Nat /\ DOMAIN text = 1 .. Len(text) /\ text = [i \in 1 .. Len(text) |-> text[i]]
    OBVIOUS
  <2>3. \A i \in 1 .. Len(text) : text[i] \in DOMAIN Numerals
    BY <1>2, <2>1, <2>2
  <2> QED
    BY <2>2, <2>3 DEF DigitTexts
<1>3. ASSUME text \in DigitTexts PROVE NumberOf(text) \in Nat
  <2>1. 0 \in 0 .. Base - 1
    BY DigitFacts
  <2> QED
    BY <1>3, <2>1, DigitFacts, NumberGrows
<1>4. text # <<>> => Len(text) >= 1
  OBVIOUS
<1> QED
  BY <1>1, <1>2, <1>3, <1>4, DigitFacts

\* The canonical text of a number is read, and only such a text.
LEMMA CanonicalReads ==
  /\ \A text \in Seq(STRING) :
       /\ AtMostOne(CanonicalDecimal(text))
       /\ \A n \in CanonicalDecimal(text) : n \in 0 .. WideMax /\ text = Decimal[n]
  /\ \A n \in 0 .. WideMax :
       /\ Decimal[n] \in Seq(STRING)
       /\ WholeNumber(Decimal[n]) = {n} /\ CanonicalDecimal(Decimal[n]) = {n}
<1>1. ASSUME NEW text \in Seq(STRING)
      PROVE  /\ AtMostOne(CanonicalDecimal(text))
             /\ \A n \in CanonicalDecimal(text) : n \in 0 .. WideMax /\ text = Decimal[n]
  <2>1. \/ CanonicalDecimal(text) = {}
        \/ CanonicalDecimal(text) = WholeNumber(text) /\ ~(Len(text) > 1 /\ text[1] = "0")
    BY DEF CanonicalDecimal
  <2>2. ASSUME NEW n \in WholeNumber(text), ~(Len(text) > 1 /\ text[1] = "0")
        PROVE  n \in 0 .. WideMax /\ text = Decimal[n]
    <3>1. n = NumberOf(text) /\ n \in 0 .. WideMax /\ text \in DigitTexts /\ Len(text) >= 1
      BY WholeReads
    <3>2. Canonical(text)
      BY <2>2, <3>1 DEF Canonical
    <3>3. NumberOf(text) <= WideMax
      BY <3>1
    <3> QED
      BY <3>1, <3>2, <3>3, CanonicalIsDecimal
  <2> QED
    BY <2>1, <2>2, WholeReads DEF AtMostOne
<1>2. ASSUME NEW n \in 0 .. WideMax
      PROVE  /\ Decimal[n] \in Seq(STRING)
             /\ WholeNumber(Decimal[n]) = {n} /\ CanonicalDecimal(Decimal[n]) = {n}
  <2> DEFINE t == Decimal[n]
             D == DOMAIN Numerals
  <2>1. t \in Seq(D) /\ Canonical(t) /\ NumberOf(t) = n /\ D \subseteq STRING
    BY DecimalRec, DecimalReads, AnswerAssumption DEF DigitTexts
  <2> HIDE DEF t, D
  <2>2. t \in Seq(STRING)
    <3>1. Len(t) \in Nat /\ t = [i \in 1 .. Len(t) |-> t[i]] /\ \A i \in 1 .. Len(t) : t[i] \in D
      BY <2>1
    <3> DEFINE S == STRING
    <3>2. D \subseteq S
      BY <2>1
    <3> HIDE DEF S
    <3>3. t \in Seq(S)
      BY <3>1, <3>2
    <3> QED
      BY <3>3 DEF S
  <2>3. t # <<>> /\ ToSet(t) \subseteq D
    <3>1. \A i \in DOMAIN t : t[i] \in D
      BY <2>1
    <3> QED
      BY <2>1, <3>1 DEF ToSet, Canonical
  <2>4. WholeNumber(t) = {n}
    BY <2>1, <2>3, DigitFacts DEF WholeNumber, D
  <2>5. CanonicalDecimal(t) = {n}
    BY <2>1, <2>4 DEF CanonicalDecimal, Canonical
  <2> QED
    BY <2>2, <2>4, <2>5 DEF t
<1> QED
  BY <1>1, <1>2

\* A field of a number as text.
LEMMA U128Reads ==
  ASSUME NEW o, NEW key, IsEntry(o[key])
  PROVE  /\ AtMostOne(FieldU128(o, key))
         /\ FieldU128(o, key) \subseteq 0 .. WideMax
         /\ \A n : SaysNumber(o, key, n) => FieldU128(o, key) = {n}
<1>1. /\ AtMostOne(FieldStr(o, key))
      /\ \A v \in FieldStr(o, key) : v \in Seq(STRING)
      /\ \A v : o[key] = <<"str", v>> => FieldStr(o, key) = {v}
  BY StrReads
<1>2. \A n : n \in FieldU128(o, key) <=> \E text \in FieldStr(o, key) : n \in WholeNumber(text)
  BY DEF FieldU128
<1>3. FieldU128(o, key) \subseteq 0 .. WideMax
  BY <1>1, <1>2, WholeReads
<1>4. AtMostOne(FieldU128(o, key))
  BY <1>1, <1>2, WholeReads DEF AtMostOne
<1>5. ASSUME NEW n, SaysNumber(o, key, n) PROVE FieldU128(o, key) = {n}
  <2>1. n \in 0 .. WideMax /\ FieldStr(o, key) = {Decimal[n]}
    BY <1>1, <1>5 DEF SaysNumber
  <2>2. WholeNumber(Decimal[n]) = {n}
    BY <2>1, CanonicalReads
  <2> QED
    BY <1>2, <2>1, <2>2
<1> QED
  BY <1>3, <1>4, <1>5

\* The same, in the one form that is taken for a slot and a stake.
LEMMA DigitsRead ==
  ASSUME NEW o, NEW key, IsEntry(o[key])
  PROVE  /\ AtMostOne(FieldDigits(o, key))
         /\ \A n \in FieldDigits(o, key) : SaysNumber(o, key, n)
         /\ \A n : SaysWord(o, key, n) => FieldDigits(o, key) = {n}
<1>1. /\ AtMostOne(FieldStr(o, key))
      /\ \A v \in FieldStr(o, key) : o[key] = <<"str", v>> /\ v \in Seq(STRING)
      /\ \A v : o[key] = <<"str", v>> => FieldStr(o, key) = {v}
  BY StrReads
<1>2. \A n : n \in FieldDigits(o, key) <=>
               n <= WordMax /\ \E text \in FieldStr(o, key) : n \in CanonicalDecimal(text)
  BY DEF FieldDigits
<1>3. ASSUME NEW n \in FieldDigits(o, key) PROVE SaysNumber(o, key, n)
  <2>1. PICK text \in FieldStr(o, key) : n \in CanonicalDecimal(text)
    BY <1>2, <1>3
  <2>2. n \in 0 .. WideMax /\ text = Decimal[n]
    BY <1>1, <2>1, CanonicalReads
  <2> QED
    BY <1>1, <2>2 DEF SaysNumber
<1>4. AtMostOne(FieldDigits(o, key))
  BY <1>1, <1>2, CanonicalReads DEF AtMostOne
<1>5. ASSUME NEW n, SaysWord(o, key, n) PROVE FieldDigits(o, key) = {n}
  <2>1. n \in 0 .. WideMax /\ n <= WordMax /\ FieldStr(o, key) = {Decimal[n]}
    BY <1>1, <1>5 DEF SaysNumber, SaysWord
  <2>2. CanonicalDecimal(Decimal[n]) = {n}
    BY <2>1, CanonicalReads
  <2> QED
    BY <1>2, <2>1, <2>2
<1> QED
  BY <1>3, <1>4, <1>5

\* A price that may be left out.
LEMMA PriceReads ==
  ASSUME NEW o, NEW key, IsEntry(o[key])
  PROVE  /\ AtMostOne(OptionalU128(o, key))
         /\ NoValue \in OptionalU128(o, key) => o[key] \in {Missing, Null}
         /\ \A n : SaysPrice(o, key, n) => OptionalU128(o, key) = {n}
<1>1. /\ AtMostOne(FieldU128(o, key))
      /\ FieldU128(o, key) \subseteq 0 .. WideMax
      /\ \A n : SaysNumber(o, key, n) => FieldU128(o, key) = {n}
  BY U128Reads
<1>2. CASE o[key] \in {Missing, Null}
  <2>1. OptionalU128(o, key) = {NoValue}
    BY <1>2 DEF OptionalU128
  <2>2. \A n : ~SaysNumber(o, key, n)
    BY <1>2 DEF SaysNumber, Missing, Null
  <2>3. \A n : SaysPrice(o, key, n) => n = NoValue
    BY <2>2 DEF SaysPrice
  <2> QED
    BY <1>2, <2>1, <2>3 DEF AtMostOne
<1>3. CASE o[key] \notin {Missing, Null}
  <2>1. OptionalU128(o, key) = FieldU128(o, key)
    BY <1>3 DEF OptionalU128
  <2>2. \A n : SaysPrice(o, key, n) => SaysNumber(o, key, n)
    BY <1>3 DEF SaysPrice
  <2>3. NoValue \notin 0 .. WideMax
    BY DEF NoValue
  <2> QED
    BY <1>1, <2>1, <2>2, <2>3
<1> QED
  BY <1>2, <1>3

\* A hash.
LEMMA HashReads ==
  ASSUME NEW o, NEW key, IsEntry(o[key])
  PROVE  /\ AtMostOne(FieldHash(o, key))
         /\ \A h \in FieldHash(o, key) : o[key] = <<"str", h>>
         /\ \A h \in HashTexts : o[key] = <<"str", h>> => FieldHash(o, key) = {h}
<1>1. /\ AtMostOne(FieldStr(o, key))
      /\ \A v \in FieldStr(o, key) : o[key] = <<"str", v>>
      /\ \A v : o[key] = <<"str", v>> => FieldStr(o, key) = {v}
  BY StrReads
<1>2. \A h : h \in FieldHash(o, key) <=> h \in FieldStr(o, key) /\ h \in HashTexts
  BY DEF FieldHash
<1> QED
  BY <1>1, <1>2 DEF AtMostOne

\* A list of which every item is read.
LEMMA AllReads ==
  ASSUME NEW readings
  PROVE  /\ AtMostOne(AllRead(readings))
         /\ \A s \in AllRead(readings) :
              /\ s = [i \in DOMAIN readings |-> s[i]]
              /\ \A i \in DOMAIN readings : s[i] \in readings[i]
         /\ \A m : (\A i \in DOMAIN readings : readings[i] = {m[i]}) =>
                     AllRead(readings) = {[i \in DOMAIN readings |-> m[i]]}
<1> DEFINE all == [i \in DOMAIN readings |-> CHOOSE r \in readings[i] : TRUE]
<1>1. AllRead(readings) = IF {} \in ToSet(readings) THEN {} ELSE {all}
  BY DEF AllRead
<1>2. {} \in ToSet(readings) <=> \E i \in DOMAIN readings : readings[i] = {}
  BY DEF ToSet
<1>3. AtMostOne(AllRead(readings))
  BY <1>1 DEF AtMostOne
<1>4. ASSUME {} \notin ToSet(readings), NEW i \in DOMAIN readings PROVE all[i] \in readings[i]
  <2>1. readings[i] # {}
    BY <1>2, <1>4
  <2>2. \E r \in readings[i] : TRUE
    BY <2>1
  <2>3. (CHOOSE r \in readings[i] : TRUE) \in readings[i]
    BY <2>2, Zenon
  <2> QED
    BY <2>3
<1>5. ASSUME NEW m, \A i \in DOMAIN readings : readings[i] = {m[i]}
      PROVE  AllRead(readings) = {[i \in DOMAIN readings |-> m[i]]}
  <2>1. {} \notin ToSet(readings)
    <3>1. \A i \in DOMAIN readings : readings[i] # {}
      BY <1>5
    <3> QED
      BY <1>2, <3>1, Zenon
  <2>2. \A i \in DOMAIN readings : all[i] = m[i]
    BY <1>4, <1>5, <2>1
  <2>3. all = [i \in DOMAIN readings |-> all[i]]
    OBVIOUS
  <2> HIDE DEF all
  <2>4. all = [i \in DOMAIN readings |-> m[i]]
    BY <2>2, <2>3
  <2> QED
    BY <1>1, <2>1, <2>4
<1>6. all = [i \in DOMAIN readings |-> all[i]]
  OBVIOUS
<1> HIDE DEF all
<1>7. \A s \in AllRead(readings) : s = all /\ {} \notin ToSet(readings)
  BY <1>1
<1> QED
  BY <1>3, <1>4, <1>5, <1>6, <1>7

-----------------------------------------------------------------------------
(* What the readers of objects read.                                         *)

\* The fees of a node: one reading, and of what is said the one said.
LEMMA PricesRead ==
  ASSUME NEW o, HasEntries(o, {"transfer_quon", "deploy_fee_quon", "rate_micro_usd_per_qtov", "quon_per_qtov"})
  PROVE  /\ AtMostOne(Prices(o))
         /\ \A r \in Prices(o) : r.deploy = NoValue => o["deploy_fee_quon"] \in {Missing, Null}
         /\ \A m : SaysFee(o, m) => Prices(o) = {m}
<1> DEFINE A == FieldU128(o, "transfer_quon")
           B == OptionalU128(o, "deploy_fee_quon")
           C == OptionalU128(o, "rate_micro_usd_per_qtov")
           D == OptionalU128(o, "quon_per_qtov")
<1>1. /\ IsEntry(o["transfer_quon"]) /\ IsEntry(o["deploy_fee_quon"])
      /\ IsEntry(o["rate_micro_usd_per_qtov"]) /\ IsEntry(o["quon_per_qtov"])
  BY DEF HasEntries
<1>2. /\ AtMostOne(A) /\ AtMostOne(B) /\ AtMostOne(C) /\ AtMostOne(D)
      /\ NoValue \in B => o["deploy_fee_quon"] \in {Missing, Null}
  BY <1>1, U128Reads, PriceReads
<1>3. ASSUME NEW m, SaysFee(o, m)
      PROVE  /\ m = [transfer |-> m.transfer, deploy |-> m.deploy, rate |-> m.rate, unit |-> m.unit]
             /\ A = {m.transfer} /\ B = {m.deploy} /\ C = {m.rate} /\ D = {m.unit}
  BY <1>1, <1>3, U128Reads, PriceReads DEF SaysFee
<1>4. Prices(o) = {[transfer |-> t, deploy |-> d, rate |-> r, unit |-> u] : t \in A, d \in B, r \in C, u \in D}
  BY DEF Prices
<1> HIDE DEF A, B, C, D
<1>5. AtMostOne(Prices(o)) /\ \A r \in Prices(o) : r.deploy \in B
  BY <1>2, <1>4 DEF AtMostOne
<1>6. ASSUME NEW m, SaysFee(o, m) PROVE Prices(o) = {m}
  BY <1>3, <1>4, <1>6
<1> QED
  BY <1>2, <1>5, <1>6

\* What a node is: one reading, and of what is said the one said.
LEMMA InfoRead ==
  ASSUME NEW o, IsReply("info", o)
  PROVE  /\ AtMostOne(ParseNodeInfo(o))
         /\ \A r \in ParseNodeInfo(o) :
              /\ o["protocol"] = <<"int", Protocol>>
              /\ r.fee.deploy = NoValue => o["fee"][2]["deploy_fee_quon"] \in {Missing, Null}
         /\ \A m : SaysInfo(o, m) => ParseNodeInfo(o) = {m}
<1> DEFINE A == FieldStr(o, "chain_id")
           B == FieldStr(o, "genesis_hash")
           C == FieldU64(o, "head_height")
           D == FieldStr(o, "shown")
           E == GatewayProtocol(o)
           F == UNION {Prices(fees) : fees \in Typed(o, "fee", "obj")}
<1>1. /\ IsEntry(o["chain_id"]) /\ IsEntry(o["genesis_hash"]) /\ IsEntry(o["head_height"])
      /\ IsEntry(o["shown"]) /\ IsEntry(o["protocol"]) /\ IsEntry(o["fee"])
      /\ o["fee"][1] = "obj" =>
           HasEntries(o["fee"][2], {"transfer_quon", "deploy_fee_quon", "rate_micro_usd_per_qtov", "quon_per_qtov"})
  BY DEF IsReply, HasEntries
<1>2. AtMostOne(A) /\ AtMostOne(B) /\ AtMostOne(C) /\ AtMostOne(D)
  BY <1>1, TypedReads, StrReads DEF FieldU64
<1>3. \A p \in E : p = Protocol /\ o["protocol"] = <<"int", Protocol>>
  BY <1>1, TypedReads DEF GatewayProtocol, FieldU64
<1>4. \A f : f \in F <=> o["fee"][1] = "obj" /\ f \in Prices(o["fee"][2])
  <2>1. \A fees : fees \in Typed(o, "fee", "obj") <=> o["fee"][1] = "obj" /\ fees = o["fee"][2]
    <3>1. \A fees \in Typed(o, "fee", "obj") : o["fee"] = <<"obj", fees>>
      BY <1>1, TypedReads
    <3>2. o["fee"] = <<o["fee"][1], o["fee"][2]>>
      BY <1>1 DEF IsEntry
    <3>3. \A fees : o["fee"] = <<"obj", fees>> => Typed(o, "fee", "obj") = {fees}
      BY <1>1, TypedReads
    <3> QED
      BY <3>1, <3>2, <3>3
  <2> QED
    BY <2>1
<1>5. /\ AtMostOne(F)
      /\ \A f \in F : f.deploy = NoValue => o["fee"][2]["deploy_fee_quon"] \in {Missing, Null}
  BY <1>1, <1>4, PricesRead DEF AtMostOne
<1>6. ASSUME NEW m, SaysInfo(o, m)
      PROVE  /\ m = [chain |-> m.chain, genesis |-> m.genesis, head |-> m.head, shown |-> m.shown,
                     protocol |-> Protocol, fee |-> m.fee]
             /\ A = {m.chain} /\ B = {m.genesis} /\ C = {m.head} /\ D = {m.shown}
             /\ E = {Protocol} /\ F = {m.fee}
  <2>1. A = {m.chain} /\ B = {m.genesis} /\ D = {m.shown}
    <3>1. /\ o["chain_id"] = <<"str", m.chain>> /\ o["genesis_hash"] = <<"str", m.genesis>>
          /\ o["shown"] = <<"str", m.shown>>
      BY <1>6 DEF SaysInfo
    <3> DEFINE ReadsAs(key, v) == IsEntry(o[key]) /\ o[key] = <<"str", v>>
    <3>2. \A key, v : ReadsAs(key, v) => FieldStr(o, key) = {v}
      BY StrReads
    <3>3. /\ ReadsAs("chain_id", m.chain) /\ ReadsAs("genesis_hash", m.genesis)
          /\ ReadsAs("shown", m.shown)
      BY <1>1, <3>1
    <3> HIDE DEF ReadsAs
    <3>4. A = {m.chain} /\ B = {m.genesis} /\ D = {m.shown}
      BY <3>2, <3>3
    <3> QED
      BY <3>4
  <2>2. C = {m.head} /\ FieldU64(o, "protocol") = {Protocol}
    BY <1>1, <1>6, TypedReads DEF SaysInfo, FieldU64
  <2>3. E = {Protocol}
    BY <2>2 DEF GatewayProtocol
  <2>4. o["fee"][1] = "obj" /\ Prices(o["fee"][2]) = {m.fee}
    BY <1>1, <1>6, PricesRead DEF SaysInfo
  <2> HIDE DEF F
  <2>5. F = {m.fee}
    BY <1>4, <2>4
  <2> QED
    BY <1>6, <2>1, <2>2, <2>3, <2>5 DEF SaysInfo
<1>7. ParseNodeInfo(o) =
        {[chain |-> c, genesis |-> g, head |-> h, shown |-> s, protocol |-> p, fee |-> f] :
           c \in A, g \in B, h \in C, s \in D, p \in E, f \in F}
  BY DEF ParseNodeInfo
<1> HIDE DEF A, B, C, D, E, F
<1>8. /\ AtMostOne(ParseNodeInfo(o))
      /\ \A r \in ParseNodeInfo(o) : r.fee \in F /\ r.protocol \in E
  BY <1>2, <1>3, <1>5, <1>7 DEF AtMostOne
<1>9. ASSUME NEW m, SaysInfo(o, m) PROVE ParseNodeInfo(o) = {m}
  <2>1. ParseNodeInfo(o) = {[chain |-> m.chain, genesis |-> m.genesis, head |-> m.head, shown |-> m.shown,
                             protocol |-> Protocol, fee |-> m.fee]}
    BY <1>6, <1>7, <1>9
  <2> QED
    BY <1>6, <1>9, <2>1
<1> QED
  BY <1>3, <1>5, <1>8, <1>9

\* An account: one reading, of the address asked about.
LEMMA AccountRead ==
  ASSUME NEW about, NEW o, IsReply("account", o)
  PROVE  /\ AtMostOne(AccountOf(about, o))
         /\ \A r \in AccountOf(about, o) : o["address"] = <<"str", about>> /\ o["nonce"] = <<"int", r.nonce>>
         /\ \A m : SaysAccount(about, o, m) => AccountOf(about, o) = {m}
<1> DEFINE A == FieldStr(o, "address")
           B == FieldU64(o, "nonce")
           C == FieldU128(o, "balance")
           D == FieldU8(o, "scheme")
           K == Typed(o, "has_key", "bool") = {TRUE}
<1>1. /\ IsEntry(o["address"]) /\ IsEntry(o["nonce"]) /\ IsEntry(o["balance"])
      /\ IsEntry(o["scheme"]) /\ IsEntry(o["has_key"])
  BY DEF IsReply, HasEntries
<1>2. /\ AtMostOne(A) /\ AtMostOne(B) /\ AtMostOne(C)
      /\ \A a \in A : o["address"] = <<"str", a>>
      /\ \A n \in B : o["nonce"] = <<"int", n>>
  BY <1>1, TypedReads, StrReads, U128Reads DEF FieldU64
<1>3. AtMostOne(D)
  BY <1>1, TypedReads DEF FieldU64, FieldU8, AtMostOne
<1>4. K <=> o["has_key"] = <<"bool", TRUE>>
  <2>1. o["has_key"] = <<"bool", TRUE>> => K
    <3>1. \A v : o["has_key"] = <<"bool", v>> => Typed(o, "has_key", "bool") = {v}
      BY <1>1, TypedReads
    <3> QED
      BY <3>1, Zenon
  <2>2. K => TRUE \in Typed(o, "has_key", "bool")
    OBVIOUS
  <2>3. \A v \in Typed(o, "has_key", "bool") : o["has_key"] = <<"bool", v>>
    BY <1>1, TypedReads
  <2> QED
    BY <2>1, <2>2, <2>3
<1>5. ASSUME NEW m, SaysAccount(about, o, m)
      PROVE  /\ m = [address |-> about, nonce |-> m.nonce, balance |-> m.balance, scheme |-> m.scheme,
                     hasKey |-> o["has_key"] = <<"bool", TRUE>>]
             /\ A = {about} /\ B = {m.nonce} /\ C = {m.balance} /\ D = {m.scheme}
  <2>1. A = {about} /\ B = {m.nonce} /\ C = {m.balance}
    BY <1>1, <1>5, TypedReads, StrReads, U128Reads DEF SaysAccount, FieldU64
  <2>2. FieldU64(o, "scheme") = {m.scheme} /\ m.scheme <= ByteMax
    BY <1>1, <1>5, TypedReads DEF SaysAccount, FieldU64
  <2>3. D = {m.scheme}
    BY <2>2 DEF FieldU8
  <2> QED
    BY <1>5, <2>1, <2>3 DEF SaysAccount
<1> DEFINE R(k) == {[address |-> a, nonce |-> n, balance |-> b, scheme |-> s, hasKey |-> k] :
                      a \in A, n \in B, b \in C, s \in D}
<1>6. ParseAccount(o) = R(K)
  BY DEF ParseAccount
<1>7. \A r : r \in AccountOf(about, o) <=> r \in ParseAccount(o) /\ r.address = about
  BY DEF AccountOf
<1> DEFINE L == o["has_key"] = <<"bool", TRUE>>
<1>8. (K = L) \/ (K # L /\ FALSE)
  BY <1>4
<1> HIDE DEF A, B, C, D, K, L, R
<1>9. /\ AtMostOne(AccountOf(about, o))
      /\ \A r \in AccountOf(about, o) : about \in A /\ r.nonce \in B
  <2>1. \A k : AtMostOne(R(k)) /\ \A r \in R(k) : r.address \in A /\ r.nonce \in B
    BY <1>2, <1>3 DEF AtMostOne, R
  <2>2. AtMostOne(R(K)) /\ \A r \in R(K) : r.address \in A /\ r.nonce \in B
    BY <2>1, Zenon
  <2>3. AtMostOne(ParseAccount(o)) /\ \A r \in ParseAccount(o) : r.address \in A /\ r.nonce \in B
    BY <1>6, <2>2, Zenon
  <2> QED
    BY <1>7, <2>3 DEF AtMostOne
<1>10. ASSUME NEW m, SaysAccount(about, o, m) PROVE AccountOf(about, o) = {m}
  <2>1. ParseAccount(o) = {[address |-> about, nonce |-> m.nonce, balance |-> m.balance,
                            scheme |-> m.scheme, hasKey |-> K]}
    <3>1. PICK k : k = K
      OBVIOUS
    <3>2. ParseAccount(o) = R(k)
      BY <1>6, <3>1, Zenon
    <3>3. A = {about} /\ B = {m.nonce} /\ C = {m.balance} /\ D = {m.scheme}
      BY <1>5, <1>10
    <3>4. ParseAccount(o) = {[address |-> about, nonce |-> m.nonce, balance |-> m.balance,
                              scheme |-> m.scheme, hasKey |-> k]}
      BY <3>2, <3>3 DEF R
    <3> QED
      BY <3>1, <3>4, Zenon
  <2>2. m = [address |-> about, nonce |-> m.nonce, balance |-> m.balance, scheme |-> m.scheme, hasKey |-> L]
    BY <1>5, <1>10 DEF L
  <2>3. ParseAccount(o) = {m}
    BY <1>8, <2>1, <2>2
  <2>4. m.address = about
    BY <2>2
  <2> QED
    BY <1>7, <2>3, <2>4
<1> QED
  BY <1>2, <1>9, <1>10

\* The verdict on a submission: one reading, by the word of the verdict.
LEMMA VerdictRead ==
  ASSUME NEW o, IsReply("submit", o)
  PROVE  /\ AtMostOne(ParseSubmit(o))
         /\ \A r \in ParseSubmit(o) : o["verdict"] = <<"str", <<r.is>>>>
         /\ \A m : SaysVerdict(o, m) => ParseSubmit(o) = {m}
<1> DEFINE V == FieldStr(o, "verdict")
           A == FieldStr(o, "tx_id")
           B == FieldStr(o, "state")
           C == FieldStr(o, "reason")
<1>1. IsEntry(o["verdict"]) /\ IsEntry(o["tx_id"]) /\ IsEntry(o["state"]) /\ IsEntry(o["reason"])
  BY DEF IsReply, HasEntries
<1>2. /\ AtMostOne(A) /\ \A v \in V : o["verdict"] = <<"str", v>>
      /\ o["state"][1] = "str" => B # {}
      /\ o["reason"][1] = "str" => C # {}
      /\ \A v : o["verdict"] = <<"str", v>> => V = {v}
      /\ \A v : o["tx_id"] = <<"str", v>> => A = {v}
  BY <1>1, StrReads
<1>3. /\ \A r : r \in ParseSubmit(o) <=>
           \/ \E t \in A : r = [is |-> "accepted", tx |-> t] /\ V = {<<"accepted">>} /\ B # {}
           \/ r = [is |-> "rejected", tx |-> <<>>] /\ C # {} /\ V = {<<"rejected">>}
  <2> DEFINE X == {[is |-> "accepted", tx |-> t] : t \in {a \in A : V = {<<"accepted">>} /\ B # {}}}
             Y == {[is |-> "rejected", tx |-> <<>>] : reason \in {r \in C : V = {<<"rejected">>}}}
  <2>1. ParseSubmit(o) = X \cup Y
    BY DEF ParseSubmit
  <2>2. \A r : r \in X <=> \E t \in A : r = [is |-> "accepted", tx |-> t] /\ V = {<<"accepted">>} /\ B # {}
    OBVIOUS
  <2>3. \A r : r \in Y <=> r = [is |-> "rejected", tx |-> <<>>] /\ C # {} /\ V = {<<"rejected">>}
    OBVIOUS
  <2> HIDE DEF X, Y
  <2> QED
    BY <2>1, <2>2, <2>3
<1> HIDE DEF V, A, B, C
<1>4. <<"accepted">> # <<"rejected">>
  OBVIOUS
<1>5. AtMostOne(ParseSubmit(o)) /\ \A r \in ParseSubmit(o) : V = {<<r.is>>}
  <2>1. ~(V = {<<"accepted">>} /\ V = {<<"rejected">>})
    BY <1>4
  <2> QED
    BY <1>2, <1>3, <2>1 DEF AtMostOne
<1>6. ASSUME NEW m, SaysVerdict(o, m) PROVE ParseSubmit(o) = {m}
  <2>1. CASE /\ m = [is |-> "accepted", tx |-> m.tx]
             /\ o["verdict"] = <<"str", <<"accepted">>>>
             /\ o["tx_id"] = <<"str", m.tx>> /\ o["state"][1] = "str"
    <3>1. V = {<<"accepted">>} /\ A = {m.tx} /\ B # {}
      BY <1>2, <2>1
    <3>2. V # {<<"rejected">>}
      BY <1>4, <3>1
    <3>3. \A r : r \in ParseSubmit(o) <=> r = [is |-> "accepted", tx |-> m.tx]
      BY <1>3, <3>1, <3>2
    <3>4. \A r : r \in ParseSubmit(o) <=> r = m
      BY <2>1, <3>3
    <3> QED
      BY <3>4
  <2>2. CASE /\ m = [is |-> "rejected", tx |-> <<>>]
             /\ o["verdict"] = <<"str", <<"rejected">>>> /\ o["reason"][1] = "str"
    <3>1. V = {<<"rejected">>} /\ C # {}
      BY <1>2, <2>2
    <3>2. V # {<<"accepted">>}
      BY <1>4, <3>1
    <3>3. \A r : r \in ParseSubmit(o) <=> r = m
      BY <1>3, <2>2, <3>1, <3>2
    <3> QED
      BY <3>3
  <2> QED
    BY <1>6, <2>1, <2>2 DEF SaysVerdict
<1> QED
  BY <1>2, <1>5, <1>6

\* The status of a transaction: one reading, by the word of the status.
LEMMA StatusRead ==
  ASSUME NEW o, IsReply("status", o)
  PROVE  /\ AtMostOne(ParseTransaction(o))
         /\ \A r \in ParseTransaction(o) :
              /\ o["status"] = <<"str", <<r.is>>>>
              /\ r.is = "finalised" => o["height"] = <<"int", r.height>>
         /\ \A m : SaysStatus(o, m) => ParseTransaction(o) = {m}
<1> DEFINE S == FieldStr(o, "status")
           A == FieldU64(o, "height")
           fits == o["block"] \in {Missing, Null} \/ FieldStr(o, "block") # {}
<1>1. IsEntry(o["status"]) /\ IsEntry(o["height"]) /\ IsEntry(o["block"])
  BY DEF IsReply, HasEntries
<1>2. /\ \A v \in S : o["status"] = <<"str", v>>
      /\ \A v : o["status"] = <<"str", v>> => S = {v}
      /\ o["block"][1] = "str" => FieldStr(o, "block") # {}
  BY <1>1, StrReads
<1>3. /\ AtMostOne(A) /\ \A h \in A : o["height"] = <<"int", h>>
      /\ \A h : o["height"] = <<"int", h>> => A = {h}
  BY <1>1, TypedReads DEF FieldU64
<1>4. \A r : r \in ParseTransaction(o) <=>
         \/ \E h \in A : r = [is |-> "finalised", height |-> h] /\ S = {<<"finalised">>} /\ fits
         \/ \E s \in {"pending", "unknown"} : r = [is |-> s, height |-> NoValue] /\ S = {<<s>>}
  <2> DEFINE X == {[is |-> "finalised", height |-> h] : h \in {n \in A : S = {<<"finalised">>} /\ fits}}
             Y == {[is |-> s, height |-> NoValue] : s \in {x \in {"pending", "unknown"} : S = {<<x>>}}}
  <2>1. ParseTransaction(o) = X \cup Y
    BY DEF ParseTransaction
  <2>2. \A r : r \in X <=> \E h \in A : r = [is |-> "finalised", height |-> h] /\ S = {<<"finalised">>} /\ fits
    OBVIOUS
  <2>3. \A r : r \in Y <=> \E s \in {"pending", "unknown"} : r = [is |-> s, height |-> NoValue] /\ S = {<<s>>}
    OBVIOUS
  <2> HIDE DEF X, Y
  <2> QED
    BY <2>1, <2>2, <2>3
<1>5. (o["block"] \in {Missing, Null} \/ o["block"][1] = "str") => fits
  BY <1>2
<1> HIDE DEF S, A, fits
<1>6. \A s, t : S = {<<s>>} /\ S = {<<t>>} => s = t
  <2> SUFFICES ASSUME NEW s, NEW t, S = {<<s>>}, S = {<<t>>} PROVE s = t
    OBVIOUS
  <2>1. <<s>> = <<t>>
    OBVIOUS
  <2>2. <<s>>[1] = s /\ <<t>>[1] = t
    OBVIOUS
  <2> QED
    BY <2>1, <2>2
<1>7. AtMostOne(ParseTransaction(o))
  <2> SUFFICES ASSUME NEW x \in ParseTransaction(o), NEW y \in ParseTransaction(o) PROVE x = y
    BY DEF AtMostOne
  <2>1. CASE S = {<<"finalised">>}
    <3>1. \A s \in {"pending", "unknown"} : S # {<<s>>}
      BY <1>6, <2>1
    <3>2. \A r \in ParseTransaction(o) : \E h \in A : r = [is |-> "finalised", height |-> h]
      BY <1>4, <3>1
    <3> QED
      BY <1>3, <3>2 DEF AtMostOne
  <2>2. CASE S # {<<"finalised">>}
    <3>1. \A r \in ParseTransaction(o) :
            \E s \in {"pending", "unknown"} : r = [is |-> s, height |-> NoValue] /\ S = {<<s>>}
      BY <1>4, <2>2
    <3> QED
      BY <1>6, <3>1
  <2> QED
    BY <2>1, <2>2
<1>8. ASSUME NEW r \in ParseTransaction(o)
      PROVE  S = {<<r.is>>} /\ (r.is = "finalised" => r.height \in A)
  <2>1. CASE \E h \in A : r = [is |-> "finalised", height |-> h] /\ S = {<<"finalised">>} /\ fits
    BY <2>1
  <2>2. CASE \E s \in {"pending", "unknown"} : r = [is |-> s, height |-> NoValue] /\ S = {<<s>>}
    BY <2>2
  <2> QED
    BY <1>4, <2>1, <2>2
<1>9. ASSUME NEW m, SaysStatus(o, m) PROVE ParseTransaction(o) = {m}
  <2>1. m \in ParseTransaction(o)
    <3>1. CASE /\ m = [is |-> "finalised", height |-> m.height]
               /\ o["status"] = <<"str", <<"finalised">>>> /\ o["height"] = <<"int", m.height>>
               /\ o["block"] \in {Missing, Null} \/ o["block"][1] = "str"
      <4>1. S = {<<"finalised">>} /\ A = {m.height} /\ fits
        BY <1>2, <1>3, <1>5, <3>1
      <4> QED
        BY <1>4, <3>1, <4>1
    <3>2. CASE /\ m = [is |-> m.is, height |-> NoValue] /\ m.is \in {"pending", "unknown"}
               /\ o["status"] = <<"str", <<m.is>>>>
      <4>1. S = {<<m.is>>}
        BY <1>2, <3>2
      <4> QED
        BY <1>4, <3>2, <4>1
    <3> QED
      BY <1>9, <3>1, <3>2 DEF SaysStatus
  <2> QED
    BY <1>7, <2>1 DEF AtMostOne
<1> QED
  BY <1>2, <1>3, <1>7, <1>8, <1>9

\* The items of a list that are read each.
LEMMA ListRead ==
  ASSUME NEW e, NEW keys, IsList(e, keys), e[1] = "arr"
  PROVE  Len(e[2]) \in Nat /\ DOMAIN e[2] = 1 .. Len(e[2]) /\ \A i \in DOMAIN e[2] : HasEntries(e[2][i], keys)
<1>1. e[2] \in Seq(ToSet(e[2])) /\ \A i \in DOMAIN e[2] : HasEntries(e[2][i], keys)
  BY DEF IsList, IsEntry
<1> DEFINE items == e[2]
           S == ToSet(e[2])
<1>2. items \in Seq(S)
  BY <1>1
<1> HIDE DEF items, S
<1>3. Len(items) \in Nat /\ DOMAIN items = 1 .. Len(items)
  BY <1>2
<1> QED
  BY <1>1, <1>3 DEF items

\* A storage slot: one reading, of its own name and number.
LEMMA SlotRead ==
  ASSUME NEW o, HasEntries(o, {"slot", "value"})
  PROVE  /\ AtMostOne(StorageSlot(o))
         /\ \A r \in StorageSlot(o) : o["slot"] = <<"str", r.slot>> /\ SaysNumber(o, "value", r.value)
         /\ \A m : SaysSlot(o, m) => StorageSlot(o) = {m}
<1> DEFINE A == FieldHash(o, "slot")
           B == FieldDigits(o, "value")
<1>1. IsEntry(o["slot"]) /\ IsEntry(o["value"])
  BY DEF HasEntries
<1>2. /\ AtMostOne(A) /\ \A h \in A : o["slot"] = <<"str", h>>
      /\ AtMostOne(B) /\ \A n \in B : SaysNumber(o, "value", n)
  BY <1>1, HashReads, DigitsRead
<1>3. ASSUME NEW m, SaysSlot(o, m)
      PROVE  m = [slot |-> m.slot, value |-> m.value] /\ A = {m.slot} /\ B = {m.value}
  BY <1>1, <1>3, HashReads, DigitsRead DEF SaysSlot
<1>4. StorageSlot(o) = {[slot |-> s, value |-> n] : s \in A, n \in B}
  BY DEF StorageSlot
<1> HIDE DEF A, B
<1>5. AtMostOne(StorageSlot(o)) /\ \A r \in StorageSlot(o) : r.slot \in A /\ r.value \in B
  BY <1>2, <1>4 DEF AtMostOne
<1>6. ASSUME NEW m, SaysSlot(o, m) PROVE StorageSlot(o) = {m}
  BY <1>3, <1>4, <1>6
<1> QED
  BY <1>2, <1>5, <1>6

\* The value of the first slot that matches.
LEMMA FirstMatch ==
  ASSUME NEW slots, NEW key, DOMAIN slots \subseteq Nat
  PROVE  /\ AtMostOne(StorageValueReported(slots, key))
         /\ \A v \in StorageValueReported(slots, key) :
              \E i \in DOMAIN slots : slots[i].slot = key /\ v = slots[i].value
         /\ \A i \in DOMAIN slots :
              slots[i].slot = key /\ (\A j \in DOMAIN slots : j < i => slots[j].slot # key) =>
                StorageValueReported(slots, key) = {slots[i].value}
<1> DEFINE M == Matches(slots, key)
           F == {i \in M : \A j \in M : i <= j}
<1>1. \A i : i \in M <=> i \in DOMAIN slots /\ slots[i].slot = key
  BY DEF Matches
<1>2. StorageValueReported(slots, key) = {slots[i].value : i \in F}
  BY DEF StorageValueReported
<1> HIDE DEF M
<1>3. \A i, j \in F : i = j
  BY <1>1
<1>4. ASSUME NEW i \in DOMAIN slots, slots[i].slot = key, \A j \in DOMAIN slots : j < i => slots[j].slot # key
      PROVE  F = {i}
  <2>1. i \in M /\ \A j \in M : i <= j
    BY <1>1, <1>4
  <2> QED
    BY <1>3, <2>1
<1>5. \A i \in F : i \in DOMAIN slots /\ slots[i].slot = key
  BY <1>1
<1> HIDE DEF F
<1> QED
  BY <1>2, <1>3, <1>4, <1>5 DEF AtMostOne

\* The value of a slot: that of an item with the name asked about.
LEMMA SlotValueRead ==
  ASSUME NEW about, NEW o, IsReply("slot", o)
  PROVE  /\ AtMostOne(SlotValue(about, o))
         /\ \A r \in SlotValue(about, o) :
              \E item \in ToSet(o["slots"][2]) : item["slot"] = <<"str", about>> /\ SaysNumber(item, "value", r)
         /\ \A m : SaysSlotValue(about, o, m) => SlotValue(about, o) = {m}
<1> DEFINE e == o["slots"]
           items == e[2]
           readings == [i \in DOMAIN items |-> StorageSlot(items[i])]
           Slots == ParseStorage(o)
<1>1. IsList(e, {"slot", "value"}) /\ IsEntry(e)
  BY DEF IsReply, IsList
<1>2. \A s : s \in Slots <=> e[1] = "arr" /\ s \in AllRead(readings)
  <2>1. /\ AtMostOne(Typed(o, "slots", "arr"))
        /\ \A v \in Typed(o, "slots", "arr") : e = <<"arr", v>>
        /\ \A v : e = <<"arr", v>> => Typed(o, "slots", "arr") = {v}
    BY <1>1, TypedReads
  <2>2. e = <<e[1], e[2]>>
    BY <1>1 DEF IsEntry
  <2> DEFINE R(x) == AllRead([i \in DOMAIN x |-> StorageSlot(x[i])])
  <2>3. Slots = UNION {R(x) : x \in Typed(o, "slots", "arr")}
    BY DEF ParseStorage
  <2>4. R(items) = AllRead(readings)
    OBVIOUS
  <2> HIDE DEF e, R, readings, Slots
  <2>5. CASE e[1] = "arr"
    <3>1. e = <<"arr", items>>
      BY <2>2, <2>5
    <3>2. Typed(o, "slots", "arr") = {items}
      BY <2>1, <3>1, Zenon
    <3>3. Slots = R(items)
      BY <2>3, <3>2
    <3> QED
      BY <2>4, <2>5, <3>3
  <2>6. CASE e[1] # "arr"
    <3>1. Typed(o, "slots", "arr") = {}
      BY <2>1, <2>6
    <3> QED
      BY <2>3, <2>6, <3>1
  <2> QED
    BY <2>5, <2>6
<1>3. \A v : v \in SlotValue(about, o) <=> \E s \in Slots : v \in StorageValueReported(s, about)
  BY DEF SlotValue
<1>4. ASSUME e[1] = "arr"
      PROVE  /\ DOMAIN items = 1 .. Len(items) /\ Len(items) \in Nat
             /\ \A i \in DOMAIN items : HasEntries(items[i], {"slot", "value"})
  BY <1>1, <1>4, ListRead
<1> HIDE DEF e, Slots
<1>5. ASSUME NEW s \in Slots
      PROVE  /\ DOMAIN s = DOMAIN items /\ DOMAIN items \subseteq Nat
             /\ \A i \in DOMAIN items : /\ items[i]["slot"] = <<"str", s[i].slot>>
                                        /\ SaysNumber(items[i], "value", s[i].value)
  <2>1. e[1] = "arr" /\ s \in AllRead(readings)
    BY <1>2
  <2>2. DOMAIN readings = DOMAIN items /\ \A i \in DOMAIN items : readings[i] = StorageSlot(items[i])
    OBVIOUS
  <2> HIDE DEF items, readings
  <2>3. s = [i \in DOMAIN readings |-> s[i]] /\ \A i \in DOMAIN readings : s[i] \in readings[i]
    BY <2>1, AllReads
  <2>4. \A i \in DOMAIN items : s[i] \in StorageSlot(items[i])
    BY <2>2, <2>3
  <2>5. \A i \in DOMAIN items : /\ items[i]["slot"] = <<"str", s[i].slot>>
                                /\ SaysNumber(items[i], "value", s[i].value)
    BY <1>4, <2>1, <2>4, SlotRead
  <2>6. DOMAIN s = DOMAIN items
    BY <2>2, <2>3
  <2> QED
    BY <1>4, <2>1, <2>5, <2>6
<1>6. AtMostOne(Slots)
  BY <1>2, AllReads DEF AtMostOne
<1>7. AtMostOne(SlotValue(about, o))
  <2>1. \A s \in Slots : AtMostOne(StorageValueReported(s, about))
    BY <1>5, FirstMatch
  <2> QED
    BY <1>3, <1>6, <2>1 DEF AtMostOne
<1>8. ASSUME NEW r \in SlotValue(about, o)
      PROVE  \E item \in ToSet(items) : item["slot"] = <<"str", about>> /\ SaysNumber(item, "value", r)
  <2>1. PICK s \in Slots : r \in StorageValueReported(s, about)
    BY <1>3
  <2>2. PICK i \in DOMAIN s : s[i].slot = about /\ r = s[i].value
    BY <1>5, <2>1, FirstMatch
  <2>3. i \in DOMAIN items /\ items[i]["slot"] = <<"str", about>> /\ SaysNumber(items[i], "value", r)
    BY <1>5, <2>2
  <2> HIDE DEF items
  <2>4. items[i] \in ToSet(items)
    BY <2>3, Zenon DEF ToSet
  <2> QED
    BY <2>3, <2>4
<1>9. ASSUME NEW m, SaysSlotValue(about, o, m) PROVE SlotValue(about, o) = {m}
  <2>1. /\ e[1] = "arr"
        /\ \A i \in DOMAIN items :
             \E slot \in HashTexts, n \in 0 .. WordMax : SaysSlot(items[i], [slot |-> slot, value |-> n])
        /\ \E i \in DOMAIN items :
             /\ SaysSlot(items[i], [slot |-> about, value |-> m])
             /\ \A j \in 1 .. i - 1 : items[j]["slot"] # <<"str", about>>
    BY <1>9 DEF SaysSlotValue, e
  <2>2. DOMAIN readings = DOMAIN items /\ \A i \in DOMAIN items : readings[i] = StorageSlot(items[i])
    OBVIOUS
  <2> HIDE DEF items, readings
  <2>3. PICK k \in DOMAIN items :
          /\ SaysSlot(items[k], [slot |-> about, value |-> m])
          /\ \A j \in 1 .. k - 1 : items[j]["slot"] # <<"str", about>>
    BY <2>1
  <2> DEFINE s == [i \in DOMAIN items |-> CHOOSE r : StorageSlot(items[i]) = {r}]
  <2>4. ASSUME NEW i \in DOMAIN items PROVE StorageSlot(items[i]) = {s[i]}
    <3>1. PICK slot \in HashTexts, n \in 0 .. WordMax : SaysSlot(items[i], [slot |-> slot, value |-> n])
      BY <2>1
    <3>2. StorageSlot(items[i]) = {[slot |-> slot, value |-> n]}
      BY <1>4, <2>1, <3>1, SlotRead
    <3>3. \E r : StorageSlot(items[i]) = {r}
      BY <3>2
    <3> QED
      BY <3>3, Zenon
  <2> HIDE DEF s
  <2>5. AllRead(readings) = {[i \in DOMAIN readings |-> s[i]]}
    <3>1. \A i \in DOMAIN readings : readings[i] = {s[i]}
      BY <2>2, <2>4
    <3> QED
      BY <3>1, AllReads
  <2>6. s = [i \in DOMAIN readings |-> s[i]]
    <3>1. DOMAIN s = DOMAIN items /\ s = [i \in DOMAIN s |-> s[i]]
      BY DEF s
    <3> QED
      BY <2>2, <3>1
  <2>7. s \in Slots
    BY <1>2, <2>1, <2>5, <2>6
  <2>8. StorageSlot(items[k]) = {[slot |-> about, value |-> m]}
    BY <1>4, <2>1, <2>3, SlotRead
  <2>9. s[k] = [slot |-> about, value |-> m]
    BY <2>3, <2>4, <2>8
  <2>10. /\ DOMAIN s = DOMAIN items /\ DOMAIN items \subseteq Nat
         /\ \A i \in DOMAIN items : items[i]["slot"] = <<"str", s[i].slot>>
    BY <1>5, <2>7 DEF items
  <2>11. \A j \in DOMAIN s : j < k => s[j].slot # about
    <3>1. \A j \in DOMAIN items : j < k => j \in 1 .. k - 1
      BY <1>4, <2>1, <2>3, <2>10 DEF items
    <3> QED
      BY <2>3, <2>10, <3>1
  <2>12. s[k].slot = about /\ s[k].value = m
    BY <2>9
  <2>13. StorageValueReported(s, about) = {m}
    BY <2>3, <2>10, <2>11, <2>12, FirstMatch
  <2>14. Slots = {s}
    BY <1>6, <2>7 DEF AtMostOne
  <2> QED
    BY <1>3, <2>13, <2>14
<1> QED
  BY <1>7, <1>8, <1>9 DEF e

\* A member of a roster: its stake is the one said.
LEMMA MemberRead ==
  ASSUME NEW o, HasEntries(o, {"id", "stake", "attest_pk", "root", "root_slots"})
  PROVE  /\ \A r \in RosterMember(o) : SaysNumber(o, "stake", r.stake)
         /\ \A m : SaysMember(o, m) => RosterMember(o) = {m}
<1> DEFINE A == FieldU64(o, "id")
           B == FieldDigits(o, "stake")
           C == FieldStr(o, "attest_pk") \cap HexTexts
           D == FieldHash(o, "root")
           E == FieldDigits(o, "root_slots")
<1>1. IsEntry(o["id"]) /\ IsEntry(o["stake"]) /\ IsEntry(o["attest_pk"]) /\ IsEntry(o["root"]) /\ IsEntry(o["root_slots"])
  BY DEF HasEntries
<1>2. \A n \in B : SaysNumber(o, "stake", n)
  BY <1>1, DigitsRead
<1>3. ASSUME NEW m, SaysMember(o, m)
      PROVE  /\ m = [id |-> m.id, stake |-> m.stake, key |-> m.key, root |-> m.root, slots |-> m.slots]
             /\ A = {m.id} /\ B = {m.stake} /\ C = {m.key} /\ D = {m.root} /\ E = {m.slots}
  <2>1. A = {m.id}
    BY <1>1, <1>3, TypedReads DEF SaysMember, FieldU64
  <2>2. B = {m.stake} /\ E = {m.slots}
    BY <1>1, <1>3, DigitsRead DEF SaysMember
  <2>3. C = {m.key}
    BY <1>1, <1>3, StrReads DEF SaysMember
  <2>4. D = {m.root}
    BY <1>1, <1>3, HashReads DEF SaysMember
  <2> QED
    BY <1>3, <2>1, <2>2, <2>3, <2>4 DEF SaysMember
<1>4. RosterMember(o) = {[id |-> id, stake |-> stake, key |-> key, root |-> root, slots |-> slots] :
                           id \in A, stake \in B, key \in C, root \in D, slots \in E}
  BY DEF RosterMember
<1> HIDE DEF A, B, C, D, E
<1>5. \A r \in RosterMember(o) : r.stake \in B
  BY <1>4
<1>6. ASSUME NEW m, SaysMember(o, m) PROVE RosterMember(o) = {m}
  BY <1>3, <1>4, <1>6
<1> QED
  BY <1>2, <1>5, <1>6

\* A roster: as many members as are listed, with their stakes.
LEMMA RosterRead ==
  ASSUME NEW o, IsReply("roster", o)
  PROVE  /\ AtMostOne(ParseRoster(o))
         /\ \A r \in ParseRoster(o) : /\ Len(r) = Len(o[2])
                                      /\ \A i \in DOMAIN r : SaysNumber(o[2][i], "stake", r[i].stake)
         /\ \A m : SaysList(o, m) /\ (\A i \in DOMAIN m : SaysMember(o[2][i], m[i])) => ParseRoster(o) = {m}
<1> DEFINE items == o[2]
           readings == [i \in DOMAIN items |-> RosterMember(items[i])]
<1>1. ASSUME o[1] = "arr"
      PROVE  /\ DOMAIN items = 1 .. Len(items) /\ Len(items) \in Nat
             /\ \A i \in DOMAIN items : HasEntries(items[i], {"id", "stake", "attest_pk", "root", "root_slots"})
  BY <1>1, ListRead DEF IsReply
<1>2. ParseRoster(o) = IF o[1] = "arr" /\ Len(items) <= MaxItems THEN AllRead(readings) ELSE {}
  BY DEF ParseRoster
<1>3. DOMAIN readings = DOMAIN items /\ \A i \in DOMAIN items : readings[i] = RosterMember(items[i])
  OBVIOUS
<1> HIDE DEF items, readings
<1>4. AtMostOne(ParseRoster(o))
  BY <1>2, AllReads DEF AtMostOne
<1>5. ASSUME NEW r \in ParseRoster(o)
      PROVE  Len(r) = Len(items) /\ \A i \in DOMAIN r : SaysNumber(items[i], "stake", r[i].stake)
  <2>1. o[1] = "arr" /\ r \in AllRead(readings)
    BY <1>2
  <2>2. r = [i \in DOMAIN readings |-> r[i]] /\ \A i \in DOMAIN readings : r[i] \in readings[i]
    BY <2>1, AllReads
  <2>3. DOMAIN r = 1 .. Len(items) /\ Len(items) \in Nat
    BY <1>1, <1>3, <2>1, <2>2
  <2>4. Len(r) = Len(items)
    BY <2>3
  <2>5. \A i \in DOMAIN r : r[i] \in RosterMember(items[i]) /\ i \in DOMAIN items
    BY <1>3, <2>2
  <2> QED
    BY <1>1, <2>1, <2>4, <2>5, MemberRead
<1>6. ASSUME NEW m, SaysList(o, m), \A i \in DOMAIN m : SaysMember(items[i], m[i]) PROVE ParseRoster(o) = {m}
  <2>1. o[1] = "arr" /\ Len(items) <= MaxItems /\ m = [i \in DOMAIN items |-> m[i]]
    BY <1>6 DEF SaysList, items
  <2>2. \A i \in DOMAIN items : readings[i] = {m[i]}
    <3>1. DOMAIN m = DOMAIN items
      BY <2>1
    <3> QED
      BY <1>1, <1>3, <1>6, <2>1, <3>1, MemberRead
  <2>3. AllRead(readings) = {[i \in DOMAIN readings |-> m[i]]}
    BY <1>3, <2>2, AllReads
  <2> QED
    BY <1>2, <1>3, <2>1, <2>3
<1> QED
  BY <1>4, <1>5, <1>6 DEF items

\* A step of a path: its side is the one said.
LEMMA StepRead ==
  ASSUME NEW o, HasEntries(o, {"sibling", "left"})
  PROVE  /\ \A r \in ProofStep(o) : o["left"] = <<"bool", r.left>>
         /\ \A m : SaysStep(o, m) => ProofStep(o) = {m}
<1> DEFINE A == FieldHash(o, "sibling")
           B == Typed(o, "left", "bool")
<1>1. IsEntry(o["sibling"]) /\ IsEntry(o["left"])
  BY DEF HasEntries
<1>2. \A l \in B : o["left"] = <<"bool", l>>
  BY <1>1, TypedReads
<1>3. ASSUME NEW m, SaysStep(o, m)
      PROVE  m = [sibling |-> m.sibling, left |-> m.left] /\ A = {m.sibling} /\ B = {m.left}
  BY <1>1, <1>3, HashReads, TypedReads DEF SaysStep
<1>4. ProofStep(o) = {[sibling |-> s, left |-> l] : s \in A, l \in B}
  BY DEF ProofStep
<1> HIDE DEF A, B
<1>5. \A r \in ProofStep(o) : r.left \in B
  BY <1>4
<1>6. ASSUME NEW m, SaysStep(o, m) PROVE ProofStep(o) = {m}
  BY <1>3, <1>4, <1>6
<1> QED
  BY <1>2, <1>5, <1>6

\* A path: its steps lie on the sides said.
LEMMA StepsRead ==
  ASSUME NEW o, IsReply("steps", o)
  PROVE  /\ AtMostOne(ParseSteps(o))
         /\ \A r \in ParseSteps(o) : \A i \in DOMAIN r : o[2][i]["left"] = <<"bool", r[i].left>>
         /\ \A m : SaysList(o, m) /\ (\A i \in DOMAIN m : SaysStep(o[2][i], m[i])) => ParseSteps(o) = {m}
<1> DEFINE items == o[2]
           readings == [i \in DOMAIN items |-> ProofStep(items[i])]
<1>1. ASSUME o[1] = "arr" PROVE \A i \in DOMAIN items : HasEntries(items[i], {"sibling", "left"})
  BY <1>1, ListRead DEF IsReply
<1>2. ParseSteps(o) = IF o[1] = "arr" /\ Len(items) <= MaxItems THEN AllRead(readings) ELSE {}
  BY DEF ParseSteps
<1>3. DOMAIN readings = DOMAIN items /\ \A i \in DOMAIN items : readings[i] = ProofStep(items[i])
  OBVIOUS
<1> HIDE DEF items, readings
<1>4. AtMostOne(ParseSteps(o))
  BY <1>2, AllReads DEF AtMostOne
<1>5. ASSUME NEW r \in ParseSteps(o) PROVE \A i \in DOMAIN r : items[i]["left"] = <<"bool", r[i].left>>
  <2>1. o[1] = "arr" /\ r \in AllRead(readings)
    BY <1>2
  <2>2. r = [i \in DOMAIN readings |-> r[i]] /\ \A i \in DOMAIN readings : r[i] \in readings[i]
    BY <2>1, AllReads
  <2>3. \A i \in DOMAIN r : r[i] \in ProofStep(items[i]) /\ i \in DOMAIN items
    BY <1>3, <2>2
  <2> QED
    BY <1>1, <2>1, <2>3, StepRead
<1>6. ASSUME NEW m, SaysList(o, m), \A i \in DOMAIN m : SaysStep(items[i], m[i]) PROVE ParseSteps(o) = {m}
  <2>1. o[1] = "arr" /\ Len(items) <= MaxItems /\ m = [i \in DOMAIN items |-> m[i]]
    BY <1>6 DEF SaysList, items
  <2>2. \A i \in DOMAIN items : readings[i] = {m[i]}
    <3>1. DOMAIN m = DOMAIN items
      BY <2>1
    <3> QED
      BY <1>1, <1>3, <1>6, <2>1, <3>1, StepRead
  <2>3. AllRead(readings) = {[i \in DOMAIN readings |-> m[i]]}
    BY <1>3, <2>2, AllReads
  <2> QED
    BY <1>2, <1>3, <2>1, <2>3
<1> QED
  BY <1>4, <1>5, <1>6 DEF items

-----------------------------------------------------------------------------
\* The answer is what the code reads of one of the replies.
AnswerIsOfReply ==
  asked.codec = "answer" =>
    /\ IsReply(asked.kind, asked.said)
    /\ asked.truth # NoTruth =>
         \E m \in asked.truth : asked.truth = {m} /\ Says(asked.kind, asked.about, asked.said, m)
    /\ answer.read = Understood(asked.kind, asked.about, asked.said)

\* The answer is what the client understood of a reply, in every state.
LEMMA AnswersAreOfReplies == AnswerSpec => []AnswerIsOfReply
<1>1. NothingAsked => AnswerIsOfReply
  BY DEF NothingAsked, AnswerIsOfReply
<1>2. ASSUME AnswerIsOfReply, [AskForAnswer \/ AnotherIsAsked({"answer"})]_exchange
      PROVE  AnswerIsOfReply'
  <2>1. ASSUME NEW a \in Replies, AskClient(a) PROVE AnswerIsOfReply'
    <3>1. /\ IsReply(a.kind, a.said)
          /\ a.truth # NoTruth => \E m \in a.truth : a.truth = {m} /\ Says(a.kind, a.about, a.said, m)
      BY RepliesAssumption
    <3>2. /\ asked' = [codec |-> "answer", kind |-> a.kind, about |-> a.about, said |-> a.said, truth |-> a.truth]
          /\ answer'.read = Understood(a.kind, a.about, a.said)
      BY <2>1 DEF AskClient
    <3>3. asked'.kind = a.kind /\ asked'.about = a.about /\ asked'.said = a.said /\ asked'.truth = a.truth
      BY <3>2
    <3> QED
      BY <3>1, <3>2, <3>3, Zenon DEF AnswerIsOfReply
  <2>2. CASE AnotherIsAsked({"answer"})
    BY <2>2 DEF AnotherIsAsked, AnswerIsOfReply
  <2>3. CASE UNCHANGED exchange
    BY <1>2, <2>3 DEF exchange, AnswerIsOfReply
  <2> QED
    BY <1>2, <2>1, <2>2, <2>3 DEF AskForAnswer
<1> QED
  BY <1>1, <1>2, PTL DEF AnswerSpec

\* What the client goes by was said by the gateway about what was asked, and an
\* honest answer is read (slot_value, account, parse_submit and the other
\* readers): for any numbers and widths, lists of any length, and whatever a
\* gateway answers.
THEOREM ClientReadsWhatIsSaid == AnswerSpec => []ReadingsAreReported
<1>1. ASSUME AnswerIsOfReply PROVE ReadingsAreReported
  <2> SUFFICES ASSUME asked.codec = "answer"
               PROVE  /\ Cardinality(answer.read) <= 1
                      /\ \A r \in answer.read : Reported(r)
                      /\ asked.truth # NoTruth => answer.read = asked.truth
    BY DEF ReadingsAreReported
  <2> DEFINE said == asked.said
             about == asked.about
             read == answer.read
  <2>1. /\ IsReply(asked.kind, said) /\ read = Understood(asked.kind, about, said)
        /\ asked.truth # NoTruth =>
             \E m \in asked.truth : asked.truth = {m} /\ Says(asked.kind, about, said, m)
    BY <1>1 DEF AnswerIsOfReply
  <2>2. ASSUME AtMostOne(read), \A r \in read : Reported(r),
               \A m : Says(asked.kind, about, said, m) => read = {m}
        PROVE  /\ Cardinality(answer.read) <= 1
               /\ \A r \in answer.read : Reported(r)
               /\ asked.truth # NoTruth => answer.read = asked.truth
    <3> HIDE DEF said, about
    <3>1. Cardinality(answer.read) <= 1
      BY <2>2, AtMostOneSize
    <3> QED
      BY <2>1, <2>2, <3>1
  <2>3. CASE asked.kind = "info"
    <3>1. IsReply("info", said) /\ read = ParseNodeInfo(said)
      BY <2>1, <2>3 DEF Understood
    <3>2. \A r \in read : Reported(r)
      BY <2>3, <3>1, InfoRead DEF Reported
    <3>3. \A m : Says(asked.kind, about, said, m) => SaysInfo(said, m)
      BY <2>3 DEF Says
    <3> QED
      BY <2>2, <3>1, <3>2, <3>3, InfoRead
  <2>4. CASE asked.kind = "account"
    <3>1. IsReply("account", said) /\ read = AccountOf(about, said)
      BY <2>1, <2>4 DEF Understood
    <3>2. \A r \in read : Reported(r)
      BY <2>4, <3>1, AccountRead DEF Reported
    <3>3. \A m : Says(asked.kind, about, said, m) => SaysAccount(about, said, m)
      BY <2>4 DEF Says
    <3> QED
      BY <2>2, <3>1, <3>2, <3>3, AccountRead
  <2>5. CASE asked.kind = "submit"
    <3>1. IsReply("submit", said) /\ read = ParseSubmit(said)
      BY <2>1, <2>5 DEF Understood
    <3>2. \A r \in read : Reported(r)
      BY <2>5, <3>1, VerdictRead DEF Reported
    <3>3. \A m : Says(asked.kind, about, said, m) => SaysVerdict(said, m)
      BY <2>5 DEF Says
    <3> QED
      BY <2>2, <3>1, <3>2, <3>3, VerdictRead
  <2>6. CASE asked.kind = "status"
    <3>1. IsReply("status", said) /\ read = ParseTransaction(said)
      BY <2>1, <2>6 DEF Understood
    <3>2. \A r \in read : Reported(r)
      BY <2>6, <3>1, StatusRead DEF Reported
    <3>3. \A m : Says(asked.kind, about, said, m) => SaysStatus(said, m)
      BY <2>6 DEF Says
    <3> QED
      BY <2>2, <3>1, <3>2, <3>3, StatusRead
  <2>7. CASE asked.kind = "slot"
    <3>1. IsReply("slot", said) /\ read = SlotValue(about, said)
      BY <2>1, <2>7 DEF Understood
    <3>2. \A r \in read : Reported(r)
      <4> SUFFICES ASSUME NEW r \in read PROVE Reported(r)
        OBVIOUS
      <4>1. \E item \in ToSet(said["slots"][2]) : item["slot"] = <<"str", about>> /\ SaysNumber(item, "value", r)
        BY <3>1, SlotValueRead
      <4>2. asked.kind = "slot" => (Reported(r) <=>
              \E item \in ToSet(said["slots"][2]) : item["slot"] = <<"str", about>> /\ SaysNumber(item, "value", r))
        BY Zenon DEF Reported
      <4> QED
        BY <2>7, <4>1, <4>2, Zenon
    <3>3. \A m : Says(asked.kind, about, said, m) => SaysSlotValue(about, said, m)
      BY <2>7 DEF Says
    <3> QED
      BY <2>2, <3>1, <3>2, <3>3, SlotValueRead
  <2>8. CASE asked.kind = "roster"
    <3>1. IsReply("roster", said) /\ read = ParseRoster(said)
      BY <2>1, <2>8 DEF Understood
    <3>2. \A r \in read : Reported(r)
      BY <2>8, <3>1, RosterRead DEF Reported
    <3>3. \A m : Says(asked.kind, about, said, m) =>
                   SaysList(said, m) /\ \A i \in DOMAIN m : SaysMember(said[2][i], m[i])
      BY <2>8 DEF Says
    <3> QED
      BY <2>2, <3>1, <3>2, <3>3, RosterRead
  <2>9. CASE asked.kind = "steps"
    <3>1. IsReply("steps", said) /\ read = ParseSteps(said)
      BY <2>1, <2>9 DEF Understood
    <3>2. \A r \in read : Reported(r)
      BY <2>9, <3>1, StepsRead DEF Reported
    <3>3. \A m : Says(asked.kind, about, said, m) =>
                   SaysList(said, m) /\ \A i \in DOMAIN m : SaysStep(said[2][i], m[i])
      BY <2>9 DEF Says
    <3> QED
      BY <2>2, <3>1, <3>2, <3>3, StepsRead
  <2> QED
    BY <2>1, <2>3, <2>4, <2>5, <2>6, <2>7, <2>8, <2>9 DEF IsReply
<1> QED
  BY <1>1, AnswersAreOfReplies, PTL

-----------------------------------------------------------------------------
(* Responses that may be cut.                                                *)

\* The first of a set of places, where one is known.
LEMMA FirstIs ==
  ASSUME NEW S, S \subseteq Nat, NEW i \in S, \A j \in S : i <= j
  PROVE  FirstOf(S) = i
<1>1. S # {} /\ FirstOf(S) = CHOOSE x \in S : \A j \in S : x <= j
  BY DEF FirstOf
<1>2. FirstOf(S) \in S /\ \A j \in S : FirstOf(S) <= j
  BY <1>1
<1>3. FirstOf(S) <= i /\ i <= FirstOf(S) /\ i \in Nat /\ FirstOf(S) \in Nat
  BY <1>2
<1> QED
  BY <1>3

\* A sequence behind another.
LEMMA Beside ==
  ASSUME NEW R, NEW s \in Seq(R), NEW t \in Seq(R)
  PROVE  /\ s \o t \in Seq(R) /\ Len(s \o t) = Len(s) + Len(t)
         /\ Len(s) \in Nat /\ Len(t) \in Nat
         /\ \A i \in 1 .. Len(s) : (s \o t)[i] = s[i]
         /\ \A i \in 1 .. Len(t) : (s \o t)[Len(s) + i] = t[i]
<1> DEFINE c == s \o t
           m == Len(s)
           n == Len(t)
<1>1. /\ c \in Seq(R) /\ Len(c) = m + n
      /\ \A i \in 1 .. m + n : c[i] = IF i <= m THEN s[i] ELSE t[i - m]
  <2>1. s \in Seq(R) /\ t \in Seq(R)
    OBVIOUS
  <2> QED
    BY <2>1, ConcatProperties
<1>2. m \in Nat /\ n \in Nat
  OBVIOUS
<1> HIDE DEF c, m, n
<1>3. \A i \in 1 .. m : c[i] = s[i]
  BY <1>1, <1>2
<1>4. ASSUME NEW i \in 1 .. n PROVE c[m + i] = t[i]
  <2>1. m + i \in 1 .. m + n /\ ~(m + i <= m) /\ (m + i) - m = i
    BY <1>2
  <2> QED
    BY <1>1, <2>1
<1> QED
  BY <1>1, <1>2, <1>3, <1>4 DEF c, m, n

\* What arrived of a sequence.
LEMMA CutFacts ==
  ASSUME NEW R, NEW s \in Seq(R), NEW k \in 0 .. Len(s)
  PROVE  /\ SubSeq(s, 1, k) \in Seq(R) /\ Len(SubSeq(s, 1, k)) = k
         /\ \A i \in 1 .. k : SubSeq(s, 1, k)[i] = s[i]
<1>1. k \in Nat /\ k <= Len(s)
  OBVIOUS
<1>2. \A i \in 1 .. k : s[i] \in R
  BY <1>1
<1> QED
  BY <1>1, <1>2

\* What is behind a place of a sequence.
LEMMA BehindFacts ==
  ASSUME NEW R, NEW s \in Seq(R), NEW k \in 0 .. Len(s)
  PROVE  /\ SubSeq(s, k + 1, Len(s)) \in Seq(R) /\ Len(SubSeq(s, k + 1, Len(s))) = Len(s) - k
         /\ \A i \in 1 .. Len(s) - k : SubSeq(s, k + 1, Len(s))[i] = s[k + i]
<1> DEFINE n == Len(s)
           t == SubSeq(s, k + 1, n)
<1>1. k \in Nat /\ n \in Nat /\ k <= n
  OBVIOUS
<1>2. \A i \in k + 1 .. n : s[i] \in R
  OBVIOUS
<1>3. /\ t \in Seq(R) /\ Len(t) = IF k + 1 <= n THEN n - (k + 1) + 1 ELSE 0
      /\ \A i \in 1 .. n - (k + 1) + 1 : t[i] = s[(k + 1) + i - 1]
  <2>1. k + 1 \in Int /\ n \in Int
    BY <1>1
  <2> HIDE DEF n
  <2> QED
    BY <1>2, <2>1, SubSeqProperties
<1> HIDE DEF t, n
<1>4. Len(t) = n - k
  BY <1>1, <1>3
<1>5. ASSUME NEW i \in 1 .. n - k PROVE t[i] = s[k + i]
  <2>1. i \in 1 .. n - (k + 1) + 1 /\ (k + 1) + i - 1 = k + i
    BY <1>1
  <2> QED
    BY <1>3, <2>1
<1> QED
  BY <1>3, <1>4, <1>5 DEF t, n

\* The end of the head is the first empty line.
LEMMA HeadEnds ==
  ASSUME NEW R, NEW raw \in Seq(R), NEW h \in Nat \ {0},
         \A i \in 1 .. h - 1 : i + 1 <= Len(raw) => ~(raw[i] = Eol /\ raw[i + 1] = Eol),
         Len(raw) >= h + 1 => raw[h] = Eol /\ raw[h + 1] = Eol
  PROVE  EndOfHead(raw) = IF Len(raw) >= h + 1 THEN h ELSE 0
<1> DEFINE n == Len(raw)
           S == {i \in 1 .. n - 1 : raw[i] = Eol /\ raw[i + 1] = Eol}
<1>1. n \in Nat
  OBVIOUS
<1>2. EndOfHead(raw) = FirstOf(S)
  BY DEF EndOfHead
<1> HIDE DEF n
<1>3. \A i \in S : i \in Nat /\ i + 1 <= n /\ i >= h
  BY <1>1 DEF n
<1>4. CASE n >= h + 1
  <2>1. h \in S
    BY <1>1, <1>4 DEF n
  <2>2. S \subseteq Nat /\ \A j \in S : h <= j
    BY <1>3
  <2> HIDE DEF S
  <2>3. FirstOf(S) = h
    BY <2>1, <2>2, FirstIs
  <2> QED
    BY <1>2, <1>4, <2>3 DEF n
<1>5. CASE ~(n >= h + 1)
  <2>1. S = {}
    BY <1>1, <1>3, <1>5
  <2>2. FirstOf(S) = 0
    BY <2>1 DEF FirstOf
  <2> QED
    BY <1>2, <1>5, <2>2 DEF n
<1> QED
  BY <1>4, <1>5

\* A few tokens.
LEMMA FewTokens ==
  ASSUME NEW R, NEW x \in R, NEW y \in R, NEW z \in R
  PROVE  /\ <<x>> \in Seq(R) /\ Len(<<x>>) = 1 /\ <<x>>[1] = x
         /\ <<x, y>> \in Seq(R) /\ Len(<<x, y>>) = 2 /\ <<x, y>>[1] = x /\ <<x, y>>[2] = y
         /\ <<x, y, z>> \in Seq(R) /\ Len(<<x, y, z>>) = 3
         /\ <<x, y, z>>[1] = x /\ <<x, y, z>>[2] = y /\ <<x, y, z>>[3] = z
OBVIOUS

\* What is found behind a place of a whole response.
HasAt(s, k, t) == \A i \in 1 .. Len(t) : s[k + i] = t[i]

\* Three parts, one behind another.
LEMMA PartsAreFound ==
  ASSUME NEW R, NEW p \in Seq(R), NEW q \in Seq(R), NEW r \in Seq(R)
  PROVE  LET F == (p \o q) \o r
         IN  /\ F \in Seq(R) /\ Len(F) = Len(p) + Len(q) + Len(r)
             /\ Len(p) \in Nat /\ Len(q) \in Nat /\ Len(r) \in Nat
             /\ HasAt(F, 0, p) /\ HasAt(F, Len(p), q) /\ HasAt(F, Len(p) + Len(q), r)
<1> DEFINE f == p \o q
           F == f \o r
           a == Len(p)
           b == Len(q)
           c == Len(r)
<1>1. p \in Seq(R) /\ q \in Seq(R) /\ r \in Seq(R)
  OBVIOUS
<1>2. /\ f \in Seq(R) /\ Len(f) = a + b /\ a \in Nat /\ b \in Nat
      /\ \A i \in 1 .. a : f[i] = p[i]
      /\ \A i \in 1 .. b : f[a + i] = q[i]
  BY <1>1, Beside
<1> HIDE DEF f
<1>3. /\ F \in Seq(R) /\ Len(F) = Len(f) + c /\ c \in Nat
      /\ \A i \in 1 .. Len(f) : F[i] = f[i]
      /\ \A i \in 1 .. c : F[Len(f) + i] = r[i]
  <2>1. f \in Seq(R) /\ r \in Seq(R)
    BY <1>1, <1>2
  <2> QED
    BY <2>1, Beside
<1> HIDE DEF F, a, b, c
<1>4. ASSUME NEW i \in 1 .. a PROVE F[0 + i] = p[i]
  <2>1. i \in 1 .. Len(f) /\ 0 + i = i
    BY <1>2
  <2> QED
    BY <1>2, <1>3, <2>1, Zenon
<1>5. ASSUME NEW i \in 1 .. b PROVE F[a + i] = q[i]
  <2>1. a + i \in 1 .. Len(f)
    BY <1>2
  <2> QED
    BY <1>2, <1>3, <2>1, Zenon
<1>6. \A i \in 1 .. c : F[(a + b) + i] = r[i]
  BY <1>2, <1>3, Zenon
<1>7. Len(F) = a + b + c
  BY <1>2, <1>3
<1> QED
  BY <1>2, <1>3, <1>4, <1>5, <1>6, <1>7 DEF HasAt, F, f, a, b, c

\* What is found in a part is found in the whole.
LEMMA FoundInside ==
  ASSUME NEW s, NEW t, NEW u, NEW k \in Nat, NEW j \in Nat, Len(t) \in Nat, Len(u) \in Nat,
         HasAt(s, k, t), HasAt(t, j, u), j + Len(u) <= Len(t)
  PROVE  HasAt(s, k + j, u)
<1>1. ASSUME NEW i \in 1 .. Len(u) PROVE s[(k + j) + i] = u[i]
  <2>1. j + i \in 1 .. Len(t) /\ k + (j + i) = (k + j) + i
    OBVIOUS
  <2>2. s[k + (j + i)] = t[j + i] /\ t[j + i] = u[i]
    BY <2>1 DEF HasAt
  <2> QED
    BY <2>1, <2>2
<1> QED
  BY <1>1 DEF HasAt

\* The tokens of a response with a body.
Tokens(body) ==
  ToSet(body) \cup {Eol} \cup ({"status", "length", "size"} \X Nat) \cup {<<"encoding", "chunked">>}

\* The body is made of them.
LEMMA TokensOfBody ==
  ASSUME NEW body, body \in Seq(ToSet(body))
  PROVE  body \in Seq(Tokens(body)) /\ Len(body) \in Nat
<1> DEFINE R == Tokens(body)
<1>1. ToSet(body) \subseteq R
  BY DEF Tokens
<1> HIDE DEF R
<1> QED
  BY <1>1 DEF R

\* A response that is framed by its length.
LEMMA LengthFramed ==
  ASSUME NEW body, body \in Seq(ToSet(body))
  PROVE  LET F == Framed(200, body, "length")
             n == Len(body)
         IN  /\ F \in Seq(Tokens(body)) /\ Len(F) = n + 5 /\ n \in Nat
             /\ F[1] = <<"status", 200>> /\ F[2] = Eol /\ F[3] = <<"length", n>>
             /\ F[4] = Eol /\ F[5] = Eol
             /\ HasAt(F, 5, body)
<1> DEFINE R == Tokens(body)
           F == Framed(200, body, "length")
           n == Len(body)
           x == <<"status", 200>>
           y == <<"length", n>>
           lead == <<x, Eol>>
           head == <<y, Eol, Eol>>
<1>1. body \in Seq(R) /\ n \in Nat
  BY TokensOfBody
<1>2. x \in R /\ y \in R /\ Eol \in R
  BY <1>1 DEF Tokens
<1>3. F = (lead \o head) \o body
  BY DEF Framed
<1> HIDE DEF R, F, x, y
<1>4. /\ lead \in Seq(R) /\ Len(lead) = 2 /\ lead[1] = x /\ lead[2] = Eol
      /\ head \in Seq(R) /\ Len(head) = 3 /\ head[1] = y /\ head[2] = Eol /\ head[3] = Eol
  BY <1>2, FewTokens
<1> HIDE DEF lead, head
<1>5. /\ F \in Seq(R) /\ Len(F) = Len(lead) + Len(head) + n
      /\ HasAt(F, 0, lead) /\ HasAt(F, Len(lead), head) /\ HasAt(F, Len(lead) + Len(head), body)
  <2>1. lead \in Seq(R) /\ head \in Seq(R) /\ body \in Seq(R)
    BY <1>1, <1>4
  <2> QED
    BY <1>3, <2>1, PartsAreFound DEF n
<1> HIDE DEF n
<1>6. Len(F) = n + 5 /\ HasAt(F, 0, lead) /\ HasAt(F, 2, head) /\ HasAt(F, 5, body)
  BY <1>1, <1>4, <1>5
<1>7. F[1] = x /\ F[2] = Eol /\ F[3] = y /\ F[4] = Eol /\ F[5] = Eol
  BY <1>4, <1>6 DEF HasAt
<1> QED
  BY <1>1, <1>5, <1>6, <1>7 DEF R, F, n, x, y

\* One that is framed by the end of the connection.
LEMMA CloseFramed ==
  ASSUME NEW body, body \in Seq(ToSet(body))
  PROVE  LET F == Framed(200, body, "close")
             n == Len(body)
         IN  /\ F \in Seq(Tokens(body)) /\ Len(F) = n + 3 /\ n \in Nat
             /\ F[1] = <<"status", 200>> /\ F[2] = Eol /\ F[3] = Eol
             /\ HasAt(F, 3, body)
<1> DEFINE R == Tokens(body)
           F == Framed(200, body, "close")
           n == Len(body)
           x == <<"status", 200>>
           lead == <<x, Eol>>
           head == <<Eol>>
<1>1. body \in Seq(R) /\ n \in Nat
  BY TokensOfBody
<1>2. x \in R /\ Eol \in R
  BY DEF Tokens
<1>3. F = (lead \o head) \o body
  BY DEF Framed
<1> HIDE DEF R, F, x
<1>4. /\ lead \in Seq(R) /\ Len(lead) = 2 /\ lead[1] = x /\ lead[2] = Eol
      /\ head \in Seq(R) /\ Len(head) = 1 /\ head[1] = Eol
  BY <1>2, FewTokens
<1> HIDE DEF lead, head
<1>5. /\ F \in Seq(R) /\ Len(F) = Len(lead) + Len(head) + n
      /\ HasAt(F, 0, lead) /\ HasAt(F, Len(lead), head) /\ HasAt(F, Len(lead) + Len(head), body)
  <2>1. lead \in Seq(R) /\ head \in Seq(R) /\ body \in Seq(R)
    BY <1>1, <1>4
  <2> QED
    BY <1>3, <2>1, PartsAreFound DEF n
<1> HIDE DEF n
<1>6. Len(F) = n + 3 /\ HasAt(F, 0, lead) /\ HasAt(F, 2, head) /\ HasAt(F, 3, body)
  BY <1>1, <1>4, <1>5
<1>7. F[1] = x /\ F[2] = Eol /\ F[3] = Eol
  BY <1>4, <1>6 DEF HasAt
<1> QED
  BY <1>1, <1>5, <1>6, <1>7 DEF R, F, n, x

\* A chunk is its size, the data and a line end.
LEMMA ChunkFacts ==
  ASSUME NEW R, NEW data \in Seq(R), <<"size", Len(data)>> \in R, Eol \in R
  PROVE  LET c == Chunk(data)
             n == Len(data)
         IN  /\ c \in Seq(R) /\ Len(c) = n + 3 /\ n \in Nat
             /\ c[1] = <<"size", n>> /\ c[2] = Eol /\ c[n + 3] = Eol
             /\ HasAt(c, 2, data)
<1> DEFINE c == Chunk(data)
           n == Len(data)
           x == <<"size", n>>
           lead == <<x, Eol>>
           last == <<Eol>>
<1>1. n \in Nat
  OBVIOUS
<1>2. c = (lead \o data) \o last
  BY DEF Chunk
<1>3. x \in R /\ Eol \in R
  OBVIOUS
<1> HIDE DEF c, x
<1>4. /\ lead \in Seq(R) /\ Len(lead) = 2 /\ lead[1] = x /\ lead[2] = Eol
      /\ last \in Seq(R) /\ Len(last) = 1 /\ last[1] = Eol
  BY <1>3, FewTokens
<1> HIDE DEF lead, last
<1>5. /\ c \in Seq(R) /\ Len(c) = Len(lead) + n + Len(last)
      /\ HasAt(c, 0, lead) /\ HasAt(c, Len(lead), data) /\ HasAt(c, Len(lead) + n, last)
  <2>1. lead \in Seq(R) /\ data \in Seq(R) /\ last \in Seq(R)
    BY <1>4
  <2> QED
    BY <1>2, <2>1, PartsAreFound DEF n
<1> HIDE DEF n
<1>6. Len(c) = n + 3 /\ HasAt(c, 0, lead) /\ HasAt(c, 2, data) /\ HasAt(c, n + 2, last)
  BY <1>1, <1>4, <1>5
<1>7. c[1] = x /\ c[2] = Eol
  BY <1>4, <1>6 DEF HasAt
<1>8. c[n + 3] = Eol
  <2>1. c[(n + 2) + 1] = last[1]
    BY <1>4, <1>6 DEF HasAt
  <2> QED
    BY <1>1, <1>4, <2>1
<1> QED
  BY <1>1, <1>5, <1>6, <1>7, <1>8 DEF c, n, x

\* The halves of a body.
LEMMA Halves ==
  ASSUME NEW R, NEW body \in Seq(R), Len(body) >= 2
  PROVE  LET n == Len(body)
             a == n \div 2
             p == SubSeq(body, 1, a)
             q == SubSeq(body, a + 1, n)
         IN  /\ n \in Nat /\ a \in Nat \ {0} /\ n - a \in Nat \ {0}
             /\ p \in Seq(R) /\ Len(p) = a /\ q \in Seq(R) /\ Len(q) = n - a
             /\ p \o q = body
<1> DEFINE n == Len(body)
           a == n \div 2
           p == SubSeq(body, 1, a)
           q == SubSeq(body, a + 1, n)
<1>1. n \in Nat /\ n >= 2
  OBVIOUS
<1>2. a \in Nat \ {0} /\ n - a \in Nat \ {0} /\ a \in 0 .. n
  <2> HIDE DEF n
  <2> QED
    BY <1>1
<1> HIDE DEF a
<1>3. /\ p \in Seq(R) /\ Len(p) = a /\ \A i \in 1 .. a : p[i] = body[i]
  BY <1>2, CutFacts
<1>4. /\ q \in Seq(R) /\ Len(q) = n - a /\ \A i \in 1 .. n - a : q[i] = body[a + i]
  BY <1>2, BehindFacts
<1> HIDE DEF p, q
<1> DEFINE whole == p \o q
<1>5. /\ whole \in Seq(R) /\ Len(whole) = Len(p) + Len(q)
      /\ \A i \in 1 .. Len(p) : whole[i] = p[i]
      /\ \A i \in 1 .. Len(q) : whole[Len(p) + i] = q[i]
  <2>1. p \in Seq(R) /\ q \in Seq(R)
    BY <1>3, <1>4
  <2> QED
    BY <2>1, Beside
<1> HIDE DEF whole, n
<1>6. Len(whole) = n
  BY <1>1, <1>2, <1>3, <1>4, <1>5
<1>7. ASSUME NEW i \in 1 .. n PROVE whole[i] = body[i]
  <2>1. CASE i <= a
    BY <1>2, <1>3, <1>5, <2>1
  <2>2. CASE ~(i <= a)
    <3> DEFINE j == i - a
    <3>1. j \in 1 .. n - a /\ a + j = i
      BY <1>1, <1>2, <2>2
    <3> HIDE DEF j
    <3>2. whole[a + j] = q[j] /\ q[j] = body[a + j]
      BY <1>3, <1>4, <1>5, <3>1
    <3> QED
      BY <3>1, <3>2
  <2> QED
    BY <2>1, <2>2
<1>8. whole = body
  <2>1. whole \in Seq(R) /\ body \in Seq(R) /\ Len(whole) = Len(body)
    BY <1>5, <1>6 DEF n
  <2>2. \A i \in 1 .. Len(whole) : whole[i] = body[i]
    BY <1>6, <1>7
  <2> QED
    BY <2>1, <2>2
<1> QED
  BY <1>1, <1>2, <1>3, <1>4, <1>8 DEF whole, p, q, a, n

\* A response that is framed in two chunks and an empty one.
IsChunked(F, body, p, q) ==
  LET a == Len(p)
      b == Len(q)
  IN  /\ a \in Nat \ {0} /\ b \in Nat \ {0} /\ p \o q = body
      /\ p \in Seq(Tokens(body)) /\ q \in Seq(Tokens(body)) /\ F \in Seq(Tokens(body))
      /\ Len(F) = a + b + 14
      /\ F[1] = <<"status", 200>> /\ F[2] = Eol /\ F[3] = <<"encoding", "chunked">>
      /\ F[4] = Eol /\ F[5] = Eol
      /\ F[6] = <<"size", a>> /\ F[7] = Eol /\ HasAt(F, 7, p) /\ F[a + 8] = Eol
      /\ F[a + 9] = <<"size", b>> /\ F[a + 10] = Eol /\ HasAt(F, a + 10, q) /\ F[a + b + 11] = Eol
      /\ F[a + b + 12] = <<"size", 0>> /\ F[a + b + 13] = Eol

\* So is every response in chunks, with the halves of its body.
LEMMA ChunkedFramed ==
  ASSUME NEW body, body \in Seq(ToSet(body)), Len(body) >= 2
  PROVE  \E p, q : IsChunked(Framed(200, body, "chunked"), body, p, q)
<1> DEFINE R == Tokens(body)
           F == Framed(200, body, "chunked")
           n == Len(body)
           a == n \div 2
           b == n - a
           p == SubSeq(body, 1, a)
           q == SubSeq(body, a + 1, n)
           x == <<"status", 200>>
           y == <<"encoding", "chunked">>
           z == <<"size", 0>>
           lead == <<x, Eol>>
           head == <<y, Eol, Eol>>
           last == <<z, Eol, Eol>>
           c == Chunk(p)
           d == Chunk(q)
<1>1. /\ n \in Nat /\ a \in Nat \ {0} /\ b \in Nat \ {0}
      /\ p \in Seq(R) /\ Len(p) = a /\ q \in Seq(R) /\ Len(q) = b
      /\ p \o q = body
  <2>1. body \in Seq(R) /\ Len(body) >= 2
    BY TokensOfBody
  <2> HIDE DEF R
  <2> QED
    BY <2>1, Halves
<1>2. F = (((lead \o head) \o c) \o d) \o last
  BY DEF Framed
<1>3. /\ x \in R /\ y \in R /\ z \in R /\ Eol \in R
      /\ <<"size", a>> \in R /\ <<"size", b>> \in R
  <2> HIDE DEF a, b, n
  <2> QED
    BY <1>1 DEF Tokens
<1> HIDE DEF R, F, x, y, z, a, b, n, p, q
<1>4. /\ lead \in Seq(R) /\ Len(lead) = 2 /\ lead[1] = x /\ lead[2] = Eol
      /\ head \in Seq(R) /\ Len(head) = 3 /\ head[1] = y /\ head[2] = Eol /\ head[3] = Eol
      /\ last \in Seq(R) /\ Len(last) = 3 /\ last[1] = z /\ last[2] = Eol
  BY <1>3, FewTokens
<1>5. /\ c \in Seq(R) /\ Len(c) = a + 3 /\ c[1] = <<"size", a>> /\ c[2] = Eol /\ c[a + 3] = Eol
      /\ HasAt(c, 2, p)
  <2>1. p \in Seq(R) /\ <<"size", Len(p)>> \in R /\ Eol \in R
    BY <1>1, <1>3
  <2> QED
    BY <1>1, <2>1, ChunkFacts
<1>6. /\ d \in Seq(R) /\ Len(d) = b + 3 /\ d[1] = <<"size", b>> /\ d[2] = Eol /\ d[b + 3] = Eol
      /\ HasAt(d, 2, q)
  <2>1. q \in Seq(R) /\ <<"size", Len(q)>> \in R /\ Eol \in R
    BY <1>1, <1>3
  <2> QED
    BY <1>1, <2>1, ChunkFacts
<1> HIDE DEF lead, head, last, c, d
<1> DEFINE front == (lead \o head) \o c
<1>7. /\ front \in Seq(R) /\ Len(front) = a + 8
      /\ HasAt(front, 0, lead) /\ HasAt(front, 2, head) /\ HasAt(front, 5, c)
  <2>1. lead \in Seq(R) /\ head \in Seq(R) /\ c \in Seq(R)
    BY <1>4, <1>5
  <2>2. /\ front \in Seq(R) /\ Len(front) = Len(lead) + Len(head) + Len(c)
        /\ HasAt(front, 0, lead) /\ HasAt(front, Len(lead), head)
        /\ HasAt(front, Len(lead) + Len(head), c)
    BY <2>1, PartsAreFound
  <2> HIDE DEF front
  <2>3. Len(lead) = 2 /\ Len(head) = 3 /\ Len(c) = a + 3 /\ a \in Nat
    BY <1>1, <1>4, <1>5
  <2> QED
    BY <2>2, <2>3
<1> HIDE DEF front
<1>8. /\ F \in Seq(R) /\ Len(F) = a + b + 14
      /\ HasAt(F, 0, front) /\ HasAt(F, a + 8, d) /\ HasAt(F, a + b + 11, last)
  <2>1. front \in Seq(R) /\ d \in Seq(R) /\ last \in Seq(R)
    BY <1>4, <1>6, <1>7
  <2>2. F = (front \o d) \o last
    BY <1>2 DEF front
  <2>3. /\ F \in Seq(R) /\ Len(F) = Len(front) + Len(d) + Len(last)
        /\ HasAt(F, 0, front) /\ HasAt(F, Len(front), d)
        /\ HasAt(F, Len(front) + Len(d), last)
    BY <2>1, <2>2, PartsAreFound
  <2>4. Len(front) = a + 8 /\ Len(d) = b + 3 /\ Len(last) = 3 /\ a \in Nat /\ b \in Nat
    BY <1>1, <1>4, <1>6, <1>7
  <2>5. (a + 8) + (b + 3) = a + b + 11 /\ (a + 8) + (b + 3) + 3 = a + b + 14
    BY <2>4
  <2> QED
    BY <2>3, <2>4, <2>5
<1>9. \A i \in 1 .. a + 8 : F[i] = front[i]
  BY <1>1, <1>7, <1>8 DEF HasAt
<1>10. F[1] = x /\ F[2] = Eol /\ F[3] = y /\ F[4] = Eol /\ F[5] = Eol
  <2>1. front[0 + 1] = x /\ front[0 + 2] = Eol
    BY <1>4, <1>7 DEF HasAt
  <2>2. front[2 + 1] = y /\ front[2 + 2] = Eol /\ front[2 + 3] = Eol
    BY <1>4, <1>7 DEF HasAt
  <2> QED
    BY <1>1, <1>9, <2>1, <2>2
<1>11. F[6] = <<"size", a>> /\ F[7] = Eol /\ F[a + 8] = Eol /\ HasAt(F, 7, p)
  <2>1. HasAt(F, 5, c)
    BY <1>1, <1>5, <1>7, <1>9 DEF HasAt
  <2>2. F[5 + 1] = c[1] /\ F[5 + 2] = c[2] /\ F[5 + (a + 3)] = c[a + 3]
    BY <1>1, <1>5, <2>1 DEF HasAt
  <2>3. HasAt(F, 5 + 2, p)
    <3>1. /\ Len(c) \in Nat /\ Len(p) \in Nat /\ 5 \in Nat /\ 2 \in Nat
          /\ HasAt(F, 5, c) /\ HasAt(c, 2, p) /\ 2 + Len(p) <= Len(c)
      BY <1>1, <1>5, <2>1
    <3> QED
      BY <3>1, FoundInside
  <2> QED
    BY <1>1, <1>5, <2>2, <2>3
<1>12. F[a + 9] = <<"size", b>> /\ F[a + 10] = Eol /\ F[a + b + 11] = Eol /\ HasAt(F, a + 10, q)
  <2>1. F[(a + 8) + 1] = d[1] /\ F[(a + 8) + 2] = d[2] /\ F[(a + 8) + (b + 3)] = d[b + 3]
    BY <1>1, <1>6, <1>8 DEF HasAt
  <2>2. HasAt(F, (a + 8) + 2, q)
    <3>1. /\ Len(d) \in Nat /\ Len(q) \in Nat /\ a + 8 \in Nat /\ 2 \in Nat
          /\ HasAt(F, a + 8, d) /\ HasAt(d, 2, q) /\ 2 + Len(q) <= Len(d)
      BY <1>1, <1>6, <1>8
    <3> QED
      BY <3>1, FoundInside
  <2>3. (a + 8) + 1 = a + 9 /\ (a + 8) + 2 = a + 10 /\ (a + 8) + (b + 3) = a + b + 11
    BY <1>1
  <2> QED
    BY <1>6, <2>1, <2>2, <2>3
<1>13. F[a + b + 12] = z /\ F[a + b + 13] = Eol
  <2>1. F[(a + b + 11) + 1] = last[1] /\ F[(a + b + 11) + 2] = last[2]
    BY <1>4, <1>8 DEF HasAt
  <2>2. (a + b + 11) + 1 = a + b + 12 /\ (a + b + 11) + 2 = a + b + 13
    BY <1>1
  <2> QED
    BY <1>4, <2>1, <2>2
<1>14. IsChunked(F, body, p, q)
  BY <1>1, <1>8, <1>10, <1>11, <1>12, <1>13 DEF IsChunked, R, x, y, z
<1> QED
  BY <1>14 DEF F

\* What is made of what is behind each place is the function its definition describes.
LEMMA DechunkRec ==
  ASSUME NEW R, NEW data \in Seq(R),
         \A i \in 1 .. Len(data) : data[i][1] = "size" => data[i][2] \in Nat
  PROVE  \A k \in 0 .. Len(data) :
           DechunkFrom(data)[k] = Round(data, k, DechunkFrom(data)[EndOfChunk(data, k)])
<1> DEFINE d == Len(data)
           S == [ok : BOOLEAN, status : {0}, body : Seq(R)]
           IsPart(k) == SizeFollows(data, k) /\ SizeAt(data, k) # 0 /\ ChunkIsWhole(data, k)
           end(k) == EndOfChunk(data, k)
           G == [m \in Nat |-> [h \in [0 .. m - 1 -> S] |->
                   IF m \in 0 .. d THEN Round(data, d - m, h[d - end(d - m)]) ELSE Lost]]
<1>1. d \in Nat /\ data \in Seq(R)
  OBVIOUS
<1>2. Lost \in S /\ [ok |-> TRUE, status |-> 0, body |-> <<>>] \in S
  BY DEF Lost
<1>3. ASSUME NEW k \in 0 .. d, IsPart(k)
      PROVE  end(k) \in k + 1 .. d /\ \A rest \in S : Behind(ChunkAt(data, k), rest) \in S
  <2> DEFINE size == SizeAt(data, k)
  <2>1. k + 1 \in 1 .. d
    <3>1. FirstEol(data, k) # 0
      BY <1>1, <1>3 DEF SizeFollows
    <3>2. {i \in k + 1 .. Len(data) : data[i] = Eol} # {}
      BY <3>1 DEF FirstEol, FirstOf
    <3> QED
      BY <1>1, <3>2
  <2>2. size \in Nat \ {0}
    BY <1>3, <2>1 DEF SizeFollows, SizeAt
  <2> HIDE DEF size
  <2>3. end(k) = k + 3 + size
    BY DEF EndOfChunk, size
  <2>4. end(k) \in k + 1 .. d /\ end(k) - 1 = k + 2 + size
    BY <1>1, <1>3, <2>2, <2>3 DEF ChunkIsWhole
  <2>5. ChunkAt(data, k) \in Seq(R)
    <3>1. k + 3 \in Int /\ end(k) - 1 \in Int /\ \A i \in k + 3 .. end(k) - 1 : data[i] \in R
      BY <1>1, <2>2, <2>4
    <3> HIDE DEF end
    <3>2. SubSeq(data, k + 3, end(k) - 1) \in Seq(R)
      BY <1>1, <3>1
    <3> QED
      BY <3>2 DEF ChunkAt, end
  <2>6. ASSUME NEW rest \in S PROVE Behind(ChunkAt(data, k), rest) \in S
    <3> DEFINE c == ChunkAt(data, k)
    <3>1. c \o rest.body \in Seq(R)
      <4>1. c \in Seq(R) /\ rest.body \in Seq(R)
        BY <2>5
      <4> HIDE DEF c
      <4> QED
        BY <4>1
    <3> HIDE DEF c
    <3>2. rest.ok => Behind(c, rest) = [ok |-> rest.ok, status |-> rest.status, body |-> c \o rest.body]
      BY DEF Behind
    <3> QED
      BY <1>2, <3>1, <3>2 DEF Behind, c
  <2> QED
    BY <2>4, <2>6
<1> HIDE DEF S, end
<1>4. Continues(G, S)
  <2> SUFFICES ASSUME NEW m \in Nat, NEW h \in [0 .. m - 1 -> S] PROVE G[m][h] \in S
    BY DEF Continues
  <2>1. CASE m \in 0 .. d
    <3> DEFINE k == d - m
    <3>1. k \in 0 .. d /\ d - k = m
      BY <1>1, <2>1
    <3>2. G[m][h] = Round(data, k, h[d - end(k)])
      BY <2>1
    <3> HIDE DEF k, G
    <3>3. CASE IsPart(k)
      <4>1. d - end(k) \in 0 .. m - 1
        BY <1>1, <1>3, <3>1, <3>3
      <4>2. Behind(ChunkAt(data, k), h[d - end(k)]) \in S
        BY <1>3, <3>1, <3>3, <4>1
      <4> QED
        BY <3>2, <3>3, <4>2 DEF Round
    <3> QED
      BY <1>2, <3>2, <3>3 DEF Round
  <2>2. CASE m \notin 0 .. d
    BY <2>2, <1>2
  <2> QED
    BY <2>1, <2>2
<1>5. PICK f \in [Nat -> S] : Solves(f, G)
  <2> HIDE DEF G
  <2> QED
    BY <1>4, StrongRecursion
<1> DEFINE P == [k \in 0 .. d |-> f[d - k]]
<1>6. ASSUME NEW k \in 0 .. d PROVE P[k] = Round(data, k, P[end(k)])
  <2> DEFINE m == d - k
  <2>1. m \in Nat /\ m \in 0 .. d /\ d - m = k
    BY <1>1
  <2>2. P[k] = f[m]
    OBVIOUS
  <2> HIDE DEF m, P
  <2>3. Up(f, m) \in [0 .. m - 1 -> S]
    BY <2>1 DEF Up
  <2>4. f[m] = Round(data, k, Up(f, m)[d - end(k)])
    <3>1. f[m] = G[m][Up(f, m)]
      BY <1>5, <2>1 DEF Solves
    <3>2. G[m][Up(f, m)] = Round(data, d - m, Up(f, m)[d - end(d - m)])
      BY <2>1, <2>3
    <3> QED
      BY <2>1, <3>1, <3>2
  <2> HIDE DEF G
  <2>5. CASE IsPart(k)
    <3>1. end(k) \in k + 1 .. d
      BY <1>3, <2>5
    <3>2. d - end(k) \in 0 .. m - 1 /\ end(k) \in 0 .. d
      BY <1>1, <2>1, <3>1
    <3>3. Up(f, m)[d - end(k)] = P[end(k)]
      BY <1>1, <3>2 DEF Up, P
    <3> QED
      BY <2>2, <2>4, <3>3
  <2> QED
    BY <2>2, <2>4, <2>5 DEF Round
<1> HIDE DEF P, G
<1>7. P = [k \in 0 .. d |-> Round(data, k, P[end(k)])]
  <2>1. P = [k \in 0 .. d |-> P[k]]
    BY DEF P
  <2> QED
    BY <1>6, <2>1, Zenon
<1> DEFINE Q == DechunkFrom(data)
<1>8. Q = CHOOSE g : g = [k \in 0 .. d |-> Round(data, k, g[end(k)])]
  BY Zenon DEF DechunkFrom, end
<1> HIDE DEF Q, d
<1>9. Q = [k \in 0 .. d |-> Round(data, k, Q[end(k)])]
  BY <1>7, <1>8, Zenon
<1> QED
  BY <1>9, Zenon DEF Q, d, end

\* A line with a size follows once its end has arrived.
LEMMA SizeArrives ==
  ASSUME NEW R, NEW data \in Seq(R), NEW k \in 0 .. Len(data), NEW s,
         Len(data) >= k + 1 => data[k + 1] = <<"size", s>>,
         Len(data) >= k + 2 => data[k + 2] = Eol
  PROVE  /\ SizeFollows(data, k) <=> Len(data) >= k + 2
         /\ Len(data) >= k + 1 => SizeAt(data, k) = s
<1> DEFINE d == Len(data)
           S == {i \in k + 1 .. d : data[i] = Eol}
<1>1. d \in Nat /\ k \in Nat /\ k <= d
  OBVIOUS
<1>2. FirstEol(data, k) = FirstOf(S)
  BY DEF FirstEol
<1>3. <<"size", s>> # Eol /\ <<"size", s>>[1] = "size" /\ <<"size", s>>[2] = s
  BY DEF Eol
<1>4. (d >= k + 1 => data[k + 1] = <<"size", s>>) /\ (d >= k + 2 => data[k + 2] = Eol)
  OBVIOUS
<1>5. d >= k + 1 => SizeAt(data, k) = s
  BY <1>3 DEF SizeAt
<1> HIDE DEF d
<1>6. \A i \in S : i \in Nat /\ i >= k + 2 /\ i <= d
  <2> SUFFICES ASSUME NEW i \in S PROVE i \in Nat /\ i >= k + 2 /\ i <= d
    OBVIOUS
  <2>1. i \in k + 1 .. d /\ data[i] = Eol
    OBVIOUS
  <2>2. i # k + 1
    <3>1. d >= k + 1
      BY <1>1, <2>1
    <3>2. data[k + 1] # Eol
      BY <1>3, <1>4, <3>1, Zenon
    <3> QED
      BY <2>1, <3>2, Zenon
  <2> QED
    BY <1>1, <2>1, <2>2
<1>7. CASE d >= k + 2
  <2>1. k + 2 \in S
    BY <1>1, <1>4, <1>7
  <2>2. S \subseteq Nat /\ \A j \in S : k + 2 <= j
    BY <1>6
  <2> HIDE DEF S
  <2>3. FirstOf(S) = k + 2
    BY <2>1, <2>2, FirstIs
  <2>4. data[k + 1][1] = "size"
    BY <1>1, <1>3, <1>4, <1>7
  <2> QED
    BY <1>2, <1>5, <1>7, <2>3, <2>4 DEF SizeFollows, d
<1>8. CASE ~(d >= k + 2)
  <2>1. S = {}
    BY <1>1, <1>6, <1>8
  <2>2. FirstOf(S) = 0 /\ 0 # k + 2
    BY <2>1, <1>1 DEF FirstOf
  <2> QED
    BY <1>2, <1>5, <1>8, <2>2 DEF SizeFollows, d
<1> QED
  BY <1>7, <1>8

\* A part of a sequence, from what is found there.
LEMMA Excerpt ==
  ASSUME NEW R, NEW s \in Seq(R), NEW t \in Seq(R), NEW k \in Nat, k + Len(t) <= Len(s), HasAt(s, k, t)
  PROVE  SubSeq(s, k + 1, k + Len(t)) = t
<1> DEFINE n == Len(t)
           u == SubSeq(s, k + 1, k + n)
<1>1. n \in Nat /\ Len(s) \in Nat
  OBVIOUS
<1>2. k + 1 \in Int /\ k + n \in Int /\ \A i \in k + 1 .. k + n : s[i] \in R
  BY <1>1
<1>3. /\ u \in Seq(R) /\ Len(u) = IF k + 1 <= k + n THEN (k + n) - (k + 1) + 1 ELSE 0
      /\ \A i \in 1 .. (k + n) - (k + 1) + 1 : u[i] = s[(k + 1) + i - 1]
  <2> HIDE DEF n
  <2> QED
    BY <1>2, SubSeqProperties
<1> HIDE DEF u
<1>4. Len(u) = n
  BY <1>1, <1>3
<1>5. ASSUME NEW i \in 1 .. n PROVE u[i] = t[i]
  <2>1. i \in 1 .. (k + n) - (k + 1) + 1 /\ (k + 1) + i - 1 = k + i
    BY <1>1
  <2> QED
    BY <1>3, <2>1 DEF HasAt
<1>6. u = t
  <2>1. u \in Seq(R) /\ t \in Seq(R) /\ Len(u) = Len(t)
    BY <1>3, <1>4
  <2> QED
    BY <1>5, <2>1
<1> QED
  BY <1>6 DEF u, n

\* A chunk that is not the last one is read once the line end behind it has arrived.
LEMMA ChunkIsRead ==
  ASSUME NEW R, NEW data \in Seq(R), NEW k \in 0 .. Len(data), NEW part \in Seq(R), Len(part) # 0,
         Len(data) >= k + 1 => data[k + 1] = <<"size", Len(part)>>,
         Len(data) >= k + 2 => data[k + 2] = Eol,
         Len(data) >= k + Len(part) + 3 => HasAt(data, k + 2, part) /\ data[k + Len(part) + 3] = Eol,
         NEW rest
  PROVE  /\ Len(data) >= k + 1 => EndOfChunk(data, k) = k + Len(part) + 3
         /\ Round(data, k, rest) = IF Len(data) >= k + Len(part) + 3 THEN Behind(part, rest) ELSE Lost
<1> DEFINE d == Len(data)
           s == Len(part)
<1>1. d \in Nat /\ k \in Nat /\ k <= d /\ s \in Nat \ {0}
  OBVIOUS
<1>2. (SizeFollows(data, k) <=> d >= k + 2) /\ (d >= k + 1 => SizeAt(data, k) = s)
  BY SizeArrives
<1>3. d >= k + s + 3 => HasAt(data, k + 2, part) /\ data[k + s + 3] = Eol
  OBVIOUS
<1>4. d >= k + 1 => EndOfChunk(data, k) = k + s + 3 /\ EndOfChunk(data, k) - 1 = (k + 2) + s
  <2> HIDE DEF d, s
  <2> QED
    BY <1>1, <1>2 DEF EndOfChunk
<1>5. CASE d >= k + s + 3
  <2>1. SizeFollows(data, k) /\ SizeAt(data, k) # 0 /\ EndOfChunk(data, k) = k + s + 3
    <3> HIDE DEF d, s
    <3> QED
      BY <1>1, <1>2, <1>4, <1>5
  <2>2. ChunkIsWhole(data, k)
    BY <1>3, <1>5, <2>1 DEF ChunkIsWhole
  <2>3. ChunkAt(data, k) = part
    <3>1. k + 2 \in Nat /\ (k + 2) + s <= d /\ (k + 2) + 1 = k + 3
      <4> HIDE DEF d, s
      <4> QED
        BY <1>1, <1>5
    <3>2. SubSeq(data, (k + 2) + 1, (k + 2) + s) = part
      BY <1>3, <1>5, <3>1, Excerpt
    <3>3. EndOfChunk(data, k) - 1 = (k + 2) + s
      <4> HIDE DEF d, s
      <4> QED
        BY <1>1, <1>4, <1>5
    <3> QED
      BY <3>1, <3>2, <3>3, Zenon DEF ChunkAt
  <2> HIDE DEF d, s
  <2> QED
    BY <1>1, <1>4, <1>5, <2>1, <2>2, <2>3 DEF Round, d, s
<1>6. CASE ~(d >= k + s + 3)
  <2>1. ~(SizeFollows(data, k) /\ SizeAt(data, k) = 0)
    <3> HIDE DEF d, s
    <3> QED
      BY <1>1, <1>2
  <2>2. ~(SizeFollows(data, k) /\ ChunkIsWhole(data, k))
    <3> SUFFICES ASSUME SizeFollows(data, k), ChunkIsWhole(data, k) PROVE FALSE
      OBVIOUS
    <3>1. d >= k + 2 /\ EndOfChunk(data, k) <= d
      BY <1>2 DEF ChunkIsWhole
    <3> HIDE DEF d, s
    <3> QED
      BY <1>1, <1>4, <1>6, <3>1
  <2>3. Round(data, k, rest) = Lost
    BY <2>1, <2>2 DEF Round
  <2>4. d >= k + 1 => EndOfChunk(data, k) = k + s + 3
    BY <1>4
  <2> QED
    BY <1>6, <2>3, <2>4
<1> QED
  BY <1>5, <1>6

\* Two chunks and the last one are read once the line end of that one has arrived.
LEMMA ChunksAreRead ==
  ASSUME NEW F, NEW body, NEW p, NEW q, IsChunked(F, body, p, q),
         NEW data \in Seq(Tokens(body)), Len(data) <= Len(p) + Len(q) + 9,
         \A i \in 1 .. Len(data) : data[i] = F[5 + i],
         \A i \in 1 .. Len(data) : data[i][1] = "size" => data[i][2] \in Nat
  PROVE  Dechunk(data) = IF Len(data) >= Len(p) + Len(q) + 8
                         THEN [ok |-> TRUE, status |-> 0, body |-> body] ELSE Lost
<1> DEFINE R == Tokens(body)
           a == Len(p)
           b == Len(q)
           d == Len(data)
           from == DechunkFrom(data)
           done(s) == [ok |-> TRUE, status |-> 0, body |-> s]
<1>1. /\ a \in Nat \ {0} /\ b \in Nat \ {0} /\ p \o q = body
      /\ p \in Seq(R) /\ q \in Seq(R) /\ data \in Seq(R)
      /\ F[6] = <<"size", a>> /\ F[7] = Eol /\ HasAt(F, 7, p) /\ F[a + 8] = Eol
      /\ F[a + 9] = <<"size", b>> /\ F[a + 10] = Eol /\ HasAt(F, a + 10, q) /\ F[a + b + 11] = Eol
      /\ F[a + b + 12] = <<"size", 0>> /\ F[a + b + 13] = Eol
  BY DEF IsChunked
<1>2. d \in Nat /\ d <= a + b + 9 /\ \A i \in 1 .. d : data[i] = F[5 + i]
  OBVIOUS
<1>3. \A k \in 0 .. d : from[k] = Round(data, k, from[EndOfChunk(data, k)])
  BY DechunkRec
<1> HIDE DEF R, a, b, d, from
<1>8. a \in Nat \ {0} /\ b \in Nat \ {0} /\ d \in Nat
  BY <1>1, <1>2
<1>4. ASSUME d >= a + b + 6
      PROVE  from[a + b + 6] = IF d >= a + b + 8 THEN done(<<>>) ELSE Lost
  <2> DEFINE k == a + b + 6
  <2>1. k \in 0 .. d /\ (d >= k + 1 => data[k + 1] = <<"size", 0>>) /\ (d >= k + 2 => data[k + 2] = Eol)
    <3>1. k \in 0 .. d /\ 5 + (k + 1) = a + b + 12 /\ 5 + (k + 2) = a + b + 13
      BY <1>8, <1>4
    <3>2. (d >= k + 1 => k + 1 \in 1 .. d) /\ (d >= k + 2 => k + 2 \in 1 .. d)
      BY <3>1, <1>8
    <3> QED
      BY <1>1, <1>2, <3>1, <3>2, Zenon
  <2> HIDE DEF k
  <2>2. (SizeFollows(data, k) <=> d >= k + 2) /\ (d >= k + 1 => SizeAt(data, k) = 0)
    BY <1>1, <2>1, SizeArrives DEF d
  <2>3. d >= k + 2 => d >= k + 1
    BY <1>2, <2>1
  <2>4. Round(data, k, from[EndOfChunk(data, k)]) = IF d >= k + 2 THEN done(<<>>) ELSE Lost
    BY <2>2, <2>3 DEF Round
  <2>5. k + 2 = a + b + 8
    BY <1>1 DEF k
  <2> QED
    BY <1>3, <2>1, <2>4, <2>5 DEF k
<1>5. ASSUME d >= a + 3
      PROVE  from[a + 3] = IF d >= a + b + 8 THEN done(q \o <<>>) ELSE Lost
  <2> DEFINE k == a + 3
             rest == from[EndOfChunk(data, k)]
  <2>1. /\ k \in 0 .. d
        /\ (d >= k + 1 => data[k + 1] = <<"size", b>>) /\ (d >= k + 2 => data[k + 2] = Eol)
        /\ (d >= k + b + 3 => HasAt(data, k + 2, q) /\ data[k + b + 3] = Eol)
    <3>1. k \in 0 .. d /\ 5 + (k + 1) = a + 9 /\ 5 + (k + 2) = a + 10 /\ 5 + (k + b + 3) = a + b + 11
      BY <1>8, <1>5
    <3>2. (d >= k + 1 => k + 1 \in 1 .. d) /\ (d >= k + 2 => k + 2 \in 1 .. d) /\ (d >= k + b + 3 => k + b + 3 \in 1 .. d)
      BY <3>1, <1>8
    <3>3. ASSUME d >= k + b + 3, NEW i \in 1 .. b PROVE data[(k + 2) + i] = q[i]
      <4>1. (k + 2) + i \in 1 .. d /\ 5 + ((k + 2) + i) = (a + 10) + i
        BY <1>8, <3>3
      <4>2. F[(a + 10) + i] = q[i]
        BY <1>1 DEF HasAt, b
      <4> QED
        BY <1>2, <4>1, <4>2
    <3>4. d >= k + b + 3 => HasAt(data, k + 2, q)
      BY <3>3, Zenon DEF HasAt, b
    <3>5. d >= k + b + 3 => data[k + b + 3] = Eol
      BY <1>1, <1>2, <3>1, <3>2, Zenon
    <3>6. (d >= k + 1 => data[k + 1] = <<"size", b>>) /\ (d >= k + 2 => data[k + 2] = Eol)
      BY <1>1, <1>2, <3>1, <3>2, Zenon
    <3> QED
      BY <3>1, <3>4, <3>5, <3>6, Zenon
  <2> HIDE DEF k, rest
  <2>2. /\ d >= k + 1 => EndOfChunk(data, k) = k + b + 3
        /\ Round(data, k, rest) = IF d >= k + b + 3 THEN Behind(q, rest) ELSE Lost
    <3>1. data \in Seq(R) /\ q \in Seq(R) /\ b # 0
      BY <1>1
    <3> QED
      BY <2>1, <3>1, ChunkIsRead DEF d, b
  <2>3. k + b + 3 = a + b + 6
    BY <1>1 DEF k
  <2>4. from[k] = Round(data, k, rest)
    BY <1>3, <2>1 DEF rest
  <2>5. CASE d >= a + b + 6
    <3>1. d >= k + 1 /\ rest = from[a + b + 6]
      <4>1. d >= k + 1
        BY <1>8, <2>5 DEF k
      <4> QED
        BY <2>2, <2>3, <4>1, Zenon DEF rest
    <3>2. from[k] = Behind(q, from[a + b + 6])
      BY <2>2, <2>3, <2>4, <2>5, <3>1
    <3>3. Behind(q, done(<<>>)) = done(q \o <<>>) /\ Behind(q, Lost) = Lost
      BY DEF Behind, Lost
    <3> QED
      BY <1>4, <2>5, <3>2, <3>3 DEF k
  <2>6. CASE ~(d >= a + b + 6)
    <3>1. ~(d >= a + b + 8)
      BY <1>8, <2>6
    <3> QED
      BY <2>2, <2>3, <2>4, <2>6, <3>1 DEF k
  <2> QED
    BY <2>5, <2>6
<1>6. from[0] = IF d >= a + b + 8 THEN done(p \o (q \o <<>>)) ELSE Lost
  <2> DEFINE rest == from[EndOfChunk(data, 0)]
  <2>1. /\ 0 \in 0 .. d
        /\ (d >= 0 + 1 => data[0 + 1] = <<"size", a>>) /\ (d >= 0 + 2 => data[0 + 2] = Eol)
        /\ (d >= 0 + a + 3 => HasAt(data, 0 + 2, p) /\ data[0 + a + 3] = Eol)
    <3>1. 0 \in 0 .. d /\ 5 + 1 = 6 /\ 5 + 2 = 7 /\ 5 + (0 + a + 3) = a + 8
      BY <1>1, <1>2
    <3>2. (d >= 0 + 1 => 0 + 1 \in 1 .. d) /\ (d >= 0 + 2 => 0 + 2 \in 1 .. d) /\ (d >= 0 + a + 3 => 0 + a + 3 \in 1 .. d)
      BY <1>1, <1>2
    <3>3. ASSUME d >= 0 + a + 3, NEW i \in 1 .. a PROVE data[(0 + 2) + i] = p[i]
      <4>1. (0 + 2) + i \in 1 .. d /\ 5 + ((0 + 2) + i) = 7 + i
        BY <1>8, <3>3
      <4>2. F[7 + i] = p[i]
        BY <1>1 DEF HasAt, a
      <4> QED
        BY <1>2, <4>1, <4>2
    <3>4. 0 + 1 = 1 /\ 0 + 2 = 2
      OBVIOUS
    <3>5. d >= 0 + a + 3 => HasAt(data, 0 + 2, p)
      BY <3>3, Zenon DEF HasAt, a
    <3>6. d >= 0 + a + 3 => data[0 + a + 3] = Eol
      BY <1>1, <1>2, <3>1, <3>2, Zenon
    <3>7. (d >= 0 + 1 => data[0 + 1] = <<"size", a>>) /\ (d >= 0 + 2 => data[0 + 2] = Eol)
      BY <1>1, <1>2, <3>1, <3>2, <3>4, Zenon
    <3> QED
      BY <3>1, <3>5, <3>6, <3>7, Zenon
  <2> HIDE DEF rest
  <2>2. /\ d >= 0 + 1 => EndOfChunk(data, 0) = 0 + a + 3
        /\ Round(data, 0, rest) = IF d >= 0 + a + 3 THEN Behind(p, rest) ELSE Lost
    <3>1. data \in Seq(R) /\ p \in Seq(R) /\ a # 0
      BY <1>1
    <3> QED
      BY <2>1, <3>1, ChunkIsRead DEF d, a
  <2>3. 0 + a + 3 = a + 3
    BY <1>1
  <2>4. from[0] = Round(data, 0, rest)
    BY <1>3, <2>1 DEF rest
  <2>5. CASE d >= a + 3
    <3>1. d >= 0 + 1 /\ rest = from[a + 3]
      BY <1>1, <1>2, <2>2, <2>3, <2>5 DEF rest
    <3>2. from[0] = Behind(p, from[a + 3])
      BY <2>2, <2>3, <2>4, <2>5, <3>1
    <3>3. Behind(p, done(q \o <<>>)) = done(p \o (q \o <<>>)) /\ Behind(p, Lost) = Lost
      BY DEF Behind, Lost
    <3> QED
      BY <1>5, <2>5, <3>2, <3>3
  <2>6. CASE ~(d >= a + 3)
    <3>1. ~(d >= a + b + 8)
      BY <1>8, <2>6
    <3> QED
      BY <2>2, <2>3, <2>4, <2>6, <3>1
  <2> QED
    BY <2>5, <2>6
<1>7. q \o <<>> = q
  BY <1>1, ConcatEmptySeq
<1> QED
  BY <1>1, <1>6, <1>7, Zenon DEF Dechunk, from, a, b, d

\* A response without an end of its head is refused.
LEMMA HeadlessIsLost ==
  ASSUME NEW raw, EndOfHead(raw) = 0
  PROVE  ParseResponse(raw) = Lost
BY DEF ParseResponse

\* The whole response.
Whole(body) == [ok |-> TRUE, status |-> 200, body |-> body]

\* A response that is framed by its length is read once the body has arrived, and not before.
LEMMA LengthCut ==
  ASSUME NEW body, body \in Seq(ToSet(body)),
         NEW k \in 0 .. Len(Framed(200, body, "length"))
  PROVE  ParseResponse(SubSeq(Framed(200, body, "length"), 1, k)) =
           IF k = Len(Framed(200, body, "length")) THEN Whole(body) ELSE Lost
<1> DEFINE R == Tokens(body)
           F == Framed(200, body, "length")
           n == Len(body)
           raw == SubSeq(F, 1, k)
           x == <<"status", 200>>
           y == <<"length", n>>
<1>1. /\ F \in Seq(R) /\ Len(F) = n + 5 /\ n \in Nat
      /\ F[1] = x /\ F[2] = Eol /\ F[3] = y /\ F[4] = Eol /\ F[5] = Eol
      /\ HasAt(F, 5, body)
  BY LengthFramed
<1>2. body \in Seq(R)
  BY TokensOfBody
<1>3. x # Eol /\ y # Eol /\ x[1] = "status" /\ x[2] = 200 /\ y[1] = "length" /\ y[2] = n /\ Eol[1] = "eol"
  BY DEF Eol
<1>4. k \in 0 .. Len(F)
  OBVIOUS
<1> HIDE DEF R, F
<1>5. raw \in Seq(R) /\ Len(raw) = k /\ \A i \in 1 .. k : raw[i] = F[i]
  BY <1>1, <1>4, CutFacts
<1>6. k \in Nat /\ n \in Nat /\ k <= n + 5
  BY <1>1, <1>4
<1> HIDE DEF raw, x, y, n
<1>7. EndOfHead(raw) = IF k >= 5 THEN 4 ELSE 0
  <2>1. ASSUME NEW i \in 1 .. 4 - 1, i + 1 <= k PROVE ~(raw[i] = Eol /\ raw[i + 1] = Eol)
    <3>1. raw[i] = F[i] /\ raw[i + 1] = F[i + 1]
      BY <1>5, <1>6, <2>1
    <3>2. i = 1 \/ i = 2 \/ i = 3
      OBVIOUS
    <3>3. F[1] # Eol /\ F[3] # Eol
      BY <1>1, <1>3
    <3> QED
      BY <3>1, <3>2, <3>3
  <2>2. k >= 4 + 1 => raw[4] = Eol /\ raw[4 + 1] = Eol
    BY <1>1, <1>5, <1>6
  <2>3. 4 \in Nat \ {0} /\ 4 + 1 = 5
    OBVIOUS
  <2> QED
    BY <1>5, <2>1, <2>2, <2>3, HeadEnds
<1>8. CASE ~(k >= 5)
  <2>1. ParseResponse(raw) = Lost
    BY <1>7, <1>8, HeadlessIsLost
  <2>2. k # n + 5
    BY <1>6, <1>8
  <2> QED
    BY <1>1, <2>1, <2>2 DEF raw, F
<1>9. CASE k >= 5
  <2> DEFINE rest == SubSeq(raw, 6, k)
  <2>1. EndOfHead(raw) = 4
    BY <1>7, <1>9
  <2>2. raw[1] = x /\ raw[2] = Eol /\ raw[3] = y /\ raw[4] = Eol
    <3>1. 1 \in 1 .. k /\ 2 \in 1 .. k /\ 3 \in 1 .. k /\ 4 \in 1 .. k
      BY <1>6, <1>9
    <3> QED
      BY <1>1, <1>5, <3>1, Zenon
  <2>3. \A i \in 2 .. 4 : i = 2 \/ i = 3 \/ i = 4
    OBVIOUS
  <2>4. 2 \in 2 .. 4 /\ 3 \in 2 .. 4 /\ 4 \in 2 .. 4
    OBVIOUS
  <2>5. Headers(raw) = {y}
    BY <1>3, <2>1, <2>2, <2>3, <2>4 DEF Headers
  <2>6. Lengths(raw) = {n}
    BY <1>3, <2>5 DEF Lengths
  <2>7. Encodings(raw) = {}
    BY <1>3, <2>1, <2>2, <2>3 DEF Encodings
  <2>8. Cardinality(Lengths(raw)) <= 1 /\ Cardinality(Encodings(raw)) <= 1
    <3>1. Cardinality({n}) = 1
      BY FS_Singleton, Zenon
    <3>2. Cardinality(Lengths(raw)) = 1
      BY <2>6, <3>1, Zenon
    <3>3. Cardinality(Encodings(raw)) = 0
      BY <2>7, FS_EmptySet, Zenon
    <3> QED
      BY <3>2, <3>3
  <2>9. SubSeq(raw, 4 + 2, Len(raw)) = rest
    BY <1>5
  <2>10. Len(rest) = k - 5
    <3>1. 5 \in 0 .. Len(raw) /\ 5 + 1 = 6
      BY <1>5, <1>6, <1>9
    <3> QED
      BY <1>5, <3>1, BehindFacts
  <2>11. k = n + 5 => rest = body
    <3> SUFFICES ASSUME k = n + 5 PROVE rest = body
      OBVIOUS
    <3>1. HasAt(raw, 5, body)
      <4>1. ASSUME NEW i \in 1 .. n PROVE raw[5 + i] = body[i]
        <5>1. 5 + i \in 1 .. k
          BY <1>6
        <5>2. F[5 + i] = body[i]
          BY <1>1 DEF HasAt, n
        <5> QED
          BY <1>5, <5>1, <5>2
      <4> QED
        BY <4>1 DEF HasAt, n
    <3>2. 5 \in Nat /\ 5 + n <= Len(raw) /\ 5 + 1 = 6 /\ 5 + n = k
      BY <1>5, <1>6
    <3>3. SubSeq(raw, 5 + 1, 5 + n) = body
      BY <1>2, <1>5, <3>1, <3>2, Excerpt DEF n
    <3> QED
      BY <3>2, <3>3, Zenon
  <2>12. LengthHolds(rest, n) <=> k = n + 5
    <3>1. (k - 5 = n) <=> (k = n + 5)
      BY <1>6
    <3> QED
      BY <2>10, <3>1 DEF LengthHolds
  <2> HIDE DEF rest
  <2>13. ParseResponse(raw) = IF LengthHolds(rest, n) THEN Whole(rest) ELSE Lost
    <3>1. raw[1][1] = "status" /\ raw[1][2] = 200 /\ 200 >= 200 /\ 4 # 0
      BY <1>3, <2>2
    <3>2. \A h \in Headers(raw) : h[1] \in {"length", "encoding", "other"}
      BY <1>3, <2>5
    <3>3. Lengths(raw) = {} \/ Encodings(raw) = {}
      BY <2>7
    <3>4. (\A m \in Lengths(raw) : LengthHolds(rest, m)) <=> LengthHolds(rest, n)
      BY <2>6
    <3>5. \A i \in Encodings(raw) : raw[i][2] = "chunked"
      BY <2>7
    <3> QED
      BY <2>1, <2>7, <2>8, <2>9, <3>1, <3>2, <3>3, <3>4, <3>5 DEF ParseResponse, Whole
  <2> QED
    BY <1>1, <2>11, <2>12, <2>13 DEF raw, F
<1> QED
  BY <1>8, <1>9

\* Of a response that is framed by the end of the connection, what arrived is taken.
LEMMA CloseCut ==
  ASSUME NEW body, body \in Seq(ToSet(body)),
         NEW k \in 0 .. Len(Framed(200, body, "close"))
  PROVE  \/ k < 3 /\ ParseResponse(SubSeq(Framed(200, body, "close"), 1, k)) = Lost
         \/ /\ k >= 3
            /\ \E rest : /\ ParseResponse(SubSeq(Framed(200, body, "close"), 1, k)) = Whole(rest)
                         /\ IsPrefix(rest, body)
                         /\ k = Len(Framed(200, body, "close")) => rest = body
<1> DEFINE R == Tokens(body)
           F == Framed(200, body, "close")
           n == Len(body)
           raw == SubSeq(F, 1, k)
           x == <<"status", 200>>
<1>1. /\ F \in Seq(R) /\ Len(F) = n + 3 /\ n \in Nat
      /\ F[1] = x /\ F[2] = Eol /\ F[3] = Eol
      /\ HasAt(F, 3, body)
  BY CloseFramed
<1>2. body \in Seq(R)
  BY TokensOfBody
<1>3. x # Eol /\ x[1] = "status" /\ x[2] = 200 /\ Eol[1] = "eol"
  BY DEF Eol
<1>4. k \in 0 .. Len(F)
  OBVIOUS
<1> HIDE DEF R, F
<1>5. raw \in Seq(R) /\ Len(raw) = k /\ \A i \in 1 .. k : raw[i] = F[i]
  BY <1>1, <1>4, CutFacts
<1>6. k \in Nat /\ n \in Nat /\ k <= n + 3
  BY <1>1, <1>4
<1> HIDE DEF raw, x, n
<1>7. EndOfHead(raw) = IF k >= 3 THEN 2 ELSE 0
  <2>1. ASSUME NEW i \in 1 .. 2 - 1, i + 1 <= k PROVE ~(raw[i] = Eol /\ raw[i + 1] = Eol)
    <3>1. raw[i] = F[i] /\ i = 1
      BY <1>5, <1>6, <2>1
    <3>2. F[1] # Eol
      BY <1>1, <1>3
    <3> QED
      BY <3>1, <3>2
  <2>2. k >= 2 + 1 => raw[2] = Eol /\ raw[2 + 1] = Eol
    BY <1>1, <1>5, <1>6
  <2>3. 2 \in Nat \ {0} /\ 2 + 1 = 3
    OBVIOUS
  <2> QED
    BY <1>5, <2>1, <2>2, <2>3, HeadEnds
<1>8. CASE ~(k >= 3)
  <2>1. ParseResponse(raw) = Lost
    BY <1>7, <1>8, HeadlessIsLost
  <2>2. k < 3
    BY <1>6, <1>8
  <2> QED
    BY <2>1, <2>2 DEF raw, F
<1>9. CASE k >= 3
  <2> DEFINE rest == SubSeq(raw, 4, k)
  <2>1. EndOfHead(raw) = 2
    BY <1>7, <1>9
  <2>2. raw[1] = x /\ raw[2] = Eol
    <3>1. 1 \in 1 .. k /\ 2 \in 1 .. k
      BY <1>6, <1>9
    <3> QED
      BY <1>1, <1>5, <3>1, Zenon
  <2>3. \A i \in 2 .. 2 : i = 2
    OBVIOUS
  <2>5. Headers(raw) = {}
    BY <2>1, <2>2, <2>3 DEF Headers
  <2>6. Lengths(raw) = {}
    BY <2>5 DEF Lengths
  <2>7. Encodings(raw) = {}
    BY <1>3, <2>1, <2>2, <2>3 DEF Encodings
  <2>8. Cardinality(Lengths(raw)) <= 1 /\ Cardinality(Encodings(raw)) <= 1
    BY <2>6, <2>7, FS_EmptySet
  <2>9. SubSeq(raw, 2 + 2, Len(raw)) = rest
    BY <1>5
  <2>10. rest \in Seq(R) /\ Len(rest) = k - 3 /\ \A i \in 1 .. k - 3 : rest[i] = raw[3 + i]
    <3>1. 3 \in 0 .. Len(raw) /\ 3 + 1 = 4
      BY <1>5, <1>6, <1>9
    <3> QED
      BY <1>5, <3>1, BehindFacts
  <2> HIDE DEF rest
  <2>11. k - 3 \in 0 .. n
    BY <1>6, <1>9
  <2>12. \A i \in 1 .. k - 3 : rest[i] = body[i]
    <3> SUFFICES ASSUME NEW i \in 1 .. k - 3 PROVE rest[i] = body[i]
      OBVIOUS
    <3>1. 3 + i \in 1 .. k /\ i \in 1 .. n
      BY <1>6, <1>9
    <3>2. F[3 + i] = body[i]
      BY <1>1, <3>1 DEF HasAt, n
    <3> QED
      BY <1>5, <2>10, <3>1, <3>2
  <2>13. IsPrefix(rest, body)
    <3> DEFINE l == k - 3
               s == SubSeq(rest, 1, l)
               t == SubSeq(body, 1, l)
    <3>1. s \in Seq(R) /\ Len(s) = l /\ \A i \in 1 .. l : s[i] = rest[i]
      <4>1. l \in 0 .. Len(rest)
        BY <1>6, <1>9, <2>10
      <4> HIDE DEF l
      <4> QED
        BY <2>10, <4>1, CutFacts
    <3>2. t \in Seq(R) /\ Len(t) = l /\ \A i \in 1 .. l : t[i] = body[i]
      <4>1. l \in 0 .. Len(body)
        BY <2>11 DEF n
      <4> HIDE DEF l
      <4> QED
        BY <1>2, <4>1, CutFacts
    <3> HIDE DEF s, t
    <3>3. s = t
      <4>1. s \in Seq(R) /\ t \in Seq(R) /\ Len(s) = Len(t) /\ \A i \in 1 .. Len(s) : s[i] = t[i]
        BY <2>12, <3>1, <3>2
      <4> QED
        BY <4>1
    <3>4. Len(rest) <= Len(body)
      BY <1>6, <2>10, <2>11 DEF n
    <3> QED
      BY <2>10, <3>3, <3>4, Zenon DEF IsPrefix, s, t, l
  <2>14. k = n + 3 => rest = body
    <3> SUFFICES ASSUME k = n + 3 PROVE rest = body
      OBVIOUS
    <3>1. Len(rest) = n /\ k - 3 = n
      BY <1>6, <2>10
    <3>2. rest \in Seq(R) /\ body \in Seq(R) /\ Len(rest) = Len(body) /\ \A i \in 1 .. Len(rest) : rest[i] = body[i]
      BY <1>2, <2>10, <2>12, <3>1 DEF n
    <3> QED
      BY <3>2
  <2>15. ParseResponse(raw) = Whole(rest)
    <3>1. raw[1][1] = "status" /\ raw[1][2] = 200 /\ 200 >= 200 /\ 2 # 0
      BY <1>3, <2>2
    <3> QED
      BY <2>1, <2>5, <2>6, <2>7, <2>8, <2>9, <3>1 DEF ParseResponse, Whole
  <2> QED
    BY <1>1, <1>9, <2>13, <2>14, <2>15 DEF raw, F
<1> QED
  BY <1>8, <1>9

\* The size of a chunk is a number, and no piece of a body is one.
LEMMA SizesAreNumbers ==
  ASSUME NEW body, \A i \in DOMAIN body : body[i] = Piece(body[i][2])
  PROVE  \A x \in Tokens(body) : x[1] = "size" => x[2] \in Nat
<1> SUFFICES ASSUME NEW x \in Tokens(body), x[1] = "size" PROVE x[2] \in Nat
  OBVIOUS
<1>1. x \notin ToSet(body)
  <2> SUFFICES ASSUME x \in ToSet(body) PROVE FALSE
    OBVIOUS
  <2>1. PICK i \in DOMAIN body : body[i] = x
    BY Zenon DEF ToSet
  <2>2. x = Piece(body[i][2])
    BY <2>1, Zenon
  <2>3. x[1] = "piece"
    BY <2>2 DEF Piece
  <2> QED
    BY <2>3
<1>2. x # Eol /\ x # <<"encoding", "chunked">>
  BY DEF Eol
<1>3. x \in {"status", "length", "size"} \X Nat
  BY <1>1, <1>2, Zenon DEF Tokens
<1> QED
  BY <1>3

\* A response in chunks is read once the line with the size of the last one has
\* arrived, and not before.
LEMMA ChunkedCut ==
  ASSUME NEW body, body \in Seq(ToSet(body)), Len(body) >= 2,
         \A i \in DOMAIN body : body[i] = Piece(body[i][2]),
         NEW k \in 0 .. Len(Framed(200, body, "chunked"))
  PROVE  ParseResponse(SubSeq(Framed(200, body, "chunked"), 1, k)) =
           IF k + 1 >= Len(Framed(200, body, "chunked")) THEN Whole(body) ELSE Lost
<1> DEFINE R == Tokens(body)
           F == Framed(200, body, "chunked")
           raw == SubSeq(F, 1, k)
           x == <<"status", 200>>
           y == <<"encoding", "chunked">>
<1>1. PICK p, q : IsChunked(F, body, p, q)
  BY ChunkedFramed
<1> DEFINE n == Len(p) + Len(q)
<1>2. /\ F \in Seq(R) /\ Len(F) = n + 14 /\ n \in Nat
      /\ F[1] = x /\ F[2] = Eol /\ F[3] = y /\ F[4] = Eol /\ F[5] = Eol
  <2> HIDE DEF F, x, y, n
  <2>1. /\ F \in Seq(R) /\ Len(p) \in Nat /\ Len(q) \in Nat /\ Len(F) = Len(p) + Len(q) + 14
        /\ F[1] = x /\ F[2] = Eol /\ F[3] = y /\ F[4] = Eol /\ F[5] = Eol
    BY <1>1, Zenon DEF IsChunked, x, y
  <2> HIDE DEF R
  <2>2. n \in Nat /\ Len(F) = n + 14
    BY <2>1 DEF n
  <2> QED
    BY <2>1, <2>2
<1>3. x # Eol /\ y # Eol /\ x[1] = "status" /\ x[2] = 200 /\ y[1] = "encoding" /\ y[2] = "chunked" /\ Eol[1] = "eol"
  BY DEF Eol
<1>4. k \in 0 .. Len(F)
  OBVIOUS
<1> HIDE DEF R, F
<1>5. raw \in Seq(R) /\ Len(raw) = k /\ \A i \in 1 .. k : raw[i] = F[i]
  BY <1>2, <1>4, CutFacts
<1>6. k \in Nat /\ n \in Nat /\ k <= n + 14
  BY <1>2, <1>4
<1> HIDE DEF raw, x, y, n
<1>7. EndOfHead(raw) = IF k >= 5 THEN 4 ELSE 0
  <2>1. ASSUME NEW i \in 1 .. 4 - 1, i + 1 <= k PROVE ~(raw[i] = Eol /\ raw[i + 1] = Eol)
    <3>1. raw[i] = F[i] /\ raw[i + 1] = F[i + 1]
      BY <1>5, <1>6, <2>1
    <3>2. i = 1 \/ i = 2 \/ i = 3
      OBVIOUS
    <3>3. F[1] # Eol /\ F[3] # Eol
      BY <1>2, <1>3
    <3> QED
      BY <3>1, <3>2, <3>3
  <2>2. k >= 4 + 1 => raw[4] = Eol /\ raw[4 + 1] = Eol
    BY <1>2, <1>5, <1>6
  <2>3. 4 \in Nat \ {0} /\ 4 + 1 = 5
    OBVIOUS
  <2> QED
    BY <1>5, <2>1, <2>2, <2>3, HeadEnds
<1>8. CASE ~(k >= 5)
  <2>1. ParseResponse(raw) = Lost
    BY <1>7, <1>8, HeadlessIsLost
  <2>2. ~(k + 1 >= n + 14)
    BY <1>6, <1>8
  <2> QED
    BY <1>2, <2>1, <2>2 DEF raw, F
<1>9. CASE k >= 5
  <2> DEFINE rest == SubSeq(raw, 6, k)
  <2>1. EndOfHead(raw) = 4
    BY <1>7, <1>9
  <2>2. raw[1] = x /\ raw[2] = Eol /\ raw[3] = y /\ raw[4] = Eol
    <3>1. 1 \in 1 .. k /\ 2 \in 1 .. k /\ 3 \in 1 .. k /\ 4 \in 1 .. k
      BY <1>6, <1>9
    <3> QED
      BY <1>2, <1>5, <3>1, Zenon
  <2>3. \A i \in 2 .. 4 : i = 2 \/ i = 3 \/ i = 4
    OBVIOUS
  <2>4. 2 \in 2 .. 4 /\ 3 \in 2 .. 4 /\ 4 \in 2 .. 4
    OBVIOUS
  <2>5. Headers(raw) = {y}
    BY <1>3, <2>1, <2>2, <2>3, <2>4 DEF Headers
  <2>6. Lengths(raw) = {}
    BY <1>3, <2>5 DEF Lengths
  <2>7. Encodings(raw) = {3}
    BY <1>3, <2>1, <2>2, <2>3, <2>4 DEF Encodings
  <2>8. Cardinality(Lengths(raw)) <= 1 /\ Cardinality(Encodings(raw)) <= 1
    <3>1. Cardinality({3}) = 1
      BY FS_Singleton, Zenon
    <3>2. Cardinality(Encodings(raw)) = 1
      BY <2>7, <3>1, Zenon
    <3>3. Cardinality(Lengths(raw)) = 0
      BY <2>6, FS_EmptySet, Zenon
    <3> QED
      BY <3>2, <3>3
  <2>9. SubSeq(raw, 4 + 2, Len(raw)) = rest
    BY <1>5
  <2>10. rest \in Seq(R) /\ Len(rest) = k - 5 /\ \A i \in 1 .. k - 5 : rest[i] = raw[5 + i]
    <3>1. 5 \in 0 .. Len(raw) /\ 5 + 1 = 6
      BY <1>5, <1>6, <1>9
    <3> QED
      BY <1>5, <3>1, BehindFacts
  <2> HIDE DEF rest
  <2>11. Dechunk(rest) = IF k - 5 >= n + 8 THEN [ok |-> TRUE, status |-> 0, body |-> body] ELSE Lost
    <3>1. Len(rest) <= n + 9
      BY <1>6, <2>10
    <3>2. \A i \in 1 .. Len(rest) : rest[i] = F[5 + i]
      <4> SUFFICES ASSUME NEW i \in 1 .. k - 5 PROVE rest[i] = F[5 + i]
        BY <2>10
      <4>1. 5 + i \in 1 .. k
        BY <1>6, <1>9
      <4> QED
        BY <1>5, <2>10, <4>1
    <3>3. \A i \in 1 .. Len(rest) : rest[i][1] = "size" => rest[i][2] \in Nat
      <4>1. \A t \in R : t[1] = "size" => t[2] \in Nat
        BY SizesAreNumbers DEF R
      <4>2. \A i \in 1 .. Len(rest) : rest[i] \in R
        BY <2>10
      <4> QED
        BY <4>1, <4>2, Zenon
    <3>4. rest \in Seq(Tokens(body))
      BY <2>10 DEF R
    <3>5. Len(rest) <= Len(p) + Len(q) + 9
      BY <3>1 DEF n
    <3>6. Dechunk(rest) = IF Len(rest) >= Len(p) + Len(q) + 8
                          THEN [ok |-> TRUE, status |-> 0, body |-> body] ELSE Lost
      BY <1>1, <3>2, <3>3, <3>4, <3>5, ChunksAreRead
    <3> QED
      BY <2>10, <3>6 DEF n
  <2>12. k - 5 >= n + 8 <=> k + 1 >= n + 14
    BY <1>6
  <2>13. ParseResponse(raw) = IF Dechunk(rest).ok THEN Whole(Dechunk(rest).body) ELSE Lost
    <3>1. raw[1][1] = "status" /\ raw[1][2] = 200 /\ 200 >= 200 /\ 4 # 0
      BY <1>3, <2>2
    <3>2. \A h \in Headers(raw) : h[1] \in {"length", "encoding", "other"}
      BY <1>3, <2>5
    <3>3. \A m \in Lengths(raw) : LengthHolds(rest, m)
      BY <2>6
    <3>4. \A i \in Encodings(raw) : raw[i][2] = "chunked"
      BY <1>3, <2>2, <2>7
    <3>5. Encodings(raw) # {}
      BY <2>7
    <3> QED
      BY <2>1, <2>6, <2>8, <2>9, <3>1, <3>2, <3>3, <3>4, <3>5 DEF ParseResponse, Whole
  <2>14. ParseResponse(raw) = IF k + 1 >= n + 14 THEN Whole(body) ELSE Lost
    BY <2>11, <2>12, <2>13 DEF Lost
  <2> QED
    BY <1>2, <2>14 DEF raw, F
<1> QED
  BY <1>8, <1>9

\* What the transport makes of a response of which some arrived.
LEMMA ResponseIsTaken ==
  ASSUME NEW body \in Bodies, NEW framing \in {"length", "chunked", "close"},
         NEW arrived \in Nat, NEW closed \in BOOLEAN, AskGateway(body, framing, arrived, closed)
  PROVE  AnswersAreWhole'
<1> DEFINE F == Framed(200, body, framing)
           http == Post(SubSeq(F, 1, arrived), closed)
<1>1. /\ arrived <= Len(F)
      /\ asked' = [codec |-> "gateway", body |-> body, framing |-> framing,
                   complete |-> closed /\ arrived = Len(F) /\ arrived <= MaxResponse]
      /\ answer' = [ok |-> http.ok, body |-> http.body]
  BY Zenon DEF AskGateway
<1>2. /\ body \in Seq(ToSet(body)) /\ Len(body) >= 2
      /\ \A i \in DOMAIN body : body[i] = Piece(body[i][2])
  BY BodiesAssumption
<1> DEFINE R == Tokens(body)
<1>3. F \in Seq(R)
  <2>1. CASE framing = "length"
    BY <1>2, <2>1, LengthFramed
  <2>2. CASE framing = "close"
    BY <1>2, <2>2, CloseFramed
  <2>3. CASE framing = "chunked"
    <3>1. PICK p, q : IsChunked(F, body, p, q)
      BY <1>2, <2>3, ChunkedFramed
    <3> QED
      BY <3>1 DEF IsChunked
  <2> QED
    BY <2>1, <2>2, <2>3
<1> HIDE DEF R
<1>4. arrived \in 0 .. Len(F) /\ Len(SubSeq(F, 1, arrived)) = arrived
  <2> HIDE DEF F
  <2>1. arrived \in 0 .. Len(F)
    BY <1>1, <1>3
  <2> QED
    BY <1>3, <2>1, CutFacts
<1> DEFINE read == ParseResponse(SubSeq(F, 1, arrived))
<1>5. http = IF closed /\ arrived <= MaxResponse THEN read ELSE Lost
  BY <1>4 DEF Post
<1>6. /\ read.ok /\ framing # "close" => read.body = body
      /\ read.ok => IsPrefix(read.body, body)
      /\ arrived = Len(F) => read.ok /\ read.body = body
  <2>1. Whole(body).ok /\ Whole(body).body = body /\ ~Lost.ok /\ IsPrefix(body, body)
    <3>1. Len(body) <= Len(body)
      BY <1>2
    <3> QED
      BY <3>1 DEF Whole, Lost, IsPrefix
  <2>2. CASE framing = "length"
    <3>1. read = IF arrived = Len(F) THEN Whole(body) ELSE Lost
      BY <1>2, <1>4, <2>2, LengthCut
    <3> HIDE DEF read
    <3> QED
      BY <2>1, <3>1
  <2>3. CASE framing = "chunked"
    <3>1. read = IF arrived + 1 >= Len(F) THEN Whole(body) ELSE Lost
      BY <1>2, <1>4, <2>3, ChunkedCut
    <3>2. arrived = Len(F) => arrived + 1 >= Len(F)
      BY <1>4
    <3> HIDE DEF read
    <3> QED
      BY <2>1, <3>1, <3>2
  <2>4. CASE framing = "close"
    <3>1. \/ arrived < 3 /\ read = Lost
          \/ /\ arrived >= 3
             /\ \E rest : /\ read = Whole(rest) /\ IsPrefix(rest, body)
                          /\ arrived = Len(F) => rest = body
      BY <1>2, <1>4, <2>4, CloseCut
    <3>2. Len(F) >= 3
      BY <1>2, <2>4, CloseFramed
    <3>3. arrived = Len(F) => ~(arrived < 3)
      <4> HIDE DEF F, read
      <4> QED
        BY <3>2
    <3> HIDE DEF read, F
    <3> QED
      BY <2>1, <2>4, <3>1, <3>3 DEF Whole
  <2> QED
    BY <2>2, <2>3, <2>4
<1>7. ~Lost.ok
  BY DEF Lost
<1> HIDE DEF http, F, read
<1> QED
  BY <1>1, <1>5, <1>6, <1>7 DEF AnswersAreWhole

\* A framed body of a gateway's answer is taken whole or not at all, wherever it
\* was cut, and of one that only the end of the connection ends what arrived is
\* taken; a whole answer is read (post, parse_response, dechunk): for any body
\* and any limit of a response.
THEOREM AnswersAreTakenWhole == ResponseSpec => []AnswersAreWhole
<1>1. NothingAsked => AnswersAreWhole
  BY DEF NothingAsked, AnswersAreWhole
<1>2. AnswersAreWhole /\ [AskForResponse \/ AnotherIsAsked({"gateway"})]_exchange => AnswersAreWhole'
  <2> SUFFICES ASSUME AnswersAreWhole, [AskForResponse \/ AnotherIsAsked({"gateway"})]_exchange
               PROVE  AnswersAreWhole'
    OBVIOUS
  <2>1. CASE AskForResponse
    <3>1. PICK body \in Bodies, framing \in {"length", "chunked", "close"},
               arrived \in 0 .. MaxResponse + 1, closed \in BOOLEAN :
                 AskGateway(body, framing, arrived, closed)
      BY <2>1, Zenon DEF AskForResponse
    <3>2. arrived \in Nat
      BY ResponseAssumption
    <3> QED
      BY <3>1, <3>2, ResponseIsTaken
  <2>2. CASE AnotherIsAsked({"gateway"})
    BY <2>2 DEF AnotherIsAsked, AnswersAreWhole
  <2>3. CASE UNCHANGED exchange
    BY <2>3 DEF exchange, AnswersAreWhole
  <2> QED
    BY <2>1, <2>2, <2>3
<1> QED
  BY <1>1, <1>2, PTL DEF ResponseSpec

-----------------------------------------------------------------------------
USE ChainAssumption

\* A call in progress has no result; it asks a node for the chain only when it
\* can hold no roster; it looks for events only in the transaction's block.
CallInv ==
  /\ pc # "idle" => result = Failed
  /\ pc = "node" => ~CanAnchor /\ ~ConfiguredMainnet
  /\ pc \in {"events", "event"} => kind = "event" /\ block \in BlocksOf(tx)
  /\ pc = "event" => listed \in Seq(Listing) /\ position \in 0 .. Len(listed)
  /\ pc # "event" => position = 0

\* The event of the block that confirms the call.
Confirms(e) == e.tx = tx /\ Answers(e)

\* A truthful gateway listed the events of the block, and the call has passed
\* none that confirms it.
SearchInv ==
  honest /\ pc = "event" =>
    /\ listed = TrueListing(block)
    /\ \A i \in 1 .. position : ~Confirms(Chain[block].events[i])

-----------------------------------------------------------------------------
\* An inclusion that verifies is in the block.
LEMMA IncludedIsInBlock ==
  ASSUME NEW h \in Heights, NEW t, NEW path, VerifyInclusion(Chain[h].txs, t, path)
  PROVE  h \in BlocksOf(t)
  BY DEF VerifyInclusion, BlocksOf, ToSet

\* A function of the first numbers is a sequence.
LEMMA ListType ==
  ASSUME NEW S, NEW n \in Nat, NEW list \in [1 .. n -> S]
  PROVE  list \in Seq(S) /\ Len(list) = n
  OBVIOUS

\* The true list has an entry for every event, which answers as the event does.
LEMMA TrueListed ==
  ASSUME NEW h \in Heights, TrueListing(h) \in Seq(Listing)
  PROVE  /\ Len(TrueListing(h)) = Len(Chain[h].events)
         /\ \A i \in 1 .. Len(Chain[h].events) :
              Answers(TrueListing(h)[i]) <=> Answers(Chain[h].events[i])
<1>1. DOMAIN Chain[h].events = 1 .. Len(Chain[h].events) /\ Len(Chain[h].events) \in Nat
  OBVIOUS
<1>2. DOMAIN TrueListing(h) = 1 .. Len(TrueListing(h)) /\ Len(TrueListing(h)) \in Nat
  OBVIOUS
<1>3. DOMAIN TrueListing(h) = DOMAIN Chain[h].events
  BY DEF TrueListing
<1>4. Len(TrueListing(h)) = Len(Chain[h].events)
  BY <1>1, <1>2, <1>3
<1>5. \A i \in 1 .. Len(Chain[h].events) :
        /\ TrueListing(h)[i].topic = Chain[h].events[i].topic
        /\ TrueListing(h)[i].data = Chain[h].events[i].data
  BY <1>1 DEF TrueListing
<1> QED
  BY <1>4, <1>5 DEF Answers

-----------------------------------------------------------------------------
\* Every action keeps what a call in progress relies on.
THEOREM CallInvariant == Spec => []CallInv
<1>1. Init => CallInv
  BY DEF Init, CallInv
<1>2. CallInv /\ [Next]_vars => CallInv'
  <2> SUFFICES ASSUME CallInv, [Next]_vars PROVE CallInv'
    OBVIOUS
  <2> USE DEF CallInv, call, CanAnchor, ConfiguredMainnet, Return
  <2>1. CASE TrustRoster
    BY <2>1 DEF TrustRoster
  <2>2. ASSUME NEW k \in Kinds, NEW t \in Txs, NEW q \in Question, NEW h \in BOOLEAN, Begin(k, t, q, h)
        PROVE  CallInv'
    BY <2>2 DEF Begin
  <2>3. CASE ReportPending
    BY <2>3 DEF ReportPending
  <2>4. ASSUME NEW h \in Heights, ReportFinalised(h) PROVE CallInv'
    BY <2>4 DEF ReportFinalised
  <2>5. CASE Anchor
    BY <2>5 DEF Anchor
  <2>6. CASE NoAnchor
    BY <2>6 DEF NoAnchor
  <2>7. ASSUME NEW c \in Chains, Unverified(c) PROVE CallInv'
    BY <2>7 DEF Unverified
  <2>8. ASSUME NEW c \in Chains, CheckedChain(c) PROVE CallInv'
    BY <2>8 DEF CheckedChain
  <2>9. ASSUME NEW h \in Heights, NEW index \in 0 .. MaxIndex, NEW path \in Paths,
               ProveInclusion(h, index, path)
        PROVE  CallInv'
    <3>1. h \in BlocksOf(tx)
      BY <2>9, IncludedIsInBlock DEF ProveInclusion
    <3> QED
      BY <2>9, <3>1 DEF ProveInclusion, BlocksOf
  <2>10. ASSUME NEW n \in 0 .. MaxEvents, NEW list \in [1 .. n -> Listing], ListEvents(list)
         PROVE  CallInv'
    <3>1. list \in Seq(Listing) /\ Len(list) \in Nat
      BY ListType
    <3> QED
      BY <2>10, <3>1 DEF ListEvents, BlocksOf
  <2>11. CASE SkipEvent
    BY <2>11 DEF SkipEvent, BlocksOf
  <2>12. ASSUME NEW event \in [tx : Txs, topic : Topics, data : Data], NEW path \in Paths,
                ProveEvent(event, path)
         PROVE  CallInv'
    BY <2>12 DEF ProveEvent, BlocksOf
  <2>13. CASE NoEvent
    BY <2>13 DEF NoEvent
  <2>14. CASE Fail
    BY <2>14 DEF Fail
  <2>15. CASE UNCHANGED vars
    BY <2>15 DEF vars, BlocksOf
  <2> QED
    BY <2>1, <2>2, <2>3, <2>4, <2>5, <2>6, <2>7, <2>8, <2>9, <2>10, <2>11, <2>12, <2>13, <2>14,
       <2>15 DEF Next
<1> QED
  BY <1>1, <1>2, PTL DEF Spec

\* What is reported of a transaction was proved.
THEOREM ReportsAreProved == Spec => []StatusIsProved
<1>1. Init => StatusIsProved
  BY DEF Init, StatusIsProved, Failed, Returned
<1>2. CallInv /\ StatusIsProved /\ [Next]_vars => StatusIsProved'
  <2> SUFFICES ASSUME CallInv, StatusIsProved, [Next]_vars PROVE StatusIsProved'
    OBVIOUS
  <2> USE DEF StatusIsProved, call, CanAnchor, ConfiguredMainnet, IsCall
  <2>a. ASSUME result' = Failed PROVE StatusIsProved'
    BY <2>a DEF Failed, Returned
  <2>b. ASSUME UNCHANGED <<result, tx, network, trusted>> PROVE StatusIsProved'
    BY <2>b DEF BlocksOf
  <2>1. CASE ReportPending
    BY <2>1 DEF ReportPending, Return, Returned
  <2>2. ASSUME NEW c \in Chains, Unverified(c) PROVE StatusIsProved'
    BY <2>2 DEF Unverified, Return, Returned, CallInv
  <2>3. ASSUME NEW h \in Heights, NEW index \in 0 .. MaxIndex, NEW path \in Paths,
               ProveInclusion(h, index, path)
        PROVE  StatusIsProved'
    <3>1. h \in BlocksOf(tx)
      BY <2>3, IncludedIsInBlock DEF ProveInclusion
    <3>2. CASE kind = "event"
      BY <2>3, <2>b, <3>2 DEF ProveInclusion
    <3>3. CASE kind # "event"
      <4>1. result' = Confirmed(h, index) /\ tx' = tx
        BY <2>3, <3>3 DEF ProveInclusion, Return
      <4>2. h \in BlocksOf(tx)'
        BY <3>1, <4>1 DEF BlocksOf
      <4>3. \/ Confirmed(h, index) = Failed
            \/ /\ Confirmed(h, index).height = h
               /\ Confirmed(h, index).is \in IF IsCall(tx) THEN {"included", "unproven"}
                                             ELSE {"finalised", "applied"}
        BY DEF Confirmed, Returned
      <4>4. CASE Confirmed(h, index) = Failed
        BY <2>a, <4>1, <4>4
      <4>5. CASE Confirmed(h, index) # Failed
        BY <4>1, <4>2, <4>3, <4>5
      <4> QED
        BY <4>4, <4>5
    <3> QED
      BY <3>2, <3>3
  <2>4. ASSUME NEW event \in [tx : Txs, topic : Topics, data : Data], NEW path \in Paths,
               ProveEvent(event, path)
        PROVE  StatusIsProved'
    <3>1. CASE ProvesCall(event, path)
      <4>1. /\ result' = Returned("event", block, position) /\ tx' = tx
            /\ block \in BlocksOf(tx)
        BY <2>4, <3>1 DEF ProveEvent, Return, CallInv
      <4> QED
        BY <4>1 DEF Returned, BlocksOf
    <3>2. CASE ~ProvesCall(event, path)
      BY <2>4, <2>b, <3>2 DEF ProveEvent
    <3> QED
      BY <3>1, <3>2
  <2>5. CASE \/ TrustRoster \/ NoEvent \/ Fail
             \/ \E k \in Kinds, t \in Txs, q \in Question, h \in BOOLEAN : Begin(k, t, q, h)
    BY <2>5, <2>a DEF TrustRoster, NoEvent, Fail, Begin, Return
  <2>6. CASE Anchor
    <3>1. result' = Failed
      BY <2>6 DEF Anchor, CallInv
    <3> QED
      BY <2>a, <3>1
  <2>7. CASE NoAnchor
    BY <2>7, <2>a, <2>b DEF NoAnchor, Return
  <2>8. CASE \/ \E h \in Heights : ReportFinalised(h)
             \/ \E c \in Chains : CheckedChain(c)
             \/ \E n \in 0 .. MaxEvents : \E list \in [1 .. n -> Listing] : ListEvents(list)
             \/ SkipEvent
    BY <2>8, <2>b DEF ReportFinalised, CheckedChain, ListEvents, SkipEvent
  <2>9. CASE UNCHANGED vars
    BY <2>9, <2>b DEF vars
  <2> QED
    BY <2>1, <2>2, <2>3, <2>4, <2>5, <2>6, <2>7, <2>8, <2>9 DEF Next
<1> QED
  BY <1>1, <1>2, CallInvariant, PTL DEF Spec

\* A call is confirmed by an event of its own transaction.
THEOREM EventsAreProved == Spec => []EventIsProven
<1>1. Init => EventIsProven
  BY DEF Init, EventIsProven, Failed, Returned
<1>2. CallInv /\ EventIsProven /\ [Next]_vars => EventIsProven'
  <2> SUFFICES ASSUME CallInv, EventIsProven, [Next]_vars, result'.is = "event" PROVE EventIsProven'
    BY DEF EventIsProven
  <2>1. ASSUME UNCHANGED <<result, tx, question>> PROVE EventIsProven'
    BY <2>1 DEF EventIsProven, Answers
  <2>2. ASSUME NEW event \in [tx : Txs, topic : Topics, data : Data], NEW path \in Paths,
               ProveEvent(event, path)
        PROVE  EventIsProven'
    <3>1. CASE ProvesCall(event, path)
      <4>1. result'.height = block /\ UNCHANGED <<tx, question>>
        BY <2>2, <3>1 DEF ProveEvent, Return, Returned, call
      <4>2. event \in ToSet(Chain[block].events) /\ event.tx = tx /\ Answers(event)
        BY <3>1 DEF ProvesCall, VerifyInclusion, ToSet
      <4> QED
        BY <4>1, <4>2 DEF EventIsProven, Answers
    <3>2. CASE ~ProvesCall(event, path)
      BY <2>1, <2>2, <3>2 DEF ProveEvent, call
    <3> QED
      BY <3>1, <3>2
  <2>3. \A h, index : Confirmed(h, index).is # "event"
    BY DEF Confirmed, Returned, Failed
  <2> QED
    BY <2>1, <2>2, <2>3
    DEF Next, TrustRoster, Begin, ReportPending, ReportFinalised, Anchor, NoAnchor, Unverified,
        CheckedChain, ProveInclusion, ListEvents, SkipEvent, NoEvent, Fail, Return, Returned,
        Failed, call, vars
<1> QED
  BY <1>1, <1>2, CallInvariant, PTL DEF Spec

-----------------------------------------------------------------------------
\* With a truthful gateway the search passes no event that confirms the call.
THEOREM SearchInvariant == Spec => []SearchInv
<1>1. Init => SearchInv
  BY DEF Init, SearchInv
<1>2. CallInv /\ SearchInv /\ [Next]_vars => SearchInv'
  <2> SUFFICES ASSUME CallInv, SearchInv, [Next]_vars, honest', pc' = "event" PROVE SearchInv'
    BY DEF SearchInv
  <2>a. ASSUME UNCHANGED <<honest, pc, tx, question, block, listed, position>> PROVE SearchInv'
    BY <2>a DEF SearchInv, Confirms, Answers, TrueListing
  <2>b. ASSUME honest, pc = "event", UNCHANGED <<tx, question, block, listed>>,
               position' = position + 1, position < Len(listed),
               Answers(listed[position + 1]) => Chain[block].events[position + 1].tx # tx
        PROVE  SearchInv'
    <3>1. /\ listed = TrueListing(block) /\ block \in Heights /\ position \in 0 .. Len(listed)
          /\ listed \in Seq(Listing) /\ Len(listed) \in Nat
      BY <2>b DEF SearchInv, CallInv, BlocksOf
    <3>2. /\ Len(listed) = Len(Chain[block].events)
          /\ Answers(listed[position + 1]) <=> Answers(Chain[block].events[position + 1])
      BY <2>b, <3>1, TrueListed
    <3>3. ~Confirms(Chain[block].events[position + 1])
      BY <2>b, <3>2 DEF Confirms
    <3>4. \A i \in 1 .. position : ~Confirms(Chain[block].events[i])
      BY <2>b DEF SearchInv
    <3>5. \A i \in 1 .. position + 1 : ~Confirms(Chain[block].events[i])
      BY <3>1, <3>3, <3>4
    <3> QED
      BY <2>b, <3>1, <3>5 DEF SearchInv, Confirms, Answers, TrueListing
  <2>1. ASSUME NEW n \in 0 .. MaxEvents, NEW list \in [1 .. n -> Listing], ListEvents(list)
        PROVE  SearchInv'
    <3>1. position = 0
      BY <2>1 DEF ListEvents, CallInv
    <3> QED
      BY <2>1, <3>1 DEF ListEvents, call, SearchInv, TrueListing
  <2>2. CASE SkipEvent
    BY <2>2, <2>b DEF SkipEvent, call
  <2>3. ASSUME NEW event \in [tx : Txs, topic : Topics, data : Data], NEW path \in Paths,
               ProveEvent(event, path)
        PROVE  SearchInv'
    <3>1. /\ honest /\ pc = "event" /\ UNCHANGED <<tx, question, block, listed>>
          /\ position' = position + 1 /\ position < Len(listed) /\ ~ProvesCall(event, path)
          /\ event = Chain[block].events[position + 1]
          /\ path = PathOf[Len(listed)][position] /\ Answers(listed[position + 1])
      BY <2>3 DEF ProveEvent, Return, call
    <3>2. /\ listed = TrueListing(block) /\ block \in Heights /\ position \in 0 .. Len(listed)
          /\ listed \in Seq(Listing) /\ Len(listed) \in Nat
      BY <3>1 DEF SearchInv, CallInv, BlocksOf
    <3>3. /\ Len(listed) = Len(Chain[block].events) /\ Answers(event)
          /\ position + 1 \in DOMAIN Chain[block].events
      BY <3>1, <3>2, TrueListed
    <3>4. VerifyInclusion(Chain[block].events, event, path)
      BY <3>1, <3>2, <3>3 DEF VerifyInclusion
    <3>5. event.tx # tx
      BY <3>1, <3>3, <3>4 DEF ProvesCall
    <3> QED
      BY <2>b, <3>1, <3>5
  <2>4. CASE UNCHANGED vars
    BY <2>4, <2>a DEF vars
  <2> QED
    BY <2>1, <2>2, <2>3, <2>4
    DEF Next, TrustRoster, Begin, ReportPending, ReportFinalised, Anchor, NoAnchor, Unverified,
        CheckedChain, ProveInclusion, NoEvent, Fail, Return
<1> QED
  BY <1>1, <1>2, CallInvariant, PTL DEF Spec

\* A truthful gateway is believed, whatever else is in the blocks.
THEOREM TruthIsBelieved == Spec => []HonestGatewayIsBelieved
<1> DEFINE Settled == HonestGatewayIsBelieved
<1>1. Init => Settled
  BY DEF Init, HonestGatewayIsBelieved
<1>2. CallInv /\ SearchInv /\ Settled /\ [Next]_vars => Settled'
  <2> SUFFICES ASSUME CallInv, SearchInv, Settled, [Next]_vars,
                      pc' = "idle", honest', trusted', network'.chain \in {None, RealChain}
               PROVE  Settled'
    BY DEF HonestGatewayIsBelieved
  <2> HIDE DEF Settled
  <2> DEFINE Emitted == \E h \in BlocksOf(tx) : \E e \in ToSet(Chain[h].events) : Confirms(e)
  <2>a. ASSUME /\ kind' = "status" /\ BlocksOf(tx') # {} => result'.is \in {"finalised", "included"},
               UNCHANGED <<tx, question>>, 
               kind' = "event" /\ Emitted =>
                 result'.is = "event" /\ Chain[result'.height].events[result'.index + 1].tx = tx
        PROVE  Settled'
    BY <2>a DEF Settled, HonestGatewayIsBelieved, BlocksOf, Confirms, Answers
  <2>1. CASE ReportPending
    <3>1. BlocksOf(tx) = {}
      BY <2>1 DEF ReportPending, call
    <3>2. UNCHANGED <<tx, question>>
      BY <2>1 DEF ReportPending, call
    <3> QED
      BY <3>1, <3>2, <2>a
  <2>2. CASE NoAnchor
    BY <2>2 DEF NoAnchor, CanAnchor
  <2>3. ASSUME NEW c \in Chains, Unverified(c) PROVE Settled'
    BY <2>3 DEF Unverified, CallInv, CanAnchor
  <2>4. ASSUME NEW h \in Heights, NEW index \in 0 .. MaxIndex, NEW path \in Paths,
               ProveInclusion(h, index, path)
        PROVE  Settled'
    <3>1. kind # "event" /\ result' = Confirmed(h, index) /\ UNCHANGED <<kind, tx, question>>
      BY <2>4 DEF ProveInclusion, Return, call
    <3>2. kind = "status" => Confirmed(h, index).is \in {"finalised", "included"}
      BY DEF Confirmed, Returned
    <3> QED
      BY <3>1, <3>2, <2>a
  <2>5. ASSUME NEW event \in [tx : Txs, topic : Topics, data : Data], NEW path \in Paths,
               ProveEvent(event, path)
        PROVE  Settled'
    <3>1. /\ ProvesCall(event, path) /\ result' = Returned("event", block, position)
          /\ UNCHANGED <<kind, tx, question>> /\ kind = "event" /\ honest
          /\ event = Chain[block].events[position + 1]
      BY <2>5 DEF ProveEvent, Return, call, CallInv
    <3>2. result'.is = "event" /\ result'.height = block /\ result'.index = position
      BY <3>1 DEF Returned
    <3>3. event.tx = tx
      BY <3>1 DEF ProvesCall
    <3> QED
      BY <3>1, <3>2, <3>3, <2>a
  <2>6. CASE NoEvent
    <3>1. /\ UNCHANGED <<kind, tx, question>> /\ kind = "event" /\ honest
          /\ position = Len(listed) /\ listed = TrueListing(block) /\ listed \in Seq(Listing)
          /\ block \in BlocksOf(tx) /\ block \in Heights
          /\ \A i \in 1 .. position : ~Confirms(Chain[block].events[i])
      BY <2>6 DEF NoEvent, Return, call, CallInv, SearchInv, BlocksOf
    <3>2. position = Len(Chain[block].events)
      BY <3>1, TrueListed
    <3>3. \A e \in ToSet(Chain[block].events) : ~Confirms(e)
      BY <3>1, <3>2 DEF ToSet
    <3>4. \A h \in BlocksOf(tx) : h = block
      BY <3>1 DEF BlocksOf
    <3> QED
      BY <3>1, <3>3, <3>4, <2>a
  <2>7. CASE Fail
    <3>1. /\ UNCHANGED <<network, kind, tx, question, honest, trusted>> /\ pc # "idle"
          /\ result' = Failed
      BY <2>7 DEF Fail, Return, call
    <3>2. pc = "proof" /\ \A h \in BlocksOf(tx) : ~FinalUnder(h)
      BY <2>7, <3>1 DEF Fail, CallInv, CanAnchor
    <3>3. kind \in {"status", "event"} => BlocksOf(tx) = {}
      BY <3>1, <3>2 DEF FinalUnder
    <3> QED
      BY <3>1, <3>3, <2>a
  <2>8. CASE UNCHANGED vars
    BY <2>8 DEF vars, Settled, HonestGatewayIsBelieved, BlocksOf, Answers
  <2> QED
    BY <2>1, <2>2, <2>3, <2>4, <2>5, <2>6, <2>7, <2>8
    DEF Next, TrustRoster, Begin, ReportFinalised, Anchor, CheckedChain, ListEvents, SkipEvent
<1> QED
  BY <1>1, <1>2, CallInvariant, SearchInvariant, PTL DEF Spec

=============================================================================
