---------------------------- MODULE CountingFacts ---------------------------
(***************************************************************************)
(* Facts about sequences, natural numbers, recursive functions and finite  *)
(* sets that the proofs of several components need.                        *)
(***************************************************************************)
EXTENDS Integers, Sequences, FiniteSets, Functions, FiniteSetTheorems, TLAPS

-----------------------------------------------------------------------------
(* Sequences.                                                              *)

\* A sequence over S is a function from 1..Len to S.
LEMMA SeqFunction ==
  ASSUME NEW S, NEW q \in Seq(S)
  PROVE  Len(q) \in Nat /\ DOMAIN q = 1..Len(q) /\ q \in [1..Len(q) -> S]
  OBVIOUS

\* Each of its elements is in S.
LEMMA SeqElement ==
  ASSUME NEW S, NEW q \in Seq(S), NEW i \in 1..Len(q)
  PROVE  q[i] \in S
  OBVIOUS

\* Such a function is a sequence.
LEMMA FunctionIsSeq ==
  ASSUME NEW S, NEW L \in Nat, NEW f \in [1..L -> S]
  PROVE  f \in Seq(S) /\ Len(f) = L
  OBVIOUS

\* The empty sequence is the one of length 0.
LEMMA SeqEmpty ==
  ASSUME NEW S
  PROVE  /\ <<>> \in Seq(S) /\ Len(<<>>) = 0
         /\ \A q \in Seq(S) : q # <<>> => Len(q) \in Nat \ {0}
  OBVIOUS

\* Append adds one element behind the others.
LEMMA SeqAppend ==
  ASSUME NEW S, NEW q \in Seq(S), NEW e \in S
  PROVE  /\ Append(q, e) \in Seq(S) /\ Len(Append(q, e)) = Len(q) + 1
         /\ Append(q, e) # <<>>
         /\ \A i \in 1..Len(q) : Append(q, e)[i] = q[i]
         /\ Append(q, e)[Len(q) + 1] = e
  OBVIOUS

\* Head and Tail take a nonempty sequence apart.
LEMMA SeqHeadTail ==
  ASSUME NEW S, NEW q \in Seq(S), q # <<>>
  PROVE  /\ Head(q) \in S /\ Tail(q) \in Seq(S) /\ Len(Tail(q)) = Len(q) - 1
         /\ \A i \in 1..Len(Tail(q)) : Tail(q)[i] = q[i + 1]
  OBVIOUS

\* Concatenation puts one sequence behind the other.
LEMMA SeqConcat ==
  ASSUME NEW S, NEW p \in Seq(S), NEW q \in Seq(S)
  PROVE  /\ p \o q \in Seq(S) /\ Len(p \o q) = Len(p) + Len(q)
         /\ \A i \in 1..Len(p) + Len(q) :
               (p \o q)[i] = IF i <= Len(p) THEN p[i] ELSE q[i - Len(p)]
  OBVIOUS

\* SubSeq cuts a stretch out of a function on integers.
LEMMA SeqCut ==
  ASSUME NEW S, NEW q, NEW a \in Int, NEW b \in Int, \A i \in a..b : q[i] \in S
  PROVE  /\ SubSeq(q, a, b) \in Seq(S)
         /\ Len(SubSeq(q, a, b)) = IF a <= b THEN b - a + 1 ELSE 0
         /\ \A i \in 1..b - a + 1 : SubSeq(q, a, b)[i] = q[a + i - 1]
  OBVIOUS

-----------------------------------------------------------------------------
(* Recursive functions on 0..L.                                            *)

\* Every nonempty set of natural numbers has a least element: induction, in
\* the form the provers can use.
LEMMA LeastNatural ==
  ASSUME NEW S, S \subseteq Nat, S # {}
  PROVE  \E m \in S : \A n \in S : m <= n
  <1> DEFINE R == {ss \in Nat \X Nat : ss[1] < ss[2]}
  <1>1. IsWellFoundedOn(R, Nat)
    <2>1. OpToRel(<, Nat) = R
      BY Zenon DEF OpToRel
    <2> QED
      BY <2>1, NatLessThanWellFounded, Zenon
  <1>2. PICK m \in S : \A n \in S : <<n, m>> \notin R
    BY <1>1, WFMin, Zenon
  <1>3. \A n, k \in Nat : n < k => <<n, k>> \in R
    BY Zenon
  <1> HIDE DEF R
  <1>4. \A n \in S : ~(n < m)
    BY <1>2, <1>3, Zenon
  <1>5. \A n \in S : m <= n
    BY <1>4
  <1> QED
    BY <1>5, Zenon

\* g takes step k of L from the value before.
Recursive(g, L, base, step) == g[0] = base /\ \A k \in 1..L : g[k] = step[k][g[k - 1]]

\* A value and a step define a function on 0..L.
LEMMA RecursionExists ==
  ASSUME NEW L \in Nat, NEW V, NEW base \in V, NEW step \in [1..L -> [V -> V]]
  PROVE  \E g \in [0..L -> V] : Recursive(g, L, base, step)
  <1> USE DEF Recursive
  <1> DEFINE Upto(m, g) == Recursive(g, m, base, step)
             Bad == {m \in 0..L : ~\E g \in [0..m -> V] : Upto(m, g)}
  <1>1. CASE Bad = {}
    <2>1. L \in 0..L
      OBVIOUS
    <2> QED
      BY <1>1, <2>1, Zenon
  <1>2. CASE Bad # {}
    <2>1. PICK m \in Bad : \A n \in Bad : m <= n
      <3>1. Bad \subseteq Nat
        OBVIOUS
      <3> QED
        BY <1>2, <3>1, LeastNatural, Zenon
    <2>2. m \in 0..L
      BY Zenon
    <2>3. m # 0
      <3>1. [k \in 0..0 |-> base] \in [0..0 -> V] /\ Upto(0, [k \in 0..0 |-> base])
        OBVIOUS
      <3> QED
        BY <3>1, Zenon
    <2>4. m - 1 \in 0..L /\ ~(m <= m - 1)
      BY <2>2, <2>3
    <2>5. PICK g \in [0..(m - 1) -> V] : Upto(m - 1, g)
      BY <2>1, <2>4, Zenon
    <2> DEFINE h == [k \in 0..m |-> IF k < m THEN g[k] ELSE step[m][g[m - 1]]]
    <2>6. h \in [0..m -> V]
      BY <2>2, <2>3
    <2>7. Upto(m, h)
      <3>1. h[0] = base
        BY <2>2, <2>3, <2>5
      <3>2. \A k \in 1..m : h[k] = step[k][h[k - 1]]
        <4> SUFFICES ASSUME NEW k \in 1..m PROVE h[k] = step[k][h[k - 1]]
          BY Zenon
        <4>1. h[k - 1] = g[k - 1]
          BY <2>2
        <4>2. CASE k < m
          BY <2>2, <2>5, <4>1, <4>2
        <4>3. CASE k = m
          BY <2>2, <4>1, <4>3
        <4> QED
          BY <2>2, <4>2, <4>3
      <3> QED
        BY <3>1, <3>2, Zenon
    <2> QED
      BY <2>6, <2>7, Zenon
  <1> QED
    BY <1>1, <1>2, Zenon

\* h takes the same steps, at least from values in V.
Follows(h, L, V, base, step) ==
  h[0] = base /\ \A k \in 1..L : h[k - 1] \in V => h[k] = step[k][h[k - 1]]

\* They define only one.
LEMMA RecursionUnique ==
  ASSUME NEW L \in Nat, NEW V, NEW base, NEW step,
         NEW g \in [0..L -> V], Recursive(g, L, base, step),
         NEW h, Follows(h, L, V, base, step)
  PROVE  \A k \in 0..L : g[k] = h[k]
  <1> USE DEF Recursive, Follows
  <1> DEFINE Bad == {m \in 0..L : g[m] # h[m]}
  <1>1. CASE Bad # {}
    <2>1. PICK m \in Bad : \A n \in Bad : m <= n
      <3>1. Bad \subseteq Nat
        OBVIOUS
      <3> QED
        BY <1>1, <3>1, LeastNatural, Zenon
    <2>2. m \in 1..L /\ m - 1 \in 0..L /\ ~(m <= m - 1)
      OBVIOUS
    <2>3. g[m - 1] = h[m - 1]
      BY <2>1, <2>2, Zenon
    <2> QED
      BY <2>2, <2>3, Zenon
  <1> QED
    BY <1>1, Zenon

-----------------------------------------------------------------------------
(* Cardinalities.                                                          *)

\* A part of a finite set is smaller.
LEMMA PartIsSmaller ==
  ASSUME NEW A, IsFiniteSet(A), NEW B \in SUBSET A, B # A
  PROVE  /\ IsFiniteSet(B) /\ Cardinality(B) \in Nat /\ Cardinality(A) \in Nat
         /\ Cardinality(B) < Cardinality(A)
  <1>1. IsFiniteSet(B) /\ Cardinality(B) <= Cardinality(A) /\ Cardinality(A) # Cardinality(B)
    BY FS_Subset, Zenon
  <1> QED
    BY <1>1, FS_CardinalityType

\* The union of two sets that have nothing in common.
LEMMA DisjointUnion ==
  ASSUME NEW A, NEW B, IsFiniteSet(A), IsFiniteSet(B), A \cap B = {}
  PROVE  IsFiniteSet(A \cup B) /\ Cardinality(A \cup B) = Cardinality(A) + Cardinality(B)
  <1>1. Cardinality(A \cap B) = 0
    BY FS_EmptySet, Zenon
  <1>2. /\ IsFiniteSet(A \cup B)
        /\ Cardinality(A \cup B) = Cardinality(A) + Cardinality(B) - Cardinality(A \cap B)
    BY FS_Union, Zenon
  <1> QED
    BY <1>1, <1>2, FS_CardinalityType

\* The numbers from 1 after c to n.
LEMMA IntervalSize ==
  ASSUME NEW c \in Nat, NEW n \in Nat, c <= n
  PROVE  IsFiniteSet(c + 1..n) /\ Cardinality(c + 1..n) = n - c
  <1>1. c + 1 \in Int /\ n \in Int
    OBVIOUS
  <1>2. /\ IsFiniteSet(c + 1..n)
        /\ Cardinality(c + 1..n) = IF c + 1 > n THEN 0 ELSE n - (c + 1) + 1
    BY <1>1, FS_Interval, Zenon
  <1>3. c + 1 > n => n - c = 0
    OBVIOUS
  <1>4. n - (c + 1) + 1 = n - c
    OBVIOUS
  <1> QED
    BY <1>2, <1>3, <1>4, Zenon

\* f gives different values to different elements of S.
OneToOne(f, S) == \A x, y \in S : f[x] = f[y] => x = y

\* The values f takes on S
Image(f, S) == {f[x] : x \in S}

\* The image of a finite set has its size exactly when f is one to one on it.
LEMMA ImageSize ==
  ASSUME NEW S, IsFiniteSet(S), NEW f
  PROVE  /\ IsFiniteSet(Image(f, S))
         /\ Cardinality(Image(f, S)) = Cardinality(S) <=> OneToOne(f, S)
  <1> DEFINE T == Image(f, S)
             g == [x \in S |-> f[x]]
  <1>1. g \in Surjection(S, T)
    BY Zenon DEF Surjection, Image
  <1>2. g \in Injection(S, T) <=> OneToOne(f, S)
    BY <1>1, Zenon DEF Surjection, Injection, IsInjective, OneToOne
  <1> HIDE DEF T, g
  <1>3. /\ IsFiniteSet(T)
        /\ Cardinality(T) = Cardinality(S) <=> g \in Injection(S, T)
    BY <1>1, FS_Surjection, Zenon
  <1> QED
    BY <1>2, <1>3, Zenon DEF T

\* A set of numbers after c without a gap.
NoGap(D, c, n) == D \subseteq c + 1..n /\ \A x \in D : \A y \in c + 1..n : y < x => y \in D

\* It ends where its size says.
LEMMA NoGapInterval ==
  ASSUME NEW c \in Nat, NEW n \in Nat, c <= n, NEW D, NoGap(D, c, n)
  PROVE  D = c + 1..c + Cardinality(D)
  <1> DEFINE H == {m \in c + 1..n + 1 : m \notin D}
  <1>1. n + 1 \in H
    BY DEF NoGap
  <1>2. PICK m \in H : \A k \in H : m <= k
    <2>1. H \subseteq Nat
      OBVIOUS
    <2> QED
      BY <1>1, <2>1, LeastNatural, Zenon
  <1>3. m \in c + 1..n + 1 /\ m \notin D /\ m - 1 \in Nat /\ c <= m - 1
    OBVIOUS
  <1>4. \A k \in c + 1..m - 1 : k \in D
    <2> SUFFICES ASSUME NEW k \in c + 1..m - 1, k \notin D PROVE FALSE
      BY Zenon
    <2>1. k \in H /\ ~(m <= k)
      BY <1>3
    <2> QED
      BY <1>2, <2>1, Zenon
  <1>5. \A k \in D : k \in c + 1..m - 1
    BY <1>3 DEF NoGap
  <1>6. D = c + 1..m - 1
    BY <1>4, <1>5, Zenon
  <1>7. Cardinality(D) = (m - 1) - c
    BY <1>3, <1>6, IntervalSize, Zenon
  <1>8. c + ((m - 1) - c) = m - 1
    BY <1>3
  <1> QED
    BY <1>6, <1>7, <1>8, Zenon

=============================================================================
