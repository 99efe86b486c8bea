-------------------------- MODULE BlockBaseProofs --------------------------
(***************************************************************************)
(* Proofs about BlockBase, for any blocks, any number of stops and failed  *)
(* writes and any losses: a start recovers what was saved.                 *)
(***************************************************************************)
EXTENDS BlockBase, CountingFacts

-----------------------------------------------------------------------------
(* Finite sets of numbers.                                                 *)

\* A finite set of numbers that is not empty has a greatest one.
LEMMA GreatestNatural ==
  ASSUME NEW S, S \subseteq Nat, IsFiniteSet(S), S # {}
  PROVE  \E m \in S : \A n \in S : n <= m
  <1> DEFINE Bound(u, T) == \A x \in T : x <= u
  <1>1. \E u \in Nat : Bound(u, S)
    <2>1. PICK n \in Nat : \E f : f \in Bijection(1..n, S)
      BY FS_NatBijection, Zenon DEF ExistsBijection
    <2>2. PICK f : f \in Bijection(1..n, S)
      BY <2>1, Zenon
    <2>3. f \in [1..n -> S] /\ \A x \in S : \E j \in 1..n : f[j] = x
      BY <2>2, Zenon DEF Bijection, Injection, Surjection
    <2> DEFINE Bad == {k \in 0..n : ~\E u \in Nat : \A j \in 1..k : f[j] <= u}
    <2>4. Bad = {}
      <3> SUFFICES ASSUME Bad # {} PROVE FALSE
        BY Zenon
      <3>1. Bad \subseteq Nat
        OBVIOUS
      <3>2. PICK k \in Bad : \A l \in Bad : k <= l
        BY <3>1, LeastNatural, Zenon
      <3>3. k # 0
        <4>1. \A j \in 1..0 : f[j] <= 0
          OBVIOUS
        <4> QED
          BY <4>1, Zenon
      <3>4. k - 1 \in 0..n /\ k - 1 \notin Bad /\ k \in 1..n
        <4>1. k \in 0..n
          BY Zenon
        <4>2. k - 1 \in 0..n /\ k \in 1..n /\ ~(k <= k - 1)
          BY <3>3, <4>1
        <4> QED
          BY <3>2, <4>2, Zenon
      <3>5. PICK u \in Nat : \A j \in 1..(k - 1) : f[j] <= u
        BY <3>4, Zenon
      <3>6. f[k] \in Nat
        BY <2>3, <3>4, Zenon
      <3>7. PICK v \in Nat : u <= v /\ f[k] <= v
        <4>1. CASE u <= f[k]
          BY <3>6, <4>1
        <4>2. CASE ~(u <= f[k])
          BY <3>6, <4>2
        <4> QED
          BY <4>1, <4>2, Zenon
      <3>8. \A j \in 1..k : f[j] <= v
        <4> SUFFICES ASSUME NEW j \in 1..k PROVE f[j] <= v
          BY Zenon
        <4>1. CASE j = k
          BY <3>7, <4>1, Zenon
        <4>2. CASE j # k
          <5>1. j \in 1..(k - 1) /\ j \in 1..n
            BY <3>4, <4>2
          <5>2. f[j] \in Nat /\ f[j] <= u
            BY <2>3, <3>5, <5>1, Zenon
          <5> QED
            BY <3>7, <5>2
        <4> QED
          BY <4>1, <4>2, Zenon
      <3> QED
        BY <3>8, Zenon
    <2>5. n \in 0..n
      OBVIOUS
    <2>6. PICK u \in Nat : \A j \in 1..n : f[j] <= u
      BY <2>4, <2>5, Zenon
    <2> QED
      BY <2>3, <2>6, Zenon
  <1> DEFINE U == {u \in Nat : Bound(u, S)}
  <1>2. U # {} /\ U \subseteq Nat
    BY <1>1, Zenon
  <1>3. PICK m \in U : \A u \in U : m <= u
    BY <1>2, LeastNatural, Zenon
  <1>4. CASE m \in S
    BY <1>4, Zenon
  <1>5. CASE m \notin S
    <2>1. PICK x \in S : TRUE
      BY Zenon
    <2>2. m # 0 /\ m - 1 \in Nat
      BY <1>5, <2>1
    <2>3. \A y \in S : y <= m - 1
      BY <1>5
    <2>4. m - 1 \in U
      BY <2>2, <2>3, Zenon
    <2> QED
      BY <1>3, <2>2, <2>4
  <1> QED
    BY <1>4, <1>5, Zenon

\* Nth lists the set.
LEMMA NthLists ==
  ASSUME NEW S, S \subseteq Nat, IsFiniteSet(S)
  PROVE  /\ Cardinality(S) \in Nat
         /\ \A k \in 1..Cardinality(S) : Nth(S, k) \in S
         /\ \A x \in S : \E k \in 1..Cardinality(S) : Nth(S, k) = x
  <1> DEFINE N == Cardinality(S)
             Before(x) == {y \in S : y < x}
             rank == [x \in S |-> Cardinality(Before(x))]
  <1>1. N \in Nat
    BY FS_CardinalityType, Zenon
  <1>2. \A x \in S : IsFiniteSet(Before(x)) /\ Cardinality(Before(x)) \in Nat /\ Cardinality(Before(x)) < N
    <2> SUFFICES ASSUME NEW x \in S
                 PROVE  IsFiniteSet(Before(x)) /\ Cardinality(Before(x)) \in Nat /\ Cardinality(Before(x)) < N
      BY Zenon
    <2>1. Before(x) \subseteq S /\ x \notin Before(x) /\ Before(x) # S
      OBVIOUS
    <2> HIDE DEF Before
    <2> QED
      BY <2>1, FS_Subset, FS_CardinalityType, PartIsSmaller, Zenon
  <1>3. \A x, y \in S : x < y => rank[x] < rank[y]
    <2> SUFFICES ASSUME NEW x \in S, NEW y \in S, x < y PROVE rank[x] < rank[y]
      BY Zenon
    <2>1. Before(x) \subseteq Before(y) /\ x \notin Before(x) /\ x \in Before(y)
      <3>1. x \in Nat /\ y \in Nat /\ \A z \in S : z \in Nat
        BY Zenon
      <3>2. \A z \in Nat : z < x => z < y
        BY <3>1
      <3>3. ~(x < x)
        BY <3>1
      <3> QED
        BY <3>1, <3>2, <3>3, Zenon
    <2>2. Before(x) # Before(y) /\ IsFiniteSet(Before(y))
      BY <1>2, <2>1, Zenon
    <2> HIDE DEF Before
    <2>3. Cardinality(Before(x)) < Cardinality(Before(y))
      BY <2>1, <2>2, PartIsSmaller, Zenon
    <2> QED
      BY <2>3, Zenon
  <1>4. OneToOne(rank, S)
    <2>1. \A x \in S : rank[x] \in Nat
      BY <1>2, Zenon
    <2> HIDE DEF rank
    <2> QED
      BY <1>3, <2>1 DEF OneToOne
  <1>5. Image(rank, S) \subseteq 0..(N - 1)
    <2>1. \A x \in S : rank[x] \in Nat /\ rank[x] < N
      BY <1>2, Zenon
    <2> HIDE DEF rank, N
    <2>2. \A r \in Nat : r < N => r \in 0..(N - 1)
      BY <1>1
    <2> QED
      BY <2>1, <2>2, Zenon DEF Image
  <1>6. Cardinality(Image(rank, S)) = N
    <2> HIDE DEF rank
    <2> QED
      BY <1>4, ImageSize, Zenon
  <1>7. IsFiniteSet(0..(N - 1)) /\ Cardinality(0..(N - 1)) = N
    <2>1. IsFiniteSet(0..(N - 1)) /\ Cardinality(0..(N - 1)) = IF 0 > N - 1 THEN 0 ELSE (N - 1) - 0 + 1
      BY <1>1, FS_Interval
    <2> HIDE DEF N
    <2> QED
      BY <1>1, <2>1
  <1>8. Image(rank, S) = 0..(N - 1)
    <2> DEFINE I == Image(rank, S)
               J == 0..(N - 1)
    <2>1. I \subseteq J /\ IsFiniteSet(J) /\ Cardinality(I) = Cardinality(J)
      BY <1>5, <1>6, <1>7, Zenon
    <2>2. Cardinality(J) \in Nat
      BY <1>1, <1>7, Zenon
    <2> HIDE DEF I, J
    <2>3. I = J
      BY <2>1, <2>2, PartIsSmaller
    <2> QED
      BY <2>3, Zenon DEF I, J
  <1>9. \A k \in 1..N : \E x \in S : Cardinality(Before(x)) = k - 1
    <2> SUFFICES ASSUME NEW k \in 1..N PROVE \E x \in S : Cardinality(Before(x)) = k - 1
      BY Zenon
    <2>1. k - 1 \in 0..(N - 1)
      BY <1>1
    <2>2. k - 1 \in Image(rank, S)
      BY <1>8, <2>1, Zenon
    <2> QED
      BY <2>2, Zenon DEF Image
  <1>10. \A k \in 1..N : Nth(S, k) \in S /\ Cardinality(Before(Nth(S, k))) = k - 1
    BY <1>9, Zenon DEF Nth
  <1>11. \A x \in S : \E k \in 1..N : Nth(S, k) = x
    <2> SUFFICES ASSUME NEW x \in S PROVE \E k \in 1..N : Nth(S, k) = x
      BY Zenon
    <2> DEFINE r == Cardinality(Before(x))
    <2>1. r \in Nat /\ r < N
      BY <1>2, Zenon
    <2> HIDE DEF r, N
    <2>2. r + 1 \in 1..N /\ (r + 1) - 1 = r
      BY <1>1, <2>1
    <2>3. Nth(S, r + 1) \in S /\ Cardinality(Before(Nth(S, r + 1))) = r
      BY <1>10, <2>2, Zenon
    <2>4. rank[Nth(S, r + 1)] = rank[x]
      BY <2>3, Zenon DEF r
    <2>5. Nth(S, r + 1) = x
      BY <1>4, <2>3, <2>4, Zenon DEF OneToOne
    <2> QED
      BY <2>2, <2>5, Zenon
  <1> QED
    BY <1>1, <1>10, <1>11, Zenon

-----------------------------------------------------------------------------
(* Functions defined by recursion from the origin of a fork up its blocks. *)

\* The previous block has a smaller number.
LEMMA PrevBelow ==
  ASSUME NEW b \in Block, b \notin Origin
  PROVE  b \in Nat /\ b # Genesis /\ Prev[b] \in Block /\ Prev[b] \in Nat /\ Prev[b] < b
BY BlockAssumption, Zenon

\* g takes the value of each origin from base and goes up with step.
Climbs(g, blocks, base, step) ==
  \A b \in blocks : g[b] = IF b \in Origin THEN base[b] ELSE step[b][g[Prev[b]]]

\* There is such a function.
LEMMA ClimbExists ==
  ASSUME NEW V, NEW base \in [Block -> V], NEW step \in [Block -> [V -> V]]
  PROVE  \E g \in [Block -> V] : Climbs(g, Block, base, step)
  <1> DEFINE Below(n) == {b \in Block : b < n}
             Good(n) == \E g \in [Below(n) -> V] : Climbs(g, Below(n), base, step)
             Bad == {n \in Nat : ~Good(n)}
  <1>1. Block \subseteq Nat /\ IsFiniteSet(Block) /\ Block # {}
    BY BlockAssumption, Zenon
  <1>2. Bad = {}
    <2> SUFFICES ASSUME Bad # {} PROVE FALSE
      BY Zenon
    <2>1. PICK n \in Bad : \A m \in Bad : n <= m
      <3>1. Bad \subseteq Nat
        BY Zenon
      <3> QED
        BY <3>1, LeastNatural, Zenon
    <2>2. n # 0
      <3>1. Below(0) = {}
        <4>1. \A b \in Nat : ~(b < 0)
          OBVIOUS
        <4> QED
          BY <1>1, <4>1, Zenon
      <3>2. [b \in {} |-> base[b]] \in [{} -> V] /\ Climbs([b \in {} |-> base[b]], {}, base, step)
        BY Zenon DEF Climbs
      <3>3. Good(0)
        BY <3>1, <3>2, Zenon
      <3> QED
        BY <3>3, Zenon
    <2>3. n \in Nat /\ n - 1 \in Nat /\ Good(n - 1)
      <3>1. n \in Nat
        BY Zenon
      <3>2. n - 1 \in Nat /\ ~(n <= n - 1)
        BY <2>2, <3>1
      <3> QED
        BY <2>1, <3>1, <3>2, Zenon
    <2>4. PICK g \in [Below(n - 1) -> V] : Climbs(g, Below(n - 1), base, step)
      BY <2>3, Zenon
    <2>5. \A b \in Below(n) : b \notin Origin => Prev[b] \in Below(n - 1)
      <3> SUFFICES ASSUME NEW b \in Below(n), b \notin Origin PROVE Prev[b] \in Below(n - 1)
        BY Zenon
      <3>1. b \in Nat /\ b < n /\ Prev[b] \in Block /\ Prev[b] \in Nat /\ Prev[b] < b
        BY PrevBelow, Zenon
      <3>2. Prev[b] < n - 1
        BY <2>3, <3>1
      <3> QED
        BY <3>1, <3>2, Zenon
    <2> DEFINE h == [b \in Below(n) |-> IF b \in Origin THEN base[b] ELSE step[b][g[Prev[b]]]]
    <2>6. \A b \in Below(n - 1) : b \in Below(n) /\ h[b] = g[b]
      <3> SUFFICES ASSUME NEW b \in Below(n - 1) PROVE b \in Below(n) /\ h[b] = g[b]
        BY Zenon
      <3>1. b \in Below(n)
        BY <1>1, <2>3
      <3>2. g[b] = IF b \in Origin THEN base[b] ELSE step[b][g[Prev[b]]]
        BY <2>4, Zenon DEF Climbs
      <3> QED
        BY <3>1, <3>2, Zenon
    <2>7. h \in [Below(n) -> V]
      <3> SUFFICES ASSUME NEW b \in Below(n)
                   PROVE  (IF b \in Origin THEN base[b] ELSE step[b][g[Prev[b]]]) \in V
        BY Zenon
      <3>1. b \in Block
        BY Zenon
      <3>2. CASE b \in Origin
        BY <3>1, <3>2, Zenon
      <3>3. CASE b \notin Origin
        <4>1. Prev[b] \in Below(n - 1)
          BY <2>5, <3>3, Zenon
        <4> HIDE DEF Below
        <4>2. g[Prev[b]] \in V
          BY <2>4, <4>1, Zenon
        <4> QED
          BY <3>1, <3>3, <4>2, Zenon
      <3> QED
        BY <3>2, <3>3, Zenon
    <2>8. Climbs(h, Below(n), base, step)
      <3> SUFFICES ASSUME NEW b \in Below(n)
                   PROVE  h[b] = IF b \in Origin THEN base[b] ELSE step[b][h[Prev[b]]]
        BY Zenon DEF Climbs
      <3>1. b \notin Origin => h[Prev[b]] = g[Prev[b]]
        BY <2>5, <2>6, Zenon
      <3>2. h[b] = IF b \in Origin THEN base[b] ELSE step[b][g[Prev[b]]]
        BY Zenon
      <3> HIDE DEF h, Below
      <3> QED
        BY <3>1, <3>2, Zenon
    <2>9. Good(n)
      <3> HIDE DEF h
      <3> QED
        BY <2>7, <2>8, Zenon
    <2> QED
      BY <2>9, Zenon
  <1>3. PICK m \in Block : \A b \in Block : b <= m
    BY <1>1, GreatestNatural, Zenon
  <1>4. m + 1 \in Nat /\ Below(m + 1) = Block
    <2>1. m \in Nat /\ \A b \in Block : b \in Nat
      BY <1>1, Zenon
    <2>2. \A b \in Nat : b <= m => b < m + 1
      BY <2>1
    <2>3. m + 1 \in Nat /\ \A b \in Block : b < m + 1
      BY <1>3, <2>1, <2>2
    <2> QED
      BY <2>3, Zenon
  <1>5. Good(m + 1)
    BY <1>2, <1>4, Zenon
  <1> QED
    BY <1>4, <1>5, Zenon

\* ForkOf is the function its definition says.
LEMMA ForkOfType ==
  /\ ForkOf \in [Block -> Origin]
  /\ \A b \in Block : ForkOf[b] = IF b \in Origin THEN b ELSE ForkOf[Prev[b]]
  <1> DEFINE Defines(f) == f = [b \in Block |-> IF b \in Origin THEN b ELSE f[Prev[b]]]
             base == [b \in Block |-> IF b \in Origin THEN b ELSE Genesis]
             step == [b \in Block |-> [v \in Origin |-> v]]
  <1>1. base \in [Block -> Origin] /\ step \in [Block -> [Origin -> Origin]]
    BY BlockAssumption, Zenon
  <1>2. \A b \in Block : b \in Origin => base[b] = b
    BY Zenon
  <1>3. \A b \in Block, v \in Origin : step[b][v] = v
    BY Zenon
  <1>4. ForkOf = CHOOSE f : Defines(f)
    BY Zenon DEF ForkOf
  <1> HIDE DEF base, step
  <1>5. PICK g \in [Block -> Origin] : Climbs(g, Block, base, step)
    BY <1>1, ClimbExists, Zenon
  <1>6. \A b \in Block : g[b] = IF b \in Origin THEN b ELSE g[Prev[b]]
    <2> SUFFICES ASSUME NEW b \in Block PROVE g[b] = IF b \in Origin THEN b ELSE g[Prev[b]]
      BY Zenon
    <2>1. b \notin Origin => g[Prev[b]] \in Origin
      BY <1>5, PrevBelow, Zenon
    <2> QED
      BY <1>2, <1>3, <1>5, <2>1, Zenon DEF Climbs
  <1>7. Defines(g)
    BY <1>5, <1>6, Zenon
  <1>8. Defines(ForkOf)
    <2> HIDE DEF Defines
    <2> QED
      BY <1>4, <1>7, Zenon
  <1>9. \A b \in Block : ForkOf[b] = IF b \in Origin THEN b ELSE ForkOf[Prev[b]]
    BY <1>8, Zenon
  <1> DEFINE Bad == {b \in Block : ForkOf[b] \notin Origin}
  <1>10. Bad = {}
    <2> SUFFICES ASSUME Bad # {} PROVE FALSE
      BY Zenon
    <2>1. Bad \subseteq Nat
      BY BlockAssumption, Zenon
    <2>2. PICK b \in Bad : \A c \in Bad : b <= c
      BY <2>1, LeastNatural, Zenon
    <2>3. b \in Block /\ b \notin Origin
      BY <1>9, Zenon
    <2>4. Prev[b] \in Block /\ ~(b <= Prev[b])
      BY <2>3, PrevBelow
    <2> QED
      BY <1>9, <2>2, <2>3, <2>4, Zenon
  <1>11. ForkOf \in [Block -> Origin]
    BY <1>8, <1>10, Zenon
  <1> QED
    BY <1>9, <1>11, Zenon

\* The fork of a block, unfolded at the ends
LEMMA ForkOfOrigin == IsPrimary(Genesis) /\ \A f \in Origin : ForkOf[f] = f
BY ForkOfType, BlockAssumption, Zenon DEF IsPrimary

\* Chain is the function its definition says, and goes down to the origin.
LEMMA ChainType ==
  /\ Chain \in [Block -> SUBSET Block]
  /\ \A b \in Block : ForkOf[b] \in Chain[b]
  <1> DEFINE Defines(f) == f = [b \in Block |-> IF b \in Origin THEN {b} ELSE {b} \cup f[Prev[b]]]
             base == [b \in Block |-> {b}]
             step == [b \in Block |-> [v \in SUBSET Block |-> {b} \cup v]]
  <1>1. base \in [Block -> SUBSET Block] /\ step \in [Block -> [SUBSET Block -> SUBSET Block]]
    BY Zenon
  <1>2. \A b \in Block : base[b] = {b}
    BY Zenon
  <1>3. \A b \in Block, v \in SUBSET Block : step[b][v] = {b} \cup v
    BY Zenon
  <1>4. Chain = CHOOSE f : Defines(f)
    BY Zenon DEF Chain
  <1> HIDE DEF base, step
  <1>5. PICK g \in [Block -> SUBSET Block] : Climbs(g, Block, base, step)
    BY <1>1, ClimbExists, Zenon
  <1>6. \A b \in Block : g[b] = IF b \in Origin THEN {b} ELSE {b} \cup g[Prev[b]]
    <2> SUFFICES ASSUME NEW b \in Block PROVE g[b] = IF b \in Origin THEN {b} ELSE {b} \cup g[Prev[b]]
      BY Zenon
    <2>1. b \notin Origin => g[Prev[b]] \in SUBSET Block
      BY <1>5, PrevBelow, Zenon
    <2> QED
      BY <1>2, <1>3, <1>5, <2>1, Zenon DEF Climbs
  <1>7. Defines(g)
    BY <1>5, <1>6, Zenon
  <1>8. Defines(Chain)
    <2> HIDE DEF Defines
    <2> QED
      BY <1>4, <1>7, Zenon
  <1>9. \A b \in Block : Chain[b] = IF b \in Origin THEN {b} ELSE {b} \cup Chain[Prev[b]]
    BY <1>8, Zenon
  <1> DEFINE Bad == {b \in Block : ~(Chain[b] \in SUBSET Block /\ ForkOf[b] \in Chain[b])}
  <1>10. Bad = {}
    <2> SUFFICES ASSUME Bad # {} PROVE FALSE
      BY Zenon
    <2>1. Bad \subseteq Nat
      BY BlockAssumption, Zenon
    <2>2. PICK b \in Bad : \A c \in Bad : b <= c
      BY <2>1, LeastNatural, Zenon
    <2>3. b \in Block /\ b \notin Origin
      <3>1. b \in Block /\ ~(Chain[b] \in SUBSET Block /\ ForkOf[b] \in Chain[b])
        BY Zenon
      <3>2. b \in Origin => Chain[b] = {b} /\ ForkOf[b] = b
        BY <1>9, <3>1, ForkOfOrigin, Zenon
      <3> QED
        BY <3>1, <3>2, Zenon
    <2>4. Prev[b] \in Block /\ ~(b <= Prev[b])
      BY <2>3, PrevBelow
    <2>5. Chain[Prev[b]] \in SUBSET Block /\ ForkOf[Prev[b]] \in Chain[Prev[b]]
      BY <2>2, <2>4, Zenon
    <2>6. Chain[b] = {b} \cup Chain[Prev[b]] /\ ForkOf[b] = ForkOf[Prev[b]]
      BY <1>9, <2>3, ForkOfType, Zenon
    <2> QED
      BY <2>3, <2>5, <2>6, Zenon
  <1> HIDE DEF Defines
  <1>11. DOMAIN Chain = Block
    BY <1>8, Zenon DEF Defines
  <1>12. \A b \in Block : Chain[b] \in SUBSET Block /\ ForkOf[b] \in Chain[b]
    BY <1>10, Zenon
  <1>13. Chain = [b \in Block |-> Chain[b]]
    BY <1>8, Zenon DEF Defines
  <1> QED
    BY <1>12, <1>13, Zenon

-----------------------------------------------------------------------------
(* The operators that choose a block.                                      *)

\* What GetLongChainLastBlock finds among blocks is one of them, or nothing.
LEMMA MaxTrustType ==
  ASSUME NEW blocks \in SUBSET Block
  PROVE  MaxTrust(blocks)[Cardinality(blocks)] \in blocks \cup {None}
  <1> DEFINE L == Cardinality(blocks)
             V == blocks \cup {None}
             Take(k, v) == IF v = None \/ Longer(Nth(blocks, k), v) THEN Nth(blocks, k) ELSE v
             Defines(f) == f = [k \in 0..L |-> IF k = 0 THEN None ELSE Take(k, f[k - 1])]
             step == [k \in 1..L |-> [v \in V |-> Take(k, v)]]
             h == MaxTrust(blocks)
  <1>1. L \in Nat /\ \A k \in 1..L : Nth(blocks, k) \in blocks
    BY NthLists, BlockAssumption, FS_Subset, Zenon
  <1>2. h = CHOOSE f : Defines(f)
    BY Zenon DEF MaxTrust
  <1>3. \A k \in 1..L, v \in V : Take(k, v) \in V
    BY <1>1, Zenon
  <1> HIDE DEF L, Take, h
  <1>4. step \in [1..L -> [V -> V]] /\ \A k \in 1..L, v \in V : step[k][v] = Take(k, v)
    BY <1>3, Zenon
  <1>5. None \in V
    BY Zenon
  <1> HIDE DEF V, step
  <1>6. PICK g \in [0..L -> V] : Recursive(g, L, None, step)
    BY <1>1, <1>4, <1>5, RecursionExists, Zenon
  <1>7. g[0] = None /\ \A k \in 1..L : g[k] = Take(k, g[k - 1])
    <2>1. \A k \in 1..L : k - 1 \in 0..L
      BY <1>1
    <2> QED
      BY <1>4, <1>6, <2>1, Zenon DEF Recursive
  <1>8. Defines(g)
    BY <1>1, <1>6, <1>7
  <1>9. Defines(h)
    <2> HIDE DEF Defines
    <2> QED
      BY <1>2, <1>8, Zenon
  <1>10. DOMAIN h = 0..L /\ h[0] = None /\ \A k \in 1..L : h[k] = Take(k, h[k - 1])
    BY <1>1, <1>9
  <1>11. \A k \in 0..L : g[k] = h[k]
    <2>1. Follows(h, L, V, None, step)
      BY <1>4, <1>10, Zenon DEF Follows
    <2> QED
      BY <1>1, <1>6, <2>1, RecursionUnique
  <1>12. L \in 0..L
    BY <1>1
  <1>13. h[L] \in V
    BY <1>6, <1>11, <1>12, Zenon
  <1> QED
    BY <1>13, Zenon DEF h, L, V

\* The block GetForkValidLast moves a fork to is a block.
LEMMA ValidLastType ==
  ASSUME NEW f, mapIndex \subseteq Block, GetForkValidLast(f) # None
  PROVE  GetForkValidLast(f) \in Block
  <1> DEFINE last == GetForkLastIndex(f)
             valid == {b \in Chain[last] : VerifyValidBlock(b)}
             low == CHOOSE b \in valid : \A c \in valid : c <= b
             best == GetLongChainLastBlock(f, Height(low), Chain[last] \ Chain[low])
  <1>1. /\ last # None
        /\ GetForkValidLast(f) = IF best = None THEN low ELSE best
    <2>1. GetForkValidLast(f) =
            IF last = None THEN None ELSE IF last \in Origin \/ low = last THEN None
            ELSE IF best = None THEN low ELSE best
      BY Zenon DEF GetForkValidLast
    <2> HIDE DEF last, low, best
    <2> QED
      BY <2>1, Zenon
  <1>2. last \in Block
    BY <1>1, Zenon DEF GetForkLastIndex
  <1> HIDE DEF last
  <1>3. Chain[last] \subseteq Block /\ ForkOf[last] \in Chain[last] /\ ForkOf[last] \in Origin
    BY <1>2, ChainType, ForkOfType, Zenon
  <1>4. valid \subseteq Nat /\ IsFiniteSet(valid) /\ valid # {} /\ valid \subseteq Block
    <2>1. valid \subseteq Block
      BY <1>3, Zenon
    <2>2. ForkOf[last] \in valid
      BY <1>3, Zenon DEF VerifyValidBlock
    <2> HIDE DEF valid
    <2> QED
      BY <2>1, <2>2, BlockAssumption, FS_Subset, Zenon
  <1> HIDE DEF valid
  <1>5. low \in valid
    <2>1. \E b \in valid : \A c \in valid : c <= b
      BY <1>4, GreatestNatural, Zenon
    <2> QED
      BY <2>1, Zenon
  <1> HIDE DEF low
  <1>6. best \in Block \cup {None}
    <2> DEFINE indexed == {b \in mapIndex : ForkOf[b] = f}
               h == Height(low)
               listed == {b \in indexed \ ((Chain[last] \ Chain[low]) \cup Origin) :
                            Height(b) >= h /\ \A g \in h .. Height(b) : \E c \in indexed : Height(c) = g}
               found == {b \in listed : VerifyValidBlock(b)}
    <2>1. best = MaxTrust(found)[Cardinality(found)]
      BY Zenon DEF GetLongChainLastBlock
    <2>2. found \in SUBSET Block
      BY Zenon
    <2> HIDE DEF found, best
    <2> QED
      BY <2>1, <2>2, MaxTrustType, Zenon
  <1> HIDE DEF best
  <1> QED
    BY <1>1, <1>4, <1>5, <1>6, Zenon

-----------------------------------------------------------------------------
(* The logs.                                                               *)

\* An entry at the end of a log
LEMMA AppendLog ==
  ASSUME NEW S, NEW s \in Seq(S), NEW e \in S
  PROVE  /\ Append(s, e) \in Seq(S) /\ Len(Append(s, e)) = Len(s) + 1
         /\ \A i \in 1..Len(s) : Append(s, e)[i] = s[i]
         /\ Append(s, e)[Len(s) + 1] = e
         /\ Range(Append(s, e)) = Range(s) \cup {e}
  <1> DEFINE t == Append(s, e)
  <1>1. /\ t \in Seq(S) /\ Len(t) = Len(s) + 1 /\ \A i \in 1..Len(s) : t[i] = s[i]
        /\ t[Len(s) + 1] = e
    BY SeqAppend
  <1>2. DOMAIN t = 1..(Len(s) + 1) /\ DOMAIN s = 1..Len(s) /\ Len(s) \in Nat
    BY <1>1, SeqFunction, Zenon
  <1> HIDE DEF t
  <1>3. \A i \in 1..(Len(s) + 1) : i = Len(s) + 1 \/ i \in 1..Len(s)
    BY <1>2
  <1>4. Len(s) + 1 \in 1..(Len(s) + 1) /\ \A i \in 1..Len(s) : i \in 1..(Len(s) + 1)
    BY <1>2
  <1>5. Range(t) = Range(s) \cup {e}
    BY <1>1, <1>2, <1>3, <1>4, Zenon DEF Range
  <1> QED
    BY <1>1, <1>5, Zenon DEF t

\* An entry that is added if it is not there
LEMMA PutLog ==
  ASSUME NEW S, NEW s \in Seq(S), NEW e \in S
  PROVE  Put(s, e) \in Seq(S) /\ Range(Put(s, e)) = Range(s) \cup {e}
BY AppendLog DEF Put

\* The log that a loss leaves
LEMMA WithoutLog ==
  ASSUME NEW S, NEW s \in Seq(S), NEW n \in Nat, n <= Len(s)
  PROVE  /\ Without(s, n) \in Seq(S) /\ Len(Without(s, n)) = Len(s) - n
         /\ Len(s) - n \in Nat /\ Len(s) \in Nat
         /\ DOMAIN Without(s, n) = 1..(Len(s) - n) /\ DOMAIN s = 1..Len(s)
         /\ \A i \in 1..(Len(s) - n) : i \in 1..Len(s) /\ Without(s, n)[i] = s[i]
         /\ Range(Without(s, n)) \subseteq Range(s)
  <1> DEFINE t == Without(s, n)
             m == Len(s) - n
  <1>1. Len(s) \in Nat /\ DOMAIN s = 1..Len(s)
    BY SeqFunction, Zenon
  <1>2. m \in Nat /\ m <= Len(s)
    BY <1>1
  <1>3. t = SubSeq(s, 1, m)
    BY Zenon DEF Without
  <1>4. \A i \in 1..m : i \in 1..Len(s) /\ s[i] \in S
    BY <1>1, <1>2, SeqElement
  <1>5. t \in Seq(S) /\ Len(t) = m /\ \A i \in 1..m : t[i] = s[i]
    <2>1. 1 \in 1..(Len(s) + 1) /\ m \in 1 - 1..Len(s)
      BY <1>1, <1>2
    <2>2. /\ SubSeq(s, 1, m) \in Seq(S)
          /\ Len(SubSeq(s, 1, m)) = IF 1 <= m THEN m - 1 + 1 ELSE 0
          /\ \A i \in 1..(m - 1 + 1) : SubSeq(s, 1, m)[i] = s[1 + i - 1]
      <3> HIDE DEF m
      <3> QED
        BY <2>1, SeqCut
    <2> HIDE DEF m
    <2>3. (IF 1 <= m THEN m - 1 + 1 ELSE 0) = m /\ m - 1 + 1 = m /\ \A i \in 1..m : 1 + i - 1 = i
      BY <1>2
    <2> QED
      BY <1>3, <2>2, <2>3, Zenon
  <1> HIDE DEF t, m
  <1>6. DOMAIN t = 1..m
    BY <1>5, SeqFunction, Zenon
  <1>7. Range(t) \subseteq Range(s)
    BY <1>1, <1>4, <1>5, <1>6, Zenon DEF Range
  <1> QED
    BY <1>1, <1>2, <1>4, <1>5, <1>6, <1>7, Zenon DEF t, m

\* A log from which a block was erased
LEMMA EraseLog ==
  ASSUME NEW S, NEW s \in Seq(S), NEW b
  PROVE  Erase(s, b) \in Seq(S) /\ Range(Erase(s, b)) = Range(s) \ {b}
  <1> DEFINE kept == {i \in DOMAIN s : s[i] # b}
             L == Cardinality(kept)
             t == [k \in 1..L |-> s[Nth(kept, k)]]
  <1>1. Erase(s, b) = t
    BY Zenon DEF Erase
  <1>2. Len(s) \in Nat /\ DOMAIN s = 1..Len(s) /\ \A i \in 1..Len(s) : s[i] \in S
    BY SeqFunction, SeqElement, Zenon
  <1>3. kept \subseteq Nat /\ IsFiniteSet(kept)
    <2>1. kept \subseteq 1..Len(s)
      BY <1>2, Zenon
    <2>2. IsFiniteSet(1..Len(s)) /\ 1..Len(s) \subseteq Nat
      BY <1>2, FS_Interval
    <2> HIDE DEF kept
    <2>3. IsFiniteSet(kept)
      BY <2>1, <2>2, FS_Subset, Zenon
    <2> QED
      BY <2>1, <2>2, <2>3, Zenon
  <1>4. /\ L \in Nat
        /\ \A k \in 1..L : Nth(kept, k) \in kept
        /\ \A i \in kept : \E k \in 1..L : Nth(kept, k) = i
    <2> HIDE DEF kept
    <2> QED
      BY <1>3, NthLists, Zenon
  <1>5. \A k \in 1..L : t[k] \in S /\ t[k] \in Range(s) \ {b}
    BY <1>2, <1>4, Zenon DEF Range
  <1>6. \A x \in Range(s) \ {b} : \E k \in 1..L : t[k] = x
    <2> SUFFICES ASSUME NEW i \in DOMAIN s, s[i] # b PROVE \E k \in 1..L : t[k] = s[i]
      BY Zenon DEF Range
    <2>1. i \in kept
      BY Zenon
    <2>2. PICK k \in 1..L : Nth(kept, k) = i
      BY <1>4, <2>1, Zenon
    <2> QED
      BY <2>2, Zenon
  <1>7. DOMAIN t = 1..L
    BY Zenon
  <1> HIDE DEF t, kept, L
  <1>8. t \in Seq(S)
    <2>1. t \in [1..L -> S]
      <3>1. t = [k \in 1..L |-> t[k]]
        BY Zenon DEF t
      <3> QED
        BY <1>5, <3>1, Zenon
    <2> QED
      BY <1>4, <2>1, FunctionIsSeq, Zenon
  <1>9. Range(t) = Range(s) \ {b}
    BY <1>5, <1>6, <1>7, Zenon DEF Range
  <1> QED
    BY <1>1, <1>8, <1>9, Zenon

\* Records written in some order
LEMMA InSomeOrderLog ==
  ASSUME NEW R, IsFiniteSet(R)
  PROVE  InSomeOrder(R) \in Seq(R)
  <1> DEFINE n == Cardinality(R)
  <1>1. n \in Nat /\ ExistsBijection(1..n, R)
    BY FS_CardinalityType, Zenon
  <1>2. InSomeOrder(R) \in Bijection(1..n, R)
    BY <1>1, Zenon DEF InSomeOrder, ExistsBijection
  <1>3. InSomeOrder(R) \in [1..n -> R]
    BY <1>2, Zenon DEF Bijection, Injection
  <1> QED
    BY <1>1, <1>3, FunctionIsSeq, Zenon

\* The blocks before the latest ones are not recent.
LEMMA NotRecent ==
  ASSUME NEW log \in Seq(Block), NEW i \in 1..(Len(log) - nNeedVerifyCount)
  PROVE  i \in 1..Len(log) /\ log[i] \notin Recent(log)
  <1> DEFINE m == Len(log) - nNeedVerifyCount
  <1>1. Len(log) \in Nat /\ nNeedVerifyCount \in Nat
    BY SeqFunction, BlockAssumption, Zenon
  <1>2. m \in Int /\ m <= Len(log) /\ i \in 1..m /\ i \in 1..Len(log)
    BY <1>1
  <1>3. 1 <= m
    BY <1>2
  <1> HIDE DEF m
  <1>4. m \in Nat /\ Len(log) - m \in Nat /\ Len(log) - m <= Len(log) /\ Len(log) - (Len(log) - m) = m
    BY <1>1, <1>2, <1>3
  <1>5. /\ SubSeq(log, 1, m)[i] = log[i]
        /\ DOMAIN SubSeq(log, 1, m) = 1..m
    BY <1>2, <1>4, WithoutLog DEF Without
  <1>6. log[i] \in Range(SubSeq(log, 1, m))
    BY <1>2, <1>5, Zenon DEF Range
  <1> QED
    BY <1>2, <1>6, Zenon DEF Recent, m

-----------------------------------------------------------------------------
(* The types.                                                              *)

\* Roots and last blocks are records of the fork database.
LEMMA RecordTypes ==
  /\ \A b \in Block : ContextRoot(b) \in ForkRecord
  /\ \A f \in Origin, b \in Block : LastRecord(f, b) \in ForkRecord
BY BlockAssumption, Zenon DEF ContextRoot, LastRecord, ForkRecord

\* The links stay links.
LEMMA UpdateNextType ==
  ASSUME next \in [Block -> Block \cup {None}], NEW b \in Block
  PROVE  UpdateBlockNext(b) \in [Block -> Block \cup {None}]
  <1> DEFINE unlinked == {c \in Chain[b] \ Origin : \A a \in Chain[b] : c \in Chain[a] => next[Prev[a]] # a}
             climbed == {Prev[c] : c \in unlinked}
             cut == UNION {Following(a) : a \in climbed \cup {b}}
             link(a) == CHOOSE c \in Chain[b] : c \notin Origin /\ Prev[c] = a
  <1>1. UpdateBlockNext(b) =
          [a \in Block |-> IF a \in climbed THEN link(a) ELSE IF a \in cut THEN None ELSE next[a]]
    BY Zenon DEF UpdateBlockNext
  <1>2. Chain[b] \subseteq Block
    BY ChainType, Zenon
  <1>3. \A a \in climbed : link(a) \in Block
    BY <1>2, Zenon
  <1> HIDE DEF climbed, cut, link
  <1> QED
    BY <1>1, <1>3, Zenon

\* The transaction index stays one.
LEMMA LongChainType ==
  ASSUME NEW pos \in [Tx -> Block \cup {None}], NEW removed, NEW added \in SUBSET Block
  PROVE  UpdateBlockLongChain(pos, removed, added) \in [Tx -> Block \cup {None}]
BY Zenon DEF UpdateBlockLongChain

\* What joins the chain are blocks.
LEMMA AddedType ==
  ASSUME NEW b \in Block, NEW last
  PROVE  Added(b, last) \in SUBSET Block
BY ChainType, Zenon DEF Added

\* The last block of a fork is the one a record says.
LEMMA ForkLastRecord ==
  ASSUME fork \in Seq(ForkRecord), NEW f, ForkLast(f) # None
  PROVE  \E i \in DOMAIN fork : fork[i].type = "last" /\ fork[i].fork = f /\ fork[i].block = ForkLast(f)
  <1> DEFINE written == {i \in DOMAIN fork : fork[i].type = "last" /\ fork[i].fork = f}
             top == CHOOSE i \in written : \A j \in written : j <= i
  <1>1. written # {} /\ ForkLast(f) = fork[top].block
    BY Zenon DEF ForkLast
  <1>2. Len(fork) \in Nat /\ DOMAIN fork = 1..Len(fork)
    BY SeqFunction, Zenon
  <1>3. written \subseteq Nat /\ IsFiniteSet(written)
    <2>1. written \subseteq 1..Len(fork)
      BY <1>2, Zenon
    <2>2. IsFiniteSet(1..Len(fork)) /\ 1..Len(fork) \subseteq Nat
      BY <1>2, FS_Interval
    <2> HIDE DEF written
    <2>3. IsFiniteSet(written)
      BY <2>1, <2>2, FS_Subset, Zenon
    <2> QED
      BY <2>1, <2>2, <2>3, Zenon
  <1>4. top \in written
    <2> HIDE DEF written
    <2>1. \E i \in written : \A j \in written : j <= i
      BY <1>1, <1>3, GreatestNatural, Zenon
    <2> QED
      BY <2>1, Zenon
  <1> QED
    BY <1>1, <1>4, Zenon

-----------------------------------------------------------------------------
(* What growing and losing logs does to the invariants.                    *)

\* A block stays complete as long as nothing is lost.
LEMMA CompleteGrows ==
  ASSUME Range(state) \subseteq Range(state'), Range(fork) \subseteq Range(fork'),
         Range(index) \subseteq Range(index'), NEW b, Complete(b)
  PROVE  Complete(b)'
BY Zenon DEF Complete, HasRoots

\* A record at the end of the fork database
LEMMA ForkAppend ==
  ASSUME fork \in Seq(ForkRecord), ContextBeforeLast, NEW e \in ForkRecord, fork' = Append(fork, e),
         \/ ContextRoot(Genesis) \in Range(fork)
         \/ fork = <<>> /\ e = LastRecord(Genesis, Genesis)
         \/ e = ContextRoot(Genesis),
         e.type = "last" /\ e.fork = Genesis /\ e.block # Genesis => ContextRoot(e.block) \in Range(fork)
  PROVE  fork' \in Seq(ForkRecord) /\ ContextBeforeLast' /\ Range(fork') = Range(fork) \cup {e}
  <1>1. /\ fork' \in Seq(ForkRecord) /\ Len(fork') = Len(fork) + 1
        /\ \A i \in 1..Len(fork) : fork'[i] = fork[i]
        /\ fork'[Len(fork) + 1] = e
        /\ Range(fork') = Range(fork) \cup {e}
    BY AppendLog
  <1>2. Len(fork) \in Nat /\ DOMAIN fork = 1..Len(fork) /\ DOMAIN fork' = 1..(Len(fork) + 1)
    BY <1>1, SeqFunction, Zenon
  <1>3. \A i \in DOMAIN fork' :
          fork'[i].type = "last" /\ fork'[i].fork = Genesis /\ fork'[i].block # Genesis =>
            \E j \in 1 .. i - 1 : fork'[j] = ContextRoot(fork'[i].block)
    <2> SUFFICES ASSUME NEW i \in 1..(Len(fork) + 1),
                        fork'[i].type = "last" /\ fork'[i].fork = Genesis /\ fork'[i].block # Genesis
                 PROVE  \E j \in 1 .. i - 1 : fork'[j] = ContextRoot(fork'[i].block)
      BY <1>2, Zenon
    <2>1. CASE i = Len(fork) + 1
      <3>1. ContextRoot(e.block) \in Range(fork)
        BY <1>1, <2>1, Zenon
      <3>2. PICK j \in 1..Len(fork) : fork[j] = ContextRoot(e.block)
        BY <1>2, <3>1, Zenon DEF Range
      <3>3. j \in 1..i - 1
        BY <1>2, <2>1
      <3> QED
        BY <1>1, <2>1, <3>2, <3>3, Zenon
    <2>2. CASE i # Len(fork) + 1
      <3>1. i \in 1..Len(fork) /\ i \in DOMAIN fork /\ fork'[i] = fork[i]
        BY <1>1, <1>2, <2>2
      <3>2. PICK j \in 1..i - 1 : fork[j] = ContextRoot(fork[i].block)
        BY <3>1, Zenon DEF ContextBeforeLast
      <3>3. j \in 1..Len(fork)
        BY <1>2, <3>1
      <3> QED
        BY <1>1, <3>1, <3>2, <3>3, Zenon
    <2> QED
      BY <2>1, <2>2, Zenon
  <1>4. CASE fork = <<>>
    <2>1. Len(fork) = 0 /\ Range(fork) = {} /\ fork'[1] = e /\ ~(Len(fork') > 1)
      BY <1>1, <1>2, <1>4 DEF Range
    <2> QED
      BY <1>1, <1>3, <2>1, Zenon DEF ContextBeforeLast
  <1>5. CASE fork # <<>>
    <2>1. Len(fork) # 0 /\ 1 \in 1..Len(fork) /\ fork'[1] = fork[1]
      BY <1>1, <1>2, <1>5, SeqEmpty
    <2>2. fork[1] \in {LastRecord(Genesis, Genesis), ContextRoot(Genesis)}
      BY <1>5, Zenon DEF ContextBeforeLast
    <2>3. ContextRoot(Genesis) \in {fork'[1], fork'[2]}
      <3>1. CASE Len(fork) = 1
        <4>1. fork'[2] = e /\ (ContextRoot(Genesis) \in Range(fork) => fork[1] = ContextRoot(Genesis))
          BY <1>1, <1>2, <3>1 DEF Range
        <4> QED
          BY <1>5, <2>1, <4>1, Zenon
      <3>2. CASE Len(fork) # 1
        <4>1. Len(fork) > 1 /\ 2 \in 1..Len(fork)
          BY <1>2, <2>1, <3>2
        <4>2. ContextRoot(Genesis) \in {fork[1], fork[2]}
          BY <4>1, Zenon DEF ContextBeforeLast
        <4> QED
          BY <1>1, <2>1, <4>1, <4>2, Zenon
      <3> QED
        BY <3>1, <3>2, Zenon
    <2> QED
      BY <1>1, <1>3, <2>1, <2>2, <2>3, Zenon DEF ContextBeforeLast
  <1> QED
    BY <1>1, <1>4, <1>5, Zenon

\* Last blocks found by VerifyDB at the end of the fork database
LEMMA ForkConcat ==
  ASSUME fork \in Seq(ForkRecord), ContextBeforeLast, NEW q \in Seq(ForkRecord), fork' = fork \o q,
         ContextRoot(Genesis) \in Range(fork),
         \A i \in 1..Len(q) :
           q[i].type = "last" /\ q[i].fork = Genesis => ContextRoot(q[i].block) \in Range(fork)
  PROVE  fork' \in Seq(ForkRecord) /\ ContextBeforeLast' /\ Range(fork) \subseteq Range(fork')
  <1>1. /\ fork' \in Seq(ForkRecord) /\ Len(fork') = Len(fork) + Len(q)
        /\ \A i \in 1..(Len(fork) + Len(q)) : fork'[i] = IF i <= Len(fork) THEN fork[i] ELSE q[i - Len(fork)]
    BY SeqConcat, Zenon
  <1>2. Len(q) \in Nat /\ Len(fork) \in Nat /\ DOMAIN fork = 1..Len(fork) /\ DOMAIN fork' = 1..(Len(fork) + Len(q))
    BY <1>1, SeqFunction, Zenon
  <1>3. \A i \in 1..Len(fork) : i \in 1..(Len(fork) + Len(q)) /\ fork'[i] = fork[i]
    BY <1>1, <1>2
  <1>4. \A i \in DOMAIN fork' :
          fork'[i].type = "last" /\ fork'[i].fork = Genesis /\ fork'[i].block # Genesis =>
            \E j \in 1 .. i - 1 : fork'[j] = ContextRoot(fork'[i].block)
    <2> SUFFICES ASSUME NEW i \in 1..(Len(fork) + Len(q)),
                        fork'[i].type = "last" /\ fork'[i].fork = Genesis /\ fork'[i].block # Genesis
                 PROVE  \E j \in 1 .. i - 1 : fork'[j] = ContextRoot(fork'[i].block)
      BY <1>2, Zenon
    <2>1. CASE ~(i <= Len(fork))
      <3>1. i - Len(fork) \in 1..Len(q) /\ fork'[i] = q[i - Len(fork)]
        BY <1>1, <1>2, <2>1
      <3>2. ContextRoot(fork'[i].block) \in Range(fork)
        BY <3>1, Zenon
      <3>3. PICK j \in 1..Len(fork) : fork[j] = ContextRoot(fork'[i].block)
        BY <1>2, <3>2, Zenon DEF Range
      <3>4. j \in 1..i - 1
        BY <1>2, <2>1
      <3> QED
        BY <1>3, <3>3, <3>4, Zenon
    <2>2. CASE i <= Len(fork)
      <3>1. i \in 1..Len(fork) /\ i \in DOMAIN fork /\ fork'[i] = fork[i]
        BY <1>2, <1>3, <2>2
      <3>2. PICK j \in 1..i - 1 : fork[j] = ContextRoot(fork[i].block)
        BY <3>1, Zenon DEF ContextBeforeLast
      <3>3. j \in 1..Len(fork)
        BY <1>2, <3>1
      <3> QED
        BY <1>3, <3>1, <3>2, <3>3, Zenon
    <2> QED
      BY <2>1, <2>2, Zenon
  <1>5. fork # <<>> /\ 1 \in 1..Len(fork) /\ fork'[1] = fork[1]
    <2>1. PICK k \in 1..Len(fork) : fork[k] = ContextRoot(Genesis)
      BY <1>2, Zenon DEF Range
    <2>2. 1 \in 1..Len(fork) /\ Len(fork) # 0
      BY <1>2
    <2> QED
      BY <1>3, <2>2
  <1>6. fork[1] \in {LastRecord(Genesis, Genesis), ContextRoot(Genesis)}
    BY <1>5, Zenon DEF ContextBeforeLast
  <1>7. ContextRoot(Genesis) \in {fork'[1], fork'[2]}
    <2>1. CASE Len(fork) = 1
      <3>1. fork[1] = ContextRoot(Genesis)
        BY <1>2, <2>1 DEF Range
      <3> QED
        BY <1>5, <3>1, Zenon
    <2>2. CASE Len(fork) # 1
      <3>1. Len(fork) > 1 /\ 2 \in 1..Len(fork)
        BY <1>2, <1>5, <2>2
      <3> QED
        BY <1>3, <1>5, <3>1, Zenon DEF ContextBeforeLast
    <2> QED
      BY <2>1, <2>2, Zenon
  <1>8. Range(fork) \subseteq Range(fork')
    BY <1>2, <1>3, Zenon DEF Range
  <1> QED
    BY <1>1, <1>4, <1>5, <1>6, <1>7, <1>8, Zenon DEF ContextBeforeLast

\* The fork database after a loss
LEMMA ForkShrinks ==
  ASSUME fork \in Seq(ForkRecord), ContextBeforeLast, NEW n \in Nat, n <= Len(fork), fork' = Without(fork, n)
  PROVE  fork' \in Seq(ForkRecord) /\ ContextBeforeLast' /\ Range(fork') \subseteq Range(fork)
  <1>1. /\ fork' \in Seq(ForkRecord) /\ Len(fork') = Len(fork) - n /\ Len(fork) - n \in Nat /\ Len(fork) \in Nat
        /\ DOMAIN fork' = 1..(Len(fork) - n) /\ DOMAIN fork = 1..Len(fork)
        /\ \A i \in 1..(Len(fork) - n) : i \in 1..Len(fork) /\ fork'[i] = fork[i]
        /\ Range(fork') \subseteq Range(fork)
    BY WithoutLog, Zenon
  <1>2. \A i \in DOMAIN fork' :
          fork'[i].type = "last" /\ fork'[i].fork = Genesis /\ fork'[i].block # Genesis =>
            \E j \in 1 .. i - 1 : fork'[j] = ContextRoot(fork'[i].block)
    <2> SUFFICES ASSUME NEW i \in 1..(Len(fork) - n),
                        fork'[i].type = "last" /\ fork'[i].fork = Genesis /\ fork'[i].block # Genesis
                 PROVE  \E j \in 1 .. i - 1 : fork'[j] = ContextRoot(fork'[i].block)
      BY <1>1, Zenon
    <2>1. i \in DOMAIN fork /\ fork'[i] = fork[i]
      BY <1>1, Zenon
    <2>2. PICK j \in 1..i - 1 : fork[j] = ContextRoot(fork[i].block)
      BY <2>1, Zenon DEF ContextBeforeLast
    <2>3. j \in 1..(Len(fork) - n)
      BY <1>1
    <2> QED
      BY <1>1, <2>1, <2>2, <2>3, Zenon
  <1>3. fork' # <<>> => fork'[1] \in {LastRecord(Genesis, Genesis), ContextRoot(Genesis)}
    <2> SUFFICES ASSUME fork' # <<>> PROVE fork'[1] \in {LastRecord(Genesis, Genesis), ContextRoot(Genesis)}
      BY Zenon
    <2>1. Len(fork') # 0
      BY <1>1, SeqEmpty, Zenon
    <2>2. 1 \in 1..(Len(fork) - n)
      BY <1>1, <2>1
    <2>3. 1 \in 1..Len(fork) /\ fork # <<>> /\ fork'[1] = fork[1]
      BY <1>1, <2>2
    <2> QED
      BY <2>3, Zenon DEF ContextBeforeLast
  <1>4. Len(fork') > 1 => ContextRoot(Genesis) \in {fork'[1], fork'[2]}
    <2> SUFFICES ASSUME Len(fork') > 1 PROVE ContextRoot(Genesis) \in {fork'[1], fork'[2]}
      BY Zenon
    <2>1. 1 \in 1..(Len(fork) - n) /\ 2 \in 1..(Len(fork) - n) /\ Len(fork) > 1
      BY <1>1
    <2> QED
      BY <1>1, <2>1, Zenon DEF ContextBeforeLast
  <1> QED
    BY <1>1, <1>2, <1>3, <1>4, Zenon DEF ContextBeforeLast

\* A block at the end of the verify file
LEMMA SavedAppend ==
  ASSUME verify \in Seq(Block), SavedInOrder, NEW b \in Block, b \notin Range(verify), b \in file, file' = file,
         IF b = Genesis THEN verify = <<>> ELSE Prev[b] \in Range(verify),
         verify' = Append(verify, b)
  PROVE  verify' \in Seq(Block) /\ SavedInOrder' /\ Range(verify') = Range(verify) \cup {b}
  <1>1. /\ verify' \in Seq(Block) /\ Len(verify') = Len(verify) + 1
        /\ \A i \in 1..Len(verify) : verify'[i] = verify[i]
        /\ verify'[Len(verify) + 1] = b
        /\ Range(verify') = Range(verify) \cup {b}
    BY AppendLog
  <1>2. Len(verify) \in Nat /\ DOMAIN verify = 1..Len(verify) /\ DOMAIN verify' = 1..(Len(verify) + 1)
    BY <1>1, SeqFunction, Zenon
  <1>3. \A i \in 1..(Len(verify) + 1) : i = Len(verify) + 1 \/ i \in 1..Len(verify)
    BY <1>2
  <1>4. IsInjective(verify')
    <2>1. \A i, j \in 1..Len(verify) : verify[i] = verify[j] => i = j
      BY <1>2, Zenon DEF SavedInOrder, IsInjective
    <2>2. \A i \in 1..Len(verify) : verify[i] # b
      BY <1>2, Zenon DEF Range
    <2> QED
      BY <1>1, <1>2, <1>3, <2>1, <2>2 DEF IsInjective
  <1>5. Range(verify') \subseteq file
    BY <1>1, Zenon DEF SavedInOrder
  <1>6. verify'[1] = Genesis
    <2>1. CASE verify = <<>>
      <3>1. Len(verify) = 0 /\ Range(verify) = {}
        BY <2>1 DEF Range
      <3> QED
        BY <1>1, <3>1
    <2>2. CASE verify # <<>>
      <3>1. 1 \in 1..Len(verify)
        BY <1>2, <2>2, SeqEmpty
      <3> QED
        BY <1>1, <2>2, <3>1, Zenon DEF SavedInOrder
    <2> QED
      BY <2>1, <2>2, Zenon
  <1>7. \A i \in DOMAIN verify' :
          verify'[i] # Genesis => \E j \in 1 .. i - 1 : verify'[j] = Prev[verify'[i]]
    <2> SUFFICES ASSUME NEW i \in 1..(Len(verify) + 1), verify'[i] # Genesis
                 PROVE  \E j \in 1 .. i - 1 : verify'[j] = Prev[verify'[i]]
      BY <1>2, Zenon
    <2>1. CASE i = Len(verify) + 1
      <3>1. PICK j \in 1..Len(verify) : verify[j] = Prev[b]
        BY <1>1, <1>2, <2>1, Zenon DEF Range
      <3>2. j \in 1..i - 1
        BY <1>2, <2>1
      <3> QED
        BY <1>1, <2>1, <3>1, <3>2, Zenon
    <2>2. CASE i \in 1..Len(verify)
      <3>1. PICK j \in 1..i - 1 : verify[j] = Prev[verify[i]]
        BY <1>1, <1>2, <2>2, Zenon DEF SavedInOrder
      <3>2. j \in 1..Len(verify)
        BY <1>2, <2>2
      <3> QED
        BY <1>1, <2>2, <3>1, <3>2, Zenon
    <2> QED
      BY <1>3, <2>1, <2>2, Zenon
  <1> QED
    BY <1>1, <1>4, <1>5, <1>6, <1>7, Zenon DEF SavedInOrder

\* The verify file after a loss
LEMMA SavedShrinks ==
  ASSUME verify \in Seq(Block), SavedInOrder, NEW n \in Nat, n <= Len(verify), verify' = Without(verify, n),
         file' = file
  PROVE  verify' \in Seq(Block) /\ SavedInOrder'
  <1>1. /\ verify' \in Seq(Block) /\ Len(verify') = Len(verify) - n
        /\ Len(verify) - n \in Nat /\ Len(verify) \in Nat
        /\ DOMAIN verify' = 1..(Len(verify) - n) /\ DOMAIN verify = 1..Len(verify)
        /\ \A i \in 1..(Len(verify) - n) : i \in 1..Len(verify) /\ verify'[i] = verify[i]
        /\ Range(verify') \subseteq Range(verify)
    BY WithoutLog, Zenon
  <1>2. IsInjective(verify')
    BY <1>1 DEF SavedInOrder, IsInjective
  <1>3. Range(verify') \subseteq file
    BY <1>1, Zenon DEF SavedInOrder
  <1>4. verify' # <<>> => verify'[1] = Genesis
    <2> SUFFICES ASSUME verify' # <<>> PROVE verify'[1] = Genesis
      BY Zenon
    <2>1. Len(verify') # 0
      BY <1>1, SeqEmpty, Zenon
    <2>2. 1 \in 1..(Len(verify) - n)
      BY <1>1, <2>1
    <2>3. 1 \in 1..Len(verify) /\ verify # <<>> /\ verify'[1] = verify[1]
      BY <1>1, <2>2
    <2> QED
      BY <2>3, Zenon DEF SavedInOrder
  <1>5. \A i \in DOMAIN verify' :
          verify'[i] # Genesis => \E j \in 1 .. i - 1 : verify'[j] = Prev[verify'[i]]
    <2> SUFFICES ASSUME NEW i \in 1..(Len(verify) - n), verify'[i] # Genesis
                 PROVE  \E j \in 1 .. i - 1 : verify'[j] = Prev[verify'[i]]
      BY <1>1, Zenon
    <2>1. PICK j \in 1..i - 1 : verify[j] = Prev[verify[i]]
      BY <1>1, Zenon DEF SavedInOrder
    <2>2. j \in 1..(Len(verify) - n)
      BY <1>1
    <2> QED
      BY <1>1, <2>1, <2>2, Zenon
  <1> QED
    BY <1>1, <1>2, <1>3, <1>4, <1>5, Zenon DEF SavedInOrder

-----------------------------------------------------------------------------
(* The steps of a node that is up.                                         *)

\* Where a block is saved, the context of the genesis block is there.
LEMMA GenesisContext ==
  ASSUME RecoveryInv, run = "up", Range(verify) # {}
  PROVE  ContextRoot(Genesis) \in Range(fork)
  <1>1. verify \in Seq(Block) /\ verify # <<>>
    BY DEF RecoveryInv, TypeOK, Range
  <1>2. verify[1] = Genesis /\ 1 \in DOMAIN verify
    BY <1>1, SeqEmpty, SeqFunction DEF RecoveryInv, SavedInOrder
  <1>3. Genesis \in Range(verify)
    BY <1>2, Zenon DEF Range
  <1> QED
    BY <1>3, ForkOfOrigin, Zenon DEF RecoveryInv, UpInv, Complete, HasRoots

\* A block goes to be saved.
LEMMA StorageNewBlockInv ==
  ASSUME RecoveryInv, NEW b \in Block, StorageNewBlock(b)
  PROVE  RecoveryInv'
  <1>1. /\ run = "up" /\ op = Idle /\ check.step # "writing" /\ b \notin mapIndex
        /\ IF b = Genesis THEN mapIndex = {} ELSE Prev[b] \in mapIndex
        /\ op' = [step |-> "file", block |-> b]
        /\ UNCHANGED <<run, file, state, fork, index, verify, txpos, mapIndex, next, check, load, gap, faults>>
    BY Zenon DEF StorageNewBlock, Unlocked
  <1>2. TypeOK' /\ SavedInOrder' /\ ContextBeforeLast'
    BY <1>1, Zenon DEF RecoveryInv, TypeOK, SavedInOrder, ContextBeforeLast
  <1>3. mapIndex = Range(verify)
    BY <1>1, Zenon DEF RecoveryInv, UpInv, Idle, Indexed
  <1>4. WriteInOrder'
    <2>1. mapIndex = {} => verify = <<>>
      <3>1. verify \in Seq(Block)
        BY Zenon DEF RecoveryInv, TypeOK
      <3>2. verify # <<>> => 1 \in DOMAIN verify
        BY <3>1, SeqEmpty, SeqFunction
      <3> QED
        BY <1>3, <3>1, <3>2, Zenon DEF Range
    <2>2. op'.step = "file" /\ op'.block = b /\ DOMAIN op' = {"step", "block"}
      BY <1>1, Zenon
    <2>3. b \notin Range(verify) /\ IF b = Genesis THEN verify = <<>> ELSE Prev[b] \in Range(verify)
      BY <1>1, <1>3, <2>1, Zenon
    <2> QED
      BY <1>1, <2>2, <2>3, Zenon DEF WriteInOrder
  <1>5. CheckInOrder'
    BY <1>1, Zenon DEF RecoveryInv, UpInv, CheckInOrder
  <1>6. fork = <<>> \/ ContextRoot(Genesis) \in Range(fork)
    BY <1>1, Zenon DEF RecoveryInv, UpInv, Idle
  <1>7. UpInv'
    <2>1. \A c \in Range(verify) : Complete(c)'
      BY <1>1, Zenon DEF RecoveryInv, UpInv, Complete, HasRoots
    <2>2. op'.step \notin Indexed
      BY <1>1, Zenon DEF Indexed
    <2> QED
      BY <1>1, <1>3, <1>4, <1>5, <1>6, <2>1, <2>2, Zenon DEF UpInv
  <1> QED
    BY <1>1, <1>2, <1>7, Zenon DEF RecoveryInv, DownInv, LoadInv

\* The write in progress, where it is and what it leaves alone
LEMMA WritingFacts ==
  ASSUME RecoveryInv, NEW s, Writing(s), s # "idle"
  PROVE  /\ run = "up" /\ op # Idle /\ op.step = s /\ WriteInOrder /\ CheckInOrder /\ check.step # "writing"
         /\ \A t : Then(t) => op'.step = t /\ op'.block = op.block /\ DOMAIN op' = {"step", "block"}
         /\ \A c \in Range(verify) : Complete(c)
         /\ mapIndex = Range(verify) \cup (IF s \in Indexed THEN {op.block} ELSE {})
  <1>1. run = "up" /\ op.step = s /\ op # Idle
    BY DEF Writing, Idle
  <1>2. WriteInOrder /\ CheckInOrder /\ check.step # "writing"
    BY <1>1, Zenon DEF RecoveryInv, UpInv, CheckInOrder
  <1>3. \A t : Then(t) => op'.step = t /\ op'.block = op.block /\ DOMAIN op' = {"step", "block"}
    BY <1>2, Zenon DEF Then, WriteInOrder
  <1> QED
    BY <1>1, <1>2, <1>3, Zenon DEF RecoveryInv, UpInv

\* The check does not change while a block is saved.
LEMMA CheckKept ==
  ASSUME CheckInOrder, check.step # "writing", check' = check, Range(verify) \subseteq Range(verify')
  PROVE  CheckInOrder'
BY Zenon DEF CheckInOrder

\* The block is in the block file before anything refers to it.
LEMMA WriteFileInv ==
  ASSUME RecoveryInv, WriteFile
  PROVE  RecoveryInv'
  <1> DEFINE t == IF op.block \in Origin THEN "newfork" ELSE "state"
  <1>1. /\ run = "up" /\ op.step = "file" /\ WriteInOrder /\ CheckInOrder /\ check.step # "writing"
        /\ op'.step = t /\ op'.block = op.block /\ DOMAIN op' = {"step", "block"}
        /\ (\A c \in Range(verify) : Complete(c)) /\ mapIndex = Range(verify)
    <2>1. Writing("file") /\ Then(t)
      BY Zenon DEF WriteFile
    <2> HIDE DEF t
    <2> QED
      BY <2>1, WritingFacts DEF Indexed
  <1>2. /\ file' = file \cup {op.block}
        /\ UNCHANGED <<run, state, fork, index, verify, txpos, mapIndex, next, check, load, gap, faults>>
    BY Zenon DEF WriteFile
  <1>3. TypeOK' /\ SavedInOrder' /\ ContextBeforeLast'
    BY <1>1, <1>2, Zenon
       DEF RecoveryInv, TypeOK, SavedInOrder, ContextBeforeLast, WriteInOrder
  <1>4. fork = <<>> \/ ContextRoot(Genesis) \in Range(fork)
    BY <1>1, Zenon DEF RecoveryInv, UpInv
  <1>5. WriteInOrder'
    <2>1. t \in {"newfork", "state"} /\ (t = "newfork" => op.block \in Origin)
      BY Zenon
    <2> HIDE DEF t
    <2>2. op.block \in file'
      BY <1>2, Zenon
    <2> QED
      BY <1>1, <1>2, <2>1, <2>2, Zenon DEF WriteInOrder
  <1>6. UpInv'
    <2>1. \A c \in Range(verify) : Complete(c)'
      BY <1>1, <1>2, Zenon DEF Complete, HasRoots
    <2> QED
      BY <1>1, <1>2, <1>4, <1>5, <2>1, CheckKept, Zenon DEF UpInv, Indexed
  <1> QED
    BY <1>2, <1>1, <1>3, <1>6, Zenon DEF RecoveryInv, DownInv, LoadInv

\* The record of an origin is the first of its fork; that of the genesis block
\* is the only one without a context before it.
LEMMA AddNewForkInv ==
  ASSUME RecoveryInv, AddNewFork
  PROVE  RecoveryInv'
  <1> DEFINE e == LastRecord(op.block, op.block)
  <1>1. /\ run = "up" /\ op.step = "newfork" /\ WriteInOrder /\ CheckInOrder /\ check.step # "writing"
        /\ op'.step = "state" /\ op'.block = op.block /\ DOMAIN op' = {"step", "block"}
        /\ (\A c \in Range(verify) : Complete(c)) /\ mapIndex = Range(verify)
    <2>1. Writing("newfork") /\ Then("state")
      BY Zenon DEF AddNewFork
    <2> QED
      BY <2>1, WritingFacts DEF Indexed
  <1>2. /\ fork' = Append(fork, e) /\ txpos' = [txpos EXCEPT ![op.block] = NoTx]
        /\ UNCHANGED <<run, file, state, index, verify, mapIndex, next, check, load, gap, faults>>
    BY Zenon DEF AddNewFork
  <1>3. op.block \in Origin /\ op.block \in Block
    BY <1>1, Zenon DEF WriteInOrder
  <1>4. e \in ForkRecord /\ e.fork = op.block /\ e.block = op.block /\ e.type = "last"
    BY <1>3, RecordTypes, Zenon DEF LastRecord
  <1>5. \/ ContextRoot(Genesis) \in Range(fork)
        \/ fork = <<>> /\ op.block = Genesis
    <2>1. CASE op.block = Genesis
      BY <1>1, <2>1, Zenon DEF RecoveryInv, UpInv
    <2>2. CASE op.block # Genesis
      BY <1>1, <2>2, GenesisContext, Zenon DEF WriteInOrder
    <2> QED
      BY <2>1, <2>2, Zenon
  <1>6. fork' \in Seq(ForkRecord) /\ ContextBeforeLast' /\ Range(fork') = Range(fork) \cup {e}
    <2>1. fork \in Seq(ForkRecord) /\ ContextBeforeLast
      BY Zenon DEF RecoveryInv, TypeOK
    <2>2. fork = <<>> /\ op.block = Genesis => e = LastRecord(Genesis, Genesis)
      BY Zenon
    <2> HIDE DEF e
    <2> QED
      BY <1>2, <1>4, <1>5, <2>1, <2>2, ForkAppend, Zenon
  <1>7. TypeOK' /\ SavedInOrder'
    <2>1. txpos' \in [Origin -> [Tx -> Block \cup {None}]]
      BY <1>2, <1>3, Zenon DEF RecoveryInv, TypeOK, NoTx
    <2> QED
      BY <1>2, <1>6, <2>1, Zenon DEF RecoveryInv, TypeOK, SavedInOrder
  <1>8. WriteInOrder'
    <2> HIDE DEF e
    <2> QED
      BY <1>1, <1>2, <1>6, Zenon DEF WriteInOrder
  <1>9. UpInv'
    <2>1. \A c \in Range(verify) : Complete(c)'
      BY <1>1, <1>2, <1>6, CompleteGrows, Zenon
    <2>2. ContextRoot(Genesis) \in Range(fork') \/ op.block = Genesis
      BY <1>5, <1>6, Zenon
    <2> HIDE DEF e
    <2> QED
      BY <1>1, <1>2, <1>8, <2>1, <2>2, CheckKept, Zenon DEF UpInv, Indexed
  <1> QED
    BY <1>2, <1>1, <1>6, <1>7, <1>9, Zenon DEF RecoveryInv, DownInv, LoadInv

\* The block is indexed in memory, and its first roots are written.
LEMMA UpdateBlockStateInv ==
  ASSUME RecoveryInv, UpdateBlockState
  PROVE  RecoveryInv'
  <1> DEFINE t == IF IsPrimary(op.block) THEN "context" ELSE "number"
             e == <<"state", op.block>>
  <1>1. /\ run = "up" /\ op.step = "state" /\ WriteInOrder /\ CheckInOrder /\ check.step # "writing"
        /\ op'.step = t /\ op'.block = op.block /\ DOMAIN op' = {"step", "block"}
        /\ (\A c \in Range(verify) : Complete(c)) /\ mapIndex = Range(verify)
    <2>1. Writing("state") /\ Then(t)
      BY Zenon DEF UpdateBlockState
    <2> HIDE DEF t
    <2> QED
      BY <2>1, WritingFacts DEF Indexed
  <1>2. /\ mapIndex' = mapIndex \cup {op.block} /\ state' = Append(state, e)
        /\ UNCHANGED <<run, file, fork, index, verify, txpos, next, check, load, gap, faults>>
    BY Zenon DEF UpdateBlockState
  <1>3. op.block \in Block /\ e \in {"state", "number"} \X Block
    BY <1>1, Zenon DEF WriteInOrder
  <1>4. state' \in Seq({"state", "number"} \X Block) /\ Range(state') = Range(state) \cup {e}
    <2>1. state \in Seq({"state", "number"} \X Block)
      BY Zenon DEF RecoveryInv, TypeOK
    <2> HIDE DEF e
    <2> QED
      BY <1>2, <1>3, <2>1, AppendLog
  <1>5. TypeOK' /\ SavedInOrder' /\ ContextBeforeLast'
    BY <1>2, <1>3, <1>4, Zenon DEF RecoveryInv, TypeOK, SavedInOrder, ContextBeforeLast
  <1>6. WriteInOrder'
    <2>1. t \in {"context", "number"} /\ (t = "number" => ~IsPrimary(op.block))
      BY Zenon
    <2>2. e \in Range(state')
      BY <1>4, Zenon
    <2> HIDE DEF t
    <2> QED
      BY <1>1, <1>2, <2>1, <2>2, Zenon DEF WriteInOrder
  <1>7. UpInv'
    <2>1. \A c \in Range(verify) : Complete(c)'
      BY <1>1, <1>2, <1>4, CompleteGrows, Zenon
    <2>2. op'.step \in Indexed
      BY <1>1, Zenon DEF Indexed
    <2>3. \/ fork = <<>> \/ ContextRoot(Genesis) \in Range(fork)
          \/ op.block = Genesis /\ op'.step = "context"
      BY <1>1, ForkOfOrigin, Zenon DEF RecoveryInv, UpInv
    <2> HIDE DEF t
    <2> QED
      BY <1>1, <1>2, <1>6, <2>1, <2>2, <2>3, CheckKept, Zenon DEF UpInv
  <1> QED
    BY <1>2, <1>1, <1>5, <1>7, Zenon DEF RecoveryInv, DownInv, LoadInv

\* The context of a primary block is written before its number, outline and
\* verify record.
LEMMA AddBlockForkContextInv ==
  ASSUME RecoveryInv, AddBlockForkContext
  PROVE  RecoveryInv'
  <1> DEFINE e == ContextRoot(op.block)
  <1>1. /\ run = "up" /\ op.step = "context" /\ WriteInOrder /\ CheckInOrder /\ check.step # "writing"
        /\ op'.step = "number" /\ op'.block = op.block /\ DOMAIN op' = {"step", "block"}
        /\ (\A c \in Range(verify) : Complete(c)) /\ mapIndex = Range(verify) \cup {op.block}
    <2>1. Writing("context") /\ Then("number")
      BY Zenon DEF AddBlockForkContext
    <2> QED
      BY <2>1, WritingFacts, Zenon DEF Indexed
  <1>2. /\ fork' = Append(fork, e)
        /\ UNCHANGED <<run, file, state, index, verify, txpos, mapIndex, next, check, load, gap, faults>>
    BY Zenon DEF AddBlockForkContext
  <1>3. op.block \in Block /\ e \in ForkRecord /\ e.type = "root"
    BY <1>1, RecordTypes, Zenon DEF WriteInOrder, ContextRoot
  <1>4. ContextRoot(Genesis) \in Range(fork) \/ op.block = Genesis
    BY <1>1, GenesisContext, Zenon DEF WriteInOrder
  <1>5. fork' \in Seq(ForkRecord) /\ ContextBeforeLast' /\ Range(fork') = Range(fork) \cup {e}
    <2>1. fork \in Seq(ForkRecord) /\ ContextBeforeLast
      BY Zenon DEF RecoveryInv, TypeOK
    <2>2. op.block = Genesis => e = ContextRoot(Genesis)
      BY Zenon
    <2> HIDE DEF e
    <2> QED
      BY <1>2, <1>3, <1>4, <2>1, <2>2, ForkAppend, Zenon
  <1>6. TypeOK' /\ SavedInOrder'
    BY <1>2, <1>5, Zenon DEF RecoveryInv, TypeOK, SavedInOrder
  <1>7. WriteInOrder'
    <2>1. e \in Range(fork')
      BY <1>5, Zenon
    <2> QED
      BY <1>1, <1>2, <2>1, Zenon DEF WriteInOrder
  <1>8. UpInv'
    <2>1. \A c \in Range(verify) : Complete(c)'
      BY <1>1, <1>2, <1>5, CompleteGrows, Zenon
    <2>2. ContextRoot(Genesis) \in Range(fork')
      BY <1>4, <1>5, Zenon
    <2> HIDE DEF e
    <2> QED
      BY <1>1, <1>2, <1>7, <2>1, <2>2, CheckKept, Zenon DEF UpInv, Indexed
  <1> QED
    BY <1>2, <1>1, <1>5, <1>6, <1>8, Zenon DEF RecoveryInv, DownInv, LoadInv

\* Past the context, the context of the genesis block is there.
LEMMA ContextThere ==
  ASSUME RecoveryInv, run = "up", op.step \notin {"state", "context"}
  PROVE  fork = <<>> \/ ContextRoot(Genesis) \in Range(fork)
BY Zenon DEF RecoveryInv, UpInv

\* The last of the roots is written.
LEMMA AddNewBlockNumberInv ==
  ASSUME RecoveryInv, AddNewBlockNumber
  PROVE  RecoveryInv'
  <1> DEFINE e == <<"number", op.block>>
  <1>1. /\ run = "up" /\ op.step = "number" /\ WriteInOrder /\ CheckInOrder /\ check.step # "writing"
        /\ op'.step = "index" /\ op'.block = op.block /\ DOMAIN op' = {"step", "block"}
        /\ (\A c \in Range(verify) : Complete(c)) /\ mapIndex = Range(verify) \cup {op.block}
    <2>1. Writing("number") /\ Then("index")
      BY Zenon DEF AddNewBlockNumber
    <2> QED
      BY <2>1, WritingFacts, Zenon DEF Indexed
  <1>2. /\ state' = Append(state, e)
        /\ UNCHANGED <<run, file, fork, index, verify, txpos, mapIndex, next, check, load, gap, faults>>
    BY Zenon DEF AddNewBlockNumber
  <1>3. op.block \in Block /\ e \in {"state", "number"} \X Block
    BY <1>1, Zenon DEF WriteInOrder
  <1>4. state' \in Seq({"state", "number"} \X Block) /\ Range(state') = Range(state) \cup {e}
    <2>1. state \in Seq({"state", "number"} \X Block)
      BY Zenon DEF RecoveryInv, TypeOK
    <2> HIDE DEF e
    <2> QED
      BY <1>2, <1>3, <2>1, AppendLog
  <1>5. TypeOK' /\ SavedInOrder' /\ ContextBeforeLast'
    BY <1>2, <1>3, <1>4, Zenon DEF RecoveryInv, TypeOK, SavedInOrder, ContextBeforeLast
  <1>6. WriteInOrder'
    <2>1. e \in Range(state') /\ Range(state) \subseteq Range(state')
      BY <1>4, Zenon
    <2> QED
      BY <1>1, <1>2, <2>1, Zenon DEF WriteInOrder
  <1>7. UpInv'
    <2>1. \A c \in Range(verify) : Complete(c)'
      BY <1>1, <1>2, <1>4, CompleteGrows, Zenon
    <2>2. fork = <<>> \/ ContextRoot(Genesis) \in Range(fork)
      BY <1>1, ContextThere, Zenon
    <2> QED
      BY <1>1, <1>2, <1>6, <2>1, <2>2, CheckKept, Zenon DEF UpInv, Indexed
  <1> QED
    BY <1>2, <1>1, <1>5, <1>7, Zenon DEF RecoveryInv, DownInv, LoadInv

\* The outline is written when all roots are.
LEMMA AddNewBlockIndexInv ==
  ASSUME RecoveryInv, AddNewBlockIndex
  PROVE  RecoveryInv'
  <1>1. /\ run = "up" /\ op.step = "index" /\ WriteInOrder /\ CheckInOrder /\ check.step # "writing"
        /\ op'.step = "verify" /\ op'.block = op.block /\ DOMAIN op' = {"step", "block"}
        /\ (\A c \in Range(verify) : Complete(c)) /\ mapIndex = Range(verify) \cup {op.block}
    <2>1. Writing("index") /\ Then("verify")
      BY Zenon DEF AddNewBlockIndex
    <2> QED
      BY <2>1, WritingFacts, Zenon DEF Indexed
  <1>2. /\ index' = Append(index, op.block)
        /\ UNCHANGED <<run, file, state, fork, verify, txpos, mapIndex, next, check, load, gap, faults>>
    BY Zenon DEF AddNewBlockIndex
  <1>3. op.block \in Block
    BY <1>1, Zenon DEF WriteInOrder
  <1>4. index' \in Seq(Block) /\ Range(index') = Range(index) \cup {op.block}
    <2>1. index \in Seq(Block)
      BY Zenon DEF RecoveryInv, TypeOK
    <2> QED
      BY <1>2, <1>3, <2>1, AppendLog
  <1>5. TypeOK' /\ SavedInOrder' /\ ContextBeforeLast'
    BY <1>2, <1>4, Zenon DEF RecoveryInv, TypeOK, SavedInOrder, ContextBeforeLast
  <1>6. WriteInOrder'
    BY <1>1, <1>2, <1>4, Zenon DEF WriteInOrder
  <1>7. UpInv'
    <2>1. \A c \in Range(verify) : Complete(c)'
      BY <1>1, <1>2, <1>4, CompleteGrows, Zenon
    <2>2. fork = <<>> \/ ContextRoot(Genesis) \in Range(fork)
      BY <1>1, ContextThere, Zenon
    <2> QED
      BY <1>1, <1>2, <1>6, <2>1, <2>2, CheckKept, Zenon DEF UpInv, Indexed
  <1> QED
    BY <1>2, <1>1, <1>5, <1>7, Zenon DEF RecoveryInv, DownInv, LoadInv

\* The block is in the verify file, complete.
LEMMA AddBlockVerifyInv ==
  ASSUME RecoveryInv, AddBlockVerify
  PROVE  RecoveryInv'
  <1>1. /\ run = "up" /\ op.step = "verify" /\ WriteInOrder /\ CheckInOrder /\ check.step # "writing"
        /\ (\A c \in Range(verify) : Complete(c)) /\ mapIndex = Range(verify) \cup {op.block}
        /\ \/ op' = Idle
           \/ op'.step = "longchain" /\ op'.block = op.block /\ DOMAIN op' = {"step", "block"}
    <2>1. Writing("verify") /\ (Then("longchain") \/ op' = Idle)
      BY Zenon DEF AddBlockVerify
    <2> QED
      BY <2>1, WritingFacts, Zenon DEF Indexed
  <1>2. /\ verify' = Append(verify, op.block)
        /\ UNCHANGED <<run, file, state, fork, index, txpos, mapIndex, next, check, load, gap, faults>>
    BY Zenon DEF AddBlockVerify
  <1>3. /\ op.block \in Block /\ op.block \notin Range(verify) /\ op.block \in file
        /\ IF op.block = Genesis THEN verify = <<>> ELSE Prev[op.block] \in Range(verify)
    BY <1>1, Zenon DEF WriteInOrder
  <1>4. verify' \in Seq(Block) /\ SavedInOrder' /\ Range(verify') = Range(verify) \cup {op.block}
    <2>1. verify \in Seq(Block) /\ SavedInOrder
      BY Zenon DEF RecoveryInv, TypeOK
    <2> QED
      BY <1>2, <1>3, <2>1, SavedAppend, Zenon
  <1>5. Complete(op.block)
    BY <1>1, Zenon DEF WriteInOrder, Complete, HasRoots
  <1>6. TypeOK' /\ ContextBeforeLast'
    BY <1>2, <1>4, Zenon DEF RecoveryInv, TypeOK, ContextBeforeLast
  <1>7. op' = Idle \/ WriteInOrder'
    BY <1>1, <1>2, <1>3, <1>4, Zenon DEF WriteInOrder
  <1>8. UpInv'
    <2>1. \A c \in Range(verify') : Complete(c)'
      BY <1>1, <1>2, <1>4, <1>5, CompleteGrows, Zenon
    <2>2. fork = <<>> \/ ContextRoot(Genesis) \in Range(fork)
      BY <1>1, ContextThere, Zenon
    <2>3. op'.step \notin Indexed
      BY <1>1 DEF Idle, Indexed
    <2> QED
      BY <1>1, <1>2, <1>4, <1>7, <2>1, <2>2, <2>3, CheckKept, Zenon DEF UpInv
  <1> QED
    BY <1>1, <1>2, <1>4, <1>6, <1>8, Zenon DEF RecoveryInv, DownInv, LoadInv

\* The transaction index follows the branch; the block is saved already.
LEMMA SetLongChainInv ==
  ASSUME RecoveryInv, SetLongChain
  PROVE  RecoveryInv'
  <1> DEFINE f == ForkOf[op.block]
             last == GetForkLastIndex(f)
             pos == UpdateBlockLongChain(txpos[f], Removed(op.block, last), Added(op.block, last))
  <1>1. /\ run = "up" /\ op.step = "longchain" /\ WriteInOrder /\ CheckInOrder /\ check.step # "writing"
        /\ op'.step = "last" /\ op'.block = op.block /\ DOMAIN op' = {"step", "block"}
        /\ (\A c \in Range(verify) : Complete(c)) /\ mapIndex = Range(verify)
    <2>1. Writing("longchain") /\ Then("last")
      BY Zenon DEF SetLongChain
    <2> QED
      BY <2>1, WritingFacts DEF Indexed
  <1>2. /\ txpos' = [txpos EXCEPT ![f] = pos]
        /\ UNCHANGED <<run, file, state, fork, index, verify, mapIndex, next, check, load, gap, faults>>
    BY Zenon DEF SetLongChain
  <1>3. op.block \in Block /\ f \in Origin
    BY <1>1, ForkOfType, Zenon DEF WriteInOrder
  <1>4. txpos' \in [Origin -> [Tx -> Block \cup {None}]]
    <2>1. txpos \in [Origin -> [Tx -> Block \cup {None}]]
      BY Zenon DEF RecoveryInv, TypeOK
    <2>2. pos \in [Tx -> Block \cup {None}]
      <3> HIDE DEF f, last
      <3>1. txpos[f] \in [Tx -> Block \cup {None}] /\ Added(op.block, last) \in SUBSET Block
        BY <1>3, <2>1, AddedType, Zenon
      <3> QED
        BY <3>1, LongChainType, Zenon
    <2> HIDE DEF pos, f
    <2> QED
      BY <1>2, <2>1, <2>2, Zenon
  <1> HIDE DEF pos, f, last
  <1>5. TypeOK' /\ SavedInOrder' /\ ContextBeforeLast'
    BY <1>2, <1>4, Zenon
       DEF RecoveryInv, TypeOK, SavedInOrder, ContextBeforeLast
  <1>6. WriteInOrder'
    BY <1>1, <1>2, Zenon DEF WriteInOrder
  <1>7. UpInv'
    <2>1. \A c \in Range(verify) : Complete(c)'
      BY <1>1, <1>2, CompleteGrows, Zenon
    <2>2. fork = <<>> \/ ContextRoot(Genesis) \in Range(fork)
      BY <1>1, ContextThere, Zenon
    <2> QED
      BY <1>1, <1>2, <1>6, <2>1, <2>2, CheckKept, Zenon DEF UpInv, Indexed
  <1> QED
    BY <1>1, <1>2, <1>5, <1>7, Zenon DEF RecoveryInv, DownInv, LoadInv

\* The context of a primary block was written before it is recorded as the last.
LEMMA UpdateForkLastInv ==
  ASSUME RecoveryInv, UpdateForkLast
  PROVE  RecoveryInv'
  <1> DEFINE e == LastRecord(ForkOf[op.block], op.block)
  <1>1. /\ run = "up" /\ op.step = "last" /\ WriteInOrder /\ CheckInOrder /\ check.step # "writing"
        /\ (\A c \in Range(verify) : Complete(c)) /\ mapIndex = Range(verify)
    <2>1. Writing("last")
      BY Zenon DEF UpdateForkLast
    <2> QED
      BY <2>1, WritingFacts DEF Indexed
  <1>2. /\ next' = UpdateBlockNext(op.block) /\ fork' = Append(fork, e) /\ op' = Idle
        /\ UNCHANGED <<run, file, state, index, verify, txpos, mapIndex, check, load, gap, faults>>
    BY Zenon DEF UpdateForkLast
  <1>3. op.block \in Block /\ ForkOf[op.block] \in Origin /\ op.block \in Range(verify)
    BY <1>1, ForkOfType, Zenon DEF WriteInOrder
  <1>4. /\ e \in ForkRecord /\ e.type = "last" /\ e.fork = ForkOf[op.block] /\ e.block = op.block
    BY <1>3, RecordTypes, Zenon DEF LastRecord
  <1>5. ContextRoot(Genesis) \in Range(fork) /\ (e.fork = Genesis => ContextRoot(e.block) \in Range(fork))
    <2>1. ContextRoot(Genesis) \in Range(fork)
      BY <1>1, <1>3, GenesisContext, Zenon
    <2>2. Complete(op.block)
      BY <1>1, <1>3, Zenon
    <2> QED
      BY <1>4, <2>1, <2>2, Zenon DEF Complete, HasRoots, IsPrimary
  <1>6. fork' \in Seq(ForkRecord) /\ ContextBeforeLast' /\ Range(fork') = Range(fork) \cup {e}
    <2>1. fork \in Seq(ForkRecord) /\ ContextBeforeLast
      BY Zenon DEF RecoveryInv, TypeOK
    <2> HIDE DEF e
    <2> QED
      BY <1>2, <1>4, <1>5, <2>1, ForkAppend, Zenon
  <1>7. next' \in [Block -> Block \cup {None}]
    BY <1>2, <1>3, UpdateNextType, Zenon DEF RecoveryInv, TypeOK
  <1> HIDE DEF e
  <1>8. TypeOK' /\ SavedInOrder'
    BY <1>2, <1>6, <1>7, Zenon DEF RecoveryInv, TypeOK, SavedInOrder
  <1>9. UpInv'
    <2>1. \A c \in Range(verify) : Complete(c)'
      BY <1>1, <1>2, <1>6, CompleteGrows, Zenon
    <2>2. op'.step \notin Indexed
      BY <1>2, Zenon DEF Idle, Indexed
    <2> QED
      BY <1>1, <1>2, <1>5, <1>6, <2>1, <2>2, CheckKept, Zenon DEF UpInv
  <1> QED
    BY <1>1, <1>2, <1>6, <1>8, <1>9, Zenon DEF RecoveryInv, DownInv, LoadInv

\* What a failed write takes back is not in the verify file.
LEMMA FailInv ==
  ASSUME RecoveryInv, Fail
  PROVE  RecoveryInv'
  <1>1. /\ run = "up" /\ op # Idle /\ op.block # Genesis /\ op' = Idle
        /\ mapIndex' = (IF op.step \in {"longchain", "last"} THEN mapIndex ELSE mapIndex \ {op.block})
        /\ index' = (IF op.step = "verify" THEN Erase(index, op.block) ELSE index)
        /\ next' = (IF op.step = "last" THEN UpdateBlockNext(op.block) ELSE next)
        /\ gap' = (IF op.step = "last" THEN gap \cup {ForkOf[op.block]} ELSE gap)
        /\ UNCHANGED <<run, file, state, fork, verify, txpos, check, load>>
    BY Zenon DEF Fail
  <1>2. /\ WriteInOrder /\ CheckInOrder /\ check.step # "writing" /\ \A c \in Range(verify) : Complete(c)
    BY <1>1, Zenon DEF RecoveryInv, UpInv, CheckInOrder
  <1>3. op.block \in Block /\ ForkOf[op.block] \in Origin
    BY <1>2, ForkOfType, Zenon DEF WriteInOrder
  <1>4. mapIndex' = Range(verify)
    BY <1>1, <1>2, Zenon DEF RecoveryInv, UpInv, WriteInOrder, Indexed
  <1>5. index' \in Seq(Block) /\ \A c \in Range(verify) : c \in Range(index) => c \in Range(index')
    <2>1. CASE op.step = "verify"
      <3>1. op.block \notin Range(verify)
        BY <1>2, <2>1, Zenon DEF WriteInOrder
      <3> QED
        <4>1. index \in Seq(Block) /\ index' = Erase(index, op.block)
          BY <1>1, <2>1, Zenon DEF RecoveryInv, TypeOK
        <4>2. index' \in Seq(Block) /\ Range(index') = Range(index) \ {op.block}
          BY <4>1, EraseLog, Zenon
        <4> QED
          BY <3>1, <4>2, Zenon
    <2>2. CASE op.step # "verify"
      BY <1>1, <2>2, Zenon DEF RecoveryInv, TypeOK
    <2> QED
      BY <2>1, <2>2, Zenon
  <1>6. next' \in [Block -> Block \cup {None}] /\ gap' \subseteq Origin
    BY <1>1, <1>3, UpdateNextType, Zenon DEF RecoveryInv, TypeOK
  <1>7. TypeOK' /\ SavedInOrder' /\ ContextBeforeLast'
    <2>1. mapIndex' \subseteq Block
      BY <1>1, Zenon DEF RecoveryInv, TypeOK
    <2> QED
      BY <1>1, <1>5, <1>6, <2>1, Zenon
         DEF RecoveryInv, TypeOK, SavedInOrder, ContextBeforeLast
  <1>8. UpInv'
    <2>1. \A c \in Range(verify) : Complete(c)'
      BY <1>1, <1>2, <1>5, Zenon DEF Complete, HasRoots
    <2>2. op'.step \notin Indexed
      BY <1>1, Zenon DEF Idle, Indexed
    <2>3. fork = <<>> \/ ContextRoot(Genesis) \in Range(fork)
      BY <1>1, Zenon DEF RecoveryInv, UpInv
    <2> QED
      BY <1>1, <1>2, <1>4, <2>1, <2>2, <2>3, CheckKept, Zenon DEF UpInv
  <1> QED
    BY <1>1, <1>7, <1>8, Zenon DEF RecoveryInv, DownInv, LoadInv

-----------------------------------------------------------------------------
(* The steps of CheckForkValidLast.                                        *)

\* Steps that write no block and no last block
LEMMA CheckStep ==
  ASSUME RecoveryInv, run = "up", op = Idle, CheckInOrder',
         UNCHANGED <<run, file, state, fork, index, verify, mapIndex, next, op, load>>,
         txpos' \in [Origin -> [Tx -> Block \cup {None}]], gap' \subseteq Origin
  PROVE  RecoveryInv'
  <1>1. TypeOK' /\ SavedInOrder' /\ ContextBeforeLast'
    BY Zenon DEF RecoveryInv, TypeOK, SavedInOrder, ContextBeforeLast
  <1>2. \A c \in Range(verify) : Complete(c)'
    BY Zenon DEF RecoveryInv, UpInv, Complete, HasRoots
  <1>3. UpInv'
    BY <1>2, Zenon DEF RecoveryInv, UpInv
  <1> QED
    BY <1>1, <1>3, Zenon DEF RecoveryInv, DownInv, LoadInv

\* A last block is chosen for a sub-fork, never for the primary one.
LEMMA ChooseValidLastInv ==
  ASSUME RecoveryInv, NEW f \in Origin, ChooseValidLast(f)
  PROVE  RecoveryInv'
  <1>1. /\ run = "up" /\ op = Idle /\ f # Genesis /\ GetForkLastIndex(Genesis) # None
        /\ GetForkValidLast(f) # None
        /\ check' = [NoCheck EXCEPT !.step = "chosen", !.fork = f, !.last = GetForkValidLast(f)]
        /\ UNCHANGED <<run, file, state, fork, index, verify, txpos, mapIndex, next, op, load, gap, faults>>
    BY Zenon DEF ChooseValidLast, Unlocked
  <1>2. GetForkValidLast(f) \in Block
    BY <1>1, ValidLastType, Zenon DEF RecoveryInv, TypeOK
  <1>3. Range(verify) # {}
    <2>1. mapIndex = Range(verify)
      BY <1>1, Zenon DEF RecoveryInv, UpInv, Idle, Indexed
    <2> QED
      BY <1>1, <2>1, Zenon DEF GetForkLastIndex
  <1>4. CheckInOrder'
    <2>1. /\ DOMAIN check' = DOMAIN NoCheck /\ check'.step = "chosen" /\ check'.fork = f
          /\ check'.last = GetForkValidLast(f) /\ check'.added = {}
      BY <1>1, Zenon DEF NoCheck
    <2>2. (DOMAIN NoCheck)' = DOMAIN NoCheck
      BY Zenon DEF NoCheck
    <2> QED
      BY <1>1, <1>2, <1>3, <2>1, <2>2, Zenon DEF CheckInOrder
  <1> QED
    BY <1>1, <1>4, CheckStep, Zenon DEF RecoveryInv, TypeOK

\* The branch is listed.
LEMMA ListBranchInv ==
  ASSUME RecoveryInv, ListBranch
  PROVE  RecoveryInv'
  <1> DEFINE last == GetForkLastIndex(check.fork)
             removed == Chain[last] \ Chain[check.last]
             added == Chain[check.last] \ Chain[last]
  <1>1. /\ run = "up" /\ op = Idle /\ check.step = "chosen"
        /\ check' = [check EXCEPT !.step = "listed", !.from = last, !.removed = removed, !.added = added]
        /\ UNCHANGED <<run, file, state, fork, index, verify, txpos, mapIndex, next, op, load, gap, faults>>
    BY Zenon DEF ListBranch, Unlocked
  <1>2. CheckInOrder
    BY <1>1, Zenon DEF RecoveryInv, UpInv
  <1>3. added \in SUBSET Block
    BY <1>1, <1>2, ChainType, Zenon DEF CheckInOrder
  <1> HIDE DEF last, removed, added
  <1>4. CheckInOrder'
    <2>1. /\ DOMAIN check' = DOMAIN NoCheck /\ check'.step = "listed" /\ check'.fork = check.fork
          /\ check'.last = check.last /\ check'.added = added
      BY <1>1, <1>2, Zenon DEF CheckInOrder, NoCheck
    <2>2. (DOMAIN NoCheck)' = DOMAIN NoCheck
      BY Zenon DEF NoCheck
    <2> QED
      BY <1>1, <1>2, <1>3, <2>1, <2>2, Zenon DEF CheckInOrder
  <1> QED
    BY <1>1, <1>4, CheckStep, Zenon DEF RecoveryInv, TypeOK

\* The transaction index follows the branch listed.
LEMMA UpdateForkNextTxInv ==
  ASSUME RecoveryInv, UpdateForkNextTx
  PROVE  RecoveryInv'
  <1> DEFINE pos == UpdateBlockLongChain(txpos[check.fork], check.removed, check.added)
  <1>1. /\ run = "up" /\ op = Idle /\ check.step = "listed"
        /\ txpos' = [txpos EXCEPT ![check.fork] = pos]
        /\ gap' = (IF ForkLast(check.fork) # check.from THEN gap \cup {check.fork} ELSE gap)
        /\ check' = [check EXCEPT !.step = "writing"]
        /\ UNCHANGED <<run, file, state, fork, index, verify, mapIndex, next, op, load, faults>>
    BY Zenon DEF UpdateForkNextTx, Unlocked
  <1>2. CheckInOrder
    BY <1>1, Zenon DEF RecoveryInv, UpInv
  <1>3. check.fork \in Origin \ {Genesis} /\ check.last \in Block /\ check.added \in SUBSET Block
    BY <1>1, <1>2, Zenon DEF CheckInOrder
  <1>4. txpos' \in [Origin -> [Tx -> Block \cup {None}]] /\ gap' \subseteq Origin
    <2>1. txpos \in [Origin -> [Tx -> Block \cup {None}]] /\ gap \subseteq Origin
      BY Zenon DEF RecoveryInv, TypeOK
    <2>2. pos \in [Tx -> Block \cup {None}]
      <3>1. txpos[check.fork] \in [Tx -> Block \cup {None}]
        BY <1>3, <2>1, Zenon
      <3> QED
        BY <1>3, <3>1, LongChainType, Zenon
    <2> HIDE DEF pos
    <2> QED
      BY <1>1, <1>3, <2>1, <2>2, Zenon
  <1>5. CheckInOrder'
    <2>1. /\ DOMAIN check' = DOMAIN NoCheck /\ check'.step = "writing" /\ check'.fork = check.fork
          /\ check'.last = check.last /\ check'.added = check.added
      BY <1>1, <1>2, Zenon DEF CheckInOrder, NoCheck
    <2>2. (DOMAIN NoCheck)' = DOMAIN NoCheck
      BY Zenon DEF NoCheck
    <2> QED
      BY <1>1, <1>2, <2>1, <2>2, Zenon DEF CheckInOrder
  <1> QED
    BY <1>1, <1>4, <1>5, CheckStep, Zenon

\* The record of a sub-fork needs no context of its own.
LEMMA UpdateForkNextInv ==
  ASSUME RecoveryInv, UpdateForkNext
  PROVE  RecoveryInv'
  <1> DEFINE e == LastRecord(check.fork, check.last)
  <1>1. /\ run = "up" /\ check.step = "writing" /\ next' = UpdateBlockNext(check.last)
        /\ fork' = Append(fork, e) /\ check' = NoCheck
        /\ UNCHANGED <<run, file, state, index, verify, txpos, mapIndex, op, load, gap, faults>>
    BY Zenon DEF UpdateForkNext
  <1>2. CheckInOrder /\ op = Idle /\ \A c \in Range(verify) : Complete(c)
    BY <1>1, Zenon DEF RecoveryInv, UpInv, CheckInOrder
  <1>3. check.fork \in Origin /\ check.fork # Genesis /\ check.last \in Block /\ Range(verify) # {}
    BY <1>1, <1>2, Zenon DEF CheckInOrder
  <1>4. e \in ForkRecord /\ e.fork # Genesis
    BY <1>3, RecordTypes, Zenon DEF LastRecord
  <1>5. ContextRoot(Genesis) \in Range(fork)
    BY <1>1, <1>3, GenesisContext, Zenon
  <1>6. fork' \in Seq(ForkRecord) /\ ContextBeforeLast' /\ Range(fork') = Range(fork) \cup {e}
    <2>1. fork \in Seq(ForkRecord) /\ ContextBeforeLast
      BY Zenon DEF RecoveryInv, TypeOK
    <2> HIDE DEF e
    <2> QED
      BY <1>1, <1>4, <1>5, <2>1, ForkAppend, Zenon
  <1>7. next' \in [Block -> Block \cup {None}]
    BY <1>1, <1>3, UpdateNextType, Zenon DEF RecoveryInv, TypeOK
  <1> HIDE DEF e
  <1>8. TypeOK' /\ SavedInOrder'
    BY <1>1, <1>6, <1>7, Zenon DEF RecoveryInv, TypeOK, SavedInOrder
  <1>9. UpInv'
    <2>1. \A c \in Range(verify) : Complete(c)'
      BY <1>1, <1>2, <1>6, CompleteGrows, Zenon
    <2>2. CheckInOrder'
      BY <1>1, Zenon DEF CheckInOrder, NoCheck
    <2> QED
      BY <1>1, <1>2, <1>5, <1>6, <2>1, <2>2, Zenon DEF RecoveryInv, UpInv
  <1> QED
    BY <1>1, <1>6, <1>8, <1>9, Zenon DEF RecoveryInv, DownInv, LoadInv

-----------------------------------------------------------------------------
(* The process stops and starts.                                           *)

\* A block whose records may not be lost stays complete.
LEMMA NotLost ==
  ASSUME NEW b, Complete(b), b \notin Recent(verify)',
         {r[2] : r \in Range(state) \ Range(state')} \subseteq Recent(verify)',
         Range(index) \ Range(index') \subseteq Recent(verify)',
         {r.block : r \in Range(fork) \ Range(fork')} \subseteq Recent(verify)'
  PROVE  Complete(b)'
  <1> DEFINE late == Recent(verify)'
  <1>1. \A r \in Range(state) : r[2] = b => r \in Range(state')
    BY Zenon
  <1>2. \A r \in Range(fork) : r.block = b => r \in Range(fork')
    BY Zenon
  <1>3. b \in Range(index) => b \in Range(index')
    BY Zenon
  <1>4. /\ <<"state", b>>[2] = b /\ <<"number", b>>[2] = b /\ ContextRoot(b).block = b
    BY Zenon DEF ContextRoot
  <1> QED
    BY <1>1, <1>2, <1>3, <1>4, Zenon DEF Complete, HasRoots

\* What is lost is at the end of the verify file, or is checked there.
LEMMA StopInv ==
  ASSUME RecoveryInv, Stop
  PROVE  RecoveryInv'
  <1>1. /\ run \in {"up", "loading"} /\ run' = "down" /\ mapIndex' = {} /\ next' = [b \in Block |-> None]
        /\ op' = Idle /\ check' = NoCheck /\ UNCHANGED <<file, txpos>>
    BY Zenon DEF Stop
  <1>2. PICK n \in [{"state", "fork", "index", "verify"} -> 0 .. MaxLost] :
          /\ n["state"] <= Len(state) /\ n["fork"] <= Len(fork)
          /\ n["index"] <= Len(index) /\ n["verify"] <= Len(verify)
          /\ state' = Without(state, n["state"]) /\ fork' = Without(fork, n["fork"])
          /\ index' = Without(index, n["index"]) /\ verify' = Without(verify, n["verify"])
          /\ {r[2] : r \in Range(state) \ Range(state')} \subseteq Recent(verify')
          /\ Range(index) \ Range(index') \subseteq Recent(verify')
          /\ {r.block : r \in Range(fork) \ Range(fork')} \subseteq Recent(verify')
          /\ gap' = gap \cup (IF n["verify"] > 0 THEN Origin ELSE {})
                        \cup (IF check.step = "writing" THEN {check.fork} ELSE {})
                        \cup {r.fork : r \in Range(SubSeq(fork, Len(fork') + 1, Len(fork)))}
    BY Zenon DEF Stop
  <1>3. n["state"] \in Nat /\ n["fork"] \in Nat /\ n["index"] \in Nat /\ n["verify"] \in Nat
    BY BlockAssumption
  <1>4. /\ state \in Seq({"state", "number"} \X Block) /\ index \in Seq(Block) /\ verify \in Seq(Block)
        /\ fork \in Seq(ForkRecord) /\ ContextBeforeLast /\ SavedInOrder /\ gap \subseteq Origin
        /\ txpos \in [Origin -> [Tx -> Block \cup {None}]] /\ file \subseteq Block
    BY Zenon DEF RecoveryInv, TypeOK
  <1>5. fork' \in Seq(ForkRecord) /\ ContextBeforeLast' /\ Len(fork') \in 0..Len(fork) /\ Len(fork) \in Nat
    <2>1. fork' \in Seq(ForkRecord) /\ ContextBeforeLast'
      BY <1>2, <1>3, <1>4, ForkShrinks, Zenon
    <2> DEFINE k == n["fork"]
    <2>3. k \in Nat /\ k <= Len(fork) /\ fork' = Without(fork, k)
      BY <1>2, <1>3, Zenon
    <2> HIDE DEF k
    <2>2. Len(fork') = Len(fork) - k /\ Len(fork) - k \in Nat /\ Len(fork) \in Nat
      BY <1>4, <2>3, WithoutLog, Zenon
    <2> QED
      BY <2>1, <2>2, <2>3
  <1>6. /\ verify' \in Seq(Block) /\ SavedInOrder'
        /\ Len(verify) \in Nat /\ Len(verify') = Len(verify) - n["verify"] /\ Len(verify') \in Nat
        /\ DOMAIN verify = 1..Len(verify)
        /\ \A i \in 1..Len(verify') : i \in 1..Len(verify) /\ verify'[i] = verify[i]
    <2> DEFINE k == n["verify"]
    <2>1. k \in Nat /\ k <= Len(verify) /\ verify' = Without(verify, k) /\ file' = file
      BY <1>1, <1>2, <1>3, Zenon
    <2> HIDE DEF k
    <2>2. verify' \in Seq(Block) /\ SavedInOrder'
      BY <1>4, <2>1, SavedShrinks, Zenon
    <2>3. /\ Len(verify) \in Nat /\ Len(verify') = Len(verify) - k /\ Len(verify') \in Nat
          /\ DOMAIN verify = 1..Len(verify)
          /\ \A i \in 1..(Len(verify) - k) : i \in 1..Len(verify) /\ verify'[i] = verify[i]
      BY <1>4, <2>1, WithoutLog, ZenonT(30)
    <2> QED
      BY <2>2, <2>3, Zenon DEF k
  <1>7. state' \in Seq({"state", "number"} \X Block)
    BY <1>2, <1>3, <1>4, WithoutLog, Zenon
  <1>8. index' \in Seq(Block)
    BY <1>2, <1>3, <1>4, WithoutLog, Zenon
  <1>9. gap' \subseteq Origin
    <2> DEFINE q == SubSeq(fork, Len(fork') + 1, Len(fork))
    <2>1. q \in Seq(ForkRecord)
      BY <1>4, <1>5, SeqCut
    <2>2. Range(q) \subseteq ForkRecord
      <3> HIDE DEF q
      <3> QED
        BY <2>1, SeqFunction, SeqElement DEF Range
    <2>3. {r.fork : r \in Range(q)} \subseteq Origin
      <3> HIDE DEF q
      <3> QED
        BY <2>2, Zenon DEF ForkRecord
    <2>4. check.step = "writing" => check.fork \in Origin
      <3>1. CASE run = "up"
        BY <3>1, Zenon DEF RecoveryInv, UpInv, CheckInOrder
      <3>2. CASE run = "loading"
        BY <3>2 DEF RecoveryInv, DownInv, NoCheck
      <3> QED
        BY <1>1, <3>1, <3>2, Zenon
    <2> HIDE DEF q
    <2>5. gap' = gap \cup (IF n["verify"] > 0 THEN Origin ELSE {})
                     \cup (IF check.step = "writing" THEN {check.fork} ELSE {}) \cup {r.fork : r \in Range(q)}
      BY <1>2, Zenon DEF q
    <2> QED
      BY <1>4, <2>3, <2>4, <2>5, Zenon
  <1>10. TypeOK'
    BY <1>1, <1>4, <1>5, <1>6, <1>7, <1>8, <1>9, Zenon DEF TypeOK
  <1>11. (\A i \in 1..(Len(verify) - nNeedVerifyCount) : Complete(verify[i]))'
    <2> SUFFICES ASSUME NEW i \in 1..(Len(verify') - nNeedVerifyCount)
                 PROVE  Complete(verify[i])'
      BY Zenon
    <2>1. i \in 1..Len(verify') /\ verify'[i] \notin Recent(verify')
      BY <1>6, NotRecent, Zenon
    <2>4. PICK c : c = verify'[i]
      BY Zenon
    <2>2. verify'[i] = verify[i] /\ i \in DOMAIN verify /\ i \in 1..(Len(verify) - nNeedVerifyCount)
      <3>1. nNeedVerifyCount \in Nat
        BY BlockAssumption, Zenon
      <3> QED
        BY <1>3, <1>6, <2>1, <3>1
    <2>3. Complete(verify[i])
      <3>1. CASE run = "up"
        <4>1. verify[i] \in Range(verify)
          BY <2>2, Zenon DEF Range
        <4> QED
          BY <3>1, <4>1, Zenon DEF RecoveryInv, UpInv
      <3>2. CASE run = "loading"
        BY <2>2, <3>2, Zenon DEF RecoveryInv, DownInv
      <3> QED
        BY <1>1, <3>1, <3>2, Zenon
    <2>5. Complete(c) /\ c \notin Recent(verify)'
      BY <2>1, <2>2, <2>3, <2>4, Zenon DEF Recent
    <2>6. Complete(c)'
      BY <1>2, <2>5, NotLost, Zenon DEF Recent
    <2> QED
      BY <2>4, <2>6, Zenon DEF Complete, HasRoots, IsPrimary, ContextRoot
  <1>12. DownInv'
    BY <1>1, <1>11, Zenon DEF DownInv
  <1> QED
    BY <1>1, <1>5, <1>6, <1>10, <1>12, Zenon DEF RecoveryInv, UpInv, LoadInv

\* The start is refused only where nothing but the genesis record is left, and
\* the latest records are looked at before the others are trusted.
LEMMA StartInv ==
  ASSUME RecoveryInv, Start
  PROVE  RecoveryInv'
  <1>1. /\ run = "down"
        /\ UNCHANGED <<file, state, fork, index, verify, txpos, mapIndex, next, op, check, gap, faults>>
    BY Zenon DEF Start
  <1>2. /\ TypeOK /\ SavedInOrder /\ ContextBeforeLast /\ op = Idle /\ check = NoCheck /\ mapIndex = {}
        /\ \A i \in 1 .. Len(verify) - nNeedVerifyCount : Complete(verify[i])
    BY <1>1, Zenon DEF RecoveryInv, DownInv
  <1>3. run' \in {"failed", "loading"}
    BY Zenon DEF Start
  <1>4. TypeOK' /\ SavedInOrder' /\ ContextBeforeLast'
    BY <1>1, <1>2, <1>3, Zenon DEF TypeOK, SavedInOrder, ContextBeforeLast
  <1>5. (\A i \in 1 .. Len(verify) - nNeedVerifyCount : Complete(verify[i]))'
    BY <1>1, <1>2, Zenon DEF Complete, HasRoots
  <1>6. \/ fork = <<>> \/ ContextRoot(Genesis) \in Range(fork)
        \/ fork = <<LastRecord(Genesis, Genesis)>>
    <2>1. fork \in Seq(ForkRecord)
      BY <1>2, Zenon DEF TypeOK
    <2>2. Len(fork) \in Nat /\ DOMAIN fork = 1..Len(fork)
      BY <2>1, SeqFunction, Zenon
    <2>3. CASE Len(fork) = 0
      BY <2>1, <2>3, SeqEmpty, Zenon
    <2>4. CASE Len(fork) > 1
      BY <1>2, <2>2, <2>4 DEF ContextBeforeLast, Range
    <2>5. CASE Len(fork) = 1
      <3>1. fork # <<>> /\ 1 \in DOMAIN fork
        BY <2>2, <2>5
      <3>2. fork[1] \in {LastRecord(Genesis, Genesis), ContextRoot(Genesis)}
        BY <1>2, <3>1, Zenon DEF ContextBeforeLast
      <3>3. fork = <<fork[1]>>
        BY <2>1, <2>5
      <3> QED
        BY <3>1, <3>2, <3>3, Zenon DEF Range
    <2> QED
      BY <2>2, <2>3, <2>4, <2>5
  <1>7. \/ /\ run' = "failed" /\ ForkLast(Genesis) # None
           /\ ContextRoot(ForkLast(Genesis)) \notin Range(fork)
        \/ /\ run' = "loading" /\ load' = [NoLoad EXCEPT !.all = AllVerify]
           /\ ForkLast(Genesis) = None \/ ContextRoot(ForkLast(Genesis)) \in Range(fork)
    BY Zenon DEF Start
  <1>8. CASE run' = "failed"
    <2>1. fork = <<LastRecord(Genesis, Genesis)>>
      <3>1. fork \in Seq(ForkRecord) /\ ForkLast(Genesis) # None
        BY <1>2, <1>7, <1>8, Zenon DEF TypeOK
      <3>2. PICK i \in DOMAIN fork :
              fork[i].type = "last" /\ fork[i].fork = Genesis /\ fork[i].block = ForkLast(Genesis)
        BY <3>1, ForkLastRecord, Zenon
      <3>3. Len(fork) \in Nat /\ DOMAIN fork = 1..Len(fork)
        BY <3>1, SeqFunction, Zenon
      <3>4. \A j \in 1..i - 1 : j \in DOMAIN fork
        BY <3>3
      <3>5. ForkLast(Genesis) = Genesis
        BY <1>2, <1>7, <1>8, <3>2, <3>4, Zenon DEF ContextBeforeLast, Range
      <3>6. fork # <<>>
        BY <3>2
      <3> QED
        BY <1>6, <1>7, <1>8, <3>5, <3>6, Zenon
    <2> QED
      BY <1>1, <1>2, <1>4, <1>5, <1>8, <2>1, Zenon
         DEF RecoveryInv, UpInv, DownInv, LoadInv
  <1>9. CASE run' = "loading"
    <2>1. load'.pos = 0 /\ load'.all = AllVerify /\ load'.last = [f \in Origin |-> None] /\ DOMAIN load' = DOMAIN NoLoad
      BY <1>7, <1>9, Zenon DEF NoLoad
    <2>2. AllVerify \in BOOLEAN
      BY Zenon DEF AllVerify
    <2>3. verify \in Seq(Block) /\ Len(verify) \in Nat /\ DOMAIN verify = 1..Len(verify)
      BY <1>2, SeqFunction, Zenon DEF TypeOK
    <2>4. ~AllVerify /\ Len(verify) > nNeedVerifyCount => \A i \in DOMAIN verify : Complete(verify[i])
      <3> SUFFICES ASSUME ~AllVerify, Len(verify) > nNeedVerifyCount, NEW i \in 1..Len(verify)
                   PROVE  Complete(verify[i])
        BY <2>3, Zenon
      <3>1. nNeedVerifyCount \in Nat
        BY BlockAssumption, Zenon
      <3>2. CASE i \in 1 .. Len(verify) - nNeedVerifyCount
        BY <1>2, <3>2, Zenon
      <3>3. CASE i \in Len(verify) - nNeedVerifyCount + 1 .. Len(verify)
        BY <3>3, Zenon DEF AllVerify, VerifyBlockDB, Complete
      <3> QED
        BY <2>3, <3>1, <3>2, <3>3
    <2>5. fork = <<>> \/ ContextRoot(Genesis) \in Range(fork)
      <3> SUFFICES ASSUME fork = <<LastRecord(Genesis, Genesis)>> PROVE FALSE
        BY <1>6, Zenon
      <3>1. Range(fork) = {LastRecord(Genesis, Genesis)} /\ DOMAIN fork = {1} /\ fork[1] = LastRecord(Genesis, Genesis)
        BY DEF Range
      <3>2. LastRecord(Genesis, Genesis).type = "last" /\ LastRecord(Genesis, Genesis).fork = Genesis
            /\ LastRecord(Genesis, Genesis).block = Genesis
        BY Zenon DEF LastRecord
      <3>3. ForkLast(Genesis) = Genesis
        <4> DEFINE written == {i \in DOMAIN fork : fork[i].type = "last" /\ fork[i].fork = Genesis}
        <4>1. written = {1}
          BY <3>1, <3>2, Zenon
        <4>2. (CHOOSE i \in written : \A j \in written : j <= i) = 1
          BY <4>1
        <4> QED
          BY <3>1, <3>2, <4>1, <4>2, Zenon DEF ForkLast
      <3>4. ContextRoot(Genesis).type = "root"
        BY Zenon DEF ContextRoot
      <3>5. Genesis # None
        BY BlockAssumption, Zenon
      <3> QED
        BY <1>7, <1>9, <3>1, <3>2, <3>3, <3>4, <3>5, Zenon
    <2>6. LoadInv'
      <3>1. load'.pos \in 0..Len(verify') /\ load'.all \in BOOLEAN /\ DOMAIN load'.last = Origin
        <4>1. verify' = verify
          BY <1>1, Zenon
        <4>2. 0 \in 0..Len(verify)
          BY <2>3
        <4> QED
          BY <2>1, <2>2, <4>1, <4>2, Zenon
      <3>2. (DOMAIN NoLoad)' = DOMAIN NoLoad
        BY Zenon DEF NoLoad
      <3>3. mapIndex' = {verify'[i] : i \in 1 .. load'.pos} /\ \A i \in 1..load'.pos : FALSE
        <4>1. mapIndex' = {} /\ 1 .. load'.pos = {}
          <5>1. mapIndex' = {}
            BY <1>1, <1>2, Zenon
          <5> QED
            BY <2>1, <5>1
        <4> QED
          BY <4>1, Zenon
      <3>4. (~load.all /\ Len(verify) > nNeedVerifyCount => \A i \in DOMAIN verify : Complete(verify[i]))'
        BY <1>1, <2>1, <2>4, Zenon DEF Complete, HasRoots
      <3>5. \A f \in Origin : load'.last[f] = None
        BY <2>1, Zenon
      <3> QED
        BY <1>1, <2>1, <2>5, <3>1, <3>2, <3>3, <3>4, <3>5, Zenon DEF LoadInv
    <2> QED
      BY <1>1, <1>2, <1>4, <1>5, <1>9, <2>6, Zenon DEF RecoveryInv, UpInv, DownInv
  <1> QED
    BY <1>3, <1>8, <1>9, Zenon

-----------------------------------------------------------------------------
(* VerifyDB.                                                               *)

\* A record joins the ones loaded.
LEMMA LoadLastFacts ==
  ASSUME RecoveryInv, run = "loading", load.pos < Len(verify), NEW b, b = verify[load.pos + 1],
         NEW repaired \in BOOLEAN, LoadLast(b, repaired), mapIndex' = mapIndex \cup {b}
  PROVE  /\ b \in Block /\ load.pos + 1 \in DOMAIN verify
         /\ DOMAIN load' = DOMAIN NoLoad /\ load'.pos = load.pos + 1 /\ load'.all = (load.all \/ repaired)
         /\ DOMAIN load'.last = Origin
         /\ mapIndex' = {verify[i] : i \in 1 .. load.pos + 1}
         /\ \A f \in Origin : load'.last[f] # None => load'.last[f] \in mapIndex' /\ ForkOf[load'.last[f]] = f
         /\ next' \in [Block -> Block \cup {None}]
         /\ txpos' \in [Origin -> [Tx -> Block \cup {None}]]
  <1> DEFINE f == ForkOf[b]
             last == load.last[f]
             longer == IF b \in Origin THEN TRUE ELSE Longer(b, last)
             found == IF longer THEN b ELSE last
             pos == UpdateBlockLongChain(txpos[f], Removed(b, last), Added(b, last))
  <1>1. /\ DOMAIN load = DOMAIN NoLoad /\ load.pos \in 0 .. Len(verify) /\ DOMAIN load.last = Origin
        /\ mapIndex = {verify[i] : i \in 1 .. load.pos} /\ load.all \in BOOLEAN
        /\ \A g \in Origin : load.last[g] # None => load.last[g] \in mapIndex /\ ForkOf[load.last[g]] = g
    BY Zenon DEF RecoveryInv, LoadInv
  <1>2. verify \in Seq(Block) /\ Len(verify) \in Nat /\ DOMAIN verify = 1..Len(verify)
    BY SeqFunction, Zenon DEF RecoveryInv, TypeOK
  <1>3. load.pos \in Nat /\ load.pos + 1 \in DOMAIN verify
    BY <1>1, <1>2
  <1>4. b \in Block /\ f \in Origin
    <2>1. b \in Block
      BY <1>2, <1>3, SeqElement, Zenon
    <2> QED
      BY <2>1, ForkOfType, Zenon
  <1>5. /\ load' = [load EXCEPT !.pos = load.pos + 1, !.all = load.all \/ repaired, !.last[f] = found]
        /\ next' = (IF longer /\ b \notin Origin THEN UpdateBlockNext(b) ELSE next)
        /\ txpos' = (IF longer /\ repaired THEN [txpos EXCEPT ![f] = pos] ELSE txpos)
    BY Zenon DEF LoadLast
  <1>6. found \in {b, last}
    BY Zenon
  <1>7. mapIndex' = {verify[i] : i \in 1 .. load.pos + 1}
    <2>1. 1 .. load.pos + 1 = (1 .. load.pos) \cup {load.pos + 1}
      BY <1>3
    <2> QED
      BY <1>1, <2>1
  <1>8. next' \in [Block -> Block \cup {None}]
    BY <1>4, <1>5, UpdateNextType, Zenon DEF RecoveryInv, TypeOK
  <1>9. txpos' \in [Origin -> [Tx -> Block \cup {None}]]
    <2>1. txpos \in [Origin -> [Tx -> Block \cup {None}]]
      BY Zenon DEF RecoveryInv, TypeOK
    <2>2. pos \in [Tx -> Block \cup {None}]
      <3> HIDE DEF last, f
      <3>1. txpos[f] \in [Tx -> Block \cup {None}] /\ Added(b, last) \in SUBSET Block
        BY <1>4, <2>1, AddedType, Zenon
      <3> QED
        BY <3>1, LongChainType, Zenon
    <2> HIDE DEF pos, f, longer
    <2> QED
      BY <1>4, <1>5, <2>1, <2>2, Zenon
  <1> HIDE DEF found, longer, last, pos
  <1>10. /\ DOMAIN load' = DOMAIN NoLoad /\ load'.pos = load.pos + 1 /\ load'.all = (load.all \/ repaired)
         /\ load'.last = [load.last EXCEPT ![f] = found]
    <2> HIDE DEF f
    <2> QED
      BY <1>1, <1>5, Zenon DEF NoLoad
  <1>11. DOMAIN load'.last = Origin /\ \A g \in Origin : load'.last[g] = IF g = f THEN found ELSE load.last[g]
    <2> HIDE DEF f
    <2> QED
      BY <1>1, <1>4, <1>10, Zenon
  <1>12. \A g \in Origin : load'.last[g] # None => load'.last[g] \in mapIndex' /\ ForkOf[load'.last[g]] = g
    <2> SUFFICES ASSUME NEW g \in Origin, load'.last[g] # None
                 PROVE  load'.last[g] \in mapIndex' /\ ForkOf[load'.last[g]] = g
      BY Zenon
    <2>1. load'.last[g] = load.last[g] \/ (g = f /\ load'.last[g] = b)
      BY <1>6, <1>11, Zenon DEF last
    <2> QED
      BY <1>1, <2>1, Zenon
  <1> QED
    BY <1>3, <1>4, <1>7, <1>8, <1>9, <1>10, <1>11, <1>12, Zenon

\* A record that verifies is complete: the ones that are not looked at are
\* among those that the latest records, or the stop, vouch for.
LEMMA LoadRecordInv ==
  ASSUME RecoveryInv, LoadRecord
  PROVE  RecoveryInv'
  <1>1. PICK b : b = verify[load.pos + 1]
    BY Zenon
  <1>2. /\ run = "loading" /\ load.pos < Len(verify) /\ VerifyBlockDB(b, MustVerify(load.pos))
        /\ mapIndex' = mapIndex \cup {b} /\ LoadLast(b, FALSE)
        /\ UNCHANGED <<run, file, state, fork, index, verify, op, check, gap, faults>>
    BY <1>1, Zenon DEF LoadRecord
  <1>3. /\ b \in Block /\ load.pos + 1 \in DOMAIN verify
        /\ DOMAIN load' = DOMAIN NoLoad /\ load'.pos = load.pos + 1 /\ load'.all = load.all
        /\ DOMAIN load'.last = Origin
        /\ mapIndex' = {verify[i] : i \in 1 .. load.pos + 1}
        /\ \A f \in Origin : load'.last[f] # None => load'.last[f] \in mapIndex' /\ ForkOf[load'.last[f]] = f
        /\ next' \in [Block -> Block \cup {None}]
        /\ txpos' \in [Origin -> [Tx -> Block \cup {None}]]
    <2>1. load.all \in BOOLEAN
      BY <1>2, Zenon DEF RecoveryInv, LoadInv
    <2>2. load.all = (load.all \/ FALSE)
      BY <2>1, Zenon
    <2> QED
      BY <1>1, <1>2, <2>2, LoadLastFacts, Zenon
  <1>4. /\ load.pos \in 0 .. Len(verify) /\ load.all \in BOOLEAN
        /\ \A i \in 1 .. load.pos : Complete(verify[i])
        /\ ~load.all /\ Len(verify) > nNeedVerifyCount => \A i \in DOMAIN verify : Complete(verify[i])
        /\ fork = <<>> \/ ContextRoot(Genesis) \in Range(fork)
        /\ op = Idle /\ check = NoCheck
        /\ \A i \in 1 .. Len(verify) - nNeedVerifyCount : Complete(verify[i])
    BY <1>2, Zenon DEF RecoveryInv, LoadInv, DownInv
  <1>5. verify \in Seq(Block) /\ Len(verify) \in Nat /\ DOMAIN verify = 1..Len(verify)
    BY SeqFunction, Zenon DEF RecoveryInv, TypeOK
  <1>6. Complete(b)
    <2>1. CASE MustVerify(load.pos)
      BY <1>2, <2>1, Zenon DEF VerifyBlockDB, Complete
    <2>2. CASE ~MustVerify(load.pos)
      <3>1. ~load.all /\ ~(Len(verify) <= nNeedVerifyCount)
        BY <2>2, Zenon DEF MustVerify
      <3>2. Len(verify) > nNeedVerifyCount
        BY <1>5, <3>1, BlockAssumption
      <3> QED
        BY <1>1, <1>3, <1>4, <3>1, <3>2, Zenon
    <2> QED
      BY <2>1, <2>2, Zenon
  <1>7. TypeOK' /\ SavedInOrder' /\ ContextBeforeLast'
    <2>1. mapIndex' \subseteq Block
      BY <1>2, <1>3, Zenon DEF RecoveryInv, TypeOK
    <2> QED
      BY <1>2, <1>3, <2>1, Zenon
         DEF RecoveryInv, TypeOK, SavedInOrder, ContextBeforeLast
  <1>8. \A i \in DOMAIN verify : Complete(verify[i]) => Complete(verify[i])'
    BY <1>2, Zenon DEF Complete, HasRoots
  <1>9. \A i \in 1 .. load.pos + 1 : i \in DOMAIN verify /\ Complete(verify[i])
    <2>1. \A i \in 1 .. load.pos + 1 : (i \in 1 .. load.pos \/ i = load.pos + 1) /\ i \in 1..Len(verify)
      BY <1>2, <1>4, <1>5
    <2> QED
      BY <1>1, <1>4, <1>5, <1>6, <2>1, Zenon
  <1>10. LoadInv'
    <2>1. (DOMAIN NoLoad)' = DOMAIN NoLoad
      BY Zenon DEF NoLoad
    <2>2. load'.pos \in 0 .. Len(verify)
      <3>1. load'.pos = load.pos + 1 /\ load.pos + 1 \in 1..Len(verify) /\ Len(verify) \in Nat
        BY <1>3, <1>5, Zenon
      <3> QED
        BY <3>1
    <2>3. (\A i \in 1 .. load.pos : Complete(verify[i]))'
      BY <1>3, <1>8, <1>9, Zenon
    <2>4. (~load.all /\ Len(verify) > nNeedVerifyCount => \A i \in DOMAIN verify : Complete(verify[i]))'
      BY <1>2, <1>3, <1>4, <1>8, Zenon
    <2>5. mapIndex' = {verify'[i] : i \in 1 .. load'.pos}
      BY <1>2, <1>3, ZenonT(30)
    <2>6. load'.all \in BOOLEAN /\ load'.pos \in 0 .. Len(verify') /\ DOMAIN load' = (DOMAIN NoLoad)'
      BY <1>2, <1>3, <1>4, <2>1, <2>2, Zenon
    <2>7. (fork = <<>> \/ ContextRoot(Genesis) \in Range(fork))'
      BY <1>2, <1>4, Zenon DEF ContextRoot
    <2> QED
      BY <1>3, <2>3, <2>4, <2>5, <2>6, <2>7, Zenon DEF LoadInv
  <1>11. DownInv'
    <2>1. \A i \in 1 .. Len(verify) - nNeedVerifyCount : i \in DOMAIN verify
      BY <1>5, BlockAssumption
    <2>2. (\A i \in 1 .. Len(verify) - nNeedVerifyCount : Complete(verify[i]))'
      BY <1>2, <1>4, <1>8, <2>1, Zenon
    <2> QED
      BY <1>2, <1>4, <2>2, Zenon DEF DownInv
  <1> QED
    BY <1>2, <1>7, <1>10, <1>11, Zenon DEF RecoveryInv, UpInv

\* A start that has loaded a block has found the context of the genesis block.
LEMMA LoadedContext ==
  ASSUME RecoveryInv, run = "loading", load.pos > 0
  PROVE  ContextRoot(Genesis) \in Range(fork)
  <1>1. /\ load.pos \in 0 .. Len(verify) /\ \A i \in 1 .. load.pos : Complete(verify[i])
    BY Zenon DEF RecoveryInv, LoadInv
  <1>2. verify \in Seq(Block) /\ Len(verify) \in Nat
    BY SeqFunction, Zenon DEF RecoveryInv, TypeOK
  <1>3. 1 \in 1..load.pos /\ Len(verify) # 0
    BY <1>1, <1>2
  <1>4. verify[1] = Genesis
    BY <1>2, <1>3, SeqEmpty, Zenon DEF RecoveryInv, SavedInOrder
  <1> QED
    BY <1>1, <1>3, <1>4, ForkOfOrigin, Zenon DEF Complete, HasRoots

\* A record that does not verify can be repaired: its block is in the block
\* file and its previous block was loaded, complete.
LEMMA RepairRecordInv ==
  ASSUME RecoveryInv, RepairRecord
  PROVE  RecoveryInv'
  <1>1. PICK b : b = verify[load.pos + 1]
    BY Zenon
  <1>2. /\ run = "loading" /\ load.pos < Len(verify)
        /\ UNCHANGED <<file, verify, op, check, gap, faults>>
    BY Zenon DEF RepairRecord
  <1>3. /\ load.pos \in 0 .. Len(verify) /\ load.all \in BOOLEAN
        /\ mapIndex = {verify[i] : i \in 1 .. load.pos}
        /\ \A i \in 1 .. load.pos : Complete(verify[i])
        /\ fork = <<>> \/ ContextRoot(Genesis) \in Range(fork)
        /\ op = Idle /\ check = NoCheck
        /\ \A i \in 1 .. Len(verify) - nNeedVerifyCount : Complete(verify[i])
    BY <1>2, Zenon DEF RecoveryInv, LoadInv, DownInv
  <1>4. verify \in Seq(Block) /\ Len(verify) \in Nat /\ DOMAIN verify = 1..Len(verify)
    BY SeqFunction, Zenon DEF RecoveryInv, TypeOK
  <1>5. load.pos \in Nat /\ load.pos + 1 \in DOMAIN verify /\ b \in Block /\ b \in Range(verify)
    <2>1. load.pos \in Nat /\ load.pos + 1 \in DOMAIN verify
      <3>1. load.pos \in 0 .. Len(verify) /\ load.pos < Len(verify) /\ Len(verify) \in Nat
        BY <1>2, <1>3, <1>4, Zenon
      <3>2. load.pos \in Nat /\ load.pos + 1 \in 1..Len(verify)
        BY <3>1
      <3> QED
        BY <1>4, <3>2, Zenon
    <2> QED
      BY <1>1, <1>4, <2>1, SeqElement, Zenon DEF Range
  <1>6. b \in file /\ (b \in Origin \/ (Prev[b] \in mapIndex /\ HasRoots(Prev[b])))
    <2>1. b \in file
      BY <1>5, Zenon DEF RecoveryInv, SavedInOrder
    <2>2. b # Genesis => Prev[b] \in mapIndex /\ HasRoots(Prev[b])
      <3> SUFFICES ASSUME b # Genesis PROVE Prev[b] \in mapIndex /\ HasRoots(Prev[b])
        BY Zenon
      <3>1. PICK j \in 1 .. (load.pos + 1) - 1 : verify[j] = Prev[b]
        BY <1>1, <1>5, Zenon DEF RecoveryInv, SavedInOrder
      <3>2. j \in 1 .. load.pos
        BY <1>5
      <3> QED
        BY <1>3, <3>1, <3>2, Zenon DEF Complete
    <2> QED
      BY <2>1, <2>2, BlockAssumption, Zenon
  <1>7. /\ mapIndex' = mapIndex \cup {b}
        /\ state' = Put(Put(state, <<"state", b>>), <<"number", b>>)
        /\ index' = Put(index, b)
        /\ fork' = (IF IsPrimary(b) THEN Put(fork, ContextRoot(b)) ELSE fork)
        /\ LoadLast(b, TRUE) /\ run' = "loading"
    BY <1>1, <1>2, <1>6, Zenon DEF RepairRecord
  <1>8. /\ DOMAIN load' = DOMAIN NoLoad /\ load'.pos = load.pos + 1 /\ load'.all = TRUE
        /\ DOMAIN load'.last = Origin
        /\ mapIndex' = {verify[i] : i \in 1 .. load.pos + 1}
        /\ \A f \in Origin : load'.last[f] # None => load'.last[f] \in mapIndex' /\ ForkOf[load'.last[f]] = f
        /\ next' \in [Block -> Block \cup {None}]
        /\ txpos' \in [Origin -> [Tx -> Block \cup {None}]]
    <2>1. TRUE = (load.all \/ TRUE)
      BY Zenon
    <2> QED
      BY <1>1, <1>2, <1>7, <2>1, LoadLastFacts, Zenon
  <1>9. /\ state' \in Seq({"state", "number"} \X Block) /\ Range(state) \subseteq Range(state')
        /\ <<"state", b>> \in Range(state') /\ <<"number", b>> \in Range(state')
    <2> DEFINE S == {"state", "number"} \X Block
               e == <<"state", b>>
               d == <<"number", b>>
               once == Put(state, e)
    <2>1. state \in Seq(S) /\ e \in S /\ d \in S
      BY <1>5, Zenon DEF RecoveryInv, TypeOK
    <2> HIDE DEF S, e, d
    <2>2. once \in Seq(S) /\ Range(once) = Range(state) \cup {e}
      BY <2>1, PutLog
    <2>4. state' = Put(once, d)
      BY <1>7, Zenon DEF e, d
    <2> HIDE DEF once
    <2>3. Put(once, d) \in Seq(S) /\ Range(Put(once, d)) = Range(once) \cup {d}
      <3>1. once \in Seq(S) /\ d \in S
        BY <2>1, <2>2, Zenon
      <3> QED
        BY <3>1, PutLog
    <2>5. state' \in Seq(S) /\ Range(state') = Range(state) \cup {e, d}
      BY <2>2, <2>3, <2>4, Zenon
    <2> QED
      BY <2>5, Zenon DEF S, e, d
  <1>10. index' \in Seq(Block) /\ Range(index) \subseteq Range(index') /\ b \in Range(index')
    <2>1. index \in Seq(Block)
      BY Zenon DEF RecoveryInv, TypeOK
    <2>2. Put(index, b) \in Seq(Block) /\ Range(Put(index, b)) = Range(index) \cup {b}
      BY <1>5, <2>1, PutLog
    <2> QED
      BY <1>7, <2>2, Zenon
  <1>11. /\ fork' \in Seq(ForkRecord) /\ ContextBeforeLast' /\ Range(fork) \subseteq Range(fork')
         /\ IsPrimary(b) => ContextRoot(b) \in Range(fork')
         /\ fork' = fork \/ ContextRoot(Genesis) \in Range(fork')
    <2>1. fork \in Seq(ForkRecord) /\ ContextBeforeLast
      BY Zenon DEF RecoveryInv, TypeOK
    <2>2. CASE fork' = fork
      <3>1. IsPrimary(b) => ContextRoot(b) \in Range(fork')
        <4> SUFFICES ASSUME IsPrimary(b), ContextRoot(b) \notin Range(fork) PROVE FALSE
          BY <2>2, Zenon
        <4>1. fork = Append(fork, ContextRoot(b))
          BY <1>7, <2>2, Zenon DEF Put
        <4>2. Len(fork) = Len(fork) + 1 /\ Len(fork) \in Nat
          <5>1. ContextRoot(b) \in ForkRecord
            BY <1>5, RecordTypes, Zenon
          <5>2. Len(Append(fork, ContextRoot(b))) = Len(fork) + 1
            BY <2>1, <5>1, AppendLog, Zenon
          <5> QED
            BY <2>1, <4>1, <5>2, SeqFunction, Zenon
        <4> QED
          BY <4>2
      <3> QED
        BY <2>1, <2>2, <3>1, Zenon DEF ContextBeforeLast
    <2>3. CASE fork' # fork
      <3> DEFINE e == ContextRoot(b)
      <3>1. fork' = Append(fork, e)
        BY <1>7, <2>3, Zenon DEF Put
      <3>2. e \in ForkRecord /\ e.type # "last"
        BY <1>5, RecordTypes, Zenon DEF ContextRoot
      <3>3. ContextRoot(Genesis) \in Range(fork) \/ e = ContextRoot(Genesis)
        <4>1. CASE load.pos > 0
          BY <1>2, <4>1, LoadedContext, Zenon
        <4>2. CASE ~(load.pos > 0)
          <5>1. load.pos = 0 /\ Len(verify) # 0
            BY <1>2, <1>4, <1>5, <4>2
          <5>2. b = Genesis
            BY <1>1, <1>4, <5>1, SeqEmpty DEF RecoveryInv, SavedInOrder
          <5> QED
            BY <5>2, Zenon
        <4> QED
          BY <4>1, <4>2, Zenon
      <3>4. fork' \in Seq(ForkRecord) /\ ContextBeforeLast' /\ Range(fork') = Range(fork) \cup {e}
        <4> HIDE DEF e
        <4> QED
          BY <2>1, <3>1, <3>2, <3>3, ForkAppend, Zenon
      <3> QED
        BY <3>3, <3>4, Zenon
    <2> QED
      BY <2>2, <2>3, Zenon
  <1>12. TypeOK' /\ SavedInOrder'
    <2>1. mapIndex' \subseteq Block
      BY <1>5, <1>7, Zenon DEF RecoveryInv, TypeOK
    <2> QED
      BY <1>2, <1>7, <1>8, <1>9, <1>10, <1>11, <2>1, Zenon
         DEF RecoveryInv, TypeOK, SavedInOrder
  <1>13. \A i \in DOMAIN verify : Complete(verify[i]) => Complete(verify[i])'
    <2> SUFFICES ASSUME NEW i \in DOMAIN verify, Complete(verify[i]) PROVE Complete(verify[i])'
      BY Zenon
    <2>1. PICK c : c = verify[i]
      BY Zenon
    <2>2. Complete(c)'
      BY <1>9, <1>10, <1>11, <2>1, CompleteGrows, Zenon
    <2>3. verify'[i] = c
      BY <1>2, <2>1, Zenon
    <2> QED
      BY <2>2, <2>3, Zenon DEF Complete, HasRoots, IsPrimary, ContextRoot
  <1>14. \A i \in 1 .. load.pos + 1 : i \in DOMAIN verify /\ Complete(verify[i])'
    <2>1. \A i \in 1 .. load.pos + 1 : (i \in 1 .. load.pos \/ i = load.pos + 1) /\ i \in 1..Len(verify)
      BY <1>2, <1>4, <1>5
    <2>2. Complete(b)'
      BY <1>9, <1>10, <1>11, Zenon DEF Complete, HasRoots
    <2>3. \A i : i = load.pos + 1 => Complete(verify[i])'
      BY <1>1, <1>2, <2>2, Zenon DEF Complete, HasRoots, IsPrimary, ContextRoot
    <2> QED
      BY <1>3, <1>4, <1>13, <2>1, <2>3, Zenon
  <1>15. LoadInv'
    <2>1. (DOMAIN NoLoad)' = DOMAIN NoLoad
      BY Zenon DEF NoLoad
    <2>2. load'.pos \in 0 .. Len(verify)
      <3>1. load'.pos = load.pos + 1 /\ load.pos + 1 \in 1..Len(verify) /\ Len(verify) \in Nat
        BY <1>4, <1>5, <1>8, Zenon
      <3> QED
        BY <3>1
    <2>3. (\A i \in 1 .. load.pos : Complete(verify[i]))'
      BY <1>8, <1>14, Zenon
    <2>4. mapIndex' = {verify'[i] : i \in 1 .. load'.pos}
      BY <1>2, <1>8
    <2>5. load'.all = TRUE /\ load'.pos \in 0 .. Len(verify') /\ DOMAIN load' = (DOMAIN NoLoad)'
      BY <1>2, <1>8, <2>1, <2>2, Zenon
    <2>6. (fork = <<>> \/ ContextRoot(Genesis) \in Range(fork))'
      BY <1>3, <1>11, Zenon DEF ContextRoot
    <2> QED
      BY <1>8, <2>3, <2>4, <2>5, <2>6, Zenon DEF LoadInv
  <1>16. DownInv'
    <2>1. \A i \in 1 .. Len(verify) - nNeedVerifyCount : i \in DOMAIN verify
      BY <1>4, BlockAssumption
    <2>2. (\A i \in 1 .. Len(verify) - nNeedVerifyCount : Complete(verify[i]))'
      BY <1>2, <1>3, <1>13, <2>1, Zenon
    <2> QED
      BY <1>2, <1>3, <1>7, <2>2, Zenon DEF DownInv
  <1> QED
    BY <1>7, <1>11, <1>12, <1>15, <1>16, Zenon DEF RecoveryInv, UpInv

\* The last blocks found are complete, so their contexts are recorded before them.
LEMMA LoadDoneInv ==
  ASSUME RecoveryInv, LoadDone
  PROVE  RecoveryInv'
  <1> DEFINE wrong == {f \in Origin : load.last[f] # None /\ ForkLast(f) # load.last[f]}
             R == {LastRecord(f, load.last[f]) : f \in wrong}
             q == InSomeOrder(R)
  <1>1. /\ run = "loading" /\ load.pos = Len(verify) /\ run' = "up" /\ load' = NoLoad
        /\ fork' = fork \o q /\ gap' = gap \cup wrong
        /\ UNCHANGED <<file, state, index, verify, txpos, mapIndex, next, op, check, faults>>
    BY Zenon DEF LoadDone
  <1>2. /\ mapIndex = {verify[i] : i \in 1 .. load.pos}
        /\ \A i \in 1 .. load.pos : Complete(verify[i])
        /\ \A f \in Origin : load.last[f] # None => load.last[f] \in mapIndex /\ ForkOf[load.last[f]] = f
        /\ fork = <<>> \/ ContextRoot(Genesis) \in Range(fork)
        /\ op = Idle /\ check = NoCheck
    BY <1>1, Zenon DEF RecoveryInv, LoadInv, DownInv
  <1>3. /\ verify \in Seq(Block) /\ Len(verify) \in Nat /\ DOMAIN verify = 1..Len(verify)
        /\ fork \in Seq(ForkRecord) /\ ContextBeforeLast /\ mapIndex \subseteq Block /\ gap \subseteq Origin
    BY SeqFunction, Zenon DEF RecoveryInv, TypeOK
  <1>4. mapIndex = Range(verify) /\ \A c \in Range(verify) : Complete(c)
    BY <1>1, <1>2, <1>3, Zenon DEF Range
  <1>5. R \subseteq ForkRecord /\ IsFiniteSet(R)
    <2>1. \A f \in wrong : f \in Origin /\ load.last[f] \in Block
      BY <1>2, <1>3, Zenon
    <2>2. R \subseteq ForkRecord
      BY <2>1, RecordTypes, Zenon
    <2>3. IsFiniteSet(wrong)
      <3>1. wrong \subseteq Block /\ IsFiniteSet(Block)
        BY BlockAssumption, Zenon
      <3> HIDE DEF wrong
      <3> QED
        BY <3>1, FS_Subset, Zenon
    <2>4. IsFiniteSet(R)
      <3> DEFINE record == [f \in wrong |-> LastRecord(f, load.last[f])]
      <3> HIDE DEF wrong
      <3>1. R = Image(record, wrong)
        BY Zenon DEF Image
      <3> HIDE DEF record, R
      <3> QED
        BY <2>3, <3>1, ImageSize, Zenon
    <2> QED
      BY <2>2, <2>4, Zenon
  <1>6. q \in Seq(R) /\ Len(q) \in Nat /\ \A i \in 1..Len(q) : q[i] \in R
    <2> HIDE DEF R
    <2>1. q \in Seq(R)
      BY <1>5, InSomeOrderLog, Zenon
    <2> HIDE DEF q
    <2> QED
      BY <2>1, SeqFunction, SeqElement, Zenon
  <1>7. q \in Seq(ForkRecord)
    <2>1. DOMAIN q = 1..Len(q) /\ q = [i \in 1..Len(q) |-> q[i]]
      <3> HIDE DEF q, R
      <3> QED
        BY <1>6, SeqFunction, Zenon
    <2> HIDE DEF q, R
    <2>2. \A i \in 1..Len(q) : q[i] \in ForkRecord
      BY <1>5, <1>6, Zenon
    <2>3. q \in [1..Len(q) -> ForkRecord]
      BY <2>1, <2>2, Zenon
    <2> QED
      BY <1>6, <2>3, FunctionIsSeq, Zenon
  <1>8. \A r \in R : r.type = "last" /\ (r.fork = Genesis => ContextRoot(r.block) \in Range(fork))
    <2> SUFFICES ASSUME NEW f \in Origin, load.last[f] # None
                 PROVE  LET r == LastRecord(f, load.last[f])
                        IN  r.type = "last" /\ (r.fork = Genesis => ContextRoot(r.block) \in Range(fork))
      BY Zenon
    <2> DEFINE b == load.last[f]
    <2>1. b \in Range(verify) /\ ForkOf[b] = f
      BY <1>2, <1>4, Zenon
    <2>2. Complete(b)
      BY <1>4, <2>1, Zenon
    <2>3. f = Genesis => ContextRoot(b) \in Range(fork)
      BY <2>1, <2>2, Zenon DEF Complete, HasRoots, IsPrimary
    <2> QED
      BY <2>3, Zenon DEF LastRecord
  <1>9. fork' \in Seq(ForkRecord) /\ ContextBeforeLast' /\ Range(fork) \subseteq Range(fork')
        /\ (fork' = <<>> \/ ContextRoot(Genesis) \in Range(fork'))
    <2>1. CASE ContextRoot(Genesis) \in Range(fork)
      <3>1. \A i \in 1..Len(q) :
              q[i].type = "last" /\ q[i].fork = Genesis => ContextRoot(q[i].block) \in Range(fork)
        BY <1>6, <1>8, Zenon
      <3>2. fork' = fork \o q
        BY <1>1, Zenon
      <3> HIDE DEF q, R
      <3> QED
        BY <1>3, <1>7, <2>1, <3>1, <3>2, ForkConcat, Zenon
    <2>2. CASE ContextRoot(Genesis) \notin Range(fork)
      <3>1. load.pos = 0
        BY <1>1, <1>3, <2>2, LoadedContext
      <3>2. mapIndex = {}
        BY <1>2, <3>1
      <3>3. R = {}
        BY <1>2, <3>2, Zenon
      <3>4. q = <<>>
        <4>1. Len(q) = 0
          <5> HIDE DEF q, R
          <5>1. \A i \in 1..Len(q) : FALSE
            BY <1>6, <3>3, Zenon
          <5> QED
            BY <1>6, <5>1
        <4> HIDE DEF q
        <4> QED
          BY <1>7, <4>1, SeqEmpty, Zenon
      <3>5. fork = <<>>
        BY <1>2, <2>2, Zenon
      <3>6. fork' = <<>>
        <4> HIDE DEF q
        <4> QED
          BY <1>1, <3>4, <3>5
      <3> QED
        BY <1>3, <3>5, <3>6, Zenon DEF ContextBeforeLast, Range
    <2> QED
      BY <2>1, <2>2, Zenon
  <1>10. gap' \subseteq Origin
    BY <1>1, <1>3, Zenon
  <1> HIDE DEF q, R, wrong
  <1>11. TypeOK' /\ SavedInOrder'
    BY <1>1, <1>9, <1>10, Zenon DEF RecoveryInv, TypeOK, SavedInOrder
  <1>12. UpInv'
    <2>1. \A c \in Range(verify) : Complete(c)'
      BY <1>1, <1>4, <1>9, CompleteGrows, Zenon
    <2>2. CheckInOrder'
      BY <1>1, <1>2, Zenon DEF CheckInOrder, NoCheck
    <2>3. op'.step \notin Indexed /\ op' = Idle
      BY <1>1, <1>2, Zenon DEF Idle, Indexed
    <2>4. (fork = <<>> \/ ContextRoot(Genesis) \in Range(fork))'
      BY <1>9, Zenon DEF ContextRoot
    <2> QED
      BY <1>1, <1>4, <2>1, <2>2, <2>3, <2>4, Zenon DEF UpInv
  <1> QED
    BY <1>1, <1>9, <1>11, <1>12, Zenon DEF RecoveryInv, DownInv, LoadInv

-----------------------------------------------------------------------------
(* The theorem.                                                            *)

\* A new data directory
LEMMA InitRecovery == Init => RecoveryInv
  <1> SUFFICES ASSUME Init PROVE RecoveryInv
    BY Zenon
  <1>1. TypeOK
    BY SeqEmpty, Zenon DEF Init, TypeOK, NoTx
  <1>2. SavedInOrder /\ ContextBeforeLast
    <2>1. verify = <<>> /\ fork = <<>>
      BY Zenon DEF Init
    <2>2. SavedInOrder
      BY <2>1 DEF SavedInOrder, IsInjective, Range
    <2>3. ContextBeforeLast
      BY <2>1 DEF ContextBeforeLast
    <2> QED
      BY <2>2, <2>3, Zenon
  <1>3. DownInv
    <2>1. Len(verify) = 0 /\ nNeedVerifyCount \in Nat
      BY BlockAssumption, Zenon DEF Init
    <2>2. \A i \in 1 .. Len(verify) - nNeedVerifyCount : FALSE
      BY <2>1
    <2> QED
      BY <2>2, Zenon DEF Init, DownInv
  <1> QED
    BY <1>1, <1>2, <1>3, Zenon DEF Init, RecoveryInv, UpInv, LoadInv

\* Nothing happens.
LEMMA StutterRecovery ==
  ASSUME RecoveryInv, UNCHANGED vars
  PROVE  RecoveryInv'
  <1> USE DEF vars, RecoveryInv
  <1>1. TypeOK' /\ SavedInOrder' /\ ContextBeforeLast'
    BY Zenon DEF TypeOK, SavedInOrder, ContextBeforeLast
  <1>2. WriteInOrder' = WriteInOrder /\ CheckInOrder' = CheckInOrder
    BY Zenon DEF WriteInOrder, CheckInOrder
  <1>3. \A b : Complete(b)' = Complete(b)
    BY Zenon DEF Complete, HasRoots
  <1>4. UpInv'
    BY <1>2, <1>3, Zenon DEF UpInv
  <1>5. DownInv' /\ LoadInv'
    <2>1. \A i : Complete(verify[i])' = Complete(verify[i])
      BY Zenon DEF Complete, HasRoots
    <2> QED
      BY <2>1, ZenonT(30) DEF DownInv, LoadInv
  <1> QED
    BY <1>1, <1>4, <1>5, Zenon

\* Every step keeps the invariant.
LEMMA NextRecovery ==
  ASSUME RecoveryInv, [Next]_vars
  PROVE  RecoveryInv'
BY StorageNewBlockInv, WriteFileInv, AddNewForkInv, UpdateBlockStateInv, AddBlockForkContextInv,
   AddNewBlockNumberInv, AddNewBlockIndexInv, AddBlockVerifyInv, SetLongChainInv, UpdateForkLastInv,
   FailInv, ChooseValidLastInv, ListBranchInv, UpdateForkNextTxInv, UpdateForkNextInv, StopInv,
   StartInv, LoadRecordInv, RepairRecordInv, LoadDoneInv, StutterRecovery, Zenon
   DEF Next

\* The invariant says what Recovers does.
LEMMA RecoveryImplies == RecoveryInv => Recovers
  <1> SUFFICES ASSUME RecoveryInv PROVE Recovers
    BY Zenon
  <1>1. TypeOK /\ (run = "failed" => fork = <<LastRecord(Genesis, Genesis)>>)
    BY Zenon DEF RecoveryInv, DownInv
  <1>2. ASSUME run = "up", op = Idle
        PROVE  /\ mapIndex = Range(verify) /\ IsInjective(verify)
               /\ \A b \in mapIndex : b \in file /\ b \in Range(index) /\ HasRoots(b)
               /\ \A b \in mapIndex \ {Genesis} : Prev[b] \in mapIndex
    <2>1. mapIndex = Range(verify) /\ (\A b \in Range(verify) : Complete(b)) /\ SavedInOrder
      BY <1>2, Zenon DEF RecoveryInv, UpInv, Idle, Indexed
    <2>2. \A b \in mapIndex \ {Genesis} : Prev[b] \in mapIndex
      <3> SUFFICES ASSUME NEW i \in DOMAIN verify, verify[i] # Genesis PROVE Prev[verify[i]] \in Range(verify)
        BY <2>1, Zenon DEF Range
      <3>1. verify \in Seq(Block) /\ Len(verify) \in Nat /\ DOMAIN verify = 1..Len(verify)
        BY <1>1, SeqFunction, Zenon DEF TypeOK
      <3>2. PICK j \in 1 .. i - 1 : verify[j] = Prev[verify[i]]
        BY <2>1, Zenon DEF SavedInOrder
      <3>3. j \in DOMAIN verify
        BY <3>1
      <3> QED
        BY <3>2, <3>3, Zenon DEF Range
    <2> QED
      BY <2>1, <2>2, Zenon DEF SavedInOrder, Complete
  <1> QED
    BY <1>1, <1>2, Zenon DEF Recovers

\* Whatever a stop took from the databases within the latest records, and
\* whichever writes failed, the next start recovers: VerifyDB and RepairBlockDB
\* bring back every saved block with its records, and the start is refused only
\* where the fork database holds nothing but the record of the genesis block.
THEOREM StartRecovers == Spec => []Recovers
  <1>1. Init => RecoveryInv
    BY InitRecovery, Zenon
  <1>2. RecoveryInv /\ [Next]_vars => RecoveryInv'
    BY NextRecovery, Zenon
  <1>3. RecoveryInv => Recovers
    BY RecoveryImplies, Zenon
  <1> QED
    BY <1>1, <1>2, <1>3, PTL DEF Spec

=============================================================================
