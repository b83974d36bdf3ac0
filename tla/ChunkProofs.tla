----------------------------- MODULE ChunkProofs -----------------------------
(***************************************************************************)
(* What Chunk computes, for any box, any number of axes and any width of   *)
(* integers: the tile of a box holds its first corner, and the R-tree keeps *)
(* the tile as it is as long as the coordinates are small enough.          *)
(*                                                                         *)
(* Inductions are written with least elements: of the counterexamples to a *)
(* claim about numbers take the smallest (NatMin).                         *)
(***************************************************************************)
EXTENDS Chunk, FiniteSets, FiniteSetTheorems, WellFoundedInduction, TLAPS

-----------------------------------------------------------------------------
(* Least and greatest elements.                                            *)

\* A set of naturals has a least element.
LEMMA NatMin ==
    ASSUME NEW S \in SUBSET Nat, S # {}
    PROVE  \E m \in S : \A n \in S : m <= n
<1>1. PICK x \in S : \A y \in S : ~(<<y, x>> \in OpToRel(<, Nat))
  BY NatLessThanWellFounded, WFMin
<1>2. \A y \in S : ~(y < x)
  BY <1>1 DEF OpToRel
<1>3. QED
  BY <1>2

HasEnds(S) ==
    /\ \E m \in S : \A n \in S : m <= n
    /\ \E m \in S : \A n \in S : m >= n

\* A finite set of integers has a least and a greatest element.
LEMMA FiniteEnds ==
    ASSUME NEW S \in SUBSET Int, IsFiniteSet(S), S # {}
    PROVE  HasEnds(S)
<1> DEFINE Bad == {n \in Nat : \E T \in SUBSET Int :
                     IsFiniteSet(T) /\ T # {} /\ Cardinality(T) = n /\ ~HasEnds(T)}
<1>1. ASSUME Bad # {} PROVE FALSE
  <2>1. PICK n \in Bad : \A k \in Bad : n <= k
    <3>1. Bad \in SUBSET Nat
      OBVIOUS
    <3> HIDE DEF Bad
    <3>2. QED
      BY <1>1, <3>1, NatMin
  <2>2. PICK T \in SUBSET Int :
          IsFiniteSet(T) /\ T # {} /\ Cardinality(T) = n /\ ~HasEnds(T)
    BY <2>1
  <2>3. PICK x \in T : TRUE
    BY <2>2
  <2> DEFINE U == T \ {x}
  <2>4. IsFiniteSet(U) /\ Cardinality(U) = n - 1 /\ n \in Nat
    BY <2>1, <2>2, <2>3, FS_RemoveElement
  <2>5. CASE U = {}
    <3>1. T = {x} /\ x \in Int
      BY <2>3, <2>5
    <3>2. HasEnds(T)
      BY <3>1 DEF HasEnds
    <3>3. QED
      BY <2>2, <3>2
  <2>6. CASE U # {}
    <3>1. HasEnds(U)
      <4>1. Cardinality(U) \in Nat
        BY <2>4, FS_CardinalityType
      <4>2. n - 1 \notin Bad
        BY <2>1, <2>4
      <4> HIDE DEF U
      <4>3. U \in SUBSET Int
        BY DEF U
      <4>4. QED
        BY <2>4, <2>6, <4>1, <4>2, <4>3
    <3>2. PICK lo \in U : \A k \in U : lo <= k
      BY <3>1 DEF HasEnds
    <3>3. PICK hi \in U : \A k \in U : hi >= k
      BY <3>1 DEF HasEnds
    <3>4. \E m \in T : \A k \in T : m <= k
      <4>1. CASE x <= lo
        BY <2>3, <3>2, <4>1
      <4>2. CASE ~(x <= lo)
        BY <2>3, <3>2, <4>2
      <4>3. QED
        BY <4>1, <4>2
    <3>5. \E m \in T : \A k \in T : m >= k
      <4>1. CASE x >= hi
        BY <2>3, <3>3, <4>1
      <4>2. CASE ~(x >= hi)
        BY <2>3, <3>3, <4>2
      <4>3. QED
        BY <4>1, <4>2
    <3>6. QED
      BY <2>2, <3>4, <3>5 DEF HasEnds
  <2>7. QED
    BY <2>5, <2>6
<1>2. Cardinality(S) \in Nat
  BY FS_CardinalityType
<1>3. QED
  BY <1>1, <1>2

-----------------------------------------------------------------------------
(* Powers of two.                                                          *)

\* g has the first n + 1 powers of two.
Powers(g, n) ==
    /\ g \in [0..n -> Nat]
    /\ g[0] = 1
    /\ \A i \in 1..n : g[i] = 2 * g[i - 1]

\* There is a function of the powers of two up to any n.
LEMMA PowersExist == \A n \in Nat : \E g : Powers(g, n)
<1> DEFINE Bad == {n \in Nat : ~\E g : Powers(g, n)}
<1>1. ASSUME Bad # {} PROVE FALSE
  <2>1. PICK n \in Bad : \A k \in Bad : n <= k
    <3>1. Bad \in SUBSET Nat
      OBVIOUS
    <3> HIDE DEF Bad
    <3>2. QED
      BY <1>1, <3>1, NatMin
  <2>2. CASE n = 0
    <3>1. Powers([i \in 0..0 |-> 1], 0)
      BY DEF Powers
    <3>2. QED
      BY <2>1, <2>2, <3>1
  <2>3. CASE n # 0
    <3>1. n \in Nat /\ n - 1 \in Nat /\ n - 1 \notin Bad
      BY <2>1, <2>3
    <3>2. PICK g : Powers(g, n - 1)
      BY <3>1
    <3> DEFINE h == [i \in 0..n |-> IF i = n THEN 2 * g[n - 1] ELSE g[i]]
    <3>3. \A i \in 0..(n - 1) : h[i] = g[i] /\ g[i] \in Nat
      BY <3>1, <3>2 DEF Powers
    <3>4. h[n] = 2 * g[n - 1] /\ n - 1 \in 0..(n - 1) /\ 0 \in 0..(n - 1)
      BY <3>1
    <3>5. h \in [0..n -> Nat]
      <4>1. g[n - 1] \in Nat /\ 2 * g[n - 1] \in Nat
        <5>1. n - 1 \in 0..(n - 1) /\ g \in [0..(n - 1) -> Nat]
          BY <3>1, <3>2 DEF Powers
        <5>2. g[n - 1] \in Nat
          BY <5>1
        <5>3. QED
          BY <5>2
      <4>2. \A i \in 0..n : i # n => i \in 0..(n - 1)
        BY <3>1
      <4>3. \A i \in 0..n : (IF i = n THEN 2 * g[n - 1] ELSE g[i]) \in Nat
        BY <3>3, <4>1, <4>2
      <4>4. QED
        BY <4>3
    <3> HIDE DEF h
    <3>6. h[0] = 1
      BY <3>2, <3>3, <3>4 DEF Powers
    <3>7. ASSUME NEW i \in 1..n PROVE h[i] = 2 * h[i - 1]
      <4>1. i - 1 \in 0..(n - 1)
        BY <3>1
      <4>2. CASE i = n
        BY <3>3, <3>4, <4>2
      <4>3. CASE i # n
        <5>1. i \in 1..(n - 1) /\ i \in 0..(n - 1)
          BY <3>1, <4>3
        <5>2. QED
          BY <3>2, <3>3, <4>1, <5>1 DEF Powers
      <4>4. QED
        BY <4>2, <4>3
    <3>8. QED
      BY <2>1, <3>5, <3>6, <3>7 DEF Powers
  <2>4. QED
    BY <2>2, <2>3
<1>2. QED
  BY <1>1

\* Two such functions agree where both are defined.
LEMMA PowersUnique ==
    ASSUME NEW n \in Nat, NEW k \in Nat, n <= k, NEW g, Powers(g, n), NEW h, Powers(h, k)
    PROVE  \A i \in 0..n : g[i] = h[i]
<1> DEFINE Bad == {i \in 0..n : g[i] # h[i]}
<1>1. ASSUME Bad # {} PROVE FALSE
  <2>1. PICK i \in Bad : \A j \in Bad : i <= j
    <3>1. Bad \in SUBSET Nat
      OBVIOUS
    <3> HIDE DEF Bad
    <3>2. QED
      BY <1>1, <3>1, NatMin
  <2>2. i # 0
    BY <2>1 DEF Powers
  <2>3. i \in 1..n /\ i \in 1..k /\ i - 1 \in 0..n /\ i - 1 \notin Bad
    BY <2>1, <2>2
  <2>4. g[i] = 2 * g[i - 1] /\ h[i] = 2 * h[i - 1] /\ g[i - 1] = h[i - 1]
    BY <2>3 DEF Powers
  <2>5. QED
    BY <2>1, <2>4
<1>2. QED
  BY <1>1

\* The recursion of TwoTo is well founded: TwoTo is what it says.
LEMMA TwoToDef == TwoTo = [n \in Nat |-> IF n = 0 THEN 1 ELSE 2 * TwoTo[n - 1]]
<1> DEFINE P(n) == CHOOSE g : Powers(g, n)
           F == [n \in Nat |-> P(n)[n]]
<1>1. \A n \in Nat : Powers(P(n), n)
  BY PowersExist
<1> HIDE DEF P
<1>2. ASSUME NEW n \in Nat PROVE F[n] = IF n = 0 THEN 1 ELSE 2 * F[n - 1]
  <2>1. CASE n = 0
    BY <1>1, <2>1 DEF Powers
  <2>2. CASE n # 0
    <3>1. n - 1 \in Nat /\ n \in 1..n /\ n - 1 \in 0..(n - 1)
      BY <2>2
    <3>2. P(n)[n] = 2 * P(n)[n - 1]
      BY <1>1, <3>1 DEF Powers
    <3>3. P(n - 1)[n - 1] = P(n)[n - 1]
      BY <1>1, <3>1, PowersUnique
    <3>4. QED
      BY <2>2, <3>1, <3>2, <3>3
  <2>3. QED
    BY <2>1, <2>2
<1>3. F = [n \in Nat |-> IF n = 0 THEN 1 ELSE 2 * F[n - 1]]
  BY <1>2
<1> HIDE DEF F
<1>4. QED
  BY <1>3 DEF TwoTo

\* TwoTo satisfies its recursive definition.
LEMMA TwoToStep ==
    /\ TwoTo[0] = 1
    /\ \A n \in Nat : TwoTo[n + 1] = 2 * TwoTo[n]
<1> DEFINE F == TwoTo
<1> HIDE DEF F
<1>1. F = [n \in Nat |-> IF n = 0 THEN 1 ELSE 2 * F[n - 1]]
  BY TwoToDef DEF F
<1>2. F[0] = 1 /\ \A n \in Nat : F[n + 1] = 2 * F[n]
  BY <1>1
<1>3. QED
  BY <1>2 DEF F

\* Powers of two are positive.
LEMMA TwoToType == \A n \in Nat : TwoTo[n] \in Nat \ {0}
<1> DEFINE Bad == {n \in Nat : TwoTo[n] \notin Nat \ {0}}
<1>1. ASSUME Bad # {} PROVE FALSE
  <2>1. PICK n \in Bad : \A k \in Bad : n <= k
    <3>1. Bad \in SUBSET Nat
      OBVIOUS
    <3> HIDE DEF Bad
    <3>2. QED
      BY <1>1, <3>1, NatMin
  <2>2. n # 0
    BY <2>1, TwoToStep
  <2>3. n - 1 \in Nat /\ TwoTo[n - 1] \in Nat \ {0}
    BY <2>1, <2>2
  <2>4. TwoTo[n] = 2 * TwoTo[n - 1]
    BY <2>1, <2>3, TwoToStep
  <2>5. QED
    BY <2>1, <2>3, <2>4
<1>2. QED
  BY <1>1

\* Larger powers of two are larger.
LEMMA TwoToMonotone ==
    ASSUME NEW n \in Nat, NEW k \in Nat, n <= k
    PROVE  TwoTo[n] <= TwoTo[k]
<1> DEFINE Bad == {i \in Nat : n <= i /\ ~(TwoTo[n] <= TwoTo[i])}
<1>1. ASSUME Bad # {} PROVE FALSE
  <2>1. PICK i \in Bad : \A j \in Bad : i <= j
    <3>1. Bad \in SUBSET Nat
      OBVIOUS
    <3> HIDE DEF Bad
    <3>2. QED
      BY <1>1, <3>1, NatMin
  <2>2. i # n
    BY <2>1, TwoToType
  <2>3. i - 1 \in Nat /\ n <= i - 1 /\ i - 1 \notin Bad
    BY <2>1, <2>2
  <2>4. TwoTo[n] <= TwoTo[i - 1] /\ TwoTo[i] = 2 * TwoTo[i - 1]
    BY <2>3, TwoToStep
  <2>5. TwoTo[n] \in Nat /\ TwoTo[i - 1] \in Nat
    BY <2>3, TwoToType
  <2>6. QED
    BY <2>1, <2>4, <2>5
<1>2. QED
  BY <1>1

-----------------------------------------------------------------------------
(* Sides, levels and tiles.                                                *)

\* Tiles have a positive side,
LEMMA SideType == \A l \in Nat : Side(l) \in Nat \ {0}
BY TwoToType DEF Side

\* which grows with the level.
LEMMA SideMonotone ==
    ASSUME NEW l \in Nat, NEW m \in Nat, l <= m
    PROVE  Side(l) <= Side(m)
<1>1. 2 * l \in Nat /\ 2 * m \in Nat /\ 2 * l <= 2 * m
  OBVIOUS
<1>2. QED
  BY <1>1, TwoToMonotone DEF Side

\* Multiplying by a natural number keeps an order.
LEMMA TimesMonotone ==
    ASSUME NEW k \in Nat, NEW x \in Int, NEW y \in Int, x <= y
    PROVE  k * x <= k * y
OBVIOUS

\* A level at which the box fits bounds the level that is chosen.
LEMMA LevelFits ==
    ASSUME NEW b \in Box
    PROVE  /\ Level(b) \in 0..31
           /\ \A m \in 0..31 : Fits(b, m) => Fits(b, Level(b)) /\ Level(b) <= m
<1> DEFINE Fitting == {l \in 0..31 : Fits(b, l)}
           Choice(l) == Fits(b, l) /\ (l = 0 \/ ~Fits(b, l - 1))
<1>1. CASE ~\E l \in 0..31 : Fits(b, l)
  BY <1>1 DEF Level
<1>2. CASE \E l \in 0..31 : Fits(b, l)
  <2>1. PICK l \in Fitting : \A k \in Fitting : l <= k
    <3>1. Fitting \in SUBSET Nat /\ Fitting # {}
      BY <1>2
    <3> HIDE DEF Fitting
    <3>2. QED
      BY <3>1, NatMin
  <2>2. l \in 0..31 /\ Choice(l)
    <3>1. l = 0 \/ (l - 1 \in 0..31 /\ l - 1 \notin Fitting)
      BY <2>1
    <3>2. QED
      BY <2>1, <3>1
  <2>3. Level(b) = CHOOSE k \in 0..31 : Choice(k)
    BY <1>2 DEF Level
  <2> HIDE DEF Choice
  <2>4. Level(b) \in 0..31 /\ Choice(Level(b))
    BY <2>2, <2>3
  <2>5. ASSUME NEW m \in 0..31, Fits(b, m), ~(Level(b) <= m) PROVE FALSE
    <3> DEFINE k == Level(b) - 1
    <3>1. k \in Nat /\ m \in Nat /\ m <= k /\ Level(b) # 0
      BY <2>4, <2>5
    <3>2. Side(m) \in Int /\ Side(k) \in Int /\ Side(m) <= Side(k) /\ Unit \in Nat
      BY <3>1, SideType, SideMonotone, ChunkAssumption
    <3>3. Unit * Side(m) <= Unit * Side(k) /\ Unit * Side(m) \in Int /\ Unit * Side(k) \in Int
      BY <3>2, TimesMonotone
    <3> HIDE DEF k
    <3>4. Fits(b, k)
      <4> DEFINE p == Unit * Side(m)
                 q == Unit * Side(k)
      <4>1. p <= q /\ p \in Int /\ q \in Int
        BY <3>3
      <4>2. \A a \in Axes : b.hi[a] - b.lo[a] <= p
        BY <2>5 DEF Fits
      <4> HIDE DEF p, q
      <4>3. ASSUME NEW a \in Axes PROVE b.hi[a] - b.lo[a] <= q
        <5>1. b.hi[a] \in Int /\ b.lo[a] \in Int /\ b.hi[a] - b.lo[a] <= p
          BY <4>2 DEF Box
        <5>2. QED
          BY <4>1, <5>1
      <4>4. QED
        BY <4>3 DEF Fits, q
    <3>5. QED
      BY <2>4, <3>1, <3>4 DEF Choice, k
  <2>6. QED
    BY <2>4, <2>5 DEF Choice
<1>3. QED
  BY <1>1, <1>2

\* bind_aabb makes integers of coordinates.
LEMMA TruncatedType == \A x \in Int : Truncated(x) \in Int
BY ChunkAssumption DEF Truncated

\* Truncation keeps the order of coordinates.
LEMMA TruncatedMonotone ==
    ASSUME NEW x \in Int, NEW y \in Int, x <= y
    PROVE  Truncated(x) <= Truncated(y)
<1> DEFINE k == Unit
<1>0. k \in Nat \ {0}
  BY ChunkAssumption
<1> HIDE DEF k
<1>1. \A u, v \in Nat : u <= v => u \div k <= v \div k /\ u \div k >= 0
                              /\ u \div k \in Int /\ v \div k \in Int
  BY <1>0
<1>2. CASE x >= 0
  BY <1>1, <1>2 DEF Truncated, k
<1>3. CASE x < 0 /\ y >= 0
  <2>1. -x \in Nat /\ y \in Nat
    BY <1>3
  <2>2. (-x) \div k >= 0 /\ (-x) \div k \in Int /\ y \div k >= 0 /\ y \div k \in Int
    BY <2>1, <1>1
  <2>3. QED
    BY <1>3, <2>2 DEF Truncated, k
<1>4. CASE x < 0 /\ y < 0
  <2>1. -x \in Nat /\ -y \in Nat /\ -y <= -x
    BY <1>4
  <2>2. (-y) \div k <= (-x) \div k /\ (-x) \div k \in Int /\ (-y) \div k \in Int
    BY <2>1, <1>1
  <2>3. QED
    BY <1>4, <2>2 DEF Truncated, k
<1>5. QED
  BY <1>2, <1>3, <1>4

\* Clearing low bits rounds down, by less than the side of a tile.
LEMMA MaskedRounds ==
    ASSUME NEW x \in Int, NEW l \in Nat
    PROVE  /\ Masked(x, l) \in Int
           /\ 2 * l < IntBits => Masked(x, l) <= x /\ x < Masked(x, l) + Side(l)
<1> DEFINE s == Side(l)
<1>1. s \in Nat \ {0}
  BY SideType
<1> HIDE DEF s
<1>2. x % s \in 0..(s - 1)
  BY <1>1
<1>3. QED
  BY <1>1, <1>2 DEF Masked, s

\* compute_chunk gives a chunk.
LEMMA ChunkType == ASSUME NEW b \in Box PROVE compute_chunk(b) \in Chunks
<1>1. Level(b) \in Nat
  BY LevelFits
<1>2. \A a \in Axes : Masked(Truncated(b.lo[a]), Level(b)) \in Int
  BY <1>1, TruncatedType, MaskedRounds DEF Box
<1>3. QED
  BY <1>1, <1>2 DEF compute_chunk, Chunks

\* The R-tree stores small integers as they are.
LEMMA WrappedSmall ==
    ASSUME NEW n \in Int, -TwoTo[IntBits - 1] <= n, n < TwoTo[IntBits - 1]
    PROVE  Wrapped(n) = n
<1> DEFINE h == TwoTo[IntBits - 1]
           w == TwoTo[IntBits]
<1>1. IntBits - 1 \in Nat /\ (IntBits - 1) + 1 = IntBits
  BY ChunkAssumption
<1>2. h \in Nat \ {0} /\ w = 2 * h
  BY <1>1, TwoToType, TwoToStep
<1> HIDE DEF h, w
<1>3. -h <= n /\ n < h
  BY DEF h
<1>4. n + h \in 0..(w - 1) /\ w \in Nat \ {0}
  BY <1>2, <1>3
<1>5. (n + h) % w = n + h
  BY <1>4
<1>6. Wrapped(n) = ((n + h) % w) - h
  BY DEF Wrapped, h, w
<1>7. QED
  BY <1>2, <1>5, <1>6

-----------------------------------------------------------------------------
(* Boxes.                                                                  *)

\* The coordinates of finitely many boxes are finitely many.
LEMMA FiniteImage ==
    ASSUME NEW S, IsFiniteSet(S), NEW T, NEW f \in [S -> T]
    PROVE  IsFiniteSet({f[x] : x \in S})
<1> DEFINE R == {f[x] : x \in S}
<1>1. f \in Surjection(S, R)
  BY DEF Surjection
<1>2. QED
  BY <1>1, FS_Surjection

\* Each end of a merged box is an end of one of the boxes.
LEMMA MergedEnds ==
    ASSUME NEW b \in Box, NEW S \in SUBSET Box, IsFiniteSet(S)
    PROVE  LET m == Merged(b, S) IN
           /\ m \in Box
           /\ \A a \in Axes :
                /\ \E c \in S \cup {b} : m.lo[a] = c.lo[a]
                /\ \E c \in S \cup {b} : m.hi[a] = c.hi[a]
                /\ \A c \in S \cup {b} : m.lo[a] <= c.lo[a] /\ m.hi[a] >= c.hi[a]
<1> DEFINE m == Merged(b, S)
           All == S \cup {b}
           begins(a) == {c.lo[a] : c \in All}
           ends(a) == {c.hi[a] : c \in All}
           low(a) == CHOOSE x \in begins(a) : \A n \in begins(a) : x <= n
           high(a) == CHOOSE x \in ends(a) : \A n \in ends(a) : x >= n
<1>1. m = [lo |-> [a \in Axes |-> low(a)], hi |-> [a \in Axes |-> high(a)]]
  BY DEF Merged
<1>2. IsFiniteSet(All) /\ b \in All /\ All \subseteq Box
  BY FS_AddElement
<1> HIDE DEF All, m
<1>3. ASSUME NEW a \in Axes
      PROVE  /\ low(a) \in begins(a) /\ \A n \in begins(a) : low(a) <= n
             /\ high(a) \in ends(a) /\ \A n \in ends(a) : high(a) >= n
             /\ begins(a) \subseteq Int /\ ends(a) \subseteq Int
  <2>1. begins(a) \subseteq Int /\ ends(a) \subseteq Int
    BY <1>2 DEF Box
  <2>2. begins(a) # {} /\ ends(a) # {}
    BY <1>2
  <2>3. IsFiniteSet(begins(a)) /\ IsFiniteSet(ends(a))
    <3> DEFINE f == [c \in All |-> c.lo[a]]
               g == [c \in All |-> c.hi[a]]
    <3>1. f \in [All -> Int] /\ g \in [All -> Int]
      BY <1>2 DEF Box
    <3>2. begins(a) = {f[c] : c \in All} /\ ends(a) = {g[c] : c \in All}
      OBVIOUS
    <3> HIDE DEF f, g, begins, ends
    <3>3. IsFiniteSet({f[c] : c \in All}) /\ IsFiniteSet({g[c] : c \in All})
      BY <1>2, <3>1, FiniteImage
    <3>4. QED
      BY <3>2, <3>3
  <2> HIDE DEF begins, ends
  <2>4. HasEnds(begins(a)) /\ HasEnds(ends(a))
    BY <2>1, <2>2, <2>3, FiniteEnds
  <2>5. QED
    BY <2>1, <2>4 DEF HasEnds
<1> HIDE DEF low, high
<1>4. m \in Box
  BY <1>1, <1>3 DEF Box
<1>5. ASSUME NEW a \in Axes
      PROVE  /\ \E c \in All : m.lo[a] = c.lo[a]
             /\ \E c \in All : m.hi[a] = c.hi[a]
             /\ \A c \in All : m.lo[a] <= c.lo[a] /\ m.hi[a] >= c.hi[a]
  <2>1. m.lo[a] = low(a) /\ m.hi[a] = high(a)
    BY <1>1
  <2>2. QED
    BY <1>3, <2>1
<1>6. QED
  BY <1>4, <1>5 DEF All, m

\* Boxes that are the same to the database span the same integers with S.
LEMMA SameFirstCorner ==
    ASSUME NEW b \in Box, NEW c \in Box, ToInts(b) = ToInts(c),
           NEW S \in SUBSET Box, IsFiniteSet(S), NEW a \in Axes
    PROVE  Truncated(Merged(b, S).lo[a]) = Truncated(Merged(c, S).lo[a])
<1> DEFINE T(x) == Truncated(x)
<1>1. T(b.lo[a]) = T(c.lo[a])
  BY DEF ToInts
<1>2. ASSUME NEW p \in {b, c}, NEW q \in {b, c}
      PROVE  T(Merged(p, S).lo[a]) <= T(Merged(q, S).lo[a])
  <2> DEFINE x == Merged(p, S).lo[a]
             y == Merged(q, S).lo[a]
  <2>1. x \in Int /\ y \in Int
    BY MergedEnds DEF Box
  <2>2. PICK d \in S \cup {q} : y = d.lo[a]
    BY MergedEnds
  <2>3. \A e \in S \cup {p} : x <= e.lo[a]
    BY MergedEnds
  <2> HIDE DEF x, y
  <2>4. CASE d \in S
    BY <2>1, <2>2, <2>3, <2>4, TruncatedMonotone DEF x, y
  <2>5. CASE d = q
    <3>1. x <= p.lo[a] /\ p.lo[a] \in Int
      BY <2>3 DEF Box
    <3>2. T(x) <= T(p.lo[a])
      BY <2>1, <3>1, TruncatedMonotone
    <3>3. T(p.lo[a]) = T(y)
      BY <1>1, <2>2, <2>5
    <3>4. QED
      BY <3>2, <3>3 DEF x, y
  <2>6. QED
    BY <2>2, <2>4, <2>5
<1>3. T(Merged(b, S).lo[a]) \in Int /\ T(Merged(c, S).lo[a]) \in Int
  BY MergedEnds, TruncatedType DEF Box
<1>4. T(Merged(b, S).lo[a]) <= T(Merged(c, S).lo[a])
  BY <1>2
<1>5. T(Merged(c, S).lo[a]) <= T(Merged(b, S).lo[a])
  BY <1>2
<1> HIDE DEF T
<1>6. T(Merged(b, S).lo[a]) = T(Merged(c, S).lo[a])
  BY <1>3, <1>4, <1>5
<1>7. QED
  BY <1>6 DEF T

\* Truncation goes toward zero.
LEMMA TruncatedShrinks ==
    ASSUME NEW x \in Int
    PROVE  IF x >= 0 THEN 0 <= Unit * Truncated(x) /\ Unit * Truncated(x) <= x
           ELSE x <= Unit * Truncated(x) /\ Unit * Truncated(x) <= 0
<1> DEFINE k == Unit
<1>0. k \in Nat \ {0}
  BY ChunkAssumption
<1> HIDE DEF k
<1>1. \A u \in Nat : u \div k \in Nat /\ k * (u \div k) >= 0 /\ k * (u \div k) <= u
  BY <1>0
<1>2. CASE x >= 0
  BY <1>1, <1>2 DEF Truncated, k
<1>3. CASE x < 0
  <2> DEFINE t == (-x) \div k
  <2>1. -x \in Nat
    BY <1>3
  <2>2. t \in Nat /\ k * t >= 0 /\ k * t <= -x
    BY <1>1, <2>1
  <2> HIDE DEF t
  <2>3. k * (-t) = -(k * t) /\ k * t \in Int
    BY <1>0, <2>2
  <2>4. Truncated(x) = -t
    BY <1>3 DEF Truncated, t, k
  <2>5. QED
    BY <1>3, <2>2, <2>3, <2>4 DEF k
<1>4. QED
  BY <1>2, <1>3

\* A positive factor may be cancelled.
LEMMA TimesCancel ==
    ASSUME NEW k \in Nat \ {0}, NEW x \in Int, NEW y \in Int, k * x <= k * y
    PROVE  x <= y
OBVIOUS

\* Truncation does not leave a range that is symmetric to the origin.
LEMMA TruncatedBound ==
    ASSUME NEW x \in Int, NEW s \in Nat, -(Unit * s) <= 2 * x, 2 * x <= Unit * s
    PROVE  -s <= 2 * Truncated(x) /\ 2 * Truncated(x) <= s
<1> DEFINE k == Unit
           t == Truncated(x)
<1>1. k \in Nat \ {0} /\ t \in Int
  BY ChunkAssumption, TruncatedType
<1>2. IF x >= 0 THEN 0 <= k * t /\ k * t <= x ELSE x <= k * t /\ k * t <= 0
  BY TruncatedShrinks
<1>3. -(k * s) <= 2 * x /\ 2 * x <= k * s
  OBVIOUS
<1> HIDE DEF k, t
<1>4. k * t \in Int /\ k * s \in Int /\ k * s >= 0
  BY <1>1
<1>5. -(k * s) <= 2 * (k * t) /\ 2 * (k * t) <= k * s
  BY <1>2, <1>3, <1>4
<1>6. 2 * (k * t) = k * (2 * t) /\ -(k * s) = k * (-s)
  BY <1>1
<1>7. -s <= 2 * t /\ 2 * t <= s
  BY <1>1, <1>5, <1>6, TimesCancel
<1>8. QED
  BY <1>7 DEF t

\* The level of a box in a world of half a side around the origin, and its tile
\* on one axis.
LEMMA TileBounds ==
    ASSUME NEW b \in Box, NEW L \in 0..31, 2 * L + 2 <= IntBits, Within(b, L),
           NEW a \in Axes
    PROVE  LET c == compute_chunk(b) IN
           /\ c.tile[a] \in Int /\ c.level \in Nat /\ Side(c.level) \in Nat
           /\ c.tile[a] <= Truncated(b.lo[a])
           /\ Truncated(b.lo[a]) < c.tile[a] + Side(c.level)
           /\ Wrapped(c.tile[a] + Side(c.level)) = c.tile[a] + Side(c.level)
<1> DEFINE l == Level(b)
           t == Truncated(b.lo[a])
           x == Masked(t, l)
           h == TwoTo[IntBits - 1]
<1>1. Fits(b, L)
  <2> DEFINE p == Unit * Side(L)
  <2>1. p \in Int
    BY ChunkAssumption, SideType
  <2>2. \A e \in Axes : \A y \in {b.lo[e], b.hi[e]} : -p <= 2 * y /\ 2 * y <= p
    BY DEF Within
  <2> HIDE DEF p
  <2>3. ASSUME NEW e \in Axes PROVE b.hi[e] - b.lo[e] <= p
    <3>1. b.hi[e] \in Int /\ b.lo[e] \in Int
      BY DEF Box
    <3>2. -p <= 2 * b.lo[e] /\ 2 * b.hi[e] <= p
      BY <2>2
    <3>3. QED
      BY <2>1, <3>1, <3>2
  <2>4. QED
    BY <2>3 DEF Fits, p
<1>2. l \in Nat /\ l <= L /\ L \in Nat /\ IntBits \in Nat /\ 2 * l < IntBits
  <2>1. l \in 0..31 /\ l <= L
    BY <1>1, LevelFits
  <2>2. QED
    BY <2>1, ChunkAssumption
<1>3. Side(l) \in Nat /\ Side(L) \in Nat \ {0} /\ Side(l) <= Side(L)
  BY <1>2, SideType, SideMonotone
<1>4. t \in Int /\ -Side(L) <= 2 * t /\ 2 * t <= Side(L)
  <2>1. b.lo[a] \in Int
    BY DEF Box
  <2>2. -(Unit * Side(L)) <= 2 * b.lo[a] /\ 2 * b.lo[a] <= Unit * Side(L)
    BY DEF Within
  <2>3. QED
    BY <1>3, <2>1, <2>2, TruncatedType, TruncatedBound
<1>5. x \in Int /\ x <= t /\ t < x + Side(l)
  <2> HIDE DEF t
  <2>1. QED
    BY <1>2, <1>4, MaskedRounds
<1>6. 2 * Side(L) <= h /\ h \in Nat
  <2>1. 2 * L \in Nat /\ 2 * L + 1 \in Nat /\ IntBits - 1 \in Nat /\ 2 * L + 1 <= IntBits - 1
    BY <1>2
  <2>2. TwoTo[2 * L + 1] = 2 * Side(L)
    BY <2>1, TwoToStep DEF Side
  <2>3. QED
    BY <2>1, <2>2, TwoToMonotone, TwoToType
<1>7. Wrapped(x + Side(l)) = x + Side(l)
  <2> HIDE DEF x, h, t, l
  <2>1. x + Side(l) \in Int /\ -h <= x + Side(l) /\ x + Side(l) < h
    BY <1>3, <1>4, <1>5, <1>6
  <2>2. QED
    BY <2>1, WrappedSmall DEF h
<1>8. compute_chunk(b).level = l /\ compute_chunk(b).tile[a] = x
  BY DEF compute_chunk
<1> HIDE DEF x, t, l
<1>9. QED
  BY <1>2, <1>3, <1>5, <1>7, <1>8 DEF t

\* The tile a box is filed under is found by every view that holds the first
\* corner of the box, also of one with the same integers: on whichever side of
\* the origin, with masks that round down and truncation that rounds toward zero.
THEOREM CornerInTile ==
    ASSUME NEW b \in Box, NEW stored \in Box, ToInts(b) = ToInts(stored),
           NEW S \in SUBSET Box, IsFiniteSet(S),
           NEW L \in 0..31, 2 * L + 2 <= IntBits, Within(Merged(b, S), L),
           NEW view \in Box,
           \A a \in Axes : /\ view.lo[a] <= Merged(stored, S).lo[a]
                          /\ Merged(stored, S).lo[a] <= view.hi[a]
    PROVE  Matches(compute_chunk(Merged(b, S)), view)
<1> DEFINE m == Merged(b, S)
           c == compute_chunk(m)
<1>0. m \in Box /\ Merged(stored, S) \in Box
  BY MergedEnds
<1>1. ASSUME NEW a \in Axes
      PROVE  /\ TileBox(c).lo[a] <= TileBox(c).hi[a]
             /\ TileBox(c).lo[a] <= ToInts(view).hi[a]
             /\ ToInts(view).lo[a] <= TileBox(c).hi[a]
  <2> DEFINE t == Truncated(m.lo[a])
             y == Merged(stored, S).lo[a]
             e == c.tile[a] + Side(c.level)
  <2>1. /\ c.tile[a] \in Int /\ Side(c.level) \in Nat /\ c.tile[a] <= t /\ t < e
        /\ Wrapped(e) = e
    BY <1>0, TileBounds
  <2>2. TileBox(c).lo[a] = c.tile[a] /\ TileBox(c).hi[a] = e
    BY <2>1 DEF TileBox
  <2>3. y \in Int /\ view.lo[a] \in Int /\ view.hi[a] \in Int /\ m.lo[a] \in Int
    BY <1>0 DEF Box
  <2>4. Truncated(view.lo[a]) <= Truncated(y) /\ Truncated(y) <= Truncated(view.hi[a])
    BY <2>3, TruncatedMonotone
  <2>5. t = Truncated(y)
    BY SameFirstCorner
  <2>6. /\ ToInts(view).lo[a] = Truncated(view.lo[a])
        /\ ToInts(view).hi[a] = Truncated(view.hi[a])
    BY DEF ToInts
  <2>7. t \in Int /\ Truncated(view.lo[a]) \in Int /\ Truncated(view.hi[a]) \in Int
    BY <2>3, TruncatedType
  <2> HIDE DEF c, m, y
  <2>8. QED
    BY <2>1, <2>2, <2>4, <2>5, <2>6, <2>7
<1> HIDE DEF c
<1>2. QED
  BY <1>1 DEF Matches, InRtree, Intersects, c
=============================================================================
