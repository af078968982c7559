------------------------------- MODULE BbsProofs -------------------------------
(***************************************************************************)
(* The branch-and-bound search loses no best pose and keeps modes that are *)
(* what they claim, for every map, scan, window and depth of the pyramid.  *)
(***************************************************************************)
EXTENDS Bbs, FiniteSetTheorems, NaturalsInduction, WellFoundedInduction, TLAPS
-----------------------------------------------------------------------------
(* Extrema, recursion and powers.                                          *)

Less == {ss \in Nat \X Nat : ss[1] < ss[2]}

LEMMA LeastNatural ==
  ASSUME NEW S, S \subseteq Nat, S # {}
  PROVE  \E x \in S : \A y \in S : x <= y
<1>1. IsWellFoundedOn(Less, Nat)
  BY Zenon, NatLessThanWellFounded DEF OpToRel, Less
<1>2. PICK x \in S : \A y \in S : ~(<<y, x>> \in Less)
  BY <1>1, WFMin
<1>3. \A y, z \in Nat : <<y, z>> \in Less <=> y < z
  BY DEF Less
<1>4. ASSUME NEW y \in S PROVE x <= y
  <2>1. ~(y < x)
    BY <1>2, <1>3
  <2> QED BY <2>1
<1> QED BY <1>4

\* A finite set of naturals has a largest member: otherwise take one without of
\* least size, and a member off it.
LEMMA LargestNatural ==
  ASSUME NEW S, S \subseteq Nat, S # {}, IsFiniteSet(S)
  PROVE  \E x \in S : \A y \in S : x >= y
<1> DEFINE Bounded(T) == \E x \in T : \A y \in T : x >= y
           Bad == {T \in SUBSET S : T # {} /\ ~Bounded(T)}
           Sizes == {Cardinality(T) : T \in Bad}
<1> SUFFICES ASSUME Bad # {} PROVE FALSE
  OBVIOUS
<1>1. \A T \in SUBSET S : IsFiniteSet(T) /\ Cardinality(T) \in Nat
  BY FS_Subset, FS_CardinalityType
<1>2. PICK n \in Sizes : \A m \in Sizes : n <= m
  <2>1. Sizes \subseteq Nat /\ Sizes # {}
    BY <1>1
  <2> HIDE DEF Sizes
  <2> QED BY <2>1, LeastNatural
<1>3. PICK T \in Bad : n = Cardinality(T)
  OBVIOUS
<1>4. PICK x \in T : x \in Nat
  OBVIOUS
<1> DEFINE R == T \ {x}
<1>5. R \in SUBSET S /\ Cardinality(R) < n
  <2>1. IsFiniteSet(T) /\ Cardinality(T) \in Nat
    BY <1>1
  <2>2. Cardinality(R) = Cardinality(T) - 1
    BY <2>1, FS_RemoveElement
  <2> QED BY <1>3, <2>1, <2>2
<1>6. R # {}
  <2> SUFFICES ASSUME R = {} PROVE FALSE
    OBVIOUS
  <2>1. T = {x}
    OBVIOUS
  <2> QED BY <1>4, <2>1
<1>7. R \notin Bad
  <2> SUFFICES ASSUME R \in Bad PROVE FALSE
    OBVIOUS
  <2>1. Cardinality(R) \in Sizes /\ Cardinality(R) \in Nat /\ n \in Nat
    BY <1>1, <1>3
  <2> HIDE DEF Sizes, R
  <2> QED BY <1>2, <1>5, <2>1
<1>8. PICK m \in R : \A y \in R : m >= y
  BY <1>5, <1>6, <1>7
<1>9. m \in Nat /\ x \in Nat /\ m \in T /\ \A y \in T : y \in Nat /\ (y = x \/ y \in R)
  BY <1>4
<1>10. CASE m >= x
  <2>1. \A y \in T : m >= y
    BY <1>8, <1>9, <1>10
  <2> QED BY <1>9, <2>1
<1>11. CASE x >= m
  <2>1. \A y \in T : x >= y
    BY <1>8, <1>9, <1>11
  <2> QED BY <1>9, <2>1
<1> QED BY <1>9, <1>10, <1>11

\* f is defined on 0..n from its value one below.
Recursion(f, n, a, step) ==
  f = [i \in 0..n |-> IF i = 0 THEN a ELSE step[<<i, f[i - 1]>>]]

LEMMA RecursionExists ==
  ASSUME NEW n \in Nat, NEW V, NEW a \in V, NEW step \in [(1..n) \X V -> V]
  PROVE  \E f \in [0..n -> V] : Recursion(f, n, a, step)
<1> DEFINE Solves(f, m) == \A i \in 0..m : f[i] = IF i = 0 THEN a ELSE step[<<i, f[i - 1]>>]
           Bad == {m \in 0..n : ~\E f \in [0..m -> V] : Solves(f, m)}
<1>1. Bad = {}
  <2> SUFFICES ASSUME Bad # {} PROVE FALSE
    OBVIOUS
  <2>1. PICK m \in Bad : \A k \in Bad : m <= k
    <3>1. Bad \subseteq Nat
      OBVIOUS
    <3> HIDE DEF Bad
    <3> QED BY <3>1, LeastNatural
  <2>2. m \in 0..n /\ ~\E f \in [0..m -> V] : Solves(f, m)
    OBVIOUS
  <2>3. CASE m = 0
    <3> DEFINE f == [i \in 0..m |-> a]
    <3>1. f \in [0..m -> V] /\ Solves(f, m)
      BY <2>3
    <3> QED BY <2>2, <3>1
  <2>4. CASE m > 0
    <3>1. m - 1 \in 0..n /\ m - 1 \notin Bad
      BY <2>1, <2>2, <2>4
    <3>2. PICK f \in [0..(m - 1) -> V] : Solves(f, m - 1)
      BY <3>1
    <3> DEFINE v == step[<<m, f[m - 1]>>]
               g == [i \in 0..m |-> IF i = m THEN v ELSE f[i]]
    <3>3. v \in V
      BY <2>2, <2>4
    <3>4. g \in [0..m -> V]
      <4> HIDE DEF v
      <4> QED BY <2>2, <3>3
    <3>5. Solves(g, m)
      <4> SUFFICES ASSUME NEW i \in 0..m
                   PROVE  g[i] = IF i = 0 THEN a ELSE step[<<i, g[i - 1]>>]
        OBVIOUS
      <4>1. CASE i = m
        <5>1. m - 1 \in 0..m /\ m - 1 # m /\ m # 0
          BY <2>2, <2>4
        <5>2. g[m] = v /\ g[m - 1] = f[m - 1]
          <6> HIDE DEF v
          <6> QED BY <5>1, <2>2
        <5> QED BY <4>1, <5>1, <5>2
      <4>2. CASE i # m
        <5>1. i \in 0..(m - 1) /\ g[i] = f[i] /\ (i # 0 => g[i - 1] = f[i - 1])
          BY <2>2, <4>2
        <5> HIDE DEF g
        <5> QED BY <3>2, <5>1
      <4> QED BY <4>1, <4>2
    <3> HIDE DEF g
    <3> QED BY <2>2, <3>4, <3>5
  <2> QED BY <2>2, <2>3, <2>4
<1>2. PICK f \in [0..n -> V] : Solves(f, n)
  BY <1>1
<1>3. f = [i \in 0..n |-> f[i]]
  OBVIOUS
<1> QED BY <1>2, <1>3 DEF Recursion

\* 2^n counts the subsets of 1..n: those of 1..(n + 1) are as many without n + 1
\* as with it.
LEMMA PowerDoubles ==
  ASSUME NEW n \in Nat
  PROVE  /\ 2 ^ n \in Nat \ {0}
         /\ 2 ^ 0 = 1
         /\ 2 ^ (n + 1) = 2 * 2 ^ n
<1>1. ASSUME NEW k \in Nat
      PROVE  /\ IsFiniteSet(SUBSET (1..k)) /\ Cardinality(SUBSET (1..k)) = 2 ^ k
             /\ 2 ^ k \in Nat \ {0}
  <2>1. IsFiniteSet(1..k) /\ Cardinality(1..k) = k
    BY FS_Interval
  <2>2. IsFiniteSet(SUBSET (1..k)) /\ Cardinality(SUBSET (1..k)) = 2 ^ Cardinality(1..k)
    BY <2>1, FS_SUBSET
  <2>3. Cardinality(SUBSET (1..k)) \in Nat
    BY <2>2, FS_CardinalityType
  <2>4. Cardinality(SUBSET (1..k)) # 0
    <3>1. SUBSET (1..k) # {}
      OBVIOUS
    <3> QED BY <2>2, <3>1, FS_EmptySet
  <2> QED BY <2>1, <2>2, <2>3, <2>4
<1>2. 2 ^ 0 = 1
  <2>1. SUBSET (1..0) = {{}}
    OBVIOUS
  <2>2. Cardinality(SUBSET (1..0)) = 1
    BY <2>1, FS_Singleton
  <2> QED BY <1>1, <2>2
<1> DEFINE A == SUBSET (1..n)
           B == {s \cup {n + 1} : s \in A}
           f == [s \in A |-> s \cup {n + 1}]
<1>3. IsFiniteSet(B) /\ Cardinality(B) = Cardinality(A)
  <2>1. f \in Surjection(A, B)
    BY DEF Surjection
  <2>2. f \in Injection(A, B)
    <3>1. f \in [A -> B]
      OBVIOUS
    <3>2. ASSUME NEW r \in A, NEW s \in A, f[r] = f[s] PROVE r = s
      <4>1. r = f[r] \ {n + 1} /\ s = f[s] \ {n + 1}
        <5>1. n + 1 \notin r /\ n + 1 \notin s
          OBVIOUS
        <5> QED BY <5>1
      <4> QED BY <3>2, <4>1
    <3> HIDE DEF A, B, f
    <3> QED BY <3>1, <3>2 DEF Injection, IsInjective
  <2>3. IsFiniteSet(A)
    BY <1>1
  <2> HIDE DEF A, B, f
  <2> QED BY <2>1, <2>2, <2>3, FS_Surjection
<1>4. SUBSET (1..(n + 1)) = A \cup B
  <2>1. ASSUME NEW s \in SUBSET (1..(n + 1)) PROVE s \in A \cup B
    <3>1. CASE n + 1 \in s
      <4>1. s \ {n + 1} \in A
        OBVIOUS
      <4>2. s = (s \ {n + 1}) \cup {n + 1}
        BY <3>1
      <4> QED BY <4>1, <4>2
    <3>2. CASE n + 1 \notin s
      <4>1. s \in A
        BY <3>2
      <4> QED BY <4>1
    <3> QED BY <3>1, <3>2
  <2>2. ASSUME NEW s \in A \cup B PROVE s \in SUBSET (1..(n + 1))
    <3>1. CASE s \in A
      BY <3>1
    <3>2. CASE s \in B
      <4>1. PICK r \in A : s = r \cup {n + 1}
        BY <3>2
      <4> QED BY <4>1
    <3> QED BY <3>1, <3>2
  <2> HIDE DEF A, B
  <2> QED BY <2>1, <2>2
<1>5. A \cap B = {}
  <2>1. \A s \in A : n + 1 \notin s
    OBVIOUS
  <2>2. \A s \in B : n + 1 \in s
    OBVIOUS
  <2> HIDE DEF A, B
  <2> QED BY <2>1, <2>2
<1>6. Cardinality(A \cup B) = Cardinality(A) + Cardinality(B) - 0
  <2>1. IsFiniteSet(A) /\ IsFiniteSet(B) /\ Cardinality(A \cap B) = 0
    BY <1>1, <1>3, <1>5, FS_EmptySet
  <2> HIDE DEF A, B
  <2> QED BY <2>1, FS_Union
<1>7. Cardinality(A) = 2 ^ n /\ 2 ^ n \in Nat
  BY <1>1
<1>8. Cardinality(SUBSET (1..(n + 1))) = 2 ^ (n + 1)
  BY <1>1
<1> HIDE DEF A, B
<1>9. 2 ^ (n + 1) = Cardinality(A) + Cardinality(B) - 0
  BY <1>4, <1>6, <1>8
<1>10. PICK p \in Nat : p = 2 ^ n
  BY <1>7
<1>11. Cardinality(A) + Cardinality(B) - 0 = 2 * p
  BY <1>3, <1>7, <1>10
<1>12. 2 ^ (n + 1) = 2 * 2 ^ n
  BY Zenon, <1>9, <1>10, <1>11
<1> QED BY <1>1, <1>2, <1>12
-----------------------------------------------------------------------------
(* The bounds are admissible.                                              *)

\* A level of the pyramid.
Level == [Cells -> Nat]

\* Cell e lies in the block of 2^h cells a side that starts at cell c.
Covers(c, h, e) ==
  e[1] \in c[1]..(c[1] + 2 ^ h - 1) /\ e[2] \in c[2]..(c[2] + 2 ^ h - 1)

LEMMA CellsFinite == IsFiniteSet(Cells)
<1>1. 0 \in Int /\ Width - 1 \in Int /\ Height - 1 \in Int
  BY BbsParams
<1>2. IsFiniteSet(0..(Width - 1)) /\ IsFiniteSet(0..(Height - 1))
  BY <1>1, FS_Interval
<1> QED BY <1>2, FS_Product DEF Cells

LEMMA PooledBounds ==
  ASSUME NEW f \in Level, NEW off \in Nat
  PROVE  /\ Pooled(f, off) \in Level
         /\ \A c, d \in Cells : d[1] \in {c[1], c[1] + off} /\ d[2] \in {c[2], c[2] + off}
                                  => f[d] <= Pooled(f, off)[c]
<1> DEFINE near(c) == Cells \cap ({c[1], c[1] + off} \X {c[2], c[2] + off})
           scores(c) == {f[d] : d \in near(c)}
<1>1. IsFiniteSet(Cells)
  BY CellsFinite
<1>2. ASSUME NEW c \in Cells
      PROVE  Max(scores(c)) \in Nat /\ \A d \in near(c) : f[d] <= Max(scores(c))
  <2> DEFINE h == [d \in near(c) |-> f[d]]
  <2>1. c \in near(c)
    BY DEF Cells
  <2>2. scores(c) \subseteq Nat /\ scores(c) # {}
    <3>1. f[c] \in scores(c)
      BY <2>1
    <3>2. \A d \in near(c) : f[d] \in Nat
      BY DEF Level
    <3> QED BY <3>1, <3>2
  <2>3. IsFiniteSet(near(c))
    BY <1>1, FS_Subset
  <2>4. h \in Surjection(near(c), scores(c))
    BY DEF Surjection
  <2>5. IsFiniteSet(scores(c))
    <3> HIDE DEF near, scores, h
    <3> QED BY <2>3, <2>4, FS_Surjection
  <2>6. PICK m \in scores(c) : \A v \in scores(c) : m >= v
    <3> HIDE DEF scores
    <3> QED BY <2>2, <2>5, LargestNatural
  <2>7. Max(scores(c)) \in scores(c) /\ \A v \in scores(c) : Max(scores(c)) >= v
    <3> HIDE DEF scores
    <3> QED BY <2>6 DEF Max
  <2>8. \A d \in near(c) : f[d] \in scores(c)
    OBVIOUS
  <2> HIDE DEF scores
  <2> QED BY <2>2, <2>7, <2>8
<1>3. Pooled(f, off) = [c \in Cells |-> Max(scores(c))]
  BY DEF Pooled
<1>4. Pooled(f, off) \in Level
  <2> HIDE DEF scores
  <2> QED BY <1>2, <1>3 DEF Level
<1>5. ASSUME NEW c \in Cells, NEW d \in Cells,
             d[1] \in {c[1], c[1] + off} /\ d[2] \in {c[2], c[2] + off}
      PROVE  f[d] <= Pooled(f, off)[c]
  <2>1. d \in near(c)
    BY <1>5 DEF Cells
  <2> HIDE DEF near, scores
  <2> QED BY <1>2, <1>3, <2>1
<1> QED BY <1>4, <1>5

\* A level bounds every score of the map from above in the blocks of its cells.
Bounding(p) ==
  \A h \in 0..Depth :
    /\ p[h] \in Level
    /\ \A c, e \in Cells : Covers(c, h, e) => p[0][e] <= p[h][c]

\* A block is four blocks of half its size.
LEMMA HalfBlock ==
  ASSUME NEW h \in Nat, NEW c \in Cells, NEW e \in Cells, Covers(c, h + 1, e)
  PROVE  \E d \in Cells : /\ d[1] \in {c[1], c[1] + 2 ^ h} /\ d[2] \in {c[2], c[2] + 2 ^ h}
                          /\ Covers(d, h, e)
<1>1. PICK half \in Nat \ {0} : half = 2 ^ h /\ 2 ^ (h + 1) = 2 * half
  BY PowerDoubles
<1> DEFINE d == <<IF e[1] < c[1] + half THEN c[1] ELSE c[1] + half,
                  IF e[2] < c[2] + half THEN c[2] ELSE c[2] + half>>
<1>2. /\ c[1] \in 0..(Width - 1) /\ c[2] \in 0..(Height - 1)
      /\ e[1] \in 0..(Width - 1) /\ e[2] \in 0..(Height - 1)
      /\ Width \in Int /\ Height \in Int
  BY BbsParams DEF Cells
<1>3. e[1] \in c[1]..(c[1] + 2 * half - 1) /\ e[2] \in c[2]..(c[2] + 2 * half - 1)
  BY <1>1 DEF Covers
<1>4. d[1] \in 0..(Width - 1) /\ d[2] \in 0..(Height - 1)
  BY <1>2, <1>3
<1>5. e[1] \in d[1]..(d[1] + half - 1) /\ e[2] \in d[2]..(d[2] + half - 1)
  BY <1>2, <1>3
<1>6. d \in Cells /\ d[1] \in {c[1], c[1] + half} /\ d[2] \in {c[2], c[2] + half}
  BY <1>4 DEF Cells
<1> HIDE DEF d
<1> QED BY <1>1, <1>5, <1>6 DEF Covers

LEMMA PyramidBounding ==
  ASSUME NEW g \in Level
  PROVE  Bounding(PyramidOf(g))
<1> DEFINE P == PyramidOf(g)
           step == [v \in (1..Depth) \X Level |-> Pooled(v[2], 2 ^ (v[1] - 1))]
<1> USE BbsParams
<1>1. ASSUME NEW h \in 1..Depth PROVE 2 ^ (h - 1) \in Nat
  BY PowerDoubles
<1>2. step \in [(1..Depth) \X Level -> Level]
  <2>1. ASSUME NEW v \in (1..Depth) \X Level PROVE Pooled(v[2], 2 ^ (v[1] - 1)) \in Level
    BY <1>1, PooledBounds
  <2> QED BY <2>1
<1>3. PICK f \in [0..Depth -> Level] : Recursion(f, Depth, g, step)
  <2>1. Depth \in Nat
    OBVIOUS
  <2> HIDE DEF step
  <2> QED BY <1>2, <2>1, RecursionExists
<1>4. f = [h \in 0..Depth |-> IF h = 0 THEN g ELSE Pooled(f[h - 1], 2 ^ (h - 1))]
  <2>1. ASSUME NEW h \in 0..Depth
        PROVE  f[h] = IF h = 0 THEN g ELSE Pooled(f[h - 1], 2 ^ (h - 1))
    <3>1. CASE h = 0
      <4> HIDE DEF step
      <4> QED BY <1>3, <3>1 DEF Recursion
    <3>2. CASE h # 0
      <4>1. f[h] = step[<<h, f[h - 1]>>] /\ <<h, f[h - 1]>> \in (1..Depth) \X Level
        <5> HIDE DEF step
        <5> QED BY <1>3, <3>2 DEF Recursion
      <4> QED BY <3>2, <4>1
    <3> QED BY <3>1, <3>2
  <2>2. f = [h \in 0..Depth |-> f[h]]
    OBVIOUS
  <2> QED BY <2>1, <2>2
<1>5. P = [h \in 0..Depth |-> IF h = 0 THEN g ELSE Pooled(P[h - 1], 2 ^ (h - 1))]
  BY <1>4 DEF PyramidOf
<1> HIDE DEF P
<1> DEFINE Good(h) == /\ P[h] \in Level
                      /\ \A c, e \in Cells : Covers(c, h, e) => P[0][e] <= P[h][c]
           Bad == {h \in 0..Depth : ~Good(h)}
<1>6. Bad = {}
  <2> SUFFICES ASSUME Bad # {} PROVE FALSE
    OBVIOUS
  <2>1. PICK h \in Bad : \A k \in Bad : h <= k
    <3>1. Bad \subseteq Nat
      OBVIOUS
    <3> HIDE DEF Bad
    <3> QED BY <3>1, LeastNatural
  <2>2. h \in 0..Depth /\ ~Good(h)
    OBVIOUS
  <2>3. CASE h = 0
    <3>1. P[0] = g
      BY <1>5
    <3>2. ASSUME NEW c \in Cells, NEW e \in Cells, Covers(c, 0, e) PROVE c = e
      <4>1. e[1] \in c[1]..(c[1] + 1 - 1) /\ e[2] \in c[2]..(c[2] + 1 - 1)
        BY <3>2, PowerDoubles DEF Covers
      <4>2. c[1] = e[1] /\ c[2] = e[2]
        BY <4>1 DEF Cells
      <4> QED BY <4>2 DEF Cells
    <3>3. \A e \in Cells : g[e] <= g[e]
      BY DEF Level
    <3> QED BY <2>2, <2>3, <3>1, <3>2, <3>3
  <2>4. CASE h # 0
    <3>1. h - 1 \in 0..Depth /\ h - 1 \in Nat /\ Good(h - 1)
      BY <2>1, <2>2, <2>4
    <3>2. P[h] = Pooled(P[h - 1], 2 ^ (h - 1)) /\ 2 ^ (h - 1) \in Nat
      BY <1>1, <1>5, <2>2, <2>4
    <3>3. P[h] \in Level
      BY <3>1, <3>2, PooledBounds
    <3>4. ASSUME NEW c \in Cells, NEW e \in Cells, Covers(c, h, e) PROVE P[0][e] <= P[h][c]
      <4>1. Covers(c, (h - 1) + 1, e)
        BY <2>2, <3>4
      <4>2. PICK d \in Cells : /\ d[1] \in {c[1], c[1] + 2 ^ (h - 1)}
                               /\ d[2] \in {c[2], c[2] + 2 ^ (h - 1)}
                               /\ Covers(d, h - 1, e)
        BY <3>1, <4>1, HalfBlock
      <4>3. P[0][e] <= P[h - 1][d]
        BY <3>1, <4>2
      <4>4. P[h - 1][d] <= P[h][c]
        BY <3>1, <3>2, <4>2, PooledBounds
      <4>5. P[h - 1][d] \in Nat /\ P[h][c] \in Nat /\ P[0][e] \in Nat
        <5>1. P[0] = g
          BY <1>5
        <5> QED BY <3>1, <3>3, <5>1 DEF Level
      <4> QED BY <4>3, <4>4, <4>5
    <3> QED BY <2>2, <3>3, <3>4
  <2> QED BY <2>3, <2>4
<1> QED BY <1>6 DEF Bounding, P

\* What a run is given and never changes.
Given ==
  /\ Bounding(pyramid)
  /\ ep \in Endpoints
  /\ args \in Searches

\* A cell scores at most what the block it is in scores at a coarser level, also
\* when the block reaches over the edge of the map.
LEMMA CellAdmissible ==
  ASSUME Given, NEW x \in Int, NEW y \in Int, NEW level \in 0..Depth,
         NEW u \in x..(x + 2 ^ level - 1), NEW v \in y..(y + 2 ^ level - 1)
  PROVE  /\ CellScore(x, y, level) \in Nat
         /\ CellScore(u, v, 0) \in Nat
         /\ CellScore(u, v, 0) <= CellScore(x, y, level)
<1>1. PICK side \in Nat \ {0} : side = 2 ^ level /\ (level = 0 => side = 1)
  <2>1. level \in Nat
    BY BbsParams
  <2>2. 2 ^ level \in Nat \ {0} /\ 2 ^ 0 = 1
    BY <2>1, PowerDoubles
  <2>3. level = 0 => 2 ^ level = 1
    BY Zenon, <2>2
  <2> QED BY <2>2, <2>3
<1>2. u \in Int /\ v \in Int /\ x <= u /\ u <= x + side - 1 /\ y <= v /\ v <= y + side - 1
  BY <1>1
<1>3. Width \in Nat \ {0} /\ Height \in Nat \ {0} /\ 0 \in 0..Depth
  BY BbsParams
<1>4. /\ \A h \in 0..Depth, c \in Cells : pyramid[h][c] \in Nat
      /\ \A c, e \in Cells : Covers(c, level, e) => pyramid[0][e] <= pyramid[level][c]
  BY DEF Given, Bounding, Level
<1>5. ASSUME NEW a \in Int, NEW b \in Int
      PROVE  /\ CellScore(a, b, 0) = IF <<a, b>> \in Cells THEN pyramid[0][<<a, b>>] ELSE 0
             /\ CellScore(a, b, 0) \in Nat
  <2>1. CellScore(a, b, 0) = IF <<a, b>> \in Cells THEN pyramid[0][<<a, b>>] ELSE 0
    BY <1>3 DEF CellScore, Inside, Cells
  <2>2. \A c \in Cells : pyramid[0][c] \in Nat
    BY <1>3, <1>4
  <2> QED BY <2>1, <2>2
<1>6. CASE level = 0
  <2>1. u = x /\ v = y
    BY <1>1, <1>2, <1>6
  <2>2. CellScore(x, y, 0) \in Nat
    BY <1>5
  <2> QED BY <1>6, <2>1, <2>2
<1>7. CASE level # 0
  <2> DEFINE on == Overlaps(x, Width, level) /\ Overlaps(y, Height, level)
             cell == <<Clamped(x), Clamped(y)>>
  <2>1. CellScore(x, y, level) = IF on THEN pyramid[level][cell] ELSE 0
    BY <1>7 DEF CellScore
  <2>2. on => cell \in Cells
    BY <1>1, <1>3 DEF Overlaps, Clamped, Cells
  <2>3. ASSUME <<u, v>> \in Cells PROVE on /\ Covers(cell, level, <<u, v>>)
    <3>1. 0 <= u /\ u < Width /\ 0 <= v /\ v < Height
      BY <1>3, <2>3 DEF Cells
    <3>2. on
      BY <1>1, <1>2, <1>3, <3>1 DEF Overlaps
    <3>3. u \in Clamped(x)..(Clamped(x) + side - 1) /\ v \in Clamped(y)..(Clamped(y) + side - 1)
      BY <1>2, <3>1 DEF Clamped
    <3> QED BY <1>1, <3>2, <3>3 DEF Covers
  <2>4. CellScore(x, y, level) \in Nat
    BY <1>4, <2>1, <2>2
  <2>5. CellScore(u, v, 0) \in Nat
    BY <1>2, <1>5
  <2>6. CASE <<u, v>> \in Cells
    <3>1. CellScore(u, v, 0) = pyramid[0][<<u, v>>] /\ CellScore(x, y, level) = pyramid[level][cell]
      BY <1>2, <1>5, <2>1, <2>3, <2>6
    <3>2. pyramid[0][<<u, v>>] <= pyramid[level][cell]
      <4> HIDE DEF on, cell
      <4> QED BY <1>4, <2>2, <2>3, <2>6
    <3> QED BY <2>4, <2>5, <3>1, <3>2
  <2>7. CASE <<u, v>> \notin Cells
    <3>1. CellScore(u, v, 0) = 0
      BY <1>2, <1>5, <2>7
    <3> QED BY <2>4, <2>5, <3>1
  <2> QED BY <2>4, <2>5, <2>6, <2>7
<1> QED BY <1>6, <1>7

\* f holds the sums of the first terms.
Sums(f, term, n) ==
  /\ f \in [0..n -> Nat]
  /\ f[0] = 0
  /\ \A i \in 1..n : f[i] = f[i - 1] + term[i]

\* f is defined by their recursion.
Adds(f, term, n) == f = [i \in 0..n |-> IF i = 0 THEN 0 ELSE f[i - 1] + term[i]]

LEMMA SumsExist ==
  ASSUME NEW n \in Nat, NEW term \in [1..n -> Nat]
  PROVE  \E f : Adds(f, term, n)
<1> DEFINE step == [v \in (1..n) \X Nat |-> v[2] + term[v[1]]]
<1>1. step \in [(1..n) \X Nat -> Nat]
  OBVIOUS
<1>2. PICK f \in [0..n -> Nat] : Recursion(f, n, 0, step)
  <2>1. 0 \in Nat
    OBVIOUS
  <2> HIDE DEF step
  <2> QED BY <1>1, <2>1, RecursionExists
<1>3. ASSUME NEW i \in 0..n
      PROVE  f[i] = IF i = 0 THEN 0 ELSE f[i - 1] + term[i]
  <2>1. CASE i = 0
    <3> HIDE DEF step
    <3> QED BY <1>2, <2>1 DEF Recursion
  <2>2. CASE i # 0
    <3>1. f[i] = step[<<i, f[i - 1]>>] /\ <<i, f[i - 1]>> \in (1..n) \X Nat
      <4> HIDE DEF step
      <4> QED BY <1>2, <2>2 DEF Recursion
    <3> QED BY <2>2, <3>1
  <2> QED BY <2>1, <2>2
<1>4. f = [i \in 0..n |-> f[i]]
  OBVIOUS
<1> QED BY <1>3, <1>4 DEF Adds

LEMMA SumsTyped ==
  ASSUME NEW n \in Nat, NEW term \in [1..n -> Nat], NEW f, Adds(f, term, n)
  PROVE  Sums(f, term, n)
<1> DEFINE Bad == {i \in 0..n : f[i] \notin Nat}
<1>1. \A i \in 0..n : f[i] = IF i = 0 THEN 0 ELSE f[i - 1] + term[i]
  BY DEF Adds
<1>2. Bad = {}
  <2> SUFFICES ASSUME Bad # {} PROVE FALSE
    OBVIOUS
  <2>1. PICK i \in Bad : \A j \in Bad : i <= j
    <3>1. Bad \subseteq Nat
      OBVIOUS
    <3> HIDE DEF Bad
    <3> QED BY <3>1, LeastNatural
  <2>2. i \in 0..n /\ f[i] \notin Nat
    OBVIOUS
  <2>3. i # 0 /\ i - 1 \in 0..n /\ term[i] \in Nat
    BY <1>1, <2>2
  <2>4. f[i - 1] \in Nat
    <3>1. i - 1 \notin Bad
      BY <2>1, <2>2, <2>3
    <3> QED BY <2>3, <3>1
  <2> QED BY <1>1, <2>2, <2>3, <2>4
<1>3. f \in [0..n -> Nat]
  <2>1. \A i \in 0..n : f[i] \in Nat
    BY <1>2
  <2>2. f = [i \in 0..n |-> f[i]]
    BY DEF Adds
  <2> QED BY <2>1, <2>2
<1>4. f[0] = 0
  BY <1>1
<1>5. \A i \in 1..n : f[i] = f[i - 1] + term[i]
  BY <1>1
<1> QED BY <1>3, <1>4, <1>5 DEF Sums

LEMMA SumsMonotone ==
  ASSUME NEW n \in Nat, NEW r \in [1..n -> Nat], NEW s \in [1..n -> Nat],
         \A i \in 1..n : r[i] <= s[i],
         NEW f, Sums(f, r, n), NEW g, Sums(g, s, n)
  PROVE  f[n] <= g[n]
<1> DEFINE Bad == {i \in 0..n : ~(f[i] <= g[i])}
<1> SUFFICES ASSUME Bad # {} PROVE FALSE
  OBVIOUS
<1>1. PICK i \in Bad : \A j \in Bad : i <= j
  <2>1. Bad \subseteq Nat
    OBVIOUS
  <2> HIDE DEF Bad
  <2> QED BY <2>1, LeastNatural
<1>2. i \in 0..n /\ ~(f[i] <= g[i])
  OBVIOUS
<1>3. f[0] = 0 /\ g[0] = 0 /\ \A j \in 0..n : f[j] \in Nat /\ g[j] \in Nat
  BY DEF Sums
<1>4. CASE i = 0
  BY <1>2, <1>3, <1>4
<1>5. CASE i # 0
  <2>1. i \in 1..n /\ i - 1 \in 0..n
    BY <1>2, <1>5
  <2>2. f[i - 1] <= g[i - 1]
    <3>1. i - 1 \notin Bad
      BY <1>1, <1>2, <2>1
    <3> QED BY <2>1, <3>1
  <2>3. f[i] = f[i - 1] + r[i] /\ g[i] = g[i - 1] + s[i]
    BY <2>1 DEF Sums
  <2>4. r[i] <= s[i] /\ r[i] \in Nat /\ s[i] \in Nat
    BY <2>1
  <2>5. f[i - 1] \in Nat /\ g[i - 1] \in Nat /\ f[i] \in Nat /\ g[i] \in Nat
    BY <1>2, <1>3, <2>1
  <2> HIDE DEF Bad
  <2> QED BY <1>2, <2>2, <2>3, <2>4, <2>5
<1> QED BY <1>4, <1>5

\* The score of a heading and offset is a natural number, and no pose of a block
\* scores more than the block.
LEMMA ScoreAdmissible ==
  ASSUME Given, NEW t \in DOMAIN ep, NEW x \in Int, NEW y \in Int, NEW level \in 0..Depth,
         NEW u \in x..(x + 2 ^ level - 1), NEW v \in y..(y + 2 ^ level - 1)
  PROVE  /\ ScoreLevel(t, x, y, level) \in Nat
         /\ ScoreLevel(t, u, v, 0) \in Nat
         /\ ScoreLevel(t, u, v, 0) <= ScoreLevel(t, x, y, level)
<1>1. PICK n \in Nat : n = Len(ep[t]) /\ \A i \in 1..n : ep[t][i] \in Int \X Int
  <2>1. \A e \in Endpoints : \A k \in DOMAIN e : e[k] \in Seq(Int \X Int)
    BY BbsParams
  <2>2. ep[t] \in Seq(Int \X Int)
    BY <2>1 DEF Given
  <2>3. Len(ep[t]) \in Nat /\ \A i \in 1..Len(ep[t]) : ep[t][i] \in Int \X Int
    BY <2>2
  <2> QED BY <2>3
<1>2. PICK side \in Nat \ {0} : side = 2 ^ level
  BY BbsParams, PowerDoubles
<1> DEFINE coarse == [i \in 1..n |-> CellScore(ep[t][i][1] + x, ep[t][i][2] + y, level)]
           fine == [i \in 1..n |-> CellScore(ep[t][i][1] + u, ep[t][i][2] + v, 0)]
<1>3. ASSUME NEW i \in 1..n
      PROVE  coarse[i] \in Nat /\ fine[i] \in Nat /\ fine[i] <= coarse[i]
  <2>1. PICK a \in Int, b \in Int : a = ep[t][i][1] /\ b = ep[t][i][2]
    BY <1>1
  <2>2. /\ a + x \in Int /\ b + y \in Int
        /\ a + u \in (a + x)..(a + x + side - 1) /\ b + v \in (b + y)..(b + y + side - 1)
    BY <1>2
  <2>3. /\ CellScore(a + x, b + y, level) \in Nat
        /\ CellScore(a + u, b + v, 0) \in Nat
        /\ CellScore(a + u, b + v, 0) <= CellScore(a + x, b + y, level)
    BY <1>2, <2>2, CellAdmissible
  <2>4. coarse[i] = CellScore(a + x, b + y, level) /\ fine[i] = CellScore(a + u, b + v, 0)
    BY <2>1
  <2> QED BY <2>3, <2>4
<1>4. coarse \in [1..n -> Nat] /\ fine \in [1..n -> Nat]
  BY <1>3
<1>5. PICK f : Sums(f, coarse, n) /\ ScoreLevel(t, x, y, level) = f[n]
  <2> DEFINE Rec(h) == h = [i \in 0..Len(ep[t]) |->
                              IF i = 0 THEN 0
                              ELSE h[i - 1] + CellScore(ep[t][i][1] + x, ep[t][i][2] + y, level)]
             s == CHOOSE h : Rec(h)
  <2>1. \A i \in 0..n : i # 0 => CellScore(ep[t][i][1] + x, ep[t][i][2] + y, level) = coarse[i]
    OBVIOUS
  <2>2. ASSUME NEW h PROVE Rec(h) <=> Adds(h, coarse, n)
    <3> HIDE DEF coarse
    <3> QED BY <1>1, <2>1 DEF Adds
  <2>3. Adds(s, coarse, n)
    <3> HIDE DEF coarse, Rec
    <3> QED BY <1>4, <2>2, SumsExist
  <2>4. ScoreLevel(t, x, y, level) = s[n]
    BY <1>1 DEF ScoreLevel
  <2> HIDE DEF coarse, s
  <2> QED BY <1>4, <2>3, <2>4, SumsTyped
<1>6. PICK g : Sums(g, fine, n) /\ ScoreLevel(t, u, v, 0) = g[n]
  <2> DEFINE Rec(h) == h = [i \in 0..Len(ep[t]) |->
                              IF i = 0 THEN 0
                              ELSE h[i - 1] + CellScore(ep[t][i][1] + u, ep[t][i][2] + v, 0)]
             s == CHOOSE h : Rec(h)
  <2>1. \A i \in 0..n : i # 0 => CellScore(ep[t][i][1] + u, ep[t][i][2] + v, 0) = fine[i]
    OBVIOUS
  <2>2. ASSUME NEW h PROVE Rec(h) <=> Adds(h, fine, n)
    <3> HIDE DEF fine
    <3> QED BY <1>1, <2>1 DEF Adds
  <2>3. Adds(s, fine, n)
    <3> HIDE DEF fine, Rec
    <3> QED BY <1>4, <2>2, SumsExist
  <2>4. ScoreLevel(t, u, v, 0) = s[n]
    BY <1>1 DEF ScoreLevel
  <2> HIDE DEF fine, s
  <2> QED BY <1>4, <2>3, <2>4, SumsTyped
<1>7. f[n] \in Nat /\ g[n] \in Nat
  BY <1>5, <1>6 DEF Sums
<1>8. g[n] <= f[n]
  <2> HIDE DEF coarse, fine
  <2> QED BY <1>3, <1>4, <1>5, <1>6, SumsMonotone
<1> QED BY <1>5, <1>6, <1>7, <1>8
-----------------------------------------------------------------------------
(* The modes.                                                              *)

LEMMA Division ==
  ASSUME NEW n \in Nat \ {0}, NEW z \in Int
  PROVE  /\ z \div n \in Int
         /\ z % n \in 0..(n - 1)
         /\ z = n * (z \div n) + (z % n)
         /\ \A q \in Int, r \in 0..(n - 1) : z = n * q + r => z % n = r
<1>1. z \div n \in Int /\ z % n \in 0..(n - 1)
  OBVIOUS
<1>2. z = n * (z \div n) + (z % n)
  OBVIOUS
<1>3. ASSUME NEW q \in Int, NEW r \in 0..(n - 1), z = n * q + r PROVE z % n = r
  BY <1>3
<1> QED BY <1>1, <1>2, <1>3

LEMMA YawSymmetric ==
  ASSUME NEW a \in Int, NEW b \in Int
  PROVE  YawApart(a, b) = YawApart(b, a)
<1>1. Circle \in Nat \ {0} /\ a - b \in Int /\ b - a \in Int
  BY BbsParams
<1> DEFINE r == (a - b) % Circle
           s == (b - a) % Circle
           q == (a - b) \div Circle
<1>2. q \in Int /\ r \in 0..(Circle - 1) /\ a - b = Circle * q + r
  BY <1>1, Division
<1>3. PICK p \in Int : p = Circle * q
  BY <1>1, <1>2
<1>4. PICK w \in Int : w = -q /\ Circle * w = -p
  BY <1>1, <1>2, <1>3
<1>5. PICK x \in Int : x = -q - 1 /\ Circle * x = -p - Circle
  BY <1>1, <1>2, <1>3
<1>6. s = IF r = 0 THEN 0 ELSE Circle - r
  <2>1. CASE r = 0
    <3>1. b - a = Circle * w + 0 /\ 0 \in 0..(Circle - 1)
      BY <1>1, <1>2, <1>3, <1>4, <2>1
    <3> HIDE DEF q, r
    <3> QED BY <1>1, <2>1, <3>1, Division
  <2>2. CASE r # 0
    <3>1. b - a = Circle * x + (Circle - r) /\ Circle - r \in 0..(Circle - 1)
      BY <1>1, <1>2, <1>3, <1>5, <2>2
    <3> HIDE DEF q, r
    <3> QED BY <1>1, <2>2, <3>1, Division
  <2> QED BY <2>1, <2>2
<1>7. /\ YawApart(a, b) = IF 2 * r <= Circle THEN r ELSE Circle - r
      /\ YawApart(b, a) = IF 2 * s <= Circle THEN s ELSE Circle - s
  BY DEF YawApart
<1> HIDE DEF q, r, s
<1> QED BY <1>1, <1>2, <1>6, <1>7

Leaves == [t : Int, x : Int, y : Int]
Modes == [leaf : Leaves, score : Nat]

LEMMA NearSymmetric ==
  ASSUME NEW l \in Leaves, NEW m \in Leaves
  PROVE  Near(l, m) <=> Near(m, l)
<1>1. YawApart(l.t, m.t) = YawApart(m.t, l.t)
  BY YawSymmetric DEF Leaves
<1>2. \A a, b \in Int : (a - b) * (a - b) = (b - a) * (b - a)
  OBVIOUS
<1>3. (l.x - m.x) * (l.x - m.x) = (m.x - l.x) * (m.x - l.x)
  BY <1>2 DEF Leaves
<1>4. (l.y - m.y) * (l.y - m.y) = (m.y - l.y) * (m.y - l.y)
  BY <1>2 DEF Leaves
<1> QED BY Zenon, <1>1, <1>3, <1>4 DEF Near

\* Modes best first of which no two are neighbours.
Ranked(s) ==
  /\ s \in Seq(Modes)
  /\ \A i \in DOMAIN s : \A j \in 1..(i - 1) : /\ s[i].score <= s[j].score
                                               /\ ~Near(s[i].leaf, s[j].leaf)

\* o holds those of the first i modes kept that are no neighbours of leaf.
Thinned(o, i, leaf) ==
  /\ Ranked(o)
  /\ \A j \in DOMAIN o : \E h \in 1..i : o[j] = kept[h] /\ ~Near(kept[h].leaf, leaf)
  /\ \A h \in 1..i : ~Near(kept[h].leaf, leaf) => \E j \in DOMAIN o : o[j] = kept[h]

LEMMA ThinnedFurther ==
  ASSUME Ranked(kept), NEW leaf, NEW i \in 1..Len(kept), NEW o, Thinned(o, i - 1, leaf)
  PROVE  Thinned(IF Near(kept[i].leaf, leaf) THEN o ELSE Append(o, kept[i]), i, leaf)
<1>1. kept[i] \in Modes /\ i \in DOMAIN kept /\ i \in Nat
  BY DEF Ranked
<1>2. o \in Seq(Modes) /\ Len(o) \in Nat /\ DOMAIN o = 1..Len(o)
  BY DEF Thinned, Ranked
<1>3. CASE Near(kept[i].leaf, leaf)
  <2>1. \A h \in 1..i : h = i \/ h \in 1..(i - 1)
    BY <1>1
  <2>2. \A h \in 1..(i - 1) : h \in 1..i
    BY <1>1
  <2>3. Thinned(o, i, leaf)
    BY <1>3, <2>1, <2>2 DEF Thinned
  <2> QED BY <1>3, <2>3
<1>4. CASE ~Near(kept[i].leaf, leaf)
  <2> DEFINE p == Append(o, kept[i])
             n == Len(o)
  <2>1. /\ p \in Seq(Modes) /\ DOMAIN p = 1..(n + 1)
        /\ p[n + 1] = kept[i] /\ \A j \in 1..n : p[j] = o[j]
    BY <1>1, <1>2
  <2>2. \A j \in 1..n : \E h \in 1..(i - 1) : o[j] = kept[h] /\ ~Near(kept[h].leaf, leaf)
    BY <1>2 DEF Thinned
  <2> HIDE DEF p
  <2>3. ASSUME NEW j \in DOMAIN p, NEW g \in 1..(j - 1)
        PROVE  p[j].score <= p[g].score /\ ~Near(p[j].leaf, p[g].leaf)
    <3>1. CASE j = n + 1
      <4>1. g \in 1..n
        BY <1>2, <2>1, <3>1
      <4>2. PICK h \in 1..(i - 1) : o[g] = kept[h]
        BY <2>2, <4>1
      <4>3. kept[i].score <= kept[h].score /\ ~Near(kept[i].leaf, kept[h].leaf)
        BY <1>1, <4>2 DEF Ranked
      <4> QED BY <2>1, <3>1, <4>1, <4>2, <4>3
    <3>2. CASE j # n + 1
      <4>1. j \in 1..n /\ g \in 1..n
        BY <1>2, <2>1, <3>2
      <4>2. o[j].score <= o[g].score /\ ~Near(o[j].leaf, o[g].leaf)
        BY <1>2, <4>1 DEF Thinned, Ranked
      <4> QED BY <2>1, <4>1, <4>2
    <3> QED BY <3>1, <3>2
  <2>4. ASSUME NEW j \in DOMAIN p
        PROVE  \E h \in 1..i : p[j] = kept[h] /\ ~Near(kept[h].leaf, leaf)
    <3>1. CASE j = n + 1
      BY <1>1, <1>4, <2>1, <3>1
    <3>2. CASE j # n + 1
      <4>1. j \in 1..n
        BY <1>2, <2>1, <3>2
      <4>2. PICK h \in 1..(i - 1) : o[j] = kept[h] /\ ~Near(kept[h].leaf, leaf)
        BY <2>2, <4>1
      <4> QED BY <1>1, <2>1, <4>1, <4>2
    <3> QED BY <3>1, <3>2
  <2>5. ASSUME NEW h \in 1..i, ~Near(kept[h].leaf, leaf)
        PROVE  \E j \in DOMAIN p : p[j] = kept[h]
    <3>1. CASE h = i
      BY <1>2, <2>1, <3>1
    <3>2. CASE h # i
      <4>1. h \in 1..(i - 1)
        BY <1>1, <3>2
      <4>2. PICK j \in DOMAIN o : o[j] = kept[h]
        BY <2>5, <4>1 DEF Thinned
      <4> QED BY <1>2, <2>1, <4>2
    <3> QED BY <3>1, <3>2
  <2>6. Thinned(p, i, leaf)
    BY <2>1, <2>3, <2>4, <2>5 DEF Thinned, Ranked
  <2> QED BY <1>4, <2>6 DEF p
<1> QED BY <1>3, <1>4

LEMMA OthersThinned ==
  ASSUME Ranked(kept), NEW leaf
  PROVE  Thinned(Others(leaf), Len(kept), leaf)
<1>1. PICK n \in Nat : n = Len(kept) /\ DOMAIN kept = 1..n /\ \A i \in 1..n : kept[i] \in Modes
  BY DEF Ranked
<1> DEFINE more(i, o) == IF Near(kept[i].leaf, leaf) THEN o ELSE Append(o, kept[i])
           step == [v \in (1..n) \X Seq(Modes) |-> more(v[1], v[2])]
           Rec(h) == h = [i \in 0..n |-> IF i = 0 THEN <<>> ELSE more(i, h[i - 1])]
           next == CHOOSE h : Rec(h)
<1>2. \E h : Rec(h)
  <2>1. step \in [(1..n) \X Seq(Modes) -> Seq(Modes)]
    <3>1. ASSUME NEW i \in 1..n, NEW o \in Seq(Modes) PROVE more(i, o) \in Seq(Modes)
      BY <1>1
    <3> HIDE DEF more
    <3> QED BY <3>1
  <2>2. PICK f \in [0..n -> Seq(Modes)] : Recursion(f, n, <<>>, step)
    <3>1. <<>> \in Seq(Modes)
      OBVIOUS
    <3> HIDE DEF step
    <3> QED BY <2>1, <3>1, RecursionExists
  <2>3. ASSUME NEW i \in 0..n PROVE f[i] = IF i = 0 THEN <<>> ELSE more(i, f[i - 1])
    <3>1. CASE i = 0
      <4> HIDE DEF step
      <4> QED BY <2>2, <3>1 DEF Recursion
    <3>2. CASE i # 0
      <4>1. f[i] = step[<<i, f[i - 1]>>] /\ <<i, f[i - 1]>> \in (1..n) \X Seq(Modes)
        <5>1. i \in 1..n /\ i - 1 \in 0..n
          BY <3>2
        <5>2. f[i - 1] \in Seq(Modes)
          BY <2>2, <5>1
        <5> HIDE DEF step
        <5> QED BY <2>2, <3>2, <5>1, <5>2 DEF Recursion
      <4> HIDE DEF more
      <4> QED BY <3>2, <4>1
    <3> QED BY <3>1, <3>2
  <2>4. f = [i \in 0..n |-> f[i]]
    OBVIOUS
  <2> HIDE DEF more
  <2> QED BY <2>3, <2>4
<1>3. Rec(next)
  <2> HIDE DEF Rec
  <2> QED BY <1>2
<1>4. Others(leaf) = next[n]
  BY <1>1 DEF Others
<1>5. \A i \in 0..n : next[i] = IF i = 0 THEN <<>> ELSE more(i, next[i - 1])
  <2> HIDE DEF next, more
  <2> QED BY <1>3
<1> HIDE DEF next
<1> DEFINE Bad == {i \in 0..n : ~Thinned(next[i], i, leaf)}
<1>6. Bad = {}
  <2> SUFFICES ASSUME Bad # {} PROVE FALSE
    OBVIOUS
  <2>1. PICK i \in Bad : \A j \in Bad : i <= j
    <3>1. Bad \subseteq Nat
      OBVIOUS
    <3> HIDE DEF Bad
    <3> QED BY <3>1, LeastNatural
  <2>2. i \in 0..n /\ ~Thinned(next[i], i, leaf)
    OBVIOUS
  <2>3. CASE i = 0
    <3>1. next[i] = <<>>
      BY <1>5, <2>2, <2>3
    <3>2. Thinned(<<>>, 0, leaf)
      BY DEF Thinned, Ranked
    <3> QED BY <2>2, <2>3, <3>1, <3>2
  <2>4. CASE i # 0
    <3>1. i \in 1..n /\ i - 1 \in 0..n /\ i - 1 \notin Bad
      BY <2>1, <2>2, <2>4
    <3>2. Thinned(next[i - 1], i - 1, leaf)
      BY <3>1
    <3>3. next[i] = more(i, next[i - 1])
      BY <1>5, <2>2, <2>4
    <3> HIDE DEF Bad
    <3> QED BY <1>1, <2>2, <3>1, <3>2, <3>3, ThinnedFurther
  <2> QED BY <2>3, <2>4
<1>7. Thinned(next[n], n, leaf)
  BY <1>6
<1> QED BY <1>1, <1>4, <1>7

\* The best of the modes r scores at least as much.
Tops(r, score) == r # <<>> /\ r[1].score >= score

LEMMA JoinedRanked ==
  ASSUME args.k \in Nat \ {0}, NEW modes, Ranked(modes), NEW mode \in Modes,
         \A i \in DOMAIN modes : ~Near(modes[i].leaf, mode.leaf)
  PROVE  /\ Ranked(Joined(modes, mode)) /\ Len(Joined(modes, mode)) <= args.k
         /\ \A i \in DOMAIN Joined(modes, mode) :
              \/ Joined(modes, mode)[i] = mode
              \/ \E j \in DOMAIN modes : Joined(modes, mode)[i] = modes[j]
         /\ Tops(Joined(modes, mode), mode.score)
         /\ \A j \in DOMAIN modes : Tops(Joined(modes, mode), modes[j].score)
<1>1. PICK n \in Nat : n = Len(modes)
  BY DEF Ranked
<1>2. modes \in Seq(Modes) /\ DOMAIN modes = 1..n /\ \A i \in 1..n : modes[i] \in Modes
  BY <1>1 DEF Ranked
<1> DEFINE Places == {i \in 1..(n + 1) : i <= n => modes[i].score < mode.score}
           place == Min(Places)
           all == InsertAt(modes, place, mode)
           r == FirstOf(all, args.k)
<1>3. place \in Places /\ \A i \in Places : place <= i
  <2>1. Places \subseteq Nat /\ Places # {}
    <3>1. n + 1 \in Places
      BY <1>1
    <3> QED BY <3>1
  <2> HIDE DEF Places
  <2>2. PICK i \in Places : \A j \in Places : i <= j
    BY <2>1, LeastNatural
  <2> QED BY <2>2 DEF Min
<1>4. Joined(modes, mode) = r
  BY <1>1 DEF Joined
<1>5. place \in 1..(n + 1) /\ place \in Nat
  BY <1>3
<1>6. ASSUME NEW i \in 1..n
      PROVE  /\ i < place => modes[i].score >= mode.score
             /\ i >= place => modes[i].score < mode.score
  <2>1. modes[i].score \in Nat /\ mode.score \in Nat
    BY <1>2 DEF Modes
  <2>2. ASSUME i < place PROVE modes[i].score >= mode.score
    <3>1. i \notin Places
      <4> HIDE DEF Places
      <4> QED BY <1>3, <1>5, <2>2
    <3> QED BY <1>1, <2>1, <3>1
  <2>3. ASSUME i >= place PROVE modes[i].score < mode.score
    <3>1. place \in 1..n /\ modes[place].score < mode.score
      BY <1>3, <1>5, <2>3
    <3>2. modes[i].score <= modes[place].score
      <4>1. CASE i = place
        BY <2>1, <4>1
      <4>2. CASE i # place
        <5>1. place \in 1..(i - 1)
          BY <1>5, <2>3, <4>2
        <5> HIDE DEF place
        <5> QED BY <1>2, <5>1 DEF Ranked
      <4> QED BY <4>1, <4>2
    <3>3. modes[place].score \in Nat
      BY <1>2, <3>1 DEF Modes
    <3> HIDE DEF place
    <3> QED BY <2>1, <3>1, <3>2, <3>3
  <2> QED BY <2>2, <2>3
<1> HIDE DEF place
<1>7. /\ all \in Seq(Modes) /\ Len(all) = n + 1
      /\ \A i \in 1..(n + 1) : all[i] = IF i < place THEN modes[i]
                                        ELSE IF i = place THEN mode ELSE modes[i - 1]
  <2> DEFINE front == SubSeq(modes, 1, place - 1)
             back == SubSeq(modes, place, n)
  <2>1. /\ front \in Seq(Modes) /\ Len(front) = place - 1
        /\ \A i \in 1..(place - 1) : front[i] = modes[i]
    BY <1>1, <1>2, <1>5
  <2>2. /\ back \in Seq(Modes) /\ Len(back) = n + 1 - place
        /\ \A i \in 1..(n + 1 - place) : back[i] = modes[place + i - 1]
    BY <1>1, <1>2, <1>5
  <2>3. all = front \o <<mode>> \o back
    BY <1>1 DEF InsertAt
  <2> HIDE DEF front, back, all
  <2>4. /\ front \o <<mode>> \in Seq(Modes) /\ Len(front \o <<mode>>) = place
        /\ \A i \in 1..place : (front \o <<mode>>)[i] = IF i < place THEN modes[i] ELSE mode
    BY <1>5, <2>1
  <2> DEFINE head == front \o <<mode>>
  <2> HIDE DEF head
  <2>5. head \in Seq(Modes) /\ Len(head) = place
        /\ \A i \in 1..place : head[i] = IF i < place THEN modes[i] ELSE mode
    BY <2>4 DEF head
  <2>6. all = head \o back
    BY <2>3 DEF head
  <2>7. all \in Seq(Modes) /\ Len(all) = n + 1
    <3>1. head \in Seq(Modes) /\ back \in Seq(Modes)
      BY <2>2, <2>5
    <3>2. all \in Seq(Modes) /\ Len(all) = Len(head) + Len(back)
      BY <2>6, <3>1
    <3> QED BY <1>5, <2>2, <2>5, <3>2
  <2>8. ASSUME NEW i \in 1..(n + 1)
        PROVE  all[i] = IF i < place THEN modes[i] ELSE IF i = place THEN mode ELSE modes[i - 1]
    <3>1. CASE i <= place
      <4>1. i \in 1..place
        BY <1>5, <3>1
      <4>2. all[i] = head[i]
        <5>1. head \in Seq(Modes) /\ back \in Seq(Modes) /\ i \in 1..Len(head)
          BY <2>2, <2>5, <4>1
        <5> QED BY <2>6, <5>1
      <4> QED BY <1>5, <2>5, <3>1, <4>1, <4>2
    <3>2. CASE i > place
      <4>1. i - place \in 1..(n + 1 - place) /\ all[i] = back[i - place]
        BY <1>5, <2>2, <2>5, <2>6, <3>2
      <4>2. back[i - place] = modes[place + (i - place) - 1]
        BY <2>2, <4>1
      <4>3. place + (i - place) - 1 = i - 1
        BY <1>5
      <4> QED BY <1>5, <3>2, <4>1, <4>2, <4>3
    <3> QED BY <1>5, <3>1, <3>2
  <2> QED BY <2>7, <2>8
<1> HIDE DEF all
<1>8. ASSUME NEW i \in 1..(n + 1), NEW j \in 1..(i - 1)
      PROVE  all[i].score <= all[j].score /\ ~Near(all[i].leaf, all[j].leaf)
  <2>1. \A h \in 1..n : modes[h].score \in Nat /\ modes[h].leaf \in Leaves
    BY <1>2 DEF Modes
  <2>2. mode.score \in Nat /\ mode.leaf \in Leaves
    BY DEF Modes
  <2>3. \A h \in 1..n, g \in 1..n : g < h =>
          modes[h].score <= modes[g].score /\ ~Near(modes[h].leaf, modes[g].leaf)
    BY <1>2 DEF Ranked
  <2>4. \A h \in 1..n : ~Near(modes[h].leaf, mode.leaf) /\ ~Near(mode.leaf, modes[h].leaf)
    BY <1>2, <2>1, <2>2, NearSymmetric
  <2>5. j \in 1..(n + 1) /\ j < i
    OBVIOUS
  <2>6. CASE i < place
    <3>1. all[i] = modes[i] /\ all[j] = modes[j] /\ i \in 1..n /\ j \in 1..n
      BY <1>5, <1>7, <2>5, <2>6
    <3> QED BY <2>3, <2>5, <3>1
  <2>7. CASE i = place
    <3>1. all[i] = mode /\ all[j] = modes[j] /\ j \in 1..n /\ j < place
      BY <1>5, <1>7, <2>5, <2>7
    <3>2. modes[j].score >= mode.score
      BY <1>6, <3>1
    <3> QED BY <2>1, <2>2, <2>4, <3>1, <3>2
  <2>8. CASE i > place
    <3>1. all[i] = modes[i - 1] /\ i - 1 \in 1..n /\ i - 1 >= place
      BY <1>5, <1>7, <2>8
    <3>2. CASE j = place
      <4>1. all[j] = mode
        BY <1>7, <2>5, <3>2
      <4>2. modes[i - 1].score < mode.score
        BY <1>6, <3>1
      <4> QED BY <2>1, <2>2, <2>4, <3>1, <4>1, <4>2
    <3>3. CASE j < place
      <4>1. all[j] = modes[j] /\ j \in 1..n /\ j < i - 1
        BY <1>5, <1>7, <2>5, <2>8, <3>3
      <4> QED BY <2>3, <3>1, <4>1
    <3>4. CASE j > place
      <4>1. all[j] = modes[j - 1] /\ j - 1 \in 1..n /\ j - 1 < i - 1
        BY <1>5, <1>7, <2>5, <3>4
      <4> QED BY <2>3, <3>1, <4>1
    <3> QED BY <1>5, <3>2, <3>3, <3>4
  <2> QED BY <1>5, <2>6, <2>7, <2>8
<1>9. PICK l \in Nat \ {0} : /\ l = Len(r) /\ l <= n + 1 /\ l <= args.k
                             /\ r \in Seq(Modes) /\ \A i \in 1..l : r[i] = all[i]
  <2>1. CASE n + 1 <= args.k
    <3>1. r = all
      BY <1>7, <2>1 DEF FirstOf
    <3> QED BY <1>7, <2>1, <3>1
  <2>2. CASE ~(n + 1 <= args.k)
    <3>1. r = SubSeq(all, 1, args.k)
      BY <1>7, <2>2 DEF FirstOf
    <3>2. /\ Len(r) = args.k /\ r \in Seq(Modes)
          /\ \A i \in 1..args.k : r[i] = all[i]
      BY <1>7, <2>2, <3>1
    <3> QED BY <2>2, <3>2
  <2> QED BY <2>1, <2>2
<1> HIDE DEF r
<1>10. DOMAIN r = 1..l /\ \A i \in 1..l : i \in 1..(n + 1)
  BY <1>9
<1>11. Ranked(r)
  BY <1>8, <1>9, <1>10 DEF Ranked
<1>12. ASSUME NEW i \in DOMAIN r
       PROVE  r[i] = mode \/ \E j \in DOMAIN modes : r[i] = modes[j]
  <2>1. i \in 1..(n + 1) /\ r[i] = all[i]
    BY <1>9, <1>10
  <2>2. CASE i = place
    BY <1>7, <2>1, <2>2
  <2>3. CASE i < place
    BY <1>2, <1>5, <1>7, <2>1, <2>3
  <2>4. CASE i > place
    <3>1. all[i] = modes[i - 1] /\ i - 1 \in 1..n
      BY <1>5, <1>7, <2>1, <2>4
    <3> QED BY <1>2, <2>1, <3>1
  <2> QED BY <1>5, <2>1, <2>2, <2>3, <2>4
<1>13. ASSUME NEW i \in 1..(n + 1) PROVE Tops(r, all[i].score)
  <2>1. r[1] = all[1] /\ r # <<>>
    BY <1>9
  <2>2. all[1].score \in Nat /\ all[i].score \in Nat
    <3>1. all[1] \in Modes /\ all[i] \in Modes
      BY <1>7
    <3> QED BY <3>1 DEF Modes
  <2>3. CASE i = 1
    BY <2>1, <2>2, <2>3 DEF Tops
  <2>4. CASE i # 1
    <3>1. 1 \in 1..(i - 1)
      BY <2>4
    <3>2. all[i].score <= all[1].score
      BY <1>8, <3>1
    <3> QED BY <2>1, <2>2, <3>2 DEF Tops
  <2> QED BY <2>3, <2>4
<1>14. Tops(r, mode.score)
  <2>1. all[place] = mode
    BY <1>5, <1>7
  <2> QED BY <1>5, <1>13, <2>1
<1>15. ASSUME NEW j \in DOMAIN modes PROVE Tops(r, modes[j].score)
  <2>1. j \in 1..n
    BY <1>2
  <2>2. CASE j < place
    <3>1. all[j] = modes[j] /\ j \in 1..(n + 1)
      BY <1>7, <2>1, <2>2
    <3> QED BY <1>13, <3>1
  <2>3. CASE j >= place
    <3>1. j + 1 \in 1..(n + 1) /\ all[j + 1] = modes[(j + 1) - 1]
      BY <1>5, <1>7, <2>1, <2>3
    <3>2. (j + 1) - 1 = j
      BY <2>1
    <3> QED BY <1>13, <3>1, <3>2
  <2> QED BY <1>5, <2>1, <2>2, <2>3
<1> QED BY <1>4, <1>9, <1>11, <1>12, <1>14, <1>15
-----------------------------------------------------------------------------
(* The search.                                                             *)

LEMMA ScoreUnchanged ==
  ASSUME UNCHANGED <<pyramid, ep>>, NEW t, NEW x, NEW y, NEW level
  PROVE  ScoreLevel(t, x, y, level)' = ScoreLevel(t, x, y, level)
<1>1. pyramid' = pyramid /\ ep' = ep
  OBVIOUS
<1> QED BY <1>1 DEF ScoreLevel, CellScore

\* Every candidate there is: no call of branch() is handed another one.
Cands == {Cand(t, x, y, depth) : t \in DOMAIN ep, x \in -args.lx..args.lx,
                                 y \in -args.ly..args.ly, depth \in 0..Depth}

LEMMA SearchArguments ==
  ASSUME Given
  PROVE  /\ args.lx \in Nat /\ args.ly \in Nat /\ args.k \in Nat \ {0}
         /\ args.center \in Int \X Int /\ args.prefer_center \in BOOLEAN
         /\ DOMAIN ep \subseteq Int /\ IsFiniteSet(DOMAIN ep)
BY BbsParams DEF Given

LEMMA CandsFinite ==
  ASSUME Given
  PROVE  IsFiniteSet(Cands)
<1> DEFINE Ts == DOMAIN ep
           Xs == -args.lx..args.lx
           Ys == -args.ly..args.ly
           Ds == 0..Depth
<1>1. IsFiniteSet(Ts) /\ IsFiniteSet(Xs) /\ IsFiniteSet(Ys) /\ IsFiniteSet(Ds)
  <2>1. -args.lx \in Int /\ args.lx \in Int /\ -args.ly \in Int /\ args.ly \in Int
    BY SearchArguments
  <2>2. 0 \in Int /\ Depth \in Int
    BY BbsParams
  <2> QED BY <2>1, <2>2, SearchArguments, FS_Interval
<1>2. Cands = {Cand(t, x, y, depth) : t \in Ts, x \in Xs, y \in Ys, depth \in Ds}
  BY DEF Cands
<1> HIDE DEF Ts, Xs, Ys, Ds
<1> DEFINE g == [v \in (Ts \X Xs) \X (Ys \X Ds) |-> Cand(v[1][1], v[1][2], v[2][1], v[2][2])]
<1>3. IsFiniteSet((Ts \X Xs) \X (Ys \X Ds))
  <2>1. IsFiniteSet(Ts \X Xs) /\ IsFiniteSet(Ys \X Ds)
    BY <1>1, FS_Product
  <2> QED BY <2>1, FS_Product
<1>4. g \in Surjection((Ts \X Xs) \X (Ys \X Ds), Cands)
  <2>1. ASSUME NEW v \in (Ts \X Xs) \X (Ys \X Ds) PROVE g[v] \in Cands
    <3>1. PICK t \in Ts, x \in Xs, y \in Ys, depth \in Ds : v = <<<<t, x>>, <<y, depth>>>>
      OBVIOUS
    <3>2. g[v] = Cand(t, x, y, depth)
      BY <3>1
    <3> HIDE DEF g
    <3> QED BY <1>2, <3>2
  <2>2. ASSUME NEW c \in Cands PROVE \E v \in (Ts \X Xs) \X (Ys \X Ds) : g[v] = c
    <3>1. PICK t \in Ts, x \in Xs, y \in Ys, depth \in Ds : c = Cand(t, x, y, depth)
      BY <1>2
    <3> DEFINE v == <<<<t, x>>, <<y, depth>>>>
    <3>2. v \in (Ts \X Xs) \X (Ys \X Ds) /\ g[v] = Cand(t, x, y, depth)
      OBVIOUS
    <3> HIDE DEF g, v
    <3> QED BY <3>1, <3>2
  <2>3. g \in [(Ts \X Xs) \X (Ys \X Ds) -> Cands]
    <3>1. g = [v \in (Ts \X Xs) \X (Ys \X Ds) |-> g[v]]
      OBVIOUS
    <3> HIDE DEF g
    <3> QED BY <2>1, <3>1
  <2> HIDE DEF g
  <2> QED BY <2>2, <2>3 DEF Surjection
<1> HIDE DEF g
<1> QED BY <1>3, <1>4, FS_Surjection

\* A candidate is a block of poses of which none scores more than the candidate;
\* at depth 0 it is one pose.
LEMMA CandAdmissible ==
  ASSUME Given, NEW c \in Cands
  PROVE  /\ c.t \in DOMAIN ep /\ c.x \in -args.lx..args.lx /\ c.y \in -args.ly..args.ly
         /\ c.depth \in 0..Depth /\ c.upper \in Nat
         /\ LeafOf(c) \in Window
         /\ \A l \in Window : Below(l, c) => Score(l) \in Nat /\ Score(l) <= c.upper
         /\ c.depth = 0 => Score(LeafOf(c)) = c.upper /\ \A l \in Window : Below(l, c) => l = LeafOf(c)
<1>1. PICK t \in DOMAIN ep, x \in -args.lx..args.lx, y \in -args.ly..args.ly, depth \in 0..Depth :
        c = Cand(t, x, y, depth)
  BY DEF Cands
<1>2. c.t = t /\ c.x = x /\ c.y = y /\ c.depth = depth /\ c.upper = ScoreLevel(t, x, y, depth)
  BY <1>1 DEF Cand
<1>3. x \in Int /\ y \in Int /\ depth \in Nat /\ t \in Int
  BY BbsParams, SearchArguments
<1>4. PICK side \in Nat \ {0} : side = 2 ^ depth
  BY <1>3, PowerDoubles
<1>5. x \in x..(x + side - 1) /\ y \in y..(y + side - 1)
  BY <1>3
<1>6. ScoreLevel(t, x, y, depth) \in Nat
  BY <1>3, <1>4, <1>5, ScoreAdmissible
<1>7. LeafOf(c) \in Window /\ LeafOf(c) = [t |-> t, x |-> x, y |-> y]
  BY <1>2 DEF LeafOf, Window
<1>8. ASSUME NEW l \in Window, Below(l, c) PROVE Score(l) \in Nat /\ Score(l) <= c.upper
  <2>1. l.t = t /\ l.x \in x..(x + side - 1) /\ l.y \in y..(y + side - 1)
    BY <1>2, <1>4, <1>8 DEF Below
  <2>2. ScoreLevel(t, l.x, l.y, 0) \in Nat /\ ScoreLevel(t, l.x, l.y, 0) <= ScoreLevel(t, x, y, depth)
    BY <1>3, <1>4, <2>1, ScoreAdmissible
  <2> QED BY <1>2, <2>1, <2>2 DEF Score
<1>9. ASSUME depth = 0 PROVE Score(LeafOf(c)) = c.upper /\ \A l \in Window : Below(l, c) => l = LeafOf(c)
  <2>1. Score(LeafOf(c)) = c.upper
    BY <1>2, <1>7, <1>9 DEF Score
  <2>2. 2 ^ 0 = 1
    BY PowerDoubles
  <2>3. ASSUME NEW l \in Window, Below(l, c) PROVE l = LeafOf(c)
    <3>1. l.t = t /\ l.x \in x..(x + 1 - 1) /\ l.y \in y..(y + 1 - 1)
      BY <1>2, <1>9, <2>2, <2>3 DEF Below
    <3>2. l.x = x /\ l.y = y
      BY <1>3, <3>1
    <3>3. l = [t |-> l.t, x |-> l.x, y |-> l.y]
      BY DEF Window
    <3> QED BY <1>7, <3>1, <3>2, <3>3
  <2> QED BY <2>1, <2>3
<1> QED BY <1>1, <1>2, <1>6, <1>7, <1>8, <1>9

LEMMA RootsCover ==
  ASSUME Given
  PROVE  /\ Roots \subseteq Cands
         /\ \A l \in Window : \E c \in Roots : Below(l, c)
<1>1. PICK side \in Nat \ {0} : side = 2 ^ Depth
  BY BbsParams, PowerDoubles
<1>2. ASSUME NEW n \in Nat, NEW a \in -n..n
      PROVE  \E b \in Tiled(n, side) : a \in b..(b + side - 1)
  <2> DEFINE r == (a + n) % side
             q == (a + n) \div side
             b == a - r
  <2>1. a + n \in Int /\ a + n >= 0
    OBVIOUS
  <2>2. r \in 0..(side - 1) /\ q \in Int /\ a + n = side * q + r
    BY <1>1, <2>1, Division
  <2>3. PICK p \in Int : p = side * q
    BY <1>1, <2>2
  <2> HIDE DEF r, q
  <2>4. p >= 0
    <3>1. q >= 0 => p >= 0
      BY <1>1, <2>2, <2>3
    <3>2. q <= -1 => p <= -side
      BY <1>1, <2>2, <2>3
    <3> QED BY <1>1, <2>1, <2>2, <2>3, <3>1, <3>2
  <2>5. b + n = side * q + 0 /\ b \in -n..n
    BY <1>1, <2>1, <2>2, <2>3, <2>4
  <2>6. (b + n) % side = 0
    <3>1. b + n \in Int /\ 0 \in 0..(side - 1)
      BY <1>1, <2>5
    <3>2. ASSUME NEW z \in Int, z = side * q + 0 PROVE z % side = 0
      BY <1>1, <2>2, <3>1, <3>2, Division
    <3> HIDE DEF b
    <3> QED BY <2>5, <3>1, <3>2
  <2>7. a \in b..(b + side - 1)
    BY <1>1, <2>2
  <2> HIDE DEF b
  <2> QED BY <2>5, <2>6, <2>7 DEF Tiled
<1>3. Roots \subseteq Cands
  <2>1. Depth \in 0..Depth
    BY BbsParams
  <2> QED BY <2>1 DEF Roots, Cands, Tiled
<1>4. ASSUME NEW l \in Window PROVE \E c \in Roots : Below(l, c)
  <2>1. l.t \in DOMAIN ep /\ l.x \in -args.lx..args.lx /\ l.y \in -args.ly..args.ly
    BY DEF Window
  <2>2. PICK x \in Tiled(args.lx, side) : l.x \in x..(x + side - 1)
    BY <1>2, <2>1, SearchArguments
  <2>3. PICK y \in Tiled(args.ly, side) : l.y \in y..(y + side - 1)
    BY <1>2, <2>1, SearchArguments
  <2>4. Cand(l.t, x, y, Depth) \in Roots
    BY <1>1, <2>1 DEF Roots
  <2>5. Below(l, Cand(l.t, x, y, Depth))
    BY <1>1, <2>2, <2>3 DEF Below, Cand
  <2> QED BY <2>4, <2>5
<1> QED BY <1>3, <1>4

LEMMA ChildrenCover ==
  ASSUME Given, NEW c \in Cands, c.depth > 0
  PROVE  /\ Children(c) \subseteq Cands
         /\ \A l \in Window : Below(l, c) => \E d \in Children(c) : Below(l, d)
<1>1. /\ c.t \in DOMAIN ep /\ c.x \in -args.lx..args.lx /\ c.y \in -args.ly..args.ly
      /\ c.depth \in 0..Depth /\ args.lx \in Nat /\ args.ly \in Nat /\ Depth \in Nat
  BY CandAdmissible, SearchArguments, BbsParams
<1>2. c.depth - 1 \in Nat /\ c.depth - 1 \in 0..Depth /\ (c.depth - 1) + 1 = c.depth
  BY <1>1
<1>3. PICK half \in Nat \ {0} : half = 2 ^ (c.depth - 1) /\ 2 ^ c.depth = 2 * half
  BY <1>2, PowerDoubles
<1> DEFINE Moves == {e \in {0, half} \X {0, half} : c.x + e[1] <= args.lx /\ c.y + e[2] <= args.ly}
<1>4. Children(c) = {Cand(c.t, c.x + d[1], c.y + d[2], c.depth - 1) : d \in Moves}
  BY <1>3 DEF Children
<1>5. \A e \in Moves : c.x + e[1] \in -args.lx..args.lx /\ c.y + e[2] \in -args.ly..args.ly
  BY <1>1, <1>3
<1>6. Children(c) \subseteq Cands
  <2> HIDE DEF Moves
  <2> QED BY <1>1, <1>2, <1>4, <1>5 DEF Cands
<1>7. ASSUME NEW l \in Window, Below(l, c) PROVE \E d \in Children(c) : Below(l, d)
  <2>1. /\ l.t = c.t /\ l.x \in -args.lx..args.lx /\ l.y \in -args.ly..args.ly
        /\ l.x \in c.x..(c.x + 2 * half - 1) /\ l.y \in c.y..(c.y + 2 * half - 1)
    BY <1>3, <1>7 DEF Below, Window
  <2> DEFINE e == <<IF l.x < c.x + half THEN 0 ELSE half, IF l.y < c.y + half THEN 0 ELSE half>>
             d == Cand(c.t, c.x + e[1], c.y + e[2], c.depth - 1)
  <2>2. e \in Moves
    BY <1>1, <2>1
  <2>3. l.x \in (c.x + e[1])..(c.x + e[1] + half - 1) /\ l.y \in (c.y + e[2])..(c.y + e[2] + half - 1)
    BY <1>1, <2>1
  <2> HIDE DEF e, Moves
  <2>4. d \in Children(c)
    BY <1>4, <2>2
  <2>5. Below(l, d)
    BY <1>3, <2>1, <2>3 DEF Below, Cand
  <2> QED BY <2>4, <2>5
<1> QED BY <1>6, <1>7

LEMMA BestExists ==
  ASSUME Given, NEW frame \in SUBSET Cands, frame # {}
  PROVE  Best(frame) # {}
<1> DEFINE f == [c \in frame |-> c.upper]
           Uppers == {c.upper : c \in frame}
<1>1. Uppers \subseteq Nat /\ Uppers # {}
  BY CandAdmissible
<1>2. IsFiniteSet(frame)
  BY CandsFinite, FS_Subset
<1>3. IsFiniteSet(Uppers)
  <2>1. f \in Surjection(frame, Uppers)
    BY DEF Surjection
  <2> HIDE DEF f, Uppers
  <2> QED BY <1>2, <2>1, FS_Surjection
<1>4. PICK m \in Uppers : \A n \in Uppers : m >= n
  <2> HIDE DEF Uppers
  <2> QED BY <1>1, <1>3, LargestNatural
<1>5. PICK c \in frame : m = c.upper
  OBVIOUS
<1>6. \A d \in frame : d.upper \in Uppers /\ d.upper \in Nat
  BY CandAdmissible
<1>7. \A d \in frame : d.upper <= c.upper
  <2> HIDE DEF Uppers
  <2> QED BY <1>4, <1>5, <1>6
<1> QED BY <1>5, <1>7 DEF Best
-----------------------------------------------------------------------------
(* The inductive invariant.                                                *)

\* A pose is below a candidate of the lists o.
Pending(o, l) == \E i \in DOMAIN o : \E c \in o[i] : Below(l, c)

\* The best of the modes s leaves nothing to gain from a pose.
Beats(s, l) ==
  /\ s # <<>>
  /\ \/ Score(l) < s[1].score
     \/ /\ Score(l) = s[1].score
        /\ TieBreak => CentreDist(s[1].leaf) <= CentreDist(l)

\* The modes s are feasible poses with their exact scores.
Earned(s) ==
  /\ Ranked(s)
  /\ Len(s) <= args.k
  /\ \A i \in DOMAIN s : s[i].leaf \in Candidates /\ s[i].score = Score(s[i].leaf)

IInv ==
  /\ Given
  /\ open \in Seq(SUBSET Cands)
  /\ Earned(kept)
  /\ \A l \in Candidates : Pending(open, l) \/ Beats(kept, l)

\* A step that keeps the arguments keeps what is defined by them.
LEMMA ArgumentsKept ==
  ASSUME UNCHANGED <<pyramid, blocked, ep, args>>
  PROVE  /\ Given' <=> Given
         /\ Cands' = Cands /\ Candidates' = Candidates
         /\ \A l : Score(l)' = Score(l)
         /\ \A s : Earned(s)' <=> Earned(s)
         /\ \A s, l : Beats(s, l)' <=> Beats(s, l)
<1>1. pyramid' = pyramid /\ ep' = ep /\ args' = args /\ blocked' = blocked
  OBVIOUS
<1>2. Given' <=> Given
  BY <1>1 DEF Given, Bounding
<1>3. \A t, x, y, level : ScoreLevel(t, x, y, level)' = ScoreLevel(t, x, y, level)
  BY ScoreUnchanged
<1>4. Cands' = Cands
  BY <1>1, <1>3 DEF Cands, Cand
<1>5. Candidates' = Candidates
  BY <1>1 DEF Candidates, Window, Feasible
<1>6. \A l : Score(l)' = Score(l)
  BY <1>3 DEF Score
<1>7. \A l, m : Near(l, m)' <=> Near(l, m)
  BY <1>1 DEF Near
<1>8. \A s : Earned(s)' <=> Earned(s)
  BY <1>1, <1>5, <1>6, <1>7 DEF Earned, Ranked
<1>9. \A s, l : Beats(s, l)' <=> Beats(s, l)
  BY <1>1, <1>6 DEF Beats, TieBreak
<1> QED BY <1>2, <1>4, <1>5, <1>6, <1>8, <1>9

LEMMA CandidatesTyped ==
  ASSUME Given, NEW l \in Candidates
  PROVE  l \in Window /\ l \in Leaves /\ CentreDist(l) \in Int
<1>1. l \in Window
  BY DEF Candidates
<1>2. l \in Leaves
  BY <1>1, SearchArguments DEF Window, Leaves
<1>3. CentreDist(l) \in Int
  BY <1>2 DEF CentreDist, Leaves
<1> QED BY <1>1, <1>2, <1>3

LEMMA ScoreTyped ==
  ASSUME Given, NEW l \in Window
  PROVE  Score(l) \in Nat
<1>1. PICK c \in Cands : Below(l, c)
  BY RootsCover
<1> QED BY <1>1, CandAdmissible

LEMMA EarnedTyped ==
  ASSUME Given, NEW s, Earned(s)
  PROVE  /\ s \in Seq(Modes) /\ Len(s) \in Nat /\ DOMAIN s = 1..Len(s)
         /\ \A i \in 1..Len(s) : s[i] \in Modes /\ s[i].score \in Nat /\ s[i].leaf \in Leaves
         /\ \A i \in 1..Len(s) : s[i].score <= s[1].score
<1>1. s \in Seq(Modes) /\ Len(s) \in Nat /\ DOMAIN s = 1..Len(s)
  BY DEF Earned, Ranked
<1>2. \A i \in 1..Len(s) : s[i] \in Modes
  BY <1>1
<1>3. \A i \in 1..Len(s) : s[i].score \in Nat /\ s[i].leaf \in Leaves
  BY <1>2 DEF Modes
<1>4. ASSUME NEW i \in 1..Len(s) PROVE s[i].score <= s[1].score
  <2>1. CASE i = 1
    BY <1>3, <2>1
  <2>2. CASE i # 1
    <3>1. 1 \in 1..(i - 1)
      BY <2>2
    <3> QED BY <1>1, <3>1 DEF Earned, Ranked
  <2> QED BY <2>1, <2>2
<1> QED BY <1>1, <1>2, <1>3, <1>4

\* While fewer than K modes are kept nothing is hopeless; from then on the
\* threshold is the score of the worst.
LEMMA ThresholdIs ==
  ASSUME Given, Earned(kept)
  PROVE  \/ Threshold = -1 /\ Len(kept) < args.k
         \/ /\ Len(kept) = args.k /\ kept # <<>>
            /\ Threshold = kept[args.k].score /\ Threshold \in Nat /\ Threshold <= kept[1].score
<1>1. Len(kept) \in Nat /\ args.k \in Nat \ {0} /\ Len(kept) <= args.k
  BY EarnedTyped, SearchArguments DEF Earned
<1>2. CASE Len(kept) < args.k
  BY <1>1, <1>2 DEF Threshold
<1>3. CASE Len(kept) = args.k
  <2>1. args.k \in 1..Len(kept) /\ Threshold = kept[args.k].score
    BY <1>1, <1>3 DEF Threshold
  <2>2. kept[args.k].score \in Nat /\ kept[args.k].score <= kept[1].score
    BY <2>1, EarnedTyped
  <2>3. kept # <<>>
    BY <1>1, <1>3
  <2> QED BY <1>3, <2>1, <2>2, <2>3
<1> QED BY <1>1, <1>2, <1>3

\* What is below a candidate that is no better than a hopeless one is beaten.
LEMMA HopelessBeats ==
  ASSUME Given, Earned(kept), NEW c \in Cands, Hopeless(c), NEW d \in Cands, d.upper <= c.upper,
         NEW l \in Window, Below(l, d)
  PROVE  Beats(kept, l)
<1>1. c.upper \in Nat /\ d.upper \in Nat /\ Score(l) \in Nat /\ Score(l) <= d.upper
  BY CandAdmissible
<1>2. kept # <<>> /\ Threshold \in Nat /\ Threshold <= kept[1].score /\ kept[1].score \in Nat
  <2>1. Threshold # -1
    BY <1>1 DEF Hopeless
  <2>2. kept # <<>> /\ Threshold \in Nat /\ Threshold <= kept[1].score
    BY <2>1, ThresholdIs
  <2>3. 1 \in 1..Len(kept)
    BY <2>2, EarnedTyped
  <2> QED BY <2>2, <2>3, EarnedTyped
<1>3. CASE c.upper < Threshold
  <2>1. Score(l) < kept[1].score
    BY <1>1, <1>2, <1>3
  <2> QED BY <1>2, <2>1 DEF Beats
<1>4. CASE c.upper = Threshold /\ ~TieBreak
  <2>1. Score(l) < kept[1].score \/ Score(l) = kept[1].score
    BY <1>1, <1>2, <1>4
  <2> QED BY <1>2, <1>4, <2>1 DEF Beats
<1> QED BY <1>3, <1>4 DEF Hopeless

\* n is the list of lists o with those of r in place of the innermost one.
Replaced(n, o, r) ==
  /\ \A i \in 1..Len(r) : i \in DOMAIN n /\ n[i] = r[i]
  /\ \A i \in DOMAIN o : i # 1 => \E j \in DOMAIN n : n[j] = o[i]

LEMMA InnermostReplaced ==
  ASSUME NEW S, NEW o \in Seq(S), o # <<>>, NEW r \in Seq(S)
  PROVE  r \o Tail(o) \in Seq(S) /\ Replaced(r \o Tail(o), o, r)
<1> DEFINE tail == Tail(o)
<1>1. tail \in Seq(S) /\ Len(tail) = Len(o) - 1 /\ \A i \in 1..Len(tail) : tail[i] = o[i + 1]
  <2>1. tail \in Seq(S)
    OBVIOUS
  <2>2. Len(tail) = Len(o) - 1
    OBVIOUS
  <2>3. \A i \in 1..(Len(o) - 1) : tail[i] = o[i + 1]
    OBVIOUS
  <2> HIDE DEF tail
  <2> QED BY <2>1, <2>2, <2>3
<1> DEFINE n == r \o tail
<1> HIDE DEF tail
<1>2. /\ n \in Seq(S) /\ Len(n) = Len(r) + Len(tail) /\ DOMAIN n = 1..Len(n)
      /\ \A i \in 1..Len(r) : n[i] = r[i]
      /\ \A i \in 1..Len(tail) : n[Len(r) + i] = tail[i]
  <2>1. tail \in Seq(S)
    BY <1>1
  <2>2. n \in Seq(S) /\ Len(n) = Len(r) + Len(tail)
    BY <2>1
  <2>3. \A i \in 1..Len(r) : n[i] = r[i]
    BY <2>1
  <2>4. \A i \in 1..Len(tail) : n[Len(r) + i] = tail[i]
    BY <2>1
  <2>5. DOMAIN n = 1..Len(n)
    BY <2>2
  <2> QED BY <2>2, <2>3, <2>4, <2>5
<1>3. Len(r) \in Nat /\ Len(tail) \in Nat /\ Len(o) \in Nat /\ DOMAIN o = 1..Len(o)
  OBVIOUS
<1> HIDE DEF n
<1>4. \A i \in 1..Len(r) : i \in DOMAIN n
  BY <1>2, <1>3
<1>5. ASSUME NEW i \in DOMAIN o, i # 1 PROVE \E j \in DOMAIN n : n[j] = o[i]
  <2>1. i - 1 \in 1..Len(tail) /\ (i - 1) + 1 = i
    BY <1>1, <1>3, <1>5
  <2>2. Len(r) + (i - 1) \in DOMAIN n /\ n[Len(r) + (i - 1)] = tail[i - 1] /\ tail[i - 1] = o[i]
    BY <1>1, <1>2, <1>3, <2>1
  <2> QED BY <2>2
<1>6. n = r \o Tail(o)
  BY DEF n, tail
<1> QED BY <1>2, <1>4, <1>5, <1>6 DEF Replaced

\* What accept() makes of a feasible leaf that improves the modes are modes that
\* beat the leaf and all that was beaten before.
LEMMA AcceptedEarned ==
  ASSUME Given, Earned(kept), NEW c \in Cands, c.depth = 0,
         Feasible(c.x, c.y), Improves(c)
  PROVE  /\ Earned(Accepted(c))
         /\ Beats(Accepted(c), LeafOf(c))
         /\ \A l \in Candidates : Beats(kept, l) => Beats(Accepted(c), l)
<1> DEFINE leaf == LeafOf(c)
           mode == [leaf |-> leaf, score |-> c.upper]
           a == Accepted(c)
<1>1. leaf \in Candidates /\ leaf \in Leaves /\ c.upper \in Nat /\ c.upper = Score(leaf)
      /\ CentreDist(leaf) \in Int
  <2>1. leaf \in Window /\ c.upper \in Nat /\ c.upper = Score(leaf)
    BY CandAdmissible
  <2>2. leaf \in Candidates
    BY <2>1 DEF Candidates, LeafOf
  <2> QED BY <2>1, <2>2, CandidatesTyped
<1>2. mode \in Modes /\ mode.leaf = leaf /\ mode.score = c.upper
  BY <1>1 DEF Modes
<1>3. args.k \in Nat \ {0}
  BY SearchArguments
<1>4. \A l \in Candidates : Beats(kept, l) => /\ kept # <<>> /\ 1 \in DOMAIN kept
                                              /\ kept[1].score \in Nat /\ kept[1].leaf \in Leaves
                                              /\ kept[1].leaf \in Candidates
                                              /\ Score(l) <= kept[1].score
                                              /\ Score(l) \in Int
  <2> SUFFICES ASSUME NEW l \in Candidates, Beats(kept, l)
               PROVE  /\ kept # <<>> /\ 1 \in DOMAIN kept
                      /\ kept[1].score \in Nat /\ kept[1].leaf \in Leaves
                      /\ kept[1].leaf \in Candidates
                      /\ Score(l) <= kept[1].score
                      /\ Score(l) \in Int
    OBVIOUS
  <2>1. kept # <<>>
    BY DEF Beats
  <2>2. 1 \in DOMAIN kept /\ 1 \in 1..Len(kept)
    BY <2>1, EarnedTyped
  <2>3. kept[1].score \in Nat /\ kept[1].leaf \in Leaves
    BY <2>2, EarnedTyped
  <2>4. kept[1].leaf \in Candidates
    BY <2>2 DEF Earned
  <2>5. Score(l) \in Int
    BY ScoreTyped, CandidatesTyped
  <2>6. Score(l) <= kept[1].score
    BY <2>3, <2>5 DEF Beats
  <2> QED BY <2>1, <2>2, <2>3, <2>4, <2>5, <2>6
<1> HIDE DEF leaf, mode
<1>5. CASE args.k = 1
  <2>1. a = <<mode>>
    BY <1>5 DEF Accepted, mode, leaf
  <2>2. a \in Seq(Modes) /\ Len(a) = 1 /\ DOMAIN a = {1} /\ a[1] = mode /\ a # <<>>
    BY <1>2, <2>1
  <2> HIDE DEF a
  <2>3. Ranked(a)
    BY <2>2 DEF Ranked
  <2>4. Earned(a)
    BY <1>1, <1>2, <1>5, <2>2, <2>3 DEF Earned
  <2>5. Beats(a, leaf)
    <3>1. Score(leaf) = a[1].score /\ CentreDist(a[1].leaf) <= CentreDist(leaf)
      BY <1>1, <1>2, <2>2
    <3> QED BY <2>2, <3>1 DEF Beats
  <2>6. ASSUME NEW l \in Candidates, Beats(kept, l) PROVE Beats(a, l)
    <3>1. /\ kept # <<>> /\ kept[1].score \in Nat /\ kept[1].leaf \in Candidates
          /\ Score(l) <= kept[1].score /\ Score(l) \in Int
      BY <1>4, <2>6
    <3>2. Threshold = kept[1].score
      <4>1. Len(kept) \in Nat /\ Len(kept) # 0
        BY <3>1, EarnedTyped
      <4>2. ~(Len(kept) < args.k)
        BY <1>5, <4>1
      <4> QED BY <1>5, <4>2, ThresholdIs
    <3>3. /\ CentreDist(kept[1].leaf) \in Int /\ CentreDist(l) \in Int
      BY <3>1, CandidatesTyped
    <3>4. CASE c.upper > kept[1].score
      <4>1. Score(l) < a[1].score
        BY <1>1, <1>2, <2>2, <3>1, <3>4
      <4> QED BY <2>2, <4>1 DEF Beats
    <3>5. CASE ~(c.upper > kept[1].score)
      <4>1. c.upper = kept[1].score /\ CentreDist(leaf) < CentreDist(kept[1].leaf)
        BY <3>2, <3>5 DEF Improves, leaf
      <4>2. a[1].score = kept[1].score /\ a[1].leaf = leaf
        BY <1>2, <2>2, <4>1
      <4>3. TieBreak /\ Score(l) = kept[1].score => CentreDist(a[1].leaf) <= CentreDist(l)
        <5>1. TieBreak /\ Score(l) = kept[1].score => CentreDist(kept[1].leaf) <= CentreDist(l)
          BY <2>6, <3>1 DEF Beats
        <5> QED BY <1>1, <3>3, <4>1, <4>2, <5>1
      <4>4. CASE Score(l) < kept[1].score
        BY <2>2, <4>2, <4>4 DEF Beats
      <4>5. CASE Score(l) = kept[1].score
        BY <2>2, <4>2, <4>3, <4>5 DEF Beats
      <4> QED BY <3>1, <4>4, <4>5
    <3> QED BY <3>4, <3>5
  <2> QED BY <2>4, <2>5, <2>6 DEF a, leaf
<1>6. CASE args.k # 1
  <2>1. ~TieBreak
    BY <1>6 DEF TieBreak
  <2>2. CASE \E i \in DOMAIN kept : Near(kept[i].leaf, leaf) /\ kept[i].score >= c.upper
    <3>1. a = kept
      BY <1>2, <1>6, <2>2 DEF Accepted, mode, leaf
    <3>2. PICK i \in DOMAIN kept : kept[i].score >= c.upper
      BY <2>2
    <3>3. /\ kept # <<>> /\ i \in 1..Len(kept) /\ 1 \in 1..Len(kept)
      BY <3>2, EarnedTyped
    <3>4. kept[i].score <= kept[1].score /\ kept[i].score \in Nat /\ kept[1].score \in Nat
      BY <3>3, EarnedTyped
    <3>5. Score(leaf) < kept[1].score \/ Score(leaf) = kept[1].score
      BY <1>1, <3>2, <3>4
    <3>6. Beats(kept, leaf)
      BY <2>1, <3>3, <3>5 DEF Beats
    <3> HIDE DEF a
    <3>7. Earned(a) /\ Beats(a, leaf) /\ \A l \in Candidates : Beats(kept, l) => Beats(a, l)
      BY <3>1, <3>6
    <3> QED BY <3>7 DEF a, leaf
  <2>3. CASE ~ \E i \in DOMAIN kept : Near(kept[i].leaf, leaf) /\ kept[i].score >= c.upper
    <3> DEFINE o == Others(leaf)
    <3>1. a = Joined(o, mode)
      BY <1>2, <1>6, <2>3 DEF Accepted, mode, leaf
    <3>2. Thinned(o, Len(kept), leaf)
      BY OthersThinned DEF Earned
    <3> HIDE DEF o
    <3>3. /\ Ranked(o)
          /\ \A j \in DOMAIN o : \E h \in 1..Len(kept) : o[j] = kept[h] /\ ~Near(kept[h].leaf, leaf)
          /\ \A h \in 1..Len(kept) : ~Near(kept[h].leaf, leaf) => \E j \in DOMAIN o : o[j] = kept[h]
      BY <3>2 DEF Thinned
    <3>4. \A j \in DOMAIN o : ~Near(o[j].leaf, mode.leaf)
      BY <1>2, <3>3
    <3>5. /\ Ranked(a) /\ Len(a) <= args.k
          /\ \A i \in DOMAIN a : a[i] = mode \/ \E j \in DOMAIN o : a[i] = o[j]
          /\ Tops(a, mode.score)
          /\ \A j \in DOMAIN o : Tops(a, o[j].score)
      <4> HIDE DEF a
      <4> QED BY <1>2, <1>3, <3>1, <3>3, <3>4, JoinedRanked
    <3> HIDE DEF a
    <3>6. Earned(a)
      <4>1. ASSUME NEW i \in DOMAIN a PROVE a[i].leaf \in Candidates /\ a[i].score = Score(a[i].leaf)
        <5>1. CASE a[i] = mode
          BY <1>1, <1>2, <5>1
        <5>2. CASE \E j \in DOMAIN o : a[i] = o[j]
          <6>1. PICK h \in 1..Len(kept) : a[i] = kept[h]
            BY <3>3, <5>2
          <6>2. h \in DOMAIN kept
            BY EarnedTyped
          <6> QED BY <6>1, <6>2 DEF Earned
        <5> QED BY <3>5, <5>1, <5>2
      <4> QED BY <3>5, <4>1 DEF Earned
    <3>7. a # <<>> /\ a[1].score \in Nat /\ a[1].score >= c.upper
      <4>1. a # <<>> /\ a[1].score >= c.upper
        BY <1>2, <3>5 DEF Tops
      <4>2. 1 \in 1..Len(a)
        BY <3>6, <4>1, EarnedTyped
      <4> QED BY <3>6, <4>1, <4>2, EarnedTyped
    <3>8. Beats(a, leaf)
      <4>1. Score(leaf) < a[1].score \/ Score(leaf) = a[1].score
        BY <1>1, <3>7
      <4> QED BY <2>1, <3>7, <4>1 DEF Beats
    <3>9. ASSUME NEW l \in Candidates, Beats(kept, l) PROVE Beats(a, l)
      <4>1. /\ 1 \in DOMAIN kept /\ kept[1].score \in Nat
            /\ Score(l) <= kept[1].score /\ Score(l) \in Int
        BY <1>4, <3>9
      <4>2. a[1].score >= kept[1].score
        <5>1. CASE Near(kept[1].leaf, leaf)
          BY <1>1, <2>3, <3>7, <4>1, <5>1
        <5>2. CASE ~Near(kept[1].leaf, leaf)
          <6>1. 1 \in 1..Len(kept)
            BY <4>1, EarnedTyped
          <6>2. PICK j \in DOMAIN o : o[j] = kept[1]
            BY <3>3, <5>2, <6>1
          <6> QED BY <3>5, <6>2 DEF Tops
        <5> QED BY <5>1, <5>2
      <4>3. Score(l) < a[1].score \/ Score(l) = a[1].score
        BY <3>7, <4>1, <4>2
      <4> QED BY <2>1, <3>7, <4>3 DEF Beats
    <3> QED BY <3>6, <3>8, <3>9 DEF a, leaf
  <2> QED BY <2>2, <2>3
<1> QED BY <1>5, <1>6

LEMMA InitInv == Init => IInv
<1> SUFFICES ASSUME Init PROVE IInv
  OBVIOUS
<1>1. Given
  <2>1. PICK g \in Grids : pyramid = PyramidOf(g)
    BY DEF Init
  <2>2. g \in Level
    BY BbsParams DEF Level
  <2> QED BY <2>1, <2>2, PyramidBounding DEF Given, Init
<1>2. open = <<Roots>> /\ kept = <<>>
  BY DEF Init
<1>3. open \in Seq(SUBSET Cands) /\ 1 \in DOMAIN open /\ open[1] = Roots
  BY <1>1, <1>2, RootsCover
<1>4. Earned(kept)
  <2>1. kept \in Seq(Modes) /\ DOMAIN kept = {} /\ Len(kept) = 0
    BY <1>2
  <2>2. Ranked(kept)
    BY <2>1 DEF Ranked
  <2> QED BY <1>1, <2>1, <2>2, SearchArguments DEF Earned
<1>5. ASSUME NEW l \in Candidates PROVE Pending(open, l)
  <2>1. PICK c \in Roots : Below(l, c)
    BY <1>1, RootsCover, CandidatesTyped
  <2> QED BY <1>3, <2>1 DEF Pending
<1> QED BY <1>1, <1>3, <1>4, <1>5 DEF IInv

LEMMA ReturnInv == IInv /\ Return => IInv'
<1> SUFFICES ASSUME IInv, Return PROVE IInv'
  OBVIOUS
<1>1. /\ Given /\ open \in Seq(SUBSET Cands) /\ Earned(kept) /\ open # <<>>
      /\ \A l \in Candidates : Pending(open, l) \/ Beats(kept, l)
      /\ \A c \in Best(open[1]) : Hopeless(c)
      /\ open' = Tail(open) /\ kept' = kept
      /\ UNCHANGED <<pyramid, blocked, ep, args>>
  BY DEF IInv, Return
<1>2. /\ Given' /\ Cands' = Cands /\ Candidates' = Candidates
      /\ Earned(kept)' /\ \A l : Beats(kept, l)' <=> Beats(kept, l)
  BY <1>1, ArgumentsKept
<1>3. /\ Tail(open) \in Seq(SUBSET Cands)
      /\ \A i \in DOMAIN open : i # 1 => i - 1 \in DOMAIN Tail(open) /\ Tail(open)[i - 1] = open[i]
  BY <1>1
<1>4. open[1] \in SUBSET Cands /\ \A i \in DOMAIN open : open[i] \in SUBSET Cands
  BY <1>1
<1>5. ASSUME NEW l \in Candidates, Pending(open, l)
      PROVE  Pending(Tail(open), l) \/ Beats(kept, l)
  <2>1. PICK i \in DOMAIN open : \E d \in open[i] : Below(l, d)
    BY <1>5 DEF Pending
  <2>2. PICK d \in open[i] : Below(l, d)
    BY <2>1
  <2>3. CASE i = 1
    <3>1. d \in open[1] /\ d \in Cands
      BY <1>4, <2>2, <2>3
    <3>2. PICK c \in Best(open[1]) : Hopeless(c)
      BY <1>1, <1>4, <3>1, BestExists
    <3>3. c \in Cands /\ d.upper <= c.upper
      BY <1>4, <3>1, <3>2 DEF Best
    <3>4. l \in Window
      BY <1>1, CandidatesTyped
    <3> QED BY <1>1, <2>2, <3>1, <3>2, <3>3, <3>4, HopelessBeats
  <2>4. CASE i # 1
    BY <1>3, <2>2, <2>4 DEF Pending
  <2> QED BY <2>3, <2>4
<1> QED BY <1>1, <1>2, <1>3, <1>5 DEF IInv, Pending

LEMMA LeafInv == IInv /\ Leaf => IInv'
<1> SUFFICES ASSUME IInv, Leaf PROVE IInv'
  OBVIOUS
<1>1. /\ Given /\ open \in Seq(SUBSET Cands) /\ Earned(kept) /\ open # <<>>
      /\ \A l \in Candidates : Pending(open, l) \/ Beats(kept, l)
      /\ UNCHANGED <<pyramid, blocked, ep, args>>
  BY DEF IInv, Leaf
<1>2. PICK c \in Best(open[1]) :
        /\ ~Hopeless(c) /\ c.depth = 0
        /\ open' = <<open[1] \ {c}>> \o Tail(open)
        /\ kept' = IF Feasible(c.x, c.y) /\ Improves(c) THEN Accepted(c) ELSE kept
  BY DEF Leaf
<1>3. open[1] \in SUBSET Cands /\ c \in open[1] /\ c \in Cands
  BY <1>1 DEF Best
<1> DEFINE r == <<open[1] \ {c}>>
<1>4. r \in Seq(SUBSET Cands) /\ 1 \in 1..Len(r) /\ r[1] = open[1] \ {c}
  BY <1>3
<1> HIDE DEF r
<1>5. /\ r \o Tail(open) \in Seq(SUBSET Cands)
      /\ 1 \in DOMAIN (r \o Tail(open)) /\ (r \o Tail(open))[1] = open[1] \ {c}
      /\ \A i \in DOMAIN open : i # 1 =>
           \E j \in DOMAIN (r \o Tail(open)) : (r \o Tail(open))[j] = open[i]
  <2> DEFINE Frames == SUBSET Cands
             n == r \o Tail(open)
  <2>1. open \in Seq(Frames) /\ open # <<>> /\ r \in Seq(Frames)
    BY <1>1, <1>4
  <2> HIDE DEF Frames
  <2>2. n \in Seq(Frames) /\ Replaced(n, open, r)
    BY <2>1, InnermostReplaced
  <2> HIDE DEF n
  <2>3. n \in Seq(SUBSET Cands)
    BY <2>2 DEF Frames
  <2>4. 1 \in DOMAIN n /\ n[1] = open[1] \ {c}
    BY <1>4, <2>2 DEF Replaced
  <2> QED BY <2>2, <2>3, <2>4 DEF n, Replaced
<1>6. open' = r \o Tail(open)
  BY <1>2 DEF r
<1>7. /\ Given' /\ Cands' = Cands /\ Candidates' = Candidates
      /\ \A s : Earned(s)' <=> Earned(s)
      /\ \A s, l : Beats(s, l)' <=> Beats(s, l)
  BY <1>1, ArgumentsKept
<1>8. ASSUME NEW l \in Candidates, Pending(open, l)
      PROVE  Pending(open', l) \/ l = LeafOf(c)
  <2>1. PICK i \in DOMAIN open : \E d \in open[i] : Below(l, d)
    BY <1>8 DEF Pending
  <2>2. PICK d \in open[i] : Below(l, d)
    BY <2>1
  <2>3. CASE i # 1
    BY <1>5, <1>6, <2>2, <2>3 DEF Pending
  <2>4. CASE i = 1 /\ d # c
    BY <1>5, <1>6, <2>2, <2>4 DEF Pending
  <2>5. CASE d = c
    <3>1. l \in Window
      BY <1>1, CandidatesTyped
    <3> QED BY <1>1, <1>2, <1>3, <2>2, <2>5, <3>1, CandAdmissible
  <2> QED BY <2>3, <2>4, <2>5
<1>9. /\ Earned(kept') /\ \A l \in Candidates : Beats(kept, l) => Beats(kept', l)
      /\ LeafOf(c) \in Candidates => Beats(kept', LeafOf(c))
  <2>1. CASE Feasible(c.x, c.y) /\ Improves(c)
    <3>1. kept' = Accepted(c)
      BY <1>2, <2>1
    <3> QED BY <1>1, <1>2, <1>3, <2>1, <3>1, AcceptedEarned
  <2>2. CASE ~Feasible(c.x, c.y)
    <3>1. LeafOf(c) \notin Candidates
      BY <2>2 DEF Candidates, LeafOf
    <3> QED BY <1>1, <1>2, <2>2, <3>1
  <2>3. CASE ~Improves(c)
    <3>1. kept' = kept
      BY <1>2, <2>3
    <3>2. c.upper \in Nat /\ LeafOf(c) \in Window /\ Score(LeafOf(c)) = c.upper
      BY <1>1, <1>2, <1>3, CandAdmissible
    <3>3. Threshold = -1 \/ Threshold \in Nat
      BY <1>1, ThresholdIs
    <3>4. c.upper = Threshold /\ TieBreak
      BY <1>2, <2>3, <3>2, <3>3 DEF Hopeless, Improves
    <3>5. kept # <<>> /\ args.k = 1 /\ Threshold = kept[1].score
      BY <1>1, <3>2, <3>4, ThresholdIs DEF TieBreak
    <3>6. ~(CentreDist(LeafOf(c)) < CentreDist(kept[1].leaf))
      BY <2>3, <3>4, <3>5 DEF Improves
    <3>7. LeafOf(c) \in Candidates => CentreDist(kept[1].leaf) <= CentreDist(LeafOf(c))
      <4>1. 1 \in DOMAIN kept
        BY <1>1, <3>5, EarnedTyped
      <4>2. kept[1].leaf \in Candidates
        BY <1>1, <4>1 DEF Earned
      <4>3. CentreDist(kept[1].leaf) \in Int
        BY <1>1, <4>2, CandidatesTyped
      <4>4. LeafOf(c) \in Candidates => CentreDist(LeafOf(c)) \in Int
        BY <1>1, CandidatesTyped
      <4> QED BY <3>6, <4>3, <4>4
    <3>8. LeafOf(c) \in Candidates => Beats(kept, LeafOf(c))
      BY <3>2, <3>4, <3>5, <3>7 DEF Beats
    <3> QED BY <1>1, <3>1, <3>8
  <2> QED BY <2>1, <2>2, <2>3
<1>10. \A l \in Candidates : Pending(open', l) \/ Beats(kept', l)
  BY <1>1, <1>8, <1>9
<1>11. Earned(kept)' /\ \A l : Beats(kept, l)' <=> Beats(kept', l)
  BY <1>7, <1>9
<1> QED BY <1>5, <1>6, <1>7, <1>10, <1>11 DEF IInv, Pending

LEMMA DescendInv == IInv /\ Descend => IInv'
<1> SUFFICES ASSUME IInv, Descend PROVE IInv'
  OBVIOUS
<1>1. /\ Given /\ open \in Seq(SUBSET Cands) /\ Earned(kept) /\ open # <<>>
      /\ \A l \in Candidates : Pending(open, l) \/ Beats(kept, l)
      /\ UNCHANGED <<pyramid, blocked, ep, args>> /\ kept' = kept
  BY DEF IInv, Descend
<1>2. PICK c \in Best(open[1]) :
        /\ ~Hopeless(c) /\ c.depth > 0
        /\ open' = <<Children(c), open[1] \ {c}>> \o Tail(open)
  BY DEF Descend
<1>3. open[1] \in SUBSET Cands /\ c \in open[1] /\ c \in Cands
  BY <1>1 DEF Best
<1>4. /\ Children(c) \subseteq Cands
      /\ \A l \in Window : Below(l, c) => \E d \in Children(c) : Below(l, d)
  BY <1>1, <1>2, <1>3, ChildrenCover
<1> DEFINE r == <<Children(c), open[1] \ {c}>>
<1>5. /\ r \in Seq(SUBSET Cands) /\ 1 \in 1..Len(r) /\ r[1] = Children(c)
      /\ 2 \in 1..Len(r) /\ r[2] = open[1] \ {c}
  BY <1>3, <1>4
<1> HIDE DEF r
<1>6. /\ r \o Tail(open) \in Seq(SUBSET Cands)
      /\ 1 \in DOMAIN (r \o Tail(open)) /\ (r \o Tail(open))[1] = Children(c)
      /\ 2 \in DOMAIN (r \o Tail(open)) /\ (r \o Tail(open))[2] = open[1] \ {c}
      /\ \A i \in DOMAIN open : i # 1 =>
           \E j \in DOMAIN (r \o Tail(open)) : (r \o Tail(open))[j] = open[i]
  <2> DEFINE Frames == SUBSET Cands
             n == r \o Tail(open)
  <2>1. open \in Seq(Frames) /\ open # <<>> /\ r \in Seq(Frames)
    BY <1>1, <1>5
  <2> HIDE DEF Frames
  <2>2. n \in Seq(Frames) /\ Replaced(n, open, r)
    BY <2>1, InnermostReplaced
  <2> HIDE DEF n
  <2>3. n \in Seq(SUBSET Cands)
    BY <2>2 DEF Frames
  <2>4. 1 \in DOMAIN n /\ n[1] = Children(c) /\ 2 \in DOMAIN n /\ n[2] = open[1] \ {c}
    BY <1>5, <2>2 DEF Replaced
  <2> QED BY <2>2, <2>3, <2>4 DEF n, Replaced
<1>7. open' = r \o Tail(open)
  BY <1>2 DEF r
<1>8. /\ Given' /\ Cands' = Cands /\ Candidates' = Candidates
      /\ Earned(kept)' /\ \A l : Beats(kept, l)' <=> Beats(kept, l)
  BY <1>1, ArgumentsKept
<1>9. ASSUME NEW l \in Candidates, Pending(open, l) PROVE Pending(open', l)
  <2>1. PICK i \in DOMAIN open : \E d \in open[i] : Below(l, d)
    BY <1>9 DEF Pending
  <2>2. PICK d \in open[i] : Below(l, d)
    BY <2>1
  <2>3. CASE i # 1
    BY <1>6, <1>7, <2>2, <2>3 DEF Pending
  <2>4. CASE i = 1 /\ d # c
    BY <1>6, <1>7, <2>2, <2>4 DEF Pending
  <2>5. CASE d = c
    <3>1. PICK e \in Children(c) : Below(l, e)
      BY <1>1, <1>4, <2>2, <2>5, CandidatesTyped
    <3> QED BY <1>6, <1>7, <3>1 DEF Pending
  <2> QED BY <2>3, <2>4, <2>5
<1> QED BY <1>1, <1>6, <1>7, <1>8, <1>9 DEF IInv, Pending

LEMMA Invariance == Spec => []IInv
<1>1. IInv /\ UNCHANGED vars => IInv'
  <2> SUFFICES ASSUME IInv, UNCHANGED vars PROVE IInv'
    OBVIOUS
  <2>1. UNCHANGED <<pyramid, blocked, ep, args>> /\ open' = open /\ kept' = kept
    BY DEF vars
  <2>2. /\ Given' <=> Given
        /\ Cands' = Cands /\ Candidates' = Candidates
        /\ Earned(kept)' <=> Earned(kept)
        /\ \A l : Beats(kept, l)' <=> Beats(kept, l)
    BY <2>1, ArgumentsKept
  <2>3. \A l \in Candidates : Pending(open', l) \/ Beats(kept', l)
    BY <2>1 DEF IInv
  <2>4. open' \in Seq(SUBSET Cands)
    BY <2>1 DEF IInv
  <2>5. Earned(kept)' /\ Given'
    BY Zenon, <2>2 DEF IInv
  <2>6. kept' = kept
    BY <2>1
  <2>7. \A l : Beats(kept, l)' <=> Beats(kept', l)
    BY Zenon, <2>2, <2>6
  <2>8. Candidates' = Candidates
    BY <2>1, ArgumentsKept
  <2> QED BY <2>2, <2>3, <2>4, <2>5, <2>7, <2>8 DEF IInv, Pending
<1>2. IInv /\ [Next]_vars => IInv'
  BY <1>1, ReturnInv, LeafInv, DescendInv DEF Next
<1> QED BY <1>2, InitInv, PTL DEF Spec

\* No search loses the best pose (scoreLevel(), the prune in branch()).
THEOREM AlwaysBestFound == Spec => []BestFound
<1>1. IInv => BestFound
  <2> SUFFICES ASSUME IInv, NEW l \in Candidates
               PROVE  \/ \E i \in DOMAIN open : \E c \in open[i] : Below(l, c)
                      \/ kept # <<>> /\ Score(l) <= kept[1].score
    BY DEF BestFound
  <2>1. CASE Pending(open, l)
    BY <2>1 DEF Pending
  <2>2. CASE Beats(kept, l)
    <3>1. kept # <<>>
      BY <2>2 DEF Beats
    <3>2. 1 \in 1..Len(kept)
      BY <3>1, EarnedTyped DEF IInv
    <3>3. kept[1].score \in Nat /\ Score(l) \in Nat
      BY <3>2, EarnedTyped, CandidatesTyped, ScoreTyped DEF IInv
    <3> QED BY <2>2, <3>1, <3>3 DEF Beats
  <2> QED BY <2>1, <2>2 DEF IInv
<1> QED BY <1>1, Invariance, PTL

\* A search that prefers the centre returns, of the poses with the best score, one
\* that no other is nearer to it than (matchLocal(), tie_break).
THEOREM AlwaysNearestOfBest == Spec => []NearestOfBest
<1>1. IInv => NearestOfBest
  <2> SUFFICES ASSUME IInv, open = <<>>, TieBreak, kept # <<>>,
                      NEW l \in Candidates, Score(l) = kept[1].score
               PROVE  CentreDist(kept[1].leaf) <= CentreDist(l)
    BY DEF NearestOfBest
  <2>1. ~Pending(open, l)
    BY DEF Pending
  <2>2. Beats(kept, l)
    BY <2>1 DEF IInv
  <2>3. 1 \in 1..Len(kept)
    BY EarnedTyped DEF IInv
  <2>4. kept[1].score \in Nat
    BY <2>3, EarnedTyped DEF IInv
  <2> QED BY <2>2, <2>4 DEF Beats
<1> QED BY <1>1, Invariance, PTL

\* The modes kept are feasible poses with their exact scores, best first, at most
\* K, and no two of them neighbours (accept()).
THEOREM AlwaysModesApart == Spec => []ModesApart
<1>1. IInv => ModesApart
  BY DEF IInv, Earned, Ranked, ModesApart
<1> QED BY <1>1, Invariance, PTL
================================================================================
