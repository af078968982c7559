------------------------ MODULE RelocVerificationProofs ------------------------
(***************************************************************************)
(* The group of the planar poses, what the methods of the verifier do to   *)
(* its members, and with these the safety properties of one verification   *)
(* and the rule it implements, for every value of the constants.           *)
(***************************************************************************)
EXTENDS RelocVerification, FiniteSetTheorems, NaturalsInduction, WellFoundedInduction, TLAPS
-----------------------------------------------------------------------------
(* The planar poses form a group, and a correction of the robot's pose     *)
(* moves the map->odom transform so that it puts the robot there.          *)

\* Composing and inverting poses gives poses.
LEMMA PoseClosed ==
  ASSUME NEW a \in Pose, NEW b \in Pose
  PROVE  Origin \in Pose /\ compose(a, b) \in Pose /\ inverse(a) \in Pose /\ Between(a, b) \in Pose
BY DEF Pose, Heading, Origin, compose, inverse, Between

\* compose() is associative: an increment may be accumulated before it is
\* applied, as pending_delta_ does.
LEMMA ComposeAssociative ==
  ASSUME NEW a \in Pose, NEW b \in Pose, NEW c \in Pose
  PROVE  compose(compose(a, b), c) = compose(a, compose(b, c))
BY DEF Pose, Heading, compose

LEMMA ComposeIdentity ==
  ASSUME NEW a \in Pose
  PROVE  compose(a, Origin) = a /\ compose(Origin, a) = a
BY DEF Pose, Heading, compose, Origin

LEMMA ComposeInverse ==
  ASSUME NEW a \in Pose
  PROVE  compose(a, inverse(a)) = Origin /\ compose(inverse(a), a) = Origin
BY DEF Pose, Heading, compose, inverse, Origin

\* Moving from a by the motion between a and b leads to b.
LEMMA BetweenLeads ==
  ASSUME NEW a \in Pose, NEW b \in Pose
  PROVE  compose(a, Between(a, b)) = b
BY PoseClosed, ComposeAssociative, ComposeInverse, ComposeIdentity DEF Between

\* Dividing an odometry pose out of a product: the map->odom transform
\* compose(base, inverse(odom)) puts the robot at base.
LEMMA RightDivision ==
  ASSUME NEW a \in Pose, NEW b \in Pose
  PROVE  compose(compose(a, inverse(b)), b) = a
BY PoseClosed, ComposeAssociative, ComposeInverse, ComposeIdentity
-----------------------------------------------------------------------------
(* Finite sums: the recursion that defines MapThenSumSet has a solution,   *)
(* the order of the terms does not matter, and neither do their names.     *)

\* Every nonempty set of naturals has a least element.
Less == {ss \in Nat \X Nat : ss[1] < ss[2]}

LEMMA LeastNatural ==
  ASSUME NEW T, T \subseteq Nat, T # {}
  PROVE  \E x \in T : \A y \in T : x <= y
<1>1. IsWellFoundedOn(Less, Nat)
  BY Zenon, NatLessThanWellFounded DEF OpToRel, Less
<1>2. PICK x \in T : \A y \in T : ~(<<y, x>> \in Less)
  BY <1>1, WFMin
<1>3. \A y, z \in Nat : <<y, z>> \in Less <=> y < z
  BY DEF Less
<1>4. ASSUME NEW y \in T PROVE x <= y
  <2>1. ~(y < x)
    BY <1>2, <1>3
  <2> QED BY <2>1
<1> QED BY <1>4

\* The term a sum takes off a set first.
First(s) == CHOOSE x \in s : TRUE

\* f gives the sum of w over every subset of S.
SumsUp(f, w, S) ==
  /\ f \in [SUBSET S -> Nat]
  /\ \A s \in SUBSET S : f[s] = IF s = {} THEN 0 ELSE w[First(s)] + f[s \ {First(s)}]

\* A nonempty set of subsets of a finite set has one of least size.
LEMMA LeastSubset ==
  ASSUME NEW S, IsFiniteSet(S), NEW T \in SUBSET (SUBSET S), T # {}
  PROVE  \E s \in T : \A r \in SUBSET S : Cardinality(r) < Cardinality(s) => r \notin T
<1> DEFINE Sizes == {Cardinality(s) : s \in T}
<1>1. Sizes \subseteq Nat /\ Sizes # {}
  BY FS_Subset, FS_CardinalityType
<1>2. PICK n \in Sizes : \A m \in Sizes : n <= m
  <2> HIDE DEF Sizes
  <2> QED BY <1>1, LeastNatural
<1>3. PICK s \in T : n = Cardinality(s)
  OBVIOUS
<1>4. ASSUME NEW r \in SUBSET S, Cardinality(r) < Cardinality(s) PROVE r \notin T
  <2> SUFFICES ASSUME r \in T PROVE FALSE
    OBVIOUS
  <2>1. Cardinality(r) \in Sizes
    OBVIOUS
  <2> HIDE DEF Sizes
  <2>2. n <= Cardinality(r) /\ n \in Nat /\ Cardinality(r) \in Nat
    BY <1>1, <1>2, <2>1
  <2> QED BY <1>3, <1>4, <2>2
<1> QED BY <1>4

\* Taking a member off a subset of a finite set.
LEMMA TakenOff ==
  ASSUME NEW S, IsFiniteSet(S), NEW s \in SUBSET S, NEW x \in s
  PROVE  /\ s \ {x} \in SUBSET S /\ IsFiniteSet(s)
         /\ Cardinality(s) \in Nat /\ Cardinality(s \ {x}) \in Nat
         /\ Cardinality(s \ {x}) = Cardinality(s) - 1
<1>1. IsFiniteSet(s)
  BY FS_Subset
<1>2. IsFiniteSet(s \ {x}) /\ Cardinality(s \ {x}) = Cardinality(s) - 1
  BY <1>1, FS_RemoveElement
<1> QED BY <1>1, <1>2, FS_CardinalityType

\* By the least n for which no f sums up the subsets of at most n members.
LEMMA SumExists ==
  ASSUME NEW S, IsFiniteSet(S), NEW w \in [S -> Nat]
  PROVE  \E f : SumsUp(f, w, S)
<1> DEFINE Term(f, s) == IF s = {} THEN 0 ELSE w[First(s)] + f[s \ {First(s)}]
           UpTo(f, n) == \A s \in SUBSET S : Cardinality(s) <= n => f[s] = Term(f, s)
           Bad == {n \in Nat : ~\E f \in [SUBSET S -> Nat] : UpTo(f, n)}
<1>1. \A s \in SUBSET S : s # {} => First(s) \in s /\ First(s) \in S
  BY DEF First
<1>2. \A s \in SUBSET S : /\ IsFiniteSet(s) /\ Cardinality(s) \in Nat
                          /\ Cardinality(s) = 0 <=> s = {}
  BY FS_Subset, FS_CardinalityType, FS_EmptySet
<1>3. Bad = {}
  <2> SUFFICES ASSUME Bad # {} PROVE FALSE
    OBVIOUS
  <2>1. PICK n \in Bad : \A m \in Bad : n <= m
    <3>1. Bad \subseteq Nat
      OBVIOUS
    <3> HIDE DEF Bad
    <3> QED BY <3>1, LeastNatural
  <2>2. n \in Nat /\ ~\E f \in [SUBSET S -> Nat] : UpTo(f, n)
    OBVIOUS
  <2>3. CASE n = 0
    <3> DEFINE f == [s \in SUBSET S |-> 0]
    <3>1. f \in [SUBSET S -> Nat]
      OBVIOUS
    <3>2. UpTo(f, 0)
      BY <1>2
    <3> HIDE DEF f, UpTo
    <3> QED BY <2>2, <2>3, <3>1, <3>2
  <2>4. CASE n # 0
    <3>1. n - 1 \in Nat /\ n - 1 \notin Bad
      <4>1. n - 1 \in Nat
        BY <2>2, <2>4
      <4>2. ASSUME n - 1 \in Bad PROVE FALSE
        <5> HIDE DEF Bad
        <5> QED BY <4>1, <4>2, <2>1, <2>2
      <4> QED BY <4>1, <4>2
    <3>2. PICK f \in [SUBSET S -> Nat] : UpTo(f, n - 1)
      <4> HIDE DEF UpTo
      <4> QED BY <3>1
    <3> DEFINE g == [s \in SUBSET S |-> IF Cardinality(s) < n THEN f[s]
                                        ELSE w[First(s)] + f[s \ {First(s)}]]
    <3>3. \A s \in SUBSET S : ~(Cardinality(s) < n) => s # {}
      BY <1>2, <2>2, <2>4
    <3>4. g \in [SUBSET S -> Nat]
      <4>1. ASSUME NEW s \in SUBSET S, ~(Cardinality(s) < n)
            PROVE  w[First(s)] + f[s \ {First(s)}] \in Nat
        BY <4>1, <1>1, <3>3
      <4> QED BY <4>1
    <3>5. ASSUME NEW s \in SUBSET S, Cardinality(s) <= n PROVE g[s] = Term(g, s)
      <4>1. CASE s = {}
        <5>1. Cardinality(s) < n /\ Cardinality(s) <= n - 1
          BY <4>1, <1>2, <2>2, <2>4
        <5>2. f[s] = 0
          BY <5>1, <4>1, <3>2
        <5> QED BY <4>1, <5>1, <5>2
      <4>2. CASE s # {}
        <5> DEFINE r == s \ {First(s)}
        <5>1. First(s) \in s
          BY <1>1, <4>2
        <5>2. r \in SUBSET S /\ Cardinality(r) \in Nat /\ Cardinality(r) = Cardinality(s) - 1
              /\ Cardinality(s) \in Nat
          BY <5>1, TakenOff
        <5>3. Cardinality(r) < n
          BY <5>2, <3>5, <2>2
        <5>4. g[r] = f[r]
          BY <5>2, <5>3
        <5>5. g[s] = w[First(s)] + f[r]
          <6>1. CASE Cardinality(s) < n
            <7>1. Cardinality(s) <= n - 1
              BY <6>1, <5>2, <2>2
            <7>2. f[s] = w[First(s)] + f[r]
              BY <7>1, <4>2, <3>2
            <7> QED BY <6>1, <7>2
          <6>2. CASE ~(Cardinality(s) < n)
            BY <6>2
          <6> QED BY <6>1, <6>2
        <5> QED BY <4>2, <5>4, <5>5
      <4> QED BY <4>1, <4>2
    <3>6. UpTo(g, n)
      <4> HIDE DEF g, Term
      <4> QED BY <3>5
    <3> HIDE DEF g, UpTo
    <3> QED BY <2>2, <3>4, <3>6
  <2> QED BY <2>3, <2>4
<1>4. Cardinality(S) \in Nat /\ \A s \in SUBSET S : Cardinality(s) <= Cardinality(S)
  BY FS_Subset, FS_CardinalityType
<1>5. PICK f \in [SUBSET S -> Nat] : UpTo(f, Cardinality(S))
  <2> HIDE DEF UpTo
  <2> QED BY <1>3, <1>4
<1>6. \A s \in SUBSET S : f[s] = Term(f, s)
  <2> HIDE DEF Term
  <2> QED BY <1>4, <1>5
<1> QED BY <1>6 DEF SumsUp

\* Whatever solves the recursion sums up.  By the least subset with another value.
LEMMA SolutionSumsUp ==
  ASSUME NEW S, IsFiniteSet(S), NEW w \in [S -> Nat], NEW f,
         f = [s \in SUBSET S |-> f[s]],
         \A s \in SUBSET S : f[s] = IF s = {} THEN 0 ELSE w[First(s)] + f[s \ {First(s)}]
  PROVE  SumsUp(f, w, S)
<1> DEFINE Bad == {r \in SUBSET S : f[r] \notin Nat}
<1>1. Bad = {}
  <2> SUFFICES ASSUME Bad # {} PROVE FALSE
    OBVIOUS
  <2>1. PICK r \in Bad : \A q \in SUBSET S : Cardinality(q) < Cardinality(r) => q \notin Bad
    <3>1. Bad \in SUBSET (SUBSET S)
      OBVIOUS
    <3> HIDE DEF Bad
    <3> QED BY <3>1, LeastSubset
  <2>2. r \in SUBSET S /\ f[r] \notin Nat /\ r # {}
    <3>1. r \in SUBSET S /\ f[r] \notin Nat
      OBVIOUS
    <3>2. {} \in SUBSET S /\ f[{}] = 0
      OBVIOUS
    <3> HIDE DEF Bad
    <3>3. ASSUME r = {} PROVE f[r] = 0
      BY <3>2, <3>3
    <3>4. 0 \in Nat
      OBVIOUS
    <3> QED BY <3>1, <3>3, <3>4
  <2>3. First(r) \in r
    BY <2>2 DEF First
  <2>4. f[r] = w[First(r)] + f[r \ {First(r)}]
    BY <2>2
  <2>5. r \ {First(r)} \in SUBSET S /\ Cardinality(r \ {First(r)}) < Cardinality(r)
    BY <2>2, <2>3, TakenOff
  <2>6. f[r \ {First(r)}] \in Nat
    <3>1. r \ {First(r)} \notin Bad
      <4> HIDE DEF Bad
      <4> QED BY <2>1, <2>5
    <3> QED BY <3>1, <2>5
  <2>7. w[First(r)] \in Nat
    BY <2>2, <2>3
  <2> QED BY <2>2, <2>4, <2>6, <2>7
<1>2. f \in [SUBSET S -> Nat]
  <2>1. \A s \in SUBSET S : f[s] \in Nat
    BY <1>1
  <2> HIDE DEF Bad
  <2> QED BY <2>1
<1> QED BY <1>2 DEF SumsUp

\* Any member can be taken off first.  By the least subset with a member that
\* cannot.
LEMMA SumWithout ==
  ASSUME NEW S, IsFiniteSet(S), NEW w \in [S -> Nat], NEW f, SumsUp(f, w, S),
         NEW s \in SUBSET S, NEW k \in s
  PROVE  f[s] = w[k] + f[s \ {k}]
<1> DEFINE Bad == {r \in SUBSET S : \E j \in r : f[r] # w[j] + f[r \ {j}]}
<1>1. Bad = {}
  <2> SUFFICES ASSUME Bad # {} PROVE FALSE
    OBVIOUS
  <2>1. PICK r \in Bad : \A q \in SUBSET S : Cardinality(q) < Cardinality(r) => q \notin Bad
    <3>1. Bad \in SUBSET (SUBSET S)
      OBVIOUS
    <3> HIDE DEF Bad
    <3> QED BY <3>1, LeastSubset
  <2>2. PICK j \in r : f[r] # w[j] + f[r \ {j}]
    OBVIOUS
  <2>3. r \in SUBSET S
    OBVIOUS
  <2> DEFINE x == First(r)
  <2>4. x \in r /\ r # {}
    BY <2>2 DEF First
  <2>5. f[r] = w[x] + f[r \ {x}]
    BY <2>3, <2>4 DEF SumsUp
  <2> HIDE DEF x
  <2>6. x # j
    BY <2>2, <2>5
  <2>7. Cardinality(r \ {x}) < Cardinality(r) /\ Cardinality(r \ {j}) < Cardinality(r)
        /\ r \ {x} \in SUBSET S /\ r \ {j} \in SUBSET S
    BY <2>2, <2>3, <2>4, TakenOff
  <2>8. r \ {x} \notin Bad /\ r \ {j} \notin Bad
    <3> HIDE DEF Bad
    <3> QED BY <2>1, <2>7
  <2>9. f[r \ {x}] = w[j] + f[(r \ {x}) \ {j}]
    BY <2>2, <2>6, <2>7, <2>8
  <2>10. f[r \ {j}] = w[x] + f[(r \ {j}) \ {x}]
    BY <2>4, <2>6, <2>7, <2>8
  <2> DEFINE q == (r \ {j}) \ {x}
  <2>11. (r \ {x}) \ {j} = q /\ q \in SUBSET S /\ x \in S /\ j \in S
    BY <2>3, <2>4
  <2> HIDE DEF Bad, q
  <2>12. /\ w[x] \in Nat /\ w[j] \in Nat /\ f[q] \in Nat
    BY <2>11 DEF SumsUp
  <2>13. f[r \ {j}] = w[x] + f[q]
    BY <2>10 DEF q
  <2>14. f[r] = w[x] + (w[j] + f[q])
    BY <2>5, <2>9, <2>11
  <2>15. f[r] # w[j] + (w[x] + f[q])
    BY <2>2, <2>13
  <2> QED BY <2>12, <2>14, <2>15
<1> QED BY <1>1
\* p renames the terms w over S to the terms v over R.
Renames(p, w, S, v, R) ==
  /\ p \in [S -> R]
  /\ \A x, y \in S : p[x] = p[y] => x = y
  /\ \A r \in R : \E x \in S : p[x] = r
  /\ \A x \in S : w[x] = v[p[x]]

\* The sums of f over S and of g over R are the same.
SameSum(f, S, g, R) == f[S] = g[R]

\* A sum only depends on the terms, not on what indexes them.  By the least part
\* of S whose image has another sum.
LEMMA SumRenamed ==
  ASSUME NEW S, IsFiniteSet(S), NEW w \in [S -> Nat], NEW f, SumsUp(f, w, S),
         NEW R, IsFiniteSet(R), NEW v \in [R -> Nat], NEW g, SumsUp(g, v, R),
         NEW p, Renames(p, w, S, v, R)
  PROVE  SameSum(f, S, g, R)
<1> DEFINE Image(s) == {p[x] : x \in s}
           Bad == {s \in SUBSET S : f[s] # g[Image(s)]}
<1> USE DEF Renames
<1>1. Bad = {}
  <2> SUFFICES ASSUME Bad # {} PROVE FALSE
    OBVIOUS
  <2>1. PICK s \in Bad : \A q \in SUBSET S : Cardinality(q) < Cardinality(s) => q \notin Bad
    <3>1. Bad \in SUBSET (SUBSET S)
      OBVIOUS
    <3> HIDE DEF Bad
    <3> QED BY <3>1, LeastSubset
  <2>2. s \in SUBSET S /\ f[s] # g[Image(s)]
    OBVIOUS
  <2>3. CASE s = {}
    <3>1. Image(s) = {}
      BY <2>3
    <3>2. f[{}] = 0 /\ g[{}] = 0
      BY DEF SumsUp
    <3> HIDE DEF Bad, Image
    <3> QED BY <2>2, <2>3, <3>1, <3>2
  <2>4. CASE s # {}
    <3>1. PICK k \in s : TRUE
      BY <2>4
    <3> DEFINE q == s \ {k}
    <3>2. q \in SUBSET S /\ Cardinality(q) < Cardinality(s) /\ k \in S
      BY <2>2, TakenOff
    <3>3. f[s] = w[k] + f[q]
      BY <2>2, SumWithout
    <3>4. Image(s) \in SUBSET R /\ p[k] \in Image(s)
      BY <2>2
    <3>5. Image(s) \ {p[k]} = Image(q)
      BY <2>2, <3>2
    <3>6. q \notin Bad
      <4> HIDE DEF Bad, q
      <4> QED BY <2>1, <3>2
    <3>7. f[q] = g[Image(q)]
      BY <3>2, <3>6
    <3> HIDE DEF Bad, Image, q
    <3>8. g[Image(s)] = v[p[k]] + g[Image(q)]
      BY <3>4, <3>5, SumWithout
    <3> QED BY <2>2, <3>2, <3>3, <3>7, <3>8
  <2> QED BY <2>3, <2>4
<1>2. Image(S) = R
  BY DEF Image
<1>3. f[S] = g[Image(S)]
  BY <1>1
<1> HIDE DEF Image
<1> QED BY <1>2, <1>3 DEF SameSum

\* The terms of b and j are part of the sum.
HasTerms(f, w, S, b, j) == \E rest \in Nat : f[S] = w[b] + (w[j] + rest)

\* Two members can be taken off.
LEMMA SumWithoutTwo ==
  ASSUME NEW S, IsFiniteSet(S), NEW w \in [S -> Nat], NEW f, SumsUp(f, w, S),
         NEW b \in S, NEW j \in S, b # j
  PROVE  HasTerms(f, w, S, b, j)
<1>1. f[S] = w[b] + f[S \ {b}]
  BY SumWithout
<1>2. S \ {b} \in SUBSET S /\ j \in S \ {b} /\ (S \ {b}) \ {j} \in SUBSET S
  OBVIOUS
<1>3. f[S \ {b}] = w[j] + f[(S \ {b}) \ {j}]
  BY <1>2, SumWithout
<1>4. f[(S \ {b}) \ {j}] \in Nat
  BY <1>2 DEF SumsUp
<1> QED BY <1>1, <1>3, <1>4 DEF HasTerms
-----------------------------------------------------------------------------
(* Which hypothesis is the most probable one.                              *)

\* Better(hyps, k, j): k is preferred to j.
Better(hyps, k, j) ==
  \/ hyps[j].fraction_sum < hyps[k].fraction_sum
  \/ hyps[j].fraction_sum = hyps[k].fraction_sum /\ k <= j

\* A nonempty set of hypotheses has a most probable one.  By the least n for
\* which a set of hypotheses among the first n has none.
LEMMA BestExists ==
  ASSUME NEW n \in Nat, NEW hyps \in [1..n -> Hypothesis],
         NEW S \in SUBSET (1..n), S # {}
  PROVE  \E k \in S : \A j \in S : Better(hyps, k, j)
<1> DEFINE Has(A) == \E k \in A : \A j \in A : Better(hyps, k, j)
           T == {m \in 0..n : \E A \in SUBSET (1..m) : A # {} /\ ~Has(A)}
<1>0. SUFFICES ASSUME ~Has(S) PROVE FALSE
  OBVIOUS
<1>10. n \in T
  <2> HIDE DEF Has
  <2> QED BY <1>0
<1>1. PICK m \in T : \A y \in T : m <= y
  <2>1. T \subseteq Nat
    OBVIOUS
  <2> HIDE DEF T
  <2> QED BY <2>1, <1>10, LeastNatural
<1>2. PICK A \in SUBSET (1..m) : A # {} /\ ~Has(A)
  OBVIOUS
<1>3. m \in Nat /\ m >= 1 /\ m <= n
  <2>1. m \in 0..n
    OBVIOUS
  <2>2. m # 0
    <3>1. 1..0 = {}
      OBVIOUS
    <3> QED BY <1>2, <3>1
  <2> HIDE DEF T
  <2> QED BY <2>1, <2>2
<1>4. \A B \in SUBSET (1..(m - 1)) : B # {} => Has(B)
  <2>1. m - 1 \notin T
    <3> HIDE DEF T
    <3> QED BY <1>1, <1>3
  <2>2. m - 1 \in 0..n
    BY <1>3
  <2> QED BY <2>1, <2>2
<1>5. m \in A
  <2> SUFFICES ASSUME m \notin A PROVE FALSE
    OBVIOUS
  <2>1. A \in SUBSET (1..(m - 1))
    BY <1>3
  <2> QED BY <2>1, <1>2, <1>4
<1> DEFINE B == A \ {m}
<1>6. B \in SUBSET (1..(m - 1))
  BY <1>3
<1>7. \A k \in A : hyps[k].fraction_sum \in Nat /\ k \in Nat
  BY <1>3 DEF Hypothesis
<1>8. CASE B = {}
  <2>1. \A j \in A : j = m
    BY <1>8
  <2>2. Has(A)
    BY <2>1, <1>5, <1>7 DEF Better
  <2> QED BY <2>2, <1>2
<1>9. CASE B # {}
  <2>1. PICK k \in B : \A j \in B : Better(hyps, k, j)
    BY <1>4, <1>6, <1>9
  <2>2. k \in A /\ k <= m
    BY <1>6, <1>3
  <2>3. CASE Better(hyps, k, m)
    <3>1. \A j \in A : Better(hyps, k, j)
      BY <2>1, <2>3
    <3> QED BY <3>1, <2>2, <1>2
  <2>4. CASE ~Better(hyps, k, m)
    <3>1. \A j \in A : Better(hyps, m, j)
      BY <2>1, <2>2, <2>4, <1>5, <1>7 DEF Better
    <3> QED BY <3>1, <1>5, <1>2
  <2> QED BY <2>3, <2>4
<1> QED BY <1>8, <1>9

LEMMA MostProbableIsBest ==
  ASSUME NEW n \in Nat, NEW hyps \in [1..n -> Hypothesis], Alive(hyps) # {}
  PROVE  /\ MostProbable(hyps) \in Alive(hyps)
         /\ \A j \in Alive(hyps) : Better(hyps, MostProbable(hyps), j)
<1>1. Alive(hyps) \in SUBSET (1..n)
  BY DEF Alive
<1>2. \E k \in Alive(hyps) : \A j \in Alive(hyps) : Better(hyps, k, j)
  BY <1>1, BestExists
<1> QED BY <1>2 DEF MostProbable, Better
-----------------------------------------------------------------------------
(* The posterior mass.                                                     *)

\* More evidence weighs at least as much: 2^n counts the subsets of 1..n.
LEMMA PowersGrow ==
  ASSUME NEW m \in Nat, NEW n \in Nat, m <= n
  PROVE  /\ 2 ^ m \in Nat \ {0} /\ 2 ^ n \in Nat
         /\ 2 ^ m <= 2 ^ n
<1>1. ASSUME NEW k \in Nat
      PROVE  /\ IsFiniteSet(SUBSET (1..k)) /\ Cardinality(SUBSET (1..k)) = 2 ^ k
             /\ 2 ^ k \in Nat
  <2>1. IsFiniteSet(1..k) /\ Cardinality(1..k) = k
    BY FS_Interval
  <2>2. IsFiniteSet(SUBSET (1..k)) /\ Cardinality(SUBSET (1..k)) = 2 ^ Cardinality(1..k)
    BY <2>1, FS_SUBSET
  <2>3. Cardinality(SUBSET (1..k)) \in Nat
    BY <2>2, FS_CardinalityType
  <2> QED BY <2>1, <2>2, <2>3
<1>2. SUBSET (1..m) \subseteq SUBSET (1..n)
  OBVIOUS
<1>3. Cardinality(SUBSET (1..m)) <= Cardinality(SUBSET (1..n))
  BY <1>1, <1>2, FS_Subset
<1>4. SUBSET (1..m) # {}
  OBVIOUS
<1>5. Cardinality(SUBSET (1..m)) # 0
  BY <1>1, <1>4, FS_EmptySet
<1> QED BY <1>1, <1>3, <1>5

LEMMA TimesGrows ==
  ASSUME NEW a \in Nat, NEW m \in Nat, NEW n \in Nat, m <= n
  PROVE  a * m <= a * n
<1>1. a * n = a * m + a * (n - m)
  OBVIOUS
<1>2. a * (n - m) >= 0
  OBVIOUS
<1>3. a * m \in Int /\ a * n \in Int /\ a * (n - m) \in Int
  OBVIOUS
<1> QED BY <1>1, <1>2, <1>3

\* A hypothesis with more than half of the mass has more evidence than any other.
LEMMA MassDominates ==
  ASSUME NEW n \in Nat, NEW hyps \in [1..n -> Hypothesis], NEW b \in Alive(hyps),
         MassReached(hyps, b), 2 * MassNum > MassDen,
         NEW j \in Alive(hyps) \ {b}
  PROVE  hyps[j].fraction_sum < hyps[b].fraction_sum
<1> USE VerifierParams
<1> DEFINE A == Alive(hyps)
           w == [k \in A |-> Weight(hyps[k])]
           iter[s \in SUBSET A] ==
             IF s = {} THEN 0
             ELSE LET x == CHOOSE x \in s : TRUE IN Weight(hyps[x]) + iter[s \ {x}]
<1>1. A \subseteq 1..n /\ IsFiniteSet(A)
  <2>1. A \subseteq 1..n
    BY DEF Alive
  <2>2. IsFiniteSet(1..n)
    BY FS_Interval
  <2> HIDE DEF A
  <2> QED BY <2>1, <2>2, FS_Subset
<1>2. \A k \in A : hyps[k].fraction_sum \in Nat /\ EvidenceGain * hyps[k].fraction_sum \in Nat
  BY <1>1 DEF Hypothesis
<1>3. \A k \in A : Weight(hyps[k]) \in Nat \ {0}
  <2>1. ASSUME NEW k \in A PROVE Weight(hyps[k]) \in Nat \ {0}
    <3> HIDE DEF A
    <3> QED BY <1>2, PowersGrow DEF Weight
  <2> QED BY <2>1
<1>4. w \in [A -> Nat]
  BY <1>3
<1>5. SumsUp(iter, w, A)
  <2> DEFINE Eq(f) == f = [s \in SUBSET A |->
                IF s = {} THEN 0
                ELSE LET x == CHOOSE x \in s : TRUE IN Weight(hyps[x]) + f[s \ {x}]]
  <2>1. PICK f : SumsUp(f, w, A)
    <3> HIDE DEF A, w
    <3> QED BY <1>1, <1>4, SumExists
  <2>2. \A s \in SUBSET A : s # {} => First(s) \in A /\ w[First(s)] = Weight(hyps[First(s)])
    <3> HIDE DEF A
    <3> QED BY DEF First
  <2>3. Eq(f)
    <3> HIDE DEF A, w
    <3> QED BY <2>1, <2>2 DEF SumsUp, First
  <2>4. Eq(iter)
    BY <2>3
  <2>5. /\ iter = [s \in SUBSET A |-> iter[s]]
        /\ \A s \in SUBSET A :
             iter[s] = IF s = {} THEN 0 ELSE Weight(hyps[First(s)]) + iter[s \ {First(s)}]
    <3> HIDE DEF iter, A
    <3> QED BY <2>4 DEF First
  <2> HIDE DEF iter, A, w
  <2> QED BY <1>1, <1>4, <2>2, <2>5, SolutionSumsUp
<1>6. MapThenSumSet(LAMBDA k : Weight(hyps[k]), A) = iter[A]
  BY DEF MapThenSumSet, MapThenFoldSet
<1>7. PICK rest \in Nat : iter[A] = Weight(hyps[b]) + (Weight(hyps[j]) + rest)
  <2>1. b \in A /\ j \in A /\ b # j
    OBVIOUS
  <2>2. w[b] = Weight(hyps[b]) /\ w[j] = Weight(hyps[j])
    OBVIOUS
  <2> HIDE DEF iter, w, A
  <2>3. HasTerms(iter, w, A, b, j)
    BY <1>1, <1>4, <1>5, <2>1, SumWithoutTwo
  <2> QED BY <2>2, <2>3 DEF HasTerms
<1> SUFFICES ASSUME ~(hyps[j].fraction_sum < hyps[b].fraction_sum) PROVE FALSE
  OBVIOUS
<1>8. Weight(hyps[b]) <= Weight(hyps[j])
  <2>1. hyps[b].fraction_sum <= hyps[j].fraction_sum
    BY <1>2
  <2>2. EvidenceGain * hyps[b].fraction_sum <= EvidenceGain * hyps[j].fraction_sum
    BY <1>2, <2>1, TimesGrows
  <2> QED BY <1>2, <2>2, PowersGrow DEF Weight
<1> DEFINE u == Weight(hyps[b])
           v == Weight(hyps[j])
<1>9. MassDen * u >= MassNum * (u + (v + rest))
  <2> HIDE DEF iter
  <2> QED BY <1>6, <1>7 DEF MassReached
<1>10. u \in Nat \ {0} /\ v \in Nat /\ u <= v
  BY <1>3, <1>8
<1> HIDE DEF u, v
<1>11. u + (v + rest) >= 2 * u
  BY <1>10
<1>12. MassNum * (u + (v + rest)) >= MassNum * (2 * u)
  BY <1>10, <1>11
<1>13. MassNum * (2 * u) = (2 * MassNum) * u
  BY <1>10
<1>14. (2 * MassNum) * u > MassDen * u
  BY <1>10
<1> QED BY <1>9, <1>10, <1>12, <1>13, <1>14
-----------------------------------------------------------------------------
\* normalizeAndDecide() only writes the status and the best pose, and leaves a
\* complete verifier that was pending complete.
LEMMA NormalizeKeeps ==
  ASSUME NEW v, IsVerifier(v)
  PROVE  LET w == NormalizeAndDecide(v)
         IN  /\ IsVerifier(w)
             /\ w.hyps = v.hyps /\ w.scans = v.scans
             /\ w.skipped = v.skipped /\ w.pending = v.pending
<1> DEFINE w == NormalizeAndDecide(v)
           b == MostProbable(v.hyps)
<1>1. PICK n \in 0..TopK : v.hyps \in [1..n -> Hypothesis]
  BY DEF IsVerifier
<1>2. CASE Alive(v.hyps) = {}
  BY <1>2 DEF NormalizeAndDecide, Undecided, IsVerifier, Status
<1>3. CASE Alive(v.hyps) # {}
  <2>1. b \in 1..n /\ b \in Alive(v.hyps)
    BY <1>1, <1>3, MostProbableIsBest DEF Alive
  <2>2. v.hyps[b].pose \in Pose
    BY <1>1, <2>1 DEF Hypothesis
  <2> DEFINE status == IF v.scans < VerifyScans THEN v.status ELSE Verdict(v.hyps, b)
  <2>3. status \in Status
    BY DEF IsVerifier, Status, Verdict
  <2>4. w = [v EXCEPT !.best = v.hyps[b].pose, !.status = status]
    BY <1>3 DEF NormalizeAndDecide, Undecided
  <2> HIDE DEF status, b, w
  <2>5. /\ IsVerifier(w)
        /\ w.hyps = v.hyps /\ w.scans = v.scans
        /\ w.skipped = v.skipped /\ w.pending = v.pending
    BY <2>2, <2>3, <2>4 DEF IsVerifier
  <2> QED BY <2>5 DEF w
<1> QED BY <1>2, <1>3

\* What normalizeAndDecide() makes of a verifier that is pending.
LEMMA NormalizeDecides ==
  ASSUME NEW v, IsVerifier(v), v.status = "pending", v.scans >= 1,
         v.scans <= VerifyScans,
         \A k \in Alive(v.hyps) : v.hyps[k].scans = v.scans
  PROVE  LET w == NormalizeAndDecide(v)
             b == MostProbable(v.hyps)
         IN  /\ Complete(w)
             /\ w.status = "accepted" =>
                  /\ v.scans = VerifyScans
                  /\ b \in Alive(v.hyps)
                  /\ w.best = v.hyps[b].pose
                  /\ v.hyps[b].fraction_sum >= MinScore * VerifyScans
                  /\ \A j \in Alive(v.hyps) : v.hyps[j].fraction_sum <= v.hyps[b].fraction_sum
<1> DEFINE w == NormalizeAndDecide(v)
           b == MostProbable(v.hyps)
<1> USE VerifierParams
<1>1. PICK n \in 0..TopK : v.hyps \in [1..n -> Hypothesis]
  BY DEF IsVerifier
<1>2. w.hyps = v.hyps /\ w.scans = v.scans /\ v.scans \in Nat
  BY NormalizeKeeps DEF IsVerifier
<1>3. CASE Alive(v.hyps) = {}
  <2>1. w.status = "no-candidate"
    BY <1>3 DEF NormalizeAndDecide, Undecided, IsVerifier
  <2> QED BY <2>1, <1>2 DEF Complete
<1>4. CASE Alive(v.hyps) # {}
  <2>1. /\ b \in Alive(v.hyps) /\ b \in 1..n
        /\ \A j \in Alive(v.hyps) : Better(v.hyps, b, j)
    BY <1>1, <1>4, MostProbableIsBest DEF Alive
  <2>2. \A j \in Alive(v.hyps) : v.hyps[j].fraction_sum \in Nat
    BY <1>1 DEF Alive, Hypothesis
  <2>3. \A j \in Alive(v.hyps) : v.hyps[j].fraction_sum <= v.hyps[b].fraction_sum
    BY <2>1, <2>2 DEF Better
  <2>4. /\ w.best = v.hyps[b].pose
        /\ w.status = IF v.scans < VerifyScans THEN v.status ELSE Verdict(v.hyps, b)
    BY <1>4 DEF NormalizeAndDecide, Undecided, IsVerifier
  <2> HIDE DEF w, b
  <2>5. CASE v.scans < VerifyScans
    BY <2>4, <2>5, <1>2, <1>4 DEF Complete, w
  <2>6. CASE v.scans = VerifyScans
    <3>1. w.status = Verdict(v.hyps, b) /\ w.status # "pending"
      BY <2>4, <2>6 DEF Verdict
    <3>2. w.status = "accepted" => v.hyps[b].fraction_sum >= MinScore * VerifyScans
      BY <3>1, <2>1, <2>6 DEF Verdict
    <3>3. Complete(w)
      BY <3>1, <1>2 DEF Complete
    <3> QED BY <2>1, <2>3, <2>4, <2>6, <3>2, <3>3 DEF w, b
  <2> QED BY <2>5, <2>6, <1>2
<1> QED BY <1>3, <1>4

\* The statuses a verifier that was pending may have after its n-th informative scan.
Outcomes(hyps, n) ==
  IF Alive(hyps) = {} THEN {"no-candidate"}
  ELSE IF n < VerifyScans THEN {"pending"} ELSE {"accepted", "ambiguous", "no-candidate"}

LEMMA NormalizeOutcome ==
  ASSUME NEW v, IsVerifier(v), v.status = "pending"
  PROVE  NormalizeAndDecide(v).status \in Outcomes(v.hyps, v.scans)
<1> DEFINE w == NormalizeAndDecide(v)
           b == MostProbable(v.hyps)
<1>1. CASE Alive(v.hyps) = {}
  BY <1>1 DEF NormalizeAndDecide, Undecided, IsVerifier, Outcomes
<1>2. CASE Alive(v.hyps) # {}
  <2>1. w.status = IF v.scans < VerifyScans THEN v.status ELSE Verdict(v.hyps, b)
    BY <1>2 DEF NormalizeAndDecide, Undecided, IsVerifier
  <2>2. Verdict(v.hyps, b) \in {"accepted", "ambiguous", "no-candidate"}
    BY DEF Verdict
  <2> HIDE DEF w, b
  <2> QED BY <2>1, <2>2, <1>2 DEF Outcomes, w
<1> QED BY <1>1, <1>2
-----------------------------------------------------------------------------
\* What the hypotheses of start() stand for.
SeedAnchors(v, now) == [k \in DOMAIN v.hyps |-> compose(v.hyps[k].pose, inverse(now))]

\* start() on the modes found for a scan taken at odometry pose now.
LEMMA SeedEstablishes ==
  ASSUME NEW now \in Pose, NEW modes \in ModeLists(now)
  PROVE  LET w == Seed(modes)
             bases == SeedAnchors(w, now)
         IN  /\ IsVerifier(w)
             /\ bases \in [DOMAIN w.hyps -> Pose]
             /\ Chained(w, bases, now)
             /\ Complete(w)
             /\ Current(w, bases, now)
             /\ \E m \in 0..TopK : /\ Alive(w.hyps) = 1..m
                                   /\ w.scans = IF m = 0 THEN 0 ELSE 1
                                   /\ w.status \in Outcomes(w.hyps, 1)
                                   /\ w.pending = Origin
<1> DEFINE m == Passing(modes)
           w == Seed(modes)
           hyps == [k \in 1..m |-> [pose |-> modes[k].pose, fraction_sum |-> modes[k].f,
                                    scans |-> 1, alive |-> TRUE]]
           v == Fresh("pending", hyps, 1, Origin)
           bases == SeedAnchors(w, now)
<1> USE VerifierParams, VerifierInputs
<1>1. PICK n \in 0..TopK :
        modes \in [1..n -> [pose : {compose(a, now) : a \in Aliases}, f : Scores]]
  BY DEF ModeLists
<1>2. \A k \in 1..n : modes[k].pose \in Pose /\ modes[k].f \in Nat
  <2>1. ASSUME NEW k \in 1..n PROVE modes[k].pose \in Pose /\ modes[k].f \in Nat
    <3>1. modes[k].pose \in {compose(a, now) : a \in Aliases} /\ modes[k].f \in Scores
      BY <1>1
    <3> QED BY <3>1, PoseClosed
  <2> QED BY <2>1
<1>3. m \in 0..n
  <2> DEFINE S == {k \in DOMAIN modes : modes[k].f >= MinScore}
  <2>1. S \subseteq 1..n
    BY <1>1
  <2>2. IsFiniteSet(1..n) /\ Cardinality(1..n) = n
    BY FS_Interval
  <2>3. IsFiniteSet(S) /\ Cardinality(S) <= n
    BY <2>1, <2>2, FS_Subset
  <2>4. Cardinality(S) \in Nat
    BY <2>3, FS_CardinalityType
  <2> QED BY <2>3, <2>4 DEF Passing
<1>4. hyps \in [1..m -> Hypothesis]
  BY <1>2, <1>3 DEF Hypothesis
<1>5. CASE m = 0
  <2> DEFINE best == IF DOMAIN modes = {} THEN Origin ELSE modes[1].pose
  <2>1. best \in Pose
    <3>1. Origin \in Pose
      BY DEF Pose, Heading, Origin
    <3>2. DOMAIN modes = 1..n /\ (1..n # {} => 1 \in 1..n)
      BY <1>1
    <3> QED BY <3>1, <3>2, <1>2
  <2>2. w = [status |-> "no-candidate", hyps |-> [k \in 1..0 |-> Origin], scans |-> 0,
             skipped |-> 0, pending |-> Origin, best |-> best]
    BY <1>5 DEF Seed, ResetVerifier, Fresh
  <2> HIDE DEF best, w
  <2>3. /\ w.status = "no-candidate" /\ w.hyps = [k \in 1..0 |-> Origin]
        /\ Alive(w.hyps) = {} /\ DOMAIN w.hyps = {}
    BY <2>2 DEF Alive
  <2>4. [k \in 1..0 |-> Origin] \in [1..0 -> Hypothesis]
    OBVIOUS
  <2>5. IsVerifier(w)
    <3>1. Origin \in Pose /\ 0 \in 0..TopK
      BY DEF Pose, Heading, Origin
    <3> QED BY <2>1, <2>2, <2>4, <3>1 DEF IsVerifier, Status
  <2>6. Alive(w.hyps) = 1..0 /\ w.scans = 0 /\ w.pending = Origin
    BY <2>2, <2>3
  <2>7. w.status \in Outcomes(w.hyps, 1) /\ 0 \in 0..TopK
    BY <2>3 DEF Outcomes
  <2>8. \E k \in 0..TopK : /\ Alive(w.hyps) = 1..k
                           /\ w.scans = IF k = 0 THEN 0 ELSE 1
                           /\ w.status \in Outcomes(w.hyps, 1)
                           /\ w.pending = Origin
    BY <2>6, <2>7
  <2> QED BY <2>3, <2>5, <2>8 DEF Chained, Complete, Current, SeedAnchors, w
<1>6. CASE m # 0
  <2>1. w = NormalizeAndDecide(v)
    BY <1>6 DEF Seed
  <2>2. /\ v.hyps = hyps /\ v.scans = 1 /\ v.status = "pending" /\ v.pending = Origin
        /\ v = [status |-> "pending", hyps |-> hyps, scans |-> 1, skipped |-> 0,
                pending |-> Origin, best |-> Origin]
    <3> HIDE DEF hyps
    <3> QED BY DEF Fresh
  <2> HIDE DEF v, hyps, m, w
  <2>3. IsVerifier(v)
    <3>1. Origin \in Pose
      BY DEF Pose, Heading, Origin
    <3>2. m \in 0..TopK /\ v.hyps \in [1..m -> Hypothesis]
      BY <2>2, <1>3, <1>4
    <3>3. v = [status |-> v.status, hyps |-> v.hyps, scans |-> v.scans,
               skipped |-> v.skipped, pending |-> v.pending, best |-> v.best]
      BY <2>2
    <3>4. v.status \in Status /\ v.scans \in Nat /\ v.skipped \in Nat
          /\ v.pending \in Pose /\ v.best \in Pose
      BY <2>2, <3>1 DEF Status
    <3> QED BY <3>2, <3>3, <3>4 DEF IsVerifier
  <2>4. \A k \in Alive(v.hyps) : v.hyps[k].scans = v.scans
    BY <2>2 DEF Alive, hyps
  <2>5. /\ IsVerifier(w)
        /\ w.hyps = hyps /\ w.scans = 1 /\ w.pending = Origin
    BY <2>1, <2>2, <2>3, NormalizeKeeps
  <2>6. bases \in [DOMAIN w.hyps -> Pose]
    BY <2>5, <1>4, PoseClosed DEF SeedAnchors, Hypothesis
  <2>7. \A k \in 1..m : hyps[k].pose = compose(bases[k], now) /\ hyps[k].pose \in Pose
    BY <2>5, <1>4, RightDivision, PoseClosed DEF SeedAnchors, Hypothesis
  <2>8. Chained(w, bases, now)
    BY <2>5, <2>7, <1>4, ComposeIdentity DEF Chained, Alive
  <2>9. /\ Complete(w)
        /\ w.status = "accepted" =>
             LET b == MostProbable(v.hyps)
             IN  /\ v.scans = VerifyScans
                 /\ b \in Alive(v.hyps)
                 /\ w.best = v.hyps[b].pose
                 /\ v.hyps[b].fraction_sum >= MinScore * VerifyScans
                 /\ \A j \in Alive(v.hyps) : v.hyps[j].fraction_sum <= v.hyps[b].fraction_sum
    BY <2>1, <2>2, <2>3, <2>4, NormalizeDecides
  <2>10. Current(w, bases, now)
    BY <2>2, <2>5, <2>7, <2>9, <1>4 DEF Current, Alive
  <2>11. Alive(w.hyps) = 1..m
    BY <2>5, <1>4 DEF Alive, hyps
  <2>12. w.status \in Outcomes(w.hyps, 1)
    BY <2>1, <2>2, <2>3, <2>5, NormalizeOutcome
  <2>13. m \in 0..TopK
    BY <1>3
  <2>14. \E k \in 0..TopK : /\ Alive(w.hyps) = 1..k
                            /\ w.scans = IF k = 0 THEN 0 ELSE 1
                            /\ w.status \in Outcomes(w.hyps, 1)
                            /\ w.pending = Origin
    BY <2>5, <2>11, <2>12, <2>13, <1>6
  <2> QED BY <2>5, <2>6, <2>8, <2>9, <2>10, <2>14 DEF w
<1> QED BY <1>5, <1>6
-----------------------------------------------------------------------------
\* One hypothesis under update(): a live one is moved by the increment, and by
\* the correction as well when the scan is evidence for it.
LEMMA RematchMoves ==
  ASSUME NEW h \in Hypothesis, NEW delta \in Pose, NEW scan \in Scans, NEW k \in 1..TopK
  PROVE  LET g == Rematch(h, delta, scan, k)
             corr == scan.match[k].corr
         IN  /\ g \in Hypothesis
             /\ g.alive => h.alive
             /\ g.scans > h.scans => ~scan.empty /\ corr \in Pose
             /\ g.alive /\ scan.empty => g.scans = h.scans /\ g.pose = compose(h.pose, delta)
             /\ g.alive /\ ~scan.empty =>
                  /\ g.scans = h.scans + 1
                  /\ g.pose = compose(compose(h.pose, delta), corr)
<1> DEFINE g == Rematch(h, delta, scan, k)
           m == scan.match[k]
           pred == compose(h.pose, delta)
<1> USE VerifierInputs
<1>1. /\ h = [pose |-> h.pose, fraction_sum |-> h.fraction_sum, scans |-> h.scans, alive |-> h.alive]
      /\ h.pose \in Pose /\ h.fraction_sum \in Nat /\ h.scans \in Nat /\ h.alive \in BOOLEAN
  BY DEF Hypothesis
<1>2. pred \in Pose
  BY <1>1, PoseClosed
<1>3. CASE ~h.alive
  BY <1>1, <1>3 DEF Rematch
<1>4. CASE h.alive /\ scan.empty
  <2>1. g = [pose |-> pred, fraction_sum |-> h.fraction_sum, scans |-> h.scans, alive |-> h.alive]
    <3> HIDE DEF pred
    <3> QED BY <1>1, <1>4 DEF Rematch, pred
  <2> HIDE DEF g
  <2>2. /\ g \in Hypothesis
        /\ g.scans = h.scans /\ g.alive /\ g.pose = pred
    BY <2>1, <1>1, <1>2, <1>4 DEF Hypothesis
  <2> QED BY <2>2, <1>1, <1>4 DEF g
<1>5. CASE h.alive /\ ~scan.empty
  <2>1. scan \in [empty : {FALSE}, match : [1..TopK -> LocalMatch]]
    <3>1. \A none : [empty |-> TRUE, match |-> none].empty
      OBVIOUS
    <3>2. scan # [empty |-> TRUE, match |-> [j \in 1..TopK |-> Origin]]
      BY <3>1, <1>5
    <3> QED BY <3>2, Zenon DEF Scans
  <2>2. m \in LocalMatch
    BY <2>1
  <2>3. m.found \in BOOLEAN /\ m.corr \in Pose /\ m.f \in Nat
    BY <2>2 DEF LocalMatch
  <2>4. compose(pred, m.corr) \in Pose
    BY <1>2, <2>3, PoseClosed
  <2>5. CASE ~m.found
    <3>1. g = [pose |-> pred, fraction_sum |-> h.fraction_sum, scans |-> h.scans, alive |-> FALSE]
      <4> HIDE DEF pred, m
      <4> QED BY <1>1, <1>5, <2>5 DEF Rematch, pred, m
    <3> HIDE DEF g
    <3>2. g \in Hypothesis /\ g.scans = h.scans /\ ~g.alive
      BY <3>1, <1>1, <1>2 DEF Hypothesis
    <3> QED BY <3>2, <1>1 DEF g
  <2>6. CASE m.found
    <3>1. g = [pose |-> compose(pred, m.corr), fraction_sum |-> h.fraction_sum + m.f,
               scans |-> h.scans + 1, alive |-> h.alive]
      <4> HIDE DEF pred, m
      <4> QED BY <1>1, <1>5, <2>6 DEF Rematch, pred, m
    <3> HIDE DEF g
    <3>2. /\ g \in Hypothesis /\ g.scans = h.scans + 1
          /\ g.alive /\ g.pose = compose(pred, m.corr)
      <4> HIDE DEF pred, m
      <4> QED BY <3>1, <1>1, <1>5, <2>3, <2>4 DEF Hypothesis
    <3> QED BY <3>2, <1>5, <2>3 DEF g
  <2> QED BY <2>5, <2>6, <2>3
<1> QED BY <1>1, <1>3, <1>4, <1>5

\* A hypothesis on its transform at the last scan is, moved by the pending and
\* the new increment, on it at this one.
LEMMA PredictedOnAnchor ==
  ASSUME NEW p \in Pose, NEW pending \in Pose, NEW anchor \in Pose,
         NEW last \in Pose, NEW now \in Pose,
         compose(p, pending) = compose(anchor, last)
  PROVE  compose(p, compose(pending, Between(last, now))) = compose(anchor, now)
<1> DEFINE step == Between(last, now)
<1>1. step \in Pose
  BY PoseClosed
<1>2. compose(last, step) = now
  BY BetweenLeads
<1> HIDE DEF step
<1>3. compose(p, compose(pending, step)) = compose(compose(p, pending), step)
  BY <1>1, ComposeAssociative
<1>4. compose(compose(anchor, last), step) = compose(anchor, now)
  BY <1>1, <1>2, ComposeAssociative
<1> QED BY <1>3, <1>4 DEF step

\* What update() makes of the members, for the motion m since the last scan that
\* passed the gate: a skipped scan only accumulates it, an uninformative one
\* only forgets it, and the others may eliminate hypotheses.
Moves(v, w, m) ==
  \/ /\ Gated(m)
     /\ w.pending = m /\ w.skipped = v.skipped + 1
     /\ w.scans = v.scans /\ w.status = v.status /\ w.hyps = v.hyps
  \/ /\ ~Gated(m)
     /\ w.pending = Origin /\ w.skipped = v.skipped
     /\ w.scans = v.scans /\ w.status = v.status /\ Alive(w.hyps) = Alive(v.hyps)
  \/ /\ ~Gated(m)
     /\ w.pending = Origin /\ w.skipped = v.skipped
     /\ Alive(w.hyps) \subseteq Alive(v.hyps)
     /\ w.scans = v.scans + 1 /\ w.status \in Outcomes(w.hyps, w.scans)

\* update() on the scan taken at odometry pose now, given the increment since
\* the previous one: keeps everything the verifier relies on between two calls,
\* and what it accepts is current.
LEMMA UpdateKeeps ==
  ASSUME NEW v, IsVerifier(v), v.status = "pending", Complete(v),
         NEW bases \in [DOMAIN v.hyps -> Pose],
         NEW last \in Pose, NEW now \in Pose, Chained(v, bases, last),
         NEW scan \in Scans
  PROVE  LET w == Update(v, Between(last, now), scan)
             next == NextAnchors(v, w, bases, now, scan)
         IN  /\ IsVerifier(w)
             /\ next \in [DOMAIN w.hyps -> Pose]
             /\ Chained(w, next, now)
             /\ Complete(w)
             /\ Current(w, next, now)
             /\ Moves(v, w, compose(v.pending, Between(last, now)))
<1> DEFINE moved == compose(v.pending, Between(last, now))
           w == Update(v, Between(last, now), scan)
           next == NextAnchors(v, w, bases, now, scan)
<1> USE VerifierParams
<1>1. PICK n \in 0..TopK : v.hyps \in [1..n -> Hypothesis]
  BY DEF IsVerifier
<1>2. /\ DOMAIN v.hyps = 1..n
      /\ \A k \in 1..n : /\ v.hyps[k] \in Hypothesis /\ v.hyps[k].pose \in Pose
                         /\ v.hyps[k].scans \in Nat
                         /\ bases[k] \in Pose /\ k \in 1..TopK
  BY <1>1 DEF Hypothesis
<1>3. /\ v = [status |-> v.status, hyps |-> v.hyps, scans |-> v.scans,
              skipped |-> v.skipped, pending |-> v.pending, best |-> v.best]
      /\ v.scans \in Nat /\ v.skipped \in Nat /\ v.pending \in Pose /\ v.best \in Pose
  BY DEF IsVerifier
<1>4. moved \in Pose
  BY <1>3, PoseClosed
<1>5. \A k \in Alive(v.hyps) :
        compose(v.hyps[k].pose, moved) = compose(bases[k], now)
  <2>1. ASSUME NEW k \in Alive(v.hyps)
        PROVE  compose(v.hyps[k].pose, moved) = compose(bases[k], now)
    <3>1. k \in 1..n
      BY <1>2 DEF Alive
    <3>2. compose(v.hyps[k].pose, v.pending) = compose(bases[k], last)
      BY DEF Chained
    <3> QED BY <3>1, <3>2, <1>2, <1>3, PredictedOnAnchor
  <2> QED BY <2>1
<1>6. CASE Gated(moved)
  <2>1. w = [status |-> v.status, hyps |-> v.hyps, scans |-> v.scans,
             skipped |-> v.skipped + 1, pending |-> moved, best |-> v.best]
    <3> HIDE DEF moved
    <3> QED BY <1>3, <1>6 DEF Update, Moved, moved
  <2> HIDE DEF w, moved
  <2>2. /\ w.hyps = v.hyps /\ w.scans = v.scans /\ w.status = v.status /\ w.pending = moved
    BY <2>1
  <2>3. IsVerifier(w)
    BY <2>1, <1>1, <1>3, <1>4 DEF IsVerifier
  <2>4. next = [k \in DOMAIN bases |-> bases[k]]
    <3>1. \A k \in DOMAIN bases : ~(w.hyps[k].scans > v.hyps[k].scans)
      BY <2>2, <1>2
    <3> QED BY <3>1 DEF NextAnchors
  <2>5. next = bases
    BY <2>4
  <2> HIDE DEF next
  <2>6. Chained(w, next, now)
    BY <2>2, <2>5, <1>5 DEF Chained
  <2>7. Complete(w) /\ Current(w, next, now)
    BY <2>2 DEF Complete, Current
  <2>8. Moves(v, w, moved)
    BY <2>1, <1>6 DEF Moves
  <2> QED BY <2>2, <2>3, <2>5, <2>6, <2>7, <2>8 DEF w, next, moved
<1>7. CASE ~Gated(moved)
  <2> DEFINE hyps == [k \in DOMAIN v.hyps |-> Rematch(v.hyps[k], moved, scan, k)]
             scans == IF Informative(v, scan) THEN v.scans + 1 ELSE v.scans
             u == [status |-> "pending", hyps |-> hyps, scans |-> scans,
                   skipped |-> v.skipped, pending |-> Origin, best |-> v.best]
             anchored == [k \in DOMAIN bases |->
                            IF hyps[k].scans > v.hyps[k].scans
                            THEN Corrected(bases[k], now, scan.match[k].corr) ELSE bases[k]]
  <2>1. [v EXCEPT !.pending = Origin,
                  !.hyps  = [k \in DOMAIN @ |-> Rematch(@[k], moved, scan, k)],
                  !.scans = IF Informative(v, scan) THEN @ + 1 ELSE @] = u
    <3> HIDE DEF moved, hyps, scans
    <3>1. ASSUME NEW e, e = [v EXCEPT !.pending = Origin, !.hyps = hyps, !.scans = scans]
          PROVE  e = u
      BY <3>1, <1>3
    <3>2. [v EXCEPT !.pending = Origin, !.hyps = hyps, !.scans = scans] = u
      BY <3>1
    <3> QED BY <3>2 DEF hyps, scans
  <2>2. w = NormalizeAndDecide(u)
    BY <2>1, <1>7 DEF Update, Moved
  <2>3. \A k \in 1..n :
          LET h == v.hyps[k]
              g == hyps[k]
              corr == scan.match[k].corr
          IN  /\ g \in Hypothesis
              /\ g.alive => h.alive
              /\ g.scans > h.scans => ~scan.empty /\ corr \in Pose
              /\ g.alive /\ scan.empty => g.scans = h.scans /\ g.pose = compose(h.pose, moved)
              /\ g.alive /\ ~scan.empty =>
                   /\ g.scans = h.scans + 1
                   /\ g.pose = compose(compose(h.pose, moved), corr)
    <3> SUFFICES ASSUME NEW k \in 1..n
                 PROVE  LET h == v.hyps[k]
                            g == hyps[k]
                            corr == scan.match[k].corr
                        IN  /\ g \in Hypothesis
                            /\ g.alive => h.alive
                            /\ g.scans > h.scans => ~scan.empty /\ corr \in Pose
                            /\ g.alive /\ scan.empty =>
                                 g.scans = h.scans /\ g.pose = compose(h.pose, moved)
                            /\ g.alive /\ ~scan.empty =>
                                 /\ g.scans = h.scans + 1
                                 /\ g.pose = compose(compose(h.pose, moved), corr)
      OBVIOUS
    <3> HIDE DEF moved
    <3>1. hyps[k] = Rematch(v.hyps[k], moved, scan, k)
      BY <1>2
    <3>2. v.hyps[k] \in Hypothesis /\ k \in 1..TopK
      BY <1>2
    <3> HIDE DEF hyps
    <3> DEFINE h == v.hyps[k]
               g == hyps[k]
    <3>3. h \in Hypothesis /\ g = Rematch(h, moved, scan, k)
      BY <3>1, <3>2
    <3> HIDE DEF h, g
    <3>4. /\ g \in Hypothesis
          /\ g.alive => h.alive
          /\ g.scans > h.scans => ~scan.empty /\ scan.match[k].corr \in Pose
          /\ g.alive /\ scan.empty => g.scans = h.scans /\ g.pose = compose(h.pose, moved)
          /\ g.alive /\ ~scan.empty =>
               /\ g.scans = h.scans + 1
               /\ g.pose = compose(compose(h.pose, moved), scan.match[k].corr)
      BY <1>4, <3>2, <3>3, RematchMoves
    <3> QED BY <3>4 DEF h, g
  <2>4. hyps \in [1..n -> Hypothesis]
    <3>1. DOMAIN hyps = 1..n /\ hyps = [k \in 1..n |-> hyps[k]]
      BY <1>2
    <3> HIDE DEF hyps
    <3> QED BY <2>3, <3>1
  <2>5. u.hyps = hyps /\ u.scans = scans /\ u.status = "pending" /\ u.pending = Origin
    OBVIOUS
  <2>6. Alive(hyps) \subseteq Alive(v.hyps) /\ Alive(v.hyps) \subseteq 1..n
    BY <2>3, <2>4, <1>2 DEF Alive
  <2> HIDE DEF hyps, scans, u, moved, w
  <2>7. \A k \in Alive(hyps) : hyps[k].scans = scans
    <3>1. \A k \in Alive(hyps) : v.hyps[k].scans = v.scans
      BY <2>6 DEF Complete
    <3>2. ASSUME NEW k \in Alive(hyps) PROVE hyps[k].scans = scans
      <4>1. k \in 1..n /\ hyps[k].alive /\ Alive(v.hyps) # {}
        BY <2>6 DEF Alive
      <4>2. scan.empty => hyps[k].scans = v.hyps[k].scans
        BY <2>3, <4>1
      <4>3. ~scan.empty => hyps[k].scans = v.hyps[k].scans + 1
        BY <2>3, <4>1
      <4> QED BY <4>1, <4>2, <4>3, <3>1 DEF scans, Informative
    <3> QED BY <3>2
  <2>8. IsVerifier(u)
    <3>1. scans \in Nat /\ Origin \in Pose
      BY <1>3, PoseClosed DEF scans
    <3> QED BY <3>1, <2>4, <1>3 DEF u, IsVerifier, Status
  <2>9. scans >= 1 /\ scans <= VerifyScans
    BY <1>3 DEF scans, Complete
  <2>10. /\ IsVerifier(w) /\ w.hyps = hyps /\ w.pending = Origin
    BY <2>2, <2>5, <2>8, NormalizeKeeps
  <2>11. /\ Complete(w)
         /\ w.status = "accepted" =>
              LET b == MostProbable(u.hyps)
              IN  /\ u.scans = VerifyScans
                  /\ b \in Alive(u.hyps)
                  /\ w.best = u.hyps[b].pose
                  /\ u.hyps[b].fraction_sum >= MinScore * VerifyScans
                  /\ \A j \in Alive(u.hyps) : u.hyps[j].fraction_sum <= u.hyps[b].fraction_sum
    BY <2>2, <2>5, <2>7, <2>8, <2>9, NormalizeDecides
  <2>12. w.scans = u.scans
    BY <2>2, <2>8, NormalizeKeeps
  <2>13. next = anchored
    BY <2>10 DEF NextAnchors
  <2> HIDE DEF next
  <2>14. \A k \in 1..n : anchored[k] \in Pose
    <3>1. ASSUME NEW k \in 1..n PROVE anchored[k] \in Pose
      <4>1. CASE hyps[k].scans > v.hyps[k].scans
        <5>1. scan.match[k].corr \in Pose
          BY <2>3, <4>1
        <5>2. Corrected(bases[k], now, scan.match[k].corr) \in Pose
          BY <5>1, <1>2, PoseClosed DEF Corrected
        <5> QED BY <5>2, <4>1, <1>2
      <4>2. CASE ~(hyps[k].scans > v.hyps[k].scans)
        BY <4>2, <1>2
      <4> QED BY <4>1, <4>2
    <3> QED BY <3>1
  <2>15. next \in [DOMAIN w.hyps -> Pose]
    <3>1. DOMAIN anchored = 1..n /\ DOMAIN w.hyps = 1..n
      BY <1>2, <2>4, <2>10
    <3> HIDE DEF anchored
    <3>2. anchored = [k \in 1..n |-> anchored[k]]
      BY <3>1 DEF anchored
    <3> QED BY <3>1, <3>2, <2>13, <2>14
  <2>16. \A k \in Alive(hyps) : hyps[k].pose = compose(next[k], now) /\ hyps[k].pose \in Pose
    <3>1. ASSUME NEW k \in Alive(hyps)
          PROVE  hyps[k].pose = compose(anchored[k], now) /\ hyps[k].pose \in Pose
      <4>1. k \in 1..n /\ hyps[k].alive /\ hyps[k].pose \in Pose /\ k \in Alive(v.hyps)
        BY <2>3, <2>6 DEF Alive, Hypothesis
      <4>2. compose(v.hyps[k].pose, moved) = compose(bases[k], now)
        BY <4>1, <1>5
      <4>3. CASE scan.empty
        <5>1. hyps[k].scans = v.hyps[k].scans /\ hyps[k].pose = compose(v.hyps[k].pose, moved)
          BY <2>3, <4>1, <4>3
        <5>2. anchored[k] = bases[k]
          BY <5>1, <1>2, <4>1
        <5> QED BY <5>1, <5>2, <4>1, <4>2
      <4>4. CASE ~scan.empty
        <5>1. /\ hyps[k].scans = v.hyps[k].scans + 1
              /\ hyps[k].pose = compose(compose(v.hyps[k].pose, moved), scan.match[k].corr)
          BY <2>3, <4>1, <4>4
        <5>2. hyps[k].scans > v.hyps[k].scans
          BY <5>1, <1>2, <4>1
        <5>3. anchored[k] = Corrected(bases[k], now, scan.match[k].corr)
          BY <5>2, <1>2, <4>1
        <5>4. scan.match[k].corr \in Pose
          BY <2>3, <5>2, <4>1
        <5>5. compose(compose(bases[k], now), scan.match[k].corr) \in Pose
          BY <5>4, <1>2, <4>1, PoseClosed
        <5>6. compose(anchored[k], now) = compose(compose(bases[k], now), scan.match[k].corr)
          BY <5>3, <5>5, RightDivision DEF Corrected
        <5> QED BY <5>1, <5>6, <4>1, <4>2
      <4> QED BY <4>3, <4>4
    <3> QED BY <3>1, <2>13
  <2>17. Chained(w, next, now)
    BY <2>10, <2>16, ComposeIdentity DEF Chained
  <2>18. Current(w, next, now)
    BY <2>5, <2>10, <2>11, <2>12, <2>16 DEF Current
  <2>19. w.status \in Outcomes(w.hyps, w.scans) /\ w.skipped = v.skipped
    <3>1. u.skipped = v.skipped
      BY DEF u
    <3> QED BY <2>2, <2>5, <2>8, <2>10, <2>12, <3>1, NormalizeOutcome, NormalizeKeeps
  <2>20. Moves(v, w, moved)
    <3>1. v.scans < VerifyScans /\ Alive(v.hyps) # {}
      BY <1>3 DEF Complete
    <3>2. CASE scan.empty
      <4>1. \A k \in Alive(v.hyps) : hyps[k].alive
        BY <3>2, <1>2, <2>6 DEF Alive, hyps, Rematch
      <4>2. Alive(hyps) = Alive(v.hyps)
        BY <4>1, <2>4, <2>6 DEF Alive
      <4>3. w.scans = v.scans
        BY <3>2, <2>5, <2>12 DEF scans, Informative
      <4>4. w.status = "pending"
        BY <2>10, <2>19, <3>1, <4>2, <4>3 DEF Outcomes
      <4> QED BY <1>7, <2>10, <2>19, <4>2, <4>3, <4>4 DEF Moves
    <3>3. CASE ~scan.empty
      <4>1. w.scans = v.scans + 1
        BY <3>1, <3>3, <2>5, <2>12 DEF scans, Informative
      <4> QED BY <1>7, <2>6, <2>10, <2>19, <4>1 DEF Moves
    <3> QED BY <3>2, <3>3
  <2> QED BY <2>10, <2>11, <2>15, <2>17, <2>18, <2>20 DEF w, next, moved
<1> QED BY <1>6, <1>7
-----------------------------------------------------------------------------
(* One verification.                                                       *)

\* The increment a verification holds back is the motion since the last counted
\* scan, unless a scan without endpoints has taken part of it.
PendingSinceCounted ==
  ver.status = "pending" /\ ~bare => ver.pending = Between(counted, odom)

\* The inductive invariant.  TypeOK, Tracked and EvidenceComplete are needed
\* for each other; AcceptedIsCurrent only holds along with them.
IInv == /\ TypeOK
        /\ Tracked
        /\ EvidenceComplete
        /\ AcceptedIsCurrent
        /\ PendingSinceCounted

LEMMA InitIInv == Init => IInv
<1> SUFFICES ASSUME Init PROVE IInv
  OBVIOUS
<1>1. /\ ver.status = "idle" /\ ver.hyps = [k \in 1..0 |-> Origin] /\ ver.scans = 0
      /\ Origin \in Pose /\ Alive(ver.hyps) = {} /\ DOMAIN ver.hyps = 1..0
  <2>1. 1..0 = {}
    OBVIOUS
  <2>2. ver.status = "idle" /\ ver.hyps = [k \in 1..0 |-> Origin] /\ ver.scans = 0
    BY DEF Init, ResetVerifier, Fresh
  <2>3. DOMAIN ver.hyps = 1..0
    BY <2>2
  <2>4. Origin \in Pose
    BY DEF Origin, Pose, Heading
  <2> QED BY <2>1, <2>2, <2>3, <2>4 DEF Alive
<1>2. IsVerifier(ver)
  <2>1. [k \in 1..0 |-> Origin] \in [1..0 -> Hypothesis] /\ 0 \in 0..TopK
    BY VerifierParams
  <2> QED BY <1>1, <2>1 DEF Init, ResetVerifier, Fresh, IsVerifier, Status
<1>3. anchors \in [DOMAIN ver.hyps -> Pose]
  BY <1>1 DEF Init
<1>4. TypeOK
  BY <1>1, <1>2, <1>3 DEF Init, TypeOK
<1> QED BY <1>1, <1>4
        DEF IInv, Tracked, Chained, EvidenceComplete, Complete, AcceptedIsCurrent, Current,
            PendingSinceCounted

\* start()
LEMMA StartIInv == ASSUME IInv, Start PROVE IInv'
<1>0. PICK o \in Odoms : \E modes \in ModeLists(o) :
        /\ ver' = Seed(modes)
        /\ odom' = o
        /\ anchors' = [k \in DOMAIN ver'.hyps |-> compose(ver'.hyps[k].pose, inverse(o))]
        /\ counted' = o /\ bare' = FALSE
  BY DEF Start
<1>1. PICK modes \in ModeLists(o) :
        /\ ver' = Seed(modes)
        /\ odom' = o
        /\ anchors' = [k \in DOMAIN ver'.hyps |-> compose(ver'.hyps[k].pose, inverse(o))]
        /\ counted' = o /\ bare' = FALSE
  BY <1>0
<1>2. o \in Pose
  BY VerifierInputs
<1>3. anchors' = SeedAnchors(ver', o)
  BY <1>1 DEF SeedAnchors
<1>4. /\ IsVerifier(ver')
      /\ anchors' \in [DOMAIN ver'.hyps -> Pose]
      /\ Chained(ver', anchors', odom')
      /\ Complete(ver')
      /\ Current(ver', anchors', odom')
      /\ ver'.pending = Origin
  BY <1>1, <1>2, <1>3, SeedEstablishes
<1>5. Between(o, o) = Origin
  BY <1>2, ComposeInverse DEF Between
<1> QED BY <1>1, <1>2, <1>4, <1>5
        DEF IInv, TypeOK, Tracked, EvidenceComplete, AcceptedIsCurrent, PendingSinceCounted

\* update(), and what the motion gate decides.
LEMMA StepIInv ==
  ASSUME IInv, NEW o \in Odoms, NEW scan \in Scans, Step(o, scan)
  PROVE  /\ IInv'
         /\ Moves(ver, ver', compose(ver.pending, Between(odom, o)))
         /\ ~bare => compose(ver.pending, Between(odom, o)) = Between(counted, o)
<1>1. o \in Pose
  BY VerifierInputs
<1>2. /\ ver.status = "pending" /\ odom' = o
      /\ ver' = Update(ver, Between(odom, o), scan)
      /\ anchors' = NextAnchors(ver, ver', anchors, o, scan)
      /\ IF ver'.scans > ver.scans THEN counted' = o /\ bare' = FALSE
         ELSE counted' = counted /\ bare' = (bare \/ ver'.skipped = ver.skipped)
  BY DEF Step
<1>3. /\ IsVerifier(ver) /\ Complete(ver) /\ Chained(ver, anchors, odom)
      /\ anchors \in [DOMAIN ver.hyps -> Pose]
      /\ odom \in Pose /\ counted \in Pose /\ bare \in BOOLEAN
      /\ ~bare => ver.pending = Between(counted, odom)
      /\ ver.pending \in Pose /\ ver.skipped \in Nat /\ ver.scans \in Nat
  BY <1>2 DEF IInv, TypeOK, Tracked, EvidenceComplete, PendingSinceCounted, IsVerifier
<1>4. /\ IsVerifier(ver')
      /\ anchors' \in [DOMAIN ver'.hyps -> Pose]
      /\ Chained(ver', anchors', o)
      /\ Complete(ver')
      /\ Current(ver', anchors', o)
      /\ Moves(ver, ver', compose(ver.pending, Between(odom, o)))
  BY <1>1, <1>2, <1>3, UpdateKeeps
<1>5. ASSUME ~bare PROVE compose(ver.pending, Between(odom, o)) = Between(counted, o)
  <2>1. inverse(counted) \in Pose /\ Between(odom, o) \in Pose
    BY <1>1, <1>3, PoseClosed
  <2>2. compose(odom, Between(odom, o)) = o
    BY <1>1, <1>3, BetweenLeads
  <2>3. compose(compose(inverse(counted), odom), Between(odom, o))
          = compose(inverse(counted), compose(odom, Between(odom, o)))
    BY <2>1, <1>3, ComposeAssociative
  <2> QED BY <1>3, <1>5, <2>2, <2>3 DEF Between
<1>6. counted' \in Pose /\ bare' \in BOOLEAN
  <2>1. CASE ver'.scans > ver.scans
    BY <1>1, <1>2, <2>1
  <2>2. CASE ~(ver'.scans > ver.scans)
    BY <1>2, <1>3, <2>2
  <2> QED BY <2>1, <2>2
<1>7. PendingSinceCounted'
  <2>1. Between(o, o) = Origin
    BY <1>1, ComposeInverse DEF Between
  <2> DEFINE m == compose(ver.pending, Between(odom, o))
  <2>2. CASE ver'.scans = ver.scans + 1 /\ ver'.pending = Origin
    <3>1. counted' = o
      BY <1>2, <1>3, <2>2
    <3> QED BY <1>2, <2>1, <2>2, <3>1 DEF PendingSinceCounted
  <2>3. CASE ver'.scans = ver.scans /\ ver'.skipped = ver.skipped
    <3>1. ~(ver'.scans > ver.scans)
      BY <1>3, <2>3
    <3>2. bare' = (bare \/ ver'.skipped = ver.skipped)
      BY <1>2, <3>1
    <3>3. bare'
      BY <2>3, <3>2
    <3> QED BY <3>3 DEF PendingSinceCounted
  <2>4. CASE /\ ver'.scans = ver.scans /\ ver'.skipped = ver.skipped + 1
             /\ ver'.pending = m
    <3>1. ~(ver'.scans > ver.scans) /\ ~(ver'.skipped = ver.skipped)
      BY <1>3, <2>4
    <3>2. counted' = counted /\ bare' = (bare \/ ver'.skipped = ver.skipped)
      BY <1>2, <3>1
    <3>3. ~bare' => ~bare
      BY <3>2, Zenon
    <3>4. ~bare' => ver'.pending = Between(counted, o)
      BY <1>5, <2>4, <3>3, Zenon
    <3> QED BY <1>2, <3>2, <3>4, Zenon DEF PendingSinceCounted
  <2> QED BY <1>4, <2>2, <2>3, <2>4 DEF Moves
<1> QED BY <1>1, <1>2, <1>4, <1>5, <1>6, <1>7
        DEF IInv, TypeOK, Tracked, EvidenceComplete, AcceptedIsCurrent

LEMMA NextIInv == IInv /\ [Next]_vars => IInv'
<1> SUFFICES ASSUME IInv, [Next]_vars PROVE IInv'
  OBVIOUS
<1>1. CASE Start
  BY <1>1, StartIInv
<1>2. ASSUME NEW o \in Odoms, NEW scan \in Scans, Step(o, scan) PROVE IInv'
  BY <1>2, StepIInv
<1>3. CASE UNCHANGED vars
  BY <1>3 DEF vars, IInv, TypeOK, Tracked, EvidenceComplete, AcceptedIsCurrent, PendingSinceCounted
<1> QED BY <1>1, <1>2, <1>3 DEF Next

LEMMA AlwaysIInv == Spec => []IInv
BY InitIInv, NextIInv, PTL DEF Spec
-----------------------------------------------------------------------------
\* The members stay in their types: hypotheses are never added, and poses are
\* only composed with poses.
THEOREM TypeCorrect == Spec => []TypeOK
BY AlwaysIInv, PTL DEF IInv

\* A hypothesis never loses or doubles an odometry increment, whatever the
\* motion gate holds back.
THEOREM AlwaysTracked == Spec => []Tracked
BY AlwaysIInv, PTL DEF IInv

\* The posterior always compares sums over the same scans.
THEOREM AlwaysEvidenceComplete == Spec => []EvidenceComplete
BY AlwaysIInv, PTL DEF IInv

\* A verification only ever accepts the pose of its best hypothesis at the scan
\* that decided, after VerifyScans scans.
THEOREM AlwaysAcceptedIsCurrent == Spec => []AcceptedIsCurrent
BY AlwaysIInv, PTL DEF IInv

\* No scan counts as evidence before the odometry has moved past the gate since
\* the last counted scan, unless a scan without endpoints passed it in between.
THEOREM EvidenceAlwaysNeedsMotion == Spec => EvidenceNeedsMotion
<1> DEFINE Outpaced == Counts /\ ~bare => ~Gated(Between(counted, odom'))
<1>1. IInv /\ [Next]_vars => [Outpaced]_vars
  <2> SUFFICES ASSUME IInv, Next, Counts, ~bare
               PROVE  ~Gated(Between(counted, odom'))
    BY DEF vars
  <2>1. PICK o \in Odoms, scan \in Scans : Step(o, scan)
    BY DEF Next, Start, Counts
  <2>2. /\ Moves(ver, ver', compose(ver.pending, Between(odom, o))) /\ odom' = o
        /\ compose(ver.pending, Between(odom, o)) = Between(counted, o)
    BY <2>1, StepIInv DEF Step
  <2>3. ver.scans \in Nat
    BY DEF IInv, TypeOK, IsVerifier
  <2> QED BY <2>2, <2>3 DEF Moves, Counts
<1> QED BY AlwaysIInv, <1>1, PTL DEF Spec, EvidenceNeedsMotion
-----------------------------------------------------------------------------
(* Which mass an accepted hypothesis has.                                  *)

\* An accepted verifier's pose is the one of the most probable hypothesis, which
\* has the mass asked for.
Massed(v) ==
  v.status = "accepted" =>
    LET b == MostProbable(v.hyps)
    IN  v.best = v.hyps[b].pose /\ MassReached(v.hyps, b)

LEMMA NormalizeMasses ==
  ASSUME NEW hyps, NEW scans, NEW skipped, NEW pending, NEW best
  PROVE  Massed(NormalizeAndDecide([status |-> "pending", hyps |-> hyps, scans |-> scans,
                                    skipped |-> skipped, pending |-> pending, best |-> best]))
<1> DEFINE v == [status |-> "pending", hyps |-> hyps, scans |-> scans, skipped |-> skipped,
                 pending |-> pending, best |-> best]
           w == NormalizeAndDecide(v)
           b == MostProbable(hyps)
           status == IF Undecided(v) THEN "pending" ELSE Verdict(hyps, b)
<1>1. CASE Alive(hyps) = {}
  <2>1. w = [v EXCEPT !.status = "no-candidate"]
    BY <1>1 DEF NormalizeAndDecide
  <2>2. w.status = "no-candidate"
    BY <2>1
  <2> HIDE DEF w
  <2> QED BY <2>2 DEF Massed, w
<1>2. CASE Alive(hyps) # {}
  <2>1. w = [v EXCEPT !.best = hyps[b].pose, !.status = status]
    BY <1>2 DEF NormalizeAndDecide
  <2>2. status = "accepted" => MassReached(hyps, b)
    BY DEF Verdict
  <2> HIDE DEF b, status
  <2>3. w.status = status /\ w.hyps = hyps /\ w.best = hyps[b].pose
    BY <2>1
  <2> HIDE DEF w
  <2> QED BY <2>2, <2>3 DEF Massed, w, b
<1> QED BY <1>1, <1>2

AcceptedIsMassed == Massed(ver)

LEMMA NextMassed == IInv /\ AcceptedIsMassed /\ [Next]_vars => AcceptedIsMassed'
<1> SUFFICES ASSUME IInv, Massed(ver), [Next]_vars PROVE Massed(ver')
  BY DEF AcceptedIsMassed
<1>1. ASSUME NEW o \in Odoms, NEW modes \in ModeLists(o), ver' = Seed(modes)
      PROVE  Massed(ver')
  <2> DEFINE hyps == [k \in 1..Passing(modes) |->
                        [pose |-> modes[k].pose, fraction_sum |-> modes[k].f,
                         scans |-> 1, alive |-> TRUE]]
             best == IF DOMAIN modes = {} THEN Origin ELSE modes[1].pose
  <2>1. CASE Passing(modes) = 0
    <3>1. ver' = Fresh("no-candidate", ResetVerifier.hyps, 0, best)
      BY <1>1, <2>1 DEF Seed
    <3> HIDE DEF best
    <3>2. ver'.status = "no-candidate"
      BY <3>1 DEF Fresh
    <3> QED BY <3>2 DEF Massed
  <2>2. CASE Passing(modes) # 0
    <3>1. ver' = NormalizeAndDecide(Fresh("pending", hyps, 1, Origin))
      BY <1>1, <2>2 DEF Seed
    <3> HIDE DEF hyps
    <3> QED BY <3>1, NormalizeMasses DEF Fresh
  <2> QED BY <2>1, <2>2
<1>2. ASSUME NEW o \in Odoms, NEW scan \in Scans, Step(o, scan) PROVE Massed(ver')
  <2> DEFINE moved == Moved(ver, Between(odom, o))
             scans == IF Informative(ver, scan) THEN ver.scans + 1 ELSE ver.scans
             hyps == [k \in DOMAIN ver.hyps |-> Rematch(ver.hyps[k], moved, scan, k)]
  <2>1. /\ ver.status = "pending"
        /\ ver' = IF Gated(moved) THEN [ver EXCEPT !.pending = moved, !.skipped = @ + 1]
                  ELSE NormalizeAndDecide(
                         [ver EXCEPT !.pending = Origin, !.hyps = hyps, !.scans = scans])
    BY <1>2 DEF Step, Update
  <2> HIDE DEF moved, scans, hyps
  <2>2. ver = [status |-> "pending", hyps |-> ver.hyps, scans |-> ver.scans,
               skipped |-> ver.skipped, pending |-> ver.pending, best |-> ver.best]
    BY <2>1 DEF IInv, TypeOK, IsVerifier
  <2>3. CASE Gated(moved)
    <3>1. ver'.status = "pending"
      BY <2>1, <2>2, <2>3
    <3> QED BY <3>1 DEF Massed
  <2>4. CASE ~Gated(moved)
    <3>1. [ver EXCEPT !.pending = Origin, !.hyps = hyps, !.scans = scans]
          = [status |-> "pending", hyps |-> hyps, scans |-> scans, skipped |-> ver.skipped,
             pending |-> Origin, best |-> ver.best]
      <4> DEFINE h == ver.hyps
                 n == ver.scans
                 k == ver.skipped
                 p == ver.pending
                 best == ver.best
      <4>1. ver = [status |-> "pending", hyps |-> h, scans |-> n, skipped |-> k,
                   pending |-> p, best |-> best]
        BY <2>2
      <4> HIDE DEF h, n, k, p, best
      <4>2. [ver EXCEPT !.pending = Origin, !.hyps = hyps, !.scans = scans]
            = [status |-> "pending", hyps |-> hyps, scans |-> scans, skipped |-> k,
               pending |-> Origin, best |-> best]
        <5>1. ASSUME NEW e, e = [ver EXCEPT !.pending = Origin, !.hyps = hyps, !.scans = scans]
              PROVE  e = [status |-> "pending", hyps |-> hyps, scans |-> scans, skipped |-> k,
                          pending |-> Origin, best |-> best]
          BY <5>1, <4>1
        <5> QED BY <5>1
      <4> QED BY <4>2 DEF k, best
    <3> QED BY <2>1, <2>4, <3>1, NormalizeMasses
  <2> QED BY <2>3, <2>4
<1>3. CASE UNCHANGED vars
  BY <1>3 DEF vars
<1> QED BY <1>1, <1>2, <1>3 DEF Next, Start

\* A verification with min_posterior above one half accepts no hypothesis while
\* another live one has as much evidence: two rooms that look alike are never
\* told apart by a tie.
THEOREM AlwaysAcceptedIsDominant == Spec => []AcceptedIsDominant
<1>1. Init => AcceptedIsMassed
  BY DEF Init, ResetVerifier, Fresh, Massed, AcceptedIsMassed
<1>2. IInv /\ AcceptedIsMassed => AcceptedIsDominant
  <2> SUFFICES ASSUME IInv, AcceptedIsMassed, ver.status = "accepted", 2 * MassNum > MassDen
               PROVE  \E b \in Alive(ver.hyps) : \A j \in Alive(ver.hyps) \ {b} :
                        /\ ver.best = ver.hyps[b].pose
                        /\ ver.hyps[j].fraction_sum < ver.hyps[b].fraction_sum
    BY DEF AcceptedIsDominant
  <2> DEFINE b == MostProbable(ver.hyps)
  <2>1. b \in Alive(ver.hyps)
    BY DEF IInv, AcceptedIsCurrent, Current
  <2>2. ver.best = ver.hyps[b].pose /\ MassReached(ver.hyps, b)
    BY DEF AcceptedIsMassed, Massed
  <2>3. PICK n \in 0..TopK : ver.hyps \in [1..n -> Hypothesis]
    BY DEF IInv, TypeOK, IsVerifier
  <2>4. n \in Nat
    BY VerifierParams
  <2> HIDE DEF b
  <2>5. \A j \in Alive(ver.hyps) \ {b} : ver.hyps[j].fraction_sum < ver.hyps[b].fraction_sum
    BY <2>1, <2>2, <2>3, <2>4, MassDominates
  <2> QED BY <2>1, <2>2, <2>5
<1> QED BY AlwaysIInv, <1>1, <1>2, NextMassed, PTL DEF Spec
-----------------------------------------------------------------------------
\* The verifier implements the sequential test of RelocRule: candidates only
\* disappear, and a verdict falls with the VerifyScans-th informative scan.
THEOREM VerifierImplementsRule == Spec => ImplementsRule
<1> USE VerifierParams
<1>1. Init => Rule!Init
  BY DEF Init, ResetVerifier, Fresh, Alive, Rule!Init
<1>2. IInv /\ [Next]_vars => [Rule!Next]_Rule!vars
  <2> SUFFICES ASSUME IInv, [Next]_vars PROVE [Rule!Next]_Rule!vars
    OBVIOUS
  <2>1. CASE Start
    <3>0. PICK o \in Odoms : \E modes \in ModeLists(o) : ver' = Seed(modes)
      BY <2>1 DEF Start
    <3>1. PICK modes \in ModeLists(o) : ver' = Seed(modes)
      BY <3>0
    <3>2. o \in Pose
      BY VerifierInputs
    <3>3. PICK m \in 0..TopK : /\ Alive(ver'.hyps) = 1..m
                               /\ ver'.scans = IF m = 0 THEN 0 ELSE 1
                               /\ ver'.status \in Outcomes(ver'.hyps, 1)
      BY <3>1, <3>2, SeedEstablishes
    <3>4. ver'.status \in Rule!Outcome(1..m, 1)
      BY <3>3 DEF Outcomes, Rule!Outcome, Rule!Verdicts
    <3>5. ver.status # "pending"
      BY <2>1 DEF Start
    <3>6. Rule!Begin
      BY <3>3, <3>4, <3>5 DEF Rule!Begin
    <3> QED BY <3>6 DEF Rule!Next
  <2>2. ASSUME NEW o \in Odoms, NEW scan \in Scans, Step(o, scan)
        PROVE  [Rule!Next]_Rule!vars
    <3>1. /\ Moves(ver, ver', compose(ver.pending, Between(odom, o)))
          /\ ver.status = "pending"
      BY <2>2, StepIInv DEF Step
    <3>2. CASE UNCHANGED <<ver.status, ver.scans, Alive(ver.hyps)>>
      BY <3>2 DEF Rule!vars
    <3>3. CASE /\ Alive(ver'.hyps) \subseteq Alive(ver.hyps)
               /\ ver'.scans = ver.scans + 1
               /\ ver'.status \in Outcomes(ver'.hyps, ver'.scans)
      <4>1. ver'.status \in Rule!Outcome(Alive(ver'.hyps), ver.scans + 1)
        BY <3>3 DEF Outcomes, Rule!Outcome, Rule!Verdicts
      <4> QED BY <3>1, <3>3, <4>1 DEF Rule!Next, Rule!Observe
    <3> QED BY <3>1, <3>2, <3>3 DEF Moves
  <2>3. CASE UNCHANGED vars
    BY <2>3 DEF vars, Rule!vars
  <2> QED BY <2>1, <2>2, <2>3 DEF Next
<1> QED BY AlwaysIInv, <1>1, <1>2, PTL DEF Spec, ImplementsRule, Rule!Spec
=============================================================================
