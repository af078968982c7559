------------------------ MODULE LocalizationNodeProofs ------------------------
(***************************************************************************)
(* What LocalizationNode publishes, when a relocalization may replace its  *)
(* particles, and which updates its match window holds, for every value of *)
(* the constants: both backends, any number of scans of a verification,    *)
(* any length of the window, any odometry, user commands and maps.         *)
(***************************************************************************)
EXTENDS LocalizationNode, FiniteSetTheorems, TLAPS

\* For its lemmas on the operators of RelocVerifier; they name no variable.
Ver == INSTANCE RelocVerificationProofs
       WITH ver <- 0, odom <- 0, anchors <- 0, counted <- 0, bare <- 0
-----------------------------------------------------------------------------
(* The planar poses form a group, and a correction of the robot's pose     *)
(* moves the map->odom transform so that it puts the robot there.          *)

LEMMA PoseClosed ==
  ASSUME NEW a \in Pose, NEW b \in Pose
  PROVE  Origin \in Pose /\ compose(a, b) \in Pose /\ inverse(a) \in Pose /\ Between(a, b) \in Pose
BY DEF Pose, Heading, Origin, compose, inverse, Between

LEMMA ComposeAssociative ==
  ASSUME NEW a \in Pose, NEW b \in Pose, NEW c \in Pose
  PROVE  compose(compose(a, b), c) = compose(a, compose(b, c))
BY DEF Pose, Heading, compose

\* Moving from a by the motion between a and b leads to b.
LEMMA BetweenLeads ==
  ASSUME NEW a \in Pose, NEW b \in Pose
  PROVE  compose(a, Between(a, b)) = b
BY DEF Pose, Heading, compose, inverse, Between

\* The map->odom transform compose(a, inverse(b)) puts the robot at a.
LEMMA RightDivision ==
  ASSUME NEW a \in Pose, NEW b \in Pose
  PROVE  compose(compose(a, inverse(b)), b) = a
BY DEF Pose, Heading, compose, inverse
-----------------------------------------------------------------------------
(* The verifier of the node is the one of RelocVerification.               *)

LEMMA SamePoses ==
  /\ Ver!Pose = Pose /\ Ver!Origin = Origin /\ Ver!Scans = Scans
  /\ \A a, b : Ver!compose(a, b) = compose(a, b) /\ Ver!Between(a, b) = Between(a, b)
  /\ \A a : Ver!inverse(a) = inverse(a)
  /\ \A odom : Ver!ModeLists(odom) = ModeLists(odom)
BY DEF Pose, Ver!Pose, Heading, Ver!Heading, Origin, Ver!Origin, compose, Ver!compose,
       inverse, Ver!inverse, Between, Ver!Between, Scans, Ver!Scans, LocalMatch,
       Ver!LocalMatch, ModeLists, Ver!ModeLists

\* What the instance assumes.
LEMMA SameInputs ==
  /\ Scores \subseteq Nat /\ Corrections \subseteq Ver!Pose
  /\ Odoms \subseteq Ver!Pose /\ Aliases \subseteq Ver!Pose
BY VerifierInputs, SamePoses

LEMMA SameChoices ==
  ASSUME NEW hyps
  PROVE  /\ Ver!Alive(hyps) = Alive(hyps)
         /\ Ver!MostProbable(hyps) = MostProbable(hyps)
         /\ \A b : Ver!MassReached(hyps, b) <=> MassReached(hyps, b)
         /\ \A b : Ver!Verdict(hyps, b) = Verdict(hyps, b)
<1>1. Ver!Alive(hyps) = Alive(hyps)
  BY DEF Alive, Ver!Alive
<1>2. Ver!MostProbable(hyps) = MostProbable(hyps)
  BY DEF MostProbable, Ver!MostProbable, Alive, Ver!Alive
<1>3. ASSUME NEW b PROVE Ver!MassReached(hyps, b) <=> MassReached(hyps, b)
  BY DEF MassReached, Ver!MassReached, Weight, Ver!Weight, Alive, Ver!Alive, MapThenSumSet,
         Ver!MapThenSumSet, MapThenFoldSet, Ver!MapThenFoldSet
<1>4. ASSUME NEW b PROVE Ver!Verdict(hyps, b) = Verdict(hyps, b)
  BY <1>3 DEF Verdict, Ver!Verdict
<1> QED BY <1>1, <1>2, <1>3, <1>4

LEMMA SameDecision ==
  ASSUME NEW v
  PROVE  Ver!NormalizeAndDecide(v) = NormalizeAndDecide(v)
BY SameChoices DEF NormalizeAndDecide, Ver!NormalizeAndDecide, Undecided, Ver!Undecided

LEMMA SameSeed ==
  ASSUME NEW modes
  PROVE  Ver!Seed(modes) = Seed(modes)
<1>1. \A status, hyps, scans, best :
         Ver!Fresh(status, hyps, scans, best) = Fresh(status, hyps, scans, best)
  BY SamePoses DEF Fresh, Ver!Fresh
<1>2. Ver!ResetVerifier = ResetVerifier
  BY <1>1, SamePoses DEF ResetVerifier, Ver!ResetVerifier
<1>3. Ver!Passing(modes) = Passing(modes)
  BY DEF Passing, Ver!Passing, Cardinality, Ver!Cardinality
<1> DEFINE hyps == [k \in 1..Passing(modes) |->
                      [pose |-> modes[k].pose, fraction_sum |-> modes[k].f,
                       scans |-> 1, alive |-> TRUE]]
           first == IF DOMAIN modes = {} THEN Origin ELSE modes[1].pose
<1>4. Seed(modes) = IF Passing(modes) = 0
                    THEN Fresh("no-candidate", ResetVerifier.hyps, 0, first)
                    ELSE NormalizeAndDecide(Fresh("pending", hyps, 1, Origin))
  BY DEF Seed
<1>5. Ver!Seed(modes) = IF Ver!Passing(modes) = 0
                        THEN Ver!Fresh("no-candidate", Ver!ResetVerifier.hyps, 0, first)
                        ELSE Ver!NormalizeAndDecide(Ver!Fresh("pending", hyps, 1, Origin))
  BY <1>3, SamePoses DEF Ver!Seed
<1> HIDE DEF hyps, first
<1> QED BY <1>1, <1>2, <1>3, <1>4, <1>5, SameDecision

LEMMA SameUpdate ==
  ASSUME NEW v, NEW delta, NEW scan
  PROVE  Ver!Update(v, delta, scan) = Update(v, delta, scan)
<1>1. /\ Ver!Moved(v, delta) = Moved(v, delta)
      /\ Ver!Gated(Moved(v, delta)) <=> Gated(Moved(v, delta))
      /\ Ver!Informative(v, scan) <=> Informative(v, scan)
  BY SamePoses, SameChoices
     DEF Moved, Ver!Moved, Gated, Ver!Gated, Abs, Ver!Abs, Informative, Ver!Informative
<1>2. ASSUME NEW h, NEW m, NEW k PROVE Ver!Rematch(h, m, scan, k) = Rematch(h, m, scan, k)
  BY SamePoses DEF Rematch, Ver!Rematch
<1> DEFINE moved == Moved(v, delta)
           counted == IF Informative(v, scan) THEN v.scans + 1 ELSE v.scans
           hyps == [k \in DOMAIN v.hyps |-> Rematch(v.hyps[k], moved, scan, k)]
           x == [v EXCEPT !.pending = Origin, !.hyps = hyps, !.scans = counted]
<1>3. Update(v, delta, scan)
        = IF v.status # "pending" THEN v
          ELSE IF Gated(moved) THEN [v EXCEPT !.pending = moved, !.skipped = @ + 1]
          ELSE NormalizeAndDecide(x)
  BY DEF Update
<1>4. Ver!Update(v, delta, scan)
        = IF v.status # "pending" THEN v
          ELSE IF Gated(moved) THEN [v EXCEPT !.pending = moved, !.skipped = @ + 1]
          ELSE Ver!NormalizeAndDecide(x)
  <2>1. [k \in DOMAIN v.hyps |-> Ver!Rematch(v.hyps[k], moved, scan, k)] = hyps
    BY <1>2
  <2>2. (IF Ver!Informative(v, scan) THEN v.scans + 1 ELSE v.scans) = counted
    BY <1>1
  <2>3. Ver!Moved(v, delta) = moved /\ (Ver!Gated(moved) <=> Gated(moved))
    BY <1>1
  <2>4. Ver!Update(v, delta, scan)
        = IF v.status # "pending" THEN v
          ELSE IF Ver!Gated(moved) THEN [v EXCEPT !.pending = moved, !.skipped = @ + 1]
          ELSE Ver!NormalizeAndDecide(
                 [v EXCEPT
                    !.pending = Origin,
                    !.hyps = [k \in DOMAIN v.hyps |-> Ver!Rematch(v.hyps[k], moved, scan, k)],
                    !.scans = IF Ver!Informative(v, scan) THEN v.scans + 1 ELSE v.scans])
    BY <2>3, SamePoses DEF Ver!Update
  <2> HIDE DEF moved, counted, hyps
  <2> QED BY <2>1, <2>2, <2>3, <2>4
<1> HIDE DEF x
<1> QED BY <1>3, <1>4, SameDecision

LEMMA SameAnchors ==
  ASSUME NEW v, NEW w, NEW anchors, NEW odom, NEW scan
  PROVE  Ver!NextAnchors(v, w, anchors, odom, scan) = NextAnchors(v, w, anchors, odom, scan)
BY SamePoses DEF NextAnchors, Ver!NextAnchors, Corrected, Ver!Corrected

LEMMA SamePredicates ==
  ASSUME NEW v, NEW anchors, NEW odom
  PROVE  /\ Ver!IsVerifier(v) <=> IsVerifier(v)
         /\ Ver!Complete(v) <=> Complete(v)
         /\ Ver!Chained(v, anchors, odom) <=> Chained(v, anchors, odom)
         /\ Ver!Current(v, anchors, odom) <=> Current(v, anchors, odom)
<1>1. Ver!IsVerifier(v) <=> IsVerifier(v)
  BY SamePoses DEF IsVerifier, Ver!IsVerifier, Status, Ver!Status, Hypothesis, Ver!Hypothesis
<1>2. Ver!Complete(v) <=> Complete(v)
  BY SameChoices DEF Complete, Ver!Complete
<1>3. Ver!Chained(v, anchors, odom) <=> Chained(v, anchors, odom)
  BY SamePoses, SameChoices DEF Chained, Ver!Chained
<1>4. Ver!Current(v, anchors, odom) <=> Current(v, anchors, odom)
  BY SamePoses, SameChoices DEF Current, Ver!Current
<1> QED BY <1>1, <1>2, <1>3, <1>4

\* What the hypotheses of start() stand for.
SeedAnchors(v, odom) == [k \in DOMAIN v.hyps |-> compose(v.hyps[k].pose, inverse(odom))]

\* start() on the modes found for a scan taken at odometry pose odom.
LEMMA SeedEstablishes ==
  ASSUME NEW odom \in Pose, NEW modes \in ModeLists(odom)
  PROVE  LET w == Seed(modes)
             anchors == SeedAnchors(w, odom)
         IN  /\ IsVerifier(w)
             /\ anchors \in [DOMAIN w.hyps -> Pose]
             /\ Chained(w, anchors, odom)
             /\ Complete(w)
             /\ Current(w, anchors, odom)
             /\ w.scans \in {0, 1}
<1> DEFINE w == Seed(modes)
           anchors == SeedAnchors(w, odom)
<1>1. Ver!Seed(modes) = w /\ Ver!SeedAnchors(w, odom) = anchors
  BY SameSeed, SamePoses DEF SeedAnchors, Ver!SeedAnchors
<1>2. odom \in Ver!Pose /\ modes \in Ver!ModeLists(odom)
  BY SamePoses
<1> HIDE DEF w, anchors
<1>3. /\ Ver!IsVerifier(w)
      /\ anchors \in [DOMAIN w.hyps -> Ver!Pose]
      /\ Ver!Chained(w, anchors, odom)
      /\ Ver!Complete(w)
      /\ Ver!Current(w, anchors, odom)
      /\ w.scans \in {0, 1}
  BY <1>1, <1>2, Ver!SeedEstablishes, VerifierParams, SameInputs
<1> QED BY <1>3, SamePoses, SamePredicates DEF w, anchors

\* update() with the motion since the last scan.
LEMMA UpdateKeeps ==
  ASSUME NEW v, IsVerifier(v), v.status = "pending", Complete(v),
         NEW anchors \in [DOMAIN v.hyps -> Pose],
         NEW last \in Pose, NEW odom \in Pose, Chained(v, anchors, last),
         NEW scan \in Scans
  PROVE  LET w == Update(v, Between(last, odom), scan)
             next == NextAnchors(v, w, anchors, odom, scan)
         IN  /\ IsVerifier(w)
             /\ next \in [DOMAIN w.hyps -> Pose]
             /\ Chained(w, next, odom)
             /\ Complete(w)
             /\ Current(w, next, odom)
             /\ w.scans = v.scans \/ w.scans = v.scans + 1
<1> DEFINE w == Update(v, Between(last, odom), scan)
           next == NextAnchors(v, w, anchors, odom, scan)
<1>1. /\ Ver!Update(v, Ver!Between(last, odom), scan) = w
      /\ Ver!NextAnchors(v, w, anchors, odom, scan) = next
  BY SameUpdate, SameAnchors, SamePoses
<1>2. /\ Ver!IsVerifier(v) /\ Ver!Complete(v) /\ Ver!Chained(v, anchors, last)
      /\ anchors \in [DOMAIN v.hyps -> Ver!Pose]
      /\ last \in Ver!Pose /\ odom \in Ver!Pose /\ scan \in Ver!Scans
  BY SamePoses, SamePredicates
<1> HIDE DEF w, next
<1>3. /\ Ver!IsVerifier(w)
      /\ next \in [DOMAIN w.hyps -> Ver!Pose]
      /\ Ver!Chained(w, next, odom)
      /\ Ver!Complete(w)
      /\ Ver!Current(w, next, odom)
      /\ Ver!Moves(v, w, Ver!compose(v.pending, Ver!Between(last, odom)))
  BY <1>1, <1>2, Ver!UpdateKeeps, VerifierParams, SameInputs
<1>4. w.scans = v.scans \/ w.scans = v.scans + 1
  BY <1>3 DEF Ver!Moves
<1> QED BY <1>3, <1>4, SamePoses, SamePredicates DEF w, next
-----------------------------------------------------------------------------
(* The match window.                                                       *)

LEMMA FollowingWraps ==
  ASSUME NEW i \in 0..(KWindow - 1)
  PROVE  Following(i) = IF i + 1 < KWindow THEN i + 1 ELSE 0
BY WindowParams DEF Following

\* Where the window holds the i-th of n judged updates.
JudgedAt(m, i, n) == m.values[(m.next + i - n - 1) % KWindow]

\* Window m holds the last of the updates judged since the reseed.
Holds(m, judged) ==
  /\ m.since_reseed = Len(judged)
  /\ m.count = IF Len(judged) < KWindow THEN Len(judged) ELSE KWindow
  /\ m.count < KWindow => m.next = m.count
  /\ \A i \in 1..Len(judged) : i > Len(judged) - KWindow => JudgedAt(m, i, Len(judged)) = judged[i]

\* The update a seed forces leaves an empty window, whatever was in it.
LEMMA ReseedHolds ==
  ASSUME NEW m \in Monitors, NEW fraction
  PROVE  Judge(m, TRUE, fraction) \in Monitors /\ Holds(Judge(m, TRUE, fraction), <<>>)
<1>1. Judge(m, TRUE, fraction)
        = [values |-> m.values, count |-> 0, next |-> 0, since_reseed |-> 0]
  BY DEF Judge, Emptied, Monitors
<1>2. 0 \in 0..KWindow /\ 0 \in 0..(KWindow - 1) /\ 0 \in 0..KMaxCounted /\ 0 < KWindow
  BY WindowParams
<1>3. m.values \in [0..(KWindow - 1) -> Nat]
  BY DEF Monitors
<1> DEFINE w == [values |-> m.values, count |-> 0, next |-> 0, since_reseed |-> 0]
<1>4. w \in Monitors
  BY <1>2, <1>3 DEF Monitors
<1>5. Len(<<>>) = 0 /\ \A i \in 1..0 : FALSE
  OBVIOUS
<1>6. Holds(w, <<>>)
  BY <1>2, <1>5 DEF Holds
<1> QED BY <1>1, <1>4, <1>6

\* A judged update is appended, and takes the place of the oldest one when the
\* window is full.
LEMMA JudgeHolds ==
  ASSUME NEW m \in Monitors, NEW judged \in Seq(Nat), Len(judged) <= KMaxCounted,
         Holds(m, judged), NEW fraction \in Nat
  PROVE  LET w == Judge(m, FALSE, fraction)
             after == Remembered(judged, fraction)
         IN  /\ w \in Monitors
             /\ after \in Seq(Nat) /\ Len(after) <= KMaxCounted
             /\ Holds(w, after)
<1> USE WindowParams
<1> DEFINE n == Len(judged)
           c == IF m.count < KWindow THEN m.count + 1 ELSE m.count
           s == IF m.since_reseed < KMaxCounted THEN m.since_reseed + 1 ELSE m.since_reseed
           v == [m.values EXCEPT ![m.next] = fraction]
           w == [values |-> v, count |-> c, next |-> Following(m.next), since_reseed |-> s]
           after == Remembered(judged, fraction)
           l == Len(after)
<1>1. Judge(m, FALSE, fraction) = w
  BY DEF Judge, Monitors
<1>2. /\ m.values \in [0..(KWindow - 1) -> Nat] /\ m.next \in 0..(KWindow - 1)
      /\ m.count \in 0..KWindow /\ m.since_reseed \in 0..KMaxCounted
  BY DEF Monitors
<1>3. Following(m.next) = IF m.next + 1 < KWindow THEN m.next + 1 ELSE 0
  BY <1>2, FollowingWraps
<1>4. w \in Monitors
  <2>1. v \in [0..(KWindow - 1) -> Nat]
    BY <1>2
  <2>2. c \in 0..KWindow /\ s \in 0..KMaxCounted
    BY <1>2
  <2>3. Following(m.next) \in 0..(KWindow - 1)
    BY <1>2, <1>3
  <2> HIDE DEF c, s, v
  <2> QED BY <2>1, <2>2, <2>3 DEF Monitors
<1>5. /\ after \in Seq(Nat)
      /\ l = IF n < KMaxCounted THEN n + 1 ELSE n
      /\ l \in Nat \ {0} /\ after[l] = fraction
      /\ \A i \in 1..(l - 1) : i + n + 1 - l \in 1..n /\ after[i] = judged[i + n + 1 - l]
  <2>1. n \in Nat /\ KMaxCounted \in Nat \ {0}
    OBVIOUS
  <2>2. CASE n < KMaxCounted
    <3>1. after = Append(judged, fraction)
      BY <2>2 DEF Remembered
    <3> HIDE DEF after
    <3> QED BY <2>1, <2>2, <3>1
  <2>3. CASE ~(n < KMaxCounted)
    <3>1. after = Append(Tail(judged), fraction)
      BY <2>3 DEF Remembered
    <3>2. n = KMaxCounted /\ judged # <<>>
      BY <2>1, <2>3
    <3>3. /\ Tail(judged) \in Seq(Nat) /\ Len(Tail(judged)) = n - 1
          /\ \A i \in 1..(n - 1) : Tail(judged)[i] = judged[i + 1]
      BY <2>1, <3>2
    <3> HIDE DEF after
    <3> QED BY <2>1, <2>3, <3>1, <3>2, <3>3
  <2> QED BY <2>2, <2>3
<1> HIDE DEF after
<1>6. l <= KMaxCounted /\ n \in Nat
  BY <1>5
<1>7. s = l /\ c = IF l < KWindow THEN l ELSE KWindow
  BY <1>5, <1>6 DEF Holds
<1>10. \A i \in 1..n : i > n - KWindow => JudgedAt(m, i, n) = judged[i]
  BY DEF Holds
<1>12. n \in Int /\ l \in Int /\ 1 <= l
  BY <1>5, <1>6
<1> HIDE DEF n, l
<1>8. ASSUME NEW i \in 1..l, i > l - KWindow PROVE JudgedAt(w, i, l) = after[i]
  <2> DEFINE f == Following(m.next)
             p == m.next
             d == i - l
             z == f + d - 1
  <2>1. /\ p \in Int /\ 0 <= p /\ p < KWindow /\ KWindow \in Int
        /\ f = IF p + 1 < KWindow THEN p + 1 ELSE 0
        /\ d \in Int /\ -KWindow < d /\ d <= 0
    <3>1. i \in Int /\ l \in Int /\ i <= l /\ i > l - KWindow
      BY <1>8, <1>12
    <3> QED BY <1>2, <1>3, <3>1
  <2>2. JudgedAt(w, i, l) = v[z % KWindow]
    <3>1. f + i - l - 1 = z
      BY <1>3, <1>2, <1>12
    <3> HIDE DEF z
    <3> QED BY <3>1 DEF JudgedAt
  <2> HIDE DEF f, p, d
  <2>3. z % KWindow = IF p + d < 0 THEN p + d + KWindow ELSE p + d
    <3>1. z \in Int /\ -KWindow <= z /\ z < KWindow
      BY <2>1
    <3>2. z = IF p + 1 < KWindow THEN p + d ELSE d - 1
      BY <2>1
    <3> HIDE DEF z
    <3>3. z % KWindow = IF z < 0 THEN z + KWindow ELSE z
      BY <3>1
    <3> QED BY <2>1, <3>2, <3>3
  <2>4. CASE i = l
    <3>1. d = 0
      BY <2>4, <1>12 DEF d
    <3>2. z % KWindow = p
      BY <2>1, <2>3, <3>1
    <3> HIDE DEF z
    <3> QED BY <1>2, <1>5, <2>2, <2>4, <3>2 DEF p
  <2>5. CASE i # l
    <3> DEFINE j == i + n + 1 - l
               x == p + j - n - 1
               y == z % KWindow
    <3>1. i \in 1..(l - 1) /\ i \in Int
      BY <1>12, <2>5
    <3>2. j \in 1..n /\ after[i] = judged[j]
      BY <1>5, <3>1
    <3>3. j > n - KWindow /\ x = p + d /\ d # 0
      BY <1>8, <1>12, <2>1, <3>1, <2>5 DEF d
    <3>4. JudgedAt(m, j, n) = judged[j]
      <4> HIDE DEF j
      <4> QED BY <3>2, <3>3, <1>10
    <3>5. x % KWindow = IF p + d < 0 THEN p + d + KWindow ELSE p + d
      <4>1. p + d \in Int /\ -KWindow <= p + d /\ p + d < KWindow
        BY <2>1
      <4> HIDE DEF x
      <4> QED BY <3>3, <4>1
    <3>6. y = x % KWindow
      BY <2>3, <3>5
    <3>7. y \in 0..(KWindow - 1) /\ y # p
      <4> HIDE DEF z
      <4> QED BY <2>1, <2>3, <3>3
    <3>8. v[y] = m.values[y]
      <4> HIDE DEF y
      <4> QED BY <1>2, <3>7 DEF p
    <3> HIDE DEF j
    <3>9. JudgedAt(m, j, n) = m.values[x % KWindow]
      BY DEF JudgedAt, p
    <3> HIDE DEF x, z
    <3> QED BY <2>2, <3>2, <3>4, <3>6, <3>8, <3>9
  <2> QED BY <2>4, <2>5
<1>13. c < KWindow => Following(m.next) = c
  <2>1. m.count < KWindow => m.next = m.count
    BY DEF Holds
  <2> QED BY <2>1, <1>2, <1>3
<1>9. Holds(w, after)
  <2>1. w.since_reseed = s /\ w.count = c /\ w.next = Following(m.next)
    OBVIOUS
  <2> HIDE DEF w, s, c
  <2> QED BY <1>7, <1>8, <1>13, <2>1 DEF Holds, l
<1>11. after \in Seq(Nat) /\ Len(after) <= KMaxCounted
  BY <1>5, <1>6 DEF l
<1> HIDE DEF w
<1> QED BY <1>1, <1>4, <1>9, <1>11 DEF after
-----------------------------------------------------------------------------
(* The filter and its history.                                             *)

Histories == [anchored : BOOLEAN, anchor : Pose, fresh : BOOLEAN, judged : Seq(Nat)]

\* The first update after a seed makes the history fresh and anchors it, and gives
\* the filter its odometry reference; from then on nothing waits for an update.
Referenced(t, h) ==
  /\ h.fresh = t.have_last_odom /\ h.anchored = t.have_last_odom
  /\ t.have_last_odom => t.filter_init /\ ~t.force_update /\ t.have_map_odom
  /\ t.filter_init /\ ~t.have_last_odom => t.force_update

\* The mean of the particles and map_odom both are what the anchor makes them.
OnAnchor(t, h) ==
  t.have_last_odom /\ t.n > 0 => /\ t.map_odom = h.anchor
                                 /\ t.cloud = compose(h.anchor, t.last_odom)

\* The window holds what was judged since the seed.
Windowed(t, h) ==
  /\ Len(h.judged) <= KMaxCounted
  /\ ~t.have_last_odom => h.judged = <<>>
  /\ ~Laser /\ t.have_last_odom => Holds(t.match, h.judged)

\* Two particles at the start leave one of them to every seed and resampling.
Populated(t) == MaxParticles >= 2 /\ t.filter_init => t.n > 0

TrackerInv(t, h) ==
  /\ t \in Trackers /\ h \in Histories
  /\ Referenced(t, h) /\ OnAnchor(t, h) /\ Windowed(t, h) /\ Populated(t)

\* What the published poses say of the filter.
Published(t, h, poses) ==
  \A p \in poses : h.fresh /\ (t.n > 0 => p.pose = compose(h.anchor, p.odom))

(* The relocalization and its history.                                     *)

VerifierTyped ==
  /\ rel = [requested |-> rel.requested, active |-> rel.active,
            last_odom |-> rel.last_odom, state |-> rel.state, ver |-> rel.ver]
  /\ rel.requested \in BOOLEAN /\ rel.active \in BOOLEAN /\ rel.last_odom \in Pose
  /\ rel.state \in {"idle", "pending", "waiting", "accepted", "ambiguous", "no candidate"}
  /\ IsVerifier(rel.ver)
  /\ relH.since \in 0..VerifyScans

\* While a verification runs, it is wanted, each of its hypotheses is on its
\* transform and has seen every scan of evidence, all since the last command.
Verifying ==
  rel.active => /\ rel.ver.status = "pending" /\ Complete(rel.ver)
                /\ relH.anchors \in [DOMAIN rel.ver.hyps -> Pose]
                /\ Chained(rel.ver, relH.anchors, rel.last_odom)
                /\ relH.since >= rel.ver.scans
                /\ Relocalizing

\* The inductive invariant.
IInv == /\ TrackerInv(trk, trkH) /\ Published(trk, trkH, out)
        /\ VerifierTyped /\ Verifying
        /\ grid \in 0..MaxMaps /\ bbs_matcher \in 0..grid /\ commands \in 0..MaxCommands
-----------------------------------------------------------------------------
(* runUpdate() and publish().                                              *)

\* A filter seeded for the scan taken at odometry pose odom by a relocalization;
\* resolves tells that runUpdate() finds that pose.
JustSeeded(t, h, odom, resolves) ==
  /\ t.filter_init /\ t.force_update /\ ~t.have_last_odom /\ t.n > 0
  /\ h.anchored = resolves /\ ~h.fresh /\ h.judged = <<>>
  /\ t.cloud = compose(h.anchor, odom)

\* The transform the filter stands for before an update at odometry pose odom.
AnchorAt(t, h, odom) == IF h.anchored THEN h.anchor ELSE compose(t.cloud, inverse(odom))

\* An update makes map_odom the corrected anchor, and moves the mean there.
LEMMA EstimateOnAnchor ==
  ASSUME NEW anchor \in Pose, NEW cloud \in Pose, NEW last \in Pose, NEW odom \in Pose,
         NEW corr \in Pose, cloud = compose(anchor, last)
  PROVE  LET base == compose(compose(cloud, Between(last, odom)), corr)
             next == Corrected(anchor, odom, corr)
         IN  base \in Pose /\ next \in Pose /\ compose(base, inverse(odom)) = next
               /\ base = compose(next, odom)
<1>1. compose(cloud, Between(last, odom)) = compose(anchor, odom)
  <2> DEFINE step == Between(last, odom)
  <2>1. step \in Pose
    BY PoseClosed
  <2>2. compose(last, step) = odom
    BY BetweenLeads
  <2> HIDE DEF step
  <2>3. compose(compose(anchor, last), step) = compose(anchor, odom)
    BY <2>1, <2>2, ComposeAssociative
  <2> QED BY <2>3 DEF step
<1> DEFINE base == compose(compose(cloud, Between(last, odom)), corr)
           next == Corrected(anchor, odom, corr)
<1>2. base = compose(compose(anchor, odom), corr)
  BY <1>1
<1>3. base \in Pose
  <2>1. compose(anchor, odom) \in Pose
    BY PoseClosed
  <2> QED BY <1>2, <2>1, PoseClosed
<1>4. next = compose(base, inverse(odom))
  BY <1>2 DEF Corrected
<1>5. next \in Pose
  <2>1. inverse(odom) \in Pose
    BY PoseClosed
  <2> HIDE DEF base
  <2> QED BY <1>3, <1>4, <2>1, PoseClosed
<1>6. compose(next, odom) = base
  <2> HIDE DEF base
  <2> QED BY <1>3, <1>4, RightDivision
<1> QED BY <1>3, <1>4, <1>5, <1>6

\* What an update leaves of the filter and its history, before estimate() is looked into.
LEMMA UpdateMembers ==
  ASSUME NEW t \in Trackers, NEW h \in Histories, NEW odom \in Pose, NEW corr \in Pose,
         NEW m \in Nat, NEW fraction \in Nat, Updates(t, odom)
  PROVE  LET last == IF t.have_last_odom THEN t.last_odom ELSE odom
             base == IF t.n = 0 THEN Origin
                     ELSE compose(compose(t.cloud, Between(last, odom)), corr)
         IN  /\ RunUpdate(t, odom, corr, m, fraction) =
                   [filter_init |-> t.filter_init, force_update |-> FALSE,
                    have_last_odom |-> TRUE, last_odom |-> odom,
                    have_map_odom |-> TRUE, map_odom |-> compose(base, inverse(odom)),
                    cloud |-> base, n |-> m,
                    match |-> IF Laser THEN t.match ELSE Judge(t.match, t.force_update, fraction)]
             /\ UpdateHistory(h, t, odom, corr, fraction) =
                   [anchored |-> TRUE, anchor |-> Corrected(AnchorAt(t, h, odom), odom, corr),
                    fresh |-> TRUE,
                    judged |-> IF Laser \/ t.force_update THEN h.judged
                               ELSE Remembered(h.judged, fraction)]
<1> DEFINE r == WithReference(t, odom)
           last == IF t.have_last_odom THEN t.last_odom ELSE odom
           base == IF t.n = 0 THEN Origin
                   ELSE compose(compose(t.cloud, Between(last, odom)), corr)
           match == IF Laser THEN t.match ELSE Judge(t.match, t.force_update, fraction)
           judged == IF Laser \/ t.force_update THEN h.judged ELSE Remembered(h.judged, fraction)
           next == Corrected(AnchorAt(t, h, odom), odom, corr)
<1>1. r = [t EXCEPT !.last_odom = last, !.have_last_odom = TRUE]
  BY DEF WithReference, Trackers
<1>2. /\ r.last_odom = last /\ r.cloud = t.cloud /\ r.n = t.n
      /\ r.match = t.match /\ r.force_update = t.force_update
  BY <1>1 DEF Trackers
<1>3. Estimate(r, odom, corr) = base
  <2> HIDE DEF r, last
  <2> QED BY <1>2 DEF Estimate, base
<1>4. RunUpdate(t, odom, corr, m, fraction)
        = [r EXCEPT !.cloud = base, !.n = m, !.match = match, !.last_odom = odom,
                    !.force_update = FALSE, !.map_odom = compose(base, inverse(odom)),
                    !.have_map_odom = TRUE]
  <2> HIDE DEF r, base
  <2> QED BY <1>2, <1>3 DEF RunUpdate, FilterUpdate, r
<1>5. UpdateHistory(h, t, odom, corr, fraction)
        = [h EXCEPT !.anchored = TRUE, !.anchor = next, !.fresh = TRUE, !.judged = judged]
  BY DEF UpdateHistory, AnchorAt
<1> HIDE DEF base, match, judged, next, last
<1>6. RunUpdate(t, odom, corr, m, fraction)
        = [filter_init |-> t.filter_init, force_update |-> FALSE,
           have_last_odom |-> TRUE, last_odom |-> odom,
           have_map_odom |-> TRUE, map_odom |-> compose(base, inverse(odom)),
           cloud |-> base, n |-> m, match |-> match]
  <2> HIDE DEF r
  <2> QED BY <1>1, <1>4 DEF Trackers
<1>7. UpdateHistory(h, t, odom, corr, fraction)
        = [anchored |-> TRUE, anchor |-> next, fresh |-> TRUE, judged |-> judged]
  BY <1>5 DEF Histories
<1> QED BY <1>6, <1>7 DEF base, match, judged, next, last

\* An update leaves the invariant of the filter, whether it comes on a filter that
\* has it or on one a relocalization has just seeded.
LEMMA UpdateKeepsTracker ==
  ASSUME NEW t \in Trackers, NEW h \in Histories, NEW odom \in Pose, NEW corr \in Pose,
         NEW m \in ResampledSizes(t.n), NEW fraction \in Nat,
         t.filter_init, Updates(t, odom),
         TrackerInv(t, h) \/ JustSeeded(t, h, odom, TRUE)
  PROVE  LET u == RunUpdate(t, odom, corr, m, fraction)
             g == UpdateHistory(h, t, odom, corr, fraction)
         IN  /\ TrackerInv(u, g)
             /\ u.filter_init /\ u.have_last_odom /\ u.last_odom = odom
<1> USE NodeParams
<1> DEFINE u == RunUpdate(t, odom, corr, m, fraction)
           g == UpdateHistory(h, t, odom, corr, fraction)
           last == IF t.have_last_odom THEN t.last_odom ELSE odom
           base == IF t.n = 0 THEN Origin
                   ELSE compose(compose(t.cloud, Between(last, odom)), corr)
           anchor == AnchorAt(t, h, odom)
           match == IF Laser THEN t.match ELSE Judge(t.match, t.force_update, fraction)
           judged == IF Laser \/ t.force_update THEN h.judged ELSE Remembered(h.judged, fraction)
<1>1. /\ t.cloud \in Pose /\ t.last_odom \in Pose /\ t.n \in Nat /\ t.match \in Monitors
      /\ t.force_update \in BOOLEAN /\ h.anchor \in Pose /\ h.judged \in Seq(Nat)
  BY DEF Trackers, Histories
<1>2. m \in Nat /\ (t.n = 0 => m = 0) /\ (t.n > 0 => m > 0)
  BY <1>1 DEF ResampledSizes
<1>3. anchor \in Pose /\ last \in Pose
  <2>1. compose(t.cloud, inverse(odom)) \in Pose
    BY <1>1, PoseClosed
  <2> QED BY <1>1, <2>1 DEF AnchorAt
<1>4. t.n > 0 => t.cloud = compose(anchor, last)
  <2>1. CASE JustSeeded(t, h, odom, TRUE)
    BY <2>1 DEF JustSeeded, AnchorAt
  <2>2. CASE TrackerInv(t, h)
    <3>1. CASE t.have_last_odom
      BY <2>2, <3>1 DEF TrackerInv, Referenced, OnAnchor, AnchorAt
    <3>2. CASE ~t.have_last_odom
      <4>1. anchor = compose(t.cloud, inverse(odom)) /\ last = odom
        BY <2>2, <3>2 DEF TrackerInv, Referenced, AnchorAt
      <4> QED BY <1>1, <4>1, RightDivision
    <3> QED BY <3>1, <3>2
  <2> QED BY <2>1, <2>2
<1>5. /\ u = [filter_init |-> t.filter_init, force_update |-> FALSE,
              have_last_odom |-> TRUE, last_odom |-> odom,
              have_map_odom |-> TRUE, map_odom |-> compose(base, inverse(odom)),
              cloud |-> base, n |-> m, match |-> match]
      /\ g = [anchored |-> TRUE, anchor |-> Corrected(anchor, odom, corr),
              fresh |-> TRUE, judged |-> judged]
  BY <1>2, UpdateMembers
<1>6. /\ base \in Pose /\ Corrected(anchor, odom, corr) \in Pose
      /\ compose(base, inverse(odom)) \in Pose
      /\ t.n > 0 => /\ compose(base, inverse(odom)) = Corrected(anchor, odom, corr)
                    /\ base = compose(Corrected(anchor, odom, corr), odom)
  <2>1. Corrected(anchor, odom, corr) \in Pose
    <3>1. compose(anchor, odom) \in Pose /\ inverse(odom) \in Pose
      <4> HIDE DEF anchor
      <4> QED BY <1>3, PoseClosed
    <3>2. compose(compose(anchor, odom), corr) \in Pose
      <4> HIDE DEF anchor
      <4> QED BY <3>1, PoseClosed
    <3> QED BY <3>1, <3>2, PoseClosed DEF Corrected
  <2>2. CASE t.n = 0
    <3>1. base = Origin
      BY <2>2
    <3>2. Origin \in Pose /\ inverse(odom) \in Pose
      BY PoseClosed
    <3>3. compose(Origin, inverse(odom)) \in Pose
      BY <3>2, PoseClosed
    <3> HIDE DEF base
    <3> QED BY <2>1, <2>2, <3>1, <3>2, <3>3
  <2>3. CASE t.n > 0
    <3>1. base = compose(compose(t.cloud, Between(last, odom)), corr)
      BY <2>3
    <3>2. t.cloud = compose(anchor, last)
      BY <1>4, <2>3
    <3> HIDE DEF base, anchor, last
    <3>3. /\ base \in Pose /\ base = compose(Corrected(anchor, odom, corr), odom)
          /\ compose(base, inverse(odom)) = Corrected(anchor, odom, corr)
      BY <1>1, <1>3, <3>1, <3>2, EstimateOnAnchor
    <3> QED BY <2>1, <3>3
  <2> QED BY <1>1, <2>2, <2>3
<1>7. /\ match \in Monitors /\ judged \in Seq(Nat) /\ Len(judged) <= KMaxCounted
      /\ ~Laser => Holds(match, judged)
  <2>1. CASE t.force_update
    <3>1. h.judged = <<>>
      BY <2>1 DEF TrackerInv, JustSeeded, Referenced, Windowed
    <3>2. judged = <<>> /\ Len(<<>>) = 0
      BY <2>1, <3>1
    <3>3. match = IF Laser THEN t.match ELSE Judge(t.match, TRUE, fraction)
      BY <1>1, <2>1
    <3>4. Judge(t.match, TRUE, fraction) \in Monitors
          /\ Holds(Judge(t.match, TRUE, fraction), <<>>)
      BY <1>1, ReseedHolds
    <3>5. <<>> \in Seq(Nat) /\ 0 <= KMaxCounted
      BY WindowParams
    <3> HIDE DEF match, judged
    <3> QED BY <1>1, <3>2, <3>3, <3>4, <3>5
  <2>2. CASE ~t.force_update
    <3>1. TrackerInv(t, h) /\ t.have_last_odom
      BY <2>2 DEF JustSeeded, TrackerInv, Referenced
    <3>2. Len(h.judged) <= KMaxCounted /\ (~Laser => Holds(t.match, h.judged))
      BY <3>1 DEF TrackerInv, Windowed
    <3>3. CASE Laser
      BY <1>1, <3>2, <3>3
    <3>4. CASE ~Laser
      <4>1. match = Judge(t.match, FALSE, fraction) /\ judged = Remembered(h.judged, fraction)
        BY <1>1, <2>2, <3>4
      <4> HIDE DEF match, judged
      <4> QED BY <1>1, <3>2, <3>4, <4>1, JudgeHolds
    <3> QED BY <3>3, <3>4
  <2> QED BY <1>1, <2>1, <2>2
<1>8. Populated(t)
  BY <1>1 DEF JustSeeded, TrackerInv, Populated
<1> HIDE DEF u, g, base, anchor, match, judged
<1>9. u \in Trackers /\ g \in Histories
  BY <1>1, <1>2, <1>5, <1>6, <1>7 DEF Trackers, Histories
<1>10. Referenced(u, g) /\ Windowed(u, g)
  BY <1>5, <1>7 DEF Referenced, Windowed
<1>11. OnAnchor(u, g) /\ Populated(u)
  BY <1>1, <1>2, <1>5, <1>6, <1>8 DEF OnAnchor, Populated
<1> QED BY <1>5, <1>9, <1>10, <1>11 DEF TrackerInv, u, g

\* The end of onScan() and onPoints(): with an initialized filter and its odometry
\* pose, the filter is referenced after it, and what is published is on the anchor.
LEMMA TrackKeeps ==
  ASSUME NEW t \in Trackers, NEW h \in Histories, NEW odom \in Pose, NEW resolves \in BOOLEAN,
         TrackerInv(t, h) \/ JustSeeded(t, h, odom, resolves),
         Track(t, h, odom, resolves)
  PROVE  /\ TrackerInv(trk', trkH') /\ Published(trk', trkH', out')
         /\ trk'.filter_init = t.filter_init
         /\ t.filter_init /\ resolves => trk'.have_last_odom
<1> USE NodeParams
<1>1. CASE t.filter_init /\ resolves
  <2>1. PICK corr \in TrackCorrections, m \in ResampledSizes(t.n), fraction \in Fractions :
          /\ trk' = RunUpdate(t, odom, corr, m, fraction)
          /\ trkH' = UpdateHistory(h, t, odom, corr, fraction)
    BY <1>1 DEF Track
  <2>2. out' = IF trk'.have_map_odom THEN {Publication(trk', odom)} ELSE {}
    BY <1>1 DEF Track
  <2>3. corr \in Pose /\ fraction \in Nat /\ resolves = TRUE
    BY <1>1
  <2>4. /\ TrackerInv(trk', trkH') /\ trk'.filter_init
        /\ trk'.have_last_odom
    <3>1. CASE Updates(t, odom)
      BY <1>1, <2>1, <2>3, <3>1, UpdateKeepsTracker
    <3>2. CASE ~Updates(t, odom)
      <4>1. ~t.force_update
        BY <3>2 DEF Updates
      <4>2. TrackerInv(t, h) /\ t.have_last_odom
        BY <1>1, <4>1 DEF JustSeeded, TrackerInv, Referenced
      <4>3. trk' = t /\ trkH' = h
        BY <2>1, <3>2, <4>2 DEF RunUpdate, UpdateHistory, WithReference
      <4> QED BY <1>1, <4>2, <4>3
    <3> QED BY <3>1, <3>2
  <2>5. ASSUME NEW p \in out'
        PROVE  trkH'.fresh /\ (trk'.n > 0 => p.pose = compose(trkH'.anchor, p.odom))
    <3>1. p.odom = odom /\ p.pose = compose(trk'.map_odom, odom)
      BY <2>2, <2>5 DEF Publication
    <3> QED BY <2>4, <3>1 DEF TrackerInv, Referenced, OnAnchor
  <2> QED BY <1>1, <2>4, <2>5 DEF Published
<1>2. CASE ~(t.filter_init /\ resolves)
  <2>1. trk' = t /\ trkH' = h /\ out' = {}
    BY <1>2 DEF Track
  <2>2. CASE TrackerInv(t, h)
    BY <1>2, <2>1, <2>2 DEF Published
  <2>3. CASE JustSeeded(t, h, odom, resolves)
    <3>1. resolves = FALSE /\ Len(<<>>) = 0 /\ 0 <= KMaxCounted
      BY <1>2, <2>3, WindowParams DEF JustSeeded
    <3>2. /\ t.filter_init /\ t.force_update /\ ~t.have_last_odom /\ t.n > 0
          /\ h.anchored = FALSE /\ ~h.fresh /\ h.judged = <<>>
      BY <2>3, <3>1 DEF JustSeeded
    <3>3. h.fresh = t.have_last_odom /\ h.anchored = t.have_last_odom
      BY <3>2 DEF Trackers, Histories
    <3>4. Referenced(t, h) /\ OnAnchor(t, h) /\ Populated(t)
      BY <3>2, <3>3 DEF Referenced, OnAnchor, Populated
    <3>5. Windowed(t, h)
      BY <3>1, <3>2 DEF Windowed
    <3> QED BY <1>2, <2>1, <3>4, <3>5 DEF TrackerInv, Published
  <2> QED BY <2>2, <2>3
<1> QED BY <1>1, <1>2

(* The paths that seed the filter.                                         *)

\* A seed leaves the filter waiting for its first update.
LEMMA SeededMembers ==
  ASSUME NEW t \in Trackers, NEW mean \in Pose, NEW n \in Nat
  PROVE  LET u == [Seeded(t, mean, n) EXCEPT !.have_last_odom = FALSE]
         IN  /\ u \in Trackers /\ Seeded(t, mean, n) \in Trackers
             /\ u.filter_init /\ u.force_update /\ ~u.have_last_odom
             /\ u.cloud = mean /\ u.n = n
BY DEF Seeded, Trackers

\* onInitialPose(), and the constructor with set_initial_pose.
LEMMA UnanchoredSeed ==
  ASSUME NEW u \in Trackers, u.filter_init, u.force_update, ~u.have_last_odom, Populated(u)
  PROVE  TrackerInv(u, SeedHistory(FALSE, Origin))
<1> DEFINE h == SeedHistory(FALSE, Origin)
<1>1. Origin \in Pose /\ <<>> \in Seq(Nat) /\ Len(<<>>) = 0 /\ 0 <= KMaxCounted
  BY WindowParams DEF Origin, Pose, Heading
<1>2. /\ h \in Histories /\ h.fresh = FALSE /\ h.anchored = FALSE /\ h.judged = <<>>
  BY <1>1 DEF SeedHistory, Histories
<1>3. u.have_last_odom = FALSE
  BY DEF Trackers
<1> HIDE DEF h
<1>4. Referenced(u, h) /\ OnAnchor(u, h) /\ Windowed(u, h)
  BY <1>1, <1>2, <1>3 DEF Referenced, OnAnchor, Windowed
<1> QED BY <1>2, <1>4 DEF TrackerInv, h

LEMMA ManualSeedKeeps ==
  ASSUME NEW t \in Trackers, NEW mean \in Pose
  PROVE  TrackerInv(ManualSeed(t, mean), SeedHistory(FALSE, Origin))
<1> DEFINE n == IF t.n = 0 THEN SeedDefault ELSE t.n
           m == IF n > SeedFloor THEN n ELSE SeedFloor
           u == [Seeded(t, mean, m) EXCEPT !.have_last_odom = FALSE]
<1>1. m \in Nat /\ m > 0
  BY NodeParams DEF Trackers
<1> HIDE DEF m
<1>2. u \in Trackers /\ u.filter_init /\ u.force_update /\ ~u.have_last_odom /\ u.n > 0
  BY <1>1, SeededMembers
<1>3. ManualSeed(t, mean) = u
  BY DEF ManualSeed, m
<1> HIDE DEF u
<1> QED BY <1>2, <1>3, UnanchoredSeed DEF Populated

\* runRelocalization(), case kAccepted.
LEMMA RelocSeedKeeps ==
  ASSUME NEW t \in Trackers, NEW anchor \in Pose, NEW odom \in Pose, NEW resolves \in BOOLEAN
  PROVE  LET u == RelocSeed(t, compose(anchor, odom))
             h == SeedHistory(resolves, anchor)
         IN  u \in Trackers /\ h \in Histories /\ JustSeeded(u, h, odom, resolves)
<1> DEFINE n == IF t.n > 0 THEN t.n ELSE SeedDefault
           mean == compose(anchor, odom)
           u == [Seeded(t, mean, n) EXCEPT !.have_last_odom = FALSE]
           h == SeedHistory(resolves, anchor)
<1>1. n \in Nat /\ n > 0
  BY NodeParams DEF Trackers
<1>2. mean \in Pose
  BY PoseClosed
<1>3. RelocSeed(t, mean) = u
  BY DEF RelocSeed
<1> HIDE DEF n
<1>4. /\ u \in Trackers /\ u.filter_init /\ u.force_update /\ ~u.have_last_odom
      /\ u.n > 0 /\ u.cloud = mean
  <2> HIDE DEF mean
  <2> QED BY <1>1, <1>2, SeededMembers
<1>5. h \in Histories /\ h.anchored = resolves /\ ~h.fresh /\ h.judged = <<>> /\ h.anchor = anchor
  BY DEF SeedHistory, Histories
<1> HIDE DEF u, h
<1> QED BY <1>3, <1>4, <1>5 DEF JustSeeded, h
-----------------------------------------------------------------------------
(* runRelocalization().                                                    *)

\* The members and the history once the verifier has seen a scan taken at
\* odometry pose odom.
Advanced(odom) ==
  /\ VerifierTyped'
  /\ relH'.anchors \in [DOMAIN rel'.ver.hyps -> Pose]
  /\ Chained(rel'.ver, relH'.anchors, odom)
  /\ Complete(rel'.ver)
  /\ Current(rel'.ver, relH'.anchors, odom)
  /\ relH'.since >= rel'.ver.scans
  /\ rel'.active => rel'.ver.status = "pending" /\ rel'.last_odom = odom
  /\ rel'.state = "accepted" <=> rel'.ver.status = "accepted"
  /\ rel'.ver.status = "accepted" => ~rel'.active
  /\ rel'.requested = (rel.requested /\ rel'.ver.status # "accepted")

\* A pending verifier has been given the odometry at its last scan.
LEMMA PendingNeedsOdom ==
  ASSUME NEW v, IsVerifier(v), Complete(v), v.status = "pending", NEW odom
  PROVE  NeedOdom /\ RelocOdom(odom) = odom
BY VerifierParams DEF Complete, NeedOdom, RelocOdom

LEMMA AfterVerifierMembers ==
  ASSUME VerifierTyped, NEW w, IsVerifier(w), Complete(w), NEW odom \in Pose,
         rel' = AfterVerifier(rel, w, odom)
  PROVE  /\ rel' = [requested |-> rel'.requested, active |-> rel'.active,
                    last_odom |-> rel'.last_odom, state |-> rel'.state, ver |-> rel'.ver]
         /\ rel'.ver = w
         /\ rel'.requested = (rel.requested /\ w.status # "accepted")
         /\ rel'.requested \in BOOLEAN /\ rel'.active \in BOOLEAN
         /\ rel'.active = (w.status = "pending")
         /\ rel'.last_odom \in Pose /\ (rel'.active => rel'.last_odom = odom)
         /\ rel'.state \in {"idle", "pending", "waiting", "accepted", "ambiguous", "no candidate"}
         /\ rel'.state = "accepted" <=> w.status = "accepted"
<1> DEFINE v == IF rel.active THEN rel.ver ELSE w
           requested == rel.requested /\ w.status # "accepted"
           active == w.status = "pending"
           state == RelocState(v, w)
<1>1. rel = [requested |-> rel.requested, active |-> rel.active,
             last_odom |-> rel.last_odom, state |-> rel.state, ver |-> rel.ver]
  BY DEF VerifierTyped
<1>2. rel' = [rel EXCEPT !.ver = w, !.last_odom = RelocOdom(odom), !.active = active,
                         !.requested = requested, !.state = state]
  BY DEF AfterVerifier, StillRequested
<1>3. /\ state \in {"pending", "waiting", "accepted", "ambiguous", "no candidate"}
      /\ state = "accepted" <=> w.status = "accepted"
  BY DEF RelocState
<1>4. RelocOdom(odom) \in Pose
  BY DEF RelocOdom, Origin, Pose, Heading
<1>5. active => RelocOdom(odom) = odom
  BY PendingNeedsOdom
<1>6. requested \in BOOLEAN /\ active \in BOOLEAN
  OBVIOUS
<1> HIDE DEF requested, active, state
<1>7. rel' = [requested |-> requested, active |-> active, last_odom |-> RelocOdom(odom),
              state |-> state, ver |-> w]
  BY <1>1, <1>2
<1>8. /\ rel'.requested = requested /\ rel'.active = active /\ rel'.state = state
      /\ rel'.last_odom = RelocOdom(odom) /\ rel'.ver = w
  BY <1>7
<1> QED BY <1>3, <1>4, <1>5, <1>6, <1>7, <1>8 DEF requested, active

LEMMA StartAdvances ==
  ASSUME VerifierTyped, NEW odom \in Pose, StartVerification(odom)
  PROVE  Advanced(odom)
<1>1. PICK modes \in ModeLists(odom) :
        LET w == Seed(modes)
        IN  /\ rel' = AfterVerifier(rel, w, odom)
            /\ relH' = [anchors |-> [k \in DOMAIN w.hyps |->
                                       compose(w.hyps[k].pose, inverse(odom))],
                        since |-> OneMore]
  BY DEF StartVerification
<1> DEFINE w == Seed(modes)
<1>2. /\ rel' = AfterVerifier(rel, w, odom)
      /\ relH'.anchors = SeedAnchors(w, odom) /\ relH'.since = OneMore
  BY <1>1 DEF SeedAnchors
<1>3. /\ IsVerifier(w) /\ SeedAnchors(w, odom) \in [DOMAIN w.hyps -> Pose]
      /\ Chained(w, SeedAnchors(w, odom), odom)
      /\ Complete(w) /\ Current(w, SeedAnchors(w, odom), odom)
      /\ w.scans \in {0, 1}
  BY SeedEstablishes
<1>4. OneMore \in 1..VerifyScans
  <2>1. relH.since \in 0..VerifyScans
    BY DEF VerifierTyped
  <2> QED BY <2>1, VerifierParams DEF OneMore
<1> HIDE DEF w
<1>5. /\ rel' = [requested |-> rel'.requested, active |-> rel'.active,
                 last_odom |-> rel'.last_odom, state |-> rel'.state, ver |-> rel'.ver]
      /\ rel'.ver = w
      /\ rel'.requested = (rel.requested /\ w.status # "accepted")
      /\ rel'.requested \in BOOLEAN /\ rel'.active \in BOOLEAN
      /\ rel'.active = (w.status = "pending")
      /\ rel'.last_odom \in Pose /\ (rel'.active => rel'.last_odom = odom)
      /\ rel'.state \in {"idle", "pending", "waiting", "accepted", "ambiguous", "no candidate"}
      /\ rel'.state = "accepted" <=> w.status = "accepted"
  BY <1>2, <1>3, AfterVerifierMembers
<1>6. relH'.since \in 0..VerifyScans /\ relH'.since >= w.scans
  BY <1>2, <1>3, <1>4
<1> QED BY <1>2, <1>3, <1>5, <1>6 DEF Advanced, VerifierTyped

LEMMA ContinueAdvances ==
  ASSUME VerifierTyped, Verifying, NEW odom \in Pose, ContinueVerification(odom)
  PROVE  Advanced(odom)
<1>1. PICK scan \in Scans :
        LET w == Update(rel.ver, Between(rel.last_odom, RelocOdom(odom)), scan)
        IN  /\ rel' = AfterVerifier(rel, w, odom)
            /\ relH' = [anchors |-> NextAnchors(rel.ver, w, relH.anchors, odom, scan),
                        since |-> IF w.scans > rel.ver.scans THEN OneMore ELSE relH.since]
  BY DEF ContinueVerification
<1>2. /\ IsVerifier(rel.ver) /\ rel.ver.status = "pending" /\ Complete(rel.ver)
      /\ relH.anchors \in [DOMAIN rel.ver.hyps -> Pose] /\ rel.last_odom \in Pose
      /\ Chained(rel.ver, relH.anchors, rel.last_odom)
      /\ relH.since >= rel.ver.scans /\ relH.since \in 0..VerifyScans
      /\ rel.ver.scans \in Nat
  BY DEF ContinueVerification, Verifying, VerifierTyped, IsVerifier
<1>3. RelocOdom(odom) = odom
  BY <1>2, PendingNeedsOdom
<1> DEFINE w == Update(rel.ver, Between(rel.last_odom, odom), scan)
           anchors == NextAnchors(rel.ver, w, relH.anchors, odom, scan)
<1>4. /\ rel' = AfterVerifier(rel, w, odom) /\ relH'.anchors = anchors
      /\ relH'.since = IF w.scans > rel.ver.scans THEN OneMore ELSE relH.since
  BY <1>1, <1>3
<1>5. /\ IsVerifier(w) /\ anchors \in [DOMAIN w.hyps -> Pose]
      /\ Chained(w, anchors, odom) /\ Complete(w) /\ Current(w, anchors, odom)
      /\ w.scans = rel.ver.scans \/ w.scans = rel.ver.scans + 1
  BY <1>2, UpdateKeeps
<1> HIDE DEF w, anchors
<1>6. relH'.since \in 0..VerifyScans /\ relH'.since >= w.scans
  <2>1. rel.ver.scans < VerifyScans /\ VerifyScans \in Nat
    BY <1>2, VerifierParams DEF Complete
  <2> QED BY <1>2, <1>4, <1>5, <2>1 DEF OneMore
<1>7. /\ rel' = [requested |-> rel'.requested, active |-> rel'.active,
                 last_odom |-> rel'.last_odom, state |-> rel'.state, ver |-> rel'.ver]
      /\ rel'.ver = w
      /\ rel'.requested = (rel.requested /\ w.status # "accepted")
      /\ rel'.requested \in BOOLEAN /\ rel'.active \in BOOLEAN
      /\ rel'.active = (w.status = "pending")
      /\ rel'.last_odom \in Pose /\ (rel'.active => rel'.last_odom = odom)
      /\ rel'.state \in {"idle", "pending", "waiting", "accepted", "ambiguous", "no candidate"}
      /\ rel'.state = "accepted" <=> w.status = "accepted"
  BY <1>4, <1>5, AfterVerifierMembers
<1> QED BY <1>4, <1>5, <1>6, <1>7 DEF Advanced, VerifierTyped

\* The pose of an accepted verifier is where its anchor puts the robot.
LEMMA AcceptedOnAnchor ==
  ASSUME NEW odom, Advanced(odom), rel'.ver.status = "accepted"
  PROVE  LET anchor == relH'.anchors[MostProbable(rel'.ver.hyps)]
         IN  /\ anchor \in Pose /\ rel'.ver.best = compose(anchor, odom)
             /\ rel'.ver.scans = VerifyScans /\ relH'.since = VerifyScans
<1> DEFINE b == MostProbable(rel'.ver.hyps)
<1>1. /\ rel'.ver.scans = VerifyScans /\ b \in Alive(rel'.ver.hyps)
      /\ rel'.ver.best = compose(relH'.anchors[b], odom)
      /\ relH'.anchors \in [DOMAIN rel'.ver.hyps -> Pose]
  BY DEF Advanced, Current
<1>2. relH'.anchors[b] \in Pose
  <2> HIDE DEF b
  <2> QED BY <1>1 DEF Alive
<1>3. relH'.since \in 0..VerifyScans /\ relH'.since >= VerifyScans
  BY <1>1 DEF Advanced, VerifierTyped
<1> QED BY <1>1, <1>2, <1>3, VerifierParams
-----------------------------------------------------------------------------
(* The callbacks.                                                          *)

LEMMA InitIInv == Init => IInv
<1> SUFFICES ASSUME Init PROVE IInv
  OBVIOUS
<1> USE NodeParams
<1>1. Origin \in Pose /\ NewMonitor \in Monitors
  BY WindowParams DEF Origin, Pose, Heading, NewMonitor, Monitors
<1>2. Unseeded \in Trackers
  BY <1>1 DEF Unseeded, Trackers
<1>3. TrackerInv(trk, trkH)
  <2>1. trkH = SeedHistory(FALSE, Origin)
    BY DEF Init
  <2>2. CASE SetInitialPose
    <3> DEFINE n == MaxParticles \div 2
               u == [Seeded(Unseeded, InitialPose, n) EXCEPT !.have_last_odom = FALSE]
    <3>1. n \in Nat /\ (MaxParticles >= 2 => n > 0)
      OBVIOUS
    <3> HIDE DEF n
    <3>2. u \in Trackers /\ u.filter_init /\ u.force_update /\ ~u.have_last_odom /\ u.n = n
      BY <1>2, <3>1, SeededMembers
    <3>3. u = Seeded(Unseeded, InitialPose, n)
      <4> DEFINE t == Seeded(Unseeded, InitialPose, n)
      <4>1. t \in Trackers
        BY <1>2, <3>1, SeededMembers
      <4>2. t.have_last_odom = FALSE
        BY DEF Seeded, Unseeded
      <4> HIDE DEF t
      <4> QED BY <4>1, <4>2 DEF Trackers, t
    <3>4. trk = u
      BY <2>2, <3>3 DEF Init, InitialTracker, n
    <3> HIDE DEF u
    <3> QED BY <2>1, <3>1, <3>2, <3>4, UnanchoredSeed DEF Populated
  <2>3. CASE ~SetInitialPose
    <3>1. trk = Unseeded /\ ~trk.filter_init /\ trk.have_last_odom = FALSE
      BY <2>3 DEF Init, InitialTracker, Unseeded
    <3>2. Len(<<>>) = 0 /\ 0 <= KMaxCounted /\ <<>> \in Seq(Nat)
      BY WindowParams
    <3>3. /\ trkH \in Histories /\ trkH.fresh = FALSE /\ trkH.anchored = FALSE
          /\ trkH.judged = <<>>
      BY <1>1, <2>1, <3>2 DEF SeedHistory, Histories
    <3>4. Referenced(trk, trkH) /\ OnAnchor(trk, trkH) /\ Populated(trk)
      BY <3>1, <3>3 DEF Referenced, OnAnchor, Populated
    <3>5. Windowed(trk, trkH)
      BY <3>1, <3>2, <3>3 DEF Windowed
    <3> QED BY <1>2, <3>1, <3>3, <3>4, <3>5 DEF TrackerInv
  <2> QED BY <2>2, <2>3
<1>4. IsVerifier(ResetVerifier)
  <2>1. [k \in 1..0 |-> Origin] \in [1..0 -> Hypothesis] /\ 0 \in 0..TopK
    BY VerifierParams
  <2> QED BY <1>1, <2>1 DEF ResetVerifier, Fresh, IsVerifier, Status
<1>5. /\ rel = [requested |-> FALSE, active |-> FALSE, last_odom |-> Origin,
                state |-> "idle", ver |-> ResetVerifier]
      /\ relH.since = 0 /\ out = {} /\ grid = 0 /\ bbs_matcher = 0 /\ commands = 0
  BY DEF Init
<1>6. VerifierTyped /\ Verifying
  BY <1>1, <1>4, <1>5, VerifierParams DEF VerifierTyped, Verifying
<1> QED BY <1>3, <1>5, <1>6 DEF IInv, Published

\* What CommitJustified says of a step.
Commit ==
  /\ (rel.state # "accepted" /\ rel'.state = "accepted") =>
        /\ rel'.ver.scans = VerifyScans /\ relH'.since = VerifyScans
        /\ trk'.filter_init /\ ~rel'.requested /\ ~rel'.active
        /\ IF out' = {} THEN trk'.cloud = rel'.ver.best
           ELSE NeedOdom => CommittedAnchor'
  /\ (rel.requested /\ ~rel'.requested) => rel'.state = "accepted"

\* onScan(): the verifier first, then the filter it may have seeded.
LEMMA UseScanKeeps ==
  ASSUME IInv, NEW odom \in Odoms, NEW available \in BOOLEAN, NEW later \in BOOLEAN,
         UseScan(odom, available, later)
  PROVE  IInv' /\ Commit
<1>1. odom \in Pose
  BY VerifierInputs
<1>2. /\ trk \in Trackers /\ trkH \in Histories /\ TrackerInv(trk, trkH)
      /\ VerifierTyped /\ Verifying
  BY DEF IInv, TrackerInv
<1>3. UNCHANGED <<grid, bbs_matcher, commands>>
  BY DEF UseScan
<1>4. CASE Relocalizing /\ (NeedOdom => available)
  <2>1. Advanced(odom)
    <3>1. StartVerification(odom) \/ ContinueVerification(odom)
      BY <1>4 DEF UseScan
    <3> QED BY <1>1, <1>2, <3>1, StartAdvances, ContinueAdvances
  <2>2. CASE rel'.ver.status = "accepted"
    <3> DEFINE anchor == relH'.anchors[MostProbable(rel'.ver.hyps)]
               t == RelocSeed(trk, rel'.ver.best)
               h == SeedHistory(later, anchor)
    <3>1. Track(t, h, odom, later)
      BY <1>4, <2>2 DEF UseScan
    <3>2. /\ anchor \in Pose /\ rel'.ver.best = compose(anchor, odom)
          /\ rel'.ver.scans = VerifyScans /\ relH'.since = VerifyScans
      BY <2>1, <2>2, AcceptedOnAnchor
    <3> HIDE DEF anchor
    <3>3. t \in Trackers /\ h \in Histories /\ JustSeeded(t, h, odom, later)
      BY <1>1, <1>2, <3>2, RelocSeedKeeps
    <3>4. t.filter_init
      BY <3>3 DEF JustSeeded
    <3> HIDE DEF t, h
    <3>5. /\ TrackerInv(trk', trkH') /\ Published(trk', trkH', out')
          /\ trk'.filter_init = t.filter_init
          /\ t.filter_init /\ later => trk'.have_last_odom
      BY <1>1, <3>1, <3>3, TrackKeeps
    <3>6. IF out' = {} THEN trk'.cloud = rel'.ver.best ELSE NeedOdom => CommittedAnchor'
      <4>1. h.anchor = anchor /\ t.cloud = rel'.ver.best /\ t.force_update
        BY <3>2, <3>3 DEF JustSeeded, h, SeedHistory
      <4>2. CASE ~later
        BY <3>1, <4>1, <4>2 DEF Track
      <4>3. CASE later
        <5>1. PICK corr \in TrackCorrections, m \in ResampledSizes(t.n), fraction \in Fractions :
                /\ trk' = RunUpdate(t, odom, corr, m, fraction)
                /\ trkH' = UpdateHistory(h, t, odom, corr, fraction)
                /\ out' = IF trk'.have_map_odom THEN {Publication(trk', odom)} ELSE {}
          BY <3>1, <3>4, <4>3 DEF Track
        <5>2. h.anchored
          BY <3>3, <4>3 DEF JustSeeded
        <5>3. trkH'.anchor = Corrected(anchor, odom, corr)
          BY <3>3, <4>1, <5>1, <5>2 DEF UpdateHistory, Updates, Histories
        <5>4. out' # {}
          <6>1. trk' = FilterUpdate(WithReference(t, odom), odom, corr, m, fraction)
            BY <4>1, <5>1 DEF RunUpdate, Updates
          <6>2. WithReference(t, odom) \in Trackers
            BY <1>1, <3>3 DEF WithReference, Trackers
          <6>3. trk'.have_map_odom
            BY <6>1, <6>2 DEF FilterUpdate, Trackers
          <6> QED BY <5>1, <6>3
        <5>5. NeedOdom => rel'.last_odom = odom
          BY <1>2, <1>4 DEF UseScan, StartVerification, ContinueVerification, AfterVerifier,
                    RelocOdom, VerifierTyped
        <5> QED BY <5>1, <5>3, <5>4, <5>5 DEF CommittedAnchor, anchor
      <4> QED BY <4>2, <4>3
    <3>7. ~rel'.active /\ ~rel'.requested /\ rel'.state = "accepted" /\ VerifierTyped'
      BY <2>1, <2>2 DEF Advanced
    <3>8. Verifying'
      BY <3>7 DEF Verifying
    <3> QED BY <1>3, <3>2, <3>4, <3>5, <3>6, <3>7, <3>8 DEF IInv, Commit
  <2>3. CASE rel'.ver.status # "accepted"
    <3>1. Track(trk, trkH, odom, later)
      BY <1>4, <2>3 DEF UseScan
    <3>2. /\ TrackerInv(trk', trkH') /\ Published(trk', trkH', out')
          /\ trk'.filter_init = trk.filter_init
      BY <1>1, <1>2, <3>1, TrackKeeps
    <3>3. VerifierTyped' /\ (rel'.requested <=> rel.requested) /\ rel'.state # "accepted"
      BY <2>1, <2>3 DEF Advanced
    <3>4. Relocalizing'
      BY <1>3, <1>4, <3>2, <3>3 DEF Relocalizing
    <3>5. Verifying'
      BY <2>1, <3>4 DEF Advanced, Verifying
    <3> QED BY <1>3, <3>2, <3>3, <3>5 DEF IInv, Commit
  <2> QED BY <2>2, <2>3
<1>5. CASE ~(Relocalizing /\ (NeedOdom => available))
  <2>1. UNCHANGED <<rel, relH>> /\ Track(trk, trkH, odom, later)
    BY <1>5 DEF UseScan
  <2>2. /\ TrackerInv(trk', trkH') /\ Published(trk', trkH', out')
        /\ trk'.filter_init = trk.filter_init
    BY <1>1, <1>2, <2>1, TrackKeeps
  <2>3. VerifierTyped' /\ Verifying'
    BY <1>2, <1>3, <2>1, <2>2 DEF VerifierTyped, Verifying, Relocalizing
  <2> QED BY <1>3, <2>1, <2>2, <2>3 DEF IInv, Commit
<1> QED BY <1>4, <1>5

LEMMA UseCloudKeeps ==
  ASSUME IInv, NEW odom \in Odoms, NEW available \in BOOLEAN, UseCloud(odom, available)
  PROVE  IInv' /\ Commit
<1>1. odom \in Pose
  BY VerifierInputs
<1>2. /\ trk \in Trackers /\ trkH \in Histories /\ TrackerInv(trk, trkH)
      /\ VerifierTyped /\ Verifying
  BY DEF IInv, TrackerInv
<1>3. UNCHANGED <<rel, grid, bbs_matcher, commands, relH>> /\ Track(trk, trkH, odom, available)
  BY DEF UseCloud
<1>4. /\ TrackerInv(trk', trkH') /\ Published(trk', trkH', out')
      /\ trk'.filter_init = trk.filter_init
  BY <1>1, <1>2, <1>3, TrackKeeps
<1>5. VerifierTyped' /\ Verifying'
  BY <1>2, <1>3, <1>4 DEF VerifierTyped, Verifying, Relocalizing
<1> QED BY <1>3, <1>4, <1>5 DEF IInv, Commit

\* What a command of the user leaves of the relocalization.
LEMMA CommandKeeps ==
  ASSUME VerifierTyped, NEW requested \in BOOLEAN, NEW state \in {"idle", rel.state},
         rel' = [Abandoned(rel) EXCEPT !.requested = requested, !.state = state],
         relH'.since = 0
  PROVE  VerifierTyped' /\ Verifying' /\ rel'.requested = requested /\ rel'.state = state
<1>1. rel = [requested |-> rel.requested, active |-> rel.active,
             last_odom |-> rel.last_odom, state |-> rel.state, ver |-> rel.ver]
  BY DEF VerifierTyped
<1>2. rel' = [requested |-> requested, active |-> FALSE, last_odom |-> rel.last_odom,
              state |-> state, ver |-> rel.ver]
  BY <1>1 DEF Abandoned
<1>3. /\ rel'.requested = requested /\ rel'.active = FALSE /\ rel'.state = state
      /\ rel'.last_odom = rel.last_odom /\ rel'.ver = rel.ver
  <2> DEFINE r == [requested |-> requested, active |-> FALSE, last_odom |-> rel.last_odom,
                   state |-> state, ver |-> rel.ver]
  <2>1. r.requested = requested
    OBVIOUS
  <2>2. r.active = FALSE
    OBVIOUS
  <2>3. r.state = state /\ r.last_odom = rel.last_odom /\ r.ver = rel.ver
    OBVIOUS
  <2>4. rel' = r
    BY <1>2
  <2> HIDE DEF r
  <2> QED BY <2>1, <2>2, <2>3, <2>4
<1>4. 0 \in 0..VerifyScans
  BY VerifierParams
<1> QED BY <1>2, <1>3, <1>4 DEF VerifierTyped, Verifying

LEMMA NextIInv == ASSUME IInv, [Next]_vars PROVE IInv' /\ (Next => Commit)
<1> USE NodeParams
<1>0. VerifierTyped /\ Verifying /\ trk \in Trackers /\ TrackerInv(trk, trkH)
      /\ grid \in 0..MaxMaps /\ bbs_matcher \in 0..grid /\ commands \in 0..MaxCommands
  BY DEF IInv, TrackerInv
<1>1. CASE OnMap
  <2>1. /\ UNCHANGED <<trk, rel, commands, trkH, relH>> /\ out' = {}
        /\ grid < MaxMaps /\ grid' = grid + 1
        /\ bbs_matcher' = grid' \/ bbs_matcher' = bbs_matcher
        /\ bbs_matcher > 0 => bbs_matcher' = bbs_matcher
    BY <1>1 DEF OnMap, BbsMatcherFrom
  <2>2. grid' \in 0..MaxMaps /\ bbs_matcher' \in 0..grid'
    BY <1>0, <2>1
  <2>3. VerifierTyped' /\ Verifying'
    BY <1>0, <2>1 DEF VerifierTyped, Verifying, Relocalizing
  <2> QED BY <1>0, <2>1, <2>2, <2>3 DEF IInv, Published, Commit
<1>2. CASE OnGlobalLocalization
  <2>1. /\ UNCHANGED <<trk, grid, trkH>> /\ out' = {} /\ commands < MaxCommands
        /\ commands' = commands + 1 /\ relH'.since = 0
        /\ rel' = [Abandoned(rel) EXCEPT !.requested = TRUE]
        /\ bbs_matcher' = grid \/ bbs_matcher' = bbs_matcher
    BY <1>2 DEF OnGlobalLocalization, BbsMatcherFrom
  <2>2. VerifierTyped' /\ Verifying' /\ rel'.requested /\ rel'.state = rel.state
    <3>1. rel = [requested |-> rel.requested, active |-> rel.active,
                 last_odom |-> rel.last_odom, state |-> rel.state, ver |-> rel.ver]
      BY <1>0 DEF VerifierTyped
    <3>2. rel' = [Abandoned(rel) EXCEPT !.requested = TRUE, !.state = rel.state]
      BY <2>1, <3>1 DEF Abandoned
    <3>3. TRUE \in BOOLEAN
      OBVIOUS
    <3> QED BY <1>0, <2>1, <3>2, <3>3, CommandKeeps
  <2>3. bbs_matcher' \in 0..grid' /\ commands' \in 0..MaxCommands
    BY <1>0, <2>1
  <2> QED BY <1>0, <2>1, <2>2, <2>3 DEF IInv, Published, Commit
<1>3. CASE OnInitialPose
  <2>1. PICK p \in UserPoses : trk' = ManualSeed(trk, p)
    BY <1>3 DEF OnInitialPose
  <2>2. /\ UNCHANGED <<grid, bbs_matcher>> /\ out' = {} /\ commands < MaxCommands
        /\ commands' = commands + 1 /\ relH'.since = 0
        /\ trkH' = SeedHistory(FALSE, Origin)
        /\ rel' = [Abandoned(rel) EXCEPT !.state = "idle"]
    BY <1>3 DEF OnInitialPose
  <2>3. TrackerInv(trk', trkH')
    BY <1>0, <2>1, <2>2, ManualSeedKeeps
  <2>4. VerifierTyped' /\ Verifying' /\ rel'.requested = rel.requested /\ rel'.state = "idle"
    <3>1. rel = [requested |-> rel.requested, active |-> rel.active,
                 last_odom |-> rel.last_odom, state |-> rel.state, ver |-> rel.ver]
      BY <1>0 DEF VerifierTyped
    <3>2. rel' = [Abandoned(rel) EXCEPT !.requested = rel.requested, !.state = "idle"]
      BY <2>2, <3>1 DEF Abandoned
    <3>3. rel.requested \in BOOLEAN
      BY <1>0 DEF VerifierTyped
    <3> QED BY <1>0, <2>2, <3>2, <3>3, CommandKeeps
  <2>5. commands' \in 0..MaxCommands
    BY <1>0, <2>2
  <2>6. Commit
    BY <2>4 DEF Commit
  <2> QED BY <1>0, <2>2, <2>3, <2>4, <2>5, <2>6 DEF IInv, Published
<1>4. CASE DropInput
  BY <1>0, <1>4 DEF DropInput, IInv, Published, VerifierTyped, Verifying, Relocalizing, Commit
<1>5. ASSUME NEW odom \in Odoms, NEW available \in BOOLEAN, NEW later \in BOOLEAN,
             UseScan(odom, available, later)
      PROVE  IInv' /\ Commit
  BY <1>5, UseScanKeeps
<1>6. ASSUME NEW odom \in Odoms, NEW available \in BOOLEAN, UseCloud(odom, available)
      PROVE  IInv' /\ Commit
  BY <1>6, UseCloudKeeps
<1>7. CASE UNCHANGED vars
  BY <1>7 DEF vars, IInv, Published, VerifierTyped, Verifying, Relocalizing, Commit
<1> QED BY <1>1, <1>2, <1>3, <1>4, <1>5, <1>6, <1>7 DEF Next, OnScan, OnPoints

LEMMA AlwaysIInv == Spec => []IInv
<1>1. IInv /\ [Next]_vars => IInv'
  BY NextIInv
<1> QED BY InitIInv, <1>1, PTL DEF Spec
-----------------------------------------------------------------------------
\* Every member and the particle set keep their types through every callback.
THEOREM NodeTypeCorrect == Spec => []TypeOK
<1>1. IInv => TypeOK
  BY DEF IInv, TrackerInv, VerifierTyped, TypeOK
<1> QED BY AlwaysIInv, <1>1, PTL

\* No pose of before a seed leaves the node after it, and what is published is what
\* the map->odom transform of the filter makes of the odometry at the same stamp.
THEOREM AlwaysPublishedPose == Spec => []PublishedPose
<1>1. IInv => PublishedPose
  BY DEF IInv, Published, PublishedPose
<1> QED BY AlwaysIInv, <1>1, PTL

\* The filter loses or doubles no odometry increment between two updates.
THEOREM AlwaysCloudChained == Spec => []CloudChained
<1>1. IInv => CloudChained
  BY DEF IInv, TrackerInv, OnAnchor, CloudChained
<1> QED BY AlwaysIInv, <1>1, PTL

\* Nor does a verification between two scans, whatever comes in between.
THEOREM AlwaysVerifierChained == Spec => []VerifierChained
<1>1. IInv => VerifierChained
  BY DEF IInv, Verifying, VerifierChained
<1> QED BY AlwaysIInv, <1>1, PTL

\* A verification runs only while it is wanted, is still open, and takes its evidence
\* from after the user's last command.
THEOREM AlwaysActiveVerification == Spec => []ActiveVerification
<1>1. IInv => ActiveVerification
  BY DEF IInv, Verifying, Complete, Relocalizing, ActiveVerification
<1> QED BY AlwaysIInv, <1>1, PTL

\* A relocalization replaces the particles only with the evidence of VerifyScans scans
\* since the user's last command, and only that ends the request.
THEOREM AlwaysCommitJustified == Spec => CommitJustified
<1>1. IInv /\ [Next]_vars => [Commit]_vars
  BY NextIInv DEF vars
<1> QED BY AlwaysIInv, <1>1, PTL DEF Spec, CommitJustified, Commit

\* An initialized filter has a particle, if max_particles leaves it one at the start.
THEOREM AlwaysParticles == Spec => []ParticlesNonempty
<1>1. IInv => ParticlesNonempty
  BY DEF IInv, TrackerInv, Populated, ParticlesNonempty
<1> QED BY AlwaysIInv, <1>1, PTL

\* As many of n updates as the window is long are its last ones.
LEMMA RecentCount ==
  ASSUME NEW n \in Nat
  PROVE  Cardinality({i \in 1..n : i > n - KWindow}) = IF n < KWindow THEN n ELSE KWindow
<1> DEFINE first == IF n < KWindow THEN 1 ELSE n - KWindow + 1
<1>1. first \in Int /\ n - first + 1 = IF n < KWindow THEN n ELSE KWindow
  BY WindowParams
<1>2. {i \in 1..n : i > n - KWindow} = first..n
  BY WindowParams
<1>3. Cardinality(first..n) = IF first > n THEN 0 ELSE n - first + 1
  <2> HIDE DEF first
  <2> QED BY <1>1, FS_Interval
<1>4. first > n => n = 0
  BY WindowParams
<1>5. (IF first > n THEN 0 ELSE n - first + 1) = IF n < KWindow THEN n ELSE KWindow
  <2> HIDE DEF first
  <2> QED BY <1>1, <1>4, WindowParams
<1> HIDE DEF first
<1> QED BY <1>2, <1>3, <1>5

\* After the update a seed forces, the match window holds the last updates judged since
\* that seed and no older one, and verified() counts exactly them, for a window of any
\* length.
THEOREM AlwaysWindowIsRecent == Spec => []WindowIsRecent
<1>1. IInv => WindowIsRecent
  <2> DEFINE judged == trkH.judged
             recent == {i \in DOMAIN judged : i > Len(judged) - KWindow}
  <2> SUFFICES ASSUME IInv, ~Laser, trk.filter_init, ~trk.force_update
               PROVE  /\ trk.match.count = Cardinality(recent)
                      /\ \A i \in recent :
                           trk.match.values[(trk.match.next + i - Len(judged) - 1) % KWindow]
                             = judged[i]
                      /\ \A n \in 0..KMaxCounted : Verified(trk.match, n) <=> Len(judged) >= n
    BY DEF WindowIsRecent
  <2>1. Holds(trk.match, judged) /\ judged \in Seq(Nat)
    BY DEF IInv, TrackerInv, Referenced, Windowed, Histories
  <2>2. DOMAIN judged = 1..Len(judged) /\ Len(judged) \in Nat
    BY <2>1
  <2> HIDE DEF judged
  <2>3. trk.match.count = Cardinality(recent)
    BY <2>1, <2>2, RecentCount DEF Holds
  <2>4. ASSUME NEW i \in recent
        PROVE  trk.match.values[(trk.match.next + i - Len(judged) - 1) % KWindow] = judged[i]
    <3>1. i \in 1..Len(judged) /\ i > Len(judged) - KWindow
      BY <2>2
    <3> QED BY <2>1, <3>1 DEF Holds, JudgedAt
  <2>5. \A n \in 0..KMaxCounted : Verified(trk.match, n) <=> Len(judged) >= n
    BY <2>1 DEF Holds, Verified
  <2> QED BY <2>3, <2>4, <2>5 DEF judged
<1> QED BY AlwaysIInv, <1>1, PTL

\* The updates judged last, as many as the window is long, and their sum.
Recent(judged) == {i \in DOMAIN judged : i > Len(judged) - KWindow}

RecentSum(judged) == MapThenSumSet(LAMBDA i : judged[i], Recent(judged))

LEMMA SameFinite ==
  ASSUME NEW S
  PROVE  Ver!IsFiniteSet(S) <=> IsFiniteSet(S)
BY DEF IsFiniteSet, Ver!IsFiniteSet

\* What low() sums up is a sum over the first count values.
LEMMA WindowSums ==
  ASSUME NEW m \in Monitors
  PROVE  \E f : /\ Ver!SumsUp(f, [i \in 0..(m.count - 1) |-> m.values[i]], 0..(m.count - 1))
                /\ WindowSum(m) = f[0..(m.count - 1)]
<1> DEFINE S == 0..(m.count - 1)
           w == [i \in S |-> m.values[i]]
           iter[s \in SUBSET S] ==
             IF s = {} THEN 0
             ELSE LET x == CHOOSE x \in s : TRUE IN m.values[x] + iter[s \ {x}]
           Eq(f) == f = [s \in SUBSET S |->
                IF s = {} THEN 0
                ELSE LET x == CHOOSE x \in s : TRUE IN m.values[x] + f[s \ {x}]]
<1>1. m.count \in Int /\ m.count <= KWindow /\ m.values \in [0..(KWindow - 1) -> Nat]
  BY DEF Monitors
<1>2. Ver!IsFiniteSet(S)
  BY <1>1, FS_Interval, SameFinite
<1>3. w \in [S -> Nat]
  BY <1>1, WindowParams
<1>4. \A s \in SUBSET S : s # {} =>
        Ver!First(s) \in S /\ w[Ver!First(s)] = m.values[Ver!First(s)]
  <2> HIDE DEF S
  <2> QED BY DEF Ver!First
<1>5. PICK f : Ver!SumsUp(f, w, S)
  <2> HIDE DEF S, w
  <2> QED BY <1>2, <1>3, Ver!SumExists, VerifierParams, SameInputs
<1>6. Eq(f)
  <2> HIDE DEF S, w
  <2>1. f = [s \in SUBSET S |-> f[s]]
    BY <1>5 DEF Ver!SumsUp
  <2>2. ASSUME NEW s \in SUBSET S
        PROVE  f[s] = IF s = {} THEN 0
                      ELSE LET x == CHOOSE x \in s : TRUE IN m.values[x] + f[s \ {x}]
    BY <1>4, <1>5 DEF Ver!SumsUp, Ver!First
  <2> QED BY <2>1, <2>2
<1>7. Eq(iter)
  BY <1>6
<1>8. /\ iter = [s \in SUBSET S |-> iter[s]]
      /\ \A s \in SUBSET S :
           iter[s] = IF s = {} THEN 0
                     ELSE m.values[Ver!First(s)] + iter[s \ {Ver!First(s)}]
  <2> HIDE DEF iter, S
  <2> QED BY <1>7 DEF Ver!First
<1>9. Ver!SumsUp(iter, w, S)
  <2> HIDE DEF iter, S, w
  <2> QED BY <1>2, <1>3, <1>4, <1>8, Ver!SolutionSumsUp, VerifierParams, SameInputs
<1>10. WindowSum(m) = iter[S]
  BY DEF WindowSum, MapThenSumSet, MapThenFoldSet
<1> HIDE DEF iter
<1> QED BY <1>9, <1>10

LEMMA RecentSums ==
  ASSUME NEW judged \in Seq(Nat)
  PROVE  \E f : /\ Ver!SumsUp(f, [i \in Recent(judged) |-> judged[i]], Recent(judged))
                /\ RecentSum(judged) = f[Recent(judged)]
<1> DEFINE S == Recent(judged)
           w == [i \in S |-> judged[i]]
           iter[s \in SUBSET S] ==
             IF s = {} THEN 0
             ELSE LET x == CHOOSE x \in s : TRUE IN judged[x] + iter[s \ {x}]
           Eq(f) == f = [s \in SUBSET S |->
                IF s = {} THEN 0
                ELSE LET x == CHOOSE x \in s : TRUE IN judged[x] + f[s \ {x}]]
<1>1. S \in SUBSET (1..Len(judged)) /\ Len(judged) \in Nat
  BY DEF Recent
<1>2. Ver!IsFiniteSet(S)
  <2>1. Ver!IsFiniteSet(1..Len(judged))
    BY <1>1, FS_Interval, SameFinite
  <2> HIDE DEF S
  <2> QED BY <1>1, <2>1, FS_Subset, SameFinite
<1>3. w \in [S -> Nat]
  <2>1. \A i \in S : judged[i] \in Nat
    BY <1>1
  <2> HIDE DEF S
  <2> QED BY <2>1
<1>4. \A s \in SUBSET S : s # {} => Ver!First(s) \in S /\ w[Ver!First(s)] = judged[Ver!First(s)]
  <2> HIDE DEF S
  <2> QED BY DEF Ver!First
<1>5. PICK f : Ver!SumsUp(f, w, S)
  <2> HIDE DEF S, w
  <2> QED BY <1>2, <1>3, Ver!SumExists, VerifierParams, SameInputs
<1>6. Eq(f)
  <2> HIDE DEF S, w
  <2>1. f = [s \in SUBSET S |-> f[s]]
    BY <1>5 DEF Ver!SumsUp
  <2>2. ASSUME NEW s \in SUBSET S
        PROVE  f[s] = IF s = {} THEN 0
                      ELSE LET x == CHOOSE x \in s : TRUE IN judged[x] + f[s \ {x}]
    BY <1>4, <1>5 DEF Ver!SumsUp, Ver!First
  <2> QED BY <2>1, <2>2
<1>7. Eq(iter)
  BY <1>6
<1>8. /\ iter = [s \in SUBSET S |-> iter[s]]
      /\ \A s \in SUBSET S :
           iter[s] = IF s = {} THEN 0 ELSE judged[Ver!First(s)] + iter[s \ {Ver!First(s)}]
  <2> HIDE DEF iter, S
  <2> QED BY <1>7 DEF Ver!First
<1>9. Ver!SumsUp(iter, w, S)
  <2> HIDE DEF iter, S, w
  <2> QED BY <1>2, <1>3, <1>4, <1>8, Ver!SolutionSumsUp, VerifierParams, SameInputs
<1>10. RecentSum(judged) = iter[S]
  BY DEF RecentSum, MapThenSumSet, MapThenFoldSet
<1> HIDE DEF iter
<1> QED BY <1>9, <1>10

LEMMA SlotWraps ==
  ASSUME NEW at \in 0..(KWindow - 1), NEW n \in Nat, NEW i \in 1..n, i > n - KWindow
  PROVE  (at + i - n - 1) % KWindow
           = IF at + i - n - 1 < 0 THEN at + i - n - 1 + KWindow ELSE at + i - n - 1
<1> DEFINE z == at + i - n - 1
<1>1. KWindow \in Nat \ {0}
  BY WindowParams
<1>2. z \in Int /\ -KWindow <= z /\ z < KWindow
  BY <1>1
<1> HIDE DEF z
<1>3. z % KWindow = IF z < 0 THEN z + KWindow ELSE z
  BY <1>1, <1>2
<1> QED BY <1>3 DEF z

\* The updates judged last fill the first count slots, each of them one.
LEMMA SlotsFilled ==
  ASSUME NEW at \in 0..(KWindow - 1), NEW n \in Nat, NEW c,
         c = IF n < KWindow THEN n ELSE KWindow, c < KWindow => at = c
  PROVE  LET S == {i \in 1..n : i > n - KWindow}
             Slot(i) == (at + i - n - 1) % KWindow
         IN  /\ \A i \in S : Slot(i) \in 0..(c - 1)
             /\ \A i, j \in S : Slot(i) = Slot(j) => i = j
             /\ \A r \in 0..(c - 1) : \E i \in S : Slot(i) = r
<1> DEFINE S == {i \in 1..n : i > n - KWindow}
           Slot(i) == (at + i - n - 1) % KWindow
<1>1. KWindow \in Nat \ {0} /\ at \in Int /\ 0 <= at /\ at < KWindow
  BY WindowParams
<1>2. \A i : i \in S <=> i \in Int /\ 1 <= i /\ i <= n /\ i > n - KWindow
  OBVIOUS
<1>3. \A i \in S : Slot(i) = IF at + i - n - 1 < 0 THEN at + i - n - 1 + KWindow
                             ELSE at + i - n - 1
  <2>1. ASSUME NEW i \in 1..n, i > n - KWindow
        PROVE  Slot(i) = IF at + i - n - 1 < 0 THEN at + i - n - 1 + KWindow
                         ELSE at + i - n - 1
    BY <2>1, SlotWraps
  <2> HIDE DEF Slot
  <2> QED BY <2>1
<1> HIDE DEF S, Slot
<1>4. ASSUME NEW i \in S PROVE Slot(i) \in 0..(c - 1)
  <2> DEFINE z == at + i - n - 1
  <2>1. i \in Int /\ 1 <= i /\ i <= n /\ i > n - KWindow
    BY <1>2
  <2>2. Slot(i) = IF z < 0 THEN z + KWindow ELSE z
    BY <1>3
  <2>3. z \in Int /\ -KWindow <= z /\ z <= at - 1 /\ at - n <= z
    BY <1>1, <2>1
  <2> HIDE DEF z
  <2>4. CASE n < KWindow
    BY <1>1, <2>2, <2>3, <2>4
  <2>5. CASE ~(n < KWindow)
    BY <1>1, <2>2, <2>3, <2>5
  <2> QED BY <2>4, <2>5
<1>5. ASSUME NEW i \in S, NEW j \in S, Slot(i) = Slot(j) PROVE i = j
  <2> DEFINE y == at + i - n - 1
             z == at + j - n - 1
  <2>1. /\ i \in Int /\ 1 <= i /\ i <= n /\ i > n - KWindow
        /\ j \in Int /\ 1 <= j /\ j <= n /\ j > n - KWindow
    BY <1>2
  <2>2. /\ Slot(i) = IF y < 0 THEN y + KWindow ELSE y
        /\ Slot(j) = IF z < 0 THEN z + KWindow ELSE z
    BY <1>3
  <2>3. /\ y \in Int /\ at - KWindow <= y /\ y < at
        /\ z \in Int /\ at - KWindow <= z /\ z < at
        /\ y = z => i = j
    BY <1>1, <2>1
  <2> HIDE DEF y, z
  <2>4. y = z
    <3> DEFINE a == Slot(i)
    <3>1. a = (IF y < 0 THEN y + KWindow ELSE y) /\ a = (IF z < 0 THEN z + KWindow ELSE z)
      BY <1>5, <2>2
    <3> HIDE DEF a
    <3> QED BY <1>1, <2>3, <3>1
  <2> QED BY <2>3, <2>4
<1>6. ASSUME NEW r \in 0..(c - 1) PROVE \E i \in S : Slot(i) = r
  <2> DEFINE i == IF r < at THEN r - at + n + 1 ELSE r - at + n + 1 - KWindow
  <2>1. i \in Int /\ 1 <= i /\ i <= n /\ i > n - KWindow
    <3>1. CASE n < KWindow
      BY <1>1, <3>1
    <3>2. CASE ~(n < KWindow)
      BY <1>1, <3>2
    <3> QED BY <3>1, <3>2
  <2>2. at + i - n - 1 = IF r < at THEN r ELSE r - KWindow
    BY <1>1
  <2>3. r \in Int /\ 0 <= r /\ r < KWindow
    BY <1>1
  <2> HIDE DEF i
  <2>4. i \in S
    BY <2>1, <1>2
  <2>5. Slot(i) = IF at + i - n - 1 < 0 THEN at + i - n - 1 + KWindow
                  ELSE at + i - n - 1
    BY <1>3, <2>4
  <2>6. Slot(i) = r
    BY <1>1, <2>1, <2>2, <2>3, <2>5
  <2> QED BY <2>4, <2>6
<1> QED BY <1>4, <1>5, <1>6 DEF S, Slot

\* The values low() sums up are those of the updates judged last, each of them once.
LEMMA WindowSumIsRecent ==
  ASSUME NEW m \in Monitors, NEW judged \in Seq(Nat), Holds(m, judged)
  PROVE  WindowSum(m) = RecentSum(judged)
<1> DEFINE n == Len(judged)
           S == Recent(judged)
           R == 0..(m.count - 1)
           w == [i \in S |-> judged[i]]
           v == [i \in R |-> m.values[i]]
           Slot(i) == (m.next + i - n - 1) % KWindow
           p == [i \in S |-> Slot(i)]
<1>1. PICK f : Ver!SumsUp(f, v, R) /\ WindowSum(m) = f[R]
  BY WindowSums
<1>2. PICK g : Ver!SumsUp(g, w, S) /\ RecentSum(judged) = g[S]
  BY RecentSums
<1>3. /\ n \in Nat /\ m.next \in 0..(KWindow - 1) /\ m.values \in [0..(KWindow - 1) -> Nat]
      /\ m.count = IF n < KWindow THEN n ELSE KWindow
      /\ m.count < KWindow => m.next = m.count
      /\ \A i \in 1..n : i > n - KWindow => m.values[Slot(i)] = judged[i]
  BY DEF Holds, JudgedAt, Monitors
<1>4. S = {i \in 1..n : i > n - KWindow}
  BY DEF Recent
<1>5. /\ \A i \in S : Slot(i) \in R
      /\ \A i, j \in S : Slot(i) = Slot(j) => i = j
      /\ \A r \in R : \E i \in S : Slot(i) = r
  <2> DEFINE c == m.count
             at == m.next
  <2>1. at \in 0..(KWindow - 1) /\ c = (IF n < KWindow THEN n ELSE KWindow)
        /\ (c < KWindow => at = c)
    BY <1>3
  <2> HIDE DEF c, at, n
  <2>2. LET T == {i \in 1..n : i > n - KWindow}
            At(i) == (at + i - n - 1) % KWindow
        IN  /\ \A i \in T : At(i) \in 0..(c - 1)
            /\ \A i, j \in T : At(i) = At(j) => i = j
            /\ \A r \in 0..(c - 1) : \E i \in T : At(i) = r
    BY <1>3, <2>1, SlotsFilled
  <2> HIDE DEF S
  <2> QED BY <1>4, <2>2 DEF c, at
<1>6. \A i \in S : judged[i] \in Nat /\ judged[i] = m.values[Slot(i)]
  <2> HIDE DEF Slot, S
  <2> QED BY <1>3, <1>4 DEF n
<1>7. \A i \in R : m.values[i] \in Nat
  <2>1. m.count \in Int /\ m.count <= KWindow /\ KWindow \in Nat
    BY <1>3, WindowParams
  <2> QED BY <1>3, <2>1
<1>8. Ver!IsFiniteSet(S) /\ Ver!IsFiniteSet(R)
  <2>1. m.count \in Int /\ n \in Int
    BY <1>3, WindowParams
  <2>2. IsFiniteSet(1..n) /\ IsFiniteSet(R)
    BY <2>1, FS_Interval
  <2>3. S \in SUBSET (1..n)
    BY <1>4
  <2> HIDE DEF S, R
  <2>4. IsFiniteSet(S)
    BY <2>2, <2>3, FS_Subset
  <2> QED BY <2>2, <2>4, SameFinite
<1> HIDE DEF n, Slot, S, R
<1>9. w \in [S -> Nat] /\ v \in [R -> Nat] /\ p \in [S -> R]
  BY <1>5, <1>6, <1>7
<1>10. \A i \in S : w[i] = v[p[i]]
  BY <1>5, <1>6
<1>11. /\ \A i, j \in S : p[i] = p[j] => i = j
       /\ \A r \in R : \E i \in S : p[i] = r
  BY <1>5
<1> HIDE DEF p, w, v
<1>12. Ver!Renames(p, w, S, v, R)
  BY <1>9, <1>10, <1>11 DEF Ver!Renames
<1>13. Ver!SameSum(g, S, f, R)
  BY <1>1, <1>2, <1>8, <1>9, <1>12, Ver!SumRenamed, VerifierParams, SameInputs
<1> QED BY <1>1, <1>2, <1>13 DEF Ver!SameSum

\* low() compares the mean of the updates judged last since the seed with the
\* threshold, for a window of any length, wherever it wrapped around.
THEOREM AlwaysLowIsMeanBelow == Spec => []LowIsMeanBelow
<1>1. IInv => LowIsMeanBelow
  <2> DEFINE judged == trkH.judged
             m == trk.match
             Below(threshold, sum) ==
               /\ Recent(judged) # {}
               /\ sum < threshold * Cardinality(Recent(judged))
  <2> SUFFICES ASSUME IInv, ~Laser, trk.filter_init, ~trk.force_update,
                      NEW threshold \in Fractions
               PROVE  Low(m, threshold) <=> Below(threshold, RecentSum(judged))
    BY DEF LowIsMeanBelow, Recent, RecentSum, MapThenSumSet, MapThenFoldSet
  <2>1. Holds(m, judged) /\ judged \in Seq(Nat) /\ m \in Monitors
    BY DEF IInv, TrackerInv, Referenced, Windowed, Histories, Trackers
  <2> HIDE DEF judged, m
  <2>2. Len(judged) \in Nat /\ Recent(judged) = {i \in 1..Len(judged) : i > Len(judged) - KWindow}
    BY <2>1 DEF Recent
  <2>3. m.count = Cardinality(Recent(judged))
    BY <2>1, <2>2, RecentCount DEF Holds
  <2>4. m.count > 0 <=> Recent(judged) # {}
    BY <2>1, <2>2, WindowParams DEF Holds
  <2>5. WindowSum(m) = RecentSum(judged)
    BY <2>1, WindowSumIsRecent
  <2> QED BY <2>3, <2>4, <2>5 DEF Low
<1> QED BY AlwaysIInv, <1>1, PTL
=============================================================================
