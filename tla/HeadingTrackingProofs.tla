------------------------- MODULE HeadingTrackingProofs -------------------------
(***************************************************************************)
(* What ends an unknown heading, and what the filter publishes of it, for  *)
(* all values of the bound, the thresholds and the start.                  *)
(***************************************************************************)
EXTENDS HeadingTracking, TLAPS

\* The shadow is never below what the covariance holds.
Covers(x) == x.valid => x.hh >= x.var

\* The operators of HeadingShadow keep the types and the shadow above.
Sound(x) == x \in Heading /\ Covers(x)

LEMMA GrownIsLevel ==
  ASSUME NEW a \in Levels, NEW b \in Levels, NEW g \in {0, 1}, NEW less \in 0..g
  PROVE  /\ Grown(a, g) \in Levels /\ Grown(a, g) >= a
         /\ a >= b => Grown(a, g) >= Grown(b, less)
BY HeadingParams DEF Levels, Grown

LEMMA InitializedSound ==
  ASSUME NEW x \in Heading
  PROVE  /\ Sound(Initialized(x)) /\ ~Initialized(x).valid
         /\ Sound(Marked(Initialized(x)))
         /\ Marked(Initialized(x)).valid /\ Marked(Initialized(x)).held
         /\ Marked(Initialized(x)).hh = StartVar
<1> DEFINE y == Initialized(x)
           z == Marked(y)
<1>1. SeedVar \in Levels /\ StartVar \in Levels /\ StartVar >= SeedVar /\ 0 \in 0..KnownFixes
  BY HeadingParams DEF Levels
<1>2. y \in Heading /\ y.valid = FALSE /\ y.var = SeedVar
  BY <1>1 DEF Initialized, Heading
<1> HIDE DEF y
<1>3. z \in Heading /\ z.valid = TRUE /\ z.held = TRUE /\ z.hh = StartVar /\ z.var = SeedVar
  BY <1>1, <1>2 DEF Marked, Heading
<1> HIDE DEF z
<1>4. Sound(y) /\ Sound(z)
  BY <1>1, <1>2, <1>3 DEF Sound, Covers
<1> QED BY <1>2, <1>3, <1>4 DEF y, z

LEMMA PredictedSound ==
  ASSUME NEW x, Sound(x), NEW g \in {0, 1}, NEW less \in 0..g
  PROVE  LET y == Predicted(x, g, less)
         IN  /\ Sound(y) /\ y.valid = x.valid /\ y.held = x.held
             /\ x.valid => y.hh >= x.hh
             /\ y.var >= x.var
<1> DEFINE y == Predicted(x, g, less)
<1>1. /\ y.valid = x.valid /\ y.held = x.held
      /\ y.var = Grown(x.var, IF x.valid /\ x.held THEN less ELSE g)
      /\ y.hh = IF x.valid THEN Grown(x.hh, g) ELSE x.hh
  BY DEF Predicted, Sound, Heading
<1>2. x.var \in Levels /\ x.hh \in Levels /\ less \in {0, 1} /\ less \in 0..less /\ g \in 0..g
  BY DEF Sound, Heading
<1>3. /\ Grown(x.var, g) \in Levels /\ Grown(x.var, less) \in Levels /\ Grown(x.hh, g) \in Levels
      /\ Grown(x.var, g) >= x.var /\ Grown(x.var, less) >= x.var /\ Grown(x.hh, g) >= x.hh
      /\ x.hh >= x.var => Grown(x.hh, g) >= Grown(x.var, g) /\ Grown(x.hh, g) >= Grown(x.var, less)
  BY <1>2, GrownIsLevel
<1>4. y \in Heading
  BY <1>2, <1>3 DEF Predicted, Sound, Heading
<1> HIDE DEF y
<1> QED BY <1>1, <1>3, <1>4 DEF Sound, Covers, y

\* What the first three steps of a lever update leave.
LEMMA SearchedSound ==
  ASSUME NEW x, Sound(x), NEW rate, NEW moved
  PROVE  LET r == Rated(Stored(x), rate)
             y == Reacquired(r, rate, moved)
             back == x.pending /\ y.unsupported
         IN  /\ Sound(y) /\ y.valid
             /\ ~y.aligned => y.var = x.var
             /\ x.valid /\ ~y.aligned /\ ~back => y.held = x.held /\ y.hh = x.hh
             /\ ~x.valid /\ ~y.aligned /\ ~back => y.hh = x.var
             /\ Unknown(x) /\ ~y.aligned /\ ~back => y.blind
<1> DEFINE s == Stored(x)
           r == Rated(s, rate)
           y == Reacquired(r, rate, moved)
<1> USE DEF Sound
<1>1. /\ s \in Heading /\ Covers(s) /\ s.valid = TRUE /\ s.aligned = FALSE /\ s.blind = FALSE
      /\ s.var = x.var /\ s.pending = x.pending /\ s.unsupported = x.unsupported
      /\ x.valid => s.held = x.held /\ s.hh = x.hh
      /\ ~x.valid => s.hh = x.var
  <2> DEFINE n == IF x.fixes < KnownFixes THEN x.fixes + 1 ELSE x.fixes
             t == [x EXCEPT !.fixes = n, !.aligned = FALSE, !.blind = FALSE]
  <2>1. n \in 0..KnownFixes
    BY HeadingParams DEF Heading
  <2>2. s = IF t.valid THEN t ELSE Synced(t)
    BY DEF Stored
  <2> HIDE DEF n, s
  <2>3. /\ t \in Heading /\ t.aligned = FALSE /\ t.blind = FALSE
        /\ t.valid = x.valid /\ t.held = x.held /\ t.hh = x.hh /\ t.var = x.var
        /\ t.pending = x.pending /\ t.unsupported = x.unsupported
    BY <2>1 DEF Heading
  <2> HIDE DEF t
  <2>4. /\ Synced(t) \in Heading /\ Synced(t).valid = TRUE /\ Synced(t).aligned = FALSE
        /\ Synced(t).blind = FALSE /\ Synced(t).hh = t.var /\ Synced(t).var = t.var
        /\ Synced(t).pending = t.pending /\ Synced(t).unsupported = t.unsupported
    BY <2>3 DEF Synced, Heading
  <2>5. x.valid \in BOOLEAN /\ x.var \in Int
    BY DEF Heading, Levels
  <2>6. CASE x.valid
    BY <2>2, <2>3, <2>5, <2>6 DEF Covers
  <2>7. CASE ~x.valid
    BY <2>2, <2>3, <2>4, <2>5, <2>7 DEF Covers
  <2> QED BY <2>6, <2>7
<1> HIDE DEF s
<1>2. /\ r \in Heading /\ Covers(r) /\ r.valid = TRUE /\ r.aligned = FALSE /\ r.blind = FALSE
      /\ r.var = x.var
      /\ ~(x.pending /\ r.unsupported) => r.held = s.held /\ r.hh = s.hh
  <2> DEFINE u == rate = "unsupported"
             t == [s EXCEPT !.unsupported = u, !.degraded = rate = "degraded", !.pending = FALSE]
  <2>1. r = IF s.fixes < KnownFixes THEN s
            ELSE IF s.pending /\ t.unsupported THEN Synced(t) ELSE t
    BY DEF Rated
  <2> HIDE DEF r
  <2>2. /\ t \in Heading /\ t.aligned = FALSE /\ t.blind = FALSE /\ t.valid = TRUE
        /\ t.held = s.held /\ t.hh = s.hh /\ t.var = s.var
    BY <1>1 DEF Heading
  <2> HIDE DEF t
  <2>3. /\ Synced(t) \in Heading /\ Synced(t).valid = TRUE /\ Synced(t).aligned = FALSE
        /\ Synced(t).blind = FALSE /\ Synced(t).hh = t.var /\ Synced(t).var = t.var
        /\ Synced(t).unsupported = t.unsupported
    BY <2>2 DEF Synced, Heading
  <2>4. s.var \in Int /\ t.var \in Int
    BY <1>1, <2>2 DEF Heading, Levels
  <2>5. CASE s.fixes < KnownFixes
    BY <1>1, <2>1, <2>5
  <2>6. CASE ~(s.fixes < KnownFixes) /\ s.pending /\ t.unsupported
    <3>1. r = Synced(t)
      BY <2>1, <2>6
    <3>2. x.pending /\ r.unsupported
      BY <1>1, <2>3, <2>6, <3>1
    <3>3. r.hh >= r.var /\ r.var = x.var
      BY <1>1, <2>2, <2>3, <2>4, <3>1
    <3> QED BY <2>3, <3>1, <3>2, <3>3 DEF Covers
  <2>7. CASE ~(s.fixes < KnownFixes) /\ ~(s.pending /\ t.unsupported)
    <3>1. r = t
      BY <2>1, <2>7
    <3> QED BY <1>1, <2>2, <3>1 DEF Covers
  <2> QED BY <2>5, <2>6, <2>7
<1> HIDE DEF r
<1>3. CASE ~Unknown(r)
  <2>1. y = r
    BY <1>3 DEF Reacquired
  <2>2. Unknown(x) => x.valid /\ x.held /\ Wide(x)
    BY DEF Unknown
  <2>3. Unknown(x) => x.pending /\ r.unsupported
    BY <1>1, <1>2, <1>3, <2>2 DEF Unknown, Wide
  <2> HIDE DEF y
  <2> QED BY <1>1, <1>2, <2>1, <2>3 DEF Sound, y, r, s
<1>4. CASE Unknown(r) /\ Alignable(r, rate, moved)
  <2>1. y = Aligned(r)
    BY <1>4 DEF Reacquired
  <2>2. Cap \in Levels /\ 0 \in 0..KnownFixes /\ Cap >= Cap
    BY HeadingParams DEF Levels
  <2> HIDE DEF y
  <2>3. y \in Heading /\ y.aligned = TRUE /\ y.valid = TRUE /\ y.hh = Cap /\ y.var = Cap
    BY <1>2, <2>1, <2>2 DEF Aligned, Heading
  <2>4. Sound(y)
    BY <2>2, <2>3 DEF Covers
  <2> QED BY <2>3, <2>4 DEF y, r, s
<1>5. CASE Unknown(r) /\ ~Alignable(r, rate, moved)
  <2>1. y = [r EXCEPT !.blind = TRUE]
    BY <1>5 DEF Reacquired
  <2>2. /\ y \in Heading /\ y.blind /\ ~y.aligned /\ y.valid /\ y.hh = r.hh /\ y.var = r.var
        /\ y.held = r.held /\ y.unsupported = r.unsupported
    BY <1>2, <2>1 DEF Heading
  <2>3. Sound(y)
    BY <1>2, <2>2 DEF Sound, Covers
  <2> HIDE DEF y
  <2> QED BY <1>1, <1>2, <2>2, <2>3 DEF y, r, s
<1> QED BY <1>3, <1>4, <1>5

\* The bound lowers the variance only of a heading it holds back.
LEMMA BoundedSound ==
  ASSUME NEW x, Sound(x), x.valid, NEW released \in BOOLEAN
  PROVE  LET b == Bounded(x, released)
         IN  /\ Sound(b) /\ b.valid /\ b.hh = x.hh /\ b.aligned = x.aligned
             /\ b.blind = x.blind /\ b.unsupported = x.unsupported
             /\ x.held => b.held
             /\ ~b.held => b.var = x.var
<1> USE DEF Sound
<1> DEFINE b == Bounded(x, released)
<1>1. Cap \in Levels /\ x.var \in Int /\ x.hh \in Int /\ Cap \in Int
  BY HeadingParams DEF Levels, Heading
<1>2. CASE ~released /\ x.var > Cap
  <2>1. b = [x EXCEPT !.var = Cap, !.capped = TRUE, !.held = TRUE]
    BY <1>2 DEF Bounded
  <2> HIDE DEF b
  <2>2. /\ b \in Heading /\ b.valid = x.valid /\ b.hh = x.hh /\ b.aligned = x.aligned
        /\ b.blind = x.blind /\ b.unsupported = x.unsupported /\ b.held = TRUE /\ b.var = Cap
    BY <1>1, <2>1 DEF Heading
  <2>3. x.hh >= x.var => x.hh >= Cap
    BY <1>1, <1>2
  <2> QED BY <2>2, <2>3 DEF Covers, b
<1>3. CASE ~(~released /\ x.var > Cap)
  <2>1. b = [x EXCEPT !.capped = FALSE]
    BY <1>3 DEF Bounded
  <2> HIDE DEF b
  <2>2. /\ b \in Heading /\ b.valid = x.valid /\ b.hh = x.hh /\ b.aligned = x.aligned
        /\ b.blind = x.blind /\ b.unsupported = x.unsupported /\ b.held = x.held /\ b.var = x.var
    BY <2>1 DEF Heading
  <2> QED BY <2>2 DEF Covers, b
<1> QED BY <1>2, <1>3

\* What a lever update leaves that neither aligns the heading nor takes a marked
\* start back.
LEMMA LeverFixedSound ==
  ASSUME NEW x, Sound(x), NEW open \in BOOLEAN, NEW rate, NEW moved, NEW left \in Levels
  PROVE  LET y == LeverFixed(x, open, rate, moved, left)
         IN  /\ Sound(y) /\ y.valid
             /\ ~y.aligned /\ ~(x.pending /\ y.unsupported) =>
                  /\ Unknown(x) => y.blind /\ y.held /\ y.hh = x.hh
                  /\ ~(open /\ ~y.blind) => Published(y) >= Published(x)
<1> DEFINE f == Reacquired(Rated(Stored(x), rate), rate, moved)
           released == open /\ ~f.blind
           b == Bounded(f, released)
           t == [b EXCEPT !.var = IF left < b.var THEN left ELSE b.var]
           y == LeverFixed(x, open, rate, moved, left)
<1>1. /\ Sound(f) /\ f.valid
      /\ ~f.aligned => f.var = x.var
      /\ x.valid /\ ~f.aligned /\ ~(x.pending /\ f.unsupported) => f.held = x.held /\ f.hh = x.hh
      /\ ~x.valid /\ ~f.aligned /\ ~(x.pending /\ f.unsupported) => f.hh = x.var
      /\ Unknown(x) /\ ~f.aligned /\ ~(x.pending /\ f.unsupported) => f.blind
  BY SearchedSound
<1>2. released \in BOOLEAN
  BY <1>1 DEF Sound, Heading
<1>3. y = IF released THEN Synced(t) ELSE b
  BY DEF LeverFixed
<1> HIDE DEF f, released, y
<1>4. /\ Sound(b) /\ b.valid /\ b.hh = f.hh /\ b.aligned = f.aligned
      /\ b.blind = f.blind /\ b.unsupported = f.unsupported
      /\ f.held => b.held
      /\ ~b.held => b.var = f.var
  BY <1>1, <1>2, BoundedSound
<1> HIDE DEF b
<1>5. CASE released
  <2>1. f.blind = FALSE /\ open
    BY <1>1, <1>5 DEF released, Sound, Heading
  <2>2. t \in Heading /\ t.aligned = f.aligned /\ t.blind = f.blind /\ t.unsupported = f.unsupported
    <3>1. (IF left < b.var THEN left ELSE b.var) \in Levels
      BY <1>4 DEF Sound, Heading
    <3> QED BY <1>4, <3>1 DEF Sound, Heading
  <2> HIDE DEF t
  <2>3. /\ y \in Heading /\ y.valid = TRUE /\ y.hh = y.var /\ y.aligned = t.aligned
        /\ y.blind = t.blind /\ y.unsupported = t.unsupported
    BY <1>3, <1>5, <2>2 DEF Synced, Heading
  <2>4. Sound(y)
    BY <2>3 DEF Sound, Covers, Heading, Levels
  <2>5. ~y.aligned /\ ~(x.pending /\ y.unsupported) => ~Unknown(x)
    BY <1>1, <2>1, <2>2, <2>3
  <2> QED BY <2>1, <2>2, <2>3, <2>4, <2>5 DEF y
<1>6. CASE ~released
  <2>1. y = b
    BY <1>3, <1>6
  <2>2. ASSUME ~y.aligned, ~(x.pending /\ y.unsupported)
        PROVE  /\ Unknown(x) => y.blind /\ y.held /\ y.hh = x.hh
               /\ Published(y) >= Published(x)
    <3>1. /\ x.valid => f.held = x.held /\ f.hh = x.hh
          /\ ~x.valid => f.hh = x.var
          /\ Unknown(x) => f.blind
          /\ f.var = x.var
      BY <1>1, <1>4, <2>1, <2>2
    <3>2. /\ x.var \in Int /\ x.hh \in Int /\ y.var \in Int /\ y.hh \in Int
          /\ x.valid \in BOOLEAN /\ x.held \in BOOLEAN /\ y.held \in BOOLEAN /\ y.valid = TRUE
      BY <1>4, <2>1 DEF Sound, Heading, Levels
    <3>3. /\ y.hh = f.hh /\ (x.valid /\ x.held => y.held) /\ (~y.held => y.var = x.var)
          /\ y.hh >= y.var
      BY <1>4, <2>1, <3>1 DEF Sound, Covers
    <3>4. Unknown(x) => y.blind /\ y.held /\ y.hh = x.hh
      BY <1>4, <2>1, <3>1, <3>3 DEF Unknown
    <3>5. /\ y.hh >= x.var
          /\ x.valid => y.hh = x.hh
      BY <3>1, <3>2, <3>3 DEF Sound, Covers
    <3>6. Published(y) = IF y.held THEN y.hh ELSE y.var
      BY <3>2, <3>3 DEF Published
    <3>7. Published(y) >= Published(x)
      <4>1. CASE y.held
        BY <3>2, <3>3, <3>5, <3>6, <4>1 DEF Published
      <4>2. CASE ~y.held
        BY <3>2, <3>3, <3>6, <4>2 DEF Published
      <4> QED BY <4>1, <4>2
    <3> QED BY <3>4, <3>7
  <2> QED BY <1>4, <2>1, <2>2 DEF y
<1> QED BY <1>5, <1>6
-----------------------------------------------------------------------------
Typed == /\ Sound(h)
         /\ measured \in BOOLEAN /\ guess \in BOOLEAN

\* Before the first measurement, only a marked start has a shadow.
OnlyMarkedIsValid == starts > 0 /\ ~measured /\ ~guess => ~h.valid

IInv == Typed /\ GuessIsHeld /\ GuessIsBlind /\ OnlyMarkedIsValid

LEMMA GuessIsUnknown ==
  ASSUME IInv, guess
  PROVE  Unknown(h)
BY HeadingParams DEF IInv, Typed, Sound, Heading, Levels, GuessIsHeld, Unknown, Wide

\* A lever update of the filter.
LEMMA LeverFixKeeps ==
  ASSUME IInv, NEW open \in BOOLEAN, NEW rate \in Rates, NEW moved \in BOOLEAN,
         LeverFix(open, rate, moved)
  PROVE  /\ IInv'
         /\ Unknown(h) /\ ~Unknown(h') => by' \in {"aligned", "taken back"}
         /\ Published(h') < Published(h) => by' \in {"aligned", "taken back", "released"}
<1>1. PICK left \in Levels : h' = LeverFixed(h, open, rate, moved, left)
  BY DEF LeverFix
<1>2. /\ Sound(h') /\ h'.valid
      /\ ~h'.aligned /\ ~(h.pending /\ h'.unsupported) =>
           /\ Unknown(h) => h'.blind /\ h'.held /\ h'.hh = h.hh
           /\ ~(open /\ ~h'.blind) => Published(h') >= Published(h)
  BY <1>1, LeverFixedSound DEF IInv, Typed
<1>3. /\ measured' = TRUE
      /\ guess' = (guess /\ by' \notin {"aligned", "taken back"})
      /\ by' = IF h'.aligned THEN "aligned"
               ELSE IF h.pending /\ h'.unsupported THEN "taken back"
               ELSE IF open /\ ~h'.blind THEN "released" ELSE "closed"
  BY DEF LeverFix
<1>4. Unknown(h) => \/ by' \in {"aligned", "taken back"}
                    \/ by' = "closed" /\ h'.blind /\ h'.held /\ h'.hh = h.hh
  BY <1>2, <1>3
<1>5. Typed'
  BY <1>2, <1>3 DEF IInv, Typed
<1>6. guess' => Unknown(h) /\ guess
  BY <1>3, GuessIsUnknown
<1>7. GuessIsHeld'
  BY <1>2, <1>4, <1>6, <1>3 DEF IInv, GuessIsHeld
<1>8. GuessIsBlind'
  BY <1>4, <1>6, <1>3 DEF GuessIsBlind
<1>9. OnlyMarkedIsValid'
  BY <1>3 DEF OnlyMarkedIsValid
<1>10. Unknown(h) /\ ~Unknown(h') => by' \in {"aligned", "taken back"}
  BY <1>2, <1>4 DEF Unknown, Wide
<1>11. Published(h') < Published(h) => by' \in {"aligned", "taken back", "released"}
  <2>1. Published(h') \in Int /\ Published(h) \in Int
    BY <1>2 DEF IInv, Typed, Sound, Heading, Levels, Published
  <2>2. CASE by' = "closed"
    BY <1>2, <1>3, <2>1, <2>2
  <2> QED BY <1>3, <2>2
<1> QED BY <1>5, <1>7, <1>8, <1>9, <1>10, <1>11 DEF IInv

\* A fix without the arm leaves the shadow alone.
LEMMA PositionFixKeeps ==
  ASSUME IInv, PositionFix
  PROVE  /\ IInv'
         /\ Unknown(h) => Unknown(h')
         /\ h.valid /\ h.held => Published(h') = Published(h)
<1>1. PICK left \in 0..h.var : h' = [h EXCEPT !.var = left]
  BY DEF PositionFix, PositionFixed
<1>2. h.var \in Levels /\ h.hh \in Levels /\ left \in Levels /\ left <= h.var
  BY HeadingParams DEF IInv, Typed, Sound, Heading, Levels
<1>3. /\ h' \in Heading /\ h'.var = left /\ h'.valid = h.valid /\ h'.held = h.held
      /\ h'.hh = h.hh /\ h'.blind = h.blind
  BY <1>1, <1>2 DEF IInv, Typed, Sound, Heading
<1>4. Covers(h) /\ (h.valid => h.hh >= left)
  BY <1>2 DEF IInv, Typed, Sound, Covers, Levels
<1>5. Sound(h')
  BY <1>3, <1>4 DEF Sound, Covers
<1>6. measured' = TRUE /\ guess' = guess /\ by' = "position"
  BY DEF PositionFix
<1>7. IInv'
  BY <1>3, <1>5, <1>6 DEF IInv, Typed, GuessIsHeld, GuessIsBlind, OnlyMarkedIsValid
<1>8. h.valid /\ h.held => Published(h') = Published(h)
  BY <1>2, <1>3, <1>4 DEF Published, Covers, Levels
<1> QED BY <1>3, <1>7, <1>8 DEF Unknown, Wide

LEMMA PredictKeeps ==
  ASSUME IInv, Predict
  PROVE  /\ IInv'
         /\ Unknown(h) => Unknown(h')
         /\ ~(Published(h') < Published(h))
<1>1. PICK g \in {0, 1} : \E less \in 0..g : h' = Predicted(h, g, less)
  BY DEF Predict
<1>2. PICK less \in 0..g : h' = Predicted(h, g, less)
  BY <1>1
<1>3. /\ Sound(h') /\ h'.valid = h.valid /\ h'.held = h.held
      /\ h.valid => h'.hh >= h.hh
      /\ h'.var >= h.var
  BY <1>2, PredictedSound DEF IInv, Typed
<1>4. measured' = measured /\ guess' = guess /\ by' = "predict" /\ starts' = starts
  BY DEF Predict
<1>5. /\ h.var \in Int /\ h.hh \in Int /\ h'.var \in Int /\ h'.hh \in Int
      /\ StartVar \in Int /\ AlignVar \in Int
  BY <1>3, HeadingParams DEF IInv, Typed, Sound, Heading, Levels
<1>6. GuessIsHeld'
  BY <1>3, <1>4, <1>5 DEF IInv, GuessIsHeld
<1>7. GuessIsBlind' /\ OnlyMarkedIsValid' /\ Typed'
  BY <1>3, <1>4 DEF IInv, Typed, GuessIsBlind, OnlyMarkedIsValid
<1>8. Unknown(h) => Unknown(h')
  BY <1>3, <1>5 DEF Unknown, Wide
<1>9. ~(Published(h') < Published(h))
  BY <1>3, <1>5 DEF Published
<1> QED BY <1>6, <1>7, <1>8, <1>9 DEF IInv

LEMMA StartKeeps ==
  ASSUME IInv, Start
  PROVE  IInv' /\ by' = "start"
<1>1. PICK mark \in BOOLEAN :
        /\ h' = IF mark THEN Marked(Initialized(h)) ELSE Initialized(h)
        /\ guess' = mark
  BY DEF Start
<1>2. /\ Sound(Initialized(h)) /\ ~Initialized(h).valid
      /\ Sound(Marked(Initialized(h)))
      /\ Marked(Initialized(h)).valid /\ Marked(Initialized(h)).held
      /\ Marked(Initialized(h)).hh = StartVar
  BY InitializedSound DEF IInv, Typed, Sound
<1>3. measured' = FALSE /\ by' = "start"
  BY DEF Start
<1>4. GuessIsHeld'
  BY <1>1, <1>2, HeadingParams DEF GuessIsHeld
<1> QED BY <1>1, <1>2, <1>3, <1>4 DEF IInv, Typed, GuessIsBlind, OnlyMarkedIsValid

\* A pose measures the heading; the attitude replaced resets it.  Neither leaves
\* a shadow.
LEMMA PoseFixKeeps ==
  ASSUME IInv, PoseFix
  PROVE  IInv' /\ by' = "pose"
<1>1. PICK left \in 0..h.var : h' = [h EXCEPT !.var = left, !.valid = FALSE]
  BY DEF PoseFix, PoseFixed
<1>2. left \in Levels
  BY HeadingParams DEF IInv, Typed, Sound, Heading, Levels
<1>3. h' \in Heading /\ h'.valid = FALSE
  BY <1>1, <1>2 DEF IInv, Typed, Sound, Heading
<1>4. measured' = TRUE /\ guess' = FALSE /\ by' = "pose"
  BY DEF PoseFix
<1> QED BY <1>3, <1>4 DEF IInv, Typed, Sound, Covers, GuessIsHeld, GuessIsBlind, OnlyMarkedIsValid

LEMMA ReplaceKeeps ==
  ASSUME IInv, ReplaceAttitude
  PROVE  IInv' /\ ~Unknown(h) /\ by' = "replace"
<1>1. h' = [h EXCEPT !.var = SeedVar, !.valid = FALSE]
  BY DEF ReplaceAttitude, AttitudeReplaced
<1>2. SeedVar \in Levels
  BY HeadingParams DEF Levels
<1>3. h' \in Heading /\ h'.valid = FALSE
  BY <1>1, <1>2 DEF IInv, Typed, Sound, Heading
<1>4. /\ measured' = measured /\ guess' = guess /\ ~guess /\ by' = "replace"
      /\ starts > 0 /\ ~measured
  BY DEF ReplaceAttitude
<1> QED BY <1>3, <1>4 DEF IInv, Typed, Sound, Covers, GuessIsHeld, GuessIsBlind,
                         OnlyMarkedIsValid, Unknown

LEMMA InitIInv == Init => IInv
<1> SUFFICES ASSUME Init PROVE IInv
  OBVIOUS
<1>1. 0 \in Levels /\ 0 \in 0..KnownFixes
  BY HeadingParams DEF Levels
<1>2. NewHeading \in Heading /\ NewHeading.valid = FALSE
  BY <1>1 DEF NewHeading, Heading
<1> QED BY <1>2 DEF Init, IInv, Typed, Sound, Covers, GuessIsHeld, GuessIsBlind, OnlyMarkedIsValid

LEMMA StutterKeeps == IInv /\ UNCHANGED vars => IInv' /\ h' = h
BY DEF vars, IInv, Typed, GuessIsHeld, GuessIsBlind, OnlyMarkedIsValid

\* Every step keeps the invariant, ends an unknown heading only by a source of
\* it, and publishes a better heading only for a reason.
LEMMA StepKeeps ==
  ASSUME IInv, [Next]_vars
  PROVE  /\ IInv'
         /\ Unknown(h) /\ ~Unknown(h') => by' \in {"start", "pose", "aligned", "taken back"}
         /\ Published(h') < Published(h) =>
              \/ by' \in {"start", "replace", "pose", "aligned", "taken back", "released"}
              \/ by' = "position" /\ ~(h.valid /\ h.held)
<1>1. CASE Start
  BY <1>1, StartKeeps
<1>2. CASE Predict
  BY <1>2, PredictKeeps
<1>3. CASE PositionFix
  <2>1. by' = "position"
    BY <1>3 DEF PositionFix
  <2>2. Published(h) \in Int
    BY DEF IInv, Typed, Sound, Heading, Levels, Published
  <2> QED BY <1>3, <2>1, <2>2, PositionFixKeeps
<1>4. CASE PoseFix
  BY <1>4, PoseFixKeeps
<1>5. CASE ReplaceAttitude
  BY <1>5, ReplaceKeeps
<1>6. CASE \E open, moved \in BOOLEAN, rate \in Rates : LeverFix(open, rate, moved)
  BY <1>6, LeverFixKeeps
<1>7. CASE UNCHANGED vars
  <2>1. Published(h) \in Int
    BY DEF IInv, Typed, Sound, Heading, Levels, Published
  <2>2. IInv' /\ h' = h
    BY <1>7, StutterKeeps
  <2>3. Unknown(h') = Unknown(h) /\ Published(h') = Published(h)
    BY <2>2
  <2>4. ~(Published(h') < Published(h))
    BY <2>1, <2>3
  <2>5. Unknown(h) => Unknown(h')
    BY <2>3
  <2> QED BY <2>2, <2>4, <2>5
<1> QED BY <1>1, <1>2, <1>3, <1>4, <1>5, <1>6, <1>7 DEF Next

THEOREM HeadingInductive == Spec => []IInv
<1>1. IInv /\ [Next]_vars => IInv'
  BY StepKeeps
<1> QED BY InitIInv, <1>1, PTL DEF Spec
-----------------------------------------------------------------------------
\* A start whose heading is a guess stays held back at the spread of an unknown
\* heading until a source gives the heading (markHeadingUnknown()).
THEOREM AlwaysGuessIsHeld == Spec => []GuessIsHeld
<1>1. IInv => GuessIsHeld
  BY DEF IInv
<1> QED BY HeadingInductive, <1>1, PTL

\* No lever update of a guess is anything but blind: roll and pitch are never
\* corrected with its heading (updatePositionLever()).
THEOREM AlwaysGuessIsBlind == Spec => []GuessIsBlind
<1>1. IInv => GuessIsBlind
  BY DEF IInv
<1> QED BY HeadingInductive, <1>1, PTL

\* No linearised update ends an unknown heading: only a start, a pose, the
\* alignment or a start taken back does (updatePositionLever()).
THEOREM UnknownAlwaysEndsBySource == Spec => UnknownEndsBySource
<1>1. IInv /\ [Next]_vars =>
        [Unknown(h) /\ ~Unknown(h') => by' \in {"start", "pose", "aligned", "taken back"}]_vars
  BY StepKeeps
<1> QED BY HeadingInductive, <1>1, PTL DEF Spec, UnknownEndsBySource

\* What the bound cuts out of the covariance stays in what is published
\* (covarianceHonest()).
THEOREM PublishedAlwaysHonest == Spec => PublishedIsHonest
<1>1. IInv /\ [Next]_vars =>
        [Published(h') < Published(h) =>
           \/ by' \in {"start", "replace", "pose", "aligned", "taken back", "released"}
           \/ by' = "position" /\ ~(h.valid /\ h.held)]_vars
  BY StepKeeps
<1> QED BY HeadingInductive, <1>1, PTL DEF Spec, PublishedIsHonest
=============================================================================
