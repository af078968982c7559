--------------------------- MODULE FusionNodeProofs ---------------------------
(***************************************************************************)
(* What a running filter started from, when its attitude is replaced and   *)
(* what it holds of a heading that nothing has given, for any number of    *)
(* poses of the user and any numbers of the heading.                       *)
(***************************************************************************)
EXTENDS FusionNode, TLAPS

\* For its lemmas on the operators of HeadingShadow; they name no variable.
Lever == INSTANCE HeadingTrackingProofs
         WITH MaxStarts <- 0, starts <- 0, measured <- FALSE, guess <- FALSE, by <- "none"

\* The types the properties below need: all but those of the heading.
Typed == /\ acc \in BOOLEAN
         /\ seed \in Seed
         /\ antenna \in {"base", "arm"} /\ mount \in {"unknown", antenna}
         /\ filter \in Filter
         /\ hist \in [guess : BOOLEAN, measured : BOOLEAN, replaced : BOOLEAN, tilted : BOOLEAN]
         /\ poses \in Nat

\* A pose of the user stays what the filter starts from next, and the source of
\* its heading, until it starts.
PoseStays == poses > 0 => /\ seed.attitude = "pose" /\ seed.position = "pose"
                          /\ ~filter.init => heading_source = "initialpose"

\* Roll and pitch with the wide variance are waiting for the accelerometer.
WideIsPending ==
  filter.init /\ antenna = "arm" /\ filter.tilt = "wide" => filter.pending /\ ~filter.ndt

\* As long as they wait for it, only the lidar has measured.
PendingIsFresh == filter.init /\ filter.pending /\ ~filter.ndt => ~hist.measured

IInv == /\ Typed
        /\ PoseStays /\ StartedFromLatestPose
        /\ WideIsPending /\ NeverTilted
        /\ PendingIsFresh /\ ReplacesFreshOnly

LEMMA InitIInv == Init => IInv
<1> SUFFICES ASSUME Init PROVE IInv
  OBVIOUS
<1>1. ~filter.init /\ poses = 0 /\ ~hist.tilted /\ ~hist.replaced
  BY DEF Init
<1>2. seed \in Seed
  BY DEF Init, Seed, NoSeed
<1>3. filter \in Filter
  BY DEF Init, Filter
<1>4. hist \in [guess : BOOLEAN, measured : BOOLEAN, replaced : BOOLEAN, tilted : BOOLEAN]
  BY DEF Init
<1>5. acc \in BOOLEAN /\ poses \in Nat
  <2>1. acc = FALSE
    BY DEF Init
  <2> QED BY <1>1, <2>1
<1>6. antenna \in {"base", "arm"} /\ mount \in {"unknown", antenna}
  BY DEF Init
<1>7. Typed
  BY <1>2, <1>3, <1>4, <1>5, <1>6 DEF Typed
<1> QED BY <1>1, <1>7 DEF IInv, PoseStays, StartedFromLatestPose, WideIsPending, NeverTilted,
                          PendingIsFresh, ReplacesFreshOnly

\* tryInitialize(): a start makes all parts true at once.
LEMMA TryInitializeKeeps ==
  ASSUME IInv, NEW s \in Seed, NEW a \in BOOLEAN, NEW m \in {"unknown", antenna},
         poses > 0 => s.attitude = "pose" /\ s.position = "pose",
         TryInitialize(s, a, m), acc' \in BOOLEAN, mount' \in {"unknown", antenna},
         UNCHANGED <<antenna, poses, heading_source>>
  PROVE  IInv'
<1>1. CASE Starting(s)
  <2>1. /\ filter' = Begun(s, a, m) /\ seed' = s
        /\ begun' = [seed |-> s, poses |-> poses, source |-> heading_source]
        /\ hist' = [guess |-> heading_source = "none", measured |-> FALSE,
                    replaced |-> FALSE, tilted |-> FALSE]
    BY <1>1 DEF TryInitialize
  <2>2. /\ filter' \in Filter /\ filter'.init /\ ~filter'.ndt
        /\ filter'.tilt = "wide" => m # "arm" \/ ~a
        /\ m # "arm" \/ ~a => filter'.pending \/ m = "base"
    BY <2>1 DEF Begun, Filter, IInv, Typed
  <2>3. Typed'
    BY <2>1, <2>2 DEF IInv, Typed
  <2>4. poses > 0 => heading_source = "initialpose"
    BY <1>1 DEF Starting, IInv, PoseStays
  <2>5. PoseStays' /\ StartedFromLatestPose'
    BY <2>1, <2>2, <2>4 DEF PoseStays, StartedFromLatestPose
  <2>6. WideIsPending' /\ PendingIsFresh' /\ NeverTilted' /\ ReplacesFreshOnly'
    BY <2>1, <2>2 DEF IInv, Typed, WideIsPending, PendingIsFresh, NeverTilted, ReplacesFreshOnly
  <2> QED BY <2>3, <2>5, <2>6 DEF IInv
<1>2. CASE ~Starting(s)
  <2>1. UNCHANGED <<filter, begun, hist>> /\ seed' = s
    BY <1>2 DEF TryInitialize
  <2> QED BY <2>1 DEF IInv, Typed, PoseStays, StartedFromLatestPose, WideIsPending, NeverTilted,
                      PendingIsFresh, ReplacesFreshOnly
<1> QED BY <1>1, <1>2

\* What a sample and a fix add to the seed.
LEMMA SeedsKept ==
  ASSUME NEW s \in Seed
  PROVE  /\ Levelled(s) \in Seed /\ Positioned(s) \in Seed
         /\ s.attitude = "pose" /\ s.position = "pose" => Levelled(s) = s /\ Positioned(s) = s
BY DEF Seed, Levelled, Positioned

\* A fix that is fused.
LEMMA FuseKeeps ==
  ASSUME IInv, filter.init, ~Waits(filter), UNCHANGED <<acc, antenna, poses>>, mount' = antenna,
         NEW open, NEW rate, NEW moved, Fuse(open, rate, moved)
  PROVE  IInv'
<1>1. /\ UNCHANGED <<seed, begun>>
      /\ filter' = Unpended(IF Retilts(filter) THEN Retilted(filter) ELSE filter)
      /\ hist'.measured = TRUE
      /\ hist'.replaced = (hist.replaced \/ (Retilts(filter) /\ hist.measured))
      /\ hist'.tilted = (hist.tilted \/ (antenna = "arm" /\ filter'.tilt = "wide"))
      /\ hist' \in [guess : BOOLEAN, measured : BOOLEAN, replaced : BOOLEAN, tilted : BOOLEAN]
  BY DEF Fuse, IInv, Typed
<1>2. /\ filter' \in Filter /\ filter'.init /\ ~filter'.pending
      /\ filter'.tilt = IF Retilts(filter) THEN "accel" ELSE filter.tilt
  BY <1>1 DEF IInv, Typed, Filter, Unpended, Retilted, Waits
<1>3. Typed' /\ PoseStays' /\ StartedFromLatestPose' /\ PendingIsFresh'
  BY <1>1, <1>2 DEF IInv, Typed, PoseStays, StartedFromLatestPose, PendingIsFresh
<1>4. antenna = "arm" => filter'.tilt # "wide"
  BY <1>2 DEF IInv, WideIsPending, Retilts, Waits
<1>5. WideIsPending' /\ NeverTilted'
  BY <1>1, <1>4 DEF IInv, WideIsPending, NeverTilted
<1>6. ReplacesFreshOnly'
  BY <1>1 DEF IInv, Retilts, PendingIsFresh, ReplacesFreshOnly
<1> QED BY <1>3, <1>5, <1>6 DEF IInv

LEMMA NextIInv == IInv /\ [Next]_vars => IInv'
<1> SUFFICES ASSUME IInv, [Next]_vars PROVE IInv'
  OBVIOUS
<1>0. /\ seed \in Seed /\ acc \in BOOLEAN /\ mount \in {"unknown", antenna}
      /\ poses > 0 => seed.attitude = "pose" /\ seed.position = "pose"
  BY DEF IInv, Typed, PoseStays
<1>1. CASE FirstSample
  <2>1. seed' \in Seed /\ (poses > 0 => seed' = seed) /\ acc' \in BOOLEAN
    BY <1>0, <1>1, SeedsKept DEF FirstSample
  <2> QED BY <1>1, <2>1
          DEF FirstSample, IInv, Typed, PoseStays, StartedFromLatestPose, WideIsPending,
              NeverTilted, PendingIsFresh, ReplacesFreshOnly
<1>2. ASSUME NEW usable \in BOOLEAN, Sample(usable) PROVE IInv'
  <2>1. Levelled(seed) \in Seed /\ (poses > 0 => Levelled(seed) = seed)
    BY <1>0, SeedsKept
  <2> QED BY <1>0, <1>2, <2>1, TryInitializeKeeps DEF Sample
<1>3. CASE Points
  BY <1>3 DEF Points, IInv, Typed, Filter, PoseStays, StartedFromLatestPose, WideIsPending,
              NeverTilted, PendingIsFresh, ReplacesFreshOnly
<1>4. ASSUME NEW open \in BOOLEAN, NEW rate \in Rates, NEW moved \in BOOLEAN,
             Gnss(open, rate, moved)
      PROVE  IInv'
  <2>1. Positioned(seed) \in Seed /\ (poses > 0 => Positioned(seed) = seed)
    BY <1>0, SeedsKept
  <2>2. CASE ~filter.init
    BY <1>0, <1>4, <2>1, <2>2, TryInitializeKeeps DEF Gnss
  <2>3. CASE filter.init /\ Waits(filter)
    BY <1>4, <2>1, <2>3 DEF Gnss, IInv, Typed, PoseStays, StartedFromLatestPose, WideIsPending,
                            NeverTilted, PendingIsFresh, ReplacesFreshOnly
  <2>4. CASE filter.init /\ ~Waits(filter)
    BY <1>4, <2>4, FuseKeeps DEF Gnss
  <2> QED BY <2>2, <2>3, <2>4
<1>5. CASE InitialPose
  <2>1. filter' \in Filter /\ ~filter'.init /\ seed' \in Seed
    BY <1>5 DEF InitialPose, IInv, Typed, Filter, Seed, PoseSeed
  <2> QED BY <1>5, <2>1
          DEF InitialPose, PoseSeed, IInv, Typed, PoseStays, StartedFromLatestPose, WideIsPending,
              NeverTilted, PendingIsFresh, ReplacesFreshOnly
<1>6. CASE UNCHANGED vars
  BY <1>6 DEF vars, IInv, Typed, PoseStays, StartedFromLatestPose, WideIsPending, NeverTilted,
              PendingIsFresh, ReplacesFreshOnly
<1> QED BY <1>1, <1>2, <1>3, <1>4, <1>5, <1>6 DEF Next, Imu

LEMMA AlwaysIInv == Spec => []IInv
BY InitIInv, NextIInv, PTL DEF Spec
-----------------------------------------------------------------------------
(* The heading of the filter.                                              *)

HeadingTyped == /\ Lever!Sound(h)
                /\ heading_source \in Sources
                /\ poses \in 0..MaxPoses

\* What the seed comes from is there: the mount with a fix, the IMU with the
\* accelerometer's attitude, and the user with a pose.
SeedKnows(s, a, m) ==
  /\ s.position = "fix" => m = antenna
  /\ s.attitude = "accel" => a
  /\ "pose" \in {s.position, s.attitude} => poses > 0

\* A start without a source of the heading came from a fix and a sample, so that
\* nothing of its attitude was left to wait for.
GuessIsSettled ==
  filter.init /\ hist.guess /\ antenna = "arm" =>
    mount = "arm" /\ ~filter.pending /\ heading_source = "none"

Marking == HeadingTyped /\ SeedKnows(seed, acc, mount) /\ GuessIsSettled /\ GuessIsMarked

LEMMA SameTypes ==
  ASSUME NEW x
  PROVE  /\ Lever!Levels = Levels
         /\ Lever!Sound(x) <=> x \in Heading /\ (x.valid => x.hh >= x.var)
BY DEF Lever!Levels, Levels, Lever!Sound, Lever!Heading, Heading, Lever!Covers

\* A lever update that neither aligns the heading nor takes a marked start back
\* leaves what is held back.
LEMMA LeverKeeps ==
  ASSUME NEW x, Lever!Sound(x), NEW open \in BOOLEAN, NEW rate, NEW moved, NEW left \in Levels
  PROVE  LET y == LeverFixed(x, open, rate, moved, left)
         IN  /\ Lever!Sound(y) /\ y.valid
             /\ Unknown(x) /\ ~y.aligned /\ ~(x.pending /\ y.unsupported) =>
                  y.held /\ y.hh = x.hh
<1>1. /\ Lever!LeverFixed(x, open, rate, moved, left) = LeverFixed(x, open, rate, moved, left)
      /\ Lever!Unknown(x) <=> Unknown(x)
  <2>1. ASSUME NEW y PROVE Lever!Synced(y) = Synced(y) /\ (Lever!Unknown(y) <=> Unknown(y))
    BY DEF Synced, Lever!Synced, Unknown, Lever!Unknown, Wide, Lever!Wide
  <2>2. Lever!Stored(x) = Stored(x)
    BY <2>1 DEF Stored, Lever!Stored
  <2>3. ASSUME NEW y PROVE Lever!Rated(y, rate) = Rated(y, rate)
    BY <2>1 DEF Rated, Lever!Rated
  <2>4. ASSUME NEW y PROVE Lever!Reacquired(y, rate, moved) = Reacquired(y, rate, moved)
    BY <2>1 DEF Reacquired, Lever!Reacquired, Aligned, Lever!Aligned,
                Alignable, Lever!Alignable
  <2>5. ASSUME NEW y, NEW r \in BOOLEAN PROVE Lever!Bounded(y, r) = Bounded(y, r)
    BY DEF Bounded, Lever!Bounded
  <2>6. Lever!Reacquired(Lever!Rated(Lever!Stored(x), rate), rate, moved)
          = Reacquired(Rated(Stored(x), rate), rate, moved)
    BY <2>2, <2>3, <2>4
  <2> QED BY <2>1, <2>5, <2>6 DEF LeverFixed, Lever!LeverFixed
<1>2. left \in Lever!Levels
  BY DEF Levels, Lever!Levels
<1> QED BY <1>1, <1>2, Lever!LeverFixedSound, HeadingParams

LEMMA PredictKeeps ==
  ASSUME NEW x, Lever!Sound(x), NEW g \in {0, 1}, NEW less \in 0..g
  PROVE  LET y == Predicted(x, g, less)
         IN  /\ Lever!Sound(y) /\ y.valid = x.valid /\ y.held = x.held
             /\ x.valid => y.hh >= x.hh
<1>1. Lever!Predicted(x, g, less) = Predicted(x, g, less)
  BY DEF Predicted, Lever!Predicted, Grown, Lever!Grown
<1> QED BY <1>1, Lever!PredictedSound, HeadingParams

LEMMA StartHeadingMarks ==
  ASSUME Lever!Sound(h), NEW m, NEW source
  PROVE  LET y == StartHeading(m, source)
         IN  /\ Lever!Sound(y)
             /\ Guess(m, source) => y.valid /\ y.held /\ y.hh >= StartVar
<1>1. /\ Lever!Initialized(h) = Initialized(h)
      /\ Lever!Marked(Lever!Initialized(h)) = Marked(Initialized(h))
  BY DEF Initialized, Lever!Initialized, Marked, Lever!Marked
<1>2. h \in Lever!Heading
  BY DEF Lever!Sound
<1>3. /\ Lever!Sound(Initialized(h)) /\ Lever!Sound(Marked(Initialized(h)))
      /\ Marked(Initialized(h)).valid /\ Marked(Initialized(h)).held
      /\ Marked(Initialized(h)).hh = StartVar
  BY <1>1, <1>2, Lever!InitializedSound, HeadingParams
<1>4. StartVar >= StartVar
  BY HeadingParams
<1> QED BY <1>3, <1>4 DEF StartHeading

\* The other updates.
LEMMA MeasuredSound ==
  ASSUME NEW x, Lever!Sound(x), NEW left \in 0..x.var
  PROVE  /\ Lever!Sound(PositionFixed(x, left)) /\ Lever!Sound(PoseFixed(x, left))
         /\ Lever!Sound(AttitudeReplaced(x)) /\ AttitudeReplaced(x).var \in Levels
<1>1. x \in Heading /\ (x.valid => x.hh >= x.var) /\ x.var \in Levels /\ x.hh \in Levels
  BY SameTypes DEF Heading
<1>2. left \in Levels /\ left <= x.var /\ SeedVar \in Levels
  BY <1>1, HeadingParams DEF Levels
<1> DEFINE p == PositionFixed(x, left)
           q == PoseFixed(x, left)
           r == AttitudeReplaced(x)
<1>3. /\ p \in Heading /\ p.valid = x.valid /\ p.hh = x.hh /\ p.var = left
      /\ q \in Heading /\ q.valid = FALSE
      /\ r \in Heading /\ r.valid = FALSE /\ r.var = SeedVar
  BY <1>1, <1>2 DEF PositionFixed, PoseFixed, AttitudeReplaced, Heading
<1> HIDE DEF p, q, r
<1>4. p.valid => p.hh >= p.var
  BY <1>1, <1>2, <1>3 DEF Levels
<1>5. Lever!Sound(p) /\ Lever!Sound(q) /\ Lever!Sound(r)
  BY <1>3, <1>4, SameTypes
<1> QED BY <1>2, <1>3, <1>5 DEF p, q, r

LEMMA GuessIsUnknown ==
  ASSUME Marking, filter.init, hist.guess, antenna = "arm", ~InitialYawKnown
  PROVE  Unknown(h)
<1>1. h.valid /\ h.held /\ h.hh >= StartVar
  BY DEF Marking, GuessIsMarked
<1>2. h.hh \in Int
  BY SameTypes DEF Marking, HeadingTyped, Heading, Levels
<1> QED BY <1>1, <1>2, HeadingParams DEF Unknown, Wide

LEMMA InitMarking == Init => Marking
<1> SUFFICES ASSUME Init PROVE Marking
  OBVIOUS
<1>1. NewHeading \in Heading /\ NewHeading.valid = FALSE
  BY HeadingParams DEF NewHeading, Heading, Levels
<1>2. Lever!Sound(h)
  BY <1>1, SameTypes DEF Init
<1>3. heading_source \in Sources /\ poses \in 0..MaxPoses
  BY NodeParams DEF Init, Sources
<1>4. SeedKnows(seed, acc, mount)
  BY DEF Init, NoSeed, SeedKnows
<1>5. ~filter.init
  BY DEF Init
<1> QED BY <1>2, <1>3, <1>4, <1>5 DEF Marking, HeadingTyped, GuessIsSettled, GuessIsMarked

\* A start: the seed, the sample and the mount are there, so a guess is marked.
LEMMA StartMarks ==
  ASSUME IInv, Marking, NEW s \in Seed, NEW a \in BOOLEAN, NEW m \in {"unknown", antenna},
         Starting(s), SeedKnows(s, a, m), TryInitialize(s, a, m), acc' = a, mount' = m,
         UNCHANGED <<antenna, poses, heading_source>>,
         Lever!Sound(h'),
         LET y == StartHeading(m, heading_source)
         IN  h'.valid = y.valid /\ h'.held = y.held /\ (y.valid => h'.hh >= y.hh)
  PROVE  Marking'
<1>1. /\ filter' = Begun(s, a, m) /\ seed' = s
      /\ hist' = [guess |-> heading_source = "none", measured |-> FALSE,
                  replaced |-> FALSE, tilted |-> FALSE]
  BY DEF TryInitialize
<1>2. HeadingTyped' /\ SeedKnows(seed, acc, mount)'
  BY <1>1 DEF Marking, HeadingTyped, SeedKnows
<1>3. ASSUME hist'.guess, antenna = "arm"
      PROVE  m = "arm" /\ ~filter'.pending /\ heading_source = "none"
  <2>1. heading_source = "none"
    BY <1>1, <1>3
  <2>2. ~(poses > 0)
    BY <2>1 DEF Starting, IInv, PoseStays
  <2>3. s.position = "fix" /\ s.attitude = "accel"
    BY <2>2 DEF SeedKnows, Starting, Ready, Seed
  <2>4. m = antenna /\ a
    BY <2>3 DEF SeedKnows
  <2> QED BY <1>1, <1>3, <2>1, <2>4 DEF Begun
<1>4. GuessIsSettled'
  BY <1>3 DEF GuessIsSettled
<1>5. ASSUME hist'.guess, antenna = "arm", ~InitialYawKnown
      PROVE  h'.valid /\ h'.held /\ h'.hh >= StartVar
  <2> DEFINE y == StartHeading(m, heading_source)
  <2>1. Lever!Sound(y) /\ y.valid /\ y.held /\ y.hh >= StartVar
    BY <1>3, <1>5, StartHeadingMarks DEF Guess, Marking, HeadingTyped
  <2>2. y.hh \in Int /\ h'.hh \in Int /\ StartVar \in Int
    BY <2>1, SameTypes, HeadingParams DEF Heading, Levels
  <2>3. h'.valid = y.valid /\ h'.held = y.held /\ h'.hh >= y.hh
    BY <2>1
  <2> HIDE DEF y
  <2> QED BY <2>1, <2>2, <2>3
<1>6. GuessIsMarked'
  BY <1>3, <1>5 DEF GuessIsMarked
<1> QED BY <1>2, <1>4, <1>6 DEF Marking

\* A prediction lets what is held back grow.
LEMMA RunOnMarks ==
  ASSUME Marking, UNCHANGED <<filter, antenna, heading_source, hist, poses>>,
         SeedKnows(seed, acc, mount)', mount = "arm" => mount' = "arm",
         Lever!Sound(h'), h'.valid = h.valid, h'.held = h.held, h.valid => h'.hh >= h.hh
  PROVE  Marking'
<1>1. h.hh \in Int /\ h'.hh \in Int /\ StartVar \in Int
  BY SameTypes, HeadingParams DEF Marking, HeadingTyped, Heading, Levels
<1>2. HeadingTyped' /\ GuessIsSettled'
  BY DEF Marking, HeadingTyped, GuessIsSettled
<1>3. GuessIsMarked'
  BY <1>1 DEF Marking, GuessIsMarked
<1> QED BY <1>2, <1>3 DEF Marking

LEMMA SeedsKnow ==
  ASSUME NEW s \in Seed, NEW a \in BOOLEAN, NEW m, SeedKnows(s, a, m)
  PROVE  SeedKnows(Levelled(s), TRUE, m) /\ SeedKnows(Positioned(s), a, antenna)
<1>1. SeedKnows(Levelled(s), TRUE, m)
  BY DEF Seed, SeedKnows, Levelled
<1>2. SeedKnows(Positioned(s), a, antenna)
  BY DEF Seed, SeedKnows, Positioned
<1> QED BY <1>1, <1>2

LEMMA SampleMarks ==
  ASSUME IInv, Marking, NEW usable \in BOOLEAN, Sample(usable)
  PROVE  Marking'
<1> DEFINE s == Levelled(seed)
           then == HeadingThen(s, mount)
<1>1. /\ seed \in Seed /\ s \in Seed /\ acc = TRUE /\ acc' = acc /\ mount' = mount
      /\ mount \in {"unknown", antenna}
      /\ UNCHANGED <<antenna, poses, heading_source>> /\ TryInitialize(s, TRUE, mount)
  BY SeedsKept DEF Sample, IInv, Typed
<1>2. SeedKnows(s, TRUE, mount)
  BY <1>1, SeedsKnow DEF Marking
<1>3. /\ h' = then \/ \E g \in {0, 1} : \E less \in 0..g : h' = Predicted(then, g, less)
  BY DEF Sample
<1>4. Lever!Sound(then)
  BY StartHeadingMarks DEF HeadingThen, Marking, HeadingTyped
<1> HIDE DEF then
<1>5. /\ Lever!Sound(h') /\ h'.valid = then.valid /\ h'.held = then.held
      /\ then.valid => h'.hh >= then.hh
  <2>1. CASE h' = then
    BY <1>4, <2>1, SameTypes DEF Heading, Levels
  <2>2. CASE \E g \in {0, 1} : \E less \in 0..g : h' = Predicted(then, g, less)
    BY <1>4, <2>2, PredictKeeps
  <2> QED BY <1>3, <2>1, <2>2
<1>6. CASE Starting(s)
  <2>1. then = StartHeading(mount, heading_source)
    BY <1>6 DEF then, HeadingThen
  <2> HIDE DEF s
  <2> QED BY <1>1, <1>2, <1>5, <1>6, <2>1, StartMarks
<1>7. CASE ~Starting(s)
  <2>1. then = h
    BY <1>7 DEF then, HeadingThen
  <2>2. UNCHANGED <<filter, begun, hist>> /\ seed' = s
    BY <1>1, <1>7 DEF TryInitialize
  <2>3. SeedKnows(seed, acc, mount)'
    BY <1>1, <1>2, <2>2 DEF SeedKnows
  <2> HIDE DEF s
  <2> QED BY <1>1, <1>5, <2>1, <2>2, <2>3, RunOnMarks
<1> QED BY <1>6, <1>7

\* A fix before the filter runs.
LEMMA FirstFixMarks ==
  ASSUME IInv, Marking, ~filter.init, mount' = antenna, UNCHANGED <<acc, antenna, poses, heading_source>>,
         TryInitialize(Positioned(seed), acc, antenna),
         h' = HeadingThen(Positioned(seed), antenna)
  PROVE  Marking'
<1> DEFINE s == Positioned(seed)
<1>1. seed \in Seed /\ s \in Seed /\ acc \in BOOLEAN /\ antenna \in {"unknown", antenna}
  BY SeedsKept DEF IInv, Typed
<1>2. SeedKnows(s, acc, antenna)
  BY <1>1, SeedsKnow DEF Marking
<1>3. Lever!Sound(h')
  BY StartHeadingMarks DEF HeadingThen, Marking, HeadingTyped
<1> HIDE DEF s
<1>4. CASE Starting(s)
  <2> DEFINE y == StartHeading(antenna, heading_source)
  <2>1. h' = y
    BY <1>4 DEF HeadingThen, s
  <2> HIDE DEF y
  <2>2. h'.valid = y.valid /\ h'.held = y.held /\ (y.valid => h'.hh >= y.hh)
    BY <1>3, <2>1, SameTypes DEF Heading, Levels
  <2>3. TryInitialize(s, acc, antenna)
    BY DEF s
  <2> QED BY <1>1, <1>2, <1>3, <1>4, <2>2, <2>3, StartMarks DEF y
<1>5. CASE ~Starting(s)
  <2>1. h' = h /\ UNCHANGED <<filter, begun, hist>> /\ seed' = s
    BY <1>5 DEF HeadingThen, TryInitialize, s
  <2>2. SeedKnows(seed, acc, mount)'
    BY <1>2, <2>1 DEF SeedKnows
  <2>3. h.hh >= h.hh
    BY SameTypes DEF Marking, HeadingTyped, Heading, Levels
  <2>4. mount = "arm" => mount' = "arm"
    BY DEF IInv, Typed
  <2> QED BY <1>3, <2>1, <2>2, <2>3, <2>4, RunOnMarks
<1> QED BY <1>4, <1>5

\* A fix that is fused: at the lever arm the attitude of a guess is not replaced,
\* and the update leaves what is held back or ends the guess.
LEMMA FuseMarks ==
  ASSUME IInv, Marking, filter.init, ~Waits(filter), UNCHANGED <<acc, antenna, poses>>,
         mount' = antenna, NEW open \in BOOLEAN, NEW rate, NEW moved, Fuse(open, rate, moved)
  PROVE  Marking'
<1>1. PICK left \in Levels : h' = Fixed(open, rate, moved, left)
  BY DEF Fuse
<1>2. /\ UNCHANGED <<seed, begun>>
      /\ filter' = Unpended(IF Retilts(filter) THEN Retilted(filter) ELSE filter)
      /\ heading_source' = SourceOf(h')
      /\ hist'.guess = (hist.guess /\ ~h'.aligned /\ ~(h.pending /\ h'.unsupported))
  BY DEF Fuse
<1> DEFINE before == IF Retilts(filter) THEN AttitudeReplaced(h) ELSE h
           after == IF left < before.var THEN left ELSE before.var
<1>3. Lever!Sound(before) /\ before.var \in Levels
  <2>1. Lever!Sound(h) /\ h.var \in Levels /\ left \in Levels
    BY SameTypes DEF Marking, HeadingTyped, Heading
  <2>2. 0 \in 0..h.var
    BY <2>1 DEF Levels
  <2> QED BY <2>1, <2>2, MeasuredSound
<1>4. h' = IF antenna = "base" THEN PositionFixed(before, after)
           ELSE LeverFixed(before, open, rate, moved, left)
  BY <1>1 DEF Fixed
<1> HIDE DEF before
<1>5. after \in 0..before.var
  BY <1>3 DEF Levels
<1> HIDE DEF after
<1>6. Lever!Sound(h')
  BY <1>3, <1>4, <1>5, LeverKeeps, MeasuredSound
<1>7. HeadingTyped'
  <2>1. heading_source' \in Sources
    BY <1>2 DEF SourceOf, Sources, Marking, HeadingTyped
  <2> QED BY <1>6, <2>1 DEF HeadingTyped, Marking
<1>8. SeedKnows(seed, acc, mount)'
  BY <1>2 DEF SeedKnows, Marking
<1>9. filter.init \in BOOLEAN /\ (~filter.pending => ~filter'.pending)
  <2>1. /\ filter \in Filter
        /\ (IF Retilts(filter) THEN Retilted(filter) ELSE filter) \in Filter
        /\ (IF Retilts(filter) THEN Retilted(filter) ELSE filter).pending = filter.pending
    BY DEF IInv, Typed, Filter, Retilted
  <2> HIDE DEF Retilts, Retilted
  <2> QED BY <1>2, <2>1 DEF Unpended, Filter
<1>10. ASSUME hist'.guess, antenna = "arm"
       PROVE  /\ mount' = "arm" /\ ~filter'.pending /\ heading_source' = "none"
              /\ ~InitialYawKnown => h'.valid /\ h'.held /\ h'.hh >= StartVar
  <2>1. hist.guess /\ ~h'.aligned /\ ~(h.pending /\ h'.unsupported)
    BY <1>2, <1>10
  <2>2. mount = "arm" /\ ~filter.pending /\ heading_source = "none"
    BY <1>10, <2>1 DEF Marking, GuessIsSettled
  <2>3. before = h
    BY <2>2 DEF Retilts, before
  <2>4. ASSUME ~InitialYawKnown
        PROVE  h'.valid /\ h'.held /\ h'.hh >= StartVar
    <3>1. Unknown(h) /\ h.hh >= StartVar
      BY <1>10, <2>1, <2>4, GuessIsUnknown DEF Marking, GuessIsMarked
    <3>2. h' = LeverFixed(h, open, rate, moved, left)
      BY <1>4, <1>10, <2>3
    <3>3. h'.valid /\ h'.held /\ h'.hh = h.hh
      BY <1>3, <2>1, <2>3, <3>1, <3>2, LeverKeeps
    <3> QED BY <3>1, <3>3
  <2>5. heading_source' = "none"
    BY <1>2, <2>1, <2>2 DEF SourceOf
  <2> QED BY <1>9, <1>10, <2>2, <2>4, <2>5
<1>11. GuessIsSettled' /\ GuessIsMarked'
  BY <1>10 DEF GuessIsSettled, GuessIsMarked
<1> QED BY <1>7, <1>8, <1>11 DEF Marking

LEMMA PointsMark ==
  ASSUME IInv, Marking, Points
  PROVE  Marking'
<1>1. PICK left \in 0..h.var : h' = PoseFixed(h, left)
  BY DEF Points
<1>2. Lever!Sound(h')
  BY <1>1, MeasuredSound DEF Marking, HeadingTyped
<1>3. /\ heading_source' = "lidar" /\ hist' = [hist EXCEPT !.guess = FALSE, !.measured = TRUE]
      /\ UNCHANGED <<acc, seed, antenna, mount, poses>>
  BY DEF Points
<1>4. ~hist'.guess
  BY <1>3 DEF IInv, Typed
<1> QED BY <1>2, <1>3, <1>4 DEF Marking, HeadingTyped, Sources, SeedKnows, GuessIsSettled, GuessIsMarked

LEMMA InitialPoseMarks ==
  ASSUME IInv, Marking, InitialPose
  PROVE  Marking'
<1>1. /\ poses < MaxPoses /\ poses' = poses + 1 /\ seed' = PoseSeed
      /\ filter' = [filter EXCEPT !.init = FALSE] /\ heading_source' = "initialpose"
      /\ UNCHANGED <<acc, antenna, mount, h, hist>>
  BY DEF InitialPose
<1>2. ~filter'.init
  BY <1>1 DEF IInv, Typed, Filter
<1>3. poses' \in 0..MaxPoses /\ poses' > 0
  BY <1>1, NodeParams DEF Marking, HeadingTyped
<1>4. HeadingTyped' /\ SeedKnows(seed, acc, mount)'
  BY <1>1, <1>3 DEF Marking, HeadingTyped, Sources, SeedKnows, PoseSeed
<1> QED BY <1>2, <1>4 DEF Marking, GuessIsSettled, GuessIsMarked

LEMMA NextMarking == IInv /\ Marking /\ [Next]_vars => Marking'
<1> SUFFICES ASSUME IInv, Marking, [Next]_vars PROVE Marking'
  OBVIOUS
<1>0. /\ seed \in Seed /\ acc \in BOOLEAN /\ mount \in {"unknown", antenna}
      /\ h.hh >= h.hh /\ SeedKnows(seed, acc, mount) /\ Lever!Sound(h)
  BY SameTypes DEF IInv, Typed, Marking, HeadingTyped, Heading, Levels
<1>1. CASE FirstSample
  <2>1. /\ acc' = TRUE /\ seed' = Levelled(seed)
        /\ UNCHANGED <<antenna, mount, filter, h, heading_source, poses, hist>>
    BY <1>1 DEF FirstSample
  <2>2. SeedKnows(Levelled(seed), TRUE, mount)
    BY <1>0, SeedsKnow
  <2>3. SeedKnows(seed, acc, mount)'
    BY <2>1, <2>2 DEF SeedKnows
  <2> QED BY <1>0, <2>1, <2>3, RunOnMarks
<1>2. ASSUME NEW usable \in BOOLEAN, Sample(usable) PROVE Marking'
  BY <1>2, SampleMarks
<1>3. CASE Points
  BY <1>3, PointsMark
<1>4. ASSUME NEW open \in BOOLEAN, NEW rate \in Rates, NEW moved \in BOOLEAN,
             Gnss(open, rate, moved)
      PROVE  Marking'
  <2>1. mount' = antenna /\ UNCHANGED <<acc, antenna, poses>>
    BY <1>4 DEF Gnss
  <2>2. CASE ~filter.init
    BY <1>4, <2>1, <2>2, FirstFixMarks DEF Gnss
  <2>3. CASE filter.init /\ Waits(filter)
    <3>1. seed' = Positioned(seed) /\ UNCHANGED <<filter, h, heading_source, hist>>
      BY <1>4, <2>3 DEF Gnss
    <3>2. SeedKnows(seed, acc, mount)'
      BY <1>0, <2>1, <3>1, SeedsKnow DEF SeedKnows
    <3> QED BY <1>0, <2>1, <3>1, <3>2, RunOnMarks
  <2>4. CASE filter.init /\ ~Waits(filter)
    BY <1>4, <2>1, <2>4, FuseMarks DEF Gnss
  <2> QED BY <2>2, <2>3, <2>4
<1>5. CASE InitialPose
  BY <1>5, InitialPoseMarks
<1>6. CASE UNCHANGED vars
  BY <1>6 DEF vars, Marking, HeadingTyped, SeedKnows, GuessIsSettled, GuessIsMarked
<1> QED BY <1>1, <1>2, <1>3, <1>4, <1>5, <1>6 DEF Next, Imu

LEMMA AlwaysMarking == Spec => []Marking
BY InitIInv, NextIInv, InitMarking, NextMarking, PTL DEF Spec
-----------------------------------------------------------------------------
\* A filter that runs was started from the last pose of the user.
THEOREM AlwaysFromLatestPose == Spec => []StartedFromLatestPose
BY AlwaysIInv, PTL DEF IInv

\* No fix tilts a filter whose roll and pitch are not known.
THEOREM AlwaysUntilted == Spec => []NeverTilted
BY AlwaysIInv, PTL DEF IInv

\* Only a filter that has fused nothing gets another attitude.
THEOREM AlwaysReplacesFreshOnly == Spec => []ReplacesFreshOnly
BY AlwaysIInv, PTL DEF IInv

\* Seed, filter, heading and source have their types, whatever the levels.
THEOREM NodeTypeCorrect == Spec => []TypeOK
<1>1. IInv /\ Marking => TypeOK
  BY SameTypes DEF IInv, Typed, Marking, HeadingTyped, TypeOK
<1> QED BY <1>1, AlwaysIInv, AlwaysMarking, PTL

\* A heading that nothing has given keeps the spread of an unknown one, however
\* the filter was started and whatever predictions and fixes come.
THEOREM AlwaysGuessIsMarked == Spec => []GuessIsMarked
BY AlwaysMarking, PTL DEF Marking
=============================================================================
