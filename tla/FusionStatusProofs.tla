-------------------------- MODULE FusionStatusProofs --------------------------
(***************************************************************************)
(* The warnings of the fusion node about its heading and its odometry, for *)
(* every robot, time-out, delay of the timer and number of messages.       *)
(***************************************************************************)
EXTENDS FusionStatus, TLAPS
-----------------------------------------------------------------------------
(* The types of the state.                                                 *)

Headings == [source : {"none", "lidar", "initialpose", "motion"}, source_age : Nat,
             init_age : Nat, capped : BOOLEAN, since : Nat, fixed : BOOLEAN,
             fix_age : Nat, slow : BOOLEAN]

Transforms == [parent : {"none", "map", "odom"}, odom_seen : BOOLEAN, odom : Nat,
               fallback_ever : BOOLEAN, fallback : Nat, two_parents : BOOLEAN, both : Nat,
               missing : BOOLEAN, child : {"none", "odom", "base_link"}]

Filters == [attitude : BOOLEAN, position : BOOLEAN, init : BOOLEAN]

Histories == [broken : Nat, skipped : Nat, silent : Nat, unfed : Nat, free : Nat]

Imus == [valid : BOOLEAN, age : Nat, count : Nat, period : Nat, gaps : BOOLEAN]

LEMMA AgedTyped ==
  ASSUME NEW age \in Nat, NEW limit \in Nat
  PROVE  /\ Aged(age, limit) \in Nat
         /\ Aged(age, limit) = age \/ Aged(age, limit) = age + 1
         /\ age < limit => Aged(age, limit) = age + 1
         /\ age >= limit => Aged(age, limit) = age
BY DEF Aged

LEMMA BroadcastTyped ==
  ASSUME tf \in Transforms
  PROVE  /\ Broadcast \in Transforms
         /\ Broadcast.odom_seen = tf.odom_seen /\ Broadcast.odom = tf.odom
<1>1. CASE Resolves
  BY <1>1 DEF Broadcast, Transforms
<1>2. CASE ~Resolves /\ robot.fallback
  BY <1>2 DEF Broadcast, Transforms
<1>3. CASE ~Resolves /\ ~robot.fallback
  BY <1>3 DEF Broadcast, Transforms
<1> QED BY <1>1, <1>2, <1>3

LEMMA PublishTyped ==
  ASSUME tf \in Transforms, NEW running, Publish(running)
  PROVE  tf' \in Transforms /\ tf'.odom_seen = tf.odom_seen /\ tf'.odom = tf.odom
BY BroadcastTyped DEF Publish

LEMMA WatchedTyped ==
  ASSUME tf \in Transforms, NEW parent \in {"none", "map", "odom"}
  PROVE  Watched(parent) \in Transforms /\ Watched(parent).odom = 0
<1> DEFINE both == tf.fallback_ever /\ tf.fallback < FallbackRecent
           t == tf.two_parents \/ both
           b == IF both THEN 0 ELSE tf.both
<1>1. b \in Nat /\ (t = TRUE \/ t = FALSE)
  BY DEF Transforms
<1>2. Watched(parent) = [tf EXCEPT !.parent = parent, !.odom_seen = TRUE, !.odom = 0,
                                   !.two_parents = t, !.both = b]
  BY DEF Watched
<1>3. t \in BOOLEAN
  BY <1>1
<1> HIDE DEF t, b
<1>4. Watched(parent) = [parent |-> parent, odom_seen |-> TRUE, odom |-> 0,
                         fallback_ever |-> tf.fallback_ever, fallback |-> tf.fallback,
                         two_parents |-> t, both |-> b,
                         missing |-> tf.missing, child |-> tf.child]
  BY <1>2 DEF Transforms
<1>5. /\ tf.fallback_ever \in BOOLEAN /\ tf.fallback \in Nat /\ tf.missing \in BOOLEAN
      /\ tf.child \in {"none", "odom", "base_link"}
  BY DEF Transforms
<1> QED BY <1>1, <1>3, <1>4, <1>5 DEF Transforms

LEMMA BegunTyped ==
  ASSUME NEW f \in Filters
  PROVE  /\ Begun(f) \in Filters
         /\ Begun(f).init <=> (f.init \/ Starts(f))
<1> DEFINE i == f.init \/ Starts(f)
<1>1. i \in BOOLEAN
  <2>1. i = TRUE \/ i = FALSE
    OBVIOUS
  <2> QED BY <2>1
<1>2. Begun(f) = [f EXCEPT !.init = i]
  BY DEF Begun
<1> HIDE DEF i
<1>3. Begun(f) \in Filters /\ Begun(f).init = i
  BY <1>1, <1>2 DEF Filters
<1> QED BY <1>3 DEF i

LEMMA HeadingThenTyped ==
  ASSUME heading \in Headings, NEW f
  PROVE  HeadingThen(f) \in Headings
BY DEF HeadingThen, Headings

LEMMA StretchTyped ==
  ASSUME heading \in Headings, NEW capped \in BOOLEAN
  PROVE  /\ Stretch(capped) \in Headings
         /\ Stretch(capped).source = heading.source
         /\ Stretch(capped).source_age = heading.source_age
         /\ Stretch(capped).init_age = heading.init_age
<1> DEFINE paused == ~heading.fixed \/ heading.fix_age > FixGap
           c == heading.capped /\ ~paused
           before == [heading EXCEPT !.capped = c]
<1>1. c \in BOOLEAN
  <2>1. c = TRUE \/ c = FALSE
    OBVIOUS
  <2> QED BY <2>1
<1>2. before \in Headings /\ before.source = heading.source
      /\ before.source_age = heading.source_age /\ before.init_age = heading.init_age
  <2> HIDE DEF c
  <2> QED BY <1>1 DEF Headings
<1>3. Stretch(capped) = IF ~robot.lever THEN before
                        ELSE IF ~capped THEN [before EXCEPT !.capped = FALSE]
                        ELSE IF ~before.capped THEN [before EXCEPT !.capped = TRUE, !.since = 0]
                        ELSE before
  BY DEF Stretch
<1> HIDE DEF before
<1>4. [before EXCEPT !.capped = FALSE] \in Headings
      /\ [before EXCEPT !.capped = FALSE].source = heading.source
      /\ [before EXCEPT !.capped = FALSE].source_age = heading.source_age
      /\ [before EXCEPT !.capped = FALSE].init_age = heading.init_age
  BY <1>2 DEF Headings
<1>5. [before EXCEPT !.capped = TRUE, !.since = 0] \in Headings
      /\ [before EXCEPT !.capped = TRUE, !.since = 0].source = heading.source
      /\ [before EXCEPT !.capped = TRUE, !.since = 0].source_age = heading.source_age
      /\ [before EXCEPT !.capped = TRUE, !.since = 0].init_age = heading.init_age
  BY <1>2 DEF Headings
<1> QED BY <1>2, <1>3, <1>4, <1>5

LEMMA CountedRecord ==
  ASSUME NEW r \in [valid : BOOLEAN, age : Nat, count : Nat, period : Nat, gaps : BOOLEAN],
         NEW g \in BOOLEAN, NEW p \in Nat, NEW c \in Nat
  PROVE  [r EXCEPT !.age = 0, !.gaps = g, !.period = p, !.count = c]
           \in [valid : BOOLEAN, age : Nat, count : Nat, period : Nat, gaps : BOOLEAN]
OBVIOUS

LEMMA CountedTyped ==
  ASSUME imu \in [valid : BOOLEAN, age : Nat, count : Nat, period : Nat, gaps : BOOLEAN],
         NEW dt \in Int
  PROVE  Counted(dt) \in [valid : BOOLEAN, age : Nat, count : Nat, period : Nat, gaps : BOOLEAN]
<1>1. CASE dt <= 0
  BY <1>1 DEF Counted
<1>2. CASE ~(dt <= 0)
  <2> DEFINE g == imu.gaps \/ Lost(dt)
             p == IF Lost(dt) THEN imu.period
                  ELSE IF imu.count = 0 THEN dt * Parts
                  ELSE (19 * imu.period + dt * Parts) \div 20
             c == IF imu.count > ImuWarmUp THEN imu.count ELSE imu.count + 1
  <2>1. g = TRUE \/ g = FALSE
    OBVIOUS
  <2>2. p \in Nat
    <3>1. dt * Parts \in Nat /\ imu.period \in Nat
      BY <1>2 DEF Parts
    <3>2. (19 * imu.period + dt * Parts) \div 20 \in Nat
      BY <3>1
    <3> QED BY <3>1, <3>2
  <2>3. c \in Nat
    OBVIOUS
  <2>4. Counted(dt) = [imu EXCEPT !.age = 0, !.gaps = g, !.period = p, !.count = c]
    BY <1>2 DEF Counted
  <2>5. g \in BOOLEAN
    BY <2>1
  <2> HIDE DEF g, p, c
  <2> QED BY <2>2, <2>3, <2>4, <2>5, CountedRecord
<1> QED BY <1>1, <1>2

LEMMA MountedTyped ==
  ASSUME mounts \in [{"points", "imu", "gnss"} -> {"unseen", "missing", "known"}],
         NEW sensor \in {"points", "imu", "gnss"}, NEW known \in BOOLEAN, Mounted(sensor, known)
  PROVE  mounts' \in [{"points", "imu", "gnss"} -> {"unseen", "missing", "known"}]
BY DEF Mounted

LEMMA InitTypeOK == Init => TypeOK
<1> SUFFICES ASSUME Init PROVE TypeOK
  OBVIOUS
<1>1. robot \in Robot
  BY StatusParams DEF Init
<1>2. heading \in Headings /\ tf \in Transforms
  BY DEF Init, Headings, Transforms
<1>3. filter \in Filters /\ hist \in Histories
  BY DEF Init, Filters, Histories
<1>4. /\ imu \in [valid : BOOLEAN, age : Nat, count : Nat, period : Nat, gaps : BOOLEAN]
      /\ ndt \in [any : BOOLEAN, age : Nat]
  BY DEF Init
<1>5. mounts \in [{"points", "imu", "gnss"} -> {"unseen", "missing", "known"}]
  BY DEF Init
<1>6. /\ up \in Nat /\ since \in Nat /\ stuck \in 0..2 /\ level \in {"OK", "WARN", "ERROR"}
      /\ seen \subseteq {"imu", "points", "gnss", "initialpose"}
  BY DEF Init
<1>7. watchdog \in BOOLEAN
  BY Zenon DEF Init
<1> QED BY <1>1, <1>2, <1>3, <1>4, <1>5, <1>6, <1>7 DEF TypeOK, Headings, Transforms, Filters, Histories

\* The parts of the state that are records of several fields.
LEMMA TypeParts ==
  ASSUME TypeOK
  PROVE  /\ heading \in Headings /\ tf \in Transforms /\ filter \in Filters
         /\ hist \in Histories /\ imu \in Imus
BY DEF TypeOK, Headings, Transforms, Filters, Histories, Imus

\* The history after each handler, field by field.
LEMMA ToldParts ==
  ASSUME hist \in Histories, NEW advanced, hist' = Told(advanced)
  PROVE  /\ hist' \in Histories
         /\ hist'.broken = hist.broken /\ hist'.unfed = hist.unfed /\ hist'.free = hist.free
         /\ hist'.skipped = 0
         /\ hist'.silent = IF "IMU gaps" \in Warnings(advanced) THEN hist.silent
                           ELSE hist.silent + hist.skipped
<1> DEFINE s == IF "IMU gaps" \in Warnings(advanced) THEN hist.silent
                ELSE hist.silent + hist.skipped
<1>1. hist' = [hist EXCEPT !.skipped = 0, !.silent = s]
  BY DEF Told
<1>2. s \in Nat
  <2>1. hist.silent \in Nat /\ hist.silent + hist.skipped \in Nat
    BY DEF Histories
  <2> QED BY <2>1, Zenon
<1> HIDE DEF s
<1>3. /\ hist' \in Histories
      /\ hist'.broken = hist.broken /\ hist'.unfed = hist.unfed /\ hist'.free = hist.free
      /\ hist'.skipped = 0 /\ hist'.silent = s
  <2>1. PICK n \in Nat : n = s
    BY <1>2
  <2>2. hist' = [hist EXCEPT !.skipped = 0, !.silent = n]
    BY <1>1, <2>1
  <2>3. hist' \in Histories
    <3>1. hist' = [broken |-> hist.broken, skipped |-> 0, silent |-> n,
                   unfed |-> hist.unfed, free |-> hist.free]
      BY <2>2 DEF Histories
    <3>2. hist.broken \in Nat /\ hist.unfed \in Nat /\ hist.free \in Nat /\ 0 \in Nat
      BY DEF Histories
    <3> QED BY <2>1, <3>1, <3>2 DEF Histories
  <2>4. hist'.skipped = 0 /\ hist'.silent = n
    BY <2>2 DEF Histories
  <2>5. hist'.broken = hist.broken
    BY <2>2 DEF Histories
  <2>6. hist'.unfed = hist.unfed /\ hist'.free = hist.free
    BY <2>2 DEF Histories
  <2> QED BY <2>1, <2>3, <2>4, <2>5, <2>6
<1> QED BY <1>3 DEF s

LEMMA SampleParts ==
  ASSUME hist \in Histories, NEW known \in BOOLEAN, NEW dt \in Int, OnImu(known, dt)
  PROVE  /\ hist' \in Histories
         /\ hist'.silent = hist.silent /\ hist'.free = hist.free
         /\ known => hist'.unfed = 0
         /\ known /\ imu.valid =>
              /\ hist'.broken = IF Starts([filter EXCEPT !.attitude = TRUE]) THEN 0 ELSE hist.broken
              /\ hist'.skipped = IF dt > ImuMaxStep THEN OneMore ELSE hist.skipped
         /\ ~known \/ ~imu.valid => hist'.broken = hist.broken /\ hist'.skipped = hist.skipped
<1> DEFINE b == IF Starts([filter EXCEPT !.attitude = TRUE]) THEN 0 ELSE hist.broken
           k == IF dt > ImuMaxStep THEN OneMore ELSE hist.skipped
<1>1. CASE ~known
  BY <1>1 DEF OnImu
<1>2. CASE known /\ ~imu.valid
  <2>1. hist' = [hist EXCEPT !.unfed = 0]
    BY <1>2 DEF OnImu
  <2> QED BY <1>2, <2>1 DEF Histories
<1>3. CASE known /\ imu.valid
  <2>1. hist' = [hist EXCEPT !.broken = b, !.skipped = k, !.unfed = 0]
    BY <1>3 DEF OnImu
  <2>2. b \in Nat
    BY DEF Histories
  <2>3. k \in Nat
    BY StatusParams DEF Histories, OneMore
  <2> HIDE DEF b, k
  <2>4. /\ hist' \in Histories
        /\ hist'.silent = hist.silent /\ hist'.free = hist.free /\ hist'.unfed = 0
        /\ hist'.broken = b /\ hist'.skipped = k
    BY <2>1, <2>2, <2>3 DEF Histories
  <2> QED BY <1>3, <2>4 DEF b, k
<1> QED BY <1>1, <1>2, <1>3

LEMMA CloudParts ==
  ASSUME hist \in Histories, NEW known \in BOOLEAN, NEW accepted \in BOOLEAN,
         OnPoints(known, accepted)
  PROVE  /\ hist' \in Histories
         /\ hist'.silent = hist.silent /\ hist'.skipped = hist.skipped
         /\ hist'.unfed = hist.unfed
         /\ known /\ filter.init /\ accepted =>
              hist'.broken = 0 /\ hist'.free = 0 /\ ndt' = [any |-> TRUE, age |-> 0]
         /\ ~(known /\ filter.init /\ accepted) => hist' = hist /\ ndt' = ndt
<1>1. CASE known /\ filter.init /\ accepted
  <2>1. hist' = [hist EXCEPT !.broken = 0, !.free = 0] /\ ndt' = [any |-> TRUE, age |-> 0]
    BY <1>1 DEF OnPoints
  <2> QED BY <1>1, <2>1 DEF Histories
<1>2. CASE ~(known /\ filter.init /\ accepted)
  BY <1>2 DEF OnPoints
<1> QED BY <1>1, <1>2

LEMMA FixParts ==
  ASSUME hist \in Histories, NEW known \in BOOLEAN, NEW aligned \in BOOLEAN,
         NEW capped \in BOOLEAN, NEW slow \in BOOLEAN, OnGnss(known, aligned, capped, slow)
  PROVE  /\ hist' \in Histories
         /\ hist'.silent = hist.silent /\ hist'.skipped = hist.skipped
         /\ hist'.unfed = hist.unfed /\ hist'.free = hist.free
<1> DEFINE f == [filter EXCEPT !.position = TRUE]
<1>1. PICK b \in Nat : hist' = hist \/ hist' = [hist EXCEPT !.broken = b]
  <2>1. \/ hist' = hist
        \/ hist' = [hist EXCEPT !.broken = IF Starts(f) THEN 0 ELSE hist.broken]
        \/ hist' = [hist EXCEPT !.broken = IF aligned \/ ~capped THEN 0 ELSE hist.broken]
    BY DEF OnGnss, Fuse
  <2>2. hist.broken \in Nat
    BY DEF Histories
  <2> QED BY <2>1, <2>2
<1> QED BY <1>1 DEF Histories

LEMMA TickParts ==
  ASSUME hist \in Histories, Tick
  PROVE  /\ hist' \in Histories
         /\ hist'.silent = hist.silent /\ hist'.skipped = hist.skipped
         /\ hist'.broken = IF ~heading.fixed \/ heading'.fix_age > FixGap THEN 0
                           ELSE Aged(hist.broken, HeadingWarn + FixGap + 1)
         /\ hist'.unfed = Aged(hist.unfed, MaxSilence)
         /\ hist'.free = Aged(hist.free, Older(CorrectionTimeout, StartupTimeout) + 1)
<1> DEFINE b == IF ~heading.fixed \/ heading'.fix_age > FixGap THEN 0
                ELSE Aged(hist.broken, HeadingWarn + FixGap + 1)
           u == Aged(hist.unfed, MaxSilence)
           r == Aged(hist.free, Older(CorrectionTimeout, StartupTimeout) + 1)
<1>1. hist' = [hist EXCEPT !.broken = b, !.unfed = u, !.free = r]
  BY DEF Tick
<1>2. hist.broken \in Nat /\ hist.unfed \in Nat /\ hist.free \in Nat
  BY DEF Histories
<1>3. b \in Nat /\ u \in Nat /\ r \in Nat
  BY <1>2 DEF Aged
<1> HIDE DEF b, u, r
<1>4. /\ hist' \in Histories
      /\ hist'.silent = hist.silent /\ hist'.skipped = hist.skipped
      /\ hist'.broken = b /\ hist'.unfed = u /\ hist'.free = r
  BY <1>1, <1>3 DEF Histories
<1> QED BY <1>4 DEF b, u, r

LEMMA NextTypeOK == ASSUME TypeOK, [Next]_vars PROVE TypeOK'
<1>0. heading \in Headings /\ tf \in Transforms /\ filter \in Filters
      /\ hist \in Histories
  BY TypeParts
<1>1. ASSUME NEW advanced \in BOOLEAN, OnDiagnostics(advanced) PROVE TypeOK'
  <2>1. Level(advanced) \in {"OK", "WARN", "ERROR"} /\ StuckTicks(advanced) \in 0..2
    BY DEF Level, StuckTicks, TypeOK
  <2>2. level' \in {"OK", "WARN", "ERROR"} /\ stuck' \in 0..2 /\ since' \in Nat
    BY <1>1, <2>1 DEF OnDiagnostics
  <2>3. imu' \in [valid : BOOLEAN, age : Nat, count : Nat, period : Nat, gaps : BOOLEAN]
    BY <1>1 DEF OnDiagnostics, TypeOK
  <2>4. tf' \in Transforms
    BY <1>0, <1>1 DEF OnDiagnostics, Transforms
  <2>5. hist' \in Histories
    BY <1>0, <1>1, ToldParts DEF OnDiagnostics
  <2>6. UNCHANGED <<robot, up, seen, watchdog, mounts, filter, ndt, heading>>
    BY <1>1 DEF OnDiagnostics
  <2> QED BY <2>2, <2>3, <2>4, <2>5, <2>6 DEF TypeOK, Transforms, Histories
<1>2. CASE OnWatchdog
  BY <1>2 DEF OnWatchdog, TypeOK
<1>3. ASSUME NEW known \in BOOLEAN, NEW dt \in robot.steps, OnImu(known, dt) PROVE TypeOK'
  <2>1. dt \in Int
    BY DEF TypeOK, Robot
  <2>2. mounts' \in [{"points", "imu", "gnss"} -> {"unseen", "missing", "known"}]
    BY <1>3, MountedTyped DEF OnImu, TypeOK
  <2>3. imu' \in [valid : BOOLEAN, age : Nat, count : Nat, period : Nat, gaps : BOOLEAN]
    <3>1. imu \in [valid : BOOLEAN, age : Nat, count : Nat, period : Nat, gaps : BOOLEAN]
      BY DEF TypeOK
    <3>2. \/ imu' = [imu EXCEPT !.age = 0]
          \/ imu' = [imu EXCEPT !.age = 0, !.valid = TRUE]
          \/ imu' = Counted(dt)
      BY <1>3 DEF OnImu
    <3>3. Counted(dt) \in [valid : BOOLEAN, age : Nat, count : Nat, period : Nat, gaps : BOOLEAN]
      BY <2>1, <3>1, CountedTyped
    <3>4. CASE imu' = [imu EXCEPT !.age = 0]
      BY <3>1, <3>4
    <3>5. CASE imu' = [imu EXCEPT !.age = 0, !.valid = TRUE]
      BY <3>1, <3>5
    <3> QED BY <3>2, <3>3, <3>4, <3>5
  <2> DEFINE f == [filter EXCEPT !.attitude = TRUE]
  <2>4. f \in Filters
    BY <1>0 DEF Filters
  <2>5. filter' \in Filters
    <3> HIDE DEF f
    <3>1. filter' \in {filter, f, Begun(f)}
      BY <1>3 DEF OnImu, f
    <3> QED BY <1>0, <2>4, <3>1, BegunTyped
  <2>6. heading' \in Headings
    <3>1. heading' = heading \/ heading' = HeadingThen(f)
      BY <1>3 DEF OnImu
    <3> QED BY <1>0, <3>1, HeadingThenTyped
  <2>7. tf' \in Transforms
    BY <1>0, <1>3, PublishTyped DEF OnImu
  <2>8. hist' \in Histories
    BY <1>0, <1>3, <2>1, SampleParts
  <2>9. seen' \subseteq {"imu", "points", "gnss", "initialpose"}
    BY <1>3 DEF OnImu, TypeOK
  <2>10. UNCHANGED <<robot, up, since, watchdog, ndt, stuck, level>>
    BY <1>3 DEF OnImu
  <2> QED BY <2>2, <2>3, <2>5, <2>6, <2>7, <2>8, <2>9, <2>10
             DEF TypeOK, Headings, Transforms, Filters, Histories
<1>4. ASSUME NEW known \in BOOLEAN, NEW accepted \in BOOLEAN, OnPoints(known, accepted)
      PROVE  TypeOK'
  <2>1. mounts' \in [{"points", "imu", "gnss"} -> {"unseen", "missing", "known"}]
    BY <1>4, MountedTyped DEF OnPoints, TypeOK
  <2>2. heading' \in Headings
    <3>1. heading' = heading \/ heading' = [heading EXCEPT !.source = "lidar", !.source_age = 0]
      BY <1>4 DEF OnPoints
    <3>2. [heading EXCEPT !.source = "lidar", !.source_age = 0] \in Headings
      BY <1>0 DEF Headings
    <3> QED BY <1>0, <3>1, <3>2, Zenon
  <2>3. tf' \in Transforms
    BY <1>0, <1>4, PublishTyped DEF OnPoints
  <2>4. hist' \in Histories
    BY <1>0, <1>4, CloudParts
  <2>5. ndt' \in [any : BOOLEAN, age : Nat]
    <3>1. ndt' = ndt \/ ndt' = [any |-> TRUE, age |-> 0]
      BY <1>4 DEF OnPoints
    <3>2. ndt \in [any : BOOLEAN, age : Nat]
      BY DEF TypeOK
    <3>3. [any |-> TRUE, age |-> 0] \in [any : BOOLEAN, age : Nat]
      OBVIOUS
    <3> QED BY <3>1, <3>2, <3>3, Zenon
  <2>6. seen' \subseteq {"imu", "points", "gnss", "initialpose"}
    BY <1>4 DEF OnPoints, TypeOK
  <2>7. UNCHANGED <<robot, up, since, watchdog, imu, filter, stuck, level>>
    BY <1>4 DEF OnPoints
  <2> QED BY <2>1, <2>2, <2>3, <2>4, <2>5, <2>6, <2>7 DEF TypeOK, Headings, Transforms, Filters, Histories
<1>5. ASSUME NEW known \in BOOLEAN, NEW aligned \in BOOLEAN, NEW capped \in BOOLEAN,
             NEW slow \in BOOLEAN, OnGnss(known, aligned, capped, slow)
      PROVE  TypeOK'
  <2>1. mounts' \in [{"points", "imu", "gnss"} -> {"unseen", "missing", "known"}]
    BY <1>5, MountedTyped DEF OnGnss, TypeOK
  <2> DEFINE f == [filter EXCEPT !.position = TRUE]
  <2>2. f \in Filters
    BY <1>0 DEF Filters
  <2>3. filter' \in Filters
    <3> HIDE DEF f
    <3>1. filter' \in {filter, f, Begun(f)}
      BY <1>5 DEF OnGnss, Fuse, f
    <3> QED BY <1>0, <2>2, <3>1, BegunTyped
  <2>4. heading' \in Headings
    <3>1. CASE Fuse(aligned, capped, slow)
      <4> DEFINE s == IF aligned THEN "motion" ELSE Stretch(capped).source
                 a == IF aligned THEN 0 ELSE Stretch(capped).source_age
      <4>1. heading' = [Stretch(capped) EXCEPT !.source = s, !.source_age = a, !.fixed = TRUE,
                                               !.fix_age = 0, !.slow = slow]
        BY <3>1 DEF Fuse
      <4>2. Stretch(capped) \in Headings
        BY <1>0, StretchTyped
      <4>3. s \in {"none", "lidar", "initialpose", "motion"} /\ a \in Nat
        BY <4>2 DEF Headings
      <4> HIDE DEF s, a
      <4> QED BY <4>1, <4>2, <4>3 DEF Headings
    <3>2. CASE ~Fuse(aligned, capped, slow)
      <4>1. heading' = heading \/ heading' = HeadingThen(f)
        BY <1>5, <3>2 DEF OnGnss
      <4> QED BY <1>0, <4>1, HeadingThenTyped
    <3> QED BY <3>1, <3>2
  <2>5. tf' \in Transforms
    BY <1>0, <1>5, PublishTyped DEF OnGnss, Fuse
  <2>6. hist' \in Histories
    BY <1>0, <1>5, FixParts
  <2>7. seen' \subseteq {"imu", "points", "gnss", "initialpose"}
    BY <1>5 DEF OnGnss, TypeOK
  <2>8. UNCHANGED <<robot, up, since, watchdog, imu, ndt, stuck, level>>
    BY <1>5 DEF OnGnss
  <2> QED BY <2>1, <2>3, <2>4, <2>5, <2>6, <2>7, <2>8 DEF TypeOK, Headings, Transforms, Filters, Histories
<1>6. CASE OnInitialPose
  <2>1. heading' \in Headings
    BY <1>0, <1>6 DEF OnInitialPose, Headings
  <2>2. filter' \in Filters
    BY <1>6 DEF OnInitialPose, Filters
  <2>3. seen' \subseteq {"imu", "points", "gnss", "initialpose"}
    BY <1>6 DEF OnInitialPose, TypeOK
  <2>4. UNCHANGED <<robot, up, since, watchdog, mounts, imu, ndt, tf, stuck, level, hist>>
    BY <1>6 DEF OnInitialPose
  <2> QED BY <2>1, <2>2, <2>3, <2>4 DEF TypeOK, Headings, Filters
<1>7. CASE OnTfWatch
  <2>1. tf' \in Transforms
    <3>1. PICK parent \in {"odom"} \cup When(tf.parent = "map" /\ tf.fallback = 0, "map") :
            tf' = Watched(parent)
      BY <1>7 DEF OnTfWatch
    <3> QED BY <1>0, <3>1, WatchedTyped DEF When
  <2> QED BY <1>7, <2>1 DEF OnTfWatch, TypeOK, Transforms
<1>8. CASE BufferCleared
  BY <1>8 DEF BufferCleared, TypeOK
<1>9. CASE Tick
  <2> USE StatusParams
  <2>1. /\ imu' \in [valid : BOOLEAN, age : Nat, count : Nat, period : Nat, gaps : BOOLEAN]
        /\ ndt' \in [any : BOOLEAN, age : Nat]
    BY <1>9 DEF Tick, TypeOK, Aged, Older
  <2>2. heading' \in Headings
    <3> DEFINE a == IF heading.source = "none" THEN 0 ELSE Aged(heading.source_age, HeadingWarn)
               b == IF filter.init THEN Aged(heading.init_age, HeadingWarn) ELSE 0
               c == IF heading.capped THEN Aged(heading.since, HeadingWarn) ELSE 0
               d == IF heading.fixed THEN Aged(heading.fix_age, FixGap + 1) ELSE 0
    <3>1. heading' = [heading EXCEPT !.source_age = a, !.init_age = b, !.since = c, !.fix_age = d]
      BY <1>9 DEF Tick
    <3>2. a \in Nat /\ b \in Nat /\ c \in Nat /\ d \in Nat
      BY <1>0 DEF Headings, Aged
    <3> HIDE DEF a, b, c, d
    <3> QED BY <1>0, <3>1, <3>2 DEF Headings
  <2>3. tf' \in Transforms
    <3> DEFINE a == IF tf.odom_seen THEN Aged(tf.odom, OdomLost + StatusPeriod + MaxLate + 1) ELSE 0
               b == IF tf.fallback_ever THEN Aged(tf.fallback, FallbackRecent) ELSE 0
               c == IF tf.two_parents THEN Aged(tf.both, TwoParentsHeld) ELSE 0
    <3>1. tf' = [tf EXCEPT !.odom = a, !.fallback = b, !.both = c]
      BY <1>9 DEF Tick
    <3>2. a \in Nat /\ b \in Nat /\ c \in Nat
      BY <1>0 DEF Transforms, Aged
    <3> HIDE DEF a, b, c
    <3> QED BY <1>0, <3>1, <3>2 DEF Transforms
  <2>4. hist' \in Histories
    BY <1>0, <1>9, TickParts
  <2>5. up' \in Nat /\ since' \in Nat
    BY <1>9 DEF Tick, TypeOK, Aged
  <2>6. UNCHANGED <<robot, seen, watchdog, mounts, filter, stuck, level>>
    BY <1>9 DEF Tick
  <2> QED BY <2>1, <2>2, <2>3, <2>4, <2>5, <2>6 DEF TypeOK, Headings, Transforms, Histories
<1>10. CASE UNCHANGED vars
  BY <1>10 DEF vars, TypeOK
<1> QED BY <1>1, <1>2, <1>3, <1>4, <1>5, <1>6, <1>7, <1>8, <1>9, <1>10 DEF Next

\* The clocks, counters and flags behind the status have their types, for every robot.
THEOREM OutputTypeCorrect == Spec => []TypeOK
BY InitTypeOK, NextTypeOK, PTL DEF Spec
-----------------------------------------------------------------------------
(* An odometry that has stopped.                                           *)

\* The status before is no older than the timer may be late, and knew the odometry then.
OdomInv ==
  /\ since <= StatusPeriod + MaxLate
  /\ level = "OK" /\ tf.odom_seen => tf.odom <= OdomLost + since

LEMMA LostIsNotOK ==
  ASSUME NEW advanced \in BOOLEAN, Level(advanced) = "OK" PROVE ~LostOdom
<1> SUFFICES ASSUME LostOdom PROVE FALSE
  OBVIOUS
<1>1. "lost odometry" \in Warnings(advanced)
  BY DEF Warnings, When
<1>2. Warnings(advanced) # {}
  BY <1>1
<1> QED BY <1>2 DEF Level

LEMMA InitOdomInv == Init => OdomInv
BY StatusParams DEF Init, OdomInv

LEMMA NextOdomInv == ASSUME TypeOK, OdomInv, [Next]_vars PROVE OdomInv'
<1>0. /\ tf \in Transforms /\ since \in Nat
      /\ OdomLost \in Nat /\ StatusPeriod \in Nat /\ MaxLate \in Nat
  BY TypeParts, StatusParams DEF TypeOK
<1>1. ASSUME since' = since, level' = level, tf'.odom_seen = tf.odom_seen, tf'.odom = tf.odom
      PROVE  OdomInv'
  BY <1>1 DEF OdomInv
<1>2. ASSUME NEW advanced \in BOOLEAN, OnDiagnostics(advanced) PROVE OdomInv'
  <2>1. tf'.odom_seen = tf.odom_seen /\ tf'.odom = tf.odom
    BY <1>0, <1>2 DEF OnDiagnostics, Transforms
  <2>2. since' = 0 /\ level' = Level(advanced)
    BY <1>2 DEF OnDiagnostics
  <2>3. level' = "OK" /\ tf.odom_seen => tf.odom <= OdomLost
    <3>1. level' = "OK" => ~LostOdom
      BY <2>2, LostIsNotOK
    <3>2. tf.odom \in Nat
      BY <1>0 DEF Transforms
    <3> QED BY <1>0, <3>1, <3>2 DEF LostOdom
  <2> QED BY <1>0, <2>1, <2>2, <2>3 DEF OdomInv
<1>3. CASE OnWatchdog
  BY <1>1, <1>3 DEF OnWatchdog
<1>4. ASSUME NEW known \in BOOLEAN, NEW dt \in robot.steps, OnImu(known, dt) PROVE OdomInv'
  BY <1>0, <1>1, <1>4, PublishTyped DEF OnImu
<1>5. ASSUME NEW known \in BOOLEAN, NEW accepted \in BOOLEAN, OnPoints(known, accepted)
      PROVE  OdomInv'
  BY <1>0, <1>1, <1>5, PublishTyped DEF OnPoints
<1>6. ASSUME NEW known \in BOOLEAN, NEW aligned \in BOOLEAN, NEW capped \in BOOLEAN,
             NEW slow \in BOOLEAN, OnGnss(known, aligned, capped, slow)
      PROVE  OdomInv'
  BY <1>0, <1>1, <1>6, PublishTyped DEF OnGnss, Fuse
<1>7. CASE OnInitialPose
  BY <1>1, <1>7 DEF OnInitialPose
<1>8. CASE OnTfWatch
  <2>1. PICK parent \in {"odom"} \cup When(tf.parent = "map" /\ tf.fallback = 0, "map") :
          tf' = Watched(parent)
    BY <1>8 DEF OnTfWatch
  <2>2. tf'.odom = 0
    BY <1>0, <2>1, WatchedTyped DEF When
  <2>3. since' = since /\ level' = level
    BY <1>8 DEF OnTfWatch
  <2> QED BY <1>0, <2>2, <2>3 DEF OdomInv
<1>9. CASE BufferCleared
  BY <1>0, <1>1, <1>9 DEF BufferCleared, Transforms
<1>10. CASE Tick
  <2> DEFINE a == IF tf.odom_seen THEN Aged(tf.odom, OdomLost + StatusPeriod + MaxLate + 1) ELSE 0
  <2>1. tf'.odom_seen = tf.odom_seen /\ tf'.odom = a
    BY <1>0, <1>10 DEF Tick, Transforms
  <2>2. tf.odom_seen => a <= tf.odom + 1
    BY <1>0 DEF Transforms, Aged
  <2>3. since' = since + 1 /\ since < StatusPeriod + MaxLate /\ level' = level
    BY <1>10 DEF Tick
  <2>4. a \in Nat /\ tf.odom \in Nat
    BY <1>0 DEF Transforms, Aged
  <2> HIDE DEF a
  <2> QED BY <1>0, <2>1, <2>2, <2>3, <2>4 DEF OdomInv
<1>11. CASE UNCHANGED vars
  BY <1>1, <1>11 DEF vars
<1> QED BY <1>2, <1>3, <1>4, <1>5, <1>6, <1>7, <1>8, <1>9, <1>10, <1>11 DEF Next

\* A map->odom built on an odometry that has stopped follows no status that says OK,
\* whatever the periods and the delays of the timer.
THEOREM StaleOdomAlwaysKnown == Spec => StaleOdomKnown
<1>1. TypeOK /\ OdomInv /\ [Next]_vars =>
        [/\ tf'.child = "odom"
         /\ tf.odom_seen /\ tf.odom > OdomLost + StatusPeriod + MaxLate
         /\ UNCHANGED since
         => level # "OK"]_vars
  <2> SUFFICES ASSUME TypeOK, OdomInv, tf.odom_seen,
                      tf.odom > OdomLost + StatusPeriod + MaxLate, level = "OK"
               PROVE  FALSE
    OBVIOUS
  <2>1. tf \in Transforms /\ since \in Nat
        /\ OdomLost \in Nat /\ StatusPeriod \in Nat /\ MaxLate \in Nat
    BY TypeParts, StatusParams DEF TypeOK
  <2> QED BY <2>1 DEF OdomInv, Transforms
<1> QED BY <1>1, InitTypeOK, NextTypeOK, InitOdomInv, NextOdomInv, PTL DEF Spec, StaleOdomKnown
-----------------------------------------------------------------------------
(* A heading that nothing observes.                                        *)

\* The fixes go on.
Fresh == heading.fixed /\ heading.fix_age <= FixGap

\* hist.broken, the true length of the stretch, against the two clocks that the warning
\* reads: it is no longer than the time since the last heading, no shorter than the
\* shorter of the clocks, and longer than a running stretch by one pause of the fixes at
\* most.
HeadingInv ==
  /\ ~Fresh => hist.broken = 0
  /\ heading.capped => robot.lever
  /\ heading.since <= HeadingWarn
  /\ heading.source_age <= HeadingWarn /\ heading.init_age <= HeadingWarn
  /\ filter.init => hist.broken <= SinceHeading \/ SinceHeading >= HeadingWarn
  /\ filter.init /\ Fresh =>
       IF heading.capped
       THEN /\ heading.since <= hist.broken \/ SinceHeading <= hist.broken
            /\ hist.broken <= heading.since + FixGap \/ heading.since >= HeadingWarn
       ELSE hist.broken <= heading.fix_age

LEMMA InitHeadingInv == Init => HeadingInv
<1> SUFFICES ASSUME Init PROVE HeadingInv
  OBVIOUS
<1>1. /\ heading.capped = FALSE /\ heading.fixed = FALSE /\ heading.since = 0
      /\ heading.source_age = 0 /\ heading.init_age = 0
  BY DEF Init
<1>2. hist.broken = 0 /\ filter.init = FALSE
  BY DEF Init
<1> QED BY <1>1, <1>2, StatusParams DEF HeadingInv, Fresh

\* A start of the filter, or none: the stretch and the clocks start with it.
LEMMA StartHeadingInv ==
  ASSUME heading \in Headings, filter \in Filters, hist \in Histories,
         HeadingInv, NEW f \in Filters, f.init = filter.init,
         filter' = Begun(f), heading' = HeadingThen(f),
         hist'.broken = (IF Starts(f) THEN 0 ELSE hist.broken), robot' = robot
  PROVE  HeadingInv'
<1>0. HeadingWarn \in Nat /\ FixGap \in Nat
  BY StatusParams
<1>1. CASE Starts(f)
  <2>1. heading' = [heading EXCEPT !.init_age = 0, !.capped = FALSE]
    BY <1>1 DEF HeadingThen
  <2>2. /\ heading'.init_age = 0 /\ heading'.capped = FALSE
        /\ heading'.source = heading.source /\ heading'.source_age = heading.source_age
        /\ heading'.since = heading.since /\ heading'.fixed = heading.fixed
        /\ heading'.fix_age = heading.fix_age
    BY <2>1 DEF Headings
  <2>3. /\ heading.source_age \in Nat /\ heading.since \in Nat /\ heading.fix_age \in Nat
    BY DEF Headings
  <2>4. hist'.broken = 0
    BY <1>1
  <2> QED BY <1>0, <2>2, <2>3, <2>4 DEF HeadingInv, Fresh, SinceHeading
<1>2. CASE ~Starts(f)
  <2>1. filter'.init <=> filter.init
    BY <1>2, BegunTyped
  <2>2. heading' = heading /\ hist'.broken = hist.broken
    BY <1>2 DEF HeadingThen
  <2> QED BY <2>1, <2>2 DEF HeadingInv, Fresh, SinceHeading
<1> QED BY <1>1, <1>2

\* The update with a fix.
LEMMA FuseHeadingInv ==
  ASSUME heading \in Headings, hist \in Histories, HeadingInv,
         filter.init, NEW aligned \in BOOLEAN, NEW capped \in BOOLEAN, NEW slow \in BOOLEAN,
         Fuse(aligned, capped, slow), ~robot.lever => ~capped, robot' = robot
  PROVE  HeadingInv'
<1> DEFINE h == Stretch(capped)
<1>0. /\ HeadingWarn \in Nat /\ FixGap \in Nat
      /\ heading.source_age \in Nat /\ heading.init_age \in Nat /\ heading.since \in Nat
      /\ heading.fix_age \in Nat /\ hist.broken \in Nat
  BY StatusParams DEF Headings, Histories
<1>1. h \in Headings /\ h.source = heading.source /\ h.source_age = heading.source_age
      /\ h.init_age = heading.init_age
  BY StretchTyped
<1>2. \/ ~capped /\ h.capped = FALSE /\ h.since = heading.since
      \/ capped /\ h.capped /\ h.since = 0 /\ (~heading.capped \/ ~Fresh)
      \/ capped /\ h.capped /\ h.since = heading.since /\ heading.capped /\ Fresh
  <2> DEFINE paused == ~heading.fixed \/ heading.fix_age > FixGap
             before == [heading EXCEPT !.capped = heading.capped /\ ~paused]
  <2>1. paused <=> ~Fresh
    BY <1>0 DEF Fresh
  <2>2. before.capped = (heading.capped /\ ~paused) /\ before.since = heading.since
    BY DEF Headings
  <2>3. CASE ~robot.lever
    <3>1. h = before /\ ~capped
      BY <2>3 DEF Stretch
    <3>2. before.capped = FALSE
      BY <2>2, <2>3 DEF HeadingInv, Headings
    <3> QED BY <2>2, <3>1, <3>2
  <2>4. CASE robot.lever /\ ~capped
    <3>1. h = [before EXCEPT !.capped = FALSE]
      BY <2>4 DEF Stretch
    <3>2. [before EXCEPT !.capped = FALSE].capped = FALSE
          /\ [before EXCEPT !.capped = FALSE].since = heading.since
      BY DEF Headings
    <3> QED BY <2>4, <3>1, <3>2
  <2>5. CASE robot.lever /\ capped /\ ~before.capped
    <3>1. h = [before EXCEPT !.capped = TRUE, !.since = 0]
      BY <2>5 DEF Stretch
    <3>2. [before EXCEPT !.capped = TRUE, !.since = 0].capped = TRUE
          /\ [before EXCEPT !.capped = TRUE, !.since = 0].since = 0
      BY DEF Headings
    <3> QED BY <2>1, <2>2, <2>5, <3>1, <3>2
  <2>6. CASE robot.lever /\ capped /\ before.capped
    <3>1. h = before
      BY <2>6 DEF Stretch
    <3> QED BY <2>1, <2>2, <2>6, <3>1
  <2> QED BY <2>3, <2>4, <2>5, <2>6
<1>3. /\ heading'.capped = h.capped /\ heading'.since = h.since
      /\ heading'.fixed = TRUE /\ heading'.fix_age = 0 /\ heading'.init_age = h.init_age
      /\ aligned => heading'.source = "motion" /\ heading'.source_age = 0
      /\ ~aligned => heading'.source = h.source /\ heading'.source_age = h.source_age
  <2> DEFINE s == IF aligned THEN "motion" ELSE h.source
             a == IF aligned THEN 0 ELSE h.source_age
  <2>1. heading' = [h EXCEPT !.source = s, !.source_age = a, !.fixed = TRUE, !.fix_age = 0,
                             !.slow = slow]
    BY DEF Fuse
  <2> HIDE DEF h
  <2>2. /\ heading'.source = s /\ heading'.source_age = a /\ heading'.fixed = TRUE
        /\ heading'.fix_age = 0 /\ heading'.capped = h.capped /\ heading'.since = h.since
        /\ heading'.init_age = h.init_age
    <3> HIDE DEF s, a
    <3> QED BY <1>1, <2>1 DEF Headings
  <2> QED BY <2>2
<1>4. /\ aligned \/ ~capped => hist'.broken = 0
      /\ ~(aligned \/ ~capped) => hist'.broken = hist.broken
  BY DEF Fuse
<1>5. filter' = filter
  BY DEF Fuse
<1> HIDE DEF h
<1>6. /\ Fresh' /\ heading'.since <= HeadingWarn /\ heading'.since \in Nat
      /\ heading'.capped => robot.lever
  BY <1>0, <1>2, <1>3 DEF HeadingInv, Fresh
<1>7. CASE aligned \/ ~capped
  <2>1. hist'.broken = 0
    BY <1>4, <1>7
  <2>2. aligned => SinceHeading' = 0
    BY <1>3 DEF SinceHeading
  <2>3. SinceHeading' \in Nat
    BY <1>0, <1>1, <1>3 DEF SinceHeading
  <2>4. heading'.source_age <= HeadingWarn /\ heading'.init_age <= HeadingWarn
    BY <1>0, <1>1, <1>3 DEF HeadingInv
  <2>5. heading'.capped => aligned
    BY <1>2, <1>3, <1>7
  <2> QED BY <1>0, <1>3, <1>6, <2>1, <2>2, <2>3, <2>4, <2>5, robot' = robot DEF HeadingInv
<1>8. CASE ~aligned /\ capped
  <2>1. hist'.broken = hist.broken /\ SinceHeading' = SinceHeading
    BY <1>1, <1>3, <1>4, <1>8 DEF SinceHeading
  <2>2. heading'.source_age <= HeadingWarn /\ heading'.init_age <= HeadingWarn
    BY <1>1, <1>3, <1>8 DEF HeadingInv
  <2>3. SinceHeading \in Nat
    BY <1>0 DEF SinceHeading
  <2>4. /\ heading'.since <= hist.broken \/ SinceHeading <= hist.broken
        /\ hist.broken <= heading'.since + FixGap \/ heading'.since >= HeadingWarn
    BY <1>0, <1>2, <1>3, <1>8, <2>3 DEF HeadingInv, Fresh
  <2> QED BY <1>5, <1>2, <1>3, <1>6, <1>8, <2>1, <2>2, <2>4 DEF HeadingInv
<1> QED BY <1>7, <1>8

LEMMA TickHeadingInv == ASSUME TypeOK, HeadingInv, Tick PROVE HeadingInv'
<1> DEFINE b == hist.broken  sa == heading.source_age  ia == heading.init_age
           s == heading.since  fa == heading.fix_age
<1>0. /\ HeadingWarn \in Nat /\ FixGap \in Nat
      /\ sa \in Nat /\ ia \in Nat /\ s \in Nat /\ fa \in Nat /\ b \in Nat
      /\ heading \in Headings /\ filter \in Filters /\ hist \in Histories
  BY TypeParts, StatusParams DEF Headings, Histories
<1>1. /\ heading'.source = heading.source /\ heading'.capped = heading.capped
      /\ heading'.fixed = heading.fixed
      /\ heading'.source_age = IF heading.source = "none" THEN 0 ELSE Aged(sa, HeadingWarn)
      /\ heading'.init_age = IF filter.init THEN Aged(ia, HeadingWarn) ELSE 0
      /\ heading'.since = IF heading.capped THEN Aged(s, HeadingWarn) ELSE 0
      /\ heading'.fix_age = IF heading.fixed THEN Aged(fa, FixGap + 1) ELSE 0
  BY <1>0 DEF Tick, Headings
<1>2. hist'.broken = IF ~heading.fixed \/ heading'.fix_age > FixGap THEN 0
                     ELSE Aged(b, HeadingWarn + FixGap + 1)
  BY <1>0, TickParts
<1>3. filter' = filter /\ robot' = robot
  BY DEF Tick
<1>4. filter.init => SinceHeading' = Aged(SinceHeading, HeadingWarn)
  BY <1>1 DEF SinceHeading
<1>5. SinceHeading \in Nat
  BY <1>0 DEF SinceHeading
<1>6. Fresh' => Fresh /\ heading'.fix_age = fa + 1
               /\ hist'.broken = Aged(b, HeadingWarn + FixGap + 1)
  BY <1>0, <1>1, <1>2 DEF Fresh, Aged
<1>7. ~Fresh' => hist'.broken = 0
  BY <1>0, <1>1, <1>2 DEF Fresh, Aged
<1>8. /\ heading'.since <= HeadingWarn /\ heading'.source_age <= HeadingWarn
      /\ heading'.init_age <= HeadingWarn /\ (heading'.capped => robot.lever)
  BY <1>0, <1>1 DEF HeadingInv, Aged
<1>9. filter.init => hist'.broken <= SinceHeading' \/ SinceHeading' >= HeadingWarn
  BY <1>0, <1>4, <1>5, <1>6, <1>7 DEF HeadingInv, Aged
<1>10. filter.init /\ Fresh' /\ heading.capped =>
         /\ heading'.since <= hist'.broken \/ SinceHeading' <= hist'.broken
         /\ hist'.broken <= heading'.since + FixGap \/ heading'.since >= HeadingWarn
  BY <1>0, <1>1, <1>4, <1>5, <1>6 DEF HeadingInv, Aged
<1>11. filter.init /\ Fresh' /\ ~heading.capped => hist'.broken <= heading'.fix_age
  BY <1>0, <1>6 DEF HeadingInv, Aged
<1> QED BY <1>1, <1>3, <1>7, <1>8, <1>9, <1>10, <1>11 DEF HeadingInv

LEMMA NextHeadingInv == ASSUME TypeOK, HeadingInv, [Next]_vars PROVE HeadingInv'
<1>0. /\ heading \in Headings /\ filter \in Filters
      /\ hist \in Histories
      /\ HeadingWarn \in Nat /\ FixGap \in Nat
  BY TypeParts, StatusParams
<1>1. ASSUME UNCHANGED <<robot, heading, filter>>, hist'.broken = hist.broken
      PROVE  HeadingInv'
  BY <1>1 DEF HeadingInv, Fresh, SinceHeading
<1>2. ASSUME NEW advanced \in BOOLEAN, OnDiagnostics(advanced) PROVE HeadingInv'
  BY <1>0, <1>1, <1>2, ToldParts DEF OnDiagnostics
<1>3. CASE OnWatchdog
  BY <1>1, <1>3 DEF OnWatchdog
<1>4. ASSUME NEW known \in BOOLEAN, NEW dt \in robot.steps, OnImu(known, dt) PROVE HeadingInv'
  <2> DEFINE f == [filter EXCEPT !.attitude = TRUE]
  <2>1. f \in Filters /\ f.init = filter.init
    BY <1>0 DEF Filters
  <2>0. dt \in Int
    BY DEF TypeOK, Robot
  <2>2. CASE known /\ imu.valid
    <3>1. filter' = Begun(f) /\ heading' = HeadingThen(f) /\ robot' = robot
      BY <1>4, <2>2 DEF OnImu
    <3>2. hist'.broken = IF Starts(f) THEN 0 ELSE hist.broken
      BY <1>0, <1>4, <2>0, <2>2, SampleParts
    <3> HIDE DEF f
    <3> QED BY <1>0, <2>1, <3>1, <3>2, StartHeadingInv
  <2>3. CASE ~known \/ ~imu.valid
    <3>1. filter'.init = filter.init
      BY <1>4, <2>1, <2>3 DEF OnImu
    <3>2. heading' = heading /\ robot' = robot
      BY <1>4, <2>3 DEF OnImu
    <3>3. hist'.broken = hist.broken
      BY <1>0, <1>4, <2>0, <2>3, SampleParts
    <3> QED BY <3>3, <3>1, <3>2 DEF HeadingInv, Fresh, SinceHeading
  <2> QED BY <2>2, <2>3
<1>5. ASSUME NEW known \in BOOLEAN, NEW accepted \in BOOLEAN, OnPoints(known, accepted)
      PROVE  HeadingInv'
  <2>1. CASE known /\ filter.init /\ accepted
    <3>1. /\ heading' = [heading EXCEPT !.source = "lidar", !.source_age = 0]
          /\ filter' = filter /\ robot' = robot
      BY <1>5, <2>1 DEF OnPoints
    <3>2. /\ heading'.source = "lidar" /\ heading'.source_age = 0
          /\ heading'.init_age = heading.init_age /\ heading'.since = heading.since
          /\ heading'.capped = heading.capped /\ heading'.fixed = heading.fixed
          /\ heading'.fix_age = heading.fix_age
      BY <1>0, <3>1 DEF Headings
    <3>3. heading.since \in Nat /\ heading.fix_age \in Nat
      BY <1>0 DEF Headings
    <3>4. hist'.broken = 0
      BY <1>0, <1>5, <2>1, CloudParts
    <3> QED BY <1>0, <3>1, <3>2, <3>3, <3>4 DEF HeadingInv, Fresh, SinceHeading
  <2>2. CASE ~(known /\ filter.init /\ accepted)
    BY <1>1, <1>5, <2>2 DEF OnPoints
  <2> QED BY <2>1, <2>2
<1>6. ASSUME NEW known \in BOOLEAN, NEW aligned \in BOOLEAN, NEW capped \in BOOLEAN,
             NEW slow \in BOOLEAN, OnGnss(known, aligned, capped, slow)
      PROVE  HeadingInv'
  <2> DEFINE f == [filter EXCEPT !.position = TRUE]
  <2>1. f \in Filters /\ f.init = filter.init
    BY <1>0 DEF Filters
  <2>2. robot' = robot
    BY <1>6 DEF OnGnss
  <2>3. CASE ~known
    BY <1>1, <1>6, <2>3 DEF OnGnss
  <2>4. CASE known /\ ~filter.init
    <3>1. filter' = Begun(f) /\ heading' = HeadingThen(f)
      BY <1>6, <2>4 DEF OnGnss
    <3>2. hist'.broken = IF Starts(f) THEN 0 ELSE hist.broken
      <4>1. hist' = [hist EXCEPT !.broken = IF Starts(f) THEN 0 ELSE @]
        BY <1>6, <2>4 DEF OnGnss
      <4> HIDE DEF f
      <4> QED BY <1>0, <4>1 DEF Histories
    <3> HIDE DEF f
    <3> QED BY <1>0, <2>1, <2>2, <3>1, <3>2, StartHeadingInv
  <2>5. CASE known /\ filter.init /\ robot.lever /\ ~imu.valid
    <3>1. filter' = f /\ heading' = heading /\ hist' = hist
      BY <1>6, <2>5 DEF OnGnss
    <3> QED BY <2>1, <2>2, <3>1 DEF HeadingInv, Fresh, SinceHeading
  <2>6. CASE known /\ filter.init /\ ~(robot.lever /\ ~imu.valid)
    <3>1. Fuse(aligned, capped, slow) /\ (~robot.lever => ~capped)
      BY <1>6, <2>6 DEF OnGnss
    <3> QED BY <1>0, <2>2, <2>6, <3>1, FuseHeadingInv
  <2> QED BY <2>3, <2>4, <2>5, <2>6
<1>7. CASE OnInitialPose
  <2>1. filter'.init = FALSE /\ hist' = hist /\ robot' = robot
    BY <1>7 DEF OnInitialPose
  <2>2. /\ heading'.source_age = 0 /\ heading'.init_age = heading.init_age
        /\ heading'.since = heading.since /\ heading'.capped = heading.capped
        /\ heading'.fixed = heading.fixed /\ heading'.fix_age = heading.fix_age
    BY <1>0, <1>7 DEF OnInitialPose, Headings
  <2> QED BY <1>0, <2>1, <2>2 DEF HeadingInv, Fresh
<1>8. CASE OnTfWatch
  BY <1>1, <1>8 DEF OnTfWatch
<1>9. CASE BufferCleared
  BY <1>1, <1>9 DEF BufferCleared
<1>10. CASE Tick
  BY <1>10, TickHeadingInv
<1>11. CASE UNCHANGED vars
  BY <1>1, <1>11 DEF vars
<1> QED BY <1>2, <1>3, <1>4, <1>5, <1>6, <1>7, <1>8, <1>9, <1>10, <1>11 DEF Next

\* The warning comes no sooner than HeadingWarn of bounded updates, and no later than one
\* pause of the fixes longer, whatever starts, poses, headings and pauses come between.
THEOREM HeadingAlwaysWarned == Spec => []HeadingWarned
<1>1. TypeOK /\ HeadingInv => HeadingWarned
  <2> SUFFICES ASSUME TypeOK, HeadingInv PROVE HeadingWarned
    OBVIOUS
  <2>0. /\ HeadingWarn \in Nat /\ FixGap \in Nat
        /\ hist.broken \in Nat /\ heading.since \in Nat /\ heading.fix_age \in Nat
        /\ SinceHeading \in Nat
    BY TypeParts, StatusParams DEF Headings, Histories, SinceHeading
  <2>1. ASSUME NEW advanced \in BOOLEAN
        PROVE  "heading not observed" \in Warnings(advanced) <=> HeadingUnobserved
    BY DEF Warnings, When
  <2>2. HeadingUnobserved => hist.broken >= HeadingWarn
    BY <2>0 DEF HeadingUnobserved, CappedNow, HeadingInv, Fresh
  <2>3. /\ filter.init /\ LeverArm /\ heading.fixed /\ heading.fix_age < FixGap
        /\ hist.broken > HeadingWarn + FixGap
        => HeadingUnobserved
    BY <2>0 DEF HeadingUnobserved, CappedNow, HeadingInv, Fresh
  <2> QED BY <2>1, <2>2, <2>3 DEF HeadingWarned
<1> QED BY <1>1, InitTypeOK, NextTypeOK, InitHeadingInv, NextHeadingInv, PTL DEF Spec
-----------------------------------------------------------------------------
(* An OK status is earned.                                                 *)

\* The smoothed period of the IMU stays within an interval there has been, and the
\* intervals that no status spoke of are among the ones counted up to the warm-up, unless
\* the next status will speak of them.
ImuInv ==
  /\ IF "imu" \in seen
     THEN /\ \E longest \in robot.steps : imu.period <= Older(0, longest * Parts)
          /\ mounts.imu # "unseen"
     ELSE imu.period = 0 /\ ~imu.valid
  /\ imu.count <= ImuWarmUp + 1
  /\ hist.silent <= imu.count
  /\ imu.gaps \/ hist.silent + hist.skipped <= imu.count

\* The clocks of the history against those that the status reads.
ClockInv ==
  /\ mounts.imu = "known" => hist.unfed <= imu.age
  /\ ndt.any /\ ndt.age <= CorrectionTimeout => hist.free <= ndt.age
  /\ ~ndt.any => hist.free <= up

LEMMA SmoothedBelow ==
  ASSUME NEW p \in Nat, NEW dt \in Int, dt > 0, NEW bound \in Int, p <= bound, dt * Parts <= bound
  PROVE  /\ (19 * p + dt * Parts) \div 20 <= bound
         /\ dt * Parts <= bound
BY DEF Parts

\* One more interval.
LEMMA CountedInv ==
  ASSUME TypeOK, NEW dt \in robot.steps,
         \E longest \in robot.steps : imu.period <= Older(0, longest * Parts)
  PROVE  /\ \E longest \in robot.steps : Counted(dt).period <= Older(0, longest * Parts)
         /\ imu.gaps => Counted(dt).gaps
         /\ imu.count <= ImuWarmUp + 1 =>
              /\ imu.count <= Counted(dt).count /\ Counted(dt).count <= ImuWarmUp + 1
              /\ dt > ImuMaxStep => Counted(dt).gaps \/ Counted(dt).count = imu.count + 1
<1>1. /\ imu \in [valid : BOOLEAN, age : Nat, count : Nat, period : Nat, gaps : BOOLEAN]
      /\ dt \in Int /\ ImuMaxStep \in Nat /\ ImuWarmUp \in Nat /\ robot.steps \subseteq Int
  BY StatusParams DEF TypeOK, Robot
<1>2. PICK longest \in robot.steps : imu.period <= Older(0, longest * Parts)
  OBVIOUS
<1>3. longest \in Int
  BY <1>1
<1> DEFINE p == IF Lost(dt) THEN imu.period
                ELSE IF imu.count = 0 THEN dt * Parts
                ELSE (19 * imu.period + dt * Parts) \div 20
           g == imu.gaps \/ Lost(dt)
           c == IF imu.count > ImuWarmUp THEN imu.count ELSE imu.count + 1
<1>4. CASE dt <= 0
  <2>1. Counted(dt) = [imu EXCEPT !.age = 0]
    BY <1>4 DEF Counted
  <2>2. /\ Counted(dt).period = imu.period /\ (imu.gaps => Counted(dt).gaps)
        /\ Counted(dt).count = imu.count
    BY <1>1, <2>1
  <2> QED BY <1>1, <1>2, <1>4, <2>2
<1>5. CASE dt > 0
  <2>1. Counted(dt) = [imu EXCEPT !.age = 0, !.gaps = g, !.period = p, !.count = c]
    BY <1>1, <1>5 DEF Counted
  <2>2. /\ imu.count <= ImuWarmUp + 1 => imu.count <= c /\ c <= ImuWarmUp + 1
        /\ dt > ImuMaxStep => g \/ c = imu.count + 1
    <3>1. CASE imu.count > ImuWarmUp
      <4>1. dt > ImuMaxStep => Lost(dt)
        BY <3>1 DEF Lost
      <4> QED BY <1>1, <3>1, <4>1
    <3>2. CASE ~(imu.count > ImuWarmUp)
      BY <1>1, <3>2
    <3> QED BY <3>1, <3>2
  <2>3. imu.gaps => g
    OBVIOUS
  <2>4. g \in BOOLEAN
    BY <1>1 DEF Lost
  <2>5. \E l \in robot.steps : p <= Older(0, l * Parts)
    <3>1. CASE longest >= dt
      <4>1. dt * Parts <= Older(0, longest * Parts) /\ Older(0, longest * Parts) \in Int
        BY <1>1, <1>3, <3>1 DEF Older, Parts
      <4> DEFINE bound == Older(0, longest * Parts)
      <4> HIDE DEF bound
      <4>2. p <= bound
        BY <1>1, <1>2, <1>5, <4>1, SmoothedBelow DEF bound
      <4> QED BY <4>2 DEF bound
    <3>2. CASE dt > longest
      <4>1. /\ Older(0, longest * Parts) <= Older(0, dt * Parts)
            /\ Older(0, dt * Parts) = dt * Parts /\ dt * Parts \in Int
            /\ Older(0, longest * Parts) \in Int
        BY <1>1, <1>3, <1>5, <3>2 DEF Older, Parts
      <4> DEFINE bound == Older(0, dt * Parts)
      <4>2. imu.period <= bound /\ dt * Parts <= bound /\ bound \in Int
        <5> HIDE DEF Older, Parts
        <5> QED BY <1>1, <1>2, <4>1
      <4> HIDE DEF bound
      <4>3. p <= bound
        BY <1>1, <1>5, <4>2, SmoothedBelow
      <4> QED BY <4>3 DEF bound
    <3> QED BY <1>1, <1>3, <3>1, <3>2
  <2> HIDE DEF p, g, c
  <2>6. Counted(dt).period = p /\ (Counted(dt).gaps <=> g) /\ Counted(dt).count = c
    BY <1>1, <2>1, <2>4
  <2> QED BY <2>2, <2>3, <2>5, <2>6
<1> QED BY <1>1, <1>4, <1>5

LEMMA InitImuInv == Init => ImuInv /\ ClockInv
<1> SUFFICES ASSUME Init PROVE ImuInv /\ ClockInv
  OBVIOUS
<1>1. /\ imu.period = 0 /\ imu.valid = FALSE /\ imu.count = 0 /\ imu.age = 0
      /\ mounts.imu = "unseen" /\ seen = {} /\ ndt.any = FALSE /\ up = 0
  BY DEF Init
<1>2. hist.silent = 0 /\ hist.skipped = 0 /\ hist.free = 0
  BY DEF Init
<1> QED BY <1>1, <1>2, StatusParams DEF ImuInv, ClockInv

LEMMA OnImuKeepsImuInv ==
  ASSUME TypeOK, ImuInv, NEW known \in BOOLEAN, NEW dt \in robot.steps, OnImu(known, dt)
  PROVE  ImuInv'
<1>1. imu \in Imus /\ hist \in Histories /\ dt \in Int /\ ImuWarmUp \in Nat
  BY TypeParts, StatusParams DEF TypeOK, Robot
<1>2. robot' = robot /\ "imu" \in seen' /\ mounts'.imu # "unseen"
  BY DEF OnImu, Mounted, TypeOK
<1>3. \E longest \in robot.steps : imu.period <= Older(0, longest * Parts)
  <2>1. CASE "imu" \in seen
    BY <2>1 DEF ImuInv
  <2>2. CASE "imu" \notin seen
    BY <1>1, <2>2 DEF ImuInv, Older, Parts
  <2> QED BY <2>1, <2>2
<1>4. CASE ~known \/ ~imu.valid
  <2>1. imu'.period = imu.period /\ (imu'.gaps <=> imu.gaps) /\ imu'.count = imu.count
    BY <1>1, <1>4 DEF OnImu, Imus
  <2>2. hist'.silent = hist.silent /\ hist'.skipped = hist.skipped
    BY <1>1, <1>4, SampleParts
  <2> QED BY <1>2, <1>3, <2>1, <2>2 DEF ImuInv
<1>5. CASE known /\ imu.valid
  <2>1. imu' = Counted(dt)
    BY <1>5 DEF OnImu
  <2>2. /\ hist'.silent = hist.silent
        /\ hist'.skipped = IF dt > ImuMaxStep THEN OneMore ELSE hist.skipped
    BY <1>1, <1>5, SampleParts
  <2>3. /\ \E longest \in robot.steps : imu'.period <= Older(0, longest * Parts)
        /\ imu.gaps => imu'.gaps
        /\ imu.count <= imu'.count /\ imu'.count <= ImuWarmUp + 1
        /\ dt > ImuMaxStep => imu'.gaps \/ imu'.count = imu.count + 1
    BY <1>3, <2>1, CountedInv DEF ImuInv
  <2>4. /\ hist.silent \in Nat /\ hist.skipped \in Nat /\ imu.count \in Nat
        /\ imu'.count \in Nat
    <3>1. Counted(dt) \in Imus
      BY <1>1, CountedTyped DEF Imus
    <3> QED BY <1>1, <2>1, <3>1 DEF Histories, Imus
  <2>5. hist'.silent <= imu'.count
    BY <2>2, <2>3, <2>4 DEF ImuInv
  <2>6. ASSUME ~imu'.gaps PROVE hist'.silent + hist'.skipped <= imu'.count
    <3>1. hist.silent + hist.skipped <= imu.count
      BY <2>3, <2>6 DEF ImuInv
    <3>2. CASE dt > ImuMaxStep
      <4>1. imu'.count = imu.count + 1
        BY <2>3, <2>6, <3>2
      <4>2. hist'.skipped = hist.skipped \/ hist'.skipped = hist.skipped + 1
        BY <2>2, <3>2 DEF OneMore
      <4> QED BY <2>2, <2>4, <3>1, <4>1, <4>2
    <3>3. CASE ~(dt > ImuMaxStep)
      BY <2>2, <2>3, <2>4, <3>1, <3>3
    <3> QED BY <3>2, <3>3
  <2> QED BY <1>2, <2>3, <2>5, <2>6 DEF ImuInv
<1> QED BY <1>4, <1>5

\* A status that speaks of gaps has told of all of them.
LEMMA ToldKeepsImuInv ==
  ASSUME TypeOK, ImuInv, NEW advanced \in BOOLEAN, OnDiagnostics(advanced)
  PROVE  ImuInv'
<1>1. imu \in Imus /\ hist \in Histories
  BY TypeParts
<1>2. /\ imu'.period = imu.period /\ (imu'.valid <=> imu.valid) /\ imu'.count = imu.count
      /\ robot' = robot /\ seen' = seen /\ mounts' = mounts
  BY <1>1 DEF OnDiagnostics, Imus
<1>3. /\ hist'.skipped = 0
      /\ hist'.silent = IF "IMU gaps" \in Warnings(advanced) THEN hist.silent
                        ELSE hist.silent + hist.skipped
  BY <1>1, ToldParts DEF OnDiagnostics
<1>4. hist.silent \in Nat /\ hist.skipped \in Nat /\ imu.count \in Nat
  BY <1>1 DEF Histories, Imus
<1>5. hist'.silent <= imu.count /\ hist'.silent \in Nat
  <2>1. CASE "IMU gaps" \in Warnings(advanced)
    BY <1>3, <1>4, <2>1 DEF ImuInv
  <2>2. CASE "IMU gaps" \notin Warnings(advanced)
    <3>1. ~imu.gaps
      BY <2>2 DEF Warnings, When
    <3>2. hist'.silent = hist.silent + hist.skipped
      BY <1>3, <2>2
    <3> QED BY <1>4, <3>1, <3>2 DEF ImuInv
  <2> QED BY <2>1, <2>2
<1>6. hist'.silent + hist'.skipped <= imu.count
  <2>1. hist'.skipped = 0
    BY <1>3
  <2> QED BY <1>4, <1>5, <2>1
<1> QED BY <1>2, <1>5, <1>6 DEF ImuInv

LEMMA NextImuInv == ASSUME TypeOK, ImuInv, [Next]_vars PROVE ImuInv'
<1>0. imu \in Imus /\ hist \in Histories
  BY TypeParts
<1>1. ASSUME robot' = robot, "imu" \in seen' <=> "imu" \in seen, mounts'.imu = mounts.imu,
             imu'.period = imu.period, imu'.valid <=> imu.valid, imu'.gaps <=> imu.gaps,
             imu'.count = imu.count,
             hist'.silent = hist.silent, hist'.skipped = hist.skipped
      PROVE  ImuInv'
  BY <1>1 DEF ImuInv
<1>2. ASSUME robot' = robot, "imu" \in seen' <=> "imu" \in seen, mounts'.imu = mounts.imu,
             imu' = imu, hist'.silent = hist.silent, hist'.skipped = hist.skipped
      PROVE  ImuInv'
  BY <1>1, <1>2
<1>3. ASSUME NEW advanced \in BOOLEAN, OnDiagnostics(advanced) PROVE ImuInv'
  BY <1>3, ToldKeepsImuInv
<1>4. CASE OnWatchdog
  BY <1>2, <1>4 DEF OnWatchdog
<1>5. ASSUME NEW known \in BOOLEAN, NEW dt \in robot.steps, OnImu(known, dt) PROVE ImuInv'
  BY <1>5, OnImuKeepsImuInv
<1>6. ASSUME NEW known \in BOOLEAN, NEW accepted \in BOOLEAN, OnPoints(known, accepted)
      PROVE  ImuInv'
  <2>1. robot' = robot /\ imu' = imu /\ ("imu" \in seen' <=> "imu" \in seen)
    BY <1>6 DEF OnPoints
  <2>2. mounts'.imu = mounts.imu
    BY <1>6 DEF OnPoints, Mounted, TypeOK
  <2>3. hist'.silent = hist.silent /\ hist'.skipped = hist.skipped
    BY <1>0, <1>6, CloudParts
  <2> QED BY <1>2, <2>1, <2>2, <2>3
<1>7. ASSUME NEW known \in BOOLEAN, NEW aligned \in BOOLEAN, NEW capped \in BOOLEAN,
             NEW slow \in BOOLEAN, OnGnss(known, aligned, capped, slow)
      PROVE  ImuInv'
  <2>1. robot' = robot /\ imu' = imu /\ ("imu" \in seen' <=> "imu" \in seen)
    BY <1>7 DEF OnGnss
  <2>2. mounts'.imu = mounts.imu
    BY <1>7 DEF OnGnss, Mounted, TypeOK
  <2>3. hist'.silent = hist.silent /\ hist'.skipped = hist.skipped
    BY <1>0, <1>7, FixParts
  <2> QED BY <1>2, <2>1, <2>2, <2>3
<1>8. CASE OnInitialPose
  BY <1>2, <1>8 DEF OnInitialPose
<1>9. CASE OnTfWatch
  BY <1>2, <1>9 DEF OnTfWatch
<1>10. CASE BufferCleared
  BY <1>2, <1>10 DEF BufferCleared
<1>11. CASE Tick
  <2>1. /\ imu'.period = imu.period /\ (imu'.valid <=> imu.valid) /\ (imu'.gaps <=> imu.gaps)
        /\ imu'.count = imu.count
    BY <1>0, <1>11 DEF Tick, Imus
  <2>2. robot' = robot /\ seen' = seen /\ mounts' = mounts
    BY <1>11 DEF Tick
  <2>3. hist'.silent = hist.silent /\ hist'.skipped = hist.skipped
    BY <1>0, <1>11, TickParts
  <2> QED BY <1>1, <2>1, <2>2, <2>3
<1>12. CASE UNCHANGED vars
  BY <1>2, <1>12 DEF vars
<1> QED BY <1>3, <1>4, <1>5, <1>6, <1>7, <1>8, <1>9, <1>10, <1>11, <1>12 DEF Next

LEMMA TickClockInv == ASSUME TypeOK, ClockInv, Tick PROVE ClockInv'
<1> USE StatusParams
<1>0. imu \in Imus /\ hist \in Histories /\ ndt \in [any : BOOLEAN, age : Nat]
  BY TypeParts DEF TypeOK
<1>1. /\ imu.age \in Nat /\ hist.unfed \in Nat /\ hist.free \in Nat /\ up \in Nat
      /\ ndt.age \in Nat
  BY <1>0 DEF Imus, Histories, TypeOK
<1>2. mounts' = mounts /\ imu'.age = Aged(imu.age, MaxSilence)
  BY <1>0 DEF Tick, Imus
<1>3. /\ hist'.unfed = Aged(hist.unfed, MaxSilence)
      /\ hist'.free = Aged(hist.free, Older(CorrectionTimeout, StartupTimeout) + 1)
  BY <1>0, TickParts
<1>4. /\ (ndt'.any <=> ndt.any) /\ (ndt.any => ndt'.age = Aged(ndt.age, CorrectionTimeout + 1))
      /\ up' = Aged(up, Older(CorrectionTimeout, StartupTimeout) + 1)
  BY <1>0 DEF Tick
<1>5. mounts'.imu = "known" => hist'.unfed <= imu'.age
  BY <1>1, <1>2, <1>3 DEF ClockInv, Aged
<1>6. ndt'.any /\ ndt'.age <= CorrectionTimeout => hist'.free <= ndt'.age
  <2> SUFFICES ASSUME ndt'.any, ndt'.age <= CorrectionTimeout PROVE hist'.free <= ndt'.age
    OBVIOUS
  <2>1. ndt.any /\ ndt'.age = Aged(ndt.age, CorrectionTimeout + 1)
    BY <1>4
  <2>2. ndt'.age = ndt.age + 1 /\ ndt.age <= CorrectionTimeout
    BY <1>1, <2>1 DEF Aged
  <2>3. hist.free <= ndt.age
    BY <2>1, <2>2 DEF ClockInv
  <2>4. hist'.free <= hist.free + 1
    BY <1>1, <1>3 DEF Aged, Older
  <2> QED BY <1>1, <1>3, <2>2, <2>3, <2>4 DEF Aged
<1>7. ~ndt'.any => hist'.free <= up'
  BY <1>1, <1>3, <1>4 DEF ClockInv, Aged, Older
<1> QED BY <1>5, <1>6, <1>7 DEF ClockInv

LEMMA NextClockInv == ASSUME TypeOK, ClockInv, [Next]_vars PROVE ClockInv'
<1>0. /\ imu \in Imus /\ hist \in Histories
      /\ imu.age \in Nat /\ hist.unfed \in Nat /\ hist.free \in Nat /\ ndt.age \in Nat
  BY TypeParts DEF TypeOK, Imus, Histories
<1>1. ASSUME mounts'.imu = mounts.imu, imu'.age = imu.age, ndt' = ndt, up' = up,
             hist'.unfed = hist.unfed, hist'.free = hist.free
      PROVE  ClockInv'
  BY <1>1 DEF ClockInv
<1>3. ASSUME NEW advanced \in BOOLEAN, OnDiagnostics(advanced) PROVE ClockInv'
  <2>1. mounts' = mounts /\ imu'.age = imu.age /\ ndt' = ndt /\ up' = up
    BY <1>0, <1>3 DEF OnDiagnostics, Imus
  <2>2. hist'.unfed = hist.unfed /\ hist'.free = hist.free
    BY <1>0, <1>3, ToldParts DEF OnDiagnostics
  <2> QED BY <1>1, <2>1, <2>2
<1>4. CASE OnWatchdog
  BY <1>1, <1>4 DEF OnWatchdog
<1>5. ASSUME NEW known \in BOOLEAN, NEW dt \in robot.steps, OnImu(known, dt) PROVE ClockInv'
  <2>0. dt \in Int
    BY DEF TypeOK, Robot
  <2>1. ndt' = ndt /\ up' = up
    BY <1>5 DEF OnImu
  <2>2. hist'.free = hist.free /\ (known => hist'.unfed = 0)
    BY <1>0, <1>5, <2>0, SampleParts
  <2>3. mounts'.imu = IF known THEN "known" ELSE "missing"
    BY <1>5 DEF OnImu, Mounted, TypeOK
  <2>4. imu'.age = 0
    BY <1>0, <1>5 DEF OnImu, Counted, Imus
  <2> QED BY <2>1, <2>2, <2>3, <2>4 DEF ClockInv
<1>6. ASSUME NEW known \in BOOLEAN, NEW accepted \in BOOLEAN, OnPoints(known, accepted)
      PROVE  ClockInv'
  <2>1. up' = up /\ imu' = imu
    BY <1>6 DEF OnPoints
  <2>2. mounts'.imu = mounts.imu
    BY <1>6 DEF OnPoints, Mounted, TypeOK
  <2>3. CASE known /\ filter.init /\ accepted
    <3>1. hist'.unfed = hist.unfed /\ hist'.free = 0 /\ ndt' = [any |-> TRUE, age |-> 0]
      BY <1>0, <1>6, <2>3, CloudParts
    <3> QED BY <2>1, <2>2, <3>1 DEF ClockInv
  <2>4. CASE ~(known /\ filter.init /\ accepted)
    <3>1. hist' = hist /\ ndt' = ndt
      BY <1>0, <1>6, <2>4, CloudParts
    <3> QED BY <1>1, <2>1, <2>2, <3>1
  <2> QED BY <2>3, <2>4
<1>7. ASSUME NEW known \in BOOLEAN, NEW aligned \in BOOLEAN, NEW capped \in BOOLEAN,
             NEW slow \in BOOLEAN, OnGnss(known, aligned, capped, slow)
      PROVE  ClockInv'
  <2>1. up' = up /\ imu' = imu /\ ndt' = ndt
    BY <1>7 DEF OnGnss
  <2>2. mounts'.imu = mounts.imu
    BY <1>7 DEF OnGnss, Mounted, TypeOK
  <2>3. hist'.unfed = hist.unfed /\ hist'.free = hist.free
    BY <1>0, <1>7, FixParts
  <2> QED BY <1>1, <2>1, <2>2, <2>3
<1>8. CASE OnInitialPose
  BY <1>1, <1>8 DEF OnInitialPose
<1>9. CASE OnTfWatch
  BY <1>1, <1>9 DEF OnTfWatch
<1>10. CASE BufferCleared
  BY <1>1, <1>10 DEF BufferCleared
<1>11. CASE Tick
  BY <1>11, TickClockInv
<1>12. CASE UNCHANGED vars
  BY <1>1, <1>12 DEF vars
<1> QED BY <1>3, <1>4, <1>5, <1>6, <1>7, <1>8, <1>9, <1>10, <1>11, <1>12 DEF Next

LEMMA ScaledBelow ==
  ASSUME NEW periods \in Nat, NEW p \in Nat, NEW q \in Nat, p <= q
  PROVE  periods * p <= periods * q /\ periods * p \in Nat /\ periods * q \in Nat
OBVIOUS

\* An IMU that is not reported as stopped is silent for no longer than its time-outs.
LEMMA AliveFromInv ==
  ASSUME TypeOK, ImuInv, "imu" \in seen, ~ImuStopped
  PROVE  \E longest \in robot.steps :
           imu.age * 5 <= Older(InputTimeout * 5, InputPeriods * longest)
<1>1. PICK longest \in robot.steps : imu.period <= Older(0, longest * Parts)
  BY DEF ImuInv
<1>2. /\ imu.age \in Nat /\ imu.period \in Nat /\ longest \in Int
      /\ InputTimeout \in Nat /\ InputPeriods \in Nat
  BY StatusParams DEF TypeOK, Robot
<1>3. imu.age * 100 <= Older(InputTimeout * 100, InputPeriods * imu.period)
  <2>1. InputPeriods * imu.period \in Nat
    BY <1>2, ScaledBelow
  <2> QED BY <1>2, <2>1 DEF ImuStopped, Older, Parts
<1>4. CASE longest <= 0
  <2>1. imu.period = 0
    BY <1>1, <1>2, <1>4 DEF Older, Parts
  <2>2. InputPeriods * imu.period = 0
    BY <1>2, <2>1
  <2>3. imu.age * 5 <= InputTimeout * 5
    BY <1>2, <1>3, <2>2 DEF Older
  <2>4. InputPeriods * longest \in Int
    BY <1>2
  <2> QED BY <1>2, <2>3, <2>4 DEF Older
<1>5. CASE longest > 0
  <2>1. imu.period <= longest * 20 /\ longest * 20 \in Nat
    BY <1>1, <1>2, <1>5 DEF Older, Parts
  <2>2. InputPeriods * imu.period <= InputPeriods * (longest * 20)
    BY <1>2, <2>1, ScaledBelow
  <2>3. InputPeriods * (longest * 20) = (InputPeriods * longest) * 20
    BY <1>2
  <2> DEFINE a == InputPeriods * imu.period
             b == InputPeriods * longest
  <2>4. a \in Int /\ b \in Int
    BY <1>2
  <2>5. a <= b * 20
    BY <2>2, <2>3
  <2>6. imu.age * 100 <= Older(InputTimeout * 100, a)
    BY <1>3
  <2> HIDE DEF a, b
  <2>7. imu.age * 5 <= Older(InputTimeout * 5, b)
    BY <1>2, <2>4, <2>5, <2>6 DEF Older
  <2> QED BY <2>7 DEF b
<1> QED BY <1>2, <1>4, <1>5

\* When a status after the startup grace would be OK, nothing that it asks is amiss.
LEMMA EarnedFromInv ==
  ASSUME TypeOK, ImuInv, ClockInv PROVE OkIsEarned
<1> SUFFICES ASSUME NEW advanced \in BOOLEAN, Started, Level(advanced) = "OK"
             PROVE  /\ \E longest \in robot.steps :
                         hist.unfed * 5 <= Older(InputTimeout * 5, InputPeriods * longest)
                    /\ hist.free <= Older(CorrectionTimeout, StartupTimeout)
                    /\ hist.silent + hist.skipped <= ImuWarmUp + 1
  BY DEF OkIsEarned
<1>0. /\ hist.unfed \in Nat /\ hist.free \in Nat /\ hist.silent \in Nat
      /\ hist.skipped \in Nat /\ imu.age \in Nat /\ imu.count \in Nat /\ ndt.age \in Nat
      /\ up \in Nat /\ CorrectionTimeout \in Nat /\ StartupTimeout \in Nat
      /\ ImuWarmUp \in Nat /\ InputTimeout \in Nat /\ InputPeriods \in Nat
  BY StatusParams DEF TypeOK
<1>1. Errors = {} /\ Warnings(advanced) = {}
  BY DEF Level
<1>2. filter.init /\ "imu" \in seen /\ ~ImuStopped /\ mounts.imu # "missing"
  BY <1>1 DEF Errors, When, ImuUnused
<1>3. ~(filter.init /\ Uncorrected) /\ ~imu.gaps
  BY <1>1 DEF Warnings, When
<1>4. mounts.imu = "known"
  BY <1>2 DEF TypeOK, ImuInv
<1>5. hist.unfed <= imu.age
  BY <1>4 DEF ClockInv
<1>6. \E longest \in robot.steps :
        hist.unfed * 5 <= Older(InputTimeout * 5, InputPeriods * longest)
  <2>1. PICK longest \in robot.steps :
          imu.age * 5 <= Older(InputTimeout * 5, InputPeriods * longest)
    BY <1>2, AliveFromInv
  <2>2. longest \in Int
    BY DEF TypeOK, Robot
  <2>3. Older(InputTimeout * 5, InputPeriods * longest) \in Int
    BY <1>0, <2>2 DEF Older
  <2> QED BY <1>0, <1>5, <2>1, <2>3
<1>7. hist.free <= Older(CorrectionTimeout, StartupTimeout)
  BY <1>0, <1>2, <1>3 DEF Uncorrected, ClockInv, Older
<1>8. hist.silent + hist.skipped <= ImuWarmUp + 1
  BY <1>0, <1>3 DEF ImuInv
<1> QED BY <1>6, <1>7, <1>8

\* After the startup grace an OK status means that samples of an IMU with a known mount
\* have come in time, that the lidar has corrected the pose within the time-out or the
\* node is not up for longer, and that at most the intervals of the warm-up were left out
\* of the prediction without a status that says so, for every robot, time-out and IMU rate.
THEOREM OkIsAlwaysEarned == Spec => []OkIsEarned
<1>1. TypeOK /\ ImuInv /\ ClockInv => OkIsEarned
  BY EarnedFromInv
<1> QED BY <1>1, InitTypeOK, NextTypeOK, InitImuInv, NextImuInv, NextClockInv, PTL DEF Spec
=============================================================================
