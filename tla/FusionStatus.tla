----------------------------- MODULE FusionStatus -----------------------------
(***************************************************************************)
(* What FusionLocalizationNode says of itself and which transform it       *)
(* broadcasts: publish(), onTfWatch(), onDiagnostics(), onWatchdog(), the  *)
(* time axis of onImu(), and of every callback what these read.            *)
(* FusionNode models the filter behind it, Mount the mounts.               *)
(*                                                                         *)
(* Wall time is in steps of half a second.  The stamps of the IMU have a   *)
(* time of their own, in steps of a tenth of a second.  A status is the    *)
(* set of its errors and warnings.                                         *)
(***************************************************************************)
EXTENDS Integers

CONSTANTS
  Robots,            \* the robots: records in Robot
  StatusPeriod,      \* period of diag_timer_
  MaxLate,           \* bound on how late the timer is: the longest callback
  StartupTimeout, InputTimeout, InputPeriods, CorrectionTimeout, \* the parameters
  OdomLost,          \* odom->base_link counts as lost after this long (1 s)
  FallbackRecent,    \* two parents: the last fallback is younger (1 s)
  TwoParentsHeld,    \* and is reported for this long (30 s)
  FixGap,            \* a longer pause of the fixes ends a bounded stretch (2 s)
  HeadingWarn,       \* kHeadingWarnS
  ImuWarmUp,         \* IMU intervals before gaps are counted (20)
  ImuMaxStep,        \* the longest interval that is predicted (0.5 s)
  MaxSilence         \* bound up to which a silence of the IMU is counted

\* has: the inputs of the robot beside the IMU; late_mounts: there are messages whose frame
\* has no transform, or none yet; steps: the intervals of its IMU stamps.
Robot == [has : SUBSET {"points", "gnss", "odom", "poses", "clears"},
          fallback : BOOLEAN, lever : BOOLEAN, sim_time : BOOLEAN,
          late_mounts : BOOLEAN, steps : SUBSET Int]

ASSUME StatusParams ==
  /\ Robots \subseteq Robot
  /\ \A t \in {StatusPeriod, MaxLate, StartupTimeout, InputTimeout, InputPeriods,
               CorrectionTimeout, OdomLost, FallbackRecent, TwoParentsHeld, FixGap,
               HeadingWarn, ImuWarmUp, ImuMaxStep, MaxSilence} : t \in Nat

VARIABLES
  robot,    \* the robot
  up,       \* time since start_wall_
  since,    \* time since the last status
  seen,     \* the inputs that onWatchdog() asks for and that have been seen
  watchdog, \* watchdog_timer_ runs
  mounts,   \* for every sensor what its Mount knows: "unseen", "missing" or "known"
  imu,      \* last_imu_valid_, time since last_imu_wall_, imu_count_, imu_period_s_, gaps
  filter,   \* have_attitude_, have_position_, filter_init_
  ndt,      \* any_ndt_, time since last_ndt_wall_
  heading,  \* the heading source, the bounded stretch and the fixes
  tf,       \* who broadcasts the parent of base_link
  stuck,    \* ros_clock_stuck_ticks_, counted up to 2
  level,    \* level of the last status
  hist      \* history, for the properties only

vars == <<robot, up, since, seen, watchdog, mounts, imu, filter, ndt, heading, tf, stuck,
          level, hist>>

\* The later of two times, and a time one step on, counted up to limit.
Older(x, y) == IF x > y THEN x ELSE y
Aged(age, limit) == IF age < limit THEN age + 1 ELSE age

\* imu_period_s_ is kept in 20 parts of a step of the stamps, rounded down.
Parts == 20

\* imu.gaps: imu_gaps_ > imu_gaps_reported_.
\* heading.since, .source_age, .init_age: times since capped_since_wall_,
\* heading_source_wall_ and init_wall_; .fixed: any_gnss_fix_.
\* tf.parent: the parent of base_link in tf_buffer_; tf.odom, tf.fallback, tf.both: times
\* since last_ext_odom_wall_, last_fallback_wall_ and two_parents_wall_; tf.missing:
\* odom_tf_missing_ is not zero; tf.child: tf_child_.
\* hist.broken: length of the stretch of bounded updates; hist.skipped: intervals of the IMU
\* too long to predict over since the last status; hist.silent: such intervals before the
\* statuses that did not say so; hist.unfed: time since the last sample that was used;
\* hist.free: time the pose has gone without a correction by the lidar.
Init ==
  /\ robot \in Robots
  /\ up = 0 /\ since = 0
  /\ seen = {} /\ watchdog = TRUE
  /\ mounts = [points |-> "unseen", imu |-> "unseen", gnss |-> "unseen"]
  /\ imu = [valid |-> FALSE, age |-> 0, count |-> 0, period |-> 0, gaps |-> FALSE]
  /\ filter = [attitude |-> FALSE, position |-> FALSE, init |-> FALSE]
  /\ ndt = [any |-> FALSE, age |-> 0]
  /\ heading = [source |-> "none", source_age |-> 0, init_age |-> 0, capped |-> FALSE,
                since |-> 0, fixed |-> FALSE, fix_age |-> 0, slow |-> FALSE]
  /\ tf = [parent |-> "none", odom_seen |-> FALSE, odom |-> 0,
           fallback_ever |-> FALSE, fallback |-> 0,
           two_parents |-> FALSE, both |-> 0, missing |-> FALSE, child |-> "none"]
  /\ stuck = 0
  /\ level = "OK"
  /\ hist = [broken |-> 0, skipped |-> 0, silent |-> 0, unfed |-> 0, free |-> 0]
-----------------------------------------------------------------------------
(* onDiagnostics()                                                         *)

\* A line of the status, if it applies.
When(applies, line) == IF applies THEN {line} ELSE {}

Started == up > StartupTimeout

\* Half a second has five steps of the stamps.
ImuStopped ==
  imu.age * 5 * Parts > Older(InputTimeout * 5 * Parts, InputPeriods * imu.period)

ImuUnused == mounts.imu = "missing"

Errors ==
  When("imu" \notin seen /\ Started, "no IMU")
    \cup When("imu" \in seen /\ ImuStopped, "IMU stopped")
    \cup When(~filter.init /\ Started, "not initialized")
    \cup When(ImuUnused /\ Started, "IMU not used")

\* The grace of the startup is for the first correction only.
Uncorrected ==
  IF ndt.any THEN ndt.age > CorrectionTimeout
  ELSE up > Older(CorrectionTimeout, StartupTimeout)

\* Mutant of LostOdom: it counts as lost when the fallback has taken over.
LostToFallback ==
  tf.odom_seen /\ tf.odom > OdomLost /\ tf.fallback_ever /\ tf.fallback <= FallbackRecent

LostOdom == tf.odom_seen /\ tf.odom > OdomLost

LeverArm == mounts.gnss = "known" /\ robot.lever

CappedNow == /\ filter.init /\ LeverArm /\ heading.capped
             /\ heading.fixed /\ heading.fix_age < FixGap

SinceHeading == IF heading.source = "none" THEN heading.init_age ELSE heading.source_age

HeadingUnobserved ==
  CappedNow /\ heading.since >= HeadingWarn /\ SinceHeading >= HeadingWarn

\* The ROS clock is compared with its value at the last status.
StuckTicks(advanced) ==
  IF robot.sim_time /\ ~advanced THEN (IF stuck < 2 THEN stuck + 1 ELSE 2) ELSE 0

Warnings(advanced) ==
  When(ImuUnused /\ ~Started, "IMU not used")
    \cup When(mounts.points = "missing", "point clouds not used")
    \cup When(mounts.gnss = "missing", "GNSS not used")
    \cup When(filter.init /\ Uncorrected, "no NDT correction")
    \cup When(LostOdom, "lost odometry")
    \cup When(~tf.odom_seen /\ tf.missing /\ ~robot.fallback, "no TF")
    \cup When(tf.two_parents /\ tf.both < TwoParentsHeld, "two parents")
    \cup When(HeadingUnobserved, "heading not observed")
    \cup When(filter.init /\ LeverArm /\ heading.slow, "slow fixes")
    \cup When(imu.gaps, "IMU gaps")
    \cup When(StuckTicks(advanced) >= 2, "ROS clock")

Level(advanced) ==
  IF Errors # {} THEN "ERROR" ELSE IF Warnings(advanced) # {} THEN "WARN" ELSE "OK"

Due == since >= StatusPeriod

\* The history after a status.
Told(advanced) ==
  [hist EXCEPT !.skipped = 0,
               !.silent = IF "IMU gaps" \in Warnings(advanced) THEN @ ELSE @ + hist.skipped]

OnDiagnostics(advanced) ==
  /\ Due
  /\ since' = 0
  /\ level' = Level(advanced)
  /\ stuck' = StuckTicks(advanced)
  /\ imu' = [imu EXCEPT !.gaps = FALSE]
  /\ tf' = [tf EXCEPT !.missing = FALSE]
  /\ hist' = Told(advanced)
  /\ UNCHANGED <<robot, up, seen, watchdog, mounts, filter, ndt, heading>>

\* onWatchdog(): ends when everything that is needed has been seen once.
OnWatchdog ==
  /\ watchdog
  /\ watchdog' = ~({"imu", "points"} \subseteq seen /\ seen \cap {"gnss", "initialpose"} # {})
  /\ UNCHANGED <<robot, up, since, seen, mounts, imu, filter, ndt, heading, tf, stuck, level, hist>>
-----------------------------------------------------------------------------
(* publish() and onTfWatch().  The transform listener fills tf_buffer_ in  *)
(* a thread of its own, with what this node broadcasts too; a transform    *)
(* stays there when its publisher stops.                                   *)

\* The latest odom->base_link resolves unless base_link hangs on map in the buffer.
Resolves == tf.parent = "odom"

\* The transform that goes out with a pose.
Broadcast ==
  IF Resolves THEN [tf EXCEPT !.child = "odom"]
  ELSE IF robot.fallback
  THEN [tf EXCEPT !.child = "base_link", !.missing = TRUE, !.parent = "map",
                  !.fallback_ever = TRUE, !.fallback = 0]
  ELSE [tf EXCEPT !.child = "none", !.missing = TRUE]

\* publish() by a filter that is running, or not.
Publish(running) == tf' = IF running THEN Broadcast ELSE tf

\* onTfWatch() for odom->base_link.
Watched(parent) ==
  LET both == tf.fallback_ever /\ tf.fallback < FallbackRecent
  IN  [tf EXCEPT !.parent = parent, !.odom_seen = TRUE, !.odom = 0,
                 !.two_parents = @ \/ both, !.both = IF both THEN 0 ELSE @]

\* Odometry is heard.  The transforms of the fallback are stamped transform_tolerance
\* ahead, and may stay the latest for that long.
OnTfWatch ==
  /\ "odom" \in robot.has
  /\ \E parent \in {"odom"} \cup When(tf.parent = "map" /\ tf.fallback = 0, "map") :
       tf' = Watched(parent)
  /\ UNCHANGED <<robot, up, since, seen, watchdog, mounts, imu, filter, ndt, heading, stuck,
                 level, hist>>

\* The buffer is emptied when ROS time jumps back.
BufferCleared ==
  /\ "clears" \in robot.has
  /\ tf' = [tf EXCEPT !.parent = "none"]
  /\ UNCHANGED <<robot, up, since, seen, watchdog, mounts, imu, filter, ndt, heading, stuck,
                 level, hist>>
-----------------------------------------------------------------------------
(* The sensors.  A message of a sensor resolves its mount: known or not.   *)

Mounted(sensor, known) ==
  /\ known \/ robot.late_mounts
  /\ mounts' = [mounts EXCEPT ![sensor] = IF known THEN "known" ELSE "missing"]

\* tryInitialize() with filter f: whether it starts, and the heading then.
Starts(f) == ~f.init /\ f.attitude /\ f.position
Begun(f) == [f EXCEPT !.init = @ \/ Starts(f)]
HeadingThen(f) == IF Starts(f) THEN [heading EXCEPT !.init_age = 0, !.capped = FALSE] ELSE heading

\* Mutant of Lost: an interval counts as lost samples by the usual period only.
LostByPeriod(dt) == imu.count > ImuWarmUp /\ dt * Parts > 3 * imu.period

\* The gap counter: an interval well beyond the usual one.
Lost(dt) == imu.count > ImuWarmUp /\ (dt * Parts > 3 * imu.period \/ dt > ImuMaxStep)

\* The IMU's record after an interval of dt.
Counted(dt) ==
  IF dt <= 0 THEN [imu EXCEPT !.age = 0]
  ELSE [imu EXCEPT !.age = 0,
                   !.gaps = @ \/ Lost(dt),
                   !.period = IF Lost(dt) THEN @
                              ELSE IF imu.count = 0 THEN dt * Parts
                              ELSE (19 * @ + dt * Parts) \div 20,
                   !.count = IF @ > ImuWarmUp THEN @ ELSE @ + 1]

Usable(dt) == 0 < dt /\ dt <= ImuMaxStep

\* The skipped intervals of the history, counted up to one more than the warm-up has.
OneMore == IF hist.silent + hist.skipped < ImuWarmUp + 2 THEN hist.skipped + 1 ELSE hist.skipped

\* A sample whose mount is unknown, the first usable one, and any later one: its stamp is
\* dt after the one before, which may be back in time.
OnImu(known, dt) ==
  /\ seen' = seen \cup {"imu"}
  /\ Mounted("imu", known)
  /\ IF ~known
     THEN imu' = [imu EXCEPT !.age = 0] /\ UNCHANGED <<filter, heading, tf, hist>>
     ELSE LET f == [filter EXCEPT !.attitude = TRUE]
          IN  IF ~imu.valid
              THEN /\ imu' = [imu EXCEPT !.age = 0, !.valid = TRUE]
                   /\ filter' = f
                   /\ hist' = [hist EXCEPT !.unfed = 0]
                   /\ UNCHANGED <<heading, tf>>
              ELSE /\ imu' = Counted(dt)
                   /\ filter' = Begun(f)
                   /\ heading' = HeadingThen(f)
                   /\ Publish(filter'.init /\ Usable(dt))
                   /\ hist' = [hist EXCEPT !.broken = IF Starts(f) THEN 0 ELSE @,
                                           !.skipped = IF dt > ImuMaxStep THEN OneMore ELSE @,
                                           !.unfed = 0]
  /\ UNCHANGED <<robot, up, since, watchdog, ndt, stuck, level>>

\* A cloud; accepted: it is registered and the registration is accepted.
OnPoints(known, accepted) ==
  /\ "points" \in robot.has
  /\ seen' = seen \cup {"points"}
  /\ Mounted("points", known)
  /\ IF known /\ filter.init /\ accepted
     THEN /\ ndt' = [any |-> TRUE, age |-> 0]
          /\ heading' = [heading EXCEPT !.source = "lidar", !.source_age = 0]
          /\ hist' = [hist EXCEPT !.broken = 0, !.free = 0]
          /\ Publish(TRUE)
     ELSE UNCHANGED <<ndt, heading, hist, tf>>
  /\ UNCHANGED <<robot, up, since, watchdog, imu, filter, stuck, level>>

\* Mutant of Stretch: a pause of the fixes does not end the stretch.
StretchOverGaps(capped) ==
  IF ~robot.lever THEN heading
  ELSE IF ~capped THEN [heading EXCEPT !.capped = FALSE]
  ELSE IF ~heading.capped THEN [heading EXCEPT !.capped = TRUE, !.since = 0]
  ELSE heading

\* The stretch of bounded updates after a fix; capped: this update was bounded.
Stretch(capped) ==
  LET paused == ~heading.fixed \/ heading.fix_age > FixGap
      before == [heading EXCEPT !.capped = @ /\ ~paused]
  IN  IF ~robot.lever THEN before
      ELSE IF ~capped THEN [before EXCEPT !.capped = FALSE]
      ELSE IF ~before.capped THEN [before EXCEPT !.capped = TRUE, !.since = 0]
      ELSE before

\* The update with a fix; aligned: it gave the heading, slow: the filter finds that the
\* fixes come slower than the alignment needs.
Fuse(aligned, capped, slow) ==
  /\ heading' = [Stretch(capped) EXCEPT !.source = IF aligned THEN "motion" ELSE @,
                                        !.source_age = IF aligned THEN 0 ELSE @,
                                        !.fixed = TRUE, !.fix_age = 0, !.slow = slow]
  /\ hist' = [hist EXCEPT !.broken = IF aligned \/ ~capped THEN 0 ELSE @]
  /\ Publish(TRUE)
  /\ UNCHANGED filter

\* A fix that is not rejected.  A filter with a lever arm that was started before the
\* first IMU sample leaves it.
OnGnss(known, aligned, capped, slow) ==
  /\ "gnss" \in robot.has
  /\ ~robot.lever => ~aligned /\ ~capped /\ ~slow
  /\ seen' = seen \cup {"gnss"}
  /\ Mounted("gnss", known)
  /\ LET f == [filter EXCEPT !.position = TRUE]
     IN  IF ~known THEN UNCHANGED <<filter, heading, hist, tf>>
         ELSE IF ~filter.init
         THEN /\ filter' = Begun(f)
              /\ heading' = HeadingThen(f)
              /\ hist' = [hist EXCEPT !.broken = IF Starts(f) THEN 0 ELSE @]
              /\ UNCHANGED tf
         ELSE IF robot.lever /\ ~imu.valid
         THEN filter' = f /\ UNCHANGED <<heading, hist, tf>>
         ELSE Fuse(aligned, capped, slow)
  /\ UNCHANGED <<robot, up, since, watchdog, imu, ndt, stuck, level>>

OnInitialPose ==
  /\ "poses" \in robot.has
  /\ seen' = seen \cup {"initialpose"}
  /\ filter' = [attitude |-> TRUE, position |-> TRUE, init |-> FALSE]
  /\ heading' = [heading EXCEPT !.source = "initialpose", !.source_age = 0]
  /\ UNCHANGED <<robot, up, since, watchdog, mounts, imu, ndt, tf, stuck, level, hist>>
-----------------------------------------------------------------------------
Tick ==
  /\ since < StatusPeriod + MaxLate
  /\ since' = since + 1
  /\ up' = Aged(up, Older(CorrectionTimeout, StartupTimeout) + 1)
  /\ imu' = [imu EXCEPT !.age = Aged(@, MaxSilence)]
  /\ ndt' = [ndt EXCEPT !.age = IF ndt.any THEN Aged(@, CorrectionTimeout + 1) ELSE 0]
  /\ heading' = [heading EXCEPT
                   !.source_age = IF heading.source = "none" THEN 0 ELSE Aged(@, HeadingWarn),
                   !.init_age = IF filter.init THEN Aged(@, HeadingWarn) ELSE 0,
                   !.since = IF heading.capped THEN Aged(@, HeadingWarn) ELSE 0,
                   !.fix_age = IF heading.fixed THEN Aged(@, FixGap + 1) ELSE 0]
  /\ tf' = [tf EXCEPT !.odom = IF tf.odom_seen THEN Aged(@, OdomLost + StatusPeriod + MaxLate + 1) ELSE 0,
                      !.fallback = IF tf.fallback_ever THEN Aged(@, FallbackRecent) ELSE 0,
                      !.both = IF tf.two_parents THEN Aged(@, TwoParentsHeld) ELSE 0]
  /\ hist' = [hist EXCEPT !.broken = IF ~heading.fixed \/ heading'.fix_age > FixGap THEN 0
                                     ELSE Aged(@, HeadingWarn + FixGap + 1),
                           !.unfed = Aged(@, MaxSilence),
                           !.free = Aged(@, Older(CorrectionTimeout, StartupTimeout) + 1)]
  /\ UNCHANGED <<robot, seen, watchdog, mounts, filter, stuck, level>>

Next ==
  \/ \E advanced \in BOOLEAN : OnDiagnostics(advanced)
  \/ OnWatchdog
  \/ \E known \in BOOLEAN : \E dt \in robot.steps : OnImu(known, dt)
  \/ \E known, accepted \in BOOLEAN : OnPoints(known, accepted)
  \/ \E known, aligned, capped, slow \in BOOLEAN :
       OnGnss(known, aligned, capped, slow)
  \/ OnInitialPose
  \/ OnTfWatch
  \/ BufferCleared
  \/ Tick

Spec == Init /\ [][Next]_vars
-----------------------------------------------------------------------------
(* Properties.                                                             *)

TypeOK ==
  /\ robot \in Robot
  /\ up \in Nat /\ since \in Nat
  /\ seen \subseteq {"imu", "points", "gnss", "initialpose"} /\ watchdog \in BOOLEAN
  /\ mounts \in [{"points", "imu", "gnss"} -> {"unseen", "missing", "known"}]
  /\ imu \in [valid : BOOLEAN, age : Nat, count : Nat, period : Nat, gaps : BOOLEAN]
  /\ filter \in [attitude : BOOLEAN, position : BOOLEAN, init : BOOLEAN]
  /\ ndt \in [any : BOOLEAN, age : Nat]
  /\ heading \in [source : {"none", "lidar", "initialpose", "motion"}, source_age : Nat,
                  init_age : Nat, capped : BOOLEAN, since : Nat, fixed : BOOLEAN,
                  fix_age : Nat, slow : BOOLEAN]
  /\ tf \in [parent : {"none", "map", "odom"}, odom_seen : BOOLEAN, odom : Nat,
             fallback_ever : BOOLEAN, fallback : Nat, two_parents : BOOLEAN, both : Nat,
             missing : BOOLEAN, child : {"none", "odom", "base_link"}]
  /\ stuck \in 0..2 /\ level \in {"OK", "WARN", "ERROR"}
  /\ hist \in [broken : Nat, skipped : Nat, silent : Nat, unfed : Nat, free : Nat]

\* The status says that the heading is not observed after HeadingWarn of bounded updates,
\* no sooner and not later than one pause of the fixes longer: the stretch starts again
\* when the filter starts, at an unbounded update, at a heading from the lidar or the
\* motion and after a pause, in whatever order these come (onGnss(), capped_since_wall_,
\* heading_source_wall_, init_wall_).
HeadingWarned ==
  LET warned == \E advanced \in BOOLEAN : "heading not observed" \in Warnings(advanced)
  IN  /\ warned => hist.broken >= HeadingWarn
      /\ /\ filter.init /\ LeverArm /\ heading.fixed /\ heading.fix_age < FixGap
         /\ hist.broken > HeadingWarn + FixGap
         => warned

\* A map->odom built on an odometry that has stopped is never taken for a good one: the
\* buffer goes on answering with the last transform, so that publish() neither falls
\* back nor counts anything, but the last status was no OK (publish(), onTfWatch()).
StaleOdomKnown ==
  [][/\ tf'.child = "odom"
     /\ tf.odom_seen /\ tf.odom > OdomLost + StatusPeriod + MaxLate
     /\ UNCHANGED since
     => level # "OK"]_vars

\* After the startup grace an OK status means what a monitor takes it for.  Samples of the
\* IMU have come in time whose mount was known, not just samples; the lidar has corrected
\* the pose within the time-out, or the node is not up for longer; and of all intervals of
\* the IMU too long to predict over, those the status never spoke of are at most the ones
\* of the warm-up, whenever they came between the statuses (onDiagnostics(), onImu()).
OkIsEarned ==
  \A advanced \in BOOLEAN :
    Due /\ Started /\ Level(advanced) = "OK" =>
      /\ \E longest \in robot.steps :
           hist.unfed * 5 <= Older(InputTimeout * 5, InputPeriods * longest)
      /\ hist.free <= Older(CorrectionTimeout, StartupTimeout)
      /\ hist.silent + hist.skipped <= ImuWarmUp + 1
=============================================================================
