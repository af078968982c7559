------------------------------ MODULE FusionNode ------------------------------
(***************************************************************************)
(* FusionLocalizationNode (prism_loc_fusion_ros): what its filter starts   *)
(* from, when it starts, and what is fused before roll, pitch and heading  *)
(* are known.  A callback holds the mutex from start to end and is one     *)
(* action.  The heading of the filter is the record of HeadingShadow.      *)
(*                                                                         *)
(* The antenna has one frame, whose mount stays known once it is known     *)
(* (module Mount).  Diagnostics, TF output and the values of poses are not *)
(* modelled, and with them attitude_from_pose_, which only tells whether a *)
(* start replaces the roll and pitch of a pose by the accelerometer's.     *)
(***************************************************************************)
EXTENDS HeadingShadow

CONSTANTS
  InitialYawKnown,  \* initial_yaw_known
  MaxPoses          \* bound on the messages on /initialpose

ASSUME NodeParams ==
  InitialYawKnown \in BOOLEAN /\ MaxPoses \in Nat

VARIABLES
  acc,    \* last_acc_valid_ (last_imu_valid_ is the same)
  seed,   \* init_position_, init_attitude_ and what they come from
  antenna, \* where the antenna is: "base" at base_frame, "arm" off it
  mount,  \* what gnss_mount_ knows: "unknown", or antenna
  filter, \* filter_init_, the filter's roll and pitch, tilt_seed_pending_, ndt_since_init_
  h,      \* the filter's heading
  heading_source, \* heading_source_
  poses,  \* history: messages on /initialpose so far
  begun,  \* history: the seed of the last start, its poses and the heading source
  hist    \* history: of the filter that runs

vars == <<acc, seed, antenna, mount, filter, h, heading_source, poses, begun, hist>>

Sources == {"none", "initialpose", "lidar", "motion"}

\* attitude: where init_attitude_ is from, "none" while ~have_attitude_;
\* position: the same for init_position_; seated: the attitude that took the
\* lever arm out of it, "none" where there was no arm to take out.
Seed == [attitude : {"none", "accel", "pose"}, position : {"none", "fix", "pose"},
         seated : {"none", "level", "accel", "pose"}]

NoSeed == [attitude |-> "none", position |-> "none", seated |-> "none"]

\* tilt: how P holds roll and pitch.
Filter == [init : BOOLEAN, tilt : {"wide", "accel", "lidar"},
           pending : BOOLEAN, ndt : BOOLEAN]

Init ==
  /\ acc = FALSE
  /\ seed = NoSeed
  /\ antenna \in {"base", "arm"}
  /\ mount = "unknown"
  /\ filter = [init |-> FALSE, tilt |-> "wide", pending |-> FALSE, ndt |-> FALSE]
  /\ h = NewHeading
  /\ heading_source = "none"
  /\ poses = 0
  /\ begun = [seed |-> NoSeed, poses |-> 0, source |-> "none"]
  /\ hist = [guess |-> FALSE, measured |-> FALSE, replaced |-> FALSE, tilted |-> FALSE]
-----------------------------------------------------------------------------
(* tryInitialize()                                                         *)

\* Mutant of Ready: a pose of the user does not do for a start.
ReadyWithFix(s) == s.attitude # "none" /\ s.position = "fix"

Ready(s) == s.attitude # "none" /\ s.position # "none"

\* Roll and pitch of the start: from the accelerometer when the mount is known to
\* be off base_frame and there is a sample, and else later.
Begun(s, a, m) ==
  LET seeded == m = "arm" /\ a
  IN  [init |-> TRUE, ndt |-> FALSE,
       tilt |-> IF seeded THEN "accel" ELSE "wide",
       pending |-> m = "unknown" \/ (m = "arm" /\ ~a)]

\* The heading is a guess and the lever arm is known.
Guess(m, source) == source = "none" /\ ~InitialYawKnown /\ m = "arm"

\* Mutant of StartHeading: marked before initialize() instead of after it.
StartHeadingMarkedFirst(m, source) ==
  Initialized(IF Guess(m, source) THEN Marked(h) ELSE h)

StartHeading(m, source) ==
  IF Guess(m, source) THEN Marked(Initialized(h)) ELSE Initialized(h)

\* The filter starts from seed s with mount m, if it can; a tells that there is a
\* sample.  The heading after it is HeadingThen.
Starting(s) == ~filter.init /\ Ready(s)

HeadingThen(s, m) == IF Starting(s) THEN StartHeading(m, heading_source) ELSE h

TryInitialize(s, a, m) ==
  /\ seed' = s
  /\ IF Starting(s)
     THEN /\ filter' = Begun(s, a, m)
          /\ begun' = [seed |-> s, poses |-> poses, source |-> heading_source]
          /\ hist' = [guess |-> heading_source = "none", measured |-> FALSE,
                      replaced |-> FALSE, tilted |-> FALSE]
     ELSE UNCHANGED <<filter, begun, hist>>
-----------------------------------------------------------------------------
(* onImu()                                                                 *)

\* Mutant of Levelled: every sample sets the attitude to start from.
LevelledAlways(s) == [s EXCEPT !.attitude = "accel"]

\* The first sample gives the attitude to start from, if there is none.
Levelled(s) == IF s.attitude = "none" THEN [s EXCEPT !.attitude = "accel"] ELSE s

\* The first sample whose mount is known.
FirstSample ==
  /\ ~acc
  /\ acc' = TRUE
  /\ seed' = Levelled(seed)
  /\ UNCHANGED <<antenna, mount, filter, h, heading_source, poses, begun, hist>>

\* Any later one; usable: its interval is positive and not over 0.5 s.
Sample(usable) ==
  /\ acc
  /\ TryInitialize(Levelled(seed), TRUE, mount)
  /\ LET then == HeadingThen(Levelled(seed), mount)
     IN  IF filter'.init /\ usable
         THEN \E by \in {0, 1} : \E less \in 0..by : h' = Predicted(then, by, less)
         ELSE h' = then
  /\ UNCHANGED <<acc, antenna, mount, heading_source, poses>>

Imu(usable) == FirstSample \/ Sample(usable)
-----------------------------------------------------------------------------
(* onPoints(): a registration that is accepted.  All others change nothing *)
(* that is modelled.                                                       *)

Points ==
  /\ filter.init
  /\ \E left \in 0..h.var : h' = PoseFixed(h, left)
  /\ filter' = [filter EXCEPT !.ndt = TRUE, !.tilt = "lidar"]
  /\ heading_source' = "lidar"
  /\ hist' = [hist EXCEPT !.guess = FALSE, !.measured = TRUE]
  /\ UNCHANGED <<acc, seed, antenna, mount, poses, begun>>
-----------------------------------------------------------------------------
(* onGnss(): a fix with a status, a position and a mount that can be used. *)

\* The first fix gives the position to start from, if there is none: a lever arm
\* is taken out with the attitude to start from, level while there is none.
Positioned(s) ==
  IF s.position # "none" THEN s
  ELSE [s EXCEPT !.position = "fix",
                 !.seated = IF antenna = "base" THEN "none"
                            ELSE IF s.attitude = "none" THEN "level" ELSE s.attitude]

\* Mutant of Waits: a fix before the first sample does not wait.
WaitsNever(f) == FALSE

\* The fix waits for the first sample of the IMU.
Waits(f) == f.pending /\ ~acc

\* Mutant of Retilts: also after the lidar.
RetiltsAfterLidar(f) == f.pending /\ acc /\ antenna = "arm"

\* Roll and pitch are given what a start with the mount would have given them.
Retilts(f) == f.pending /\ acc /\ antenna = "arm" /\ ~f.ndt

Retilted(f) == [f EXCEPT !.tilt = "accel"]

Unpended(f) == [f EXCEPT !.pending = @ /\ ~acc]

\* The heading after replaceAttitude(), if it is called, and the update.
Fixed(open, rate, moved, left) ==
  LET before == IF Retilts(filter) THEN AttitudeReplaced(h) ELSE h
  IN  IF antenna = "base" THEN PositionFixed(before, IF left < before.var THEN left ELSE before.var)
      ELSE LeverFixed(before, open, rate, moved, left)

\* heading_source_ after an update that leaves heading x.
SourceOf(x) == IF antenna = "arm" /\ x.aligned THEN "motion" ELSE heading_source

\* A fix that is fused.
Fuse(open, rate, moved) ==
  /\ \E left \in Levels : h' = Fixed(open, rate, moved, left)
  /\ filter' = Unpended(IF Retilts(filter) THEN Retilted(filter) ELSE filter)
  /\ heading_source' = SourceOf(h')
  /\ hist' = [guess |-> hist.guess /\ ~h'.aligned /\ ~(h.pending /\ h'.unsupported),
              measured |-> TRUE,
              replaced |-> hist.replaced \/ (Retilts(filter) /\ hist.measured),
              tilted |-> hist.tilted \/ (antenna = "arm" /\ filter'.tilt = "wide")]
  /\ UNCHANGED <<seed, begun>>

Gnss(open, rate, moved) ==
  /\ mount' = antenna
  /\ IF ~filter.init
     THEN /\ TryInitialize(Positioned(seed), acc, antenna)
          /\ h' = HeadingThen(Positioned(seed), antenna)
          /\ UNCHANGED heading_source
     ELSE IF Waits(filter) THEN seed' = Positioned(seed)
                                /\ UNCHANGED <<filter, h, heading_source, begun, hist>>
     ELSE Fuse(open, rate, moved)
  /\ UNCHANGED <<acc, antenna, poses>>
-----------------------------------------------------------------------------
(* onInitialPose()                                                         *)

PoseSeed == [attitude |-> "pose", position |-> "pose", seated |-> "none"]

InitialPose ==
  /\ poses < MaxPoses
  /\ poses' = poses + 1
  /\ seed' = PoseSeed
  /\ filter' = [filter EXCEPT !.init = FALSE]
  /\ heading_source' = "initialpose"
  /\ UNCHANGED <<acc, antenna, mount, h, begun, hist>>
-----------------------------------------------------------------------------
Next ==
  \/ \E usable \in BOOLEAN : Imu(usable)
  \/ Points
  \/ \E open, moved \in BOOLEAN, rate \in Rates : Gnss(open, rate, moved)
  \/ InitialPose

Spec == Init /\ [][Next]_vars

\* The IMU keeps sending.
FairSpec == Spec /\ WF_vars(Imu(TRUE))
-----------------------------------------------------------------------------
TypeOK ==
  /\ acc \in BOOLEAN
  /\ seed \in Seed
  /\ antenna \in {"base", "arm"} /\ mount \in {"unknown", antenna}
  /\ filter \in Filter
  /\ h \in Heading
  /\ heading_source \in Sources
  /\ poses \in 0..MaxPoses

\* A filter that runs was started from the last pose the user gave, position and
\* attitude both, however IMU samples and fixes came in around it; the start of
\* before stops with the message (onInitialPose(), tryInitialize()).
StartedFromLatestPose ==
  filter.init =>
    /\ begun.poses = poses
    /\ poses > 0 => begun.seed.position = "pose" /\ begun.seed.attitude = "pose"
                    /\ begun.source = "initialpose"

\* No fix of an antenna at a lever arm is fused while roll and pitch have the wide
\* variance of a start without the accelerometer: such a fix tilts the filter
\* (onGnss(), tilt_seed_pending_).
NeverTilted == ~hist.tilted

\* The attitude is replaced only in "a filter that has had no measurement since
\* initialize()" (eskf.hpp, replaceAttitude()).
ReplacesFreshOnly == ~hist.replaced

\* A filter with a lever arm whose heading nothing has given holds the spread of an
\* unknown heading from its start on, and diagnostics name no source for it.
GuessIsMarked ==
  filter.init /\ hist.guess /\ antenna = "arm" /\ ~InitialYawKnown =>
    /\ h.valid /\ h.held /\ h.hh >= StartVar
    /\ heading_source = "none"

\* As soon as there is a position, the filter starts, and starts again after
\* every pose of the user, without any further fix.
Starts == seed.position # "none" ~> filter.init

\* "The first fix seeds the position as p_antenna - R(q0) t_bs, q0 being the
\* attitude the filter will start from" (SPEC_fusion.md, 8.1), t_bs not being
\* zero.
SeatedWithStart ==
  filter.init /\ antenna = "arm" /\ begun.seed.position = "fix" =>
    begun.seed.seated = begun.seed.attitude
=============================================================================
