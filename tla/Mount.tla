--------------------------------- MODULE Mount ---------------------------------
(***************************************************************************)
(* Mount (prism_loc_fusion_ros/mount.hpp): which transform base_frame <-   *)
(* sensor frame applies to the messages of one sensor.  A mount is a       *)
(* record, resolve() an operator on it: Resolved is the mount after the    *)
(* call, Usable its answer.  A transform is a member of Transforms; what a *)
(* lookup gives is one of them or NoTransform, which also stands for a     *)
(* transform that is not finite.                                           *)
(***************************************************************************)
EXTENDS Integers

CONSTANTS
  Frames,       \* frame names a message can carry, with and without "/"
  Plain,        \* unslashed(): a name without its leading "/"
  EmptyFrame,   \* the empty name
  BaseFrame,    \* base_frame
  Override,     \* the points_frame, imu_frame or gnss_frame parameter
  Transforms,   \* transforms TF can hold
  Identity,     \* the identity
  NoTransform,  \* a lookup that finds nothing usable
  Refresh       \* kRefreshS

ASSUME MountParams ==
  /\ EmptyFrame \in Frames /\ BaseFrame \in Frames /\ Override \in Frames
  /\ Plain \in [Frames -> Frames]
  /\ \A f \in Frames : Plain[Plain[f]] = Plain[f]
  /\ Plain[EmptyFrame] = EmptyFrame /\ Plain[BaseFrame] # EmptyFrame
  /\ Identity \in Transforms /\ NoTransform \notin Transforms
  /\ Refresh \in Nat

Mounts == [frame : Frames, ext : Transforms, source : {"none", "base", "tf"},
           seen : BOOLEAN, looked_up : Nat]

NewMount == [frame |-> EmptyFrame, ext |-> Identity, source |-> "none",
             seen |-> FALSE, looked_up |-> 0]

\* The frame of a message whose header has frame f.
SensorFrame(f) == Plain[IF Override = EmptyFrame THEN f ELSE Override]

\* Mutant of Same: any frame will do.
SameAnyFrame(m, frame) == m.source = "tf"

\* The mount in use was found for this frame.
Same(m, frame) == m.source = "tf" /\ m.frame = frame

\* Mutant of Recent: counts from one lookup too far.
RecentTwice(m, s) == s - m.looked_up < 2 * Refresh

Recent(m, s) == s - m.looked_up < Refresh

InBase(frame) == frame \in {EmptyFrame, Plain[BaseFrame]}

\* The lookup found nothing: a mount of the same frame is kept.
Lost(m, frame, s) ==
  IF Same(m, frame) THEN [m EXCEPT !.seen = TRUE, !.looked_up = s]
  ELSE [m EXCEPT !.seen = TRUE, !.frame = frame, !.source = "none"]

\* resolve() of a message with frame f at steady time s; found is what a lookup
\* of the sensor frame gives.
Resolved(m, f, s, found) ==
  LET frame == SensorFrame(f)
  IN  IF InBase(frame)
      THEN [m EXCEPT !.seen = TRUE, !.frame = frame, !.ext = Identity,
                     !.source = IF frame = EmptyFrame THEN "none" ELSE "base"]
      ELSE IF Same(m, frame) /\ Recent(m, s) THEN [m EXCEPT !.seen = TRUE]
      ELSE IF found = NoTransform THEN Lost(m, frame, s)
      ELSE [seen |-> TRUE, frame |-> frame, ext |-> found, source |-> "tf", looked_up |-> s]

\* resolved(): the last message could be used.
Usable(m) == m.source # "none"
=============================================================================
