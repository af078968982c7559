------------------------------- MODULE Pose2D -------------------------------
(***************************************************************************)
(* The planar pose algebra of prism_loc_core/types.cpp: compose, inverse   *)
(* and the odometry gates written with it.                                 *)
(*                                                                         *)
(* A Pose2D (x, y, yaw) is abstracted to an isometry of a line: a position *)
(* x and a heading h that is 1 (yaw 0) or -1 (yaw pi).  This keeps what    *)
(* the callers of compose() and inverse() rely on -- a group that is NOT   *)
(* commutative, so that a swapped operand or a missing inverse shows --    *)
(* over integers, which TLC enumerates and the provers decide.             *)
(***************************************************************************)
EXTENDS Integers

Heading == {1, -1}
Pose == [x : Int, h : Heading]

Origin == [x |-> 0, h |-> 1]

\* compose(a, b): b, a pose in the frame of a, expressed in the frame of a's parent.
compose(a, b) == [x |-> IF a.h = 1 THEN a.x + b.x ELSE a.x - b.x,
                  h |-> IF a.h = b.h THEN 1 ELSE -1]

inverse(a) == [x |-> IF a.h = 1 THEN -a.x ELSE a.x,
               h |-> a.h]

\* Mutant of Between: the motion in the odometry frame instead of the robot's.
BetweenInOdomFrame(a, b) == compose(b, inverse(a))

\* The motion from odometry pose a to odometry pose b, in the frame of a.
Between(a, b) == compose(inverse(a), b)

Abs(i) == IF i < 0 THEN -i ELSE i

\* A displacement reaches the translation threshold d or turns (a half turn,
\* the only rotation of this algebra, reaches every angle threshold).
Displaced(p, d) == Abs(p.x) >= d \/ p.h = -1
=============================================================================
