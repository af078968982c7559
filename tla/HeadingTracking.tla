---------------------------- MODULE HeadingTracking ----------------------------
(***************************************************************************)
(* The heading of one Eskf with a GNSS antenna at a lever arm, as the      *)
(* fusion node calls it: starts, predictions, fixes with and without the   *)
(* arm, poses from the lidar, and the attitude replaced before the first   *)
(* measurement.                                                            *)
(***************************************************************************)
EXTENDS HeadingShadow

CONSTANTS MaxStarts \* bound on the starts

ASSUME StartsParam == MaxStarts \in Nat

VARIABLES
  h,        \* the filter's heading
  starts,   \* number of starts, 0: no filter yet
  measured, \* history: there was a measurement since the last start
  guess,    \* history: the last start was marked, and nothing has given the heading since
  by        \* history: what the last step was

vars == <<h, starts, measured, guess, by>>

Init == h = NewHeading /\ starts = 0 /\ measured = FALSE /\ guess = FALSE /\ by = "none"

\* initialize(), and markHeadingUnknown() when the heading is a guess.
Start ==
  /\ starts < MaxStarts
  /\ starts' = starts + 1
  /\ measured' = FALSE
  /\ by' = "start"
  /\ \E mark \in BOOLEAN : /\ h' = IF mark THEN Marked(Initialized(h)) ELSE Initialized(h)
                           /\ guess' = mark

Predict ==
  /\ starts > 0
  /\ \E g \in {0, 1} : \E less \in 0..g : h' = Predicted(h, g, less)
  /\ by' = "predict"
  /\ UNCHANGED <<starts, measured, guess>>

PositionFix ==
  /\ starts > 0
  /\ \E left \in 0..h.var : h' = PositionFixed(h, left)
  /\ measured' = TRUE /\ by' = "position"
  /\ UNCHANGED <<starts, guess>>

PoseFix ==
  /\ starts > 0
  /\ \E left \in 0..h.var : h' = PoseFixed(h, left)
  /\ measured' = TRUE /\ guess' = FALSE /\ by' = "pose"
  /\ UNCHANGED starts

\* Only for a filter without a measurement, whose heading is not marked: the
\* node marks a start only when the mount is known.
ReplaceAttitude ==
  /\ starts > 0 /\ ~measured /\ ~guess
  /\ h' = AttitudeReplaced(h)
  /\ by' = "replace"
  /\ UNCHANGED <<starts, measured, guess>>

LeverFix(open, rate, moved) ==
  /\ starts > 0
  /\ \E left \in Levels : h' = LeverFixed(h, open, rate, moved, left)
  /\ measured' = TRUE
  /\ by' = IF h'.aligned THEN "aligned"
           ELSE IF h.pending /\ h'.unsupported THEN "taken back"
           ELSE IF open /\ ~h'.blind THEN "released" ELSE "closed"
  /\ guess' = (guess /\ by' \notin {"aligned", "taken back"})
  /\ UNCHANGED starts

Next == \/ Start \/ Predict \/ PositionFix \/ PoseFix \/ ReplaceAttitude
        \/ \E open, moved \in BOOLEAN, rate \in Rates : LeverFix(open, rate, moved)

Spec == Init /\ [][Next]_vars

\* The robot starts or stops again and again while fixes come at a rate the
\* alignment supports.
FairSpec == Spec /\ WF_vars(\E open \in BOOLEAN : LeverFix(open, "supported", TRUE))
-----------------------------------------------------------------------------
TypeOK == /\ h \in Heading
          /\ starts \in 0..MaxStarts
          /\ measured \in BOOLEAN /\ guess \in BOOLEAN

\* A start whose heading is a guess stays held back at the spread of an unknown
\* heading, whatever predictions, fixes and changes of the fix rate come, until
\* the motion or the lidar gives the heading or the rate is found unsupported
\* (markHeadingUnknown(), shadow_held_).
GuessIsHeld == guess => h.valid /\ h.held /\ h.hh >= StartVar

\* A lever update never corrects roll and pitch with the heading of a guess: it
\* is blind (updatePositionLever(), blind).
GuessIsBlind == guess /\ by \in {"closed", "released"} => h.blind /\ by = "closed"

\* A heading known to be unknown becomes known only by a source of the heading:
\* no linearised update, released or not, ends it (updatePositionLever()).
UnknownEndsBySource ==
  [][Unknown(h) /\ ~Unknown(h') =>
       by' \in {"start", "pose", "aligned", "taken back"}]_vars

\* A lever update never makes the published heading look better than it was,
\* unless it takes it from the motion, estimates it, or takes a start back: what
\* the bound cuts out of the covariance goes to the shadow (covarianceHonest()).
PublishedIsHonest ==
  [][Published(h') < Published(h) =>
       \/ by' \in {"start", "replace", "pose", "aligned", "taken back", "released"}
       \/ by' = "position" /\ ~(h.valid /\ h.held)]_vars

\* An unknown heading becomes known when the robot moves and the fixes are fast
\* enough, however often it was started anew.
UnknownEnds == Unknown(h) ~> ~Unknown(h)
=============================================================================
