----------------------------- MODULE HeadingShadow -----------------------------
(***************************************************************************)
(* What Eskf (prism_loc_fusion/eskf.cpp) knows of its heading: the         *)
(* variance its covariance holds, the shadow that keeps the spread which   *)
(* the bound of the lever-arm update hides, and the marks of a start whose *)
(* heading is a guess.  Every method that touches them is an operator on   *)
(* a record.                                                               *)
(*                                                                         *)
(* A variance is one of the levels 0..MaxVar; what an update leaves of it  *)
(* is an input.  Position, velocity, tilt and biases are not in the        *)
(* record.  Which fixes allow an alignment is in module FixTimes; here     *)
(* rate is the class of their period and moved tells that the motion gives *)
(* the heading.                                                            *)
(***************************************************************************)
EXTENDS Integers

CONSTANTS
  Cap,        \* lever_heading_sigma_max, as a variance
  AlignVar,   \* lever_align_sigma
  StartVar,   \* lever_start_sigma
  SeedVar,    \* variance of the heading the node starts with (0.5 rad^2)
  MaxVar,     \* the largest level; what grows beyond stays there
  KnownFixes  \* fixes from which on the period is known (6)

ASSUME HeadingParams ==
  /\ Cap \in Nat /\ AlignVar \in Nat /\ StartVar \in Nat /\ SeedVar \in Nat /\ MaxVar \in Nat
  /\ Cap < SeedVar /\ SeedVar <= AlignVar /\ AlignVar < StartVar /\ StartVar <= MaxVar
  /\ KnownFixes \in Nat \ {0}

Levels == 0..MaxVar
Rates == {"supported", "degraded", "unsupported"}

Heading == [var : Levels,       \* variance of the heading in P_
            valid : BOOLEAN,    \* shadow_valid_
            held : BOOLEAN,     \* shadow_held_
            hh : Levels,        \* s_hh_
            pending : BOOLEAN,  \* unknown_pending_
            unsupported : BOOLEAN, degraded : BOOLEAN, \* rate_unsupported_, rate_degraded_
            fixes : 0..KnownFixes,  \* fixes_.size(), counted up to KnownFixes
            capped : BOOLEAN, aligned : BOOLEAN, blind : BOOLEAN] \* of the last lever update

NewHeading == [var |-> 0, valid |-> FALSE, held |-> FALSE, hh |-> 0, pending |-> FALSE,
               unsupported |-> FALSE, degraded |-> FALSE, fixes |-> 0,
               capped |-> FALSE, aligned |-> FALSE, blind |-> FALSE]

\* initialize()
Initialized(h) ==
  [h EXCEPT !.var = SeedVar, !.valid = FALSE, !.fixes = 0, !.pending = FALSE,
            !.unsupported = FALSE, !.degraded = FALSE]

\* Mutant of Marked: not held back.
MarkedUnheld(h) == [h EXCEPT !.valid = TRUE, !.hh = StartVar, !.pending = TRUE]

\* markHeadingUnknown()
Marked(h) == [h EXCEPT !.valid = TRUE, !.held = TRUE, !.hh = StartVar, !.pending = TRUE]

\* syncShadow()
Synced(h) == [h EXCEPT !.hh = h.var, !.valid = TRUE, !.held = FALSE]

Grown(level, by) == IF level + by < MaxVar THEN level + by ELSE MaxVar

\* predict(): the shadow grows as an unbounded variance does; the bounded one
\* may grow less, its correlation with the gyro bias was scaled.
Predicted(h, by, less) ==
  [h EXCEPT !.var = Grown(@, IF h.valid /\ h.held THEN less ELSE by),
            !.hh = IF h.valid THEN Grown(@, by) ELSE @]

\* updatePosition(), updatePose(), replaceAttitude(): left is the variance the
\* update leaves.
PositionFixed(h, left) == [h EXCEPT !.var = left]
PoseFixed(h, left) == [h EXCEPT !.var = left, !.valid = FALSE]
AttitudeReplaced(h) == [h EXCEPT !.var = SeedVar, !.valid = FALSE]
-----------------------------------------------------------------------------
(* updatePositionLever(), step by step.                                    *)

\* The fix is stored, and the first one after a reset sets the shadow.
Stored(h) ==
  LET s == [h EXCEPT !.fixes = IF @ < KnownFixes THEN @ + 1 ELSE @,
                     !.aligned = FALSE, !.blind = FALSE]
  IN  IF s.valid THEN s ELSE Synced(s)

\* From KnownFixes fixes on the rate is known; a marked start is taken back
\* once, when it turns out to be unsupported then.
Rated(h, rate) ==
  IF h.fixes < KnownFixes THEN h
  ELSE LET r == [h EXCEPT !.unsupported = rate = "unsupported",
                          !.degraded = rate = "degraded",
                          !.pending = FALSE]
       IN  IF h.pending /\ r.unsupported THEN Synced(r) ELSE r

\* The bound hides a spread too wide for the linear model of the lever term.
Wide(h) == h.hh > AlignVar
Unknown(h) == h.valid /\ h.held /\ Wide(h)

\* Enough fixes, not too far apart, and the robot started or stopped.
Alignable(h, rate, moved) == moved /\ rate # "unsupported" /\ h.fixes >= KnownFixes

\* Mutant of Aligned: the shadow is forgotten.
AlignedInCovariance(h) == [h EXCEPT !.var = Cap, !.fixes = 0, !.aligned = TRUE]

\* alignHeading() gives the heading the variance of the bound.
Aligned(h) == [h EXCEPT !.var = Cap, !.hh = Cap, !.held = FALSE, !.fixes = 0, !.aligned = TRUE]

\* Mutant of Reacquired: an unknown heading that is not found is left as it is.
ReacquiredOrKept(h, rate, moved) ==
  IF Unknown(h) /\ Alignable(h, rate, moved) THEN Aligned(h) ELSE h

\* An unknown heading is found from the motion, or the update is blind.
Reacquired(h, rate, moved) ==
  IF ~Unknown(h) THEN h
  ELSE IF Alignable(h, rate, moved) THEN Aligned(h) ELSE [h EXCEPT !.blind = TRUE]

\* Mutant of Bounded: the bound does not tell the shadow.
BoundedSilently(h, released) ==
  IF ~released /\ h.var > Cap THEN [h EXCEPT !.var = Cap, !.capped = TRUE]
  ELSE [h EXCEPT !.capped = FALSE]

\* The update sees at most Cap, unless it is released.
Bounded(h, released) ==
  IF ~released /\ h.var > Cap THEN [h EXCEPT !.var = Cap, !.capped = TRUE, !.held = TRUE]
  ELSE [h EXCEPT !.capped = FALSE]

\* Mutant of LeverFixed: a blind update is released all the same.
LeverFixedReleasedBlind(h, open, rate, moved, left) ==
  LET found   == Reacquired(Rated(Stored(h), rate), rate, moved)
      bounded == Bounded(found, open)
  IN  IF open THEN Synced([bounded EXCEPT !.var = IF left < @ THEN left ELSE @])
      ELSE bounded

\* open: the release is open; left: what a released update leaves of a variance
\* that it estimates.
LeverFixed(h, open, rate, moved, left) ==
  LET found    == Reacquired(Rated(Stored(h), rate), rate, moved)
      released == open /\ ~found.blind
      bounded  == Bounded(found, released)
  IN  IF released
      THEN Synced([bounded EXCEPT !.var = IF left < @ THEN left ELSE @])
      ELSE bounded

\* covarianceHonest(): the variance of the heading that is published.
Published(h) == IF h.valid /\ h.held /\ h.hh > h.var THEN h.hh ELSE h.var
=============================================================================
