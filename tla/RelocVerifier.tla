---------------------------- MODULE RelocVerifier ----------------------------
(***************************************************************************)
(* RelocalizationVerifier (prism_loc_core/relocalization.cpp): the         *)
(* multi-hypothesis, multi-scan test of a global relocalization.           *)
(*                                                                         *)
(* A verifier is a record with the class's members; Seed and Update are    *)
(* the methods start() and update(), as functions from verifier to         *)
(* verifier, so that LocalizationNode can call them inside one handler and *)
(* RelocVerification can check one verifier by itself.                     *)
(*                                                                         *)
(* What the scan matcher answers is the input of a call: the modes of the  *)
(* global search, or for every hypothesis whether its tracking window      *)
(* holds a feasible pose, the offset of the best pose from the predicted   *)
(* one and its score.  Scores are integers; the softmax over log-weights   *)
(* EvidenceGain * score uses powers of 2 instead of e.                     *)
(***************************************************************************)
EXTENDS Pose2D, FiniteSetsExt

CONSTANTS
  TopK,            \* bbs_verify_top_k: hypotheses kept by start()
  VerifyScans,     \* bbs_verify_scans: informative scans before the decision
  MinTranslation,  \* bbs_verify_min_translation (0: criterion off)
  GateRotation,    \* bbs_verify_min_rotation > 0
  EvidenceGain,    \* bbs_verify_evidence_gain
  MassNum, MassDen,\* bbs_verify_min_posterior = MassNum / MassDen
  MinScore,        \* bbs_min_score_fraction, in the unit of Scores
  Scores,          \* scores per beam the matcher may report
  Corrections,     \* offsets of a local match from the predicted pose
  Odoms,           \* odometry poses at which scans are taken
  Aliases,         \* map->odom transforms under which the first scan matches
  MaxSkipped       \* bound on the scans the motion gate may skip

ASSUME VerifierParams ==
  /\ TopK \in Nat \ {0}
  /\ VerifyScans \in Nat \ {0}
  /\ MinTranslation \in Nat
  /\ GateRotation \in BOOLEAN
  /\ EvidenceGain \in Nat \ {0}
  /\ MassNum \in Nat \ {0} /\ MassDen \in Nat \ {0} /\ MassNum <= MassDen
  /\ MinScore \in Nat
  /\ MaxSkipped \in Nat

ASSUME VerifierInputs ==
  /\ Scores \subseteq Nat
  /\ Corrections \subseteq Pose
  /\ Odoms \subseteq Pose
  /\ Aliases \subseteq Pose

Status == {"idle", "pending", "accepted", "ambiguous", "no-candidate"}

Hypothesis == [pose : Pose, fraction_sum : Nat, scans : Nat, alive : BOOLEAN]

\* The type of a verifier.
IsVerifier(v) ==
  /\ v = [status |-> v.status, hyps |-> v.hyps, scans |-> v.scans,
          skipped |-> v.skipped, pending |-> v.pending, best |-> v.best]
  /\ v.status \in Status
  /\ \E n \in 0..TopK : v.hyps \in [1..n -> Hypothesis]
  /\ v.scans \in Nat
  /\ v.skipped \in Nat
  /\ v.pending \in Pose
  /\ v.best \in Pose

\* The members of a verifier no scan has moved yet.
Fresh(status, hyps, scans, best) ==
  [status |-> status, hyps |-> hyps, scans |-> scans,
   skipped |-> 0, pending |-> Origin, best |-> best]

\* The members after reset().
ResetVerifier == Fresh("idle", [k \in 1..0 |-> Origin], 0, Origin)

Alive(hyps) == {k \in DOMAIN hyps : hyps[k].alive}

\* The most probable live hypothesis, the first one on a tie.
MostProbable(hyps) ==
  CHOOSE k \in Alive(hyps) :
    \A j \in Alive(hyps) : \/ hyps[j].fraction_sum < hyps[k].fraction_sum
                           \/ hyps[j].fraction_sum = hyps[k].fraction_sum /\ k <= j

Weight(h) == 2 ^ (EvidenceGain * h.fraction_sum)

\* Mutant of MassReached: compares the weight before it is normalized.
MassUnnormalized(hyps, b) == MassDen * Weight(hyps[b]) >= MassNum

\* The posterior mass of hypothesis b is at least min_posterior.
MassReached(hyps, b) ==
  MassDen * Weight(hyps[b])
    >= MassNum * MapThenSumSet(LAMBDA k : Weight(hyps[k]), Alive(hyps))

\* Mutant of Verdict: the score gate compares the sum, not the mean.
VerdictOnSum(hyps, b) ==
  IF ~MassReached(hyps, b) THEN "ambiguous"
  ELSE IF hyps[b].fraction_sum >= MinScore THEN "accepted" ELSE "no-candidate"

Verdict(hyps, b) ==
  IF ~MassReached(hyps, b) THEN "ambiguous"
  ELSE IF hyps[b].fraction_sum >= MinScore * hyps[b].scans THEN "accepted"
  ELSE "no-candidate"

\* Mutant of Undecided: decides a scan early.
UndecidedEarly(v) == v.scans + 1 < VerifyScans

Undecided(v) == v.scans < VerifyScans

NormalizeAndDecide(v) ==
  LET b == MostProbable(v.hyps)
  IN  IF Alive(v.hyps) = {} THEN [v EXCEPT !.status = "no-candidate"]
      ELSE [v EXCEPT !.best = v.hyps[b].pose,
                     !.status = IF Undecided(v) THEN @ ELSE Verdict(v.hyps, b)]
-----------------------------------------------------------------------------
(* start(): modes is what the global search returns, best score first.     *)

\* A mode becomes a hypothesis when it passes the single-scan gate; as modes
\* are sorted by score, those are the first Passing(modes) of them.
Passing(modes) == Cardinality({k \in DOMAIN modes : modes[k].f >= MinScore})

Seed(modes) ==
  LET hyps == [k \in 1..Passing(modes) |->
                 [pose |-> modes[k].pose, fraction_sum |-> modes[k].f,
                  scans |-> 1, alive |-> TRUE]]
  IN  IF Passing(modes) = 0
      THEN Fresh("no-candidate", ResetVerifier.hyps, 0,
                 IF DOMAIN modes = {} THEN Origin ELSE modes[1].pose)
      ELSE NormalizeAndDecide(Fresh("pending", hyps, 1, Origin))

\* The lists of at most TopK modes a global search may return for a scan taken
\* at odometry pose odom: distinct poses, sorted by score.
ModeLists(odom) ==
  UNION {{modes \in [1..n -> [pose : {compose(a, odom) : a \in Aliases}, f : Scores]] :
            \A i, j \in 1..n : i < j => /\ modes[i].f >= modes[j].f
                                        /\ modes[i].pose # modes[j].pose}
         : n \in 0..TopK}
-----------------------------------------------------------------------------
(* update(): delta is the odometry since the previous scan, scan the       *)
(* matcher's answers.                                                      *)

\* The motion gate: the robot has not moved enough since the last scan it let pass.
Gated(p) == /\ MinTranslation > 0 \/ GateRotation
            /\ ~(MinTranslation > 0 /\ Abs(p.x) >= MinTranslation)
            /\ ~(GateRotation /\ p.h = -1)

LocalMatch == [found : BOOLEAN, corr : Corrections, f : Scores]

\* A scan without valid endpoints is no evidence for any hypothesis.
Scans == [empty : {FALSE}, match : [1..TopK -> LocalMatch]]
           \cup {[empty |-> TRUE, match |-> [k \in 1..TopK |-> Origin]]}

Rematch(h, delta, scan, k) ==
  LET pred == compose(h.pose, delta)
      m    == scan.match[k]
  IN  IF ~h.alive THEN h
      ELSE IF scan.empty THEN [h EXCEPT !.pose = pred]
      ELSE IF ~m.found THEN [h EXCEPT !.alive = FALSE, !.pose = pred]
      ELSE [h EXCEPT !.pose = compose(pred, m.corr),
                     !.fraction_sum = @ + m.f,
                     !.scans = @ + 1]

\* Mutant of Informative: counts a scan without endpoints.
InformativeEmpty(v, scan) == Alive(v.hyps) # {}

Informative(v, scan) == ~scan.empty /\ Alive(v.hyps) # {}

\* Mutant of Moved: forgets the increments of the skipped scans.
MovedSinceLast(v, delta) == delta

\* The motion since the last scan that passed the gate.
Moved(v, delta) == compose(v.pending, delta)

Update(v, delta, scan) ==
  LET moved == Moved(v, delta)
  IN  IF v.status # "pending" THEN v
      ELSE IF Gated(moved)
      THEN [v EXCEPT !.pending = moved, !.skipped = @ + 1]
      ELSE NormalizeAndDecide([v EXCEPT
             !.pending = Origin,
             !.hyps  = [k \in DOMAIN @ |-> Rematch(@[k], moved, scan, k)],
             !.scans = IF Informative(v, scan) THEN @ + 1 ELSE @])

\* What a scan tells of the map->odom transform a hypothesis stands for: taken
\* at odometry pose odom, it moves the robot's pose by the correction found.
Corrected(anchor, odom, corr) == compose(compose(compose(anchor, odom), corr), inverse(odom))

NextAnchors(v, w, anchors, odom, scan) ==
  [k \in DOMAIN anchors |->
     IF w.hyps[k].scans > v.hyps[k].scans
     THEN Corrected(anchors[k], odom, scan.match[k].corr) ELSE anchors[k]]

\* What a verifier relies on between two calls, given the map->odom transforms
\* its hypotheses stand for and the odometry pose of the last scan: a live
\* hypothesis, moved by the increment still pending, is where its transform
\* puts the robot.
Chained(v, anchors, odom) ==
  \A k \in Alive(v.hyps) : compose(v.hyps[k].pose, v.pending) = compose(anchors[k], odom)

\* Every live hypothesis has been scored by every informative scan; a pending
\* verifier has a live hypothesis and has not seen its last scan.
Complete(v) ==
  /\ \A k \in Alive(v.hyps) : v.hyps[k].scans = v.scans
  /\ v.status = "pending" => v.scans \in 1..(VerifyScans - 1) /\ Alive(v.hyps) # {}

\* An accepted verifier has seen VerifyScans scans; its pose is the one the most
\* probable hypothesis has at the last scan, and passes the score gate.
Current(v, anchors, odom) ==
  v.status = "accepted" =>
    LET b == MostProbable(v.hyps)
    IN  /\ v.scans = VerifyScans
        /\ b \in Alive(v.hyps)
        /\ v.best = compose(anchors[b], odom)
        /\ v.hyps[b].fraction_sum >= MinScore * VerifyScans
        /\ \A j \in Alive(v.hyps) : v.hyps[j].fraction_sum <= v.hyps[b].fraction_sum
=============================================================================
