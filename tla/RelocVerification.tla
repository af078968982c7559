-------------------------- MODULE RelocVerification --------------------------
(***************************************************************************)
(* One RelocalizationVerifier driven along a path of odometry poses the    *)
(* way LocalizationNode::runRelocalization drives it: start() on the first *)
(* scan, then update() with the odometry increment since the previous scan *)
(* until the verifier decides.                                             *)
(***************************************************************************)
EXTENDS RelocVerifier

VARIABLES
  ver,      \* the verifier
  odom,     \* odometry pose of the last scan given to it
  anchors,  \* history: the map->odom transform each hypothesis stands for
  counted,  \* history: odometry pose of the last scan that was counted
  bare      \* history: a scan without endpoints passed the motion gate since

vars == <<ver, odom, anchors, counted, bare>>

Init == /\ ver = ResetVerifier
        /\ odom = Origin
        /\ anchors = [k \in 1..0 |-> Origin]
        /\ counted = Origin /\ bare = FALSE

Start ==
  /\ ver.status # "pending"
  /\ \E o \in Odoms : \E modes \in ModeLists(o) :
       /\ ver' = Seed(modes)
       /\ odom' = o
       /\ anchors' = [k \in DOMAIN ver'.hyps |-> compose(ver'.hyps[k].pose, inverse(o))]
       /\ counted' = o /\ bare' = FALSE

\* One call of update().  MaxSkipped bounds the count of skipped scans.
Step(o, scan) ==
  /\ ver.status = "pending"
  /\ ver' = Update(ver, Between(odom, o), scan)
  /\ ver'.skipped <= MaxSkipped
  /\ odom' = o
  /\ anchors' = NextAnchors(ver, ver', anchors, o, scan)
  /\ IF ver'.scans > ver.scans THEN counted' = o /\ bare' = FALSE
     ELSE counted' = counted /\ bare' = (bare \/ ver'.skipped = ver.skipped)

Next == Start \/ \E o \in Odoms, scan \in Scans : Step(o, scan)

Spec == Init /\ [][Next]_vars
-----------------------------------------------------------------------------
TypeOK == /\ IsVerifier(ver)
          /\ odom \in Pose
          /\ anchors \in [DOMAIN ver.hyps -> Pose]
          /\ counted \in Pose /\ bare \in BOOLEAN

\* No odometry is lost or applied twice between the scans (update():
\* pending_delta_, h.pose, and the node's reloc_last_odom_).
Tracked == Chained(ver, anchors, odom)

\* The posterior compares sums over the same scans, and a verification is
\* pending only while it can still be decided.
EvidenceComplete == Complete(ver)

\* What is committed is where the robot is now, not where it was when the
\* hypothesis was found: after VerifyScans scans, the pose the most probable
\* hypothesis has at the last one (normalizeAndDecide()).
AcceptedIsCurrent == Current(ver, anchors, odom)

\* With min_posterior above one half no other live hypothesis has as much
\* evidence as the accepted one.
AcceptedIsDominant ==
  ver.status = "accepted" /\ 2 * MassNum > MassDen =>
    \E b \in Alive(ver.hyps) : \A j \in Alive(ver.hyps) \ {b} :
      /\ ver.best = ver.hyps[b].pose
      /\ ver.hyps[j].fraction_sum < ver.hyps[b].fraction_sum

\* update() counts the scan as evidence.
Counts == ver.status = "pending" /\ ver'.scans > ver.scans

\* With the motion gate on, a scan is evidence only when the odometry has moved
\* past the gate since the last counted scan, unless a scan without endpoints
\* has passed the gate in between (update(), pending_delta_).
EvidenceNeedsMotion ==
  [][Counts /\ ~bare => ~Gated(Between(counted, odom'))]_vars

\* The gate as relocalization.hpp:35-37 and PARAMS.md:73 document it: the motion
\* since the last counted scan; what is not counted only accumulates the
\* odometry increment.
CountedScansNeedMotion ==
  [][Counts => ~Gated(Between(counted, odom'))]_vars
-----------------------------------------------------------------------------
\* The sequential test behind the code: see RelocRule.
Rule == INSTANCE RelocRule WITH phase <- ver.status,
                                count <- ver.scans,
                                alive <- Alive(ver.hyps)

ImplementsRule == Rule!Spec
=============================================================================
