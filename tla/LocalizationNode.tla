--------------------------- MODULE LocalizationNode ---------------------------
(***************************************************************************)
(* LocalizationNode (prism_loc/localization_node.cpp), the node behind the *)
(* laser2d and ndt3d backends.  Every callback runs under mutex_ on a      *)
(* single-threaded executor, so a callback is one action; what happens in  *)
(* other threads while one runs -- a transform that arrives during a TF    *)
(* wait -- is an input of the action.                                      *)
(*                                                                         *)
(* The particle set is abstracted to its size and its mean pose (cloud);   *)
(* the measurement update moves the mean by a correction.  The counters    *)
(* that only /diagnostics reads are not modelled.                          *)
(***************************************************************************)
EXTENDS RelocVerifier, MatchMonitor, Sequences

CONSTANTS
  Backend,          \* "laser2d" or "ndt3d"
  TryGlobal,        \* try_global_localization
  SetInitialPose, InitialPose,
  UpdateMinD,       \* update_min_d
  MinParticles, MaxParticles,
  SeedDefault,      \* particles of a seed when there are none yet (2000)
  SeedFloor,        \* particles /initialpose seeds at least (500)
  UserPoses,        \* poses sent on /initialpose
  TrackCorrections, \* offsets of the filter's mean in a measurement update
  Fractions,        \* match fractions of an ndt3d update
  Area,             \* bound on the map coordinates of the filter's mean
  MaxMaps,          \* bound on the maps received
  MaxCommands       \* bound on the user's poses and requests

ASSUME NodeParams ==
  /\ Backend \in {"laser2d", "ndt3d"}
  /\ TryGlobal \in BOOLEAN /\ SetInitialPose \in BOOLEAN
  /\ InitialPose \in Pose
  /\ UpdateMinD \in Nat
  /\ MinParticles \in Nat \ {0} /\ MaxParticles \in Nat /\ MinParticles <= MaxParticles
  /\ SeedDefault \in Nat \ {0} /\ SeedFloor \in Nat \ {0}
  /\ UserPoses \subseteq Pose /\ TrackCorrections \subseteq Pose
  /\ Fractions \subseteq Nat
  /\ Area \in Nat /\ MaxMaps \in Nat /\ MaxCommands \in Nat

VARIABLES
  trk,         \* the filter and the members runUpdate() works on
  rel,         \* the members runRelocalization() works on
  grid,        \* the version of grid_ (and of laser_model_), 0: none
  bbs_matcher, \* the version of the grid bbs_matcher_ was built from, 0: none
  out,         \* what the last callback published: at most one pose
  commands,    \* number of user commands so far
  trkH, relH   \* history of trk and rel, for the properties only

vars == <<trk, rel, grid, bbs_matcher, out, commands, trkH, relH>>

Laser == Backend = "laser2d"

\* Mutant of NeedOdom: off by one.
NeedOdomLate == VerifyScans > 2

NeedOdom == VerifyScans > 1

\* The ndt3d constructor throws when it has no map.
MapReady == Laser => grid > 0
-----------------------------------------------------------------------------
(* Seeding the filter.                                                     *)

\* Mutant of Seeded: waits for motion before the next update.
SeededUnforced(t, mean, n) == [t EXCEPT !.cloud = mean, !.n = n, !.filter_init = TRUE]

\* initializeGaussian() and the members every seed sets.
Seeded(t, mean, n) == [t EXCEPT !.cloud = mean, !.n = n,
                                !.filter_init = TRUE, !.force_update = TRUE]

\* The members of the filter.
Trackers == [filter_init : BOOLEAN, force_update : BOOLEAN,
             have_last_odom : BOOLEAN, last_odom : Pose,
             have_map_odom : BOOLEAN, map_odom : Pose,
             cloud : Pose, n : Nat, match : Monitors]

Unseeded == [filter_init |-> FALSE, force_update |-> FALSE,
             have_last_odom |-> FALSE, last_odom |-> Origin,
             have_map_odom |-> FALSE, map_odom |-> Origin,
             cloud |-> Origin, n |-> 0, match |-> NewMonitor]

\* The constructor: set_initial_pose seeds half of max_particles.
InitialTracker ==
  IF SetInitialPose THEN Seeded(Unseeded, InitialPose, MaxParticles \div 2) ELSE Unseeded

\* Mutant of RelocSeed: the next update applies the motion since before the seed.
RelocSeedKeepsOdom(t, mean) == Seeded(t, mean, IF t.n > 0 THEN t.n ELSE SeedDefault)

\* onInitialPose()
ManualSeed(t, mean) ==
  LET n == IF t.n = 0 THEN SeedDefault ELSE t.n
  IN  [Seeded(t, mean, IF n > SeedFloor THEN n ELSE SeedFloor) EXCEPT !.have_last_odom = FALSE]

\* runRelocalization(), case kAccepted
RelocSeed(t, mean) ==
  [Seeded(t, mean, IF t.n > 0 THEN t.n ELSE SeedDefault) EXCEPT !.have_last_odom = FALSE]
-----------------------------------------------------------------------------
(* runUpdate(): odometry pose odom at the stamp of the scan or cloud.      *)

\* The first odometry pose after a seed is the reference of the next motion.
WithReference(t, odom) ==
  IF t.have_last_odom THEN t ELSE [t EXCEPT !.last_odom = odom, !.have_last_odom = TRUE]

Updates(t, odom) ==
  t.force_update \/ Displaced(Between(WithReference(t, odom).last_odom, odom), UpdateMinD)

\* predict(), correct(), resample() to m particles and estimate(); an empty
\* particle set has the origin as its estimate.
Estimate(t, odom, corr) ==
  IF t.n = 0 THEN Origin ELSE compose(compose(t.cloud, Between(t.last_odom, odom)), corr)

FilterUpdate(t, odom, corr, m, fraction) ==
  LET base == Estimate(t, odom, corr)
  IN  [t EXCEPT !.cloud = base,
                !.n = m,
                !.match = IF Laser THEN @ ELSE Judge(@, t.force_update, fraction),
                !.last_odom = odom,
                !.force_update = FALSE,
                !.map_odom = compose(base, inverse(odom)),
                !.have_map_odom = TRUE]

RunUpdate(t, odom, corr, m, fraction) ==
  LET r == WithReference(t, odom)
  IN  IF Updates(t, odom) THEN FilterUpdate(r, odom, corr, m, fraction) ELSE r

\* Mutant of ResampledSizes: drops the lower bound.
ResampledToNone(n) == IF n = 0 THEN {0} ELSE {n} \cup 0..MaxParticles

\* resample() keeps the set when n_eff is high, otherwise redraws it within the
\* bounds; an empty set stays empty.
ResampledSizes(n) == IF n = 0 THEN {0} ELSE {n} \cup MinParticles..MaxParticles

\* publish(): the pose of base_frame in the map.
Publication(t, odom) == [odom |-> odom, pose |-> compose(t.map_odom, odom)]

(* History of the filter: anchor is the map->odom transform the filter     *)
(* stands for -- a relocalization brings it along when its odometry pose   *)
(* resolves, any other seed gets it at its first update --, fresh says     *)
(* that map_odom was computed after the last seed, judged the fractions of *)
(* the last updates judged since, in order.                                *)
SeedHistory(anchored, anchor) ==
  [anchored |-> anchored, anchor |-> anchor, fresh |-> FALSE, judged |-> <<>>]

\* The judged updates after one more: as many as the counter of the window can tell.
Remembered(judged, fraction) ==
  IF Len(judged) < KMaxCounted THEN Append(judged, fraction)
  ELSE Append(Tail(judged), fraction)

UpdateHistory(h, t, odom, corr, fraction) ==
  LET anchor == IF h.anchored THEN h.anchor ELSE compose(t.cloud, inverse(odom))
  IN  IF Updates(t, odom)
      THEN [h EXCEPT !.anchored = TRUE,
                     !.anchor = Corrected(anchor, odom, corr),
                     !.fresh = TRUE,
                     !.judged = IF Laser \/ t.force_update THEN @
                                ELSE Remembered(@, fraction)]
      ELSE h

\* The part of onScan() and onPoints() after the scan is accepted: t and h are
\* the filter and its history there, available tells that the odometry
\* transform at the stamp resolves.
Track(t, h, odom, available) ==
  IF t.filter_init /\ available
  THEN /\ \E corr \in TrackCorrections, m \in ResampledSizes(t.n), fraction \in Fractions :
            /\ trk' = RunUpdate(t, odom, corr, m, fraction)
            /\ trkH' = UpdateHistory(h, t, odom, corr, fraction)
       /\ trk'.cloud.x \in -Area..Area
       /\ out' = IF trk'.have_map_odom THEN {Publication(trk', odom)} ELSE {}
  ELSE trk' = t /\ trkH' = h /\ out' = {}
-----------------------------------------------------------------------------
(* runRelocalization(): odometry pose odom at the stamp of the scan.       *)

\* onScan() runs it while someone asks for a relocalization.
Relocalizing == bbs_matcher > 0 /\ (rel.requested \/ (~trk.filter_init /\ TryGlobal))

\* Without need_odom the odometry is not looked up and stays the default pose.
RelocOdom(odom) == IF NeedOdom THEN odom ELSE Origin

RelocState(v, w) ==
  CASE w.status = "pending" -> IF w.skipped > v.skipped THEN "waiting" ELSE "pending"
    [] w.status = "accepted" -> "accepted"
    [] w.status = "ambiguous" -> "ambiguous"
    [] OTHER -> "no candidate"

\* Mutant of StillRequested: any verdict answers the request.
RequestedUntilVerdict(r, w) == r.requested /\ w.status = "pending"

StillRequested(r, w) == r.requested /\ w.status # "accepted"

\* The members after the verifier has become w.
AfterVerifier(r, w, odom) ==
  [r EXCEPT !.ver = w,
            !.last_odom = RelocOdom(odom),
            !.active = w.status = "pending",
            !.requested = StillRequested(r, w),
            !.state = RelocState(IF r.active THEN r.ver ELSE w, w)]

\* relH, the history of the verification: the map->odom transform of every
\* hypothesis, and the scans that were evidence since the user's last command
\* (counted up to VerifyScans).
OneMore == IF relH.since < VerifyScans THEN relH.since + 1 ELSE VerifyScans

StartVerification(odom) ==
  /\ ~rel.active
  /\ \E modes \in ModeLists(odom) :
       LET w == Seed(modes)
       IN  /\ rel' = AfterVerifier(rel, w, odom)
           /\ relH' = [anchors |-> [k \in DOMAIN w.hyps |->
                                      compose(w.hyps[k].pose, inverse(odom))],
                       since |-> OneMore]

ContinueVerification(odom) ==
  /\ rel.active
  /\ \E scan \in Scans :
       LET w == Update(rel.ver, Between(rel.last_odom, RelocOdom(odom)), scan)
       IN  /\ w.skipped <= MaxSkipped
           /\ rel' = AfterVerifier(rel, w, odom)
           /\ relH' = [anchors |-> NextAnchors(rel.ver, w, relH.anchors, odom, scan),
                       since |-> IF w.scans > rel.ver.scans THEN OneMore ELSE relH.since]

-----------------------------------------------------------------------------
(* The callbacks.                                                          *)

Init ==
  /\ trk = InitialTracker
  /\ rel = [requested |-> FALSE, active |-> FALSE, last_odom |-> Origin,
            state |-> "idle", ver |-> ResetVerifier]
  /\ grid = 0
  /\ bbs_matcher = 0
  /\ out = {}
  /\ commands = 0
  /\ trkH = SeedHistory(FALSE, Origin)
  /\ relH = [anchors |-> [k \in 1..0 |-> Origin], since |-> 0]

\* Mutant of Abandoned: the verification goes on.
AbandonedNot(r) == r

\* The verification in progress is abandoned.
Abandoned(r) == [r EXCEPT !.active = FALSE]

\* makeBbsMatcher(): keeps the matcher it has.
BbsMatcherFrom(g) == IF bbs_matcher = 0 THEN g ELSE bbs_matcher

OnMap ==
  /\ Laser
  /\ grid < MaxMaps
  /\ grid' = grid + 1
  /\ bbs_matcher' = IF TryGlobal \/ rel.requested THEN BbsMatcherFrom(grid') ELSE bbs_matcher
  /\ out' = {}
  /\ UNCHANGED <<trk, rel, commands, trkH, relH>>

OnGlobalLocalization ==
  /\ Laser
  /\ commands < MaxCommands
  /\ commands' = commands + 1
  /\ rel' = [Abandoned(rel) EXCEPT !.requested = TRUE]
  /\ bbs_matcher' = BbsMatcherFrom(grid)
  /\ out' = {}
  /\ relH' = [relH EXCEPT !.since = 0]
  /\ UNCHANGED <<trk, grid, trkH>>

OnInitialPose ==
  /\ commands < MaxCommands
  /\ commands' = commands + 1
  /\ \E p \in UserPoses : trk' = ManualSeed(trk, p)
  /\ rel' = [Abandoned(rel) EXCEPT !.state = "idle"]
  /\ out' = {}
  /\ trkH' = SeedHistory(FALSE, Origin)
  /\ relH' = [relH EXCEPT !.since = 0]
  /\ UNCHANGED <<grid, bbs_matcher>>

\* A scan or cloud that goes no further than a dropped stamp, a missing map or
\* a missing sensor transform.
DropInput ==
  /\ out' = {}
  /\ UNCHANGED <<trk, rel, grid, bbs_matcher, commands, trkH, relH>>

\* onScan() looks the odometry transform up twice, in runRelocalization() and in
\* runUpdate(): it may arrive in between, and be gone when ROS time jumps back.
UseScan(odom, available, later) ==
  /\ Laser
  /\ MapReady
  /\ IF Relocalizing /\ (NeedOdom => available)
     THEN /\ StartVerification(odom) \/ ContinueVerification(odom)
          /\ IF rel'.ver.status = "accepted"
             THEN Track(RelocSeed(trk, rel'.ver.best),
                        SeedHistory(later, relH'.anchors[MostProbable(rel'.ver.hyps)]),
                        odom, later)
             ELSE Track(trk, trkH, odom, later)
     ELSE UNCHANGED <<rel, relH>> /\ Track(trk, trkH, odom, later)
  /\ UNCHANGED <<grid, bbs_matcher, commands>>

\* onPoints(): no relocalization; without a pose the cloud is dropped.
UseCloud(odom, available) ==
  /\ ~Laser
  /\ MapReady
  /\ trk.filter_init
  /\ Track(trk, trkH, odom, available)
  /\ UNCHANGED <<rel, grid, bbs_matcher, commands, relH>>

OnScan == DropInput \/ \E odom \in Odoms, available, later \in BOOLEAN :
                          UseScan(odom, available, later)
OnPoints == DropInput \/ \E odom \in Odoms, available \in BOOLEAN : UseCloud(odom, available)

Next == OnMap \/ OnGlobalLocalization \/ OnInitialPose \/ OnScan \/ OnPoints

Spec == Init /\ [][Next]_vars
-----------------------------------------------------------------------------
(* Properties.                                                             *)

TypeOK ==
  /\ trk \in Trackers
  /\ rel = [requested |-> rel.requested, active |-> rel.active,
            last_odom |-> rel.last_odom, state |-> rel.state, ver |-> rel.ver]
  /\ rel.requested \in BOOLEAN /\ rel.active \in BOOLEAN /\ rel.last_odom \in Pose
  /\ rel.state \in {"idle", "pending", "waiting", "accepted", "ambiguous", "no candidate"}
  /\ IsVerifier(rel.ver)
  /\ grid \in 0..MaxMaps /\ bbs_matcher \in 0..grid
  /\ commands \in 0..MaxCommands

\* Whatever is published places the robot where the map->odom transform the
\* filter stands for puts the odometry pose at the same stamp, and that
\* transform was computed after the last seed: no pose of before a seed leaves
\* the node after it (runUpdate(), publish(), the three seeding paths).  The pose
\* of an empty particle set is the origin; ParticlesNonempty excludes it.
PublishedPose ==
  \A p \in out : trkH.fresh /\ (trk.n > 0 => p.pose = compose(trkH.anchor, p.odom))

\* No odometry is lost or applied twice between two updates of the filter
\* (runUpdate(): last_odom_, have_last_odom_).
CloudChained ==
  trkH.anchored /\ trk.have_last_odom /\ trk.n > 0 =>
    trk.cloud = compose(trkH.anchor, trk.last_odom)

\* Nor between two scans of a verification, whatever scans, failed lookups and
\* commands come in between (runRelocalization(): reloc_last_odom_).
VerifierChained ==
  rel.active => Chained(rel.ver, relH.anchors, rel.last_odom)

\* A verification runs only while someone asks for it, has a test that is
\* still open, and takes its evidence from after the user's last command.
ActiveVerification ==
  rel.active => /\ rel.ver.status = "pending"
                /\ rel.ver.scans \in 1..(VerifyScans - 1)
                /\ relH.since >= rel.ver.scans
                /\ bbs_matcher > 0
                /\ rel.requested \/ (TryGlobal /\ ~trk.filter_init)

\* The filter stands for the transform of the most probable hypothesis, corrected
\* by an update.
CommittedAnchor ==
  \E corr \in TrackCorrections :
    trkH.anchor = Corrected(relH.anchors[MostProbable(rel.ver.hyps)], rel.last_odom, corr)

\* The particle set is replaced by a relocalization only when VerifyScans scans
\* since the user's last command support its pose.  That is the pose the filter
\* has after the scan, until an update has published one; what is published stands
\* for the transform of the accepted hypothesis, corrected by one update.  The
\* request is over with it, and only with it.
CommitJustified ==
  [][/\ (rel.state # "accepted" /\ rel'.state = "accepted") =>
          /\ rel'.ver.scans = VerifyScans /\ relH'.since = VerifyScans
          /\ trk'.filter_init /\ ~rel'.requested /\ ~rel'.active
          /\ IF out' = {} THEN trk'.cloud = rel'.ver.best
             ELSE NeedOdom => CommittedAnchor'
     /\ (rel.requested /\ ~rel'.requested) => rel'.state = "accepted"]_vars

\* An initialized filter has a particle; its updates then do not answer with
\* the origin (estimate() of an empty set).  It needs max_particles >= 2, which
\* validateFilterParams() does not ask for.
ParticlesNonempty == MaxParticles >= 2 /\ trk.filter_init => trk.n > 0

\* Once the update a seed forces is done, the window of the match status holds
\* the last updates judged since that seed and no older one, although a reseed
\* leaves values_ alone; and a pose counts as verified by n updates exactly when n
\* updates since the seed were judged (MatchMonitor, runUpdate()).
WindowIsRecent ==
  LET judged == trkH.judged
      recent == {i \in DOMAIN judged : i > Len(judged) - KWindow}
  IN  ~Laser /\ trk.filter_init /\ ~trk.force_update =>
        /\ trk.match.count = Cardinality(recent)
        /\ \A i \in recent :
             trk.match.values[(trk.match.next + i - Len(judged) - 1) % KWindow] = judged[i]
        /\ \A n \in 0..KMaxCounted : Verified(trk.match, n) <=> Len(judged) >= n

\* low() compares the mean of exactly those updates with the threshold.
LowIsMeanBelow ==
  LET judged == trkH.judged
      recent == {i \in DOMAIN judged : i > Len(judged) - KWindow}
  IN  ~Laser /\ trk.filter_init /\ ~trk.force_update =>
        \A threshold \in Fractions :
          Low(trk.match, threshold) <=>
            /\ recent # {}
            /\ MapThenSumSet(LAMBDA i : judged[i], recent) < threshold * Cardinality(recent)
=============================================================================
