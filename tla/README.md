# prism_loc in TLA+

TLA+ models of the localization stack prism_loc (ROS 2, C++), the TLC runs that
check them on small instances and the TLAPS proofs that hold for every value of
the constants. The reference is the source under `src/`; every definition that
models code is listed with its lines in `PROJECT.json` ("map").

## 1. The system

| Part | State it keeps | Operations | Talks to |
|---|---|---|---|
| **LocalizationNode** (`prism_loc/src/localization_node.cpp`), backends `laser2d` and `ndt3d` | the particle filter, `map_odom_`, `last_odom_`, `force_update_`; the relocalization (`relocalize_requested_`, `reloc_active_`, `reloc_last_odom_`, the verifier); the map, its laser model and the BBS matcher; counters, smoothed input period and clocks for `/diagnostics` | `onMap`, `onScan`, `onPoints`, `onInitialPose`, `onGlobalLocalization`, `onWatchdog`, `onDiagnostics` | TF (odometry and sensor transforms in, `map->odom` out), topics, a service |
| **RelocalizationVerifier** (`prism_loc_core/src/relocalization.cpp`) | hypotheses with pose, evidence and scans; pending odometry; status | `start` / `seed`, `update`, `reset` | driven by `runRelocalization`; asks the BBS matcher |
| **BranchAndBoundMatcher** (`prism_loc_core/src/bbs.cpp`) | the score pyramid and the occupied cells of one map | `match*`, `search` | called by the verifier and the node |
| **ParticleFilter** and models (`prism_loc_core`) | particles with weights | `initializeGaussian`, `predict`, `correct`, `resample`, `estimate` | called by the node |
| **MatchMonitor** (`prism_loc/ndt_status.hpp`) | the last five match fractions, updates since the reseed | `update`, `low`, `verified` | written by `runUpdate`, read by `/diagnostics` |
| **TfWaitRule / TfWait** (`prism_loc/tf_wait_rule.hpp`, `tf_wait.hpp`) | last ROS time seen and when it changed; the wait in progress | constructor, `stop` | two clocks and the TF buffer |
| **FusionLocalizationNode** (`prism_loc_fusion_ros`) | what the filter will start from (`init_position_`, `init_attitude_`), whether it runs, the mounts, the IMU's period and gaps, who publishes the parent of `base_link` and since when, the stretch without a heading, clocks of every input | `onImu`, `onPoints`, `onGnss`, `onInitialPose`, `onTfWatch`, timers | the Eskf, NDT registration, TF |
| **Mount** (`mount.hpp`) | the transform of a sensor, its age, the last error | `resolve`, `describe` | TF |
| **Eskf** (`prism_loc_fusion/src/eskf.cpp`) | nominal state, covariance, the shadow filter with its own heading, the unknown-heading episode | `initialize`, `predict`, `updatePosition`, `updatePositionLever`, `updatePose`, `replaceAttitude`, `markHeadingUnknown` | called by the fusion node |
| pure functions | none | pose algebra, geodesy, SO(3), likelihood field, NDT map, validation of parameters | |

The two nodes are separate processes that never run together on one robot. In
each, every callback takes `mutex_` and runs on a single-threaded executor; other
threads only fill the TF buffer. Concurrency therefore means: the order in
which messages, timers and service calls are handled, what arrives in the TF
buffer while a callback waits, and the clocks.

### Hard behaviours

* A relocalization spans many scans; between them odometry lookups fail, scans
  are dropped, the user sends a pose or another request, and the map changes.
* The odometry transform may be missing for one part of a callback and present
  for the next.
* After a seed the motion of before it must not be applied, and nothing of
  before it may be published.
* A wait for a transform holds the node's mutex while ROS time stands still,
  runs slowly, steps or jumps back.
* Filters, windows and counters are bounded and wrap or saturate.
* Inputs stop and come back, an odometry goes silent while tf2 keeps its last transform,
  the IMU loses samples or goes back in time; the callbacks return early at many places,
  and the status timer, which may itself be late, has to tell all of it from counters and
  clocks that other callbacks reset.

### What makes each part correct

* **Verifier**: each hypothesis stands, after every scan, where its own
  `map->odom` transform puts the robot; its evidence covers the same scans as
  everyone else's; the verdict falls with the scan it should, and commits the
  pose of that scan.
* **LocalizationNode**: the pose it publishes is the filter's transform applied
  to the odometry pose at the same stamp; no motion is lost or applied twice
  between updates or between scans of a verification; a verification uses no
  evidence from before the user's last command; a request ends with an accepted
  pose and in no other way.
* **Diagnostics of both nodes**: a silence, a lost odometry, an unobserved heading and a
  relocalization in progress are reported, in time and not before; after the startup an
  OK means that the node localizes with all it was given.
* **MatchMonitor**: the mean is the mean of the last updates since the reseed.
* **TfWait**: bounded by steady time, and ends early only for a reason.
* **Bbs**: finds what an exhaustive search finds.
* **FusionNode, Eskf, Mount**: a filter starts from the sensors' current
  information, marks an unknown heading as unknown, and uses no data from a
  sensor whose place it does not know.

## 2. The modules

| Module | Models | Kind |
|---|---|---|
| `Pose2D` | `types.cpp`: `compose`, `inverse`, and the increments computed from them | functions |
| `RelocVerifier` | `RelocalizationVerifier` as operators on a record | functions |
| `RelocVerification` | one verifier driven along an odometry path | specification |
| `RelocRule` | what a verification promises: a sequential test that only eliminates candidates | abstract specification |
| `MatchMonitor` | the match window as operators on a record | functions |
| `Bbs` | one search of the branch-and-bound matcher, beside every pose of its window | specification |
| `LocalizationNode` | the node with both backends; uses `RelocVerifier` and `MatchMonitor` | specification (composition) |
| `TfWait` | the wait for a transform under two clocks | specification |
| `Mount`, `MountResolving` | `Mount::resolve` on a record, and one mount while frames, transforms and time change | functions, specification |
| `HeadingShadow`, `HeadingTracking` | what each method of `Eskf` does to the heading, its variance, its shadow and the marks of an unknown start; one filter driven through its methods | functions, specification |
| `FixTimes`, `FixBuffering` | the fix period, the spans and the buffer of the kinematic alignment; the buffer beside all fixes | functions, specification |
| `FusionNode` | what the filter of the fusion node starts from, when, and what is fused before its attitude is known; uses `HeadingShadow` | specification (composition) |
| `LocalizationStatus` | what `LocalizationNode` says of itself: `noteInput`, the counters, `onDiagnostics`, `onWatchdog`, and every early return of the callbacks; uses `MatchMonitor` | specification (composition) |
| `FusionStatus` | what the fusion node broadcasts and says of itself: `publish` and the odometry fallback, `onTfWatch`, the time axis of `onImu`, `onDiagnostics`, `onWatchdog` | specification |
| `MCReloc`, `MCLaser2d`, `MCNdt3d`, `MCTransforms`, `MCBbs`, `MCStatus`, `MCFusionStatus` | values of the constants for TLC | instances |
| `RelocVerificationProofs`, `LocalizationNodeProofs`, `BbsProofs`, `InputProofs`, `HeadingTrackingProofs`, `FusionNodeProofs`, `LocalizationStatusProofs`, `FusionStatusProofs` | lemmas and theorems; `InputProofs` is about the three small specifications `TfWait`, `MountResolving` and `FixBuffering`, whose definitions carry a prefix for that (`WaitInit`, `MountNext`, `FixTypeOK`) | proofs |

**Poses** (`Pose2D`). A pose is a position on a line and a heading of +1 or -1.
This is the smallest group of motions that does not commute, so that a
transform applied on the wrong side, in the wrong frame or twice gives another
pose. Increments and corrections are elements of the group; `compose` and
`inverse` are the code's formulas with `cos` and `sin` of 0 and pi.

**Verifier** (`RelocVerifier`). A verifier is a record `status, hyps, pending,
scans, skipped, best`; a hypothesis has `pose, fraction_sum, scans, alive`. What
the scan matcher returns (the modes of a search, and score and pose of a
re-match) is an input: any list of modes the search can return with distinct
poses, any score of `Scores`, any correction of `Corrections`. The softmax
weight `exp(log_weight - max)`, with `evidence_gain` times the sum of the scores as
`log_weight`, is a power of two of the difference of the sums, which keeps the order and
the ties; `min_posterior` is the fraction `MassNum / MassDen`. The order of the code is
kept: return behind the motion gate, or clear the pending odometry, add it to every live
hypothesis, re-match and score each unless the scan has no endpoints for it, count the
scan if it had any, and decide. A scan without endpoints is decided on like any other; it
brings no evidence and does not count.

**Node** (`LocalizationNode`). A callback is an action, since it holds the mutex
from start to end. The particle set is its size and its mean; an update moves
the mean by the odometry increment and a correction; `resample` leaves the size
or takes one within the bounds. The transform at a stamp is an input of the
callback, one for `runRelocalization` and one for `runUpdate`: it may arrive between the
two, and be gone when ROS time jumps back. `trkH` and `relH` are history variables no action reads for its
state: the transform the filter stands for, and the evidence since the last
command.

**Window** (`MatchMonitor`). The ring buffer is a function on slots, with the
write index and the count, as in the code. `LocalizationNode` keeps beside it, as
history, the list of the fractions it judged since the reseed.

**Search** (`Bbs`). One search on any map, from the pyramid the constructor builds
to the modes that are kept. `open` is the stack of the calls of `branch()`, each
with the candidates it has left; where the code sorts by the bound the model goes on
with any candidate of the greatest bound, since the order of ties is the sort's.
The cells a scan hits at a heading are an input, so that rotation, subsampling and
rounding are left out; scores are sums of integers. What `matchExhaustive()` looks
at is the set `Candidates`. `Others` and `Joined` are the two halves of `accept()`: the
modes that are no neighbours of a leaf, and the stable sort and cut after it is added.

**Wait** (`TfWait`). `Begin` is the constructor, `GiveUp` and `Sleep` the two
answers of `stop`, `Resolve` the transform arriving, `Wake` the end of a sleep,
`Elapse` a unit of steady time with any admissible step of the ROS clock,
`Rewind` a bag that starts over.

**Mount** (`Mount`). A mount is the record of the class: frame, transform, where it
comes from, when it was looked up. A lookup gives a transform or nothing (a failed
one and one that is not finite look the same to the code). `MountResolving` lets
messages of any frame, with and without the leading slash, TF that publishes,
replaces and forgets, and the steady clock interleave; `held` and `given` are
history.

**Heading** (`HeadingShadow`). Of the filter's covariance only the heading
variance is kept, as a level; of an update, which fields it touches and in which
order, while how much it leaves of a variance is an input (never more than before).
The shadow is its validity, its variance `hh` and whether it is held; `pending`
marks a start whose heading is a guess. The class of the fix rate and whether the
motion gives the heading are inputs, since `FixTimes` and the numerics decide
them. `HeadingTracking` calls the methods as the fusion node does.

**Fix times** (`FixTimes`). Times are ticks of 0.2 s, a window or a gap may be a half
tick and is given in halves. `TimesAlign` is the part of `alignHeading()` that looks
at times only; what a fix measured, and whether the robot moved enough, is left
open: an alignment may or may not follow.

**Fusion node** (`FusionNode`). `seed` is `init_position_` and `init_attitude_`
with where each is from; `filter` is how roll and pitch stand in the covariance
and what was fused since the start; `h` is the heading record. `onImu`, `onGnss`,
`onPoints` and `onInitialPose` are one action each, with `tryInitialize` inside as
in the code; a sample that starts the filter also predicts with it. Of the
accelerometer only matters whether a valid sample has come. The antenna is at the
base or at an arm, chosen at the start, and its mount becomes known at a time of
its own.

**Status of LocalizationNode** (`LocalizationStatus`). A status is the set of its errors
and warnings; its level follows from them as in the code. An input (`Input`) runs
through `noteInput()` and the early returns of `onScan()` and `onPoints()` in their
order: a zero stamp, no map, no seed (ndt3d), no sensor transform, then the
relocalization and the update, each with a lookup of its own. Of the filter only the
members are kept that a status reads; the match window is the record of `MatchMonitor`.
The smoothed input period is kept in `Parts` parts of a second and rounded down. A node
has one of two setups, laser2d with relocalization or ndt3d on a replayed bag whose clock
may stand still. History is the longest interval, whether an input that could have been
used brought no pose since the last status, and whether a verifier saw a scan since the
last command.

**Status of the fusion node** (`FusionStatus`). Wall time is in half seconds; the stamps
of the IMU have tenths of a second of their own and may go back. `tf.parent` is the parent
of `base_link` in the buffer of the node, which the transform listener fills from a thread
of its own, with the node's own fallback too: hence the choice in `OnTfWatch` while the
stamps of the fallback are ahead, and `BufferCleared` when ROS time jumps back. The sensors
are one action each, with their mounts found, missing, or lost again; of the filter only
whether it has an attitude and a position and runs. `heading` holds the clocks behind the
warning that nothing observes the heading. `hist` is kept beside what the code
counts: `broken` is the true length of the stretch of bounded updates, beside three clocks;
`unfed` and `free` are the times without a sample that was used and without a correction by
the lidar; `skipped` and `silent` count every IMU interval too long to predict over, the ones
of the warm-up too, that no status has spoken of.

## 3. The runs

| Run | Question | Bounds |
|---|---|---|
| `reloc` | With hypotheses that drift, vanish and tie, scans the motion gate skips and scans without endpoints: is every hypothesis tracked, is evidence complete, does it need motion, is what is accepted current and dominant, and does the verifier implement `RelocRule`? | 2 hypotheses, 3 scans, 4 odometry poses with a turn, a gate of 2 cells or a turn, 1 skipped scan, scores 0, 1, 3 |
| `reloc_gate` | Is a scan counted only after motion since the last counted one, as documented? **No** (finding) | as `reloc` |
| `laser2d` | The node with relocalization: the published pose, motion applied once, what a verification may rest on, when a request ends | 1 map, 2 hypotheses, 2 scans, 2 odometry poses, 2 user commands |
| `ndt3d` | The node without relocalization: a particle set that is never empty, the match window after a reseed and when it wraps | 2 poses of the user, up to 3 particles, window 3, counter up to 5 |
| `transforms` | How long a wait holds the node, when the clock counts as frozen, and does a step get its grace? Does a message get the mount of its own frame, renewed in time? | 11 units of steady time, clock steps 0, 1, 2, polls up to a unit late; 2 sensor frames, one also with a slash, 2 transforms, 4 units of time, refresh of 2 |
| `heading` | Does a guessed heading stay a guess, and the update blind, until something gives it, what does the covariance publish, and does an aligned robot end the guess? | 5 levels of variance, 3 fixes until the rate is known, 2 starts |
| `fixes` | Does trimming the buffer change an alignment, and can one reach over an outage? | intervals 0.4, 1 and 9.2 s, 2 changes of it, 34 fixes; median of 7 instead of 15, at least 9 and at most 32 fixes kept instead of 256 and 8192, and otherwise the code's numbers |
| `fusion` | Does the filter start, from the newest pose, is it never tilted by a fix before roll and pitch are known, is an attitude replaced only on a filter that fused nothing, and is a guessed heading marked? | 2 messages on `/initialpose`, both places of the antenna |
| `fusion_seat` | Is the position the filter starts with seated with the attitude it starts with? **No** (finding) | as `fusion` |
| `bbs` | Does the search lose the best pose, which of the best does it return, and what are the modes it keeps? | all 64 maps of 3 by 2 cells with scores 0 and 1, 3 sets of occupied cells, 2 scans of two beams and two headings, pyramid of 2 levels over the cells; a search of the best with several roots, one with ties to the centre, one of two modes |
| `status` | Is a silence always reported, does an OK mean that the node localizes, is a relocalization shown from its first scan on? | 2 setups, silences up to 5 s, startup of 2 s, time-out of 1 s or 2 periods, window of 1, counter up to 2, period in tenths |
| `output` | Is the heading warning neither early nor late, is a stopped odometry known before it is used as a good one, what does an OK mean for the IMU and the lidar? | 5 robots, timer up to half a second late, startup 0.5 s, time-outs of 0.5 to 1 s, heading warning after 2 s, pauses of 1 s, IMU intervals of 0.1 s, and for one robot of -0.1, 0.5 and 0.6 s |

**Why the bounds are enough.** Two hypotheses are enough for ties, for a leader
that changes and for elimination of one or both; three scans put a middle scan
between the first and the deciding one, so that a mistake can happen before and
after it, and a skipped scan between two of them is what the gate holds back. The
odometry poses of `reloc` contain a turn in place and a step, which do not commute; in
`laser2d` the step ends in the turn. Two commands
are every ordered pair of commands around a verification. In `ndt3d` the window of 3
wraps and the counter of 5 saturates while the robot walks. `transforms` is one run
of two models that share no state, `TfWait` and `MountResolving`: a behaviour is one of
either. The horizon of the wait is
twice the cap, so that a second wait starts with what the first left in the rule.
That of the mount is twice the refresh period, so that a mount is looked up, kept
and looked up again. The levels of `heading` are the thresholds the code compares with
(cap, seed, alignment, start) and one above; two starts are a start over the marks of
another. In `fixes` the three intervals are of a fast rate, of one between and of one
over `lever_align_period_max`; two changes are a fall and a rise, which is an outage
when one interval lies between, and 9.2 s is longer than any history that is looked at;
the buffer holds 32, so that it is trimmed by age and by count. Two poses in `fusion`
put a message before and after a start. In `bbs` a block of the coarsest level is larger than
the map, so that its corner lies off the map on either side while cells of it do not, one
scan has ends more than a block away, and a score of 0 or 1 for every cell makes ties at
every level.
In `status` and `output` the time-outs are scaled down, since only their order and the sums
of two of them matter: the startup is passed, every time-out can be passed with the others
running or not, and in `output` a pause of the fixes is shorter than the heading warning and
the two together fit in what `hist.broken` counts. A silence may last 5 s, more than
twice an interval of 2 s that is an outage itself, so that a period smoothed over an outage
is followed by the next one. Clocks stop one step beyond the last value any comparison tells apart.
The five robots are: an antenna at an arm with the lidar; the same with poses of the user;
an odometry with fallback, poses and a clock that jumps back; late mounts under simulated
time; an IMU that goes back in time and whose intervals are the longest that is still predicted
over and one beyond, from its first sample on.
A bound on coordinates (`Area`) and on counters (`MaxMaps`, `MaxCommands`,
`MaxSkipped`, `Horizon`, `MountHorizon`, `MaxStarts`, `MaxChanges`, `MaxFixes`, `MaxPoses`, `MaxSilence`) only ends
behaviours.

**Stopping.** Three models end by themselves and are not checked for deadlock: the wait of
`transforms` at its horizon, `fixes` after its last fix, and `bbs` when the search has returned.

**Fairness.** Safety runs assume none. `heading` assumes weak fairness of a
fix at a supported rate with motion: the robot drives and the receiver works, which is
what the alignment asks for. `fusion` assumes weak fairness of an IMU sample
the node can use; the executor serves all ready callbacks in turn, so a sample that
keeps arriving is handled. Nothing is assumed of the user. A verification has no time-out:
a robot that stands still stays pending, which the documentation accepts, so no run says
that it ends; `RelocalizationShown` says that the status shows it meanwhile, from the first
scan that its verifier saw on. That the status
timer fires is no fairness but a bound: `Tick` waits for it, as it waits for a callback
that holds the mutex, which `WaitBounded` bounds.

**Findings.** Two runs show where the code and what is said of it part
(`PROJECT.json`, "findings", with quotes).

* `fusion_seat`: with the antenna at an arm, the position of a fix that came before the first
  IMU sample is seated with a level attitude while the filter starts with another. An antenna
  at `base_frame` has no arm to take out, and its position depends on no attitude.
* `reloc_gate`: the motion gate is documented as the motion since the last counted scan, but
  `update()` starts it anew at every scan that passes it, and one without endpoints passes and
  is not counted. Out past the gate with such a scan, and back, and the robot is counted
  twice at one place. `EvidenceNeedsMotion` in `reloc` is what does hold: the
  documented gate, as long as no scan without endpoints has passed since.

**Other divergences read in the code**, without a run of their own:

* a pose that the user sets while a relocalization is requested is replaced by it:
  `onInitialPose()` abandons the verification but not the request, and the next scan starts
  another;
* a new map replaces the map and the laser model but not the matcher of the first one;
* after a reseed `/diagnostics` shows the match window of the old pose until the
  first update of the new one: right after `/initialpose` the new pose counts as verified
  when the old one did;
* an odometry that has stopped never makes `publish()` fall back, because tf2 keeps its last
  transform; `PARAMS.md` and the README of the repository say that the fallback is used
  while `odom->base_link` is unavailable. `StaleOdomKnown` is what does hold: the status
  before was no OK;
* an IMU whose stamps do not advance brings no prediction and no warning: its samples are
  neither gaps nor silence;
* an IMU that becomes more than three times slower after its first 20 samples is counted as
  gaps from then on, because gaps do not enter its period;
* `/initialpose` and the constructor seed a number of particles of their own,
  whatever `min_particles` and `max_particles` are;
* a start marked as unknown is not taken back when the fix rate falls after the
  sixth fix, and an unsupported rate does not last until the next start
  (`eskf.hpp:80-81`);
* a relocalization of a single scan (`verify_scans` of 1) needs no odometry and looks none
  up, so that its pose is tied to the odometry at the next update only;
* an empty particle set would publish the origin of the map: nothing but the lower bound
  of two on `max_particles` keeps the set from becoming empty;
* an outage longer than what is kept may leave the first fix of the buffer as the one an
  alignment would begin with, and `span_begin(i0) == 0` refuses that: the alignment comes
  later than with all fixes, although no dropped fix is read (`TrimIsInvisible` says
  exactly this);
* the variance of roll and pitch can be of another accelerometer reading than roll and
  pitch themselves.

## 4. The proofs

Assumptions: the constants have the ranges their validation gives (`ASSUME` in
the module that declares them, evaluated by TLC in each run that extends it). One
assumption is about the environment: `LongBag` in `TfWait`, that a recording is longer
than what the ROS clock covers in the steady time of a behaviour, so that a clock that
starts over does not come back to a value it had before. Only `FrozenIsReal` needs it:
two equal readings with a whole recording between them look like a clock that stands
still. One is about numbers: `TrimParams` in `FixBuffering`, that the check
of the fix period against `lever_align_period_max` is on, that twice what is kept at
period 0 and the period of the moment is more than an alignment looks back, and that
`KMaxFixes` intervals take longer than what is kept. The defaults of `EskfParams` and the
constants of `trimFixes()` meet it, the last for receivers of up to 650 Hz (the code names
400 Hz). Only `AlwaysTrimInvisible` needs it. Nothing else is assumed.

Two limits of the prover shape the arguments. The library's induction theorems cannot be
instantiated, so that what holds for all prefixes of a list is proved by a least
counterexample: the set of bad lengths has a least member (`LeastNatural`, from the
well-foundedness of `<` on the naturals), which is not 0 and not one more than a good one.
That a function defined by recursion exists is proved the same way (`RecursionExists`), and a
definition by recursion is then used by the equation it satisfies. Powers have no axioms: 2^n
is the number of subsets of 1..n, from which `PowerDoubles` follows.

* `RelocVerificationProofs`, lemmas. Poses: `compose` is associative, `Origin` is neutral,
  `inverse` inverts on both sides, and the increment `Between` moves one pose to the other.
  The verifier, one call at a time: a live list has a most probable member (`BestExists`,
  `MostProbableIsBest`); `NormalizeAndDecide` changes nothing but status and best, and decides
  exactly at `VerifyScans` (`NormalizeKeeps`, `NormalizeDecides`, `NormalizeOutcome`); a
  search establishes the invariant (`SeedEstablishes`); the increment keeps every hypothesis
  on its transform (`RematchMoves`, `PredictedOnAnchor`); an update keeps it (`UpdateKeeps`).
* `RelocVerificationProofs`, theorems. `TypeOK`, `Tracked`, `EvidenceComplete`
  and `AcceptedIsCurrent` are not inductive one by one: that an accepted pose is
  current needs the tracking of all hypotheses, and tracking needs the types. The
  invariant `IInv` is their conjunction with `PendingSinceCounted`, that the motion kept for
  the next scan is the one since the last counted scan, unless a scan without endpoints passed
  the gate. Initially the list is empty; `Start` gives it
  by `SeedEstablishes`; `Step` keeps it by `UpdateKeeps`, with one case for a scan
  the gate skips, one for a scan without endpoints, one for a counted scan.
  `EvidenceAlwaysNeedsMotion` is the action property from the same invariant, its last conjunct
  above all.
  `VerifierImplementsRule` maps the states to those of `RelocRule`: a first scan is
  `Begin`, a counted scan is `Observe`, and a skipped or an empty one is a stutter.
  `AlwaysAcceptedIsDominant` adds `Massed`: what was accepted passed the test of the posterior,
  a comparison of a power with a sum of powers, when it was decided. That the sum over all
  hypotheses is the sum over the live ones, which is what the property compares, is a fact
  about sums over finite sets, proved with their lemmas.
* `LocalizationNodeProofs`: `IInv` is `TrackerInv`, `Published`, `VerifierTyped` and
  `Verifying`. `TrackerInv` says of the filter that it has a particle (`Populated`), that its mean
  and the published transform are what the transform kept as history makes of the last
  odometry (`OnAnchor`), that this history is valid exactly while there is a last odometry, and
  an initialized filter without one has its next update forced (`Referenced`), and that the
  window holds the last fractions (`Windowed`). `Verifying` repeats for the verifier
  inside the node what `RelocVerificationProofs` shows of one alone, and ties it to the
  evidence kept as history; the lemmas about its operators come from an instance of that
  module (`Ver`), so that they are proved once. One lemma per callback gives the nine theorems.
  `WindowIsRecent` needs the arithmetic of the write index modulo the size, and
  `LowIsMeanBelow` that a sum does not depend on where the ring has wrapped: the slots in
  use are the listed fractions under a renaming (`SlotsFilled`, `SumRenamed`).
* `BbsProofs`: a level of the pyramid bounds every cell of its blocks (`HalfBlock`,
  `PyramidBounding`), also where a block reaches over the edge of the map (`CellAdmissible`), so
  no pose scores more than a candidate it is below (`ScoreAdmissible`, `CandAdmissible`). Roots
  and children cover the window (`RootsCover`, `ChildrenCover`), and a call that goes on
  has a best candidate because there are finitely many (`CandsFinite`, `BestExists`).
  The invariant says that every feasible pose of the window is below an open candidate or beaten
  by the first mode: with a lower score, or with the same and, where ties go to the centre,
  not nearer to it. `BestFound` alone is not inductive, since it does not say what a pruned tie
  lost to. `HopelessBeats` is the prune, `AcceptedEarned` is `accept()`: what it keeps is ranked
  and apart (`OthersThinned`, `JoinedRanked`), which needs that being neighbours is symmetric,
  over the full turn too (`YawSymmetric`), and nothing beaten before is unbeaten by it. Nothing is
  assumed of the order of candidates with equal bounds.
* `InputProofs`, the wait: `WaitBounded` is not inductive, because it says nothing of a callback
  that sleeps; `DueInTime` adds that the time it is due is below the cap and one poll.
  `FrozenIsReal` rests on `LookedAfterChange` (the value the rule saw last is not ahead
  of the clock, and has not changed since it was first seen unless the clock started
  over) and on `ClockWithin`, the reach of a clock with bounded steps, which is where
  `LongBag` comes in and the only non-linear arithmetic. `StepGetsGrace` follows from
  `GraceFollowsStep`: a step over the budget and the start of the grace are one event.
* `InputProofs`, the mount: `MountInv` adds to the types that what TF gives now it has given
  (`Given`), that no time is ahead of the clock (`Past`), that a found mount was looked up
  (`Founded`) and that it is of its frame (`Owned`). `AlwaysRefreshed` follows: a mount younger
  than the refresh period was looked up after the transform had settled.
* `InputProofs`, the fixes: `NoGapInAlignment` needs the order of the stamps in the trimmed
  buffer (`Ordered`, kept by `TrimKeepsOrder` and `AppendKeepsOrder`). The fix period is one
  of the intervals (`PeriodIsInterval`); when the window fits, every interval of the stretch is
  either in the history that `GapFree` checks or in the older span (`AlignWithin`).
* `InputProofs`, the trim: `TrimIsInvisible` is not inductive, because a fix is dropped at one
  fix period and would be read at another. `TrimInv` says that the buffer is the end of the
  list of all fixes (`IsTail`), at least `KMinFixes` of it once one was dropped, and that the
  last dropped fix is older than `Spare`: what is kept at period 0, and the present period or
  `PeriodMax`. A new fix keeps it, because the period rises at most to the interval that the fix
  brings, by which everything dropped has aged (`PeriodRises`), and what `trimFixes()` drops is
  older than that, by age (`TrimDrops`, `KeepGrows`) or, at the cap, because so many intervals
  take that long (`ManyTakeLong`). From it, the period is the same in
  both lists (`TailPeriod`), a dropped fix is out of the reach of an alignment (`AlignReach`),
  and so are the spans, the window and the gaps (`TailSpan`, `TailWindow`, `TailGaps`), hence the
  alignment (`TailAligns`).
* `HeadingTrackingProofs`: each method keeps `Sound`, the types and a shadow that is
  never below the covariance. `SearchedSound` is what the first half of
  `updatePositionLever()` leaves, `BoundedSound` what the bound does, `LeverFixedSound`
  the whole method: unless it finds the heading or takes a start back, an unknown
  heading stays unknown and blind, and the published variance does not fall. The
  invariant joins `GuessIsHeld`, `GuessIsBlind` and `OnlyMarkedIsValid`, which is what
  `replaceAttitude()` needs: before the first measurement only a marked start has a
  shadow that could be thrown away.
* `FusionNodeProofs`: `PoseStays` says that samples and fixes do not replace what a pose
  of the user seeds; with it a start finds the last pose (`StartedFromLatestPose`).
  `WideIsPending` ties the wide tilt to the wait for the accelerometer, which
  `NeverTilted` needs, and `PendingIsFresh` says that only the lidar measures while it
  lasts, which `ReplacesFreshOnly` needs. `Marking` is the step that `GuessIsMarked` needs: a
  start whose heading nothing gave marks it, and the lemmas of the heading say that only a
  source takes the mark away.
* `LocalizationStatusProofs`: `SilenceReported` rests on `PeriodBounded`, that the smoothed
  period is never above the longest interval: each smoothing is between its two values
  (`SmoothedBetween`), rounding down keeps it there, and the comparison in parts of a second
  is the one in seconds (`Scaled`, `ScaledLess`). `RelocalizationShown` is inductive with the
  types: every path of `Handle` that leaves the relocalization wanted leaves its state open. `OkIsAlwaysEarned` adds `Accounted`:
  of an input without a pose since the last status either a counter or a flag tells, whichever
  return was taken, and the silence is bounded by the period as above.
* `FusionStatusProofs`: `OdomInv` says that at an OK status the odometry was no older than
  `OdomLost` and that both clocks have run alike since, so that the age at which
  `StaleOdomKnown` applies is out of reach of an OK. `HeadingInv` ties the true length of the
  stretch to the clocks that the warning reads: it is no longer than the time since the last
  heading, no shorter than the shorter of the two clocks, and longer than a running stretch
  by one pause of the fixes at most. `HeadingWarned` alone is not inductive, since the stretch
  may have begun before the bounded updates whose clock decides; each clock stops at the
  threshold, hence the second halves of the conjuncts. `StartHeadingInv`, `FuseHeadingInv`
  and `TickHeadingInv` are the steps that touch more than one clock. `OkIsAlwaysEarned` needs
  `ImuInv`, that the period of the IMU never exceeds the longest interval, and that a gap
  waits for the next status or every interval left out so far was one of the warm-up, which
  `imu_count_` has counted (`OnImuKeepsImuInv`, `ToldKeepsImuInv`); and `ClockInv`, that while
  the mount is known no used sample is older than the last one, and no correction
  older than the status takes it for, with the time since the start in its place before the first.

**Only model-checked**: `Starts` and `UnknownEnds`, which hold under fairness, since tlapm
does not reason about `ENABLED`.

## 5. Not modelled

Floating-point numerics, message conversion, parameter declaration and
validation (their ranges are assumptions of the modules), logging, launch files,
the experiments and scripts, and the paper. Of the particle filter the weights are left out:
they decide nothing the node's control depends on but the size of the set, which is an
input within the bounds of `resample()`; `resampleLowVariance()` is called by no node. The
ROS stamps of what is published have no model: the code states no order of them. The parts with status `partly` and
`not_modelled` in `PROJECT.json` say what is left of each component.

## 6. Plan

Order of what is left, the most important first.

1. **The exhaustive search** of the matcher as a specification of its own, and that its
   result and that of the branch and bound have the same score, from `BestFound`.
2. **The open hazards**: the stamps of what the fusion node publishes, the variance of the
   first attitude, the fallback that is taken for a second parent.
3. **The window of a global search**: `globalHalfWindowX/Y` and `coversMap`, as functions of
   the map's size, and the `valid` flag.
4. **Weights**: the set that `resample()` leaves, as a draw from the cumulative weights.

A new check replaces the weakest of the runs above or joins the run of its module, so that
the whole suite stays short enough to be run on every change.
