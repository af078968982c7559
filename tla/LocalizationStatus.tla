-------------------------- MODULE LocalizationStatus --------------------------
(***************************************************************************)
(* What LocalizationNode says of itself: noteInput(), the counters of      *)
(* failures, onDiagnostics() and onWatchdog() (localization_node.cpp), and *)
(* of every other callback what these read.  LocalizationNode models the   *)
(* filter behind it.                                                       *)
(*                                                                         *)
(* Time is the steady clock in steps of the diagnostics timer.  A status   *)
(* is the set of its errors and warnings.                                  *)
(***************************************************************************)
EXTENDS MatchMonitor

CONSTANTS
  Setups,         \* what the launch file sets: records in Setup
  StartupTimeout, \* startup_timeout_s
  InputTimeout,   \* input_timeout_s
  InputPeriods,   \* input_timeout_periods
  Parts,          \* a period is kept in Parts parts of a second, rounded down
  MinMatch,       \* min_match_fraction, 0: no check
  VerifyUpdates,  \* match_verify_updates
  Fractions,      \* match fractions of an update
  MaxSilence      \* bound on the time between two inputs

Setup == [backend : {"laser2d", "ndt3d"}, try_global : BOOLEAN, initial_pose : BOOLEAN,
          need_odom : BOOLEAN, neff_check : BOOLEAN, sim_time : BOOLEAN]

ASSUME StatusParams ==
  /\ Setups \subseteq Setup
  /\ StartupTimeout \in Nat /\ InputTimeout \in Nat /\ InputPeriods \in Nat
  /\ Parts \in Nat \ {0} /\ MinMatch \in Nat /\ VerifyUpdates \in Nat
  /\ Fractions \subseteq Nat /\ MaxSilence \in Nat

VARIABLES
  setup,    \* the setup of this run
  up,       \* time since start_wall_, counted up to StartupTimeout + 1
  due,      \* the diagnostics timer has come due
  watchdog, \* watchdog_timer_ runs
  inp,      \* any_input_, input_count_ (up to 2), input_period_s_, time since last_input_wall_
  failed,   \* which of the counters per status are not zero
  node,     \* the members of the filter that a status reads
  stuck,    \* ros_clock_stuck_ticks_, counted up to 2
  hist      \* history, for the properties only

vars == <<setup, up, due, watchdog, inp, failed, node, stuck, hist>>

Laser == setup.backend = "laser2d"

\* Of reloc_state_ only matters whether it is "idle", "accepted" or one of the others,
\* "open".  low: the last judged update left too few effective particles.
Nodes == [map_ready : BOOLEAN, filter_init : BOOLEAN, force_update : BOOLEAN,
          have_map_odom : BOOLEAN, requested : BOOLEAN,
          reloc_state : {"idle", "open", "accepted"}, low : BOOLEAN, match : Monitors]

Counters == {"odom TF", "sensor TF", "zero stamp"}

Init ==
  /\ setup \in Setups
  /\ up = 0 /\ due = FALSE /\ watchdog = TRUE
  /\ inp = [any |-> FALSE, count |-> 0, period |-> 0, age |-> 0]
  /\ failed = {}
  /\ node = [map_ready |-> ~Laser, filter_init |-> setup.initial_pose,
             force_update |-> setup.initial_pose, have_map_odom |-> FALSE,
             requested |-> FALSE, reloc_state |-> "idle", low |-> FALSE,
             match |-> NewMonitor]
  /\ stuck = 0
  /\ hist = [longest |-> 0, unanswered |-> FALSE, verified |-> FALSE]
-----------------------------------------------------------------------------
(* onDiagnostics()                                                         *)

Older(x, y) == IF x > y THEN x ELSE y

Silent ==
  inp.any /\ inp.age * Parts > Older(InputTimeout * Parts, InputPeriods * inp.period)

Started == up > StartupTimeout

\* A line of the status, if it applies.
When(applies, line) == IF applies THEN {line} ELSE {}

Errors ==
  When(Laser /\ ~node.map_ready /\ Started, "no map")
    \cup When(~inp.any /\ Started, "no input")
    \cup When(Silent, "stopped")
    \cup When(~node.filter_init /\ Started, "no pose seed")

\* onScan() runs a relocalization while it is wanted and there is a matcher; there is one
\* as soon as there is a map, because onMap() and the request build it.
Wanted == node.requested \/ (~node.filter_init /\ setup.try_global)

\* Mutant of RelocalizationOpen: only what was requested.
RelocalizationRequested == node.requested /\ node.reloc_state = "open"

RelocalizationOpen == Wanted /\ node.reloc_state = "open"

LowMatch == ~Laser /\ Low(node.match, MinMatch)

Unverified ==
  /\ ~Laser /\ node.filter_init /\ MinMatch > 0
  /\ ~LowMatch /\ ~Verified(node.match, VerifyUpdates)

\* ros_clock_stuck_ticks_ after the ROS clock is compared with its value at the last status.
StuckTicks(advanced) ==
  IF setup.sim_time /\ ~advanced THEN (IF stuck < 2 THEN stuck + 1 ELSE 2) ELSE 0

Warnings(advanced) ==
  failed
    \cup When(RelocalizationOpen, "relocalization")
    \cup When(node.low, "low n_eff")
    \cup When(LowMatch, "low match")
    \cup When(Unverified, "not verified")
    \cup When(StuckTicks(advanced) >= 2, "ROS clock")

\* The level of the status that goes out now.
Level(advanced) ==
  IF Errors # {} THEN "ERROR" ELSE IF Warnings(advanced) # {} THEN "WARN" ELSE "OK"

OnDiagnostics(advanced) ==
  /\ due
  /\ due' = FALSE
  /\ stuck' = StuckTicks(advanced)
  /\ failed' = {}
  /\ hist' = [hist EXCEPT !.unanswered = FALSE]
  /\ UNCHANGED <<setup, up, watchdog, inp, node>>

\* onWatchdog(): warns until every input has been seen, then ends.
AllSeen == inp.any /\ (Laser => node.map_ready)

OnWatchdog ==
  /\ watchdog
  /\ watchdog' = ~AllSeen
  /\ UNCHANGED <<setup, up, due, inp, failed, node, stuck, hist>>
-----------------------------------------------------------------------------
(* noteInput(), the first call of onScan() and onPoints()                  *)

\* Mutant of Smoothed: the weights are those of a factor of ten each.
SmoothedHeavily(period, dt) == (9 * period + 10 * dt) \div 10

Smoothed(period, dt) == (9 * period + dt) \div 10

Noted ==
  [any |-> TRUE,
   count |-> IF inp.count < 2 THEN inp.count + 1 ELSE 2,
   period |-> IF ~inp.any THEN inp.period
              ELSE IF inp.count < 2 THEN inp.age * Parts
              ELSE Smoothed(inp.period, inp.age * Parts),
   age |-> 0]
-----------------------------------------------------------------------------
(* onScan() and onPoints()                                                 *)

\* A seed: the next update is forced.
Seeded(n) == [n EXCEPT !.filter_init = TRUE, !.force_update = TRUE]

\* The filter after an update that is judged.
Judged(n, low, fraction) ==
  [n EXCEPT !.have_map_odom = TRUE, !.low = low,
            !.match = IF Laser THEN @ ELSE Judge(@, FALSE, fraction)]

\* The filter after runUpdate() with a transform; moved tells that the robot has moved
\* by the threshold.  A forced update is not judged.
Updated(n, moved) ==
  IF n.force_update
  THEN {[n EXCEPT !.force_update = FALSE, !.have_map_odom = TRUE, !.low = FALSE,
                  !.match = IF Laser THEN @ ELSE Judge(@, TRUE, 0)]}
  ELSE IF ~moved THEN {n}
  ELSE {Judged(n, low, fraction) :
          low \in {b \in BOOLEAN : b => setup.neff_check}, fraction \in Fractions}

\* Mutant of LookedUp: a failure is not counted.
LookedUpSilently(found) == {}

\* lookupOdom(): what it counts.
LookedUp(found) == When(~found, "odom TF")

\* The rest of onScan() and onPoints() once the filter is n and the counters are f:
\* without a pose seed the input goes no further.
Track(n, f, found, moved) ==
  IF n.filter_init
  THEN /\ node' \in (IF found THEN Updated(n, moved) ELSE {n})
       /\ failed' = f \cup LookedUp(found)
  ELSE node' = n /\ failed' = f

\* runRelocalization() with a transform, or without need of one: the verifier's answer.
Verify(found, moved) ==
  \E state \in {"open", "accepted"} :
    LET n == [node EXCEPT !.reloc_state = state,
                          !.requested = @ /\ state # "accepted"]
    IN  Track(IF state = "accepted" THEN Seeded(n) ELSE n, failed, found, moved)

Dropped(counters) == node' = node /\ failed' = failed \cup counters

\* An input with a stamp, a map and a sensor transform.  early: the odometry transform
\* is there for runRelocalization(); found: it is there in runUpdate().
Use(early, found, moved) ==
  IF Laser /\ Wanted
  THEN IF setup.need_odom /\ ~early
       THEN Track(node, failed \cup LookedUp(early), found, moved)
       ELSE Verify(found, moved)
  ELSE Track(node, failed, found, moved)

\* What becomes of an input: it is dropped at one of the early returns or used.
Handle(stamped, placed, early, found, moved) ==
  IF ~stamped THEN Dropped({"zero stamp"})
  ELSE IF ~node.map_ready THEN Dropped({})
  ELSE IF ~Laser /\ ~node.filter_init THEN Dropped({})
  ELSE IF ~placed THEN Dropped({"sensor TF"})
  ELSE Use(early, found, moved)

\* An input that the filter could have used brings no pose.
Answered(stamped, placed, found) ==
  stamped /\ placed /\ found /\ node'.filter_init /\ node'.have_map_odom

Input(stamped, placed, early, found, moved) ==
  /\ early => found
  /\ inp' = Noted
  /\ Handle(stamped, placed, early, found, moved)
  /\ hist' = [longest |-> IF inp.any THEN Older(hist.longest, inp.age) ELSE 0,
              unanswered |-> \/ hist.unanswered
                             \/ /\ node.map_ready /\ node.filter_init
                                /\ ~Answered(stamped, placed, found),
              verified |-> \/ hist.verified
                           \/ /\ Laser /\ Wanted /\ stamped /\ node.map_ready /\ placed
                              /\ (setup.need_odom => early)]
  /\ UNCHANGED <<setup, up, due, watchdog, stuck>>
-----------------------------------------------------------------------------
(* The other callbacks and time.                                           *)

OnMap ==
  /\ Laser
  /\ node' = [node EXCEPT !.map_ready = TRUE]
  /\ UNCHANGED <<setup, up, due, watchdog, inp, failed, stuck, hist>>

OnInitialPose ==
  /\ node' = [Seeded(node) EXCEPT !.reloc_state = "idle"]
  /\ hist' = [hist EXCEPT !.verified = FALSE]
  /\ UNCHANGED <<setup, up, due, watchdog, inp, failed, stuck>>

OnGlobalLocalization ==
  /\ Laser
  /\ node' = [node EXCEPT !.requested = TRUE]
  /\ hist' = [hist EXCEPT !.verified = FALSE]
  /\ UNCHANGED <<setup, up, due, watchdog, inp, failed, stuck>>

\* The timer is at most one period late: the longest callback, a wait for a transform,
\* ends within a second (module TfWait).
Tick ==
  /\ ~due
  /\ inp.any => inp.age < MaxSilence
  /\ due' = TRUE
  /\ up' = IF Started THEN up ELSE up + 1
  /\ inp' = [inp EXCEPT !.age = IF inp.any THEN @ + 1 ELSE @]
  /\ UNCHANGED <<setup, watchdog, failed, node, stuck, hist>>

Next ==
  \/ \E advanced \in BOOLEAN : OnDiagnostics(advanced)
  \/ OnWatchdog
  \/ \E stamped, placed, early, found, moved \in BOOLEAN :
        Input(stamped, placed, early, found, moved)
  \/ OnMap
  \/ OnInitialPose
  \/ OnGlobalLocalization
  \/ Tick

Spec == Init /\ [][Next]_vars
-----------------------------------------------------------------------------
(* Properties.                                                             *)

TypeOK ==
  /\ setup \in Setup
  /\ up \in Nat /\ due \in BOOLEAN /\ watchdog \in BOOLEAN
  /\ inp \in [any : BOOLEAN, count : 0..2, period : Nat, age : Nat]
  /\ failed \subseteq Counters
  /\ node \in Nodes
  /\ stuck \in 0..2
  /\ hist \in [longest : Nat, unanswered : BOOLEAN, verified : BOOLEAN]

\* A silence longer than the time-out and than input_timeout_periods of the longest
\* interval there has been is reported, however the period was smoothed over outages
\* and however often the inputs came and went (noteInput(), onDiagnostics()).
SilenceReported ==
  inp.any /\ inp.age > Older(InputTimeout, InputPeriods * hist.longest) =>
    "stopped" \in Errors

\* After the startup grace an OK status means what a monitor takes it for: there is a
\* map, a seed and a sensor that has not fallen silent, and no input since the last
\* status that the filter could have used failed to bring a pose, at whichever of the
\* early returns and lookups of onScan() and onPoints() it ended.
OkIsEarned ==
  \A advanced \in BOOLEAN :
    due /\ Started /\ Level(advanced) = "OK" =>
      /\ node.map_ready /\ node.filter_init
      /\ inp.any /\ inp.age <= Older(InputTimeout, InputPeriods * hist.longest)
      /\ ~hist.unanswered

\* While a relocalization is wanted, the status says so from the first scan that its
\* verifier saw since the user's last command on, whatever the outcome of that scan and
\* of the commands before (reloc_state_, relocalize_requested_, onInitialPose()).
RelocalizationShown == Wanted /\ hist.verified => RelocalizationOpen
=============================================================================
