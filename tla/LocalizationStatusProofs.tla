----------------------- MODULE LocalizationStatusProofs -----------------------
(***************************************************************************)
(* What the status of LocalizationNode never misses, for every time-out,   *)
(* setup, period of the inputs and number of inputs, commands and outages. *)
(***************************************************************************)
EXTENDS LocalizationStatus, TLAPS
-----------------------------------------------------------------------------
(* The match window keeps its type.                                        *)

LEMMA FollowingInWindow ==
  ASSUME NEW i \in 0..(KWindow - 1) PROVE Following(i) \in 0..(KWindow - 1)
BY WindowParams DEF Following

LEMMA JudgeTyped ==
  ASSUME NEW m \in Monitors, NEW reseeded \in BOOLEAN, NEW fraction \in Nat
  PROVE  Judge(m, reseeded, fraction) \in Monitors
<1>1. CASE reseeded
  <2>1. Judge(m, reseeded, fraction)
          = [values |-> m.values, count |-> 0, next |-> 0, since_reseed |-> 0]
    BY <1>1 DEF Judge, Emptied, Monitors
  <2>2. m.values \in [0..(KWindow - 1) -> Nat]
    BY DEF Monitors
  <2>3. 0 \in 0..KWindow /\ 0 \in 0..(KWindow - 1) /\ 0 \in 0..KMaxCounted
    BY WindowParams
  <2> QED BY <2>1, <2>2, <2>3 DEF Monitors
<1>2. CASE ~reseeded
  <2> DEFINE c == IF m.count < KWindow THEN m.count + 1 ELSE m.count
             s == IF m.since_reseed < KMaxCounted THEN m.since_reseed + 1 ELSE m.since_reseed
             v == [m.values EXCEPT ![m.next] = fraction]
  <2>1. Judge(m, reseeded, fraction)
          = [values |-> v, count |-> c, next |-> Following(m.next), since_reseed |-> s]
    BY <1>2 DEF Judge, Monitors
  <2>2. m.values \in [0..(KWindow - 1) -> Nat] /\ m.next \in 0..(KWindow - 1)
    BY DEF Monitors
  <2>3. v \in [0..(KWindow - 1) -> Nat]
    BY <2>2
  <2>4. c \in 0..KWindow /\ s \in 0..KMaxCounted
    BY WindowParams DEF Monitors
  <2>5. Following(m.next) \in 0..(KWindow - 1)
    BY <2>2, FollowingInWindow
  <2> HIDE DEF c, s, v
  <2> QED BY <2>1, <2>3, <2>4, <2>5 DEF Monitors
<1> QED BY <1>1, <1>2

\* What an update leaves alone.
Same(u, n) == /\ u.filter_init = n.filter_init
              /\ u.requested = n.requested
              /\ u.reloc_state = n.reloc_state

LEMMA UpdatedTyped ==
  ASSUME NEW n \in Nodes, NEW moved \in BOOLEAN, NEW u \in Updated(n, moved)
  PROVE  u \in Nodes /\ Same(u, n)
<1>1. Judge(n.match, TRUE, 0) \in Monitors
  BY JudgeTyped DEF Nodes
<1>2. \A fraction \in Fractions : Judge(n.match, FALSE, fraction) \in Monitors
  BY JudgeTyped, StatusParams DEF Nodes
<1>3. CASE n.force_update
  <2> DEFINE mm == IF Laser THEN n.match ELSE Judge(n.match, TRUE, 0)
  <2>1. mm \in Monitors
    BY <1>1 DEF Nodes
  <2>2. u = [n EXCEPT !.force_update = FALSE, !.have_map_odom = TRUE, !.low = FALSE,
                      !.match = mm]
    BY <1>3 DEF Updated
  <2> HIDE DEF mm
  <2> QED BY <2>1, <2>2 DEF Nodes, Same
<1>4. CASE ~n.force_update /\ ~moved
  BY <1>4 DEF Updated, Nodes, Same
<1>5. CASE ~n.force_update /\ moved
  <2>1. PICK low \in BOOLEAN, fraction \in Fractions : u = Judged(n, low, fraction)
    BY <1>5 DEF Updated
  <2> DEFINE mm == IF Laser THEN n.match ELSE Judge(n.match, FALSE, fraction)
  <2>2. mm \in Monitors
    BY <1>2 DEF Nodes
  <2>3. u = [n EXCEPT !.have_map_odom = TRUE, !.low = low, !.match = mm]
    BY <2>1 DEF Judged
  <2> HIDE DEF mm
  <2> QED BY <2>1, <2>2, <2>3 DEF Nodes, Same
<1> QED BY <1>3, <1>4, <1>5

LEMMA TrackTyped ==
  ASSUME NEW n \in Nodes, NEW f \in SUBSET Counters,
         NEW found \in BOOLEAN, NEW moved \in BOOLEAN, Track(n, f, found, moved)
  PROVE  node' \in Nodes /\ Same(node', n) /\ failed' \in SUBSET Counters
<1>1. LookedUp(found) \subseteq Counters
  BY DEF LookedUp, When, Counters
<1>2. failed' \in SUBSET Counters
  BY <1>1 DEF Track
<1>3. node' = n \/ node' \in Updated(n, moved)
  BY DEF Track
<1>4. CASE node' = n
  BY <1>2, <1>4 DEF Same
<1>5. CASE node' \in Updated(n, moved)
  BY <1>2, <1>5, UpdatedTyped
<1> QED BY <1>3, <1>4, <1>5
-----------------------------------------------------------------------------
(* What an input does.                                                     *)

\* The verifier leaves the node idle of a request or still open.
LEMMA VerifyTyped ==
  ASSUME TypeOK, NEW found \in BOOLEAN, NEW moved \in BOOLEAN, Verify(found, moved)
  PROVE  /\ node' \in Nodes /\ failed' \in SUBSET Counters
         /\ node'.requested => node.requested
         /\ node.filter_init => node'.filter_init
         /\ \/ node'.reloc_state = "open"
            \/ ~node'.requested /\ node'.filter_init
<1>1. PICK state \in {"open", "accepted"} :
        LET n == [node EXCEPT !.reloc_state = state,
                              !.requested = @ /\ state # "accepted"]
        IN  Track(IF state = "accepted" THEN Seeded(n) ELSE n, failed, found, moved)
  BY DEF Verify
<1> DEFINE r == node.requested /\ state # "accepted"
           n == [node EXCEPT !.reloc_state = state, !.requested = r]
           k == IF state = "accepted" THEN Seeded(n) ELSE n
<1>2. n \in Nodes /\ n.reloc_state = state /\ n.requested = r /\ n.filter_init = node.filter_init
  BY DEF TypeOK, Nodes
<1>3. k \in Nodes /\ k.reloc_state = state /\ k.requested = r
      /\ (state = "accepted" => k.filter_init) /\ (node.filter_init => k.filter_init)
  <2> HIDE DEF n
  <2> QED BY <1>2 DEF Seeded, Nodes
<1>4. Track(k, failed, found, moved)
  BY <1>1
<1>5. node' \in Nodes /\ Same(node', k) /\ failed' \in SUBSET Counters
  <2> HIDE DEF k
  <2> QED BY <1>3, <1>4, TrackTyped DEF TypeOK
<1> HIDE DEF k, n
<1> QED BY <1>3, <1>5 DEF Same

LEMMA HandleTyped ==
  ASSUME TypeOK, NEW stamped \in BOOLEAN, NEW placed \in BOOLEAN, NEW early \in BOOLEAN,
         NEW found \in BOOLEAN, NEW moved \in BOOLEAN,
         Handle(stamped, placed, early, found, moved)
  PROVE  /\ node' \in Nodes /\ failed' \in SUBSET Counters
         /\ \/ Same(node', node)
               /\ ~(/\ Laser /\ Wanted /\ stamped /\ node.map_ready /\ placed
                    /\ (setup.need_odom => early))
            \/ /\ node'.requested => node.requested
               /\ node.filter_init => node'.filter_init
               /\ node'.reloc_state = "open" \/ (~node'.requested /\ node'.filter_init)
<1>1. ASSUME NEW counters \in SUBSET Counters, Dropped(counters)
      PROVE  node' \in Nodes /\ failed' \in SUBSET Counters /\ Same(node', node)
  BY <1>1 DEF Dropped, TypeOK, Same
<1>2. {"zero stamp"} \in SUBSET Counters /\ {} \in SUBSET Counters
      /\ {"sensor TF"} \in SUBSET Counters /\ failed \cup LookedUp(early) \in SUBSET Counters
  BY DEF Counters, LookedUp, When, TypeOK
<1>3. CASE ~stamped
  BY <1>1, <1>2, <1>3 DEF Handle
<1>4. CASE stamped /\ ~node.map_ready
  BY <1>1, <1>2, <1>4 DEF Handle
<1>5. CASE stamped /\ node.map_ready /\ ~Laser /\ ~node.filter_init
  BY <1>1, <1>2, <1>5 DEF Handle
<1>6. CASE stamped /\ node.map_ready /\ (Laser \/ node.filter_init) /\ ~placed
  BY <1>1, <1>2, <1>6 DEF Handle
<1>7. CASE stamped /\ node.map_ready /\ (Laser \/ node.filter_init) /\ placed
  <2>1. Use(early, found, moved)
    BY <1>7 DEF Handle
  <2>2. CASE Laser /\ Wanted /\ setup.need_odom /\ ~early
    BY <1>2, <2>1, <2>2, TrackTyped DEF Use, TypeOK
  <2>3. CASE Laser /\ Wanted /\ ~(setup.need_odom /\ ~early)
    BY <2>1, <2>3, VerifyTyped DEF Use
  <2>4. CASE ~(Laser /\ Wanted)
    BY <2>1, <2>4, TrackTyped DEF Use, TypeOK
  <2> QED BY <2>2, <2>3, <2>4
<1> QED BY <1>3, <1>4, <1>5, <1>6, <1>7
-----------------------------------------------------------------------------
(* The types of the state.                                                 *)

LEMMA SmoothedBetween ==
  ASSUME NEW p \in Nat, NEW dt \in Nat, NEW bound \in Nat, p <= bound, dt <= bound
  PROVE  Smoothed(p, dt) \in Nat /\ Smoothed(p, dt) <= bound
BY DEF Smoothed

LEMMA ProductInNat ==
  ASSUME NEW a \in Nat, NEW b \in Nat PROVE a * b \in Nat
OBVIOUS

LEMMA NotedTyped ==
  ASSUME TypeOK
  PROVE  Noted \in [any : BOOLEAN, count : 0..2, period : Nat, age : Nat]
<1> DEFINE dt == inp.age * Parts
           period == IF ~inp.any THEN inp.period
                     ELSE IF inp.count < 2 THEN dt ELSE Smoothed(inp.period, dt)
           count == IF inp.count < 2 THEN inp.count + 1 ELSE 2
<1>1. inp.age \in Nat /\ inp.period \in Nat /\ inp.count \in 0..2
  BY DEF TypeOK
<1>2. dt \in Nat
  BY <1>1, ProductInNat, StatusParams
<1> HIDE DEF dt
<1>3. Smoothed(inp.period, dt) \in Nat
  BY <1>1, <1>2 DEF Smoothed
<1>4. period \in Nat /\ count \in 0..2
  BY <1>1, <1>2, <1>3
<1>5. Noted = [any |-> TRUE, count |-> count, period |-> period, age |-> 0]
  BY DEF Noted, dt
<1> HIDE DEF period, count
<1> QED BY <1>4, <1>5

LEMMA StuckTyped ==
  ASSUME TypeOK, NEW advanced \in BOOLEAN PROVE StuckTicks(advanced) \in 0..2
BY DEF StuckTicks, TypeOK

LEMMA InitTypeOK == Init => TypeOK
<1> SUFFICES ASSUME Init PROVE TypeOK
  OBVIOUS
<1>1. setup \in Setup
  BY StatusParams DEF Init
<1>2. NewMonitor \in Monitors
  BY WindowParams DEF NewMonitor, Monitors
<1>3. node \in Nodes
  BY <1>1, <1>2 DEF Init, Nodes, Setup, Laser
<1>4. inp \in [any : BOOLEAN, count : 0..2, period : Nat, age : Nat]
  BY DEF Init
<1>5. hist \in [longest : Nat, unanswered : BOOLEAN, verified : BOOLEAN]
  BY DEF Init
<1>6. up \in Nat /\ failed \subseteq Counters /\ stuck \in 0..2
  BY DEF Init
<1>7. due \in BOOLEAN /\ watchdog \in BOOLEAN
  BY Zenon DEF Init
<1> QED BY <1>1, <1>3, <1>4, <1>5, <1>6, <1>7 DEF TypeOK

LEMMA NextTypeOK == ASSUME TypeOK, [Next]_vars PROVE TypeOK'
<1>1. ASSUME NEW advanced \in BOOLEAN, OnDiagnostics(advanced) PROVE TypeOK'
  <2>1. stuck' \in 0..2
    BY <1>1, StuckTyped DEF OnDiagnostics
  <2> QED BY <1>1, <2>1 DEF OnDiagnostics, TypeOK
<1>2. CASE OnWatchdog
  BY <1>2 DEF OnWatchdog, TypeOK, AllSeen
<1>3. ASSUME NEW stamped \in BOOLEAN, NEW placed \in BOOLEAN, NEW early \in BOOLEAN,
             NEW found \in BOOLEAN, NEW moved \in BOOLEAN,
             Input(stamped, placed, early, found, moved)
      PROVE  TypeOK'
  <2>1. node' \in Nodes /\ failed' \in SUBSET Counters
    BY <1>3, HandleTyped DEF Input
  <2>2. inp' \in [any : BOOLEAN, count : 0..2, period : Nat, age : Nat]
    BY <1>3, NotedTyped DEF Input
  <2>3. hist' \in [longest : Nat, unanswered : BOOLEAN, verified : BOOLEAN]
    <3> DEFINE l == IF inp.any THEN Older(hist.longest, inp.age) ELSE 0
               u == \/ hist.unanswered
                    \/ /\ node.map_ready /\ node.filter_init
                       /\ ~Answered(stamped, placed, found)
               v == \/ hist.verified
                    \/ /\ Laser /\ Wanted /\ stamped /\ node.map_ready /\ placed
                       /\ (setup.need_odom => early)
    <3>1. l \in Nat
      BY DEF TypeOK, Older
    <3>2. u \in BOOLEAN /\ v \in BOOLEAN
      OBVIOUS
    <3>3. hist' = [longest |-> l, unanswered |-> u, verified |-> v]
      BY <1>3 DEF Input
    <3> HIDE DEF l, u, v
    <3> QED BY <3>1, <3>2, <3>3
  <2> QED BY <1>3, <2>1, <2>2, <2>3 DEF Input, TypeOK
<1>4. CASE OnMap
  BY <1>4 DEF OnMap, TypeOK, Nodes
<1>5. CASE OnInitialPose
  BY <1>5 DEF OnInitialPose, Seeded, TypeOK, Nodes
<1>6. CASE OnGlobalLocalization
  BY <1>6 DEF OnGlobalLocalization, TypeOK, Nodes
<1>7. CASE Tick
  BY <1>7, StatusParams DEF Tick, Started, TypeOK
<1>8. CASE UNCHANGED vars
  BY <1>8 DEF vars, TypeOK
<1> QED BY <1>1, <1>2, <1>3, <1>4, <1>5, <1>6, <1>7, <1>8 DEF Next

\* The node, its counters and its clocks have their types, for every setup.
THEOREM StatusTypeCorrect == Spec => []TypeOK
BY InitTypeOK, NextTypeOK, PTL DEF Spec
-----------------------------------------------------------------------------
(* A relocalization is shown from the first scan of its verifier on.       *)

LEMMA InitShown == Init => RelocalizationShown
BY DEF Init, RelocalizationShown

LEMMA NextShown ==
  ASSUME TypeOK, RelocalizationShown, [Next]_vars PROVE RelocalizationShown'
<1> USE DEF RelocalizationShown, RelocalizationOpen, Wanted
<1>1. ASSUME NEW advanced \in BOOLEAN, OnDiagnostics(advanced) PROVE RelocalizationShown'
  BY <1>1 DEF OnDiagnostics, TypeOK
<1>2. CASE OnWatchdog
  BY <1>2 DEF OnWatchdog
<1>3. ASSUME NEW stamped \in BOOLEAN, NEW placed \in BOOLEAN, NEW early \in BOOLEAN,
             NEW found \in BOOLEAN, NEW moved \in BOOLEAN,
             Input(stamped, placed, early, found, moved)
      PROVE  RelocalizationShown'
  <2>1. setup' = setup
    BY <1>3 DEF Input
  <2>2. CASE /\ node'.requested => node.requested
             /\ node.filter_init => node'.filter_init
             /\ node'.reloc_state = "open" \/ (~node'.requested /\ node'.filter_init)
    BY <2>1, <2>2
  <2>3. CASE /\ Same(node', node)
             /\ ~(/\ Laser /\ Wanted /\ stamped /\ node.map_ready /\ placed
                  /\ (setup.need_odom => early))
    <3>1. hist'.verified => hist.verified
      BY <1>3, <2>3 DEF Input
    <3> QED BY <2>1, <2>3, <3>1 DEF Same
  <2> QED BY <1>3, <2>2, <2>3, HandleTyped DEF Input
<1>4. CASE OnMap
  BY <1>4 DEF OnMap, TypeOK, Nodes
<1>5. CASE OnInitialPose
  BY <1>5 DEF OnInitialPose, TypeOK
<1>6. CASE OnGlobalLocalization
  BY <1>6 DEF OnGlobalLocalization, TypeOK
<1>7. CASE Tick
  BY <1>7 DEF Tick
<1>8. CASE UNCHANGED vars
  BY <1>8 DEF vars
<1> QED BY <1>1, <1>2, <1>3, <1>4, <1>5, <1>6, <1>7, <1>8 DEF Next

\* Once its verifier has seen a scan after the user's last command, a relocalization is
\* in every status for as long as it is wanted, for every setup and number of scans.
THEOREM RelocalizationAlwaysShown == Spec => []RelocalizationShown
BY InitTypeOK, NextTypeOK, InitShown, NextShown, PTL DEF Spec
-----------------------------------------------------------------------------
(* A silence is reported.                                                  *)

\* The smoothed period stays within the longest interval.
PeriodBounded ==
  /\ inp.period <= hist.longest * Parts
  /\ ~inp.any => inp.period = 0

LEMMA Scaled ==
  ASSUME NEW a \in Nat, NEW b \in Nat, NEW c \in Nat, a <= b PROVE a * c <= b * c
OBVIOUS

LEMMA ScaledLess ==
  ASSUME NEW a \in Nat, NEW b \in Nat, NEW c \in Nat \ {0}, a < b PROVE a * c < b * c
OBVIOUS

LEMMA InitPeriodBounded == Init => PeriodBounded
BY StatusParams DEF Init, PeriodBounded

LEMMA NextPeriodBounded ==
  ASSUME TypeOK, PeriodBounded, [Next]_vars PROVE PeriodBounded'
<1> USE DEF PeriodBounded
<1>1. ASSUME NEW advanced \in BOOLEAN, OnDiagnostics(advanced) PROVE PeriodBounded'
  BY <1>1 DEF OnDiagnostics, TypeOK
<1>2. CASE OnWatchdog
  BY <1>2 DEF OnWatchdog
<1>3. ASSUME NEW stamped \in BOOLEAN, NEW placed \in BOOLEAN, NEW early \in BOOLEAN,
             NEW found \in BOOLEAN, NEW moved \in BOOLEAN,
             Input(stamped, placed, early, found, moved)
      PROVE  PeriodBounded'
  <2>1. inp.age \in Nat /\ inp.period \in Nat /\ hist.longest \in Nat /\ Parts \in Nat
    BY StatusParams DEF TypeOK
  <2>2. inp' = Noted
    BY <1>3 DEF Input
  <2>3. CASE ~inp.any
    <3>1. inp'.period = 0 /\ inp'.any /\ hist'.longest = 0
      BY <1>3, <2>2, <2>3 DEF Input, Noted
    <3> QED BY <2>1, <3>1
  <2>4. CASE inp.any
    <3> DEFINE dt == inp.age * Parts
               bound == Older(hist.longest, inp.age) * Parts
    <3>1. hist'.longest = Older(hist.longest, inp.age)
      BY <1>3, <2>4 DEF Input
    <3>2. dt \in Nat /\ bound \in Nat /\ hist.longest * Parts \in Nat
      BY <2>1, ProductInNat DEF Older
    <3>3. dt <= bound /\ hist.longest * Parts <= bound
      BY <2>1, Scaled DEF Older
    <3>4. inp'.any /\ inp'.period = IF inp.count < 2 THEN dt ELSE Smoothed(inp.period, dt)
      BY <2>2, <2>4 DEF Noted
    <3> HIDE DEF dt, bound
    <3>5. inp.period <= bound
      BY <2>1, <3>2, <3>3
    <3>6. Smoothed(inp.period, dt) <= bound
      BY <2>1, <3>2, <3>3, <3>5, SmoothedBetween
    <3>7. inp'.period <= bound
      BY <3>3, <3>4, <3>6
    <3> QED BY <3>1, <3>4, <3>7 DEF bound
  <2> QED BY <2>3, <2>4
<1>4. CASE OnMap
  BY <1>4 DEF OnMap
<1>5. CASE OnInitialPose
  BY <1>5 DEF OnInitialPose, TypeOK
<1>6. CASE OnGlobalLocalization
  BY <1>6 DEF OnGlobalLocalization, TypeOK
<1>7. CASE Tick
  BY <1>7 DEF Tick, TypeOK
<1>8. CASE UNCHANGED vars
  BY <1>8 DEF vars
<1> QED BY <1>1, <1>2, <1>3, <1>4, <1>5, <1>6, <1>7, <1>8 DEF Next

LEMMA SilenceFromBound == ASSUME TypeOK, PeriodBounded PROVE SilenceReported
<1> SUFFICES ASSUME inp.any, inp.age > Older(InputTimeout, InputPeriods * hist.longest)
             PROVE  "stopped" \in Errors
  BY DEF SilenceReported
<1>1. /\ inp.age \in Nat /\ inp.period \in Nat /\ hist.longest \in Nat
      /\ Parts \in Nat \ {0} /\ InputTimeout \in Nat /\ InputPeriods \in Nat
  BY StatusParams DEF TypeOK
<1> DEFINE scaled == InputPeriods * hist.longest
<1>2. scaled \in Nat
  BY <1>1, ProductInNat
<1>3. InputTimeout < inp.age /\ scaled < inp.age
  BY <1>1, <1>2 DEF Older
<1>4. InputTimeout * Parts < inp.age * Parts
  BY <1>1, <1>3, ScaledLess
<1>5. InputPeriods * inp.period < inp.age * Parts
  <2>1. scaled * Parts < inp.age * Parts
    <3> HIDE DEF scaled
    <3> QED BY <1>1, <1>2, <1>3, ScaledLess
  <2>2. hist.longest * Parts \in Nat
    BY <1>1, ProductInNat
  <2>3. inp.period * InputPeriods <= (hist.longest * Parts) * InputPeriods
    <3>1. inp.period <= hist.longest * Parts
      BY DEF PeriodBounded
    <3> QED BY <1>1, <2>2, <3>1, Scaled
  <2>4. (hist.longest * Parts) * InputPeriods = scaled * Parts
    BY <1>1
  <2>5. inp.period * InputPeriods = InputPeriods * inp.period
    BY <1>1
  <2>6. /\ inp.period * InputPeriods \in Nat /\ scaled * Parts \in Nat
        /\ inp.age * Parts \in Nat
    BY <1>1, <1>2, ProductInNat
  <2> QED BY <2>1, <2>3, <2>4, <2>5, <2>6
<1>6. Silent
  BY <1>4, <1>5 DEF Silent, Older
<1> QED BY <1>6 DEF Errors, When

\* A silence longer than the time-out and than input_timeout_periods of the longest
\* interval there has been is reported, whatever the time-outs and the outages before.
THEOREM SilenceAlwaysReported == Spec => []SilenceReported
<1>1. TypeOK /\ PeriodBounded => SilenceReported
  BY SilenceFromBound
<1> QED BY <1>1, InitTypeOK, NextTypeOK, InitPeriodBounded, NextPeriodBounded, PTL DEF Spec
-----------------------------------------------------------------------------
(* An OK status is earned.                                                 *)

\* The ndt3d backend has its map from the start, a filter that runs has brought a pose
\* or is about to be forced to, and a failure to bring one has been counted.
Accounted ==
  /\ ~Laser => node.map_ready
  /\ node.filter_init => node.force_update \/ node.have_map_odom
  /\ hist.unanswered => failed # {}

\* What a filter brings that runs on an input with a transform.
Fed(u, n) == /\ u.map_ready = n.map_ready
             /\ u.filter_init = n.filter_init
             /\ n.filter_init => u.have_map_odom

LEMMA UpdatedFed ==
  ASSUME NEW n \in Nodes, n.filter_init => n.force_update \/ n.have_map_odom,
         NEW moved \in BOOLEAN, NEW u \in Updated(n, moved)
  PROVE  n.filter_init => Fed(u, n)
<1>1. CASE n.force_update
  <2> DEFINE mm == IF Laser THEN n.match ELSE Judge(n.match, TRUE, 0)
  <2>1. u = [n EXCEPT !.force_update = FALSE, !.have_map_odom = TRUE, !.low = FALSE,
                      !.match = mm]
    BY <1>1 DEF Updated
  <2> HIDE DEF mm
  <2> QED BY <2>1 DEF Nodes, Fed
<1>2. CASE ~n.force_update /\ ~moved
  <2>1. u = n
    BY <1>2 DEF Updated
  <2> QED BY <1>2, <2>1 DEF Fed
<1>3. CASE ~n.force_update /\ moved
  <2>1. PICK low \in {b \in BOOLEAN : b => setup.neff_check}, fraction \in Fractions :
          u = Judged(n, low, fraction)
    BY <1>3 DEF Updated
  <2> QED BY <2>1 DEF Judged, Nodes, Fed
<1> QED BY <1>1, <1>2, <1>3

\* The end of onScan() and onPoints() keeps the account, and brings a pose with a
\* transform.
LEMMA TrackAccounts ==
  ASSUME NEW n \in Nodes, n.filter_init => n.force_update \/ n.have_map_odom, NEW f,
         NEW found \in BOOLEAN, NEW moved \in BOOLEAN, Track(n, f, found, moved)
  PROVE  /\ node'.map_ready = n.map_ready
         /\ node'.filter_init => node'.force_update \/ node'.have_map_odom
         /\ f \subseteq failed'
         /\ n.filter_init => node'.filter_init /\ (found => node'.have_map_odom)
         /\ n.filter_init /\ ~found => failed' # {}
<1>1. CASE ~n.filter_init
  BY <1>1 DEF Track
<1>2. CASE n.filter_init /\ ~found
  BY <1>2 DEF Track, LookedUp, When
<1>3. CASE n.filter_init /\ found
  <2>1. node' \in Updated(n, moved) /\ f \subseteq failed'
    BY <1>3 DEF Track
  <2>2. Fed(node', n)
    BY <1>3, <2>1, UpdatedFed
  <2> QED BY <1>3, <2>1, <2>2 DEF Fed
<1> QED BY <1>1, <1>2, <1>3

LEMMA HandleAccounts ==
  ASSUME TypeOK, Accounted,
         NEW stamped \in BOOLEAN, NEW placed \in BOOLEAN, NEW early \in BOOLEAN,
         NEW found \in BOOLEAN, NEW moved \in BOOLEAN,
         Handle(stamped, placed, early, found, moved)
  PROVE  /\ node'.map_ready = node.map_ready
         /\ node'.filter_init => node'.force_update \/ node'.have_map_odom
         /\ failed \subseteq failed'
         /\ node.map_ready /\ node.filter_init /\ ~Answered(stamped, placed, found) =>
              failed' # {}
<1>0. /\ node \in Nodes /\ node.filter_init \in BOOLEAN
      /\ node.filter_init => node.force_update \/ node.have_map_odom
  BY DEF TypeOK, Accounted, Nodes
<1>1. CASE ~stamped
  BY <1>0, <1>1 DEF Handle, Dropped
<1>2. CASE stamped /\ ~node.map_ready
  BY <1>0, <1>2 DEF Handle, Dropped
<1>3. CASE stamped /\ node.map_ready /\ ~Laser /\ ~node.filter_init
  BY <1>0, <1>3 DEF Handle, Dropped
<1>4. CASE stamped /\ node.map_ready /\ (Laser \/ node.filter_init) /\ ~placed
  BY <1>0, <1>4 DEF Handle, Dropped
<1>5. CASE stamped /\ node.map_ready /\ (Laser \/ node.filter_init) /\ placed
  <2>1. Use(early, found, moved)
    BY <1>5 DEF Handle
  <2>2. ASSUME NEW n \in Nodes, n.filter_init => n.force_update \/ n.have_map_odom, NEW f,
               n.map_ready = node.map_ready, node.filter_init => n.filter_init,
               failed \subseteq f, Track(n, f, found, moved)
        PROVE  /\ node'.map_ready = node.map_ready
               /\ node'.filter_init => node'.force_update \/ node'.have_map_odom
               /\ failed \subseteq failed'
               /\ node.filter_init /\ ~Answered(stamped, placed, found) => failed' # {}
    <3>1. /\ node'.map_ready = n.map_ready
          /\ node'.filter_init => node'.force_update \/ node'.have_map_odom
          /\ f \subseteq failed'
          /\ n.filter_init => node'.filter_init /\ (found => node'.have_map_odom)
          /\ n.filter_init /\ ~found => failed' # {}
      BY <2>2, TrackAccounts
    <3> QED BY <1>5, <2>2, <3>1 DEF Answered
  <2>3. CASE Laser /\ Wanted /\ setup.need_odom /\ ~early
    BY <1>0, <2>1, <2>2, <2>3 DEF Use
  <2>4. CASE Laser /\ Wanted /\ ~(setup.need_odom /\ ~early)
    <3>1. PICK state \in {"open", "accepted"} :
            LET n == [node EXCEPT !.reloc_state = state,
                                  !.requested = @ /\ state # "accepted"]
            IN  Track(IF state = "accepted" THEN Seeded(n) ELSE n, failed, found, moved)
      BY <2>1, <2>4 DEF Use, Verify
    <3> DEFINE n == [node EXCEPT !.reloc_state = state, !.requested = @ /\ state # "accepted"]
               m == IF state = "accepted" THEN Seeded(n) ELSE n
    <3>2. /\ n \in Nodes /\ n.map_ready = node.map_ready /\ n.filter_init = node.filter_init
          /\ n.force_update = node.force_update /\ n.have_map_odom = node.have_map_odom
      BY <1>0 DEF Nodes
    <3>3. Track(m, failed, found, moved)
      BY <3>1
    <3> HIDE DEF n
    <3>4. /\ m \in Nodes /\ m.map_ready = node.map_ready
          /\ node.filter_init => m.filter_init
          /\ m.filter_init => m.force_update \/ m.have_map_odom
      BY <1>0, <3>2 DEF Seeded, Nodes
    <3> HIDE DEF m
    <3> QED BY <2>2, <3>3, <3>4
  <2>5. CASE ~(Laser /\ Wanted)
    BY <1>0, <2>1, <2>2, <2>5 DEF Use
  <2> QED BY <2>3, <2>4, <2>5
<1> QED BY <1>1, <1>2, <1>3, <1>4, <1>5

LEMMA InitAccounted == Init => Accounted
<1> SUFFICES ASSUME Init PROVE Accounted
  OBVIOUS
<1>1. /\ node.map_ready <=> ~Laser
      /\ node.filter_init <=> setup.initial_pose
      /\ node.force_update <=> setup.initial_pose
  <2>1. setup.initial_pose \in BOOLEAN /\ (~Laser) \in BOOLEAN
    BY StatusParams DEF Init, Setup
  <2> QED BY <2>1 DEF Init
<1>2. ~hist.unanswered
  BY DEF Init
<1> QED BY <1>1, <1>2 DEF Accounted

LEMMA NextAccounted ==
  ASSUME TypeOK, Accounted, [Next]_vars PROVE Accounted'
<1> USE DEF Accounted, Laser
<1>1. ASSUME NEW advanced \in BOOLEAN, OnDiagnostics(advanced) PROVE Accounted'
  BY <1>1 DEF OnDiagnostics, TypeOK
<1>2. CASE OnWatchdog
  BY <1>2 DEF OnWatchdog
<1>3. ASSUME NEW stamped \in BOOLEAN, NEW placed \in BOOLEAN, NEW early \in BOOLEAN,
             NEW found \in BOOLEAN, NEW moved \in BOOLEAN,
             Input(stamped, placed, early, found, moved)
      PROVE  Accounted'
  <2>1. /\ node'.map_ready = node.map_ready
        /\ node'.filter_init => node'.force_update \/ node'.have_map_odom
        /\ failed \subseteq failed'
        /\ node.map_ready /\ node.filter_init /\ ~Answered(stamped, placed, found) =>
             failed' # {}
    BY <1>3, HandleAccounts DEF Input
  <2>2. /\ setup' = setup
        /\ hist'.unanswered => \/ hist.unanswered
                               \/ /\ node.map_ready /\ node.filter_init
                                  /\ ~Answered(stamped, placed, found)
    BY <1>3 DEF Input
  <2> QED BY <2>1, <2>2
<1>4. CASE OnMap
  BY <1>4 DEF OnMap, TypeOK, Nodes
<1>5. CASE OnInitialPose
  BY <1>5 DEF OnInitialPose, Seeded, TypeOK, Nodes
<1>6. CASE OnGlobalLocalization
  BY <1>6 DEF OnGlobalLocalization, TypeOK, Nodes
<1>7. CASE Tick
  BY <1>7 DEF Tick
<1>8. CASE UNCHANGED vars
  BY <1>8 DEF vars
<1> QED BY <1>1, <1>2, <1>3, <1>4, <1>5, <1>6, <1>7, <1>8 DEF Next

LEMMA EarnedFromAccount ==
  ASSUME TypeOK, SilenceReported, Accounted PROVE OkIsEarned
<1> SUFFICES ASSUME NEW advanced \in BOOLEAN, Started, Level(advanced) = "OK"
             PROVE  /\ node.map_ready /\ node.filter_init
                    /\ inp.any /\ inp.age <= Older(InputTimeout, InputPeriods * hist.longest)
                    /\ ~hist.unanswered
  BY DEF OkIsEarned
<1>1. Errors = {} /\ Warnings(advanced) = {}
  BY DEF Level
<1>2. /\ ~(Laser /\ ~node.map_ready) /\ inp.any /\ node.filter_init
  BY <1>1 DEF Errors, When
<1>3. ~(inp.age > Older(InputTimeout, InputPeriods * hist.longest))
  BY <1>1, <1>2 DEF SilenceReported
<1>4. failed = {}
  BY <1>1 DEF Warnings
<1>5. inp.age \in Int /\ Older(InputTimeout, InputPeriods * hist.longest) \in Int
  BY StatusParams, ProductInNat DEF TypeOK, Older
<1> QED BY <1>2, <1>3, <1>4, <1>5 DEF Accounted

\* After the startup grace an OK status means a map, a seed, a sensor that has not
\* fallen silent and no input since the last status that failed to bring a pose, for
\* every setup, time-out and early return.
THEOREM OkIsAlwaysEarned == Spec => []OkIsEarned
<1>1. TypeOK /\ PeriodBounded => SilenceReported
  BY SilenceFromBound
<1>2. TypeOK /\ SilenceReported /\ Accounted => OkIsEarned
  BY EarnedFromAccount
<1> QED BY <1>1, <1>2, InitTypeOK, NextTypeOK, InitPeriodBounded, NextPeriodBounded,
           InitAccounted, NextAccounted, PTL DEF Spec
=============================================================================
