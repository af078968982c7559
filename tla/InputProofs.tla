------------------------------ MODULE InputProofs ------------------------------
(***************************************************************************)
(* What the nodes make of the inputs they cannot choose: how long they     *)
(* wait for a transform, which transform a sensor's message gets, and what *)
(* the buffer of fixes lets an alignment look at.  The three systems share *)
(* nothing; each has its names prefixed, so that one module can hold the   *)
(* theorems of all.                                                        *)
(***************************************************************************)
EXTENDS TfWait, MountResolving, FixBuffering, FiniteSetTheorems, NaturalsInduction, WellFoundedInduction, TLAPS
-----------------------------------------------------------------------------
(* The wait for a transform is bounded and gives up for a reason, for      *)
(* every budget, cap, poll period and behaviour of the ROS clock.          *)

\* What a call of stop() leaves, by its answer.
LEMMA StopKeeps ==
  ASSUME WaitTypeOK
  PROVE  /\ Observe(rule, steady, ros) \in [seen : BOOLEAN, last_ros : Int, changed_steady : Nat]
         /\ WaitAfterStop(wait, steady, ros)
              \in [steady0 : Nat, ros0 : Int, last_ros : Int, grace_from : Nat \cup {-1}]
         /\ WaitAfterStop(wait, steady, ros).steady0 = wait.steady0
         /\ WaitAfterStop(wait, steady, ros).ros0 = wait.ros0
BY DEF WaitTypeOK, Observe, WaitAfterStop

LEMMA NextWaitTypeOK == ASSUME WaitTypeOK, [WaitNext]_waitVars PROVE WaitTypeOK'
<1> USE WaitParams
<1>1. CASE Begin
  BY <1>1 DEF Begin, WaitTypeOK, Observe
<1>2. CASE Resolve
  BY <1>2 DEF Resolve, WaitTypeOK
<1>3. ASSUME NEW stops \in BOOLEAN, Poll(stops) PROVE WaitTypeOK'
  BY <1>3, StopKeeps DEF Poll, WaitTypeOK
<1>4. CASE Wake
  BY <1>4 DEF Wake, WaitTypeOK
<1>5. CASE Elapse
  BY <1>5 DEF Elapse, WaitTypeOK
<1>6. CASE Rewind
  BY <1>6 DEF Rewind, WaitTypeOK
<1>7. CASE UNCHANGED waitVars
  BY <1>7 DEF waitVars, WaitTypeOK
<1> QED BY <1>1, <1>2, <1>3, <1>4, <1>5, <1>6, <1>7 DEF WaitNext, GiveUp, Sleep

LEMMA InitWaitTypeOK == WaitInit => WaitTypeOK
BY WaitParams DEF WaitInit, WaitTypeOK

\* The clocks, the rule and the wait keep their types.
THEOREM WaitTypeCorrect == WaitSpec => []WaitTypeOK
BY InitWaitTypeOK, NextWaitTypeOK, PTL DEF WaitSpec
-----------------------------------------------------------------------------
\* A callback that waits runs in time, and was let sleep only below the cap.
DueInTime ==
  pc # "idle" => steady <= due /\ due < wait.steady0 + HardCap + Period + Late

LEMMA NextDueInTime == ASSUME WaitTypeOK, DueInTime, [WaitNext]_waitVars PROVE DueInTime'
<1> USE WaitParams DEF WaitTypeOK, DueInTime
<1>1. CASE Begin
  BY <1>1 DEF Begin
<1>2. CASE Resolve
  BY <1>2 DEF Resolve
<1>3. ASSUME NEW stops \in BOOLEAN, Poll(stops) PROVE DueInTime'
  <2>1. CASE stops
    BY <1>3, <2>1 DEF Poll
  <2>2. CASE ~stops
    <3>1. ~Capped(wait, steady)
      BY <1>3, <2>2 DEF Poll, Stops
    <3> QED BY <1>3, <2>2, <3>1, StopKeeps DEF Poll, Capped
  <2> QED BY <2>1, <2>2
<1>4. CASE Wake
  BY <1>4 DEF Wake
<1>5. CASE Elapse
  BY <1>5 DEF Elapse
<1>6. CASE Rewind
  BY <1>6 DEF Rewind
<1>7. CASE UNCHANGED waitVars
  BY <1>7 DEF waitVars
<1> QED BY <1>1, <1>2, <1>3, <1>4, <1>5, <1>6, <1>7 DEF WaitNext, GiveUp, Sleep

\* No behaviour of the ROS clock holds the node longer than the cap and one
\* poll.
THEOREM AlwaysWaitBounded == WaitSpec => []WaitBounded
<1>1. WaitInit => DueInTime
  BY DEF WaitInit, DueInTime
<1>2. WaitTypeOK /\ DueInTime => WaitBounded
  BY WaitParams DEF WaitTypeOK, DueInTime, WaitBounded
<1> QED BY <1>1, <1>2, NextDueInTime, WaitTypeCorrect, PTL DEF WaitSpec
-----------------------------------------------------------------------------
\* How far a clock whose steps are bounded by the bag gets in the time of the model,
\* before and after the bag starts over.
ClockWithin ==
  /\ steady <= Horizon
  /\ still <= steady
  /\ IF ros >= 0 THEN Horizon * ros <= steady * (BagLength - 1)
     ELSE Horizon * (ros + BagLength) <= steady * (BagLength - 1)

\* What the rule last saw is not ahead of the clock, unless the bag has started
\* over since, and the value it still sees has not changed since it first did.
LookedAfterChange ==
  rule.seen => /\ ros >= 0 => rule.last_ros >= 0
               /\ rule.last_ros <= ros \/ (rule.last_ros >= 0 /\ ros < 0)
               /\ ros = rule.last_ros => still <= rule.changed_steady

\* One unit of steady time more, with a step of the clock within the bag.
LEMMA StepWithin ==
  ASSUME NEW h \in Nat, NEW b \in Nat \ {0}, NEW r \in Int, NEW s \in Nat, NEW step \in Nat,
         h * r <= s * (b - 1), h * step < b
  PROVE  h * (r + step) <= (s + 1) * (b - 1)
<1>1. h * (r + step) = h * r + h * step
  OBVIOUS
<1>2. (s + 1) * (b - 1) = s * (b - 1) + (b - 1)
  OBVIOUS
<1>3. h * r \in Int /\ h * step \in Int /\ s * (b - 1) \in Int
  OBVIOUS
<1> DEFINE X == h * r
           Y == h * step
           Z == s * (b - 1)
<1>4. X + Y <= Z + (b - 1)
  <2>1. X <= Z /\ Y < b /\ X \in Int /\ Y \in Int /\ Z \in Int
    BY <1>3
  <2> HIDE DEF X, Y, Z
  <2> QED BY <2>1
<1> QED BY <1>1, <1>2, <1>4

\* Within the time of the model it is still less than the bag.
LEMMA WithinBag ==
  ASSUME NEW h \in Nat \ {0}, NEW b \in Nat \ {0}, NEW r \in Int, NEW s \in Nat,
         s <= h, h * r <= s * (b - 1)
  PROVE  r < b
<1> SUFFICES ASSUME r >= b PROVE FALSE
  OBVIOUS
<1>1. s * (b - 1) <= h * (b - 1)
  OBVIOUS
<1>2. h * b <= h * r
  OBVIOUS
<1>3. h * (b - 1) = h * b - h
  OBVIOUS
<1> DEFINE X == h * r
           Y == h * b
           Z == s * (b - 1)
<1>4. X \in Int /\ Y \in Int /\ Z \in Int /\ X <= Z /\ Z <= Y - h /\ Y <= X
  BY <1>1, <1>2, <1>3
<1> HIDE DEF X, Y, Z
<1> QED BY <1>4

LEMMA NextClockWithin ==
  ASSUME WaitTypeOK, ClockWithin, [WaitNext]_waitVars PROVE ClockWithin'
<1> USE WaitParams DEF ClockWithin, WaitTypeOK
<1>1. CASE Elapse
  <2>1. PICK step \in Steps : ros' = ros + step
    BY <1>1 DEF Elapse
  <2>2. /\ steady' = steady + 1 /\ steady' <= Horizon /\ Horizon \in Nat \ {0}
        /\ still' <= steady' /\ step \in Nat /\ Horizon * step < BagLength
    BY <1>1, LongBag DEF Elapse
  <2>3. CASE ros >= 0
    <3>1. Horizon * (ros + step) <= (steady + 1) * (BagLength - 1)
      BY <2>2, <2>3, StepWithin
    <3> QED BY <2>1, <2>2, <2>3, <3>1
  <2>4. CASE ros < 0
    <3>1. Horizon * ((ros + BagLength) + step) <= (steady + 1) * (BagLength - 1)
      BY <2>2, <2>4, StepWithin
    <3>2. (ros + BagLength) + step < BagLength
      BY <2>2, <3>1, WithinBag
    <3>3. ros' \in Int /\ ros' < 0 /\ ros' + BagLength = (ros + BagLength) + step
      BY <2>1, <2>2, <3>2
    <3>4. Horizon * (ros' + BagLength) <= steady' * (BagLength - 1)
      BY <2>2, <3>1, <3>3
    <3>5. steady' <= Horizon /\ still' <= steady' /\ ~(ros' >= 0)
      BY <2>2, <3>3
    <3> QED BY <3>4, <3>5
  <2> QED BY <2>3, <2>4
<1>2. CASE Rewind
  BY <1>2 DEF Rewind
<1>3. CASE UNCHANGED <<steady, ros, still>>
  BY <1>3
<1> QED BY <1>1, <1>2, <1>3 DEF WaitNext, Begin, Resolve, GiveUp, Sleep, Poll, Wake, waitVars

LEMMA NextLookedAfterChange ==
  ASSUME WaitTypeOK, ClockWithin, ClockWithin', LookedAfterChange, [WaitNext]_waitVars
  PROVE  LookedAfterChange'
<1> USE WaitParams DEF LookedAfterChange, WaitTypeOK
<1>1. CASE rule' = Observe(rule, steady, ros) /\ UNCHANGED <<ros, still>>
  BY <1>1 DEF Observe, ClockWithin
<1>2. CASE Elapse
  <2>1. PICK step \in Steps : ros' = ros + step
    BY <1>2 DEF Elapse
  <2>2. step \in Nat /\ (step = 0 => still' = still) /\ rule' = rule
    BY <1>2, <2>1 DEF Elapse
  <2>3. CASE ros >= 0
    BY <2>1, <2>2, <2>3
  <2>4. CASE ros < 0
    <3>1. ros' < 0
      <4>1. Horizon * ((ros + BagLength) + step) <= (steady + 1) * (BagLength - 1)
        BY <2>2, <2>4, LongBag, StepWithin DEF ClockWithin
      <4>2. Horizon \in Nat \ {0} /\ steady + 1 <= Horizon
        BY <1>2 DEF Elapse
      <4>3. (ros + BagLength) + step < BagLength
        BY <2>2, <4>1, <4>2, WithinBag
      <4> QED BY <2>1, <2>2, <4>3
    <3> QED BY <2>1, <2>2, <2>4, <3>1
  <2> QED BY <2>3, <2>4
<1>3. CASE Rewind
  BY <1>3 DEF Rewind
<1>4. CASE UNCHANGED <<rule, ros, still>>
  BY <1>4
<1>5. CASE Begin \/ GiveUp \/ Sleep
  BY <1>1, <1>5 DEF Begin, GiveUp, Sleep, Poll
<1>6. CASE Resolve \/ Wake \/ UNCHANGED waitVars
  BY <1>4, <1>6 DEF Resolve, Wake, waitVars
<1> QED BY <1>2, <1>3, <1>5, <1>6 DEF WaitNext

\* A clock counts as frozen only when it really stood still that long, also
\* between the waits, when nobody looks.
THEOREM AlwaysFrozenIsReal == WaitSpec => []FrozenIsReal
<1>1. WaitInit => ClockWithin /\ LookedAfterChange
  <2> SUFFICES ASSUME WaitInit PROVE ClockWithin /\ LookedAfterChange
    OBVIOUS
  <2>1. steady = 0 /\ still = 0 /\ ros = 0 /\ ~rule.seen
    BY DEF WaitInit
  <2>2. Horizon * 0 <= 0 * (BagLength - 1)
    BY WaitParams
  <2> QED BY <2>1, <2>2, WaitParams DEF ClockWithin, LookedAfterChange
<1>2. WaitTypeOK /\ LookedAfterChange => FrozenIsReal
  BY WaitParams DEF WaitTypeOK, LookedAfterChange, FrozenIsReal, Frozen
<1> QED BY <1>1, <1>2, NextClockWithin, NextLookedAfterChange, WaitTypeCorrect, PTL DEF WaitSpec
-----------------------------------------------------------------------------
\* A step of the clock over the budget has started the grace, and the grace starts
\* only when the budget is spent.
GraceFollowsStep ==
  pc # "idle" =>
    /\ stepped >= 0 => wait.grace_from = stepped
    /\ wait.grace_from >= 0 => wait.last_ros - wait.ros0 >= Budget

\* Whether the poll ends the wait or not.
LEMMA PollGrace ==
  ASSUME WaitTypeOK, GraceFollowsStep, pc # "idle", ~Backward(wait, ros), ~Capped(wait, steady),
         NEW w, w = WaitAfterStop(wait, steady, ros),
         NEW t, t = IF /\ stepped = -1 /\ ros - wait.last_ros >= StepMin
                       /\ ros - wait.ros0 >= Budget /\ wait.last_ros - wait.ros0 < Budget
                    THEN steady ELSE stepped
  PROVE  /\ t >= 0 => w.grace_from = t
         /\ w.grace_from >= 0 => ros - wait.ros0 >= Budget
         /\ w.last_ros = ros /\ w.ros0 = wait.ros0
<1> USE WaitParams DEF WaitTypeOK
<1>1. w = [wait EXCEPT !.last_ros = ros,
                       !.grace_from = IF Spent(wait, ros) /\ StartsGrace(wait, ros)
                                      THEN steady ELSE wait.grace_from]
  BY DEF WaitAfterStop
<1>2. /\ w.last_ros = ros /\ w.ros0 = wait.ros0
      /\ w.grace_from = IF Spent(wait, ros) /\ StartsGrace(wait, ros)
                        THEN steady ELSE wait.grace_from
  BY <1>1
<1>3. ros >= wait.last_ros
  BY DEF Backward
<1> QED BY <1>2, <1>3 DEF GraceFollowsStep, Spent, StartsGrace

LEMMA NextGraceFollowsStep ==
  ASSUME WaitTypeOK, GraceFollowsStep, [WaitNext]_waitVars PROVE GraceFollowsStep'
<1>1. CASE Begin
  BY <1>1 DEF Begin, GraceFollowsStep
<1>2. CASE GiveUp \/ Resolve
  BY <1>2 DEF GiveUp, Poll, Resolve, GraceFollowsStep
<1>3. CASE Sleep
  <2>1. ~Backward(wait, ros) /\ ~Capped(wait, steady) /\ pc # "idle"
    BY <1>3 DEF Sleep, Poll, Stops
  <2>2. wait' = WaitAfterStop(wait, steady, ros)
    BY <1>3 DEF Sleep, Poll
  <2>3. stepped' = IF /\ stepped = -1 /\ ros - wait.last_ros >= StepMin
                      /\ ros - wait.ros0 >= Budget /\ wait.last_ros - wait.ros0 < Budget
                   THEN steady ELSE stepped
    BY <1>3 DEF Sleep, Poll
  <2>4. /\ stepped' >= 0 => wait'.grace_from = stepped'
        /\ wait'.grace_from >= 0 => ros - wait.ros0 >= Budget
        /\ wait'.last_ros = ros /\ wait'.ros0 = wait.ros0
    BY <2>1, <2>2, <2>3, PollGrace
  <2> QED BY <2>4 DEF GraceFollowsStep
<1>4. CASE Wake \/ Elapse \/ Rewind
  BY <1>4 DEF Wake, Elapse, Rewind, GraceFollowsStep
<1>5. CASE UNCHANGED waitVars
  BY <1>5 DEF waitVars, GraceFollowsStep
<1> QED BY <1>1, <1>2, <1>3, <1>4, <1>5 DEF WaitNext

\* A clock that spends the budget in one step gets its grace, unless the cap or
\* a jump back ends the wait before.
THEOREM StepAlwaysGetsGrace == WaitSpec => StepGetsGrace
<1> DEFINE Graced == GiveUp /\ stepped' >= 0 =>
                       \/ steady - stepped' >= StepGrace
                       \/ steady - wait.steady0 >= HardCap
                       \/ ros < wait.last_ros
<1>1. WaitInit => GraceFollowsStep
  BY DEF WaitInit, GraceFollowsStep
<1>2. WaitTypeOK /\ GraceFollowsStep /\ [WaitNext]_waitVars => [Graced]_waitVars
  <2> SUFFICES ASSUME WaitTypeOK, GraceFollowsStep, GiveUp, stepped' >= 0,
                      ~Capped(wait, steady), ~Backward(wait, ros)
               PROVE  steady - stepped' >= StepGrace
    BY WaitParams DEF WaitTypeOK, Capped, Backward
  <2> DEFINE w == WaitAfterStop(wait, steady, ros)
  <2>1. stepped' = IF /\ stepped = -1 /\ ros - wait.last_ros >= StepMin
                      /\ ros - wait.ros0 >= Budget /\ wait.last_ros - wait.ros0 < Budget
                   THEN steady ELSE stepped
    BY DEF GiveUp, Poll
  <2>2. pc # "idle"
    BY DEF GiveUp, Poll
  <2>3. w.grace_from = stepped' /\ (w.grace_from >= 0 => ros - wait.ros0 >= Budget)
    BY <2>1, <2>2, PollGrace
  <2>4. \/ Spent(wait, ros) /\ (w.grace_from < 0 \/ steady - w.grace_from >= StepGrace)
        \/ ~Spent(wait, ros)
    BY DEF GiveUp, Poll, Stops
  <2>5. stepped' \in Int
    BY <2>1 DEF WaitTypeOK
  <2> QED BY <2>3, <2>4, <2>5 DEF Spent
<1> QED BY <1>1, <1>2, NextGraceFollowsStep, WaitTypeCorrect, PTL DEF WaitSpec, StepGetsGrace
-----------------------------------------------------------------------------
(* Whose transform a message gets, and how old it may be, for any frames,  *)
(* transforms and refresh interval, and any order of messages,             *)
(* publications and lookups that fail.                                     *)

(* TF's history bounds what it gives now.                                  *)
Given == \A f \in Sensors : tf[f] # NoTransform => tf[f] \in given[f]

\* No clock reading lies ahead.
Past == (\A f \in Sensors : held[f] <= clock) /\ mount.looked_up <= clock

\* A mount from TF was given for its frame; once it was looked up after TF last
\* changed that frame, it is what TF holds, unless that lookup found nothing.
Founded ==
  mount.source = "tf" =>
    /\ mount.frame \in Sensors
    /\ mount.ext \in given[mount.frame]
    /\ held[mount.frame] < mount.looked_up /\ tf[mount.frame] # NoTransform
         => mount.ext = tf[mount.frame]

\* The mount is the one of the last message.
Owned ==
  Usable(mount) =>
    /\ mount.frame = SensorFrame(msg)
    /\ mount.source = "base" => mount.ext = Identity /\ mount.frame = Plain[BaseFrame]

MountInv == MountTypeOK /\ Given /\ Past /\ Founded /\ Owned
-----------------------------------------------------------------------------
LEMMA InitMountInv == MountInit => MountInv
<1> SUFFICES ASSUME MountInit PROVE MountInv
  OBVIOUS
<1>1. mount = NewMount /\ clock = 0 /\ msg = EmptyFrame
  BY DEF MountInit
<1>2. MountTypeOK
  BY <1>1, MountParams DEF MountInit, MountTypeOK, Mounts, NewMount
<1>3. Given /\ Past
  BY <1>1 DEF MountInit, Given, Past, NewMount
<1>4. mount.source = "none"
  BY <1>1 DEF NewMount
<1> QED BY <1>2, <1>3, <1>4 DEF MountInv, Founded, Owned, Usable

\* A sensor off base_frame has a plain name that is not base_frame.
LEMMA FramesArePlain ==
  ASSUME NEW f \in Frames
  PROVE  /\ SensorFrame(f) \in Frames
         /\ ~InBase(SensorFrame(f)) => SensorFrame(f) \in Sensors
<1> DEFINE g == IF Override = EmptyFrame THEN f ELSE Override
<1>1. g \in Frames /\ SensorFrame(f) = Plain[g]
  BY MountParams DEF SensorFrame
<1> HIDE DEF g
<1>2. Plain[g] \in Frames /\ Plain[Plain[g]] = Plain[g]
  BY <1>1, MountParams
<1> QED BY <1>1, <1>2 DEF InBase, Sensors

\* What resolve() makes of the mount, given what TF holds and has given.
LEMMA MessageKeeps == MountInv /\ Message => MountInv'
<1> SUFFICES ASSUME MountInv, Message PROVE MountInv'
  OBVIOUS
<1>1. PICK f \in Frames : /\ mount' = Resolved(mount, f, clock, Found(f))
                          /\ msg' = f
                          /\ UNCHANGED <<clock, tf, held, given>>
  BY DEF Message
<1> DEFINE frame == SensorFrame(f)
           found == Found(f)
<1>2. frame \in Frames /\ (~InBase(frame) => frame \in Sensors /\ found = tf[frame])
  BY FramesArePlain DEF Found
<1>3. /\ mount \in Mounts /\ clock \in Nat
      /\ tf \in [Sensors -> Transforms \cup {NoTransform}]
      /\ held \in [Sensors -> Nat] /\ given \in [Sensors -> SUBSET Transforms]
  BY DEF MountInv, MountTypeOK
<1>4. Given' /\ (\A g \in Sensors : held'[g] <= clock')
  BY <1>1 DEF MountInv, Given, Past
<1>5. frame = SensorFrame(msg')
  BY <1>1
<1> SUFFICES mount' \in Mounts /\ mount'.looked_up <= clock /\ Founded' /\ Owned'
  BY <1>1, <1>3, <1>4 DEF MountInv, MountTypeOK, Past
<1>6. CASE InBase(frame)
  <2> DEFINE source == IF frame = EmptyFrame THEN "none" ELSE "base"
  <2>1. mount' = [mount EXCEPT !.seen = TRUE, !.frame = frame, !.ext = Identity,
                               !.source = source]
    BY <1>1, <1>6 DEF Resolved
  <2>2. source \in {"none", "base"} /\ (source = "base" => frame = Plain[BaseFrame])
    BY <1>6 DEF InBase
  <2> HIDE DEF source, frame, found
  <2>3. /\ mount' \in Mounts /\ mount'.looked_up = mount.looked_up /\ mount'.source = source
        /\ mount'.frame = frame /\ mount'.ext = Identity
    BY <2>1, <2>2, <1>2, <1>3, MountParams DEF Mounts
  <2> QED BY <2>2, <2>3, <1>5 DEF Founded, Owned, MountInv, Past, Usable
<1>7. CASE ~InBase(frame) /\ Same(mount, frame) /\ Recent(mount, clock)
  <2>1. mount' = [mount EXCEPT !.seen = TRUE]
    BY <1>1, <1>7 DEF Resolved
  <2>2. mount.source = "tf" /\ mount.frame = frame
    BY <1>7 DEF Same
  <2> HIDE DEF frame, found
  <2>3. /\ mount' \in Mounts /\ mount'.looked_up = mount.looked_up
        /\ mount'.source = mount.source /\ mount'.frame = mount.frame /\ mount'.ext = mount.ext
    BY <2>1, <1>3 DEF Mounts
  <2> QED BY <2>2, <2>3, <1>1, <1>5 DEF Founded, Owned, MountInv, Past
<1>8. CASE /\ ~InBase(frame) /\ ~(Same(mount, frame) /\ Recent(mount, clock))
           /\ found = NoTransform /\ Same(mount, frame)
  <2>1. mount' = [mount EXCEPT !.seen = TRUE, !.looked_up = clock]
    BY <1>1, <1>8 DEF Resolved, Lost
  <2>2. mount.source = "tf" /\ mount.frame = frame /\ tf[frame] = NoTransform
    BY <1>2, <1>8 DEF Same
  <2> HIDE DEF frame, found
  <2>3. /\ mount' \in Mounts /\ mount'.looked_up = clock
        /\ mount'.source = mount.source /\ mount'.frame = mount.frame /\ mount'.ext = mount.ext
    BY <2>1, <1>3 DEF Mounts
  <2> QED BY <2>2, <2>3, <1>1, <1>3, <1>5 DEF Founded, Owned, MountInv
<1>9. CASE /\ ~InBase(frame) /\ ~(Same(mount, frame) /\ Recent(mount, clock))
           /\ found = NoTransform /\ ~Same(mount, frame)
  <2>1. mount' = [mount EXCEPT !.seen = TRUE, !.frame = frame, !.source = "none"]
    BY <1>1, <1>9 DEF Resolved, Lost
  <2> HIDE DEF frame, found
  <2>2. mount' \in Mounts /\ mount'.looked_up = mount.looked_up /\ mount'.source = "none"
    BY <2>1, <1>2, <1>3 DEF Mounts
  <2> QED BY <2>2 DEF Founded, Owned, MountInv, Past, Usable
<1>10. CASE /\ ~InBase(frame) /\ ~(Same(mount, frame) /\ Recent(mount, clock))
            /\ found # NoTransform
  <2>1. mount' = [seen |-> TRUE, frame |-> frame, ext |-> found, source |-> "tf",
                  looked_up |-> clock]
    BY <1>1, <1>10 DEF Resolved
  <2>2. found = tf[frame] /\ frame \in Sensors /\ found \in Transforms
    BY <1>2, <1>3, <1>10
  <2>3. found \in given[frame]
    BY <2>2, <1>10 DEF MountInv, Given
  <2> HIDE DEF frame, found
  <2>4. /\ mount' \in Mounts /\ mount'.looked_up = clock /\ mount'.source = "tf"
        /\ mount'.frame = frame /\ mount'.ext = found
    BY <2>1, <2>2, <1>2, <1>3 DEF Mounts
  <2> QED BY <2>2, <2>3, <2>4, <1>1, <1>3, <1>5 DEF Founded, Owned
<1> QED BY <1>6, <1>7, <1>8, <1>9, <1>10

LEMMA PublishKeeps == MountInv /\ Publish => MountInv'
<1> SUFFICES ASSUME MountInv, Publish PROVE MountInv'
  OBVIOUS
<1>1. PICK f \in Sensors, t \in Transforms \cup {NoTransform} :
        /\ tf' = [tf EXCEPT ![f] = t]
        /\ held' = [held EXCEPT ![f] = clock]
        /\ given' = [given EXCEPT ![f] = @ \cup ({t} \ {NoTransform})]
        /\ UNCHANGED <<mount, clock, msg>>
  BY DEF Publish
<1>2. /\ mount \in Mounts /\ clock \in Nat /\ mount.looked_up \in Nat
      /\ tf \in [Sensors -> Transforms \cup {NoTransform}]
      /\ held \in [Sensors -> Nat] /\ given \in [Sensors -> SUBSET Transforms]
  BY DEF MountInv, MountTypeOK, Mounts
<1>3. MountTypeOK'
  BY <1>1, <1>2 DEF MountInv, MountTypeOK
<1>4. Given'
  BY <1>1, <1>2 DEF MountInv, Given
<1>5. Past'
  BY <1>1, <1>2 DEF MountInv, Past
<1>6. Founded'
  <2> SUFFICES ASSUME mount.source = "tf"
               PROVE  /\ mount.frame \in Sensors
                      /\ mount.ext \in given'[mount.frame]
                      /\ held'[mount.frame] < mount.looked_up /\ tf'[mount.frame] # NoTransform
                           => mount.ext = tf'[mount.frame]
    BY <1>1 DEF Founded
  <2>1. CASE mount.frame = f
    BY <2>1, <1>1, <1>2 DEF MountInv, Founded, Past
  <2>2. CASE mount.frame # f
    BY <2>2, <1>1, <1>2 DEF MountInv, Founded
  <2> QED BY <2>1, <2>2
<1>7. Owned'
  BY <1>1 DEF MountInv, Owned, SensorFrame
<1> QED BY <1>3, <1>4, <1>5, <1>6, <1>7 DEF MountInv

LEMMA NextMountInv == MountInv /\ [MountNext]_mountVars => MountInv'
<1> SUFFICES ASSUME MountInv, [MountNext]_mountVars PROVE MountInv'
  OBVIOUS
<1>1. CASE Message
  BY <1>1, MessageKeeps
<1>2. CASE Publish
  BY <1>2, PublishKeeps
<1>3. CASE MountElapse
  <2>1. mount' = mount /\ tf' = tf /\ msg' = msg /\ held' = held /\ given' = given
        /\ clock' = clock + 1 /\ clock \in Nat
    BY <1>3 DEF MountElapse, MountInv, MountTypeOK
  <2>2. mount.looked_up \in Nat /\ \A f \in Sensors : held[f] \in Nat
    BY DEF MountInv, MountTypeOK, Mounts
  <2> QED BY <2>1, <2>2 DEF MountInv, MountTypeOK, Given, Past, Founded, Owned, SensorFrame, Usable
<1>4. CASE UNCHANGED mountVars
  BY <1>4 DEF mountVars, MountInv, MountTypeOK, Given, Past, Founded, Owned, SensorFrame, Usable
<1> QED BY <1>1, <1>2, <1>3, <1>4 DEF MountNext
-----------------------------------------------------------------------------
LEMMA AlwaysMountInv == MountSpec => []MountInv
BY InitMountInv, NextMountInv, PTL DEF MountSpec

\* A Mount keeps its members' types, whatever frames messages carry.
THEOREM MountTypeCorrect == MountSpec => []MountTypeOK
<1>1. MountInv => MountTypeOK
  BY DEF MountInv
<1> QED BY <1>1, AlwaysMountInv, PTL

\* A message that is used gets the mount of its own sensor (resolve()).
THEOREM AlwaysOwnMount == MountSpec => []OwnMount
<1>1. MountInv => OwnMount
  <2> SUFFICES ASSUME MountInv, Usable(mount) PROVE OwnMount
    BY DEF OwnMount
  <2>1. mount.source \in {"base", "tf"}
    BY DEF MountInv, MountTypeOK, Mounts, Usable
  <2>2. CASE mount.source = "base"
    BY <2>2 DEF MountInv, Owned, OwnMount
  <2>3. CASE mount.source = "tf"
    BY <2>3 DEF MountInv, Owned, Founded, OwnMount
  <2> QED BY <2>1, <2>2, <2>3
<1> QED BY <1>1, AlwaysMountInv, PTL

\* No message gets a transform TF has replaced kRefreshS ago or longer: the one
\* in use was looked up since, and that lookup found what TF holds (resolve()).
THEOREM AlwaysRefreshed == MountSpec => Refreshed
<1>1. MountInv /\ MountInv' /\ [MountNext]_mountVars
        => [Message /\ mount'.source = "tf" =>
              LET f == mount'.frame
              IN  tf[f] # NoTransform /\ clock - held[f] >= Refresh => mount'.ext = tf[f]]_mountVars
  <2> SUFFICES ASSUME MountInv, MountInv', Message, mount'.source = "tf",
                      tf[mount'.frame] # NoTransform,
                      clock - held[mount'.frame] >= Refresh
               PROVE  mount'.ext = tf[mount'.frame]
    OBVIOUS
  <2>1. PICK f \in Frames : /\ mount' = Resolved(mount, f, clock, Found(f))
                            /\ UNCHANGED <<clock, tf, held, given>>
    BY DEF Message
  <2>2. /\ mount'.frame \in Sensors
        /\ held[mount'.frame] < mount'.looked_up => mount'.ext = tf[mount'.frame]
    BY <2>1 DEF MountInv, Founded
  <2>3. /\ mount \in Mounts /\ clock \in Nat /\ held[mount'.frame] \in Nat
        /\ mount.looked_up \in Nat
    BY <2>2 DEF MountInv, MountTypeOK, Mounts
  <2> DEFINE frame == SensorFrame(f)
             found == Found(f)
  <2>4. ~InBase(frame)
    <3> SUFFICES ASSUME InBase(frame) PROVE FALSE
      OBVIOUS
    <3> DEFINE source == IF frame = EmptyFrame THEN "none" ELSE "base"
    <3>1. mount' = [mount EXCEPT !.seen = TRUE, !.frame = frame, !.ext = Identity,
                                 !.source = source]
      BY <2>1 DEF Resolved
    <3>2. source # "tf"
      OBVIOUS
    <3> HIDE DEF source, frame
    <3> QED BY <3>1, <3>2, <2>3 DEF Mounts
  <2>5. CASE Same(mount, frame) /\ Recent(mount, clock)
    <3>1. mount' = [mount EXCEPT !.seen = TRUE]
      BY <2>1, <2>4, <2>5 DEF Resolved
    <3>2. mount'.looked_up = mount.looked_up
      BY <3>1, <2>3 DEF Mounts
    <3> QED BY <2>2, <2>3, <2>5, <3>2, MountParams DEF Recent
  <2>6. CASE ~(Same(mount, frame) /\ Recent(mount, clock)) /\ found = NoTransform
    <3>1. mount' = Lost(mount, frame, clock)
      BY <2>1, <2>4, <2>6 DEF Resolved
    <3>2. mount'.frame = frame
      BY <3>1, <2>3 DEF Lost, Same, Mounts
    <3> QED BY <3>2, <2>2, <2>6 DEF Found
  <2>7. CASE ~(Same(mount, frame) /\ Recent(mount, clock)) /\ found # NoTransform
    <3>1. mount' = [seen |-> TRUE, frame |-> frame, ext |-> found, source |-> "tf",
                    looked_up |-> clock]
      BY <2>1, <2>4, <2>7 DEF Resolved
    <3>2. mount'.frame = frame /\ mount'.ext = found
      BY <3>1
    <3> QED BY <3>2, <2>2 DEF Found
  <2> QED BY <2>5, <2>6, <2>7
<1> QED BY <1>1, AlwaysMountInv, PTL DEF MountSpec, Refreshed
-----------------------------------------------------------------------------
(* What an alignment looks at, for every rate and change of it, and every  *)
(* parameter of the spans.                                                 *)

Less == {ss \in Nat \X Nat : ss[1] < ss[2]}

LEMMA LeastNatural ==
  ASSUME NEW S, S \subseteq Nat, S # {}
  PROVE  \E x \in S : \A y \in S : x <= y
<1>1. IsWellFoundedOn(Less, Nat)
  BY Zenon, NatLessThanWellFounded DEF OpToRel, Less
<1>2. PICK x \in S : \A y \in S : ~(<<y, x>> \in Less)
  BY <1>1, WFMin
<1>3. \A y, z \in Nat : <<y, z>> \in Less <=> y < z
  BY DEF Less
<1>4. ASSUME NEW y \in S PROVE x <= y
  <2>1. ~(y < x)
    BY <1>2, <1>3
  <2> QED BY <2>1
<1> QED BY <1>4

LEMMA MinOfNaturals ==
  ASSUME NEW S, S \subseteq Nat, S # {}
  PROVE  Min(S) \in S /\ \A y \in S : Min(S) <= y
BY LeastNatural DEF Min

LEMMA MaxOfIndices ==
  ASSUME NEW n \in Nat, NEW S, S \subseteq 1..n, S # {}
  PROVE  Max(S) \in S /\ \A i \in S : i <= Max(S)
<1> DEFINE left == {n - i : i \in S}
<1>1. left \subseteq Nat /\ left # {}
  <2>1. ASSUME NEW i \in S PROVE n - i \in Nat
    <3>1. i \in 1..n
      OBVIOUS
    <3> QED BY <3>1
  <2> QED BY <2>1
<1>2. PICK x \in left : \A y \in left : x <= y
  <2> HIDE DEF left
  <2> QED BY <1>1, LeastNatural
<1>3. PICK k \in S : x = n - k
  BY <1>2
<1>4. ASSUME NEW i \in S PROVE k >= i
  <2>1. i \in 1..n /\ k \in 1..n
    OBVIOUS
  <2>2. x <= n - i
    BY <1>2
  <2> QED BY <1>3, <2>1, <2>2
<1> QED BY <1>4 DEF Max

\* A buffer of fixes: no fix is as old as the one before.
Ordered(f) ==
  /\ f \in Seq(Nat)
  /\ \A i, k \in 1..Len(f) : i < k => f[i] < f[k]

\* The intervals that the period is the median of, newest first.
Recently(f) == 0..(Fewer(Len(f) - 1, MedianOf) - 1)
Back(f, i) == Interval(f, Len(f) - i)
UpTo(f, x) == {i \in Recently(f) : Back(f, i) <= x}

\* The intervals of an ordered buffer, and the period in these terms.
LEMMA RecentIntervals ==
  ASSUME NEW f, Ordered(f), Len(f) >= 3, NEW m, m = Fewer(Len(f) - 1, MedianOf)
  PROVE  /\ m \in 1..(Len(f) - 1) /\ Recently(f) = 0..(m - 1)
         /\ IsFiniteSet(Recently(f)) /\ Cardinality(Recently(f)) = m
         /\ \A i \in Recently(f) : Len(f) - i \in 2..Len(f) /\ Back(f, i) \in Nat \ {0}
         /\ FixPeriod(f) = Min({x \in {Back(f, i) : i \in Recently(f)} :
                                  Cardinality(UpTo(f, x)) > m \div 2})
<1> USE FixParams
<1>0. f \in Seq(Nat) /\ Len(f) \in Nat
  BY DEF Ordered
<1>1. PICK n \in Nat : n = Len(f) /\ n >= 3 /\ f \in [1..n -> Nat]
  BY <1>0
<1>2. m \in Nat /\ m \in 1..(n - 1)
  <2>1. n - 1 \in Nat \ {0} /\ m = Fewer(n - 1, MedianOf)
    BY <1>1
  <2> QED BY <2>1 DEF Fewer
<1>3. Recently(f) = 0..(m - 1)
  BY <1>1 DEF Recently
<1>4. IsFiniteSet(Recently(f)) /\ Cardinality(Recently(f)) = m
  <2>1. 0 \in Int /\ m - 1 \in Int /\ ~(0 > m - 1)
    BY <1>1, <1>2
  <2>2. /\ IsFiniteSet(0..(m - 1))
        /\ Cardinality(0..(m - 1)) = IF 0 > m - 1 THEN 0 ELSE (m - 1) - 0 + 1
    BY <2>1, FS_Interval
  <2> QED BY <1>1, <1>2, <1>3, <2>1, <2>2
<1>5. ASSUME NEW i \in Recently(f) PROVE n - i \in 2..n /\ Back(f, i) \in Nat \ {0}
  <2>1. PICK k \in 2..n : k = n - i
    <3>1. i \in Nat /\ i <= m - 1
      BY <1>2, <1>3
    <3>2. n - i \in 2..n
      BY <1>1, <1>2, <3>1
    <3> QED BY <3>2
  <2>2. k \in 1..n /\ k - 1 \in 1..n /\ k - 1 < k
    BY <1>1, <2>1
  <2>3. f[k - 1] < f[k] /\ f[k - 1] \in Nat /\ f[k] \in Nat
    BY <1>1, <2>2 DEF Ordered
  <2> QED BY <1>1, <2>1, <2>3 DEF Back, Interval
<1>6. FixPeriod(f) = Min({x \in {Back(f, i) : i \in Recently(f)} :
                            Cardinality(UpTo(f, x)) > m \div 2})
  BY DEF FixPeriod, Back, UpTo, Recently
<1> QED BY <1>1, <1>2, <1>3, <1>4, <1>5, <1>6

\* Of finitely many of the intervals one is the longest.
LEMMA LongestOf ==
  ASSUME NEW f, Ordered(f), Len(f) >= 3, NEW S, S \subseteq Recently(f), S # {}
  PROVE  \E k \in S : \A i \in S : Back(f, i) <= Back(f, k)
<1> DEFINE bounds == {d \in Nat : \A i \in S : Back(f, i) <= d}
<1> USE FixParams
<1>1. f \in Seq(Nat) /\ Len(f) \in Nat /\ \A i \in S : Len(f) - i \in 2..Len(f) /\ Back(f, i) \in Nat \ {0}
  <2>1. \A i \in Recently(f) : Len(f) - i \in 2..Len(f) /\ Back(f, i) \in Nat \ {0}
    BY RecentIntervals
  <2> QED BY <2>1 DEF Ordered
<1>2. f[Len(f)] \in bounds
  <2> SUFFICES ASSUME NEW i \in S PROVE f[Len(f)] \in Nat /\ Back(f, i) <= f[Len(f)]
    BY <1>1
  <2>1. PICK k \in 2..Len(f) : k = Len(f) - i /\ Len(f) \in Nat
    BY <1>1
  <2>2. k \in 1..Len(f) /\ k - 1 \in 1..Len(f) /\ Len(f) \in 1..Len(f)
    BY <1>1, <2>1
  <2>3. f[k] \in Nat /\ f[k - 1] \in Nat /\ f[Len(f)] \in Nat
    <3>1. \A j \in 1..Len(f) : f[j] \in Nat
      BY DEF Ordered
    <3> QED BY <2>2, <3>1
  <2>4. f[k] <= f[Len(f)]
    <3>1. CASE k = Len(f)
      BY <2>3, <3>1
    <3>2. CASE k < Len(f)
      <4>1. \A i1, i2 \in 1..Len(f) : i1 < i2 => f[i1] < f[i2]
        BY DEF Ordered
      <4>2. f[k] < f[Len(f)]
        BY <2>2, <3>2, <4>1
      <4> QED BY <2>3, <4>2
    <3> QED BY <1>1, <2>1, <3>1, <3>2
  <2> QED BY <2>1, <2>3, <2>4 DEF Back, Interval
<1>3. PICK d \in bounds : \A e \in bounds : d <= e
  <2>1. bounds \subseteq Nat
    OBVIOUS
  <2> HIDE DEF bounds
  <2> QED BY <1>2, <2>1, LeastNatural
<1>4. \E k \in S : Back(f, k) = d
  <2> SUFFICES ASSUME \A i \in S : Back(f, i) # d PROVE FALSE
    OBVIOUS
  <2>1. ASSUME NEW i \in S PROVE Back(f, i) <= d - 1 /\ d - 1 \in Nat
    <3>1. PICK b \in Nat \ {0} : b = Back(f, i)
      BY <1>1
    <3>2. d \in Nat /\ b <= d /\ b # d
      BY <1>3, <3>1
    <3> QED BY <3>1, <3>2
  <2>2. d - 1 \in bounds
    BY <2>1
  <2> HIDE DEF bounds
  <2>3. d <= d - 1 /\ d \in Nat
    BY <1>3, <2>2 DEF bounds
  <2> QED BY <2>3
<1> QED BY <1>3, <1>4

\* The median of the last intervals is one of them, more than half of them are no
\* longer, and of no shorter one this is so.
LEMMA PeriodIsMedian ==
  ASSUME NEW f, Ordered(f), Len(f) >= 3, NEW m, m = Fewer(Len(f) - 1, MedianOf)
  PROVE  /\ FixPeriod(f) \in Nat \ {0}
         /\ Cardinality(UpTo(f, FixPeriod(f))) > m \div 2
         /\ \A i \in Recently(f) : Cardinality(UpTo(f, Back(f, i))) > m \div 2 =>
                                     FixPeriod(f) <= Back(f, i)
<1> DEFINE middle == {x \in {Back(f, i) : i \in Recently(f)} : Cardinality(UpTo(f, x)) > m \div 2}
<1>1. /\ m \in 1..(Len(f) - 1) /\ Recently(f) = 0..(m - 1)
      /\ Cardinality(Recently(f)) = m /\ FixPeriod(f) = Min(middle)
      /\ \A i \in Recently(f) : Back(f, i) \in Nat \ {0}
  BY RecentIntervals
<1>2. m \in Nat /\ m >= 1 /\ Len(f) \in Nat
  BY <1>1 DEF Ordered
<1>3. middle # {}
  <2>1. 0 \in Recently(f)
    BY <1>1, <1>2
  <2>2. PICK k \in Recently(f) : \A i \in Recently(f) : Back(f, i) <= Back(f, k)
    BY <2>1, LongestOf
  <2>3. UpTo(f, Back(f, k)) = Recently(f)
    BY <2>2 DEF UpTo
  <2>4. m > m \div 2
    BY <1>2
  <2> QED BY <1>1, <2>2, <2>3, <2>4
<1>4. middle \subseteq Nat \ {0}
  BY <1>1
<1>5. Min(middle) \in middle /\ \A x \in middle : Min(middle) <= x
  <2> HIDE DEF middle
  <2> QED BY <1>3, <1>4, MinOfNaturals
<1> QED BY <1>1, <1>4, <1>5

LEMMA PeriodIsInterval ==
  ASSUME NEW f, Ordered(f), Len(f) >= 3
  PROVE  FixPeriod(f) \in Nat \ {0}
BY PeriodIsMedian

\* trimFixes() drops a prefix, never the last fix, and keeps the order.
LEMMA TrimKeepsOrder ==
  ASSUME NEW f, Ordered(f), f # <<>>
  PROVE  /\ Ordered(Trimmed(f)) /\ Trimmed(f) # <<>>
         /\ Len(Trimmed(f)) <= Len(f) /\ Len(Trimmed(f)) <= KMaxFixes
         /\ Trimmed(f)[Len(Trimmed(f))] = f[Len(f)]
<1> DEFINE n == Len(f)
           T == FixPeriod(f)
           stays(i) == /\ n - i + 1 <= KMaxFixes
                       /\ n - i + 1 <= KMinFixes \/ (T > 0 /\ f[n] - f[i] <= Keep(T))
           kept == {i \in 1..n : stays(i)}
           k == Min(kept)
           g == Trimmed(f)
<1> USE FixParams
<1>1. f \in Seq(Nat) /\ n \in Nat \ {0} /\ f \in [1..n -> Nat]
  BY DEF Ordered
<1>2. n \in kept
  BY <1>1
<1>3. k \in kept
  <2>1. kept \subseteq Nat
    BY <1>1
  <2> HIDE DEF kept
  <2> QED BY <1>2, <2>1, MinOfNaturals
<1>4. k \in 1..n /\ n - k + 1 <= KMaxFixes
  BY <1>3
<1>5. g = SubSeq(f, k, n)
  BY <1>1 DEF Trimmed
<1> HIDE DEF k, g, n
<1>6. /\ g \in Seq(Nat) /\ Len(g) = n - k + 1
      /\ \A i \in 1..(n - k + 1) : g[i] = f[k + i - 1]
  BY <1>1, <1>4, <1>5
<1>7. ASSUME NEW i \in 1..Len(g), NEW j \in 1..Len(g), i < j PROVE g[i] < g[j]
  <2>1. k + i - 1 \in 1..n /\ k + j - 1 \in 1..n /\ k + i - 1 < k + j - 1
    BY <1>1, <1>4, <1>6, <1>7
  <2> QED BY <1>6, <1>7, <2>1 DEF Ordered, n
<1>8. Len(g) \in 1..n /\ g[Len(g)] = f[n]
  BY <1>1, <1>4, <1>6
<1> QED BY <1>1, <1>4, <1>6, <1>7, <1>8 DEF Ordered, g, n

\* A fix that comes after the last one.
LEMMA AppendKeepsOrder ==
  ASSUME NEW f, Ordered(f), NEW t \in Nat, f # <<>> => f[Len(f)] < t
  PROVE  Ordered(Append(f, t)) /\ Len(Append(f, t)) = Len(f) + 1 /\ Append(f, t)[Len(f) + 1] = t
<1> DEFINE n == Len(f)
           g == Append(f, t)
<1>1. f \in Seq(Nat) /\ n \in Nat
  BY DEF Ordered
<1>2. g \in Seq(Nat) /\ Len(g) = n + 1 /\ g[n + 1] = t /\ \A i \in 1..n : g[i] = f[i]
  BY <1>1
<1>3. ASSUME NEW i \in 1..Len(g), NEW j \in 1..Len(g), i < j PROVE g[i] < g[j]
  <2>1. i \in 1..n /\ f # <<>>
    BY <1>1, <1>2, <1>3
  <2>2. CASE j \in 1..n
    BY <1>2, <1>3, <2>1, <2>2 DEF Ordered
  <2>3. CASE j = n + 1
    <3>1. f[i] <= f[n] /\ f[i] \in Nat /\ f[n] \in Nat
      BY <1>1, <2>1 DEF Ordered
    <3> QED BY <1>2, <2>1, <2>3, <3>1
  <2> QED BY <1>1, <1>2, <2>2, <2>3
<1> HIDE DEF g
<1> QED BY <1>2, <1>3 DEF Ordered, g

\* The buffer and the list of all fixes are ordered and end with the same fix.
FixInv ==
  /\ FixTypeOK
  /\ Ordered(fixes) /\ Ordered(all)
  /\ fixes = <<>> <=> all = <<>>
  /\ all # <<>> => fixes[Len(fixes)] = all[Len(all)]

LEMMA InitFixInv == FixInit => FixInv
BY FixParams, BufferParams DEF FixInit, FixInv, FixTypeOK, Ordered

LEMMA NextFixInv == FixInv /\ [FixNext]_fixVars => FixInv'
<1> SUFFICES ASSUME FixInv, [FixNext]_fixVars PROVE FixInv'
  OBVIOUS
<1> USE FixParams, BufferParams
<1>1. /\ fixes \in Seq(Nat) /\ all \in Seq(Nat) /\ Len(fixes) <= Len(all)
      /\ every \in Nat \ {0} /\ every \in Intervals /\ changes \in 0..MaxChanges
  BY DEF FixInv, FixTypeOK
<1>2. CASE Store
  <2> DEFINE t == IF all = <<>> THEN 0 ELSE all[Len(all)] + every
             f == Append(fixes, t)
             a == Append(all, t)
  <2>1. /\ fixes' = Trimmed(f) /\ all' = a /\ every' = every /\ changes' = changes
    BY <1>2 DEF Store
  <2>2. t \in Nat /\ (all # <<>> => all[Len(all)] < t)
    BY <1>1
  <2> HIDE DEF t
  <2>3. /\ Ordered(f) /\ Len(f) = Len(fixes) + 1 /\ f[Len(fixes) + 1] = t
        /\ Ordered(a) /\ Len(a) = Len(all) + 1 /\ a[Len(all) + 1] = t
    BY <2>2, AppendKeepsOrder DEF FixInv
  <2>4. f # <<>> /\ a # <<>>
    BY <1>1, <2>3
  <2> HIDE DEF f, a
  <2>5. /\ Ordered(fixes') /\ fixes' # <<>> /\ Len(fixes') <= Len(f)
        /\ Len(fixes') <= KMaxFixes /\ fixes'[Len(fixes')] = f[Len(f)]
    BY <2>1, <2>3, <2>4, TrimKeepsOrder
  <2>6. fixes' \in Seq(Nat) /\ all' \in Seq(Nat)
    BY <2>1, <2>3, <2>5 DEF Ordered
  <2>7. FixTypeOK'
    BY <1>1, <2>1, <2>3, <2>5, <2>6 DEF FixTypeOK
  <2> QED BY <2>1, <2>3, <2>4, <2>5, <2>7 DEF FixInv
<1>3. CASE ChangeRate
  BY <1>3, <1>1 DEF ChangeRate, FixInv, FixTypeOK
<1>4. CASE Align
  <2>1. fixes' = <<>> /\ all' = <<>> /\ every' = every /\ changes' = changes
    BY <1>4 DEF Align
  <2> QED BY <2>1, <1>1 DEF FixInv, FixTypeOK, Ordered
<1>5. CASE UNCHANGED fixVars
  BY <1>5 DEF fixVars, FixInv, FixTypeOK
<1> QED BY <1>2, <1>3, <1>4, <1>5 DEF FixNext

LEMMA AlwaysFixInv == FixSpec => []FixInv
BY InitFixInv, NextFixInv, PTL DEF FixSpec

\* The buffer stays within kMaxFixes, whatever the rate.
THEOREM FixTypeCorrect == FixSpec => []FixTypeOK
<1>1. FixInv => FixTypeOK
  BY DEF FixInv
<1> QED BY <1>1, AlwaysFixInv, PTL

\* The older velocity of an alignment ends at a fix, and begins at an earlier one.
LEMMA AlignWithin ==
  ASSUME NEW f, Ordered(f), TimesAlign(f),
         NEW T, T = FixPeriod(f), NEW e, e = WindowBegin(f, T), NEW b, b = SpanBegin(f, e, T)
  PROVE  /\ T \in Nat \ {0} /\ Len(f) \in Nat
         /\ e \in 1..Len(f) /\ b \in 1..(e - 2)
<1> DEFINE n == Len(f)
           old == {i \in 1..(n - 1) : 2 * (f[n] - f[i]) >= Spans(T).window2}
           long == {j \in 1..(e - 2) : 2 * (f[e] - f[j]) >= 2 * Spans(T).span - T}
<1> USE FixParams
<1>1. f \in Seq(Nat) /\ n \in Nat /\ n >= 3
  BY DEF Ordered, TimesAlign
<1>2. T \in Nat \ {0}
  BY <1>1, PeriodIsInterval
<1>3. e \in 1..n
  <2>1. old \subseteq 1..(n - 1) /\ (old # {} => Max(old) \in old)
    <3>1. old \subseteq 1..(n - 1) /\ n - 1 \in Nat
      BY <1>1
    <3> HIDE DEF old
    <3> QED BY <3>1, MaxOfIndices
  <2>2. e = IF old = {} THEN 1 ELSE Max(old)
    BY DEF WindowBegin
  <2>3. CASE old = {}
    BY <1>1, <2>2, <2>3
  <2>4. CASE old # {}
    <3>1. e \in 1..(n - 1)
      <4> HIDE DEF old
      <4> QED BY <2>1, <2>2, <2>4
    <3> QED BY <1>1, <3>1
  <2> QED BY <2>3, <2>4
<1>4. b > 1
  BY DEF TimesAlign
<1>5. b = IF long = {} THEN 0 ELSE Max(long)
  BY DEF SpanBegin
<1>6. long # {}
  <2> HIDE DEF long
  <2> QED BY <1>4, <1>5
<1>7. long \subseteq 1..n /\ long \subseteq 1..(e - 2)
  BY <1>1, <1>3
<1>8. b \in long
  <2> HIDE DEF long
  <2> QED BY <1>1, <1>5, <1>6, <1>7, MaxOfIndices
<1> QED BY <1>1, <1>2, <1>3, <1>7, <1>8

\* No alignment reaches over an outage: up to the end of the older velocity the
\* second check of alignHeading() looks at every interval, and what comes after
\* lies within the history that the first one looks at.
THEOREM AlwaysNoGap == FixSpec => []NoGapInAlignment
<1>1. FixInv => NoGapInAlignment
  <2> DEFINE T == FixPeriod(fixes)
             n == Len(fixes)
             e == WindowBegin(fixes, T)
             b == SpanBegin(fixes, e, T)
             S == Spans(T)
  <2> SUFFICES ASSUME FixInv, TimesAlign(fixes), NEW i \in 2..n, fixes[i - 1] >= fixes[b]
               PROVE  2 * Interval(fixes, i) <= S.gap2
    BY DEF NoGapInAlignment, AlignBegin
  <2>1. T \in Nat \ {0} /\ n \in Nat /\ e \in 1..n /\ b \in 1..(e - 2)
    BY AlignWithin DEF FixInv
  <2>2. /\ \A k \in 2..n : 2 * (fixes[n] - fixes[k - 1]) <= S.history2 =>
                             2 * Interval(fixes, k) <= S.gap2
        /\ \A k \in (b + 1)..e : 2 * Interval(fixes, k) <= S.gap2
    BY DEF TimesAlign, GapFree
  <2>3. 2 * (fixes[n] - fixes[e]) <= S.window2 + Larger(2 * Second, 3 * T)
    BY DEF TimesAlign, WindowFits
  <2>4. S.window2 + Larger(2 * Second, 3 * T) <= S.history2 /\ S.window2 \in Int /\ S.history2 \in Int
    <3>1. /\ S.window2 = Larger(2 * WindowMin, 3 * Larger(SpanMin, 2 * T))
          /\ S.history2 = S.window2 + Larger(2 * Second, 2 * Larger(SpanMin, 2 * T)
                                                         + Larger(2 * Jitter, T))
      BY DEF Spans
    <3> HIDE DEF S, T
    <3> QED BY <2>1, <3>1, FixParams DEF Larger
  <2>5. /\ \A k \in 1..n : fixes[k] \in Nat
        /\ \A j, k \in 1..n : j < k => fixes[j] < fixes[k]
    <3>1. fixes \in Seq(Nat) /\ \A j, k \in 1..Len(fixes) : j < k => fixes[j] < fixes[k]
      BY DEF FixInv, Ordered
    <3> QED BY <3>1
  <2> HIDE DEF T, n, e, b, S
  <2>6. CASE i <= e
    <3>1. ~(i <= b)
      <4> SUFFICES ASSUME i <= b PROVE FALSE
        OBVIOUS
      <4>1. i - 1 \in 1..n /\ b \in 1..n /\ i - 1 < b
        BY <2>1
      <4>2. fixes[i - 1] < fixes[b] /\ fixes[i - 1] \in Nat /\ fixes[b] \in Nat
        BY <2>5, <4>1
      <4> QED BY <4>2
    <3> QED BY <2>1, <2>2, <2>6, <3>1
  <2>7. CASE i > e
    <3>1. i - 1 \in 1..n /\ e \in 1..n /\ n \in 1..n /\ e <= i - 1
      BY <2>1, <2>7
    <3>2. fixes[e] <= fixes[i - 1] /\ fixes[e] \in Nat /\ fixes[i - 1] \in Nat /\ fixes[n] \in Nat
      BY <2>5, <3>1
    <3>3. 2 * (fixes[n] - fixes[i - 1]) <= S.history2
      BY <2>1, <2>3, <2>4, <3>2, FixParams DEF Larger
    <3> QED BY <2>2, <3>3
  <2> QED BY <2>1, <2>6, <2>7
<1> QED BY <1>1, AlwaysFixInv, PTL
\* A buffer long enough for the median: its period is that of the last MedianOf
\* intervals.
LEMMA LongPeriod ==
  ASSUME NEW f, Ordered(f), Len(f) >= KMinFixes
  PROVE  /\ Len(f) >= 3 /\ Len(f) \in Nat /\ Fewer(Len(f) - 1, MedianOf) = MedianOf
         /\ Recently(f) = 0..(MedianOf - 1)
<1>1. Len(f) \in Nat
  BY DEF Ordered
<1>2. Len(f) >= 3 /\ ~(Len(f) - 1 < MedianOf)
  BY <1>1, FixParams, TrimParams
<1> QED BY <1>1, <1>2 DEF Fewer, Recently

\* One interval more does not take the period above it, unless it was there.
LEMMA PeriodRises ==
  ASSUME NEW f, Ordered(f), Len(f) >= KMinFixes, NEW t \in Nat, f[Len(f)] < t,
         NEW g, g = Append(f, t)
  PROVE  FixPeriod(g) <= FixPeriod(f) \/ FixPeriod(g) <= t - f[Len(f)]
<1> DEFINE T == FixPeriod(f)
<1>1. /\ Ordered(g) /\ Len(g) = Len(f) + 1 /\ Len(g) >= KMinFixes /\ Len(g) \in Nat
      /\ g[Len(f) + 1] = t /\ \A i \in 1..Len(f) : g[i] = f[i]
  <2>1. f \in Seq(Nat) /\ Len(f) \in Nat
    BY DEF Ordered
  <2>2. Ordered(g) /\ Len(g) = Len(f) + 1 /\ g[Len(f) + 1] = t
    BY AppendKeepsOrder
  <2>3. \A i \in 1..Len(f) : g[i] = f[i]
    BY <2>1
  <2>4. Len(f) + 1 >= KMinFixes
    BY <2>1, FixParams
  <2> QED BY <2>1, <2>2, <2>3, <2>4
<1>2. PICK n \in Nat : n = Len(f) /\ n >= 3 /\ n - 1 >= MedianOf
  <2>1. Len(f) \in Nat /\ Len(f) >= 3 /\ Len(f) - 1 >= MedianOf
    BY LongPeriod, FixParams
  <2> QED BY <2>1
<1>3. PICK m \in Nat \ {0} : m = MedianOf /\ m <= n - 1
  BY <1>2, FixParams
<1>4. /\ Recently(f) = 0..(m - 1) /\ Recently(g) = 0..(m - 1) /\ Len(g) >= 3
      /\ m = Fewer(Len(f) - 1, MedianOf) /\ m = Fewer(Len(g) - 1, MedianOf)
  BY <1>1, <1>3, LongPeriod
<1>5. /\ T \in Nat \ {0} /\ Cardinality(UpTo(f, T)) > m \div 2
      /\ \A i \in Recently(f) : Back(f, i) \in Nat
      /\ IsFiniteSet(Recently(f)) /\ IsFiniteSet(Recently(g))
      /\ \A i \in Recently(g) : Back(g, i) \in Nat
      /\ \A i \in Recently(g) : Cardinality(UpTo(g, Back(g, i))) > m \div 2 =>
                                  FixPeriod(g) <= Back(g, i)
      /\ FixPeriod(g) \in Nat
  BY <1>1, <1>2, <1>4, PeriodIsMedian, RecentIntervals
<1>6. PICK d \in Nat : d = t - f[n] /\ d = Back(g, 0)
  <2>1. n \in 1..Len(f) /\ Len(g) - 0 = n + 1 /\ n + 1 - 1 = n
    BY <1>1, <1>2
  <2>2. Interval(g, n + 1) = t - f[n] /\ Back(g, 0) = Interval(g, n + 1)
    BY <1>1, <1>2, <2>1 DEF Interval, Back
  <2>3. f[n] \in Nat /\ f[n] < t
    BY <1>2, <2>1 DEF Ordered
  <2>4. t - f[n] \in Nat
    BY <2>3
  <2> QED BY <2>2, <2>4
<1>7. ASSUME NEW i \in 0..(m - 1), i # m - 1 PROVE i + 1 \in 0..(m - 1) /\ Back(g, i + 1) = Back(f, i)
  <2>1. /\ i + 1 \in 0..(m - 1) /\ Len(g) - (i + 1) = n - i
        /\ n - i \in 1..n /\ n - i - 1 \in 1..n
    BY <1>1, <1>2, <1>3, <1>7
  <2> QED BY <1>1, <1>2, <2>1 DEF Back, Interval
<1>8. PICK D \in Nat : (D = T \/ D = d) /\ T <= D /\ d <= D
  <2>1. T <= d \/ d <= T
    BY <1>5, <1>6
  <2> QED BY <1>5, <1>6, <2>1
<1> DEFINE S == UpTo(f, D)
           R == UpTo(g, D)
<1> HIDE DEF T
<1>9. IsFiniteSet(R) /\ IsFiniteSet(S) /\ UpTo(f, T) \subseteq S
  <2>1. R \in SUBSET Recently(g) /\ S \in SUBSET Recently(f)
    BY DEF UpTo
  <2>2. UpTo(f, T) \subseteq S
    BY <1>5, <1>8 DEF UpTo
  <2> HIDE DEF R, S
  <2> QED BY <1>5, <2>1, <2>2, FS_Subset
<1>10. Cardinality(S) <= Cardinality(R)
  <2> DEFINE h == [i \in S |-> IF i = m - 1 THEN 0 ELSE i + 1]
  <2>1. S \subseteq 0..(m - 1) /\ 0 \in R
    BY <1>3, <1>4, <1>6, <1>8 DEF UpTo
  <2>2. ASSUME NEW i \in S PROVE h[i] \in R
    <3>1. CASE i = m - 1
      BY <2>1, <3>1
    <3>2. CASE i # m - 1
      <4>1. i + 1 \in 0..(m - 1) /\ Back(g, i + 1) = Back(f, i)
        BY <1>7, <2>1, <3>2
      <4>2. Back(f, i) <= D
        BY DEF UpTo
      <4> QED BY <1>4, <3>2, <4>1, <4>2 DEF UpTo
    <3> QED BY <3>1, <3>2
  <2>3. ASSUME NEW i \in S, NEW j \in S, h[i] = h[j] PROVE i = j
    <3>1. i \in Nat /\ j \in Nat
      BY <2>1
    <3> HIDE DEF S
    <3> QED BY <1>3, <2>3, <3>1
  <2>4. h \in Injection(S, R)
    <3> HIDE DEF S, R
    <3>1. h \in [S -> R]
      BY <2>2
    <3> HIDE DEF h
    <3> QED BY <2>3, <3>1 DEF Injection, IsInjective
  <2> HIDE DEF h, S, R
  <2> QED BY <1>9, <2>4, FS_Injection
<1>11. Cardinality(UpTo(f, T)) <= Cardinality(S)
  <2> HIDE DEF S
  <2> QED BY <1>9, FS_Subset
<1>12. Cardinality(R) > m \div 2
  <2>1. Cardinality(UpTo(f, T)) \in Nat /\ Cardinality(S) \in Nat /\ Cardinality(R) \in Nat
    <3> HIDE DEF S, R
    <3> QED BY <1>9, FS_Subset, FS_CardinalityType
  <2> HIDE DEF S, R
  <2> QED BY <1>3, <1>5, <1>10, <1>11, <2>1
<1>13. PICK k \in R : \A i \in R : Back(g, i) <= Back(g, k)
  <2>1. R \subseteq Recently(g) /\ 0 \in R
    BY <1>3, <1>4, <1>6, <1>8 DEF UpTo
  <2> HIDE DEF R
  <2> QED BY <1>1, <1>4, <2>1, LongestOf
<1>14. k \in Recently(g) /\ Back(g, k) <= D
  BY DEF UpTo
<1>15. UpTo(g, Back(g, k)) = R
  <2>1. ASSUME NEW i \in Recently(g), Back(g, i) <= Back(g, k) PROVE Back(g, i) <= D
    BY <1>5, <1>8, <1>14, <2>1
  <2> QED BY <1>13, <2>1 DEF UpTo
<1>16. FixPeriod(g) <= Back(g, k)
  <2> HIDE DEF R
  <2> QED BY <1>5, <1>12, <1>14, <1>15
<1>17. FixPeriod(g) <= D
  BY <1>5, <1>14, <1>16
<1> QED BY <1>2, <1>6, <1>8, <1>17 DEF T

\* f is what is left of a without its first o fixes.
IsTail(f, a, o) ==
  /\ Ordered(f) /\ Ordered(a)
  /\ o \in Nat /\ Len(a) = Len(f) + o
  /\ \A i \in 1..Len(f) : f[i] = a[i + o]

LEMMA TailPeriod ==
  ASSUME NEW f, NEW a, NEW o, IsTail(f, a, o), Len(f) >= KMinFixes
  PROVE  FixPeriod(f) = FixPeriod(a)
<1>1. PICK n \in Nat : n = Len(f) /\ Len(a) = n + o /\ o \in Nat
  BY DEF IsTail, Ordered
<1>2. Ordered(f) /\ Ordered(a) /\ Len(a) >= KMinFixes
  BY <1>1, FixParams DEF IsTail
<1>3. PICK m \in Nat : /\ m = MedianOf /\ m <= n - 1
                       /\ Recently(f) = 0..(m - 1) /\ Recently(a) = 0..(m - 1)
                       /\ m = Fewer(Len(f) - 1, MedianOf) /\ m = Fewer(Len(a) - 1, MedianOf)
                       /\ Len(f) >= 3 /\ Len(a) >= 3
  <2>1. /\ Recently(f) = 0..(MedianOf - 1) /\ Recently(a) = 0..(MedianOf - 1)
        /\ MedianOf = Fewer(Len(f) - 1, MedianOf) /\ MedianOf = Fewer(Len(a) - 1, MedianOf)
        /\ Len(f) >= 3 /\ Len(a) >= 3
    BY <1>2, LongPeriod
  <2>2. MedianOf \in Nat /\ MedianOf <= n - 1
    BY <1>1, FixParams
  <2> QED BY <2>1, <2>2
<1>4. ASSUME NEW i \in 0..(m - 1) PROVE Back(f, i) = Back(a, i)
  <2>1. /\ n - i \in 1..n /\ n - i - 1 \in 1..n /\ Len(a) - i = n - i + o
        /\ Len(a) - i - 1 = n - i - 1 + o
    BY <1>1, <1>3
  <2>2. f[n - i] = a[Len(a) - i] /\ f[n - i - 1] = a[Len(a) - i - 1]
    BY <1>1, <2>1 DEF IsTail
  <2> QED BY <1>1, <2>2 DEF Back, Interval
<1>5. /\ {Back(f, i) : i \in Recently(f)} = {Back(a, i) : i \in Recently(a)}
      /\ \A x : UpTo(f, x) = UpTo(a, x)
  BY <1>3, <1>4 DEF UpTo
<1>6. /\ FixPeriod(f) = Min({x \in {Back(f, i) : i \in Recently(f)} :
                               Cardinality(UpTo(f, x)) > m \div 2})
      /\ FixPeriod(a) = Min({x \in {Back(a, i) : i \in Recently(a)} :
                               Cardinality(UpTo(a, x)) > m \div 2})
  BY <1>2, <1>3, RecentIntervals
<1>7. {x \in {Back(f, i) : i \in Recently(f)} : Cardinality(UpTo(f, x)) > m \div 2}
        = {x \in {Back(a, i) : i \in Recently(a)} : Cardinality(UpTo(a, x)) > m \div 2}
  <2> DEFINE A == {Back(f, i) : i \in Recently(f)}
             B == {Back(a, i) : i \in Recently(a)}
  <2> HIDE DEF A, B
  <2>1. A = B
    BY <1>5 DEF A, B
  <2>2. {x \in A : Cardinality(UpTo(f, x)) > m \div 2}
          = {x \in B : Cardinality(UpTo(a, x)) > m \div 2}
    BY <1>5, <2>1
  <2> QED BY <2>2 DEF A, B
<1> QED BY <1>6, <1>7

\* Fixes come at intervals of no less than L.
LEMMA ManyTakeLong ==
  ASSUME NEW a, Ordered(a), NEW L \in Nat, \A i \in 2..Len(a) : L <= Interval(a, i),
         NEW j \in 1..Len(a), NEW k \in 0..(Len(a) - j)
  PROVE  a[j + k] - a[j] >= k * L
<1> DEFINE Bad == {i \in 0..(Len(a) - j) : ~(a[j + i] - a[j] >= i * L)}
<1>1. PICK n \in Nat : n = Len(a) /\ \A i \in 1..n : a[i] \in Nat
  <2>1. a \in Seq(Nat)
    BY DEF Ordered
  <2>2. Len(a) \in Nat /\ \A i \in 1..Len(a) : a[i] \in Nat
    BY <2>1
  <2> QED BY <2>2
<1>2. Bad \subseteq Nat
  OBVIOUS
<1> SUFFICES Bad = {}
  OBVIOUS
<1> SUFFICES ASSUME Bad # {} PROVE FALSE
  OBVIOUS
<1>3. PICK b \in Bad : \A i \in Bad : b <= i
  <2> HIDE DEF Bad
  <2> QED BY <1>2, LeastNatural
<1>4. b \in Nat /\ b <= n - j /\ j \in 1..n /\ ~(a[j + b] - a[j] >= b * L)
  BY <1>1
<1>5. b # 0
  BY <1>1, <1>4
<1>6. b - 1 \notin Bad /\ b - 1 \in 0..(n - j)
  <2>1. b - 1 \in 0..(n - j) /\ ~(b <= b - 1)
    BY <1>1, <1>4, <1>5
  <2> HIDE DEF Bad
  <2> QED BY <1>3, <2>1
<1>7. PICK x \in Int, y \in Int, z \in Int : x = a[j] /\ y = a[j + (b - 1)] /\ z = a[j + b]
  <2>1. j + b \in 1..n /\ j + (b - 1) \in 1..n /\ j \in 1..n
    BY <1>1, <1>4, <1>5
  <2>2. a[j] \in Int /\ a[j + (b - 1)] \in Int /\ a[j + b] \in Int
    <3> HIDE DEF Bad
    <3> QED BY <1>1, <2>1
  <2> QED BY <2>2
<1>8. y - x >= (b - 1) * L
  BY <1>1, <1>6, <1>7
<1>9. z - y >= L
  <2>1. j + b \in 2..Len(a) /\ j + b - 1 = j + (b - 1)
    BY <1>1, <1>4, <1>5
  <2>2. Interval(a, j + b) = z - y
    BY <1>7, <2>1 DEF Interval
  <2> QED BY <2>1, <2>2
<1>10. b * L = (b - 1) * L + L /\ (b - 1) * L \in Int
  BY <1>4
<1> HIDE DEF Bad
<1>11. z - x >= b * L
  BY <1>8, <1>9, <1>10
<1> QED BY <1>4, <1>7, <1>11

\* A fix is kept a fix period longer than with no period known, at least.
LEMMA KeepGrows ==
  ASSUME NEW T \in Nat
  PROVE  Keep(0) \in Nat /\ Keep(T) \in Nat /\ Keep(T) >= Keep(0) + T
<1> DEFINE S == Spans(T)
           Z == Spans(0)
<1> USE FixParams
<1>1. PICK s \in Nat, z \in Nat : s = S.span /\ z = Z.span /\ s >= z
  BY DEF Spans, Larger
<1>2. PICK w \in Nat, v \in Nat : w = S.window2 /\ v = Z.window2 /\ w >= v
  <2>1. /\ S.window2 = Larger(2 * WindowMin, 3 * S.span)
        /\ Z.window2 = Larger(2 * WindowMin, 3 * Z.span)
    BY DEF Spans
  <2>2. Larger(2 * WindowMin, 3 * s) >= Larger(2 * WindowMin, 3 * z)
        /\ Larger(2 * WindowMin, 3 * s) \in Nat /\ Larger(2 * WindowMin, 3 * z) \in Nat
    <3>1. s \in Nat /\ z \in Nat /\ s >= z /\ WindowMin \in Nat
      BY <1>1
    <3> QED BY <3>1 DEF Larger
  <2> QED BY <1>1, <2>1, <2>2
<1>3. PICK p \in Nat, q \in Nat : /\ p = Larger(2 * Second, 2 * s + Larger(2 * Jitter, T))
                                  /\ q = Larger(2 * Second, 2 * z + Larger(2 * Jitter, 0))
                                  /\ p >= q
  <2>1. PICK x \in Nat, y \in Nat : x = Larger(2 * Jitter, T) /\ y = Larger(2 * Jitter, 0) /\ x >= y
    BY DEF Larger
  <2>2. Larger(2 * Second, 2 * s + x) >= Larger(2 * Second, 2 * z + y)
        /\ Larger(2 * Second, 2 * s + x) \in Nat /\ Larger(2 * Second, 2 * z + y) \in Nat
    <3>1. PICK a \in Nat, b \in Nat : a = 2 * s + x /\ b = 2 * z + y /\ a >= b
      BY <1>1, <2>1
    <3>2. PICK c \in Nat : c = 2 * Second
      OBVIOUS
    <3>3. Larger(c, a) >= Larger(c, b) /\ Larger(c, a) \in Nat /\ Larger(c, b) \in Nat
      BY <3>1 DEF Larger
    <3> QED BY <3>1, <3>2, <3>3
  <2> QED BY <2>1, <2>2
<1>4. S.history2 = w + p /\ Z.history2 = v + q
  <2>1. /\ S.history2 = S.window2 + Larger(2 * Second, 2 * S.span + Larger(2 * Jitter, T))
        /\ Z.history2 = Z.window2 + Larger(2 * Second, 2 * Z.span + Larger(2 * Jitter, 0))
    BY DEF Spans
  <2> QED BY <1>1, <1>2, <1>3, <2>1
<1>5. Keep(T) = w + p + 4 * s + 4 * T /\ Keep(0) = v + q + 4 * z + 4 * 0
  BY <1>1, <1>4 DEF Keep
<1> QED BY <1>1, <1>2, <1>3, <1>5

\* What trimFixes() drops is above kMaxFixes, or older than it keeps.
LEMMA TrimDrops ==
  ASSUME NEW f, Ordered(f), f # <<>>
  PROVE  \E j \in 0..(Len(f) - 1) :
           /\ IsTail(Trimmed(f), f, j)
           /\ j > 0 => /\ Len(Trimmed(f)) >= KMinFixes
                       /\ \/ Len(f) - j >= KMaxFixes
                          \/ f[Len(f)] - f[j] > Keep(FixPeriod(f))
<1> DEFINE T == FixPeriod(f)
<1> USE FixParams, TrimParams
<1>1. PICK n \in Nat \ {0} : n = Len(f) /\ \A i \in 1..n : f[i] \in Nat
  <2>1. f \in Seq(Nat)
    BY DEF Ordered
  <2>2. Len(f) \in Nat \ {0} /\ \A i \in 1..Len(f) : f[i] \in Nat
    BY <2>1
  <2> QED BY <2>2
<1> DEFINE stays(i) == /\ n - i + 1 <= KMaxFixes
                       /\ n - i + 1 <= KMinFixes \/ (T > 0 /\ f[n] - f[i] <= Keep(T))
           kept == {i \in 1..n : stays(i)}
           k == Min(kept)
<1> HIDE DEF T
<1>2. n \in kept
  BY <1>1
<1>3. k \in kept /\ \A i \in kept : k <= i
  <2>1. kept \subseteq Nat
    BY <1>1
  <2> HIDE DEF kept
  <2> QED BY <1>2, <2>1, MinOfNaturals
<1>4. Trimmed(f) = SubSeq(f, k, n)
  BY <1>1 DEF Trimmed, T
<1>5. k \in 1..n
  BY <1>3
<1>6. k > 1 => ~stays(k - 1)
  <2> SUFFICES ASSUME k > 1, stays(k - 1) PROVE FALSE
    OBVIOUS
  <2>1. k - 1 \in 1..n /\ ~(k <= k - 1)
    BY <1>1, <1>5
  <2>2. k - 1 \in kept
    BY <2>1
  <2> HIDE DEF kept
  <2> QED BY <1>3, <2>1, <2>2
<1>7. n - k + 1 >= KMinFixes \/ k = 1
  <2> SUFFICES ASSUME ~(n - k + 1 >= KMinFixes), k # 1 PROVE FALSE
    OBVIOUS
  <2>1. k - 1 \in 1..n /\ ~(k <= k - 1) /\ n - (k - 1) + 1 <= KMinFixes
    <3> HIDE DEF k
    <3> QED BY <1>1, <1>5
  <2>2. n - (k - 1) + 1 <= KMaxFixes
    <3> HIDE DEF k
    <3> QED BY <1>1, <1>5, <2>1
  <2> QED BY <1>5, <1>6, <2>1, <2>2
<1> HIDE DEF k
<1>8. PICK j \in Nat : j = k - 1 /\ j <= n - 1
  BY <1>1, <1>5
<1>9. Ordered(Trimmed(f)) /\ Len(Trimmed(f)) = n - j /\ \A i \in 1..(n - j) : Trimmed(f)[i] = f[i + j]
  <2>1. Len(Trimmed(f)) = n - k + 1 /\ \A i \in 1..(n - k + 1) : Trimmed(f)[i] = f[k + i - 1]
    <3>1. f \in Seq(Nat)
      BY DEF Ordered
    <3> QED BY <1>1, <1>4, <1>5, <3>1
  <2>2. n - k + 1 = n - j /\ \A i \in 1..(n - j) : k + i - 1 = i + j
    BY <1>1, <1>5, <1>8
  <2> QED BY <2>1, <2>2, TrimKeepsOrder
<1>10. IsTail(Trimmed(f), f, j)
  BY <1>1, <1>8, <1>9 DEF IsTail
<1>11. ASSUME j > 0
       PROVE  /\ Len(Trimmed(f)) >= KMinFixes
              /\ n - j >= KMaxFixes \/ f[n] - f[j] > Keep(T)
  <2>1. k > 1 /\ k - 1 = j /\ n - k + 1 = n - j /\ n - j + 1 = n - (k - 1) + 1
    BY <1>1, <1>5, <1>8, <1>11
  <2>2. n - j >= KMinFixes
    BY <1>7, <2>1
  <2>3. n >= 3
    BY <1>1, <1>8, <2>2
  <2>4. T \in Nat \ {0}
    BY <1>1, <2>3, PeriodIsInterval DEF T
  <2>5. ~stays(j)
    BY <1>6, <2>1
  <2>6. f[n] - f[j] \in Int /\ Keep(T) \in Nat
    <3>1. n \in 1..n /\ j \in 1..n
      BY <1>1, <1>8, <1>11
    <3>2. f[n] \in Nat /\ f[j] \in Nat
      BY <1>1, <3>1
    <3>3. Keep(T) \in Nat
      BY <2>4, KeepGrows
    <3> QED BY <3>2, <3>3
  <2>7. ~(n - j + 1 <= KMaxFixes) \/ ~(f[n] - f[j] <= Keep(T))
    BY <2>4, <2>5
  <2>8. n - j >= KMaxFixes \/ f[n] - f[j] > Keep(T)
    BY <1>1, <1>8, <2>6, <2>7
  <2> QED BY <1>9, <2>2, <2>8
<1>12. j \in 0..(n - 1)
  BY <1>1, <1>8
<1> QED BY <1>1, <1>10, <1>11, <1>12 DEF T

\* A fix that was dropped is older than any alignment at the period now looks back.
Spare(a) == Keep(0) + Fewer(FixPeriod(a), PeriodMax)

TrimInv ==
  /\ FixInv
  /\ IsTail(fixes, all, Len(all) - Len(fixes))
  /\ \A i \in 2..Len(all) : Interval(all, i) \in Intervals
  /\ Len(fixes) < Len(all) =>
       /\ Len(fixes) >= KMinFixes
       /\ all[Len(all)] - all[Len(all) - Len(fixes)] > Spare(all)

LEMMA AppendKeepsTail ==
  ASSUME NEW f, NEW a, NEW o, IsTail(f, a, o), NEW t \in Nat,
         f # <<>> => f[Len(f)] < t, a # <<>> => a[Len(a)] < t
  PROVE  IsTail(Append(f, t), Append(a, t), o)
<1> DEFINE g == Append(f, t)
           b == Append(a, t)
<1>1. PICK n \in Nat : n = Len(f) /\ Len(a) = n + o /\ o \in Nat
  BY DEF IsTail, Ordered
<1>2. /\ Ordered(g) /\ Len(g) = n + 1 /\ g[n + 1] = t
      /\ Ordered(b) /\ Len(b) = n + o + 1 /\ b[n + o + 1] = t
  BY <1>1, AppendKeepsOrder DEF IsTail
<1>3. /\ \A i \in 1..n : g[i] = f[i]
      /\ \A i \in 1..(n + o) : b[i] = a[i]
  <2>1. f \in Seq(Nat) /\ a \in Seq(Nat)
    BY DEF IsTail, Ordered
  <2> QED BY <1>1, <2>1
<1> HIDE DEF g, b
<1>4. ASSUME NEW i \in 1..(n + 1) PROVE g[i] = b[i + o]
  <2>1. CASE i = n + 1
    <3>1. i + o = n + o + 1
      BY <1>1, <2>1
    <3> QED BY <1>2, <2>1, <3>1
  <2>2. CASE i # n + 1
    <3>1. i \in 1..n /\ i + o \in 1..(n + o)
      BY <1>1, <2>2
    <3> QED BY <1>1, <1>3, <3>1 DEF IsTail
  <2> QED BY <2>1, <2>2
<1>5. Len(b) = Len(g) + o
  BY <1>1, <1>2
<1>6. IsTail(g, b, o)
  BY <1>1, <1>2, <1>4, <1>5 DEF IsTail
<1> QED BY <1>6 DEF g, b

LEMMA TailOfTail ==
  ASSUME NEW f, NEW g, NEW a, NEW o, NEW j, IsTail(g, f, j), IsTail(f, a, o)
  PROVE  IsTail(g, a, o + j)
<1>1. PICK n \in Nat : /\ n = Len(g) /\ Len(f) = n + j /\ Len(a) = n + j + o
                       /\ j \in Nat /\ o \in Nat
  BY DEF IsTail, Ordered
<1>2. ASSUME NEW i \in 1..n PROVE g[i] = a[i + (o + j)]
  <2>1. i + j \in 1..Len(f) /\ i + j + o = i + (o + j)
    BY <1>1
  <2>2. g[i] = f[i + j] /\ f[i + j] = a[i + j + o]
    BY <1>1, <2>1 DEF IsTail
  <2> QED BY <2>1, <2>2
<1>3. o + j \in Nat /\ Len(a) = Len(g) + (o + j)
  BY <1>1
<1> QED BY <1>1, <1>2, <1>3 DEF IsTail

LEMMA InitTrimInv == FixInit => TrimInv
<1> SUFFICES ASSUME FixInit PROVE TrimInv
  OBVIOUS
<1>1. fixes = <<>> /\ all = <<>> /\ Len(all) = 0 /\ Len(fixes) = 0
  BY DEF FixInit
<1>2. FixInv /\ Ordered(<<>>)
  BY <1>1, InitFixInv DEF FixInv
<1> QED BY <1>1, <1>2 DEF TrimInv, IsTail

\* A fix q that is k older than a fix r not after the newest, p.
LEMMA AgedEnough ==
  ASSUME NEW p \in Nat, NEW q \in Nat, NEW r \in Nat, NEW z \in Nat, NEW m \in Nat,
         NEW x \in Nat, NEW k \in Int,
         r <= p, r - q >= k, k > z + m, x <= m
  PROVE  p - q > z + x
OBVIOUS

\* What is dropped when a fix is stored, or was before, has the age it needs.
LEMMA StoreTrimInv == ASSUME TrimInv, Store PROVE TrimInv'
<1> DEFINE t == IF all = <<>> THEN 0 ELSE all[Len(all)] + every
           f == Append(fixes, t)
           a == Append(all, t)
           o == Len(all) - Len(fixes)
<1> USE FixParams, BufferParams, TrimParams
<1>1. /\ fixes' = Trimmed(f) /\ all' = a /\ every' = every /\ changes' = changes
  BY DEF Store
<1>2. /\ FixInv' /\ FixInv /\ IsTail(fixes, all, o)
      /\ fixes \in Seq(Nat) /\ all \in Seq(Nat) /\ every \in Intervals /\ every \in Nat \ {0}
  BY NextFixInv DEF TrimInv, FixInv, FixTypeOK, FixNext
<1>3. PICK n \in Nat : n = Len(all) /\ \A i \in 1..n : all[i] \in Nat
  <2>1. all \in Seq(Nat)
    BY <1>2
  <2>2. Len(all) \in Nat /\ \A i \in 1..Len(all) : all[i] \in Nat
    BY <2>1
  <2> QED BY <2>2
<1>4. /\ t \in Nat /\ (all # <<>> => all[n] < t /\ t - all[n] = every)
      /\ (fixes # <<>> => fixes[Len(fixes)] < t)
  <2>1. CASE all = <<>>
    BY <1>2, <2>1 DEF FixInv
  <2>2. CASE all # <<>>
    <3>1. n \in 1..n
      BY <1>2, <1>3, <2>2
    <3>2. t = all[n] + every /\ all[n] \in Nat
      BY <1>3, <2>2, <3>1
    <3>3. fixes[Len(fixes)] = all[n]
      BY <1>2, <1>3, <2>2 DEF FixInv
    <3> HIDE DEF t
    <3>4. PICK x \in Nat, y \in Nat \ {0} : x = all[n] /\ y = every /\ t = x + y
      BY <1>2, <3>2
    <3>5. t \in Nat /\ x < t /\ t - x = y
      BY <3>4
    <3> QED BY <3>3, <3>4, <3>5
  <2> QED BY <2>1, <2>2
<1> HIDE DEF t
<1>5. IsTail(f, a, o)
  <2> HIDE DEF o
  <2> QED BY <1>2, <1>3, <1>4, AppendKeepsTail
<1>6. /\ Ordered(f) /\ Ordered(a) /\ o \in Nat /\ Len(a) = n + 1 /\ a[n + 1] = t
      /\ \A i \in 1..n : a[i] = all[i]
      /\ Len(f) = n + 1 - o /\ f # <<>> /\ Len(f) \in Nat \ {0} /\ Len(fixes) = n - o
  <2>1. Ordered(f) /\ Ordered(a) /\ o \in Nat
    BY <1>5 DEF IsTail
  <2>2. /\ Len(a) = n + 1 /\ a[n + 1] = t /\ \A i \in 1..n : a[i] = all[i]
        /\ Len(f) = Len(fixes) + 1 /\ Len(fixes) \in Nat /\ f # <<>>
    <3>1. all \in Seq(Nat) /\ fixes \in Seq(Nat)
      BY <1>2
    <3>2. Len(a) = n + 1 /\ a[n + 1] = t /\ \A i \in 1..n : a[i] = all[i]
      BY <1>3, <1>4, <3>1
    <3>3. Len(fixes) \in Nat
      BY <3>1
    <3>4. Len(f) = Len(fixes) + 1
      BY <1>4, <3>1
    <3>5. f # <<>>
      BY <3>3, <3>4
    <3> QED BY <3>2, <3>3, <3>4, <3>5
  <2> QED BY <1>3, <2>1, <2>2
<1>7. ASSUME NEW i \in 2..(n + 1) PROVE Interval(a, i) \in Intervals
  <2>1. CASE i = n + 1
    <3>1. n \in 1..n /\ all # <<>> /\ i - 1 = n
      BY <1>2, <1>3, <2>1
    <3>2. Interval(a, i) = t - all[n]
      BY <1>6, <2>1, <3>1 DEF Interval
    <3> QED BY <1>2, <1>4, <3>1, <3>2
  <2>2. CASE i # n + 1
    <3>1. i \in 2..n /\ i - 1 \in 1..n /\ i \in 1..n
      BY <1>3, <2>2
    <3>2. Interval(a, i) = Interval(all, i)
      BY <1>6, <3>1 DEF Interval
    <3> QED BY <1>3, <3>1, <3>2 DEF TrimInv
  <2> QED BY <2>1, <2>2
<1>8. PICK j \in 0..(Len(f) - 1) :
        /\ IsTail(Trimmed(f), f, j)
        /\ j > 0 => /\ Len(Trimmed(f)) >= KMinFixes
                    /\ \/ Len(f) - j >= KMaxFixes
                       \/ f[Len(f)] - f[j] > Keep(FixPeriod(f))
  <2> HIDE DEF f
  <2> QED BY <1>6, TrimDrops
<1> DEFINE g == Trimmed(f)
<1> HIDE DEF f, a, o, g
<1>9. IsTail(g, a, o + j) /\ Len(a) - Len(g) = o + j /\ Len(g) \in Nat /\ j \in Nat
  <2>1. IsTail(g, a, o + j)
    BY <1>5, <1>8, TailOfTail DEF g
  <2>2. Len(g) \in Nat /\ Len(a) = Len(g) + (o + j)
    BY <2>1 DEF IsTail, Ordered
  <2> QED BY <1>6, <1>8, <2>1, <2>2
<1>10. ASSUME o + j > 0
       PROVE  Len(g) >= KMinFixes /\ a[n + 1] - a[o + j] > Spare(a)
  <2>1. CASE j = 0
    <3>1. o > 0 /\ Len(fixes) < Len(all) /\ Len(all) - Len(fixes) = o
      BY <1>3, <1>6, <1>10, <2>1
    <3>2. Len(fixes) >= KMinFixes /\ all[n] - all[o] > Spare(all)
      BY <1>3, <3>1 DEF TrimInv
    <3>3. Len(g) >= KMinFixes /\ n >= KMinFixes
      BY <1>6, <1>9, <2>1, <3>2
    <3>4. n \in 1..n /\ o \in 1..n /\ o + j = o /\ all # <<>>
      <4>1. n \in 1..n /\ o \in 1..n /\ o + j = o
        BY <1>6, <2>1, <3>1, <3>2, <3>3
      <4> QED BY <1>3, <4>1
    <3>5. FixPeriod(a) <= FixPeriod(all) \/ FixPeriod(a) <= t - all[n]
      BY <1>2, <1>3, <1>4, <3>3, <3>4, PeriodRises DEF a, IsTail
    <3>6. PICK x \in Nat, y \in Nat : x = FixPeriod(a) /\ y = FixPeriod(all)
      <4>1. Len(a) >= 3 /\ Len(all) >= 3 /\ Ordered(all)
        BY <1>2, <1>3, <1>6, <3>3 DEF IsTail
      <4>2. FixPeriod(a) \in Nat \ {0} /\ FixPeriod(all) \in Nat \ {0}
        BY <1>6, <4>1, PeriodIsInterval
      <4> QED BY <4>2
    <3>7. PICK p \in Nat, q \in Nat, d \in Nat :
            p = all[n] /\ q = all[o] /\ d = t - all[n] /\ t = p + d
      <4>1. all[n] \in Nat /\ all[o] \in Nat /\ t - all[n] \in Nat
        BY <1>2, <1>3, <1>4, <3>4
      <4>2. t = all[n] + (t - all[n])
        BY <1>4, <4>1
      <4> QED BY <4>1, <4>2
    <3>8. Fewer(x, PeriodMax) <= Fewer(y, PeriodMax) + d
          /\ Fewer(x, PeriodMax) \in Nat /\ Fewer(y, PeriodMax) \in Nat
      <4>1. x <= y \/ x <= d
        BY <3>5, <3>6, <3>7
      <4> QED BY <4>1 DEF Fewer
    <3>9. PICK z \in Nat : z = Keep(0)
      BY KeepGrows
    <3>10. p - q > z + Fewer(y, PeriodMax)
      BY <3>2, <3>6, <3>7, <3>9 DEF Spare
    <3>11. p + d - q > z + Fewer(x, PeriodMax)
      BY <3>8, <3>10
    <3>12. a[n + 1] - a[o + j] = p + d - q
      <4>1. a[n + 1] = p + d
        BY <1>6, <3>7
      <4>2. a[o + j] = q
        BY <1>6, <3>4, <3>7
      <4> QED BY <4>1, <4>2
    <3> QED BY <3>3, <3>6, <3>9, <3>11, <3>12 DEF Spare
  <2>2. CASE j > 0
    <3>1. /\ Len(g) >= KMinFixes
          /\ Len(f) - j >= KMaxFixes \/ f[Len(f)] - f[j] > Keep(FixPeriod(f))
      BY <1>8, <2>2 DEF g
    <3>2. /\ f[j] = a[o + j] /\ f[Len(f)] = a[n + 1] /\ o + j \in 1..(n + 1)
      <4>1. j \in 1..Len(f) /\ Len(f) \in 1..Len(f) /\ j + o = o + j /\ Len(f) + o = n + 1
        BY <1>6, <1>8, <2>2
      <4>2. f[j] = a[j + o] /\ f[Len(f)] = a[Len(f) + o]
        BY <1>5, <4>1 DEF IsTail
      <4> QED BY <1>6, <4>1, <4>2
    <3>3. Len(f) >= KMinFixes
      BY <1>6, <1>8, <1>9, <3>1 DEF IsTail, g
    <3>4. PICK T \in Nat : T = FixPeriod(f) /\ T = FixPeriod(a)
      <4>1. FixPeriod(f) = FixPeriod(a)
        BY <1>5, <3>3, TailPeriod
      <4>2. Len(f) >= 3
        BY <1>6, <3>3
      <4> QED BY <1>6, <4>1, <4>2, PeriodIsInterval
    <3>5. PICK z \in Nat : z = Keep(0)
      BY KeepGrows
    <3>6. Fewer(T, PeriodMax) \in Nat /\ Fewer(T, PeriodMax) <= T /\ Fewer(T, PeriodMax) <= PeriodMax
      BY DEF Fewer
    <3>7. PICK p \in Nat, q \in Nat : p = a[n + 1] /\ q = a[o + j]
      <4>1. n + 1 \in 1..(n + 1) /\ \A i \in 1..(n + 1) : a[i] \in Nat
        <5>1. a \in Seq(Nat)
          BY <1>6 DEF Ordered
        <5> QED BY <1>6, <5>1
      <4> QED BY <3>2, <4>1
    <3>8. CASE f[Len(f)] - f[j] > Keep(FixPeriod(f))
      <4>1. p - q > Keep(T) /\ Keep(T) >= z + T /\ Keep(T) \in Nat
        BY <3>2, <3>4, <3>5, <3>7, <3>8, KeepGrows
      <4>2. p - q > z + Fewer(T, PeriodMax)
        BY <3>6, <4>1
      <4> QED BY <3>1, <3>4, <3>5, <3>7, <4>2 DEF Spare
    <3>9. CASE Len(f) - j >= KMaxFixes
      <4>1. PICK L \in Intervals : \A d \in Intervals : L <= d
        <5>1. Intervals \subseteq Nat /\ Intervals # {}
          BY <1>2
        <5> QED BY <5>1, LeastNatural
      <4>2. L \in Nat /\ KMaxFixes * L > z + PeriodMax
        BY <3>5, <4>1
      <4>3. KMaxFixes \in 0..(Len(a) - (o + j)) /\ o + j \in 1..Len(a)
        BY <1>6, <1>8, <3>2, <3>9
      <4>4. \A i \in 2..Len(a) : L <= Interval(a, i)
        BY <1>6, <1>7, <4>1
      <4>5. a[o + j + KMaxFixes] - a[o + j] >= KMaxFixes * L
        BY <1>6, <4>2, <4>3, <4>4, ManyTakeLong
      <4>6. PICK r \in Nat : r = a[o + j + KMaxFixes] /\ r <= p
        <5>1. /\ o + j + KMaxFixes \in 1..Len(a) /\ n + 1 \in 1..Len(a)
              /\ o + j + KMaxFixes = n + 1 \/ o + j + KMaxFixes < n + 1
          BY <1>6, <3>2, <4>3
        <5>2. PICK i \in 1..Len(a) : i = o + j + KMaxFixes /\ (i = n + 1 \/ i < n + 1)
          BY <5>1
        <5>3. a[i] \in Nat /\ (i < n + 1 => a[i] < a[n + 1])
          <6>1. a \in Seq(Nat)
            BY <1>6 DEF Ordered
          <6>2. i < n + 1 => a[i] < a[n + 1]
            BY <1>6, <5>1 DEF Ordered
          <6> QED BY <6>1, <6>2
        <5> QED BY <3>7, <5>2, <5>3
      <4>7. PICK k \in Int : k > z + PeriodMax /\ r - q >= k
        <5>1. KMaxFixes * L \in Int
          BY <4>2
        <5>2. r - q >= KMaxFixes * L
          BY <3>7, <4>5, <4>6
        <5> QED BY <4>2, <5>1, <5>2
      <4>8. p - q > z + Fewer(T, PeriodMax)
        <5>1. PeriodMax \in Nat
          BY FixParams
        <5> QED BY <3>6, <4>6, <4>7, <5>1, AgedEnough
      <4> QED BY <3>1, <3>4, <3>5, <3>7, <4>8 DEF Spare
    <3> QED BY <3>1, <3>8, <3>9
  <2> QED BY <1>9, <2>1, <2>2
<1>11. IsTail(fixes', all', Len(all') - Len(fixes'))
  BY <1>1, <1>9 DEF g
<1>12. \A i \in 2..Len(all') : Interval(all', i) \in Intervals
  BY <1>1, <1>6, <1>7
<1>13. Len(fixes') < Len(all') =>
         /\ Len(fixes') >= KMinFixes
         /\ all'[Len(all')] - all'[Len(all') - Len(fixes')] > Spare(all')
  <2> SUFFICES ASSUME Len(fixes') < Len(all')
               PROVE  /\ Len(fixes') >= KMinFixes
                      /\ all'[Len(all')] - all'[Len(all') - Len(fixes')] > Spare(all')
    OBVIOUS
  <2>1. fixes' = g /\ all' = a /\ Len(a) = n + 1 /\ Len(a) - Len(g) = o + j
    BY <1>1, <1>6, <1>9 DEF g
  <2>2. o + j > 0
    BY <1>6, <1>9, <2>1
  <2> QED BY <1>10, <2>1, <2>2
<1> QED BY <1>2, <1>11, <1>12, <1>13 DEF TrimInv

LEMMA NextTrimInv == TrimInv /\ [FixNext]_fixVars => TrimInv'
<1> SUFFICES ASSUME TrimInv, [FixNext]_fixVars PROVE TrimInv'
  OBVIOUS
<1>1. FixInv'
  BY NextFixInv DEF TrimInv
<1>2. CASE Store
  BY <1>2, StoreTrimInv
<1>3. CASE Align
  <2>1. fixes' = <<>> /\ all' = <<>> /\ Len(fixes') = 0 /\ Len(all') = 0
    BY <1>3 DEF Align
  <2>2. Ordered(<<>>)
    BY <1>1, <2>1 DEF FixInv
  <2> QED BY <1>1, <2>1, <2>2 DEF TrimInv, IsTail
<1>4. CASE ChangeRate \/ UNCHANGED fixVars
  <2>1. fixes' = fixes /\ all' = all
    BY <1>4 DEF ChangeRate, fixVars
  <2> QED BY <1>1, <2>1 DEF TrimInv
<1> QED BY <1>2, <1>3, <1>4 DEF FixNext

LEMMA AlwaysTrimInv == FixSpec => []TrimInv
BY InitTrimInv, NextTrimInv, PTL DEF FixSpec

\* The largest index of a set is the one no other is above.
LEMMA MaxIs ==
  ASSUME NEW S, S \subseteq Nat, NEW x \in S, \A y \in S : y <= x
  PROVE  Max(S) = x
<1>1. \A y \in S : (\A z \in S : y >= z) => y = x
  <2> SUFFICES ASSUME NEW y \in S, \A z \in S : y >= z PROVE y = x
    OBVIOUS
  <2>1. y \in Nat /\ x \in Nat /\ y <= x /\ y >= x
    OBVIOUS
  <2> QED BY <2>1
<1> QED BY <1>1 DEF Max

\* The latest of some fixes, in what is left of the list and in the whole list.
LEMMA TailMax ==
  ASSUME NEW n \in Nat, NEW o \in Nat, NEW P, P \subseteq 1..n, NEW Q, Q \subseteq 1..(n + o),
         \A i \in 1..n : i \in P <=> i + o \in Q
  PROVE  /\ P # {} => Max(P) \in P /\ Max(Q) = Max(P) + o
         /\ Q # {} /\ Max(Q) > o => P # {}
<1>1. ASSUME P # {} PROVE Max(P) \in P /\ Max(Q) = Max(P) + o
  <2>1. PICK x : x \in P /\ x = Max(P)
    BY <1>1, MaxOfIndices
  <2>2. \A y \in P : y <= x
    BY <1>1, <2>1, MaxOfIndices
  <2>3. x + o \in Q /\ x \in 1..n
    BY <2>1
  <2>4. ASSUME NEW y \in Q PROVE y <= x + o
    <3>1. y \in 1..(n + o)
      OBVIOUS
    <3>2. CASE y <= o
      BY <2>3, <3>1, <3>2
    <3>3. CASE y > o
      <4>1. y - o \in 1..n /\ (y - o) + o = y
        BY <3>1, <3>3
      <4>2. y - o \in P
        BY <4>1
      <4>3. y - o <= x
        BY <2>2, <4>2
      <4> QED BY <2>3, <3>1, <4>3
    <3> QED BY <2>3, <3>1, <3>2, <3>3
  <2>5. Q \subseteq Nat
    OBVIOUS
  <2>6. Max(Q) = x + o
    BY <2>3, <2>4, <2>5, MaxIs
  <2> QED BY <2>1, <2>6
<1>2. ASSUME Q # {}, Max(Q) > o PROVE P # {}
  <2>1. PICK y : y = Max(Q) /\ y \in Q
    <3>1. n + o \in Nat
      OBVIOUS
    <3> QED BY <1>2, <3>1, MaxOfIndices
  <2>2. y \in 1..(n + o) /\ y > o
    BY <1>2, <2>1
  <2>3. y - o \in 1..n /\ (y - o) + o = y
    BY <2>2
  <2> QED BY <2>1, <2>3
<1> QED BY <1>1, <1>2

\* A span begins with the same fix in both lists, if it is left.
LEMMA TailSpan ==
  ASSUME NEW f, NEW a, NEW o, IsTail(f, a, o), NEW T, NEW k \in 1..Len(f), NEW l, l = k + o
  PROVE  /\ SpanBegin(f, k, T) > 0 =>
              /\ SpanBegin(f, k, T) \in 1..(k - 2)
              /\ SpanBegin(a, l, T) = SpanBegin(f, k, T) + o
              /\ 2 * (f[k] - f[SpanBegin(f, k, T)]) >= 2 * Spans(T).span - T
         /\ SpanBegin(a, l, T) > o => SpanBegin(f, k, T) > 0
<1> DEFINE P == {j \in 1..(k - 2) : 2 * (f[k] - f[j]) >= 2 * Spans(T).span - T}
           Q == {j \in 1..(l - 2) : 2 * (a[l] - a[j]) >= 2 * Spans(T).span - T}
<1>1. PICK n \in Nat : n = Len(f) /\ o \in Nat /\ k \in 1..n /\ k \in Nat
  BY DEF IsTail, Ordered
<1>2. P \subseteq 1..k /\ Q \subseteq 1..(k + o)
  BY <1>1
<1>3. ASSUME NEW i \in 1..k PROVE i \in P <=> i + o \in Q
  <2>1. i + o \in 1..(l - 2) <=> i \in 1..(k - 2)
    BY <1>1
  <2>2. f[i] = a[i + o] /\ f[k] = a[l]
    BY <1>1 DEF IsTail
  <2> QED BY <2>1, <2>2
<1>4. /\ SpanBegin(f, k, T) = IF P = {} THEN 0 ELSE Max(P)
      /\ SpanBegin(a, l, T) = IF Q = {} THEN 0 ELSE Max(Q)
  <2>1. SpanBegin(f, k, T) = IF P = {} THEN 0 ELSE Max(P)
    BY DEF SpanBegin
  <2>2. SpanBegin(a, l, T) = IF Q = {} THEN 0 ELSE Max(Q)
    BY DEF SpanBegin
  <2> QED BY <2>1, <2>2
<1>5. \A j \in P : j \in 1..(k - 2) /\ 2 * (f[k] - f[j]) >= 2 * Spans(T).span - T /\ j > 0
  BY <1>1
<1>6. \A j \in Q : j > 0
  BY <1>1
<1> HIDE DEF P, Q
<1>7. /\ P # {} => Max(P) \in P /\ Max(Q) = Max(P) + o
      /\ Q # {} /\ Max(Q) > o => P # {}
      /\ P # {} => Q # {}
  <2>1. /\ P # {} => Max(P) \in P /\ Max(Q) = Max(P) + o
        /\ Q # {} /\ Max(Q) > o => P # {}
    BY <1>1, <1>2, <1>3, TailMax
  <2>2. P # {} => Q # {}
    BY <1>2, <1>3
  <2> QED BY <2>1, <2>2
<1>8. ~(0 > o) /\ ~(0 > 0)
  BY <1>1
<1> QED BY <1>4, <1>5, <1>7, <1>8

\* So does the window.
LEMMA TailWindow ==
  ASSUME NEW f, NEW a, NEW o, IsTail(f, a, o), NEW T
  PROVE  /\ WindowBegin(f, T) > 1 => /\ WindowBegin(f, T) \in 1..(Len(f) - 1)
                                     /\ WindowBegin(a, T) = WindowBegin(f, T) + o
         /\ WindowBegin(a, T) > o + 1 => WindowBegin(f, T) > 1
<1> DEFINE n == Len(f)
           P == {i \in 1..(n - 1) : 2 * (f[n] - f[i]) >= Spans(T).window2}
           Q == {i \in 1..(Len(a) - 1) : 2 * (a[Len(a)] - a[i]) >= Spans(T).window2}
<1>1. n \in Nat /\ Len(a) = n + o /\ o \in Nat
  BY DEF IsTail, Ordered
<1>2. P \subseteq 1..n /\ Q \subseteq 1..(n + o)
  BY <1>1
<1>3. ASSUME NEW i \in 1..n PROVE i \in P <=> i + o \in Q
  <2>1. (i + o \in 1..(Len(a) - 1) <=> i \in 1..(n - 1)) /\ n \in 1..n
    BY <1>1
  <2>2. f[i] = a[i + o] /\ f[n] = a[Len(a)]
    BY <1>1, <2>1 DEF IsTail
  <2> QED BY <2>1, <2>2
<1>4. /\ WindowBegin(f, T) = IF P = {} THEN 1 ELSE Max(P)
      /\ WindowBegin(a, T) = IF Q = {} THEN 1 ELSE Max(Q)
  BY DEF WindowBegin
<1>5. P \subseteq 1..(n - 1)
  OBVIOUS
<1> HIDE DEF P, Q, n
<1>6. /\ P # {} => Max(P) \in P /\ Max(Q) = Max(P) + o /\ Q # {}
      /\ Q # {} /\ Max(Q) > o => P # {}
  <2>1. /\ P # {} => Max(P) \in P /\ Max(Q) = Max(P) + o
        /\ Q # {} /\ Max(Q) > o => P # {}
    BY <1>1, <1>2, <1>3, TailMax
  <2>2. P # {} => Q # {}
    BY <1>2, <1>3
  <2> QED BY <2>1, <2>2
<1>7. CASE P # {}
  <2>1. PICK x \in 1..(n - 1) : x = Max(P) /\ WindowBegin(f, T) = x /\ WindowBegin(a, T) = x + o
    BY <1>4, <1>5, <1>6, <1>7
  <2> QED BY <1>1, <2>1 DEF n
<1>8. CASE P = {}
  <2>1. WindowBegin(f, T) = 1 /\ ~(1 > 1) /\ ~(1 > o + 1)
    BY <1>1, <1>4, <1>8
  <2>2. CASE Q = {}
    BY <1>4, <2>1, <2>2
  <2>3. CASE Q # {}
    <3>1. PICK y \in Nat : y = Max(Q)
      <4>1. n + o \in Nat
        BY <1>1
      <4>2. Max(Q) \in Q
        BY <1>2, <2>3, <4>1, MaxOfIndices
      <4>3. Max(Q) \in 1..(n + o)
        BY <1>2, <4>2
      <4>4. \A i \in 1..(n + o) : i \in Nat
        OBVIOUS
      <4> QED BY <4>3, <4>4
    <3>2. ~(y > o)
      BY <1>6, <1>8, <2>3, <3>1
    <3>3. ~(y > o + 1)
      BY <1>1, <3>1, <3>2
    <3> QED BY <1>4, <2>1, <2>3, <3>1, <3>3
  <2> QED BY <2>2, <2>3
<1> QED BY <1>7, <1>8

\* The lengths of an alignment are numbers, and the history that is checked is no
\* longer than what it can look back.
LEMMA SpansTyped ==
  ASSUME NEW T \in Nat
  PROVE  /\ Spans(T).span \in Nat /\ Spans(T).window2 \in Nat
         /\ Spans(T).gap2 \in Nat /\ Spans(T).history2 \in Nat
         /\ Larger(2 * Second, 3 * T) \in Nat /\ Larger(4 * Second, 5 * Spans(T).span) \in Nat
         /\ Reach2(T) = Spans(T).window2 + Larger(2 * Second, 3 * T)
                          + Larger(4 * Second, 5 * Spans(T).span)
         /\ Reach2(T) \in Nat /\ Spans(T).history2 <= Reach2(T)
<1> USE FixParams, TrimParams
<1>1. PICK s \in Nat : s = Spans(T).span /\ s >= 2 * T
  BY DEF Spans, Larger
<1>2. PICK w \in Nat : w = Spans(T).window2
  <2>1. Larger(2 * WindowMin, 3 * s) \in Nat
    BY DEF Larger
  <2> QED BY <1>1, <2>1 DEF Spans
<1>3. Spans(T).gap2 \in Nat
  BY DEF Spans, Larger
<1>4. PICK l \in Nat, r \in Nat : l = Larger(2 * Second, 3 * T) /\ r = Larger(4 * Second, 5 * s)
  BY DEF Larger
<1>5. Larger(2 * Second, 2 * s + Larger(2 * Jitter, T)) \in Nat
      /\ Larger(2 * Second, 2 * s + Larger(2 * Jitter, T)) <= Larger(4 * Second, 5 * s)
  <2>1. PICK j \in Nat : /\ j = Larger(2 * Jitter, T)
                         /\ j <= 2 * Second \/ j <= s
    <3>1. Second \in Nat /\ Jitter \in Nat /\ Jitter <= Second /\ T <= s
      BY <1>1
    <3> QED BY <3>1 DEF Larger
  <2>2. PICK c \in Nat : c = Second
    OBVIOUS
  <2>3. Larger(2 * c, 2 * s + j) \in Nat /\ Larger(2 * c, 2 * s + j) <= Larger(4 * c, 5 * s)
    BY <2>1, <2>2 DEF Larger
  <2> QED BY <2>1, <2>2, <2>3
<1>6. Spans(T).history2 = w + Larger(2 * Second, 2 * s + Larger(2 * Jitter, T))
  BY <1>1, <1>2 DEF Spans
<1>7. Reach2(T) = w + l + r
  BY <1>1, <1>2, <1>4 DEF Reach2
<1> QED BY <1>1, <1>2, <1>3, <1>4, <1>5, <1>6, <1>7

\* A velocity is the same in both lists, if its span is left.
LEMMA TailVelocity ==
  ASSUME NEW f, NEW a, NEW o, IsTail(f, a, o), NEW T, NEW k \in 1..Len(f),
         SpanBegin(f, k, T) > 0
  PROVE  VelocityAt(f, k, T) <=> VelocityAt(a, k + o, T)
<1>1. PICK j \in 1..(k - 2) : j = SpanBegin(f, k, T) /\ SpanBegin(a, k + o, T) = j + o /\ j > 0
  BY TailSpan
<1>2. Len(f) \in Nat /\ o \in Nat
  BY DEF IsTail, Ordered
<1>3. j \in 1..Len(f) /\ j + o > 0
  BY <1>1, <1>2
<1>4. f[k] = a[k + o] /\ f[j] = a[j + o]
  BY <1>3 DEF IsTail
<1> QED BY <1>1, <1>3, <1>4 DEF VelocityAt

\* What is long enough ago for an earlier fix is so for a later one.
LEMMA LongerLooksBack ==
  ASSUME NEW x \in Nat, NEW y \in Nat, NEW z \in Nat, NEW s \in Nat, NEW T \in Nat,
         x <= y, 2 * (x - z) >= 2 * s - T
  PROVE  2 * (y - z) >= 2 * s - T
OBVIOUS

\* When the older velocity has a span, so has the newest.
LEMMA LaterSpan ==
  ASSUME NEW f, Ordered(f), NEW T \in Nat, NEW e \in 1..Len(f), NEW b \in 1..(e - 2),
         2 * (f[e] - f[b]) >= 2 * Spans(T).span - T
  PROVE  SpanBegin(f, Len(f), T) > 0
<1> DEFINE long == {j \in 1..(Len(f) - 2) : 2 * (f[Len(f)] - f[j]) >= 2 * Spans(T).span - T}
<1>1. PICK n \in Nat : n = Len(f) /\ \A i \in 1..n : f[i] \in Nat
  <2>1. f \in Seq(Nat)
    BY DEF Ordered
  <2>2. Len(f) \in Nat /\ \A i \in 1..Len(f) : f[i] \in Nat
    BY <2>1
  <2> QED BY <2>2
<1>2. b \in 1..(n - 2) /\ b \in 1..n /\ n \in 1..n /\ e \in 1..n /\ (e = n \/ e < n)
  BY <1>1
<1>3. f[e] <= f[n] /\ f[e] \in Nat /\ f[n] \in Nat /\ f[b] \in Nat
  <2>1. f[e] \in Nat /\ f[n] \in Nat /\ f[b] \in Nat
    BY <1>1, <1>2
  <2>2. e < n => f[e] < f[n]
    BY <1>1, <1>2 DEF Ordered
  <2> QED BY <1>2, <2>1, <2>2
<1>4. 2 * (f[n] - f[b]) >= 2 * Spans(T).span - T
  <2>1. PICK s \in Nat : s = Spans(T).span
    BY SpansTyped
  <2>2. PICK x \in Nat, y \in Nat, z \in Nat : x = f[e] /\ y = f[n] /\ z = f[b] /\ x <= y
    BY <1>3
  <2>3. 2 * (x - z) >= 2 * s - T
    BY <2>1, <2>2
  <2>4. 2 * (y - z) >= 2 * s - T
    BY <2>2, <2>3, LongerLooksBack
  <2> QED BY <2>1, <2>2, <2>4
<1>5. b \in long
  BY <1>1, <1>2, <1>4
<1>6. long \subseteq 1..n
  BY <1>1
<1>7. Max(long) \in long
  <2> HIDE DEF long
  <2> QED BY <1>1, <1>5, <1>6, MaxOfIndices
<1>8. SpanBegin(f, Len(f), T) = Max(long)
  <2>1. long # {}
    BY <1>5
  <2> HIDE DEF long
  <2> QED BY <2>1 DEF SpanBegin, long
<1> QED BY <1>1, <1>6, <1>7, <1>8

\* What is older than a time that is out of reach is out of reach too.
LEMMA OlderIsOlder ==
  ASSUME NEW x \in Nat, NEW y \in Nat, NEW z \in Nat, NEW h \in Nat,
         x <= y, 2 * (z - y) > h
  PROVE  ~(2 * (z - x) <= h)
OBVIOUS

\* A gap is seen in both lists: what is not left is older than the history.
LEMMA TailGaps ==
  ASSUME NEW f, NEW a, NEW o, IsTail(f, a, o), NEW T \in Nat,
         o > 0, 2 * (a[Len(a)] - a[o]) > Spans(T).history2,
         NEW e, e = WindowBegin(f, T), NEW b, b = SpanBegin(f, e, T),
         WindowBegin(a, T) = e + o, SpanBegin(a, e + o, T) = b + o,
         e \in 1..Len(f), b \in 1..(e - 2)
  PROVE  GapFree(f, T) <=> GapFree(a, T)
<1>1. PICK n \in Nat : /\ n = Len(f) /\ Len(a) = n + o /\ o \in Nat \ {0} /\ e \in 1..n
                       /\ \A i \in 1..n : f[i] = a[i + o] /\ f[i] \in Nat
  <2>1. f \in Seq(Nat)
    BY DEF IsTail, Ordered
  <2>2. Len(f) \in Nat /\ \A i \in 1..Len(f) : f[i] \in Nat
    BY <2>1
  <2>3. Len(a) = Len(f) + o /\ o \in Nat \ {0} /\ \A i \in 1..Len(f) : f[i] = a[i + o]
    BY DEF IsTail
  <2> QED BY <2>2, <2>3
<1>2. \A i \in 1..(n + o) : a[i] \in Nat
  <2>1. a \in Seq(Nat)
    BY DEF IsTail, Ordered
  <2>2. \A i \in 1..Len(a) : a[i] \in Nat
    BY <2>1
  <2> QED BY <1>1, <2>2
<1>3. PICK h \in Nat, g \in Nat : h = Spans(T).history2 /\ g = Spans(T).gap2
  BY SpansTyped
<1> DEFINE FreeF(i) == 2 * Interval(f, i) <= g
           FreeA(i) == 2 * Interval(a, i) <= g
           NearF(i) == 2 * (f[n] - f[i - 1]) <= h
           NearA(i) == 2 * (a[n + o] - a[i - 1]) <= h
<1>4. ASSUME NEW i \in 2..n
      PROVE  (FreeF(i) <=> FreeA(i + o)) /\ (NearF(i) <=> NearA(i + o)) /\ i + o \in 2..(n + o)
  <2>1. i \in 1..n /\ i - 1 \in 1..n /\ n \in 1..n /\ i + o \in 2..(n + o) /\ (i + o) - 1 = (i - 1) + o
    BY <1>1
  <2>2. f[i] = a[i + o] /\ f[i - 1] = a[(i + o) - 1] /\ f[n] = a[n + o]
    BY <1>1, <2>1
  <2>3. Interval(f, i) = f[i] - f[i - 1] /\ Interval(a, i + o) = a[i + o] - a[(i + o) - 1]
    BY DEF Interval
  <2>4. Interval(f, i) = Interval(a, i + o)
    BY <2>2, <2>3
  <2>5. NearF(i) <=> 2 * (f[n] - f[i - 1]) <= h
    OBVIOUS
  <2>6. NearA(i + o) <=> 2 * (a[n + o] - a[(i + o) - 1]) <= h
    OBVIOUS
  <2>7. NearF(i) <=> NearA(i + o)
    BY <2>2, <2>5, <2>6
  <2>8. FreeF(i) <=> FreeA(i + o)
    BY <2>4
  <2> QED BY <2>1, <2>7, <2>8
<1>5. ASSUME NEW i \in 2..(n + o), i - 1 <= o PROVE ~NearA(i)
  <2>1. i - 1 \in 1..(n + o) /\ o \in 1..(n + o) /\ (i - 1 = o \/ i - 1 < o) /\ n + o \in 1..(n + o)
    BY <1>1, <1>5
  <2>2. PICK x \in Nat, y \in Nat, z \in Nat :
          x = a[i - 1] /\ y = a[o] /\ z = a[n + o] /\ x <= y
    <3>1. a[i - 1] \in Nat /\ a[o] \in Nat /\ a[n + o] \in Nat
      BY <1>2, <2>1
    <3>2. i - 1 < o => a[i - 1] < a[o]
      <4>1. \A j, k \in 1..Len(a) : j < k => a[j] < a[k]
        BY DEF IsTail, Ordered
      <4>2. Len(a) = n + o
        BY <1>1
      <4>3. i - 1 \in 1..Len(a) /\ o \in 1..Len(a)
        BY <2>1, <4>2
      <4> QED BY <4>1, <4>3
    <3>3. PICK x \in Nat, y \in Nat, z \in Nat : x = a[i - 1] /\ y = a[o] /\ z = a[n + o]
      BY <3>1
    <3>4. (i - 1 < o => x < y) /\ (i - 1 = o => x = y)
      BY <3>2, <3>3
    <3>5. i - 1 = o \/ i - 1 < o
      BY <2>1
    <3>6. x <= y
      BY <3>4, <3>5
    <3> QED BY <3>3, <3>6
  <2>3. 2 * (z - y) > h
    BY <1>1, <1>3, <2>2
  <2>4. ~(2 * (z - x) <= h)
    BY <2>2, <2>3, OlderIsOlder
  <2> QED BY <2>2, <2>4
<1>6. ASSUME NEW i \in 2..(n + o), ~(i - 1 <= o)
      PROVE  i - o \in 2..n /\ (i - o) + o = i
  BY <1>1, <1>6
<1>7. (\A i \in 2..n : NearF(i) => FreeF(i)) <=> (\A i \in 2..(n + o) : NearA(i) => FreeA(i))
  <2> HIDE DEF FreeF, FreeA, NearF, NearA
  <2>1. ASSUME \A i \in 2..n : NearF(i) => FreeF(i), NEW i \in 2..(n + o), NearA(i)
        PROVE  FreeA(i)
    <3>1. i - o \in 2..n /\ (i - o) + o = i
      BY <1>5, <1>6, <2>1
    <3>2. (FreeF(i - o) <=> FreeA(i)) /\ (NearF(i - o) <=> NearA(i))
      BY <1>4, <3>1
    <3> QED BY <2>1, <3>1, <3>2
  <2>2. ASSUME \A i \in 2..(n + o) : NearA(i) => FreeA(i), NEW i \in 2..n, NearF(i)
        PROVE  FreeF(i)
    BY <1>4, <2>2
  <2> QED BY <2>1, <2>2
<1>8. (\A i \in (b + 1)..e : FreeF(i)) <=> (\A i \in (b + o + 1)..(e + o) : FreeA(i))
  <2> HIDE DEF FreeF, FreeA
  <2>0. b \in Nat \ {0} /\ e \in Nat /\ e <= n
    BY <1>1
  <2>1. ASSUME \A i \in (b + 1)..e : FreeF(i), NEW i \in (b + o + 1)..(e + o)
        PROVE  FreeA(i)
    <3>1. i - o \in (b + 1)..e /\ i - o \in 2..n /\ (i - o) + o = i
      BY <1>1, <2>0
    <3>2. FreeF(i - o) <=> FreeA(i)
      BY <1>4, <3>1
    <3> QED BY <2>1, <3>1, <3>2
  <2>2. ASSUME \A i \in (b + o + 1)..(e + o) : FreeA(i), NEW i \in (b + 1)..e
        PROVE  FreeF(i)
    <3>1. i + o \in (b + o + 1)..(e + o) /\ i \in 2..n
      BY <1>1, <2>0
    <3> QED BY <1>4, <2>2, <3>1
  <2> QED BY <2>1, <2>2
<1>9. GapFree(f, T) <=> /\ \A i \in 2..n : NearF(i) => FreeF(i)
                        /\ \A i \in (b + 1)..e : FreeF(i)
  BY <1>1, <1>3 DEF GapFree
<1>10. GapFree(a, T) <=> /\ \A i \in 2..(n + o) : NearA(i) => FreeA(i)
                         /\ \A i \in (b + o + 1)..(e + o) : FreeA(i)
  BY <1>1, <1>3 DEF GapFree
<1> HIDE DEF FreeF, FreeA, NearF, NearA
<1> QED BY <1>7, <1>8, <1>9, <1>10

\* What is left gives the alignment that the whole list gives, when its older
\* velocity begins after the first fix left.
LEMMA TailAligns ==
  ASSUME NEW f, NEW a, NEW o, IsTail(f, a, o), o > 0, Len(f) >= KMinFixes,
         NEW T \in 1..PeriodMax, T = FixPeriod(f),
         2 * (a[Len(a)] - a[o]) > Reach2(T),
         WindowBegin(f, T) > 1, SpanBegin(f, WindowBegin(f, T), T) > 1
  PROVE  /\ TimesAlign(f) <=> TimesAlign(a)
         /\ AlignBegin(f) = AlignBegin(a)
         /\ SpanBegin(a, WindowBegin(a, T), T) > o + 1
<1> USE FixParams, TrimParams
<1>1. PICK n \in Nat : n = Len(f) /\ Len(a) = n + o /\ o \in Nat \ {0} /\ n >= KMinFixes
  BY DEF IsTail, Ordered
<1>2. PICK e \in 1..n : e = WindowBegin(f, T) /\ WindowBegin(a, T) = e + o
  BY <1>1, TailWindow
<1>3. PICK b \in 1..(e - 2) :
        /\ b = SpanBegin(f, e, T) /\ SpanBegin(a, e + o, T) = b + o /\ b > 1
        /\ 2 * (f[e] - f[b]) >= 2 * Spans(T).span - T
  <2>1. SpanBegin(f, e, T) > 1 /\ e \in 1..Len(f)
    BY <1>1, <1>2
  <2>2. SpanBegin(f, e, T) > 0
    <3> DEFINE long == {j \in 1..(e - 2) : 2 * (f[e] - f[j]) >= 2 * Spans(T).span - T}
    <3>1. SpanBegin(f, e, T) = IF long = {} THEN 0 ELSE Max(long)
      BY DEF SpanBegin
    <3>2. long \subseteq 1..e /\ \A j \in long : j \in Nat /\ j > 0
      OBVIOUS
    <3> HIDE DEF long
    <3>3. long # {} /\ SpanBegin(f, e, T) = Max(long)
      BY <2>1, <3>1
    <3>4. Max(long) \in long
      <4>1. e \in Nat
        BY <1>1, <1>2
      <4> QED BY <3>2, <3>3, <4>1, MaxOfIndices
    <3> QED BY <3>2, <3>3, <3>4
  <2>3. /\ SpanBegin(f, e, T) \in 1..(e - 2) /\ SpanBegin(a, e + o, T) = SpanBegin(f, e, T) + o
        /\ 2 * (f[e] - f[SpanBegin(f, e, T)]) >= 2 * Spans(T).span - T
    BY <2>1, <2>2, TailSpan
  <2> QED BY <2>1, <2>2, <2>3
<1>4. T = FixPeriod(a) /\ T \in Nat /\ T > 0 /\ T <= PeriodMax
  BY TailPeriod
<1>5. 2 * (a[Len(a)] - a[o]) > Spans(T).history2
  <2>1. PICK h \in Nat, r \in Nat : h = Spans(T).history2 /\ r = Reach2(T) /\ h <= r
    <3>1. Reach2(T) \in Nat /\ Spans(T).history2 \in Nat /\ Spans(T).history2 <= Reach2(T)
      BY <1>4, SpansTyped
    <3> QED BY <3>1
  <2>2. a[Len(a)] \in Nat /\ a[o] \in Nat
    <3>1. a \in Seq(Nat)
      BY DEF IsTail, Ordered
    <3>2. Len(a) \in 1..Len(a) /\ o \in 1..Len(a)
      BY <1>1
    <3> QED BY <3>1, <3>2
  <2>3. 2 * (a[Len(a)] - a[o]) \in Int
    BY <2>2
  <2> QED BY <2>1, <2>3
<1>6. GapFree(f, T) <=> GapFree(a, T)
  BY <1>1, <1>2, <1>3, <1>4, <1>5, TailGaps
<1>7. VelocityAt(f, e, T) <=> VelocityAt(a, e + o, T)
  <2>1. SpanBegin(f, e, T) > 0 /\ e \in 1..Len(f)
    BY <1>1, <1>3
  <2> QED BY <2>1, TailVelocity
<1>8. VelocityAt(f, n, T) <=> VelocityAt(a, n + o, T)
  <2>1. Ordered(f) /\ e \in 1..Len(f) /\ n \in 1..Len(f)
    BY <1>1 DEF IsTail
  <2>2. SpanBegin(f, n, T) > 0
    BY <1>1, <1>3, <1>4, <2>1, LaterSpan
  <2> QED BY <2>1, <2>2, TailVelocity
<1>9. WindowFits(f, T) <=> WindowFits(a, T)
  <2>1. f[n] = a[n + o] /\ f[e] = a[e + o]
    <3>1. n \in 1..Len(f) /\ e \in 1..Len(f)
      BY <1>1
    <3> QED BY <3>1 DEF IsTail
  <2> QED BY <1>1, <1>2, <2>1 DEF WindowFits
<1>10. b + o > o + 1 /\ b + o > 1 /\ Len(f) >= KnownFixes /\ Len(a) >= KnownFixes
  BY <1>1, <1>3
<1>11. TimesAlign(f) <=> /\ WindowFits(f, T) /\ GapFree(f, T)
                         /\ VelocityAt(f, n, T) /\ VelocityAt(f, e, T)
  BY <1>1, <1>2, <1>3, <1>4, <1>10 DEF TimesAlign
<1>12. TimesAlign(a) <=> /\ WindowFits(a, T) /\ GapFree(a, T)
                         /\ VelocityAt(a, n + o, T) /\ VelocityAt(a, e + o, T)
  BY <1>1, <1>2, <1>3, <1>4, <1>10 DEF TimesAlign
<1>13. AlignBegin(f) = AlignBegin(a)
  <2>1. b \in 1..Len(f)
    BY <1>1, <1>2
  <2>2. f[b] = a[b + o]
    BY <2>1 DEF IsTail
  <2> QED BY <1>2, <1>3, <1>4, <2>2 DEF AlignBegin
<1> QED BY <1>2, <1>3, <1>6, <1>7, <1>8, <1>9, <1>10, <1>11, <1>12, <1>13

\* An alignment looks back less than Reach2.
LEMMA AlignReach ==
  ASSUME NEW f, Ordered(f), TimesAlign(f), NEW T, T = FixPeriod(f),
         NEW b, b = SpanBegin(f, WindowBegin(f, T), T)
  PROVE  /\ T \in 1..PeriodMax /\ b \in 2..Len(f)
         /\ 2 * (f[Len(f)] - f[b]) < Reach2(T)
<1> DEFINE e == WindowBegin(f, T)
<1> USE FixParams
<1>0. PeriodMax > 0
  BY TrimParams
<1>1. /\ T \in Nat \ {0} /\ T <= PeriodMax /\ Len(f) \in Nat /\ e \in 1..Len(f)
      /\ b \in 1..(e - 2) /\ b > 1
  BY <1>0, AlignWithin DEF TimesAlign
<1>2. PICK n \in Nat : n = Len(f) /\ \A i \in 1..n : f[i] \in Nat
  <2>1. f \in Seq(Nat)
    BY DEF Ordered
  <2>2. Len(f) \in Nat /\ \A i \in 1..Len(f) : f[i] \in Nat
    BY <2>1
  <2> QED BY <2>2
<1>3. PICK w \in Nat, l \in Nat, r \in Nat :
        /\ w = Spans(T).window2 /\ l = Larger(2 * Second, 3 * T)
        /\ r = Larger(4 * Second, 5 * Spans(T).span) /\ Reach2(T) = w + l + r
  <2>1. /\ Spans(T).window2 \in Nat /\ Larger(2 * Second, 3 * T) \in Nat
        /\ Larger(4 * Second, 5 * Spans(T).span) \in Nat
        /\ Reach2(T) = Spans(T).window2 + Larger(2 * Second, 3 * T)
                         + Larger(4 * Second, 5 * Spans(T).span)
    BY <1>1, SpansTyped
  <2> QED BY <2>1
<1> HIDE DEF e
<1>4. n \in 1..n /\ e \in 1..n /\ b \in 1..n /\ b \in 2..n
  BY <1>1, <1>2
<1>5. PICK x \in Nat, y \in Nat, z \in Nat : x = f[n] /\ y = f[e] /\ z = f[b]
  BY <1>2, <1>4
<1>6. 2 * (x - y) <= w + l
  BY <1>2, <1>3, <1>5 DEF TimesAlign, WindowFits, e
<1>7. 2 * (y - z) < r
  BY <1>3, <1>5 DEF TimesAlign, VelocityAt, e
<1>8. 2 * (x - z) < w + l + r
  BY <1>6, <1>7
<1> QED BY <1>1, <1>2, <1>3, <1>4, <1>5, <1>8

LEMMA SameTimes ==
  ASSUME NEW f \in Seq(Nat), NEW g \in Seq(Nat), Len(f) = Len(g),
         \A i \in 1..Len(f) : f[i] = g[i]
  PROVE  f = g
OBVIOUS

\* A fix that was dropped is one that no alignment would read, then or later: it
\* was older than what an alignment looks back at the period there was, and a
\* longer period takes a new interval as long as it.  So the trimmed buffer gives
\* the alignments that all fixes give, but for one that would begin with its
\* first fix.
THEOREM AlwaysTrimInvisible == FixSpec => []TrimIsInvisible
<1>1. TrimInv => TrimIsInvisible
  <2> DEFINE q == Len(fixes)
             n == Len(all)
             o == n - q
  <2> SUFFICES ASSUME TrimInv PROVE TrimIsInvisible
    OBVIOUS
  <2> USE FixParams, TrimParams
  <2>1. /\ IsTail(fixes, all, o) /\ Ordered(all) /\ Ordered(fixes)
        /\ fixes \in Seq(Nat) /\ all \in Seq(Nat) /\ o \in Nat /\ q \in Nat /\ n \in Nat
        /\ n = q + o /\ n = Len(all) /\ q = Len(fixes)
    BY DEF TrimInv, IsTail, Ordered
  <2>0. TrimInv /\ o > 0 => q >= KMinFixes /\ all[n] - all[o] > Spare(all)
    BY <2>1 DEF TrimInv
  <2> HIDE DEF o, q, n
  <2>2. /\ \A i \in 1..q : fixes[i] = all[i + o]
        /\ o = 0 => fixes = all
    <3>1. \A i \in 1..q : fixes[i] = all[i + o]
      BY <2>1 DEF IsTail
    <3>2. ASSUME o = 0 PROVE fixes = all
      <4>1. \A i \in 1..q : fixes[i] = all[i]
        BY <3>1, <3>2
      <4>2. n = q
        BY <2>1, <3>2
      <4>3. Len(fixes) = Len(all)
        BY <2>1, <4>2
      <4>4. \A i \in 1..Len(fixes) : fixes[i] = all[i]
        BY <2>1, <4>1
      <4> QED BY <2>1, <4>3, <4>4, SameTimes
    <3> QED BY <3>1, <3>2
  <2>3. fixes = Suffix(all, Len(fixes))
    <3>1. n - q + 1 = o + 1 /\ o + 1 \in 1..(n + 1)
      BY <2>1
    <3>2. Suffix(all, Len(fixes)) = SubSeq(all, o + 1, n)
      BY <2>1, <3>1 DEF Suffix
    <3>3. /\ SubSeq(all, o + 1, n) \in Seq(Nat) /\ Len(SubSeq(all, o + 1, n)) = q
          /\ \A i \in 1..q : SubSeq(all, o + 1, n)[i] = all[i + o]
      <4>1. /\ all \in Seq(Nat) /\ Len(all) = n /\ o \in Nat /\ n \in Nat
            /\ o + 1 \in 1..(n + 1) /\ n - (o + 1) + 1 = q
        BY <2>1, <3>1
      <4>2. /\ SubSeq(all, o + 1, n) \in Seq(Nat)
            /\ Len(SubSeq(all, o + 1, n)) = n - (o + 1) + 1
        BY <4>1
      <4>3. ASSUME NEW i \in 1..q PROVE SubSeq(all, o + 1, n)[i] = all[i + o]
        <5>1. SubSeq(all, o + 1, n)[i] = all[((o + 1) + i) - 1]
          BY <4>1
        <5>2. ((o + 1) + i) - 1 = i + o
          BY <4>1
        <5> QED BY <5>1, <5>2
      <4> QED BY <4>1, <4>2, <4>3
    <3>4. Len(fixes) = q /\ fixes \in Seq(Nat)
      BY <2>1
    <3>5. \A i \in 1..q : fixes[i] = SubSeq(all, o + 1, n)[i]
      BY <2>2, <3>3
    <3>6. fixes = SubSeq(all, o + 1, n)
      BY <3>3, <3>4, <3>5, SameTimes
    <3> QED BY <3>2, <3>6
  <2>4. ASSUME o > 0, NEW T \in 1..PeriodMax, T = FixPeriod(all)
        PROVE  q >= KMinFixes /\ T = FixPeriod(fixes) /\ 2 * (all[n] - all[o]) > Reach2(T)
    <3>1. q >= KMinFixes /\ all[n] - all[o] > Spare(all)
      BY <2>0, <2>4
    <3>2. T = FixPeriod(fixes)
      BY <2>1, <2>4, <3>1, TailPeriod
    <3>3. PICK z \in Nat, x \in Nat, y \in Nat, r \in Nat :
            z = Keep(0) /\ x = all[n] /\ y = all[o] /\ r = Reach2(T)
      <4>1. n \in 1..n /\ o \in 1..n
        BY <2>1, <2>4, <3>1
      <4>2. all[n] \in Nat /\ all[o] \in Nat
        BY <2>1, <4>1
      <4>3. T \in Nat
        OBVIOUS
      <4>4. Keep(0) \in Nat /\ Reach2(T) \in Nat
        BY <4>3, KeepGrows, SpansTyped
      <4> QED BY <4>2, <4>4
    <3>4. Spare(all) = z + T
      BY <2>4, <3>3 DEF Spare, Fewer
    <3>5. r <= 2 * (z + T) /\ x - y > z + T
      BY <3>1, <3>3, <3>4
    <3>6. 2 * (x - y) > r
      BY <3>5
    <3> QED BY <3>1, <3>2, <3>3, <3>6
  <2>5. ASSUME TimesAlign(all), NEW T, T = FixPeriod(all),
               NEW b, b = SpanBegin(all, WindowBegin(all, T), T)
        PROVE  /\ T \in 1..PeriodMax /\ b \in 2..n /\ AlignBegin(all) = all[b] /\ b > o
               /\ q >= 1 /\ fixes[1] = all[o + 1] /\ o + 1 \in 1..n
               /\ fixes[1] <= all[b] /\ (b > o + 1 <=> all[b] > fixes[1])
    <3>1. T \in 1..PeriodMax /\ b \in 2..n /\ 2 * (all[n] - all[b]) < Reach2(T)
      BY <2>1, <2>5, AlignReach
    <3>2. AlignBegin(all) = all[b]
      BY <2>5 DEF AlignBegin
    <3>3. \A i \in 1..n : all[i] \in Nat
      BY <2>1
    <3>4. \A i, k \in 1..n : i < k => all[i] < all[k]
      BY <2>1 DEF Ordered
    <3>5. b > o
      <4>1. SUFFICES ASSUME o > 0, b <= o PROVE FALSE
        BY <2>1, <3>1
      <4>2. o \in 1..n /\ b \in 1..n /\ n \in 1..n /\ (b = o \/ b < o)
        BY <2>1, <3>1, <4>1
      <4>3. PICK x \in Nat, y \in Nat, z \in Nat :
              x = all[n] /\ y = all[o] /\ z = all[b] /\ z <= y
        BY <3>3, <3>4, <4>2
      <4>4. 2 * (x - y) > Reach2(T) /\ Reach2(T) \in Nat
        BY <2>4, <2>5, <3>1, <4>1, <4>3, SpansTyped
      <4>5. 2 * (x - z) < Reach2(T)
        BY <3>1, <4>3
      <4> QED BY <4>3, <4>4, <4>5
    <3>6. q >= 1 /\ fixes[1] = all[o + 1] /\ o + 1 \in 1..n
      <4>1. q >= 1 /\ 1 \in 1..q /\ o + 1 \in 1..n /\ 1 + o = o + 1
        <5>1. o + 1 <= n
          BY <2>1, <3>1, <3>5
        <5> QED BY <2>1, <5>1
      <4> QED BY <2>2, <4>1
    <3>7. PICK x \in Nat, y \in Nat : x = all[b] /\ y = all[o + 1]
      BY <3>1, <3>3, <3>6
    <3>8. b = o + 1 \/ (b > o + 1 /\ y < x)
      <4>1. b = o + 1 \/ o + 1 < b
        BY <2>1, <3>1, <3>5
      <4> QED BY <3>1, <3>4, <3>6, <3>7, <4>1
    <3>9. y <= x /\ (b > o + 1 <=> x > y)
      <4>1. b \in Int /\ o \in Int
        BY <2>1, <3>1
      <4>2. CASE b = o + 1
        BY <3>7, <4>1, <4>2
      <4>3. CASE b > o + 1 /\ y < x
        BY <3>7, <4>1, <4>3
      <4> QED BY <3>8, <4>2, <4>3
    <3> QED BY <3>1, <3>2, <3>5, <3>6, <3>7, <3>9
  <2>6. TimesAlign(all) => AlignBegin(all) >= fixes[1]
    <3> SUFFICES ASSUME TimesAlign(all) PROVE AlignBegin(all) >= fixes[1]
      OBVIOUS
    <3>1. PICK T, b : T = FixPeriod(all) /\ b = SpanBegin(all, WindowBegin(all, T), T)
      OBVIOUS
    <3>2. AlignBegin(all) = all[b] /\ fixes[1] <= all[b]
      BY <2>5, <3>1
    <3> QED BY <3>2
  <2>7. ASSUME TimesAlign(fixes), o > 0
        PROVE  /\ TimesAlign(all) /\ AlignBegin(all) > fixes[1]
               /\ AlignBegin(fixes) = AlignBegin(all)
    <3>1. PICK T : T = FixPeriod(fixes)
      OBVIOUS
    <3>2. PICK e \in 1..q : e = WindowBegin(fixes, T) /\ SpanBegin(fixes, e, T) \in 1..(e - 2)
      BY <2>1, <2>7, <3>1, AlignWithin
    <3>3. T \in 1..PeriodMax /\ SpanBegin(fixes, e, T) > 1 /\ e > 1
      BY <2>1, <2>7, <3>1, <3>2, AlignReach DEF TimesAlign
    <3>4. T = FixPeriod(all)
      <4>1. q >= KMinFixes
        BY <2>0, <2>7
      <4> QED BY <2>1, <3>1, <4>1, TailPeriod
    <3>5. q >= KMinFixes /\ 2 * (all[n] - all[o]) > Reach2(T)
      BY <2>4, <2>7, <3>3, <3>4
    <3>6. /\ TimesAlign(fixes) <=> TimesAlign(all)
          /\ AlignBegin(fixes) = AlignBegin(all)
          /\ SpanBegin(all, WindowBegin(all, T), T) > o + 1
      BY <2>1, <2>7, <3>1, <3>2, <3>3, <3>5, TailAligns
    <3>7. AlignBegin(all) > fixes[1]
      BY <2>5, <2>7, <3>4, <3>6
    <3> QED BY <2>7, <3>6, <3>7
  <2>8. ASSUME TimesAlign(all), o > 0, AlignBegin(all) > fixes[1] PROVE TimesAlign(fixes)
    <3>1. PICK T : T = FixPeriod(all)
      OBVIOUS
    <3>2. PICK e : e = WindowBegin(all, T)
      OBVIOUS
    <3>3. PICK b : b = SpanBegin(all, e, T)
      OBVIOUS
    <3>4. T \in 1..PeriodMax /\ b > o + 1 /\ b \in 2..n
      BY <2>5, <2>8, <3>1, <3>2, <3>3
    <3>5. e \in 1..n /\ b \in 1..(e - 2)
      BY <2>1, <2>8, <3>1, <3>2, <3>3, AlignWithin
    <3>6. q >= KMinFixes /\ T = FixPeriod(fixes) /\ 2 * (all[n] - all[o]) > Reach2(T)
      BY <2>4, <2>8, <3>1, <3>4
    <3>7. e > o + 1 /\ b > o
      BY <2>1, <3>4, <3>5
    <3>8. PICK d \in 1..(q - 1) : d = WindowBegin(fixes, T) /\ d > 1 /\ e = d + o
      <4>1. WindowBegin(fixes, T) > 1
        BY <2>1, <3>2, <3>7, TailWindow
      <4> QED BY <2>1, <3>2, <4>1, TailWindow
    <3>9. SpanBegin(fixes, d, T) > 1
      <4>1. d \in 1..q
        BY <2>1
      <4>2. SpanBegin(fixes, d, T) > 0
        BY <2>1, <3>3, <3>7, <3>8, <4>1, TailSpan
      <4>3. SpanBegin(fixes, d, T) \in 1..(d - 2) /\ b = SpanBegin(fixes, d, T) + o
        BY <2>1, <3>3, <3>8, <4>1, <4>2, TailSpan
      <4> QED BY <2>1, <3>4, <4>3
    <3> QED BY <2>1, <2>8, <3>4, <3>6, <3>8, <3>9, TailAligns
  <2>9. TimesAlign(fixes) <=> TimesAlign(all) /\ (fixes = all \/ AlignBegin(all) > fixes[1])
    <3>1. CASE o = 0
      BY <2>2, <3>1
    <3>2. CASE o > 0
      <4>1. fixes # all
        BY <2>1, <3>2
      <4> QED BY <2>7, <2>8, <3>2, <4>1
    <3> QED BY <2>1, <3>1, <3>2
  <2>10. TimesAlign(fixes) => AlignBegin(fixes) = AlignBegin(all)
    <3>1. CASE o = 0
      BY <2>2, <3>1
    <3>2. CASE o > 0
      BY <2>7, <3>2
    <3> QED BY <2>1, <3>1, <3>2
  <2> QED BY <2>3, <2>6, <2>9, <2>10 DEF TrimIsInvisible
<1> QED BY <1>1, AlwaysTrimInv, PTL

================================================================================
