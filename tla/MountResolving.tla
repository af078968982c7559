---------------------------- MODULE MountResolving ----------------------------
(***************************************************************************)
(* One Mount while messages come from sensors of several frames, TF        *)
(* publishes, changes and forgets transforms, and time passes.             *)
(***************************************************************************)
EXTENDS Mount

CONSTANTS MountHorizon  \* bound on the steady time

ASSUME MountHorizonParam == MountHorizon \in Nat

VARIABLES
  mount,  \* the Mount
  clock,  \* the steady clock
  tf,     \* what a lookup of each frame gives now
  msg,    \* the frame of the last message, EmptyFrame before the first
  held,   \* history: steady time since which tf has its value
  given   \* history: what TF has ever given for each frame

mountVars == <<mount, clock, tf, msg, held, given>>

Sensors == {f \in Frames : Plain[f] = f} \ {EmptyFrame, BaseFrame}

MountInit ==
  /\ mount = NewMount
  /\ clock = 0
  /\ tf = [f \in Sensors |-> NoTransform]
  /\ msg = EmptyFrame
  /\ held = [f \in Sensors |-> 0]
  /\ given = [f \in Sensors |-> {}]

Found(f) == IF SensorFrame(f) \in Sensors THEN tf[SensorFrame(f)] ELSE NoTransform

Message ==
  \E f \in Frames :
    /\ mount' = Resolved(mount, f, clock, Found(f))
    /\ msg' = f
    /\ UNCHANGED <<clock, tf, held, given>>

\* A transform is published, replaced or forgotten (a time jump empties TF).
Publish ==
  \E f \in Sensors, t \in Transforms \cup {NoTransform} :
    /\ t # tf[f]
    /\ tf' = [tf EXCEPT ![f] = t]
    /\ held' = [held EXCEPT ![f] = clock]
    /\ given' = [given EXCEPT ![f] = @ \cup ({t} \ {NoTransform})]
    /\ UNCHANGED <<mount, clock, msg>>

MountElapse ==
  /\ clock < MountHorizon
  /\ clock' = clock + 1
  /\ UNCHANGED <<mount, tf, msg, held, given>>

MountNext == Message \/ Publish \/ MountElapse

MountSpec == MountInit /\ [][MountNext]_mountVars
-----------------------------------------------------------------------------
MountTypeOK ==
  /\ mount \in Mounts
  /\ clock \in Nat
  /\ tf \in [Sensors -> Transforms \cup {NoTransform}]
  /\ msg \in Frames
  /\ held \in [Sensors -> Nat]
  /\ given \in [Sensors -> SUBSET Transforms]

\* A message that is used gets the mount of its own sensor: the identity in
\* base_frame, else a transform TF gave for that very frame, never the one of
\* the sensor that sent before (resolve(), source_ and frame_).
OwnMount ==
  Usable(mount) =>
    /\ mount.frame = SensorFrame(msg)
    /\ IF mount.source = "base" THEN mount.ext = Identity /\ mount.frame = Plain[BaseFrame]
       ELSE mount.frame \in Sensors /\ mount.ext \in given[mount.frame]

\* A mount is never used for longer than kRefreshS after TF has settled on
\* another transform, although lookups in between may have failed (resolve(),
\* looked_up_s_).
Refreshed ==
  [][Message /\ mount'.source = "tf" =>
       LET f == mount'.frame
       IN  tf[f] # NoTransform /\ clock - held[f] >= Refresh => mount'.ext = tf[f]]_mountVars
=============================================================================
