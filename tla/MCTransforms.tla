---------------------------- MODULE MCTransforms ----------------------------
(***************************************************************************)
(* The two pieces around a lookup in TF, which share no state: the wait    *)
(* for a transform and the mount of a sensor, two of which are off         *)
(* base_frame; one of their drivers still sends a leading slash.  A        *)
(* behaviour of this instance is one of TfWait or one of MountResolving.   *)
(***************************************************************************)
EXTENDS TfWait, MountResolving

MCFrames == {"", "base", "lidar", "/lidar", "antenna"}
MCPlain == [f \in MCFrames |-> IF f = "/lidar" THEN "lidar" ELSE f]

VARIABLES runs  \* which of the two runs

Init ==
  /\ WaitInit /\ MountInit
  /\ runs \in {"wait", "mount"}

Next ==
  /\ UNCHANGED runs
  /\ \/ runs = "wait" /\ WaitNext /\ UNCHANGED mountVars
     \/ runs = "mount" /\ MountNext /\ UNCHANGED waitVars

Spec == Init /\ [][Next]_<<runs, waitVars, mountVars>>
=============================================================================
