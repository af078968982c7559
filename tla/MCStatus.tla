------------------------------- MODULE MCStatus -------------------------------
(***************************************************************************)
(* Small instances of LocalizationStatus: a laser2d robot that localizes   *)
(* itself, and an ndt3d robot that replays a bag.                          *)
(***************************************************************************)
EXTENDS LocalizationStatus

MCSetups ==
  {[backend |-> "laser2d", try_global |-> TRUE, initial_pose |-> FALSE,
    need_odom |-> TRUE, neff_check |-> TRUE, sim_time |-> FALSE],
   [backend |-> "ndt3d", try_global |-> FALSE, initial_pose |-> FALSE,
    need_odom |-> FALSE, neff_check |-> FALSE, sim_time |-> TRUE]}
=============================================================================
