---------------------------- MODULE MCFusionStatus ----------------------------
(***************************************************************************)
(* Small instances of FusionStatus: two robots with an antenna at a lever  *)
(* arm, one whose odometry comes and goes, one that learns its mounts      *)
(* late, and one whose IMU drops samples and goes back in time.            *)
(***************************************************************************)
EXTENDS FusionStatus

Plain == [has |-> {}, fallback |-> FALSE, lever |-> FALSE, sim_time |-> FALSE,
          late_mounts |-> FALSE, steps |-> {1}]

MCRobots ==
  {[Plain EXCEPT !.has = {"gnss", "points"}, !.lever = TRUE],
   [Plain EXCEPT !.has = {"gnss", "poses"}, !.lever = TRUE],
   [Plain EXCEPT !.has = {"points", "odom", "poses", "clears"}, !.fallback = TRUE],
   [Plain EXCEPT !.has = {"gnss", "points"}, !.late_mounts = TRUE, !.sim_time = TRUE],
   [Plain EXCEPT !.has = {"points", "poses"}, !.steps = {-1, 5, 6}]}
=============================================================================
