--------------------------------- MODULE MCBbs ---------------------------------
(***************************************************************************)
(* Searches on a map of three by two cells, seen by two beams at two       *)
(* headings.                                                               *)
(***************************************************************************)
EXTENDS Bbs

MCGrids == [Cells -> {0, 1}]
MCBlockings == {{}, {<<1, 1>>}, {<<0, 0>>, <<1, 1>>, <<2, 0>>}}

\* A beam ahead and one to the side, and the same turned half; the second scan
\* sees two cells from far off the map.
MCEndpoints == {0 :> <<<<2, 1>>, <<1, 0>>>> @@ 1 :> <<<<0, 1>>, <<1, 2>>>>,
                -1 :> <<<<-1, 0>>, <<-1, 1>>>> @@ 0 :> <<<<3, 1>>, <<2, -1>>>>}

Search(lx, k, nms_xy, prefer_center) ==
  [center |-> <<1, 1>>, lx |-> lx, ly |-> 1, k |-> k, nms_xy |-> nms_xy, nms_yaw |-> 0,
   prefer_center |-> prefer_center]

\* The single best over a window of several roots, the best with ties to the
\* centre, and two modes.
MCSearches == {Search(2, 1, 0, FALSE), Search(1, 1, 0, TRUE), Search(1, 2, 1, FALSE)}
================================================================================
