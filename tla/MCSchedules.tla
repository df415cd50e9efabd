---------------------------- MODULE MCSchedules ----------------------------
(***************************************************************************)
(* An instance of Schedules for TLC: three waypoints in a line, the last   *)
(* one the destination, with a road that takes no time (its length is      *)
(* truncated to 0), and two end stations of four stations.                 *)
(***************************************************************************)
EXTENDS Schedules

MCDist ==
  [p \in (0 .. 2) \X (0 .. 2) |->
     CASE p = <<0, 1>>                -> 0
       [] p = <<1, 0>>                -> 1
       [] p \in {<<1, 2>>, <<2, 1>>} -> 1
       [] OTHER                       -> -1]

MCWaypointId == [s \in 1 .. 4 |-> 10 - s]
=============================================================================
