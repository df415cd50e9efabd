------------------------- MODULE MCRobotController -------------------------
(***************************************************************************)
(* An instance of RobotController for TLC: quarter degrees, four beams.    *)
(***************************************************************************)
EXTENDS RobotController

LOCAL Quadrant == <<1000, 985, 940, 866, 766, 643, 500, 342, 174, 0>>

\* Every ten degrees of the turn.
MCCosine ==
  [a \in {40 * k : k \in -18 .. 17} |->
     LET k == (IF a < 0 THEN -a ELSE a) \div 40
     IN IF k <= 9 THEN Quadrant[k + 1] ELSE -Quadrant[19 - k]]

\* Ahead, ahead with a correction, left, nearly behind, straight behind.
MCGoalAngles == {0, 40, 360, 600, -720}
=============================================================================
