-------------------------------- MODULE Geo --------------------------------
(***************************************************************************)
(* Angles and beams of the Webots controller: geo/geo.cpp, and the index   *)
(* conversions of robot.hpp and update_sensor_values().  An angle is a     *)
(* whole number of steps, Pi of them to the half turn; a turn holds a      *)
(* whole number of steps per beam, so that index2angle() is exact.         *)
(***************************************************************************)
EXTENDS Integers

CONSTANTS
  Pi,                 \* half a turn
  lidar_resolution    \* the number of beams

Turn == 2 * Pi

ASSUME GeoAssumption ==
  /\ Pi \in Nat \ {0}
  /\ lidar_resolution \in Nat \ {0}
  /\ Turn % lidar_resolution = 0

Angle == -Pi .. Pi - 1
Beams == 0 .. lidar_resolution - 1

(* std::fmod() with the correction for negative values is %.               *)
constrain_angle(a) == ((a + Pi) % Turn) - Pi

(* operator+, operator-                                                    *)
AnglePlus(a, b) == constrain_angle(a + b)
AngleMinus(a, b) == constrain_angle(a - b)

(* Angle{PI} is -PI again: the absolute value of -PI is negative.          *)
abs_angle(a) == constrain_angle(IF a < 0 THEN -a ELSE a)

index2angle(i) == constrain_angle(i * (Turn \div lidar_resolution) - Pi)

(* std::round(): up to lidar_resolution, one past the last beam.           *)
angle2index(a) == ((a + Pi) * lidar_resolution + Pi) \div Turn

(* Where update_sensor_values() puts value i of the range image.           *)
image_index(i) ==
  lidar_resolution - 1 - ((i - lidar_resolution \div 4 + lidar_resolution) % lidar_resolution)
=============================================================================
