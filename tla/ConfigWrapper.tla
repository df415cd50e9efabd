--------------------------- MODULE ConfigWrapper ---------------------------
(***************************************************************************)
(* What libconfig.so tells UPPAAL (config/src/config_wrapper.cpp and the   *)
(* conversions of config/src/config.cpp).  Its functions are called from   *)
(* the UPPAAL models; each computes its answer once from the two files,    *)
(* which load() reads once, so that they are operators on the static       *)
(* configuration sc and the dynamic configuration dc: JSON objects, as     *)
(* functions from the keys that are present.  An exception is caught by    *)
(* every function and becomes a value of its own.  What stands under       *)
(* robot_info_map is the answer of the broadcaster: an object whose names  *)
(* are the ids of the other robots (of up to two digits here).             *)
(*                                                                         *)
(* There are two numberings.  A waypoint has the id of the world file; a   *)
(* station is also numbered from 1, end stations first.                    *)
(*                                                                         *)
(* A double is a multiple of 1/Unit, given by its numerator; DBL_MAX is    *)
(* larger than every distance, and than every int.                         *)
(***************************************************************************)
EXTENDS Integers, Sequences, FiniteSets

CONSTANTS Unit, DBL_MAX, INT_MAX

ASSUME UnitAssumption == Unit \in Nat \ {0}
ASSUME IntAssumption == INT_MAX \in Nat /\ DBL_MAX \in Nat /\ INT_MAX * Unit < DBL_MAX

Has(json, keys) == keys \subseteq DOMAIN json

(* Seeded fault: a distance is rounded up.                                 *)
AsIntRoundsUp(d) == IF d >= 0 THEN (d + Unit - 1) \div Unit ELSE -((-d) \div Unit)

(* Json::Value::asInt() of a double: it truncates towards zero, and throws *)
(* when the double is beyond the range of int, as DBL_MAX is.              *)
AsInt(d) == IF d >= 0 THEN d \div Unit ELSE -((-d) \div Unit)
IsInt(d) == d <= INT_MAX * Unit
Throws(matrix) == \E r \in DOMAIN matrix : \E c \in DOMAIN matrix[r] : ~ IsInt(matrix[r][c])

(* A loop over a JSON object meets its members in the order of their names *)
(* as strings: "10" comes before "2".                                      *)
NameOrder(id) == IF id < 10 THEN 100 * id ELSE 10 * id + 1
Members(object) ==
  [p \in 1 .. Cardinality(DOMAIN object) |->
     object[CHOOSE id \in DOMAIN object :
              Cardinality({o \in DOMAIN object : NameOrder(o) <= NameOrder(id)}) = p]]

(* std::find on a vector, as a number from 1; 0 if it is not there.        *)
PositionIn(seq, e) ==
  IF \E p \in DOMAIN seq : seq[p] = e
  THEN CHOOSE p \in DOMAIN seq : seq[p] = e /\ \A q \in 1 .. (p - 1) : seq[q] # e
  ELSE 0

-----------------------------------------------------------------------------
number_of_stations(sc) ==
  IF Has(sc, {"stations", "end_stations"}) THEN Len(sc.stations) + Len(sc.end_stations) ELSE 0

number_of_end_stations(sc) ==
  IF Has(sc, {"end_stations"}) THEN Len(sc.end_stations) ELSE 0

number_of_waypoints(sc) ==
  IF Has(sc, {"stations", "end_stations", "vias"})
  THEN Len(sc.stations) + Len(sc.end_stations) + Len(sc.vias) ELSE 0

number_of_robots(dc) == IF Has(dc, {"robot_info_map"}) THEN Cardinality(DOMAIN dc.robot_info_map) + 1 ELSE 1

(* Seeded fault: the end stations come last.                               *)
StationsFirst(sc) == sc.stations \o sc.end_stations

combined_stations(sc) == sc.end_stations \o sc.stations

(* Also station_list(), which copies the vector for the waypoint model.    *)
convert_to_waypoint_id(sc, station) ==
  IF /\ Has(sc, {"stations", "end_stations"})
     /\ station \in DOMAIN combined_stations(sc)
  THEN combined_stations(sc)[station] ELSE -1

next_station(sc, dc) ==
  IF Has(sc, {"stations", "end_stations"}) /\ Has(dc, {"next_station"})
  THEN PositionIn(combined_stations(sc), dc.next_station) ELSE 0

(* convert_visited_stations(): the stations that need no visit (any more). *)
(* End stations always count as not visited.                               *)
station_visited(sc, dc) ==
  {s \in 1 .. number_of_stations(sc) :
     /\ combined_stations(sc)[s] \notin {sc.end_stations[e] : e \in DOMAIN sc.end_stations}
     /\ combined_stations(sc)[s] \notin {dc.stations_to_visit[v] : v \in DOMAIN dc.stations_to_visit}}

(* A station's row in the distance matrix, from 0: its rank by waypoint id *)
(* among all stations and end stations.                                    *)
station_id_to_dist_index_conversion(sc) ==
  LET stations == combined_stations(sc)
  IN  [s \in DOMAIN stations |->
         Cardinality({t \in DOMAIN stations : stations[t] < stations[s]})]

(* The whole matrix is converted to int before anything is looked up.      *)
get_station_dist(sc, from, to) ==
  LET matrix     == sc.station_distance_matrix
      conversion == station_id_to_dist_index_conversion(sc)
      row        == conversion[from] + 1
      column     == conversion[to] + 1
  IN  IF \/ ~ Has(sc, {"station_distance_matrix", "stations", "end_stations"})
         \/ Throws(matrix)
         \/ row \notin DOMAIN matrix
         \/ column \notin DOMAIN matrix[row]
      THEN INT_MAX
      ELSE AsInt(matrix[row][column])

(* -1 if there is no edge, or none can be told.                            *)
get_waypoint_dist(sc, from, to) ==
  LET matrix == sc.waypoint_distance_matrix
  IN  IF \/ ~ Has(sc, {"waypoint_distance_matrix"})
         \/ Throws(matrix)
         \/ from + 1 \notin DOMAIN matrix
         \/ to + 1 \notin DOMAIN matrix[from + 1]
      THEN -1
      ELSE AsInt(matrix[from + 1][to + 1])

(* convert_robot_next_station(): the station plans of the other robots, in *)
(* station numbers.  One waypoint that is no station spoils all of them.   *)
Plans(sc, dc) ==
  [r \in DOMAIN Members(dc.robot_info_map) |->
     LET plan == Members(dc.robot_info_map)[r].station_plan
     IN  [p \in DOMAIN plan |-> PositionIn(combined_stations(sc), plan[p])]]
Convertible(sc, dc) ==
  /\ Has(sc, {"stations", "end_stations"})
  /\ Has(dc, {"robot_info_map"})
  /\ \A id \in DOMAIN dc.robot_info_map : Has(dc.robot_info_map[id], {"station_plan"})
  /\ \A r \in DOMAIN Plans(sc, dc) : \A p \in DOMAIN Plans(sc, dc)[r] : Plans(sc, dc)[r][p] # 0

(* The other robots are numbered from 2, and the steps from 0; 0 means     *)
(* that the plan is at its end.                                            *)
next_robot_station(sc, dc, robot, step) ==
  IF /\ Convertible(sc, dc)
     /\ robot - 1 \in DOMAIN Plans(sc, dc)
     /\ step < Len(Plans(sc, dc)[robot - 1])
  THEN Plans(sc, dc)[robot - 1][step + 1] ELSE 0

(* The waypoint plans are actions [type, value].  Types other than these   *)
(* two are DONE.                                                           *)
WAYPOINT == 2
HOLD == 1
DONE == 0
convert_to_action_type(action) ==
  CASE action.type = "Waypoint" -> WAYPOINT
    [] action.type = "Hold" -> HOLD
    [] OTHER -> DONE

WaypointPlan(dc, robot) == Members(dc.robot_info_map)[robot - 1].waypoint_plan

HasAction(dc, robot, step) ==
  /\ Has(dc, {"robot_info_map"})
  /\ \A id \in DOMAIN dc.robot_info_map : Has(dc.robot_info_map[id], {"waypoint_plan"})
  /\ robot - 1 \in DOMAIN Members(dc.robot_info_map)
  /\ step < Len(WaypointPlan(dc, robot))

get_next_action_type(dc, robot, step) ==
  IF HasAction(dc, robot, step)
  THEN convert_to_action_type(WaypointPlan(dc, robot)[step + 1]) ELSE DONE
get_next_action_value(dc, robot, step) ==
  IF HasAction(dc, robot, step) THEN WaypointPlan(dc, robot)[step + 1].value ELSE 0
=============================================================================
