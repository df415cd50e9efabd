------------------------------ MODULE RobotInfo ------------------------------
(***************************************************************************)
(* What robots tell each other, and its way through JSON                   *)
(* (robot/src/info.cpp, Action in scheduling/src/waypoint_scheduler.cpp).  *)
(* An Info in memory has an action type eHold or eWaypoint and an optional *)
(* eta; its JSON form has strings.  The location is left out: it is copied *)
(* both ways.                                                              *)
(***************************************************************************)
EXTENDS Integers, Sequences

CONSTANT nullopt     \* a model value: no eta

Action_to_json(action) ==
  [type |-> IF action.type = "eHold" THEN "Hold" ELSE "Waypoint", value |-> action.value]

(* An eta that is missing is written as 0: the enumerator nullValue of the  *)
(* conditional expression is converted to double.                          *)
Info_to_json(info) ==
  [id            |-> info.id,
   eta           |-> IF info.eta = nullopt THEN 0 ELSE info.eta,
   station_plan  |-> info.station_plan,
   waypoint_plan |-> [p \in DOMAIN info.waypoint_plan |-> Action_to_json(info.waypoint_plan[p])]]

(* get_field_as<std::vector<int>>: it collects the keys of the array, not  *)
(* its elements.                                                           *)
get_field_as_ints(array) == [p \in DOMAIN array |-> p - 1]

(* Seeded fault: the actions are read like the stations are.               *)
ActionsFromKeys(array) ==
  [p \in DOMAIN array |-> [type |-> IF array[p].type = "Hold" THEN "eHold" ELSE "eWaypoint",
                           value |-> p - 1]]

get_field_as_actions(array) ==
  [p \in DOMAIN array |-> [type |-> IF array[p].type = "Hold" THEN "eHold" ELSE "eWaypoint",
                           value |-> array[p].value]]

Info_from_json(json) ==
  [id            |-> json.id,
   eta           |-> json.eta,
   station_plan  |-> get_field_as_ints(json.station_plan),
   waypoint_plan |-> get_field_as_actions(json.waypoint_plan)]

(* InfoMap::to_json(): an object with the ids as its names.                *)
InfoMap_to_json(robot_info) == [id \in DOMAIN robot_info |-> Info_to_json(robot_info[id])]

(* What the broadcaster answers when these robots have put their infos: it  *)
(* reads each of them into its map, and writes the map.                    *)
Broadcast(infos) ==
  InfoMap_to_json([id \in DOMAIN infos |-> Info_from_json(Info_to_json(infos[id]))])
=============================================================================
