---------------------------- MODULE WorldConfig ----------------------------
(***************************************************************************)
(* From a world file to the static configuration:                          *)
(* Orchestrator::load_webots_to_config() (robot/src/orchestrator.cpp),     *)
(* with the parser (WorldParser), the distance matrix and Floyd-Warshall   *)
(* (wbt-translator/src/distance_matrix.cpp, apsp.cpp), and on to what      *)
(* UPPAAL is told of the result (ConfigWrapper).                           *)
(***************************************************************************)
EXTENDS WorldParser, ConfigWrapper, RobotInfo, FiniteSetsExt

CONSTANT MaxId     \* no world has an id above this

(* The positions of waypoints, and how far apart they are.  Positions are  *)
(* chosen so that the root is exact.                                       *)
Places ==
  UNION {{f[p].value : p \in {q \in DOMAIN f : f[q].word = "translation" /\ Readable(f[q])}} :
           f \in WorldFiles}

Distance ==
  [u \in Places |-> [v \in Places |->
     LET x == u[1] - v[1]
         z == u[2] - v[2]
     IN  CHOOSE d \in 0 .. (x * x + z * z) : d * d = x * x + z * z]]

ASSUME WorldAssumption ==
  /\ DBL_MAX \in Nat /\ MaxId \in Nat
  /\ \A u, v \in Places : Distance[u][v] \in 0 .. (DBL_MAX - 1)
  /\ \A f \in WorldFiles : Len(f) \in Nat /\ DOMAIN f = 1 .. Len(f)
  /\ \A f \in WorldFiles : \A p \in DOMAIN f : f[p].word = "id" /\ Readable(f[p]) =>
       f[p].value[1] \in Int /\ f[p].value[1] <= MaxId

VARIABLES
  stage,     \* "parse", "matrix", "edges", "relax", "stations", "done", "failed"
  dist, next,\* apsp_result: by row and column
  at,        \* the loop counters of all_pairs_shortest_path(): <<k, i, j>>
  config     \* Orchestrator::static_config

vars == <<file, pos, waypoint, ast, robots, parse, stage, dist, next, at, config>>

Init ==
  /\ ParserInit
  /\ stage = "parse"
  /\ dist = <<>> /\ next = <<>>
  /\ at = <<0, 0, 0>>
  /\ config = <<>>

Ids == DOMAIN ast
Rows == 0 .. (Cardinality(Ids) - 1)

Parse ==
  /\ stage = "parse"
  /\ ParserNext
  /\ UNCHANGED <<stage, dist, next, at, config>>

(* The keys of a map, in the order in which a loop over it meets them.      *)
InOrder(S) ==
  [p \in 1 .. Cardinality(S) |-> CHOOSE e \in S : Cardinality({f \in S : f <= e}) = p]

(* The ids of a type, in the order of the map.                             *)
OfType(t) == InOrder({id \in Ids : ast[id].type = t})

(* Everything of load_webots_to_config() up to add_waypoint_matrix().      *)
Classify ==
  /\ stage = "parse"
  /\ parse = "parsed"
  /\ IF Ids = {}
     THEN stage' = "failed" /\ UNCHANGED config
     ELSE /\ stage' = "matrix"
          /\ config' = [stations               |-> OfType("station"),
                        end_stations           |-> OfType("endpoint"),
                        vias                   |-> OfType("via"),
                        number_of_stations     |-> Len(OfType("station")),
                        number_of_end_stations |-> Len(OfType("endpoint")),
                        number_of_vias         |-> Len(OfType("via")),
                        number_of_waypoints    |-> Cardinality(Ids),
                        number_of_robots       |-> robots]
  /\ UNCHANGED <<file, pos, waypoint, ast, robots, parse, dist, next, at>>

euclidean_distance(a, b) == Distance[a.translation][b.translation]

are_connected(a, b) == \E p \in DOMAIN ast[a].adjList : ast[a].adjList[p] = b

(* The JSON array of arrays of a matrix over these ids.                    *)
ToArray(ids, matrix) ==
  [r \in DOMAIN ids |-> [c \in DOMAIN ids |-> matrix[ids[r]][ids[c]]]]

(* add_waypoint_matrix().  are_connected() throws for the first number     *)
(* below the number of waypoints that is not the id of one.  -1 stands for *)
(* no edge.                                                                *)
AddWaypointMatrix ==
  /\ stage = "matrix"
  /\ IF Ids # Rows
     THEN stage' = "failed" /\ UNCHANGED config
     ELSE /\ stage' = "edges"
          /\ config' = Assign(config, "waypoint_distance_matrix",
               ToArray(InOrder(Ids), [a \in Ids |-> [b \in Ids |->
                 IF are_connected(a, b) THEN euclidean_distance(ast[a], ast[b]) ELSE -Unit]]))
  /\ UNCHANGED <<file, pos, waypoint, ast, robots, parse, dist, next, at>>

(* Seeded fault: a neighbour that does not exist is passed over.           *)
SetEdgesUnchecked ==
  /\ stage = "edges"
  /\ stage' = "relax"
  /\ dist' = [a \in Ids |-> [b \in Ids |->
                CASE a = b -> 0
                  [] a # b /\ are_connected(a, b) -> euclidean_distance(ast[a], ast[b])
                  [] OTHER -> DBL_MAX]]
  /\ next' = [a \in Ids |-> [b \in Ids |-> IF a = b \/ are_connected(a, b) THEN b ELSE -1]]
  /\ UNCHANGED <<file, pos, waypoint, ast, robots, parse, at, config>>

(* The initialisation of all_pairs_shortest_path(), which throws for an    *)
(* unknown id in an adjacency list.                                        *)
SetEdges ==
  /\ stage = "edges"
  /\ IF \E a \in Ids : \E p \in DOMAIN ast[a].adjList : ast[a].adjList[p] \notin Ids
     THEN stage' = "failed" /\ UNCHANGED <<dist, next>>
     ELSE /\ stage' = "relax"
          /\ dist' = [a \in Ids |-> [b \in Ids |->
                        CASE a = b -> 0
                          [] a # b /\ are_connected(a, b) -> euclidean_distance(ast[a], ast[b])
                          [] OTHER -> DBL_MAX]]
          /\ next' = [a \in Ids |-> [b \in Ids |->
                        IF a = b \/ are_connected(a, b) THEN b ELSE -1]]
  /\ UNCHANGED <<file, pos, waypoint, ast, robots, parse, at, config>>

(* Adding to DBL_MAX gives DBL_MAX again, or infinity: neither is less.    *)
Plus(a, b) == IF a = DBL_MAX \/ b = DBL_MAX THEN DBL_MAX ELSE a + b

(* Seeded fault: the intermediate waypoint is the innermost loop.          *)
FollowingInnermost(c) ==
  LET n == Cardinality(Ids)
  IN  CASE c[1] + 1 < n                    -> <<c[1] + 1, c[2], c[3]>>
        [] c[1] + 1 = n /\ c[3] + 1 < n    -> <<0, c[2], c[3] + 1>>
        [] c[1] + 1 = n /\ c[3] + 1 = n    -> <<0, c[2] + 1, 0>>

(* The counters of the three loops: j is the fastest, k the slowest.       *)
Following(c) ==
  LET n == Cardinality(Ids)
  IN  CASE c[3] + 1 < n                    -> <<c[1], c[2], c[3] + 1>>
        [] c[3] + 1 = n /\ c[2] + 1 < n    -> <<c[1], c[2] + 1, 0>>
        [] c[3] + 1 = n /\ c[2] + 1 = n    -> <<c[1] + 1, 0, 0>>

(* One turn of the innermost loop.                                         *)
Relax ==
  LET k == at[1]   i == at[2]   j == at[3]
      new_dist == Plus(dist[i][k], dist[k][j])
  IN  /\ stage = "relax"
      /\ \/ /\ dist[i][j] > new_dist
            /\ dist' = [dist EXCEPT ![i][j] = new_dist]
            /\ next' = [next EXCEPT ![i][j] = next[i][k]]
         \/ /\ dist[i][j] <= new_dist
            /\ UNCHANGED <<dist, next>>
      /\ at' = Following(at)
      /\ stage' = IF Cardinality(Ids) \in {at'[1], at'[2], at'[3]} THEN "stations" ELSE "relax"
      /\ UNCHANGED <<file, pos, waypoint, ast, robots, parse, config>>

(* The rest of add_station_matrix(), which takes the rows and columns of   *)
(* the stations, not those of the end stations, and dump_waypoint_info().  *)
AddStationMatrix ==
  /\ stage = "stations"
  /\ stage' = "done"
  /\ config' = Assign(Assign(config, "waypoints", ast),
                      "station_distance_matrix", ToArray(OfType("station"), dist))
  /\ UNCHANGED <<file, pos, waypoint, ast, robots, parse, dist, next, at>>

(* The configuration is written, or the exception has ended the program.   *)
Ended ==
  /\ stage \in {"done", "failed"} \/ parse \in {"malformed", "invalid_argument"}
  /\ UNCHANGED vars

Next ==
  Parse \/ Classify \/ AddWaypointMatrix \/ SetEdges \/ Relax \/ AddStationMatrix \/ Ended

Spec == Init /\ [][Next]_vars
-----------------------------------------------------------------------------
(* Properties.                                                             *)

TypeOK ==
  /\ parse \in {"top", "waypoint", "parsed", "malformed", "invalid_argument"}
  /\ stage \in {"parse", "matrix", "edges", "relax", "stations", "done", "failed"}
  /\ pos \in 1 .. (Len(file) + 1)
  /\ robots \in 0 .. Len(file)
  /\ \A id \in Ids : DOMAIN ast[id] = Fields \cup {"type"} /\ ast[id].id = id
  /\ DOMAIN waypoint \subseteq Fields \cup {"type"}
  /\ stage \in {"relax", "stations", "done"} =>
       /\ dist \in [Ids -> [Ids -> 0 .. DBL_MAX]]
       /\ next \in [Ids -> [Ids -> Ids \cup {-1}]]
       /\ at \in (0 .. Cardinality(Ids)) \X Ids \X Ids

(* The waypoints that make it into the map of a complete file.             *)
Claims == {p \in Nodes(NodeWords) :
             \A q \in Nodes(NodeWords) : q < p => Field(q, "id") # Field(p, "id")}

Usable ==
  LET ids == {Field(p, "id") : p \in Claims}
  IN  /\ AllReadable
      /\ ids # {}
      /\ ids = 0 .. (Cardinality(ids) - 1)
      /\ \A p \in Claims : \A n \in DOMAIN Field(p, "adjList") : Field(p, "adjList")[n] \in ids

(* Of the files whose waypoints are complete, exactly those are turned     *)
(* into a configuration whose values are numbers, whose ids are            *)
(* consecutive from 0, and whose adjacency lists name waypoints; every     *)
(* other one ends with an exception, wherever in the pipeline its fault    *)
(* is noticed.                                                             *)
UsableWorldsLoad ==
  Complete =>
    /\ stage = "done" => Usable
    /\ stage = "failed" \/ parse \in {"malformed", "invalid_argument"} => ~ Usable

(* parse_stream() keeps its types and reads a complete file as written.    *)
WorldRead == TypeOK /\ ParsesFile

(* Routes without repetition, and their length.                            *)
Routes == UNION {{r \in [1 .. m -> 0 .. MaxId] : \A a, b \in 1 .. m : r[a] = r[b] => a = b} :
                   m \in 1 .. (MaxId + 1)}

RoutesVia(via, a, b) ==
  {r \in Routes : /\ r[1] = a /\ r[Len(r)] = b
                  /\ \A p \in 2 .. (Len(r) - 1) : r[p] \in via
                  /\ \A p \in 1 .. (Len(r) - 1) : are_connected(r[p], r[p + 1])}

(* The way to each waypoint of a route, by the distances m.                *)
Along(m, r) ==
  LET way[p \in 1 .. Len(r)] == IF p = 1 THEN 0 ELSE way[p - 1] + m[r[p - 1]][r[p]]
  IN  way
LengthBy(m, r) == Along(m, r)[Len(r)]

EdgeLengths == [a \in Ids |-> [b \in Ids |-> euclidean_distance(ast[a], ast[b])]]

ShortestVia(via, a, b) ==
  Min({DBL_MAX} \cup {LengthBy(EdgeLengths, r) : r \in RoutesVia(via, a, b)})

(* In every turn of the loops, the distances lie between the shortest      *)
(* routes over the waypoints up to k and those over the waypoints before   *)
(* k, and the pairs of this round are at the former.  After the last turn  *)
(* they are the shortest of all, or DBL_MAX where there is no route.       *)
ShortestPaths ==
  stage \in {"relax", "stations", "done"} =>
    \A a, b \in Ids :
      LET behind == a < at[2] \/ (a = at[2] /\ b < at[3])
          through(k) == Ids \cap (0 .. k)
      IN  /\ dist[a][b] >= ShortestVia(through(at[1]), a, b)
          /\ dist[a][b] <= ShortestVia(through(IF behind THEN at[1] ELSE at[1] - 1), a, b)

(* Whoever follows next, one waypoint at a time, walks a shortest route:   *)
(* each hop is an edge and takes its length off the distance that is left. *)
NextLeads ==
  stage \in {"stations", "done"} =>
    \A a, b \in Ids :
      /\ next[a][b] = -1 <=> dist[a][b] = DBL_MAX
      /\ a # b /\ next[a][b] # -1 =>
           /\ are_connected(a, next[a][b])
           /\ dist[a][b] = euclidean_distance(ast[a], ast[next[a][b]]) + dist[next[a][b]][b]

(* all_pairs_shortest_path() is right about both of its results.           *)
FloydWarshall == ShortestPaths /\ NextLeads

(* Plans of up to two steps.                                               *)
Plan2(S) == {<<>>} \cup {<<e>> : e \in S} \cup (S \X S)

Stations == 1 .. number_of_stations(config)
WaypointOf(s) == convert_to_waypoint_id(config, s)

(* The station numbers of UPPAAL are a numbering: each stands for one      *)
(* station or end station, those up to NUM_END_STATIONS for the end        *)
(* stations (is_endstation() in station_scheduling.xml), and a waypoint is *)
(* converted back to the number it has.  An order of stations leaves UPPAAL*)
(* exactly them, and the end stations, to visit.                           *)
StationNumbers ==
  stage = "done" =>
    /\ {WaypointOf(s) : s \in Stations} = {id \in Ids : ast[id].type # "via"}
    /\ \A s \in Stations :
         /\ s <= number_of_end_stations(config) <=> ast[WaypointOf(s)].type = "endpoint"
         /\ next_station(config, [next_station |-> WaypointOf(s)]) = s
    /\ number_of_waypoints(config) = Cardinality(Ids)
    /\ \A order \in Plan2({id \in Ids : ast[id].type = "station"}) :
         {WaypointOf(s) : s \in Stations \ station_visited(config, [stations_to_visit |-> order])}
           = {id \in Ids : ast[id].type = "endpoint" \/ \E p \in DOMAIN order : order[p] = id}

Reach(s, t) == ShortestVia(Ids, WaypointOf(s), WaypointOf(t))
IsWholePart(whole, d) == whole * Unit <= d /\ d < (whole + 1) * Unit
AllWithinInt == \A s, t \in Stations : IsInt(Reach(s, t))

(* In a world without end stations UPPAAL is told the shortest distances   *)
(* between the stations it asks for; if one pair is not connected, or too  *)
(* far apart for an int, it is told INT_MAX for all of them, because the   *)
(* matrix is converted as a whole.                                         *)
StationDistances ==
  stage = "done" /\ config.end_stations = <<>> =>
    \A s, t \in Stations :
      IF AllWithinInt THEN IsWholePart(get_station_dist(config, s, t), Reach(s, t))
                      ELSE get_station_dist(config, s, t) = INT_MAX

(* The same in every world: "It is very unlikely that we use this path"    *)
(* (config_wrapper.cpp) of the path that returns INT_MAX.                  *)
DistancesKnown ==
  stage = "done" /\ AllWithinInt =>
    \A s, t \in Stations : IsWholePart(get_station_dist(config, s, t), Reach(s, t))

(* The waypoint model never needs longer than the station model promises:  *)
(* between two stations there is a route over the edges UPPAAL is told of  *)
(* whose distances, each truncated, add up to no more than the station     *)
(* distance.  One edge too long for an int hides all of them.              *)
EdgesWithinInt == \A x, y \in Ids : are_connected(x, y) => IsInt(EdgeLengths[x][y])

LevelsAgree ==
  stage = "done" /\ config.end_stations = <<>> /\ EdgesWithinInt =>
    \A s, t \in Stations :
      get_station_dist(config, s, t) < INT_MAX =>
        \E r \in Routes :
          /\ r[1] = WaypointOf(s) /\ r[Len(r)] = WaypointOf(t)
          /\ \A p \in 1 .. (Len(r) - 1) : get_waypoint_dist(config, r[p], r[p + 1]) # -1
          /\ LengthBy([x \in Ids |-> [y \in Ids |-> get_waypoint_dist(config, x, y)]], r)
                <= get_station_dist(config, s, t)

(* get_station_dist() and get_waypoint_dist() tell the truth and agree.    *)
DistancesAgree == StationDistances /\ LevelsAgree

Actions == [type : {"eHold", "eWaypoint"}, value : Ids]

(* What one of the other robots plans: the same waypoints at both levels.  *)
Planning(id, plan) ==
  [id |-> id, eta |-> nullopt, waypoint_plan |-> plan,
   station_plan |-> [p \in DOMAIN plan |-> plan[p].value]]

(* The dynamic configuration when robot id has this plan and the other of  *)
(* the robots 2 and 10 none.                                               *)
OneOfTwo(id, plan) ==
  [robot_info_map |-> Broadcast([o \in {2, 10} |-> Planning(o, IF o = id THEN plan ELSE <<>>)])]

(* UPPAAL numbers the other robots from 2, in the order of their names.    *)
NumberOf(id) == IF id = 10 THEN 2 ELSE 3

(* The waypoint plan of another robot reaches UPPAAL through the           *)
(* broadcaster as that robot made it: three conversions later, each step   *)
(* has its type and value, and DONE follows the last; the plan is that of  *)
(* the robot whose name has this place, and of no other.                   *)
ActionsArrive ==
  stage = "done" =>
    \A id \in {2, 10}, plan \in Plan2(Actions) :
      LET dc == OneOfTwo(id, plan)
      IN  \A r \in {2, 3}, step \in 0 .. 2 :
            IF r = NumberOf(id) /\ step < Len(plan)
            THEN /\ get_next_action_value(dc, r, step) = plan[step + 1].value
                 /\ get_next_action_type(dc, r, step) =
                      (IF plan[step + 1].type = "eHold" THEN HOLD ELSE WAYPOINT)
            ELSE get_next_action_type(dc, r, step) = DONE

(* Of its station plan only the length arrives, because the broadcaster    *)
(* reads keys for elements: UPPAAL is told the stations with the waypoint  *)
(* ids 0, 1, ..., whatever was planned, and nothing at all of any robot if *)
(* one of these is no station.                                             *)
OnlyLengthsArrive ==
  stage = "done" =>
    \A id \in {2, 10}, plan \in Plan2(Actions) :
      LET dc == OneOfTwo(id, plan)
          sound == \A n \in 0 .. (Len(plan) - 1) : n \in Ids /\ ast[n].type # "via"
      IN  \A r \in {2, 3}, step \in 0 .. 2 :
            LET told == next_robot_station(config, dc, r, step)
            IN  IF sound /\ r = NumberOf(id) /\ step < Len(plan)
                THEN WaypointOf(told) = step
                ELSE told = 0

(* What becomes of the plans of other robots on their way to UPPAAL: those *)
(* of waypoints arrive, those of stations do not.                          *)
PlansArrive == ActionsArrive /\ OnlyLengthsArrive
=============================================================================
