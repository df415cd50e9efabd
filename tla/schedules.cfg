SPECIFICATION Spec
CONSTANTS
  get_waypoint_dist <- MCDist
  uncertainty = 2
  next_waypoint = 0
  destination = 2
  WaitingTimes = {0, 1}
  Stations = {1, 2, 3, 4}
  next_station = 3
  num_end_stations = 2
  StationTimes = {1, 2}
  convert_to_waypoint_id <- MCWaypointId
  Bound = 4
  MaxHolds = 2
  MaxSplits = 1
INVARIANTS AnswerRead RouteSound HoldsSound StationsAsChosen
