----------------------------- MODULE Schedules -----------------------------
(***************************************************************************)
(* From a simulation to a schedule: the Robot templates of                 *)
(* waypoint_scheduling.xml and station_scheduling.xml make the samples     *)
(* that UPPAAL prints, UppaalSimulationParser reads them, and the          *)
(* convert_result() of the two schedulers turns them into a schedule.  One *)
(* behaviour is one answer of UPPAAL.                                      *)
(***************************************************************************)
EXTENDS Filter, FiniteSetsExt

CONSTANTS
  get_waypoint_dist,    \* [from, to] -> the length of the road, or -1
  uncertainty,          \* of the time a road takes
  next_waypoint,        \* where the robot is in the waypoint model
  destination,
  WaitingTimes,         \* how long a waypoint may keep a robot
  Stations,
  next_station,
  num_end_stations,     \* the first stations are the end stations
  StationTimes,         \* how long the robot may be on its way to a station
  convert_to_waypoint_id,
  Bound,                \* of the simulation: 100 and 200
  MaxHolds,             \* per waypoint
  MaxSplits             \* how often the other automata move during one delay

WaypointIds == {p[2] : p \in DOMAIN get_waypoint_dist}

(* No road leads from a waypoint to itself, and no two stations share a    *)
(* waypoint: config_wrapper.cpp numbers the waypoints and the stations.    *)
ASSUME SchedulesAssumption ==
  /\ WaypointIds \subseteq Nat
  /\ get_waypoint_dist \in [WaypointIds \X WaypointIds -> Nat \cup {-1}]
  /\ \A id \in WaypointIds : get_waypoint_dist[<<id, id>>] = -1
  /\ next_waypoint \in WaypointIds
  /\ uncertainty \in Nat
  /\ WaitingTimes \subseteq Nat /\ StationTimes \subseteq Nat
  /\ Bound \in Nat /\ MaxHolds \in Nat /\ MaxSplits \in Nat
  /\ IsFiniteSet(Stations) /\ Stations = 1 .. Cardinality(Stations)
  /\ num_end_stations \in Stations /\ next_station \in Stations
  /\ convert_to_waypoint_id \in [Stations -> Nat]
  /\ \A s, t \in Stations : convert_to_waypoint_id[s] = convert_to_waypoint_id[t] => s = t

VARIABLES
  model,        \* "waypoint" or "station"
  sampling,     \* where UPPAAL repeats a sample: "changes", and at the "end", or in all "delays"
  loc,          \* the location of the Robot, then where the scheduler is
  now,
  value,        \* variable of the query -> its value
  trace,        \* variable of the query -> its samples
  visited,      \* of the station model
  trips,        \* history: the targets the robot chose, how long it held there
  result,       \* the lines UPPAAL prints
  queue,        \* the queues of convert_result()
  schedule,
  outcome       \* "", "emitted", "exception", "undefined"

simVars == <<model, sampling>>
vars == <<model, sampling, loc, now, value, trace, visited, trips, result, queue, schedule, outcome>>

Variables(m) ==
  IF m = "waypoint" THEN <<"Robot.cur_waypoint", "Robot.dest_waypoint", "Robot.Holding">>
  ELSE <<"Robot.initial_station", "Robot.converted_cur()", "Robot.converted_dest()">>

Cur == Variables(model)[IF model = "waypoint" THEN 1 ELSE 2]
Dest == Variables(model)[IF model = "waypoint" THEN 2 ELSE 3]

InitialValues(m) ==
  [v \in Range(Variables(m)) |->
     CASE v = "Robot.cur_waypoint"     -> next_waypoint
       [] v = "Robot.converted_cur()"  -> convert_to_waypoint_id[next_station]
       [] v = "Robot.converted_dest()" -> convert_to_waypoint_id[1]
       [] OTHER                        -> 0]

Init ==
  /\ model \in {"waypoint", "station"}
  /\ sampling \in {"changes", "end", "delays"}
  /\ loc = "Start"
  /\ now = 0
  /\ value = InitialValues(model)
  /\ trace = [v \in DOMAIN value |-> <<[time |-> 0, value |-> value[v]]>>]
  /\ visited \in {S \in SUBSET Stations : \A s \in S : s > num_end_stations}
  /\ model = "waypoint" => visited = {}
  /\ trips = <<>> /\ result = <<>> /\ queue = <<>> /\ schedule = <<>> /\ outcome = ""

-----------------------------------------------------------------------------
(* Samples.                                                                *)

Last(s) == s[Len(s)]

Repeated(tr, t, times) ==
  [v \in DOMAIN tr |-> tr[v] \o [i \in 1 .. times |-> [time |-> t, value |-> Last(tr[v]).value]]]

(* A delay to time t, split by moves of the automata Waypoint, OtherRobot  *)
(* and those of the query.  UPPAAL samples there too, at times after now;  *)
(* t stands for all of them, since convert_result() only compares them     *)
(* with arrivals of the Robot, and none of these lies in between.          *)
Delayed(tr, t, splits) ==
  IF sampling = "delays" /\ t # now THEN Repeated(tr, t, splits + 1) ELSE tr

(* A change at time t: the old value once more where time has passed.      *)
Changed(tr, v, t, new) ==
  IF Last(tr[v]).value = new THEN tr
  ELSE LET old == IF Last(tr[v]).time = t THEN <<>> ELSE <<[time |-> t, value |-> Last(tr[v]).value]>>
       IN [tr EXCEPT ![v] = @ \o old \o <<[time |-> t, value |-> new]>>]

(* The robot moves on at time t and sets variable v.                       *)
Move(from, to, t, v, new) ==
  /\ outcome = "" /\ result = <<>>
  /\ loc = from /\ loc' = to
  /\ t <= Bound
  /\ now' = t
  /\ value' = [value EXCEPT ![v] = new]
  /\ \E splits \in 0 .. MaxSplits : trace' = Changed(Delayed(trace, t, splits), v, t, new)
  /\ UNCHANGED <<simVars, result, queue, schedule, outcome>>

Chosen(id) == trips' = Append(trips, [id |-> id, held |-> 0, arrived |-> FALSE])

Arrived == trips' = [trips EXCEPT ![Len(trips)].arrived = TRUE]

-----------------------------------------------------------------------------
(* Template Robot of waypoint_scheduling.xml.                              *)

WaypointStart ==
  model = "waypoint" /\ Move("Start", "Choose", now, Dest, -1) /\ UNCHANGED <<visited, trips>>

WaypointDone ==
  /\ model = "waypoint" /\ value[Cur] = destination
  /\ Move("Choose", "Done", now, Dest, value[Dest])
  /\ UNCHANGED <<visited, trips>>

WaypointChoose(id) ==
  /\ model = "waypoint" /\ value[Cur] # destination
  /\ get_waypoint_dist[<<value[Cur], id>>] # -1
  /\ Move("Choose", "BetweenWaypoints", now, Dest, id)
  /\ Chosen(id)
  /\ UNCHANGED visited

RoadTimes == LET dist == get_waypoint_dist[<<value[Cur], value[Dest]>>] IN dist .. dist * uncertainty

WaypointArrive ==
  /\ loc = "BetweenWaypoints"
  /\ \E t \in RoadTimes : Move(loc, "QueueUp", now + t, Cur, value[Dest])
  /\ Arrived
  /\ UNCHANGED visited

WaypointHold ==
  /\ model = "waypoint" /\ trips # <<>> /\ Last(trips).held < MaxHolds
  /\ Move("QueueUp", "Holding", now, "Robot.Holding", 1)
  /\ trips' = [trips EXCEPT ![Len(trips)].held = @ + 1]
  /\ UNCHANGED visited

WaypointHeld == loc = "Holding" /\ Move(loc, "QueueUp", now + 1, "Robot.Holding", 0) /\ UNCHANGED <<visited, trips>>

WaypointQueue == Move("QueueUp", "Waiting", now, Dest, value[Dest]) /\ UNCHANGED <<visited, trips>>

WaypointGo ==
  /\ model = "waypoint"
  /\ \E w \in WaitingTimes : Move("Waiting", "Choose", now + w, Dest, value[Dest])
  /\ UNCHANGED <<visited, trips>>

-----------------------------------------------------------------------------
(* Template Robot of station_scheduling.xml.                               *)

is_endstation(id) == id <= num_end_stations
all_nonend == \A id \in Stations : is_endstation(id) \/ id \in visited
endstation_visited == \E id \in visited : is_endstation(id)

can_visit(id) ==
  /\ ~endstation_visited
  /\ id \notin visited
  /\ is_endstation(id) => all_nonend

StationStart ==
  /\ model = "station"
  /\ Move("Start", "ToNext", now, "Robot.initial_station", 1)
  /\ UNCHANGED <<visited, trips>>

(* The way to the next station takes the eta of the robot.                 *)
StationToNext ==
  /\ \E t \in StationTimes : Move("ToNext", "Choose", now + t, Dest, value[Dest])
  /\ UNCHANGED <<visited, trips>>

StationDone ==
  /\ model = "station" /\ endstation_visited
  /\ Move("Choose", "Done", now, Dest, value[Dest])
  /\ UNCHANGED <<visited, trips>>

StationChoose(id) ==
  /\ model = "station" /\ can_visit(id)
  /\ Move("Choose", "EnRoute", now, Dest, convert_to_waypoint_id[id])
  /\ Chosen(id)
  /\ UNCHANGED visited

StationArrive ==
  /\ \E t \in StationTimes : Move("EnRoute", "Waiting", now + t, Cur, value[Dest])
  /\ Arrived
  /\ UNCHANGED visited

StationVisited ==
  /\ model = "station"
  /\ \E t \in StationTimes : Move("Waiting", "Choose", now + t, Dest, value[Dest])
  /\ visited' = visited \cup {Last(trips).id}
  /\ UNCHANGED trips

-----------------------------------------------------------------------------
(* The answer of verifyta: the lines of three formulas.                    *)

Formula(n) == [kind |-> "formula", n |-> n]
Verdict == [kind |-> "verdict"]
Blank == [kind |-> "blank"]
Name(v) == [kind |-> "name", name |-> v]
Run(pairs) == [kind |-> "run", pairs |-> pairs]
OddRun == [kind |-> "odd", name |-> "[0]:"]     \* a time with an exponent

Printed(tr) ==
  LET line(i) == Name(Variables(model)[i])
      run(i) == Run(tr[Variables(model)[i]])
  IN  <<line(1), run(1), line(2), run(2), line(3), run(3)>>

Answers(tr) ==
  LET before == <<Formula(1), Verdict, Blank, Formula(2), Verdict>>
      lines == Printed(tr)
  IN { before \o lines,                                          \* the end of the text
       before \o lines \o <<Blank, Formula(3), Verdict>>,
       <<Formula(1), Verdict>>,                                  \* no strategy, and an error
       before \o <<Blank, Formula(3), Verdict>> }                \* not satisfied
     \cup { before \o [lines EXCEPT ![i] = OddRun] \o <<Blank>> : i \in {2, 4, 6} }

(* The simulation stops where the next step would be past the bound, or    *)
(* the robot is done.                                                      *)
Delays ==
  CASE loc = "BetweenWaypoints" -> RoadTimes
    [] loc = "Holding" -> {1}
    [] loc = "Waiting" /\ model = "waypoint" -> WaitingTimes
    [] loc \in {"EnRoute", "Waiting", "ToNext"} -> StationTimes
    [] loc = "Done" -> {Bound + 1}
    [] OTHER -> {}

(* How often the last values are printed once more, for the bound.         *)
LastSamples ==
  CASE sampling = "changes" -> {0}
    [] sampling = "end"     -> {1}
    [] OTHER                -> 1 .. (MaxSplits + 1)

Answer ==
  /\ outcome = "" /\ result = <<>>
  /\ \E d \in Delays : now + d > Bound
  /\ \E times \in LastSamples : trace' = Repeated(trace, Bound, times)
  /\ now' = Bound
  /\ result' \in Answers(trace')
  /\ UNCHANGED <<simVars, loc, value, visited, trips, queue, schedule, outcome>>

-----------------------------------------------------------------------------
(* UppaalSimulationParser.                                                 *)

(* The first of these positions, or 0.                                     *)
First(positions) == IF positions = {} THEN 0 ELSE Min(positions)

(* The lines of a formula; <<>> where substr() throws.                     *)
formula_text(lines, formula_number) ==
  LET start == First({i \in DOMAIN lines : lines[i] = Formula(formula_number)})
      stop == First({i \in DOMAIN lines : lines[i] = Formula(formula_number + 1)})
  IN IF start = 0 THEN <<>> ELSE SubSeq(lines, start, IF stop = 0 THEN Len(lines) ELSE stop - 1)

(* What follows the verdict, up to an empty line.                          *)
formula_body(lines, formula_number) ==
  LET formula == formula_text(lines, formula_number)
      rest == SubSeq(formula, 3, Len(formula))
      blank == First({i \in DOMAIN rest : rest[i] = Blank})
  IN IF blank = 0 THEN rest ELSE SubSeq(rest, 1, blank - 1)

(* An expression is a line that is taken for a name and the runs after it. *)
(* The expressions are numbered by their lines.                            *)
parse(lines, formula_number) ==
  LET body == formula_body(lines, formula_number)
      names == {i \in DOMAIN body : body[i].kind # "run" \/ i = 1}
      stop(i) == Min({j \in names : j > i} \cup {Len(body) + 1})
  IN [i \in names |-> [name |-> body[i].name,
                       runs |-> [r \in 1 .. (stop(i) - i - 1) |-> body[i + r].pairs]]]

(* Seeded fault: whatever has a run will do.                               *)
AnyRun(values, name) == {values[k].runs[1] : k \in {j \in DOMAIN values : values[j].runs # <<>>}}

(* The first run of an expression, if there is one; else an exception.     *)
findFirstRunAsQueue(values, name) ==
  LET k == First({j \in DOMAIN values : values[j].name = name})
  IN IF k = 0 \/ values[k].runs = <<>> THEN {} ELSE {values[k].runs[1]}

Looked == IF model = "waypoint" THEN Range(Variables(model)) ELSE {Dest}

Scheduling == result # <<>> /\ outcome = ""

Parse ==
  LET values == parse(result, 2)
  IN /\ Scheduling /\ queue = <<>>
     /\ IF formula_text(result, 2) # <<>> /\ \A v \in Looked : findFirstRunAsQueue(values, v) # {}
          THEN /\ queue' = [v \in Looked |-> CHOOSE q \in findFirstRunAsQueue(values, v) : TRUE]
               /\ outcome' = ""
          ELSE outcome' = "exception" /\ UNCHANGED queue
     /\ loc' = "Convert"
     /\ UNCHANGED <<simVars, now, value, trace, visited, trips, result, schedule>>

-----------------------------------------------------------------------------
(* convert_result().                                                       *)

(* A queue from the first of these positions on.                           *)
From(q, positions) == IF positions = {} THEN <<>> ELSE SubSeq(q, Min(positions), Len(q))

Popped(q) == IF q = <<>> THEN <<>> ELSE Tail(q)

(* What is popped before the loop.                                         *)
Prepare ==
  /\ Scheduling /\ queue # <<>> /\ loc = "Convert"
  /\ loc' = "Loop"
  /\ queue' = IF model = "waypoint"
              THEN [cur |-> Tail(queue[Cur]), dest |-> Tail(Tail(queue[Dest])),
                    last_dest |-> queue[Dest][2].value, hold |-> Tail(queue["Robot.Holding"])]
              ELSE [dest |-> Tail(queue[Dest]), last_dest |-> Head(queue[Dest]).value]
  /\ UNCHANGED <<simVars, now, value, trace, visited, trips, result, schedule, outcome>>

(* Seeded fault: the repetitions of a destination are not skipped.         *)
EveryDest == queue.dest

NextDest == From(queue.dest, {i \in DOMAIN queue.dest : queue.dest[i].value # queue.last_dest})

Emit ==
  /\ outcome' = "emitted"
  /\ UNCHANGED <<queue, schedule>>

(* Seeded fault: the samples up to the arrival are not skipped.            *)
HoldFromStart(hold, arrival) == hold

hold_after(hold, arrival) == From(hold, {i \in DOMAIN hold : hold[i].time > arrival})

hold_action(delay) == IF delay > 0 THEN <<[type |-> "Hold", value |-> delay]>> ELSE <<>>

ConvertWaypoints ==
  LET next == Head(NextDest).value
      at == First({i \in DOMAIN queue.cur : queue.cur[i].value = next})
      hold == hold_after(queue.hold, queue.cur[at].time)
      after == From(hold, {i \in DOMAIN hold : hold[i].value # 1})
      delay == Len(hold) - Len(after)
  IN /\ Scheduling /\ loc = "Loop" /\ model = "waypoint"
     /\ \/ (queue.cur = <<>> \/ NextDest = <<>>) /\ Emit
        \/ /\ queue.cur # <<>> /\ NextDest # <<>> /\ at = 0
           /\ outcome' = "undefined"
           /\ UNCHANGED <<queue, schedule>>
        \/ /\ queue.cur # <<>> /\ NextDest # <<>> /\ at # 0
           /\ queue' = [cur |-> SubSeq(queue.cur, at + 1, Len(queue.cur)), dest |-> Tail(NextDest),
                        last_dest |-> next, hold |-> Popped(after)]
           /\ schedule' = schedule \o <<[type |-> "Waypoint", value |-> next]>> \o hold_action(delay)
           /\ UNCHANGED outcome
     /\ UNCHANGED <<simVars, loc, now, value, trace, visited, trips, result>>

NextStation ==
  /\ NextDest # <<>>
  /\ queue' = [dest |-> Tail(NextDest), last_dest |-> Head(NextDest).value]
  /\ schedule' = Append(schedule, Head(NextDest).value)
  /\ UNCHANGED outcome

ConvertStations ==
  /\ Scheduling /\ loc = "Loop" /\ model = "station"
  /\ \/ NextDest = <<>> /\ Emit
     \/ NextStation
  /\ UNCHANGED <<simVars, loc, now, value, trace, visited, trips, result>>

-----------------------------------------------------------------------------

Next ==
  \/ WaypointStart \/ WaypointDone \/ WaypointArrive
  \/ WaypointHold \/ WaypointHeld \/ WaypointQueue \/ WaypointGo
  \/ \E id \in WaypointIds : WaypointChoose(id)
  \/ StationStart \/ StationToNext \/ StationDone \/ StationArrive \/ StationVisited
  \/ \E id \in Stations : StationChoose(id)
  \/ Answer \/ Parse \/ Prepare \/ ConvertWaypoints \/ ConvertStations
  \/ outcome # "" /\ UNCHANGED vars

Spec == Init /\ [][Next]_vars

-----------------------------------------------------------------------------

(* The type invariant of a simulation and its conversion.                  *)
TypeOK ==
  /\ now \in 0 .. Bound
  /\ \A v \in DOMAIN trace : \A i \in DOMAIN trace[v] :
       /\ trace[v][i].time \in 0 .. Bound
       /\ i > 1 => trace[v][i - 1].time <= trace[v][i].time
  /\ visited \subseteq Stations
  /\ model = "waypoint" => \A i \in DOMAIN schedule :
       schedule[i] \in [type : {"Waypoint"}, value : Nat] \cup [type : {"Hold"}, value : Nat \ {0}]
  /\ outcome \in {"", "emitted", "exception", "undefined"}

Readable(v) == \E i \in 2 .. Len(result) : result[i - 1] = Name(v) /\ result[i] = Run(trace[v])

(* The parser gives back what UPPAAL printed: each variable with its own   *)
(* samples, wherever the formula ends.  An answer with a run missing, or   *)
(* in a format the pattern does not match, ends in an exception whenever   *)
(* that run is needed, and only then: no schedule is made from another run.*)
ParsesWhatWasPrinted ==
  result # <<>> =>
    /\ (\A v \in DOMAIN trace : Readable(v)) =>
         parse(result, 2) = [i \in {1, 3, 5} |-> LET v == Variables(model)[(i + 1) \div 2]
                                                  IN  [name |-> v, runs |-> <<trace[v]>>]]
    /\ outcome \in {"emitted", "undefined"} => \A v \in Looked : Readable(v)
    /\ outcome = "exception" => \E v \in Looked : ~Readable(v)

(* The simulation keeps its types and the parser reads what it left.       *)
AnswerRead == TypeOK /\ ParsesWhatWasPrinted

Visits == Keep(trips, [id : WaypointIds, held : 0 .. MaxHolds, arrived : {TRUE}])
Ids(s) == [i \in DOMAIN s |-> s[i].id]
Waypoints == Keep(schedule, [type : {"Waypoint"}, value : WaypointIds])

(* A waypoint schedule lists exactly the waypoints the simulated robot     *)
(* reached, in their order, whatever UPPAAL repeats and however many       *)
(* waypoints it passes in no time.                                         *)
ScheduleIsTheRoute ==
  model = "waypoint" /\ outcome = "emitted" => [i \in DOMAIN Waypoints |-> Waypoints[i].value] = Ids(Visits)

(* The queue of convert_result() runs empty under its do loop only where   *)
(* the bound of the simulation cut the robot off between two waypoints,    *)
(* and always then if UPPAAL prints a sample at the bound.                 *)
UndefinedOnlyWhenCut ==
  LET cut == model = "waypoint" /\ Len(Visits) < Len(trips)
  IN /\ outcome = "undefined" => cut
     /\ cut /\ outcome = "emitted" => sampling = "changes"

(* The outcome of convert_result() for waypoints: the route, or undefined  *)
(* for a robot that was cut off.                                           *)
RouteSound == ScheduleIsTheRoute /\ UndefinedOnlyWhenCut

(* The places of the Holds of the schedule: behind which waypoint.         *)
HoldPlaces ==
  {Cardinality({j \in 1 .. i : schedule[j].type = "Waypoint"}) :
     i \in {h \in DOMAIN schedule : schedule[h].type = "Hold"}}

(* A Hold of the schedule is one that the simulated robot made, and never  *)
(* stands later on the route than there: from any waypoint on, the robot   *)
(* is told to hold no more often than it held there in the simulation.     *)
HoldsNeverLater ==
  \A k \in DOMAIN Visits :
    Cardinality({h \in HoldPlaces : h >= k})
      <= Cardinality({p \in (k .. Len(Visits)) \X (1 .. MaxHolds) : p[2] <= Visits[p[1]].held})

(* No stop is lost: the robot is told to hold as often as there are        *)
(* waypoints where it held and went on from.                               *)
NoStopLost ==
  Cardinality({k \in 1 .. (Len(Visits) - 1) : Visits[k].held > 0}) <= Cardinality(HoldPlaces)

(* The holds of a waypoint schedule, over roads that take no time too and  *)
(* whatever UPPAAL repeats.  One may stand earlier than the robot made it: *)
(* of the samples of changes alone, convert_result() takes one too many at *)
(* a waypoint without a hold.  Of several at one waypoint not all come.    *)
HoldsSound ==
  model = "waypoint" /\ outcome = "emitted" => HoldsNeverLater /\ NoStopLost

(* A station schedule lists the stations the simulated robot chose, but    *)
(* for one case: dest starts as station 1, so that a robot that is left    *)
(* with nothing but this end station gets an empty schedule.               *)
StationsAsChosen ==
  model = "station" /\ outcome = "emitted" =>
    LET chosen == Ids(trips)
    IN schedule = IF chosen = <<1>> THEN <<>>
                  ELSE [i \in DOMAIN chosen |-> convert_to_waypoint_id[chosen[i]]]

=============================================================================
