-------------------------- MODULE RobotController --------------------------
(***************************************************************************)
(* The controller process of a Webots robot: run_simulation() of robot.cpp *)
(* with the messages of webots_server.cpp.  What the sensors say in a step *)
(* is chosen anew in every step; distances are whole multiples of 5 cm,    *)
(* the margin and the threshold of the code.                               *)
(***************************************************************************)
EXTENDS Geo, WebotsServer, Filter, SequencesExt

CONSTANTS
  Echoes,             \* the values a beam of the lidar may return
  lidar_min_range,
  lidar_max_range,
  GoalAngles,         \* relative angles to the goal
  GoalDists,          \* distances to the goal; 0 is below DIST_TO_GOAL_THRESHOLD
  OriginToGoal,       \* the distance of (0, 0) to the goal
  Metre,
  Cosine,             \* angle -> thousandths, for the angles between beam and goal
  MaxBatch            \* the most messages one receive() finds

Thousandths == -1000 .. 1000

ASSUME ControllerAssumption ==
  /\ Echoes \subseteq Nat /\ lidar_max_range \in Nat /\ GoalDists \subseteq Nat
  /\ \A a \in DOMAIN Cosine : Cosine[a] \in Thousandths
  /\ \A i \in Beams, a \in GoalAngles : AngleMinus(index2angle(i), a) \in DOMAIN Cosine
  /\ MaxBatch \in Nat

VARIABLES
  int_abs,        \* does the build take abs() of a double for the abs() of integers?
  first_iteration,
  is_stopped,
  gear,           \* the last command to the motors
  leds,
  phase,
  dfollowed,
  position,       \* Unread, or how many steps ago the position was read
  peer,           \* is the other end of the connection open?
  raw,            \* the messages of this step
  messages,       \* those get_messages() returns
  sent,           \* the replies of this step
  nearest         \* history: how near to the goal an obstacle came in this boundary following

controlVars == <<is_stopped, gear, leds, phase, dfollowed, position, nearest>>
talkVars == <<raw, messages, sent>>
vars == <<pc, serverVars, controlVars, talkVars, int_abs, first_iteration, peer>>

Motion2Goal == "Motion2Goal"
Motion2Discontinuity == "Motion2Discontinuity"
BoundaryFollowing == "BoundaryFollowing"

Infinity == 1000        \* std::numeric_limits<double>::max()
NoRange == -1           \* std::nullopt
Unread == -1
Margin == 1             \* 0.05 and CONTINUITY_THRESHOLD
Radius == 420           \* ROBOT_RADIUS, in thousandths

Requests == {"get_state", "unknown", "destination", "no_comma", "not_a_number"}

Init ==
  /\ pc = "listen"
  /\ ServerInit
  /\ int_abs \in BOOLEAN
  /\ first_iteration = TRUE
  /\ is_stopped = TRUE
  /\ gear = "halt"
  /\ leds = "off"
  /\ phase = Motion2Goal
  /\ dfollowed = Infinity
  /\ position = Unread
  /\ peer = "open"
  /\ raw = <<>> /\ messages = <<>> /\ sent = <<>>
  /\ nearest = Infinity

-----------------------------------------------------------------------------
(* A step of the simulation, and what the other robot process said.        *)

(* robot->step(): the process goes on, or the simulation is over.          *)
Step ==
  /\ \/ Goto("step", "receive")
     \/ Goto("step", "close")
  /\ position' = IF position = Unread THEN Unread ELSE position + 1
  /\ UNCHANGED <<serverVars, talkVars, int_abs, first_iteration, peer>>
  /\ UNCHANGED <<is_stopped, gear, leds, phase, dfollowed, nearest>>

(* Seeded fault: without the continue an unknown message goes on with a    *)
(* type nobody set.                                                        *)
FallsThrough(batch) == batch

understood(batch) == Keep(batch, Requests \ {"unknown"})

(* receive() finds what came in; at the end of the stream it never returns,*)
(* and nobody catches what it throws at bytes that are no message, or when *)
(* the connection was reset.  get_messages() answers what it does not know *)
(* before anything else.                                                   *)
GetMessages ==
  /\ \/ /\ \E batch \in BoundedSeq(Requests, MaxBatch) :
             /\ raw' = batch
             /\ messages' = understood(batch)
             /\ sent' = Keep(batch, {"unknown"})
        /\ \/ peer = "open" /\ Goto("receive", "communicate")
           \/ peer = "closed" /\ raw' # <<>> /\ Goto("receive", "communicate")
           \/ peer = "closed" /\ raw' = <<>> /\ Goto("receive", "hung")
           \/ peer = "closed" /\ sent' # <<>> /\ Goto("receive", "killed")
     \/ Goto("receive", "aborted") /\ UNCHANGED talkVars
  /\ UNCHANGED <<serverVars, controlVars, int_abs, first_iteration, peer>>

(* The replies of communicate() to the messages before the first one that  *)
(* std::stod() throws on.                                                  *)
Answered(batch) == Keep(batch, Requests \ {"destination"})

Communicate ==
  LET bad == SelectInSeq(messages, LAMBDA m : m = "not_a_number")
      replies == Answered(IF bad = 0 THEN messages ELSE SubSeq(messages, 1, bad - 1))
  IN /\ sent' = sent \o replies
     /\ \/ bad = 0 /\ Goto("communicate", "answered")
        \/ bad # 0 /\ Goto("communicate", "aborted")
        \/ peer = "closed" /\ replies # <<>> /\ Goto("communicate", "killed")
     /\ UNCHANGED <<serverVars, controlVars, int_abs, first_iteration, peer, raw, messages>>

(* communicate() returns; the first step ends here.                        *)
CommunicateReturns ==
  /\ Goto("answered", IF first_iteration THEN "step" ELSE "control")
  /\ first_iteration' = FALSE
  /\ raw' = <<>> /\ messages' = <<>> /\ sent' = <<>>
  /\ UNCHANGED <<serverVars, controlVars, int_abs, peer>>

PeerCloses ==
  /\ client.fd # None
  /\ peer = "open"
  /\ peer' = "closed"
  /\ UNCHANGED <<pc, serverVars, controlVars, talkVars, int_abs, first_iteration>>

-----------------------------------------------------------------------------
(* What the sensors say: [range, goal, dist], as update_sensor_values()    *)
(* and the GPS leave it.                                                   *)

in_range(d) == 101 * lidar_min_range <= 100 * d /\ 100 * d <= 99 * lidar_max_range

ImageSource == [i \in Beams |-> CHOOSE j \in Beams : image_index(j) = i]

Readings ==
  { [range |-> [i \in Beams |-> IF in_range(image[ImageSource[i]]) THEN image[ImageSource[i]]
                                                                   ELSE NoRange],
     goal |-> a, dist |-> d] :
    image \in [Beams -> Echoes], a \in GoalAngles, d \in GoalDists }

has_value(s, i) == s.range[i] # NoRange
length(s, i) == IF has_value(s, i) THEN s.range[i] ELSE lidar_max_range

Root(n) == CHOOSE k \in 0 .. n : k * k <= n /\ n < (k + 1) * (k + 1)

(* The law of cosines.                                                     *)
third_side_squared(r, d, cosine) == r * r + d * d - (2 * r * d * cosine) \div 1000

(* The distance of the end of a beam to the goal: from_polar(),            *)
(* to_global_coordinates() and euclidean_dist().                           *)
EndToGoal ==
  [r \in Echoes \cup {lidar_max_range} |-> [d \in GoalDists |-> [a \in DOMAIN Cosine |->
     Root(third_side_squared(r, d, Cosine[a]))]]]

to_goal(s, i) == EndToGoal[length(s, i)][s.dist][AngleMinus(index2angle(i), s.goal)]

dreach(s) == Min({to_goal(s, i) : i \in Beams})

obstacle2goal(s) == Min({to_goal(s, i) : i \in {j \in Beams : has_value(s, j)}} \cup {Infinity})

(* abs(x) > CONTINUITY_THRESHOLD: of integers, a jump of a metre.          *)
Jumps(x, y) ==
  LET gap == IF x < y THEN y - x ELSE x - y
  IN IF int_abs THEN gap >= Metre ELSE gap > Margin

get_discontinuity_points(s) ==
  { i \in Beams : LET next == (i + 1) % lidar_resolution
                  IN \/ has_value(s, i) # has_value(s, next)
                     \/ has_value(s, i) /\ Jumps(s.range[i], s.range[next]) }

DirectionLeft(s, i) ==
  LET next == (i + 1) % lidar_resolution
  IN /\ has_value(s, i)
     /\ has_value(s, next) => s.range[i] < s.range[next]

(* An obstacle next to the line to the goal: abs(y) <= ROBOT_RADIUS.  Of   *)
(* the integers, everything within a metre.                                *)
InTheWay(s, i) ==
  LET diff == abs_angle(AngleMinus(index2angle(i), s.goal))
      y2 == s.range[i] * s.range[i] * (1000000 - Cosine[diff] * Cosine[diff])
  IN /\ diff <= Pi \div 2
     /\ has_value(s, i)
     /\ IF int_abs THEN y2 < Metre * Metre * 1000000 ELSE y2 <= Radius * Radius

clear(s) == phase = Motion2Goal \/ \A i \in Beams : ~InTheWay(s, i)

-----------------------------------------------------------------------------
(* Commands to the motors.                                                 *)

gear_of(a) ==
  IF a > Pi \div 10 THEN "left"
  ELSE IF a < -(Pi \div 10) THEN "right"
  ELSE IF abs_angle(a) * 360 < Pi THEN "straight" ELSE "adjusted"

(* Seeded fault: the turn to the right forgets is_stopped as well.         *)
GoTowardsAngleForgets(a) ==
  /\ gear' = gear_of(a)
  /\ leds' = IF gear' \in {"left", "right"} THEN gear' ELSE "off"
  /\ is_stopped' = (is_stopped /\ gear' \in {"straight", "right"})

(* go_straight_ahead() leaves is_stopped alone.                            *)
go_towards_angle(a) ==
  /\ gear' = gear_of(a)
  /\ leds' = IF gear' \in {"left", "right"} THEN gear' ELSE "off"
  /\ is_stopped' = (is_stopped /\ gear' = "straight")

stop ==
  /\ gear' = "halt"
  /\ is_stopped' = TRUE
  /\ UNCHANGED leds

NoCommand == UNCHANGED <<gear, is_stopped, leds>>

(* The angle to the end of beam i, computed from its coordinates: the one  *)
(* straight behind comes out on either side of the cut.                    *)
Behind == {-Pi, Pi - 1}
PointAngle(i, behind) == IF index2angle(i) = -Pi THEN behind ELSE index2angle(i)

go_to_discontinuity(s, i, angle) ==
  LET remaining == Metre - Min({Metre, length(s, i)})
      correction == (remaining * Pi) \div (4 * Metre)
  IN go_towards_angle(IF DirectionLeft(s, i) THEN AnglePlus(angle, correction)
                                             ELSE AngleMinus(angle, correction))

(* Without discontinuities the best point is (0, 0) and the direction is   *)
(* not set: towards any angle.                                             *)
GoToOrigin == \E a \in {-(Pi \div 2), 0, Pi \div 20, Pi \div 2} : go_towards_angle(a)

Least(S, f) == {i \in S : \A j \in S : f[i] <= f[j]}

-----------------------------------------------------------------------------
(* The phases.                                                             *)

(* lidar_range_values at angle2index(): past the end it is anything.       *)
RangeToGoal(s) ==
  IF angle2index(s.goal) \in Beams THEN {s.range[angle2index(s.goal)]}
                                   ELSE {NoRange} \cup Echoes

(* Seeded fault: dfollowed is not reset.                                   *)
StartFollowingOn(s) ==
  /\ phase' = BoundaryFollowing
  /\ dfollowed' = Min({dfollowed, obstacle2goal(s)})
  /\ nearest' = obstacle2goal(s)
  /\ NoCommand

start_following(s) ==
  /\ phase' = BoundaryFollowing
  /\ dfollowed' = obstacle2goal(s)
  /\ nearest' = obstacle2goal(s)
  /\ NoCommand

motion2goal(s) ==
  LET points == get_discontinuity_points(s)
      best == Least(points, [i \in points |-> length(s, i) + to_goal(s, i)])
  IN \/ /\ \E range2goal \in RangeToGoal(s) : range2goal = NoRange \/ s.dist < range2goal
        /\ clear(s)
        /\ go_towards_angle(s.goal)
        /\ phase' = Motion2Goal
        /\ UNCHANGED <<dfollowed, nearest>>
     \/ /\ \/ \E range2goal \in RangeToGoal(s) : range2goal # NoRange /\ s.dist >= range2goal
           \/ ~clear(s)
        /\ \/ /\ IF points = {} THEN OriginToGoal > s.dist
                                ELSE \E i \in best : to_goal(s, i) > s.dist
              /\ start_following(s)
           \/ /\ \/ points = {} /\ OriginToGoal <= s.dist /\ GoToOrigin
                 \/ \E i \in best : /\ to_goal(s, i) <= s.dist
                                    /\ \E behind \in Behind :
                                         go_to_discontinuity(s, i, PointAngle(i, behind))
              /\ phase' = Motion2Discontinuity
              /\ UNCHANGED <<dfollowed, nearest>>

boundary_following(s) ==
  LET points == get_discontinuity_points(s)
  IN \/ /\ dreach(s) + Margin < dfollowed
        /\ phase' = Motion2Goal
        /\ UNCHANGED <<dfollowed, nearest>>
        /\ NoCommand
     \/ /\ dreach(s) + Margin >= dfollowed
        /\ \/ points = {} /\ GoToOrigin
           \/ \E behind \in Behind :
                \E i \in Least(points, [j \in points |-> abs_angle(PointAngle(j, behind))]) :
                  go_to_discontinuity(s, i, PointAngle(i, behind))
        /\ phase' = BoundaryFollowing
        /\ dfollowed' = Min({dfollowed, obstacle2goal(s)})
        /\ nearest' = Min({nearest, obstacle2goal(s)})

update_sensor_values == position' = 0

Control ==
  /\ Goto("control", "step")
  /\ update_sensor_values
  /\ \E s \in Readings :
       \/ s.dist = 0 /\ stop /\ UNCHANGED <<phase, dfollowed, nearest>>
       \/ s.dist # 0 /\ phase = BoundaryFollowing /\ boundary_following(s)
       \/ s.dist # 0 /\ phase # BoundaryFollowing /\ motion2goal(s)
  /\ UNCHANGED <<serverVars, talkVars, int_abs, first_iteration, peer>>

Next ==
  \/ /\ Lifecycle
     /\ UNCHANGED <<controlVars, talkVars, int_abs, first_iteration, peer>>
  \/ Step \/ GetMessages \/ Communicate \/ CommunicateReturns
  \/ Control
  \/ PeerCloses

Spec == Init /\ [][Next]_vars

-----------------------------------------------------------------------------

(* The type invariant of the controller process.                           *)
TypeOK ==
  /\ ServerTypeOK
  /\ gear \in {"halt", "left", "right", "straight", "adjusted"}
  /\ leds \in {"off", "left", "right"}
  /\ phase \in {Motion2Goal, Motion2Discontinuity, BoundaryFollowing}
  /\ dfollowed \in 0 .. Infinity /\ nearest \in 0 .. Infinity
  /\ raw \in Seq(Requests) /\ messages \in Seq(Requests) /\ sent \in Seq(Requests)
  /\ position \in -1 .. 2

(* What the LEDs and the state a get_state reply reports say about the     *)
(* motors: "running" is never said of a robot that was told to stop, and   *)
(* "stopped" is wrong only for one that was sent straight ahead, the one   *)
(* command that leaves is_stopped alone.                                   *)
ReportMatchesMotors ==
  /\ is_stopped => gear \in {"halt", "straight"}
  /\ ~is_stopped => gear # "halt"
  /\ gear # "halt" => leds = (IF gear \in {"left", "right"} THEN gear ELSE "off")

(* communicate() runs before the sensors are read: the position it reports *)
(* is that of the last step, never an older one; as long as there is none  *)
(* the robot has not been told to move.                                    *)
PositionIsLast ==
  pc \in {"receive", "communicate", "answered"} =>
    \/ position = 1
    \/ position = Unread /\ gear = "halt" /\ phase = Motion2Goal

(* What a get_state reply may be wrong about: at most one step of way, and *)
(* a robot that goes straight ahead.                                       *)
ReportSound == ReportMatchesMotors /\ PositionIsLast

(* Whatever the order of a batch, each message of it that needs an answer  *)
(* has one when communicate() returns, and no message has two, although    *)
(* get_messages() answers some of them and communicate() others.           *)
EachAnsweredOnce ==
  pc = "answered" =>
    \A m \in Requests \ {"destination"} : Count(raw, m) = Count(sent, m)

(* While the robot follows a boundary, the distance that decides when it   *)
(* leaves is that of the obstacles seen along this boundary, not one that  *)
(* an earlier boundary left behind.                                        *)
DfollowedOfThisBoundary == phase = BoundaryFollowing => dfollowed = nearest

(* motion2goal() and boundary_following() keep their types, and hand over  *)
(* to one another with a dfollowed of their own.                           *)
PhasesSound == TypeOK /\ DfollowedOfThisBoundary

(* ~Server() of tcp closes its descriptor a second time.  The number has   *)
(* been handed out again by then, to the connection that deregisters the   *)
(* robot, but that one is closed before: no foreign descriptor is hit.     *)
NoForeignClose == ~stolen

(* A controller that got to its destructors, though it ends by the         *)
(* exception of that second close(), is not registered any more; one that  *)
(* hangs, or ended by an exception of a receive(), an accept() or a        *)
(* conversion, still is.                                                   *)
RegisteredUntilDestroyed ==
  /\ pc \in {"members", "ended", "terminated"} => told = "remove_robot"
  /\ pc \in {"hung", "aborted"} => told = "add_robot"

(* The destructors do what they have to in spite of the second close().    *)
DestructionSound == NoForeignClose /\ RegisteredUntilDestroyed
=============================================================================
