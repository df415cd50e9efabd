# A TLA+ verification of P7-kode

P7-kode drives warehouse robots in a Webots simulation. UPPAAL Stratego computes
station and waypoint schedules, small TCP services let the parts find and inform
each other, and a controller steers each robot. This directory holds TLA+ models
of the system, from the sockets to the schedules, the TLC configurations that check them on
small instances, and TLAPS proofs for instances of any size.

Run a configuration with `tlc -config X.cfg MCModule`, and the proofs with
`tlapm` on the eight modules whose name ends in `Proofs`.

## 1. Inventory

| Component | State | Operations | Interacts with | Hard behaviour |
|---|---|---|---|---|
| `scheduling` executor (`uppaal_executor.*`, `scheduler.hpp`) | `child_pid`, `worker`, `subscribers`; pipe and child process | `start`, `abort`, `wait_for_result`, `add_subscriber`, destructor | forks `verifyta`, worker thread calls back into the scheduler and its subscribers | unsynchronised `child_pid`; a local captured by reference; join or no join; the child waits for a reader and the reader for the child |
| station, waypoint and ETA schedulers, simulation parser | none of their own | `start_worker`, `convert_result`, `notify_subscribers`, `parse` | callback of the executor | queues that may be empty, parser exceptions in the worker |
| `tcp` | `obuffer`, `open`, `ready`, descriptors | `send`, `receive_*`, `accept`, `connect`, `close` | used by every service | messages in pieces, end of file, malformed bytes, double close |
| `port_discovery` | `robot_map` under a mutex | `add_robot`, `get_robot`, `remove_robot` | controllers register, orchestrators ask | one detached thread per connection: any order; exceptions |
| `webot` controller | phase, goal, motor state, `dfollowed`; descriptors | control loop, `communicate`, construction and destruction | Webots, port discovery, orchestrator | registration against a predecessor's removal; crash without deregistration; what is reported against what the motors were told; a descriptor closed twice |
| `communication` (broadcaster) | `robot_info` under a mutex | `put_robot_info`, `get_robot_info` | orchestrators | exceptions that end the process for everybody, SIGPIPE, answers sent after the unlock |
| `robot` orchestrator and `Info` | static and dynamic configuration | constructor, `load_webots_to_config`, messages | all services | the protocol with the broadcaster |
| `config` | JSON trees | load, set, write, index conversions | orchestrator, schedulers | two numberings of stations, missing keys |
| `order` | seed, stations and sizes | `generate_order`, accept loop | TCP clients | sizes at their limits or not initialised, stations named twice, exceptions in detached threads |
| `util` | none in use | `pick_n_random`, `split` | order service | an empty vector |
| `wbt-translator` | syntax tree, distance matrices | parse, Floyd-Warshall, print | orchestrator, UPPAAL templates | waypoints without an end mark, unconnected waypoints, updates in place |

What makes them correct: an executor runs one `verifyta` at a time, `abort()`
stops it, and subscribers never hear of an outdated schedule; a connection
delivers the messages that were sent; the port service never loses the entry of
a live controller nor hands out a removed port; the broadcaster never answers
with old information; clients that behave cannot harm each other; a schedule is
the route and the stations of the simulation it was made from, with holds that were made there; an order
names different stations; a controller answers each message once and reports the
state of its motors.
`PROJECT.json` lists every component and every hazard with its line.

## 2. Modules

**UppaalExecutor** models one `Scheduler` object with its executor. The actors are
the calling thread (`pc`, inside the public call `op`), the worker thread of each
job (`wpc`), and the `verifyta` process of each job (`child`). One action is one
step that another actor can observe: in `abort()` the test of `child_pid`, the
`kill()`, the reset and the join are four actions. A job's number stands for its
pid. Four facts of the code need care:
- the lambda captures `pid` by reference, so that reading it after `execute()` has
  returned is undefined: the worker may find its own child's pid, that of another
  child, 0 or -1, which stand for any child (`AnyPid`), or a number that is none of
  this executor's (`StrayPid`). `waitpid()` then blocks until that child ends, reaps
  it and reports its status, or fails and leaves `status` uninitialised (any value).
  `intact` is a history variable that says whether every worker so far has waited for
  its own child and nobody else has;
- other schedulers of the program have the same fault, and may wait for a child of
  this one (`ChildStolen`);
- a reset `std::optional` keeps its payload, so the `kill(*child_pid)` after a
  concurrent reset signals the last child;
- assigning to, or destroying, a joinable `std::thread` ends the program, as does an
  exception that leaves a thread: these are values of `process`.

A subscription is its place in the vector of weak pointers: whoever subscribes twice has
two. A worker walks over the vector as long as it was when it began, and `received` has
the subscriptions it told, in order. A subscription that is added meanwhile may move the
vector under it, which ends the program or does no harm.

The unsynchronised accesses to `child_pid` itself are taken as atomic reads and
writes of one word, as the supported compilers emit them. The contents of output
and schedules are abstracted to a length and to the job; the parser may throw.

**ScheduleFeed** is the abstract specification of what subscribers see: a computation is
open from its beginning until somebody has waited for its end, and while it is open,
and only then, each subscription may be told its schedule, once.
`UppaalExecutor!ImplementsFeed` states that the executor implements it, by the
mapping `started <- Launched, open <- joinable, told <- received, up <- (process = "up")`.

**PortService** models the port service: the accept loop, one thread per
connection, each function on `robot_map` as one step under the lock and the reply
as a later step. **PortDiscovery** composes it (by `INSTANCE`) with the Webots
controllers, whose constructor and destructor are its clients, the orchestrators,
and strangers that send what the service does not understand. A request is a
record, one connection each. A controller stands for the port it listens on. A client that dies before it has
sent leaves an end of file behind, or a reset: `parse_message()` does not catch the
`ReceiveException` of the latter, which ends the service (`Terminate`). The
connection from the orchestrator to the controller is commented out in the source
(`orchestrator.cpp:42`); `ControllerAccept` assumes that whoever was told a port
connects to it.

**Connection** models one direction of a TCP connection at the level of bytes,
because the frame `#|` ... `|#` is found by searching: `ParseMessage` is
`parse_message()`, and `recv()` may return any piece. `Chars` is the set of bytes.
`send()` escapes nothing; `Delimited` says of a message that its frame has no end
before its own, and `Framable` that all messages are such and that stray bytes do
not begin like a frame.

**ComModule** models the broadcaster and its clients. Each connection has a
detached thread that loops over messages; the copy of the map under the lock and
its sending are two steps. What a robot says of itself is the number of its put.
`known` and `floors` are history variables, which say what an answer must contain
at least. A client may be the `Orchestrator` of this repository (`orchestrators`), which
has other names for both functions than the broadcaster (`Misnamed`); those that put and
get are clients of other programs, since nothing in `src/` but the broadcaster knows
`put_robot_info` and `get_robot_info`. An `AcceptException` is not caught and ends the
process.

**WorldParser**, **WorldConfig**, **ConfigWrapper** and **RobotInfo** follow a world
file on its way to UPPAAL. `WorldParser` reads words, one action each; its state is
the parser's own, so that a waypoint that lacks a field goes on to take it from the
next node. `WorldConfig` is `load_webots_to_config()`: the parser, the waypoint
matrix, the initialisation of Floyd-Warshall, one action per turn of its innermost
loop, the station matrix; an exception in any of them ends the program. A position
is a pair of integers, a distance a multiple of 1/`Unit`; the instances use corners
of a rectangle whose diagonal is exact. `asInt()` throws for every distance beyond
`INT_MAX`, not only for `DBL_MAX`. `ConfigWrapper` holds what `libconfig.so`
answers UPPAAL, as operators on the two configurations with the error value of each;
an answer is computed once from files that are read once, so there is no state to
model. `RobotInfo` holds the conversions between an `Info` and JSON, the one that
reads array keys instead of elements included, and `Broadcast`, which is what an info
goes through on its way. Nothing in `src/` writes `robot_info_map` into the dynamic
configuration; the model takes what stands there for the answer of the broadcaster, an
object whose names are ids. A loop over it meets the names in the order of strings
(`Members`), and UPPAAL numbers the robots accordingly.

**Geo**, **WebotsServer** and **RobotController** are the process of the Webots
controller. `WebotsServer` keeps the descriptor table of that process, in which the
kernel hands out the lowest free number: `tcp::Server::close()` does not clear
`open`, so `~Server()` closes a number a second time, and the question is whose it
is by then. `RobotController` adds the loop of `run_simulation()`: one action for
`robot->step()`, one for `get_messages()`, one for `communicate()`, one for the rest
of an iteration (`Control`), which no other actor can see a part of. What the lidar
and the GPS say is chosen anew in every step, so the phases meet every sequence of
readings and not only those of a consistent world. `Geo` has the angles as whole
steps and the index conversions; a beam that ends at a distance *r* under an angle
*a* to the goal at distance *d* is `EndToGoal[r, d, a]` from it, by the law of
cosines, rounded down to units of 5 cm. Four facts of the code need care:
- `abs()` of a double is written without `std::` or `<cmath>`'s overload in scope for
  certain; `int_abs` chooses at the start whether the build takes the one of integers;
- `angle2index()` may be one past the last beam: what is read there is anything;
- without discontinuities, `best_point` is (0, 0) and `dir` is not initialised;
- the angle to the end of the beam straight behind is computed from coordinates and
  comes out on either side of the cut.

A malformed message or a reset is an exception of `receive()` that nobody catches, as is
a failing `accept()` in the constructor: both end the process without a destructor
(`pc = "aborted"`).

The source of the controller is ahead of, or behind, the rest of the repository in
three places: it assigns to `destination`, which is not declared; it calls
`client->receive()`, which `tcp::Connection` has made private in favour of
`receive_blocking()` and `receive_nonblocking()`; and it has a member
`webots_server::Server` that no constructor gives an id. The model takes `receive()`
as what it does to this caller: it returns the messages that have come in, and at
the end of the stream it does not return. The destination has no effect on the loop
and is left out; the goal is a constant of the source.

**Schedules** goes from the automata to the schedules. The `Robot` templates of
`waypoint_scheduling.xml` and `station_scheduling.xml` take their steps and leave
samples; `Answer` prints them; `Parse` is `UppaalSimulationParser` over lines;
`Prepare`, `ConvertWaypoints` and `ConvertStations` are `convert_result()`, one
action per round of its loop. The time other automata keep the robot waiting is
chosen freely. The parser numbers the expressions it returns by the lines of their
names. UPPAAL does not say at which times it repeats a sample; `sampling`
chooses between changes only, also at the bound, and at every delay. In the last case
the moves of the `Waypoint` and `OtherRobot` automata split a delay of the robot into up
to `MaxSplits + 1`, with a sample after each. All properties hold for all three. A run whose time is printed with an
exponent is the line `OddRun`, which the pattern does not match.

**OrderService** is the order generation service: `Main` for the command line, the
accept loop, and for each connection a thread with one action per round of
`pick_n_random()`. Sizes that are not given have any value of `Uninitialised`. An
exception that nobody catches, a division by zero and `SIGPIPE` end the process for
all; among the exceptions are those of `receive_blocking()` for bytes outside a frame and
for a reset. The seed is left out: it selects among the choices, all of which are modelled.
`getopt_long()` is taken to know all options, although their array has no end mark.

**Filter** has `Keep`, what a loop or `std::remove()` keeps of a sequence. It is
`SelectSeq` for a set, defined by positions and not by recursion so that it can be
reasoned about; `MCOrderService` has TLC compare the two. `RobotController` and
`OrderService` use it.

The `MC*` modules define the constants that a configuration cannot write.
Definitions whose comment says "Seeded fault" are variants of an action with a
plausible bug; no specification uses them, and each is there to show that some
property notices it.

## 3. Runs

An invariant whose name ends in `Sound` or `Read`, and `FloydWarshall`,
`DistancesAgree`, `PlansArrive` and `CallsReturn`, are conjunctions of
named parts that belong together; each part has its own comment.

| Run | Shows | Bounds |
|---|---|---|
| `executor` | in every build, whatever the workers find in `pid`, whatever other schedulers wait for and however `fork()` ends: one worker, and the executor implements `ScheduleFeed`. Up to the first worker that waits for what is not its own child: an abort that returns true leaves no child, executions do not overlap, callbacks see whole outputs, and `abort()` and `wait_for_result()` return | 2 jobs, so that a former worker can meet its successor; 2 subscriptions; outputs of a full pipe and of more |
| `ports_overlap` | a serving controller keeps its entry, a removed port does not come back, answers were true at some moment since the question | 3 controllers of one robot, 2 orchestrators, crashes; symmetry on both |
| `ports_orderly` | controllers that follow each other get registered; who asks is answered | 2 controllers, 2 orchestrators (one with an id too large for an int), 1 malformed message, crashes |
| `connection_framing` | messages arrive as sent, in order, none overlooked; a receive call returns once there is a message for it; nothing after malformed bytes | 2 messages of 0 to 2 characters, some with half a delimiter; `BUFFER_SIZE` 7, between one and two frames, so that every cut of the bytes occurs |
| `broadcast` | answers are fresh and ascending; gets are answered while the process is up; only rude clients and a failing `accept()` end it | 2 clients with 3 messages each, each of them an `Orchestrator` or not, one of them noisy and free to close |
| `controller` | a robot that reports `running` was told to move, one that reports `stopped` was told to halt or, because `go_straight_ahead()` forgets the flag, to go straight; the position it reports is of the last step; every message of a batch that needs an answer has exactly one; a boundary is left by its own distance; the second `close()` of the server hits no foreign descriptor; a controller that got to its destructors is deregistered, one that a message ended is not | 4 beams, 3 echoes (near, far, out of range), 5 directions to the goal (ahead, within and beyond the turning angle, nearly and straight behind), 3 distances; batches of up to 2 of 5 kinds of messages; the peer may close at any time |
| `schedules` | the parser gives back what was printed, and a missing or odd run that is needed ends in an exception; a waypoint schedule is the route of the simulated robot, and its queue runs empty under the loop only if the bound cut the robot off; every hold of the schedule was made in the simulation, there or later on the route, and no stop is lost; station schedules are the stations chosen | 3 waypoints in a line, both directions, roads of 0 and 1 with uncertainty 2, holds of up to 2, waits of 0 and 1; 4 stations, 2 of them end stations, every set of visited ones; bound 4, long enough to arrive and short enough to be cut off anywhere; delays split once; 7 shapes of the answer |
| `orders` | an order names known and different stations and keeps to the sizes; no order that a proper command line may ask for, and no framed message of a client that waits, ends the service; who asks is answered | 2 clients; stations in order, twice, with a word, none, too large; sizes -3, 0, 2, 4 or not given, then -1, 0 or 5; the port free or not |
| `world_config` | complete files are read as written and exactly the usable ones load; Floyd-Warshall keeps its invariant in every turn and ends with shortest paths and a `next` that follows them; station numbers, distances and waypoint plans mean to UPPAAL what they meant to the code that wrote them, and of station plans only the length arrives; station and waypoint distances agree | every directed graph on 3 waypoints without isolated ones with every assignment of types, 192 graphs on 4 waypoints, 18 odd files (fields in any order, twice, missing, unreadable; ids twice or with gaps; unknown neighbours; empty); plans of up to 2 steps |

The remaining three runs are expected to fail, and show where the code does not do
what its comments say:

| Run | The code | The comment |
|---|---|---|
| `executor_unjoined` | the worker resets `child_pid` before it is done, and `abort()` then returns true without a join; a following `start()` ends the program, and for the same reason a subscriber may still be notified after `abort()` | `uppaal_executor.cpp:126` "force join the thread to reset thread state." |
| `executor_dangling` | a worker that finds in `pid` what is not its own child returns from `waitpid()` and empties `child_pid`; `abort()` then returns true while `verifyta` runs on | `uppaal_executor.hpp:59` "return true if aborted successfully or there was nothing to abort." |
| `station_distances` | the matrix has rows for stations only, the lookup ranks a station among stations and end stations: with an end station it reads another pair, or returns `INT_MAX` | `config_wrapper.cpp:305` "It is very unlikely that we use this path" |

Other disagreements are in the models, as the code has them, without a run of
their own:
- at the end of file `receive()` loops for ever (`connection.cpp:121`), although
  `connection.hpp:47` has an exception for "Got 0 bytes". `RecvEof`, and the threads
  that spin in the services;
- the orchestrator sends `get_robot_locations` and `post_robot_location, `
  (`orchestrator.cpp:154`, `159`), which the broadcaster does not know
  (`com-module.cpp:47`): its first message ends the broadcaster for all.
  `RequestBroadcastInfo`, `SendRobotInfo`;
- the station plan of another robot is read from the keys of the array (`info.cpp:72`):
  what UPPAAL is told in its place is `OnlyLengthsArrive`;
- `receive_blocking()` and `accept()` throw exceptions that several callers do not catch
  (`generation_service.cpp:36`, `port_service.cpp:131` for a reset, `com-module.cpp:113`,
  the controller), so that one client can end a service for all. They are outcomes of
  `Receive`, `Terminate`, `Accept` and `GetMessages`;
- `~Server()` closes its descriptor a second time (`server.cpp:98`). In the controller
  the number has by then been used and closed by the connection that deregisters, so
  that `close()` fails and every controller that ends in order ends by the exception
  in a destructor, after it has deregistered. `DestroyMembers`;
- a hold of several time units comes out as a hold of as many units as there are samples
  of it. With samples of changes only, the hold after a waypoint without one moves to that
  waypoint (`waypoint_scheduler.cpp:133`), and so does the hold behind a road of length 0,
  whose two ends are reached at the same time. Of several holds at one waypoint
  the later ones may get lost. What remains true in all cases is `HoldsSound`: no hold comes later than
  it was made, and no stop is lost;
- a robot whose only choice left is end station 1 gets an empty station schedule
  (`station_scheduler.cpp:67`); `StationsAsChosen` names the case.

**Fairness.** Weak fairness of every thread and process step that can run: the
operating system schedules them, and every wait in the code is a blocking call
whose condition stays true. No call is ever required: starting, aborting,
connecting, closing and crashing are never fair, and neither is calling
`receive_blocking()`: the port and order services receive once for each connection
(`port_service.cpp:131`, `generation_service.cpp:36`), so that `BlockingReturns` is about
calls that have been made. The one exception is that a client of the broadcaster receives
its answers (`recv_broadcast_info()`). In `OrderService` the main thread and each
connection's thread are fair and the clients are not. That `verifyta` ends if it can write
is assumed of it.

**Deadlock** is checked for the executor, the connection, the schedules and the
configuration. In the port, broadcast and order runs a state without successors is
legitimate: clients need not act, and a controller nobody was told of waits in
`accept()`. A controller process ends with the simulation.

## 4. Proofs

`UppaalExecutorProofs` proves, for any number of jobs, subscriptions and outputs, every
invariant of `executor` and the implementation of `ScheduleFeed`. None of them is
inductive by itself. The inductive invariants are
- `TypeInv`: types, and which calls the calling thread can be in at each `pc`;
- `ThreadInv`: a worker that has not finished is that of the last job that got one
  and is joinable; jobs in the future have no worker and no child;
- `NotifyInv`: a notification loop goes forward, so that only subscriptions it has
  visited have been told, and it runs only on the output of a child whose status
  was ok;
- `WaitInv`: while a worker is still to wait for its child, `child_pid` holds that
  child's pid, unless `abort()` has reset it and is in its join, and no other child
  is on its way;
- `ChildInv`: a child that has not been reaped is the last one, and its worker is
  still to wait for it;
- `OutputInv`: blocks written, read and in the pipe against the length, and what
  the worker has read when it leaves its loop.

`ChildInv` and `OutputInv` hold as long as `intact` does, of every build; a worker that
finds something else in `pid` makes it false, and `AbortIsEffective`, `ExecutionsDisjoint`
and `CallbackComplete` say nothing from then on: they do not hold (`executor_dangling`).

`PortDiscoveryProofs` proves the types, `ServingIsRegistered`, `RemovedForGood` and
`AnswerWasTrue` for any number of controllers and orchestrators and any overlap.
`WireInv` says which stage of a connection goes with which stage of its client and
thread, and that the backlog holds each request once; `MapInv` says that an entry
of the map comes from an add request that has been handled, and that a controller
is served only if its own add request succeeded. `SeenInv` follows an answer: the
reply was read under the lock, so it is in the history of its robot's entry from
then on, although it is sent later.

`ConnectionProofs` proves the three safety properties of `connection_framing` for
every buffer size, number of messages and cut of the bytes. `ReceiverSound` and
`NothingAfterMalformed` hold of all payloads and all stray bytes, by `ReceiverInv`: a
call that is still in its loop has no end of a frame in `obuffer`, and one that has
thrown leaves bytes that cannot be parsed. `ReceivedInOrder` needs `Framable`, and
TLC evaluates that hypothesis for the payloads of its run. Its invariant, `OrderInv`, looks at
the stream of bytes that are in `obuffer` or on the wire: from its beginning up to
its end, or up to the first byte outside a frame, it is the frames of the messages
that have been sent and not received, in order (`Cut`, with the offset of each
frame); while the peer has not reset the connection, nothing of it is lost
(`Whole`). The lemmas say what becomes of `Cut` when bytes are appended, lost from
the end, or the first frame is taken.

`ComModuleProofs` proves `AnswersSound` for any number of clients, messages and
socket buffers, whatever the clients send beside their puts and gets, and `OnlyRudeClientsEndIt` without
any hypothesis on them: its own wording names the messages that end the process, those of
the orchestrator of this commit among them. The invariant is one conjunct per client:
`PutsInv`, the puts under way ascend and end with the last; `AlignInv`, each get in
the inbox has its turn, and what its client relies on (its floor) is in the map
already or comes by a put ahead of it; `BelowInv`, no copy is ahead of the map, and
the one under way is not behind those sent. Freshness and order of the answers
follow, because puts and gets of one client are handled in turn and the map only
grows.

`RobotControllerProofs` proves the four invariants of `controller` for every
resolution of the lidar, every set of readings, batches of every length and every
finite set of descriptors the process is started with, and that `image_index` is a permutation
of the beams. `DescriptorInv` says that the number `close()` gave back is free again,
or the one of the connection that deregisters, until `~Server()` closes it again;
`PositionInv` says how old the position is at each place of the loop; `TalkInv`
says that before `communicate()` every message is either answered or passed on. That
each is answered once is then counting: `Keep` keeps every copy of what it keeps.

`OrderServiceProofs` proves `OrdersSound` and `ProperServiceSurvives` for every list
of stations, all sizes and any number of clients. `ThreadInv` says that a thread's
`choices` are the stations it has not `selected`, and that with a proper command line
what it has selected and has left to select add up to a size that fits; `n` different
stations and fewer selected than `n` leave a choice, so the remainder by zero and the exception do
not happen. A first attempt failed at `--min -3 --max 4`: `n` may then be -3, which
`pick_n_random()` compares with an unsigned size and throws. A
proper command line therefore has `0 <= --min`, and the run now has the size -3.

`WorldConfigProofs` proves every invariant of `world_config`, for worlds of every size.

`FloydWarshall` says that in every turn of
the three loops the distances lie between the lengths of the shortest routes of two
rounds, at the end they are those of the shortest routes of all, and `next` leads along
one. The updates are made in place, so that `dist[i][k]` may be of the round before or
of this one; that this does no harm is what `ShortestPaths` claims in every turn. A
route of the property repeats no waypoint. The proof works with walks instead, which
may, because two walks can be joined; their length is a function on their positions
(`Along`). The lemmas are
- a walk that passes a place twice can be cut, and what is left is not longer
  (`CrossingPlaces`, `CrossingLength`), so that a shortest walk is a route. A route of
  many hops is then a least counterexample, `LeastNatural`;
- a route over the waypoints up to `k` is one over those before `k`, or splits at
  `k` into two that are (`RouteSplit`), and two such join into a route that is not
  longer (`RouteJoin`);
- `Following` visits every `k`, `i`, `j` in the order of the loops (`OneTurn`).

The invariant `Paths` says of every pair that its distance is the length of some route
that `next` starts along, through the waypoints of this round (`Witnessed`), and is at most
that of any route through those of the last round, of this one if the pair is behind the loop
counters (`Bounded`). The row and the column of `k` do not change in round `k`
(`Diagonal`, `SamePairOK`). `ParserInv` says what the parser has put into the map by
then, from which come the finite map and the edge lengths the loops rely on.

`WorldRead` and `UsableWorldsLoad` compare the parser, which knows no end of a node,
with a reader who sees the whole file. `ReadInv` says of every position of a complete
file that the map holds the waypoints that begin before it, and the first of those with
the same id; and that the waypoint being read (`Current`) has the fields that stand
before it, and no other node begins until it has all of them, which is why skipped words
do no harm. `FateInv` keeps the reason for a refusal. The
waypoints that get into the map are the first ones with their ids, and bring all ids
(`ClaimsFacts`, a least position again).

`StationNumbers`, `DistancesAgree` and `PlansArrive` rest on `ConfigInv`: the lists in the
configuration are those of the map, each of one type (`Classified`), and its matrices
are made from it and from `dist`. `InOrder` lists a set of ids ascending and without
repetition (`InOrderFacts`, by ranks, `RanksOfSet`), so that
- the numbering of stations round-trips and puts end stations first
  (`NumberRoundTrip`, from the injectivity of the combined vector);
- without end stations a station's rank by id is its row of the matrix (`StationRows`),
  so that `get_station_dist()` reads the pair it is asked for (`ToldDistance`);
- truncated distances never add up to more than the truncated sum (`TruncationAdds`, a lemma).
  By induction along a shortest route (`TruncatedWay`), UPPAAL's waypoint model has a way
  that is not longer than the station model promises (`LevelsHold`);
- a waypoint plan is told step by step, for any number of robots, in the order of the names
  of the map, and a station plan as the keys of its array.

`SchedulesProofs` proves `AnswerRead`, `RouteSound` and `StationsAsChosen` for all
roads, stations, bounds and simulations. A trace *tells* a sequence of values if its
samples pass through them in order and give each at least once (`Telling`, with a
function from samples to values). How often UPPAAL repeats a sample is then no matter,
and the three ways of `sampling`, and how often other automata split a delay, need no cases of
their own (`MoreRepeats`).
- `StationInv` and `WaypointInv` say what the traces tell during the simulation:
  `dest_waypoint` tells 0, -1 and the targets of the trips, `cur_waypoint` the waypoints reached.
  Consecutive values differ (`Distinct`), since no road leads from a
  waypoint to itself and no station is chosen twice; a loop that skips repetitions relies on it.
- `Phases` says that the queues are the traces. `LinesPrinted` has the lines of each
  shape of the answer, `BodyPrinted` what the parser cuts out of them, and
  `ExpressionsPrinted` and `RunsPrinted` what it makes of that.
- `StationLoop` and `WaypointLoop` are the loops of `convert_result()`: each queue is
  what stands behind some sample of its trace (`StationAt`, `WaypointAt`), and the
  schedule has what that trace told up to there. `FindTold` says where the `do` loop
  stops: at the sample that tells the next value, or not at all if there is none. With a
  sample at the bound, there is none only if the robot was cut off (`Sampled`, `AllDriven`).

Assumptions on constants are the named `ASSUME`s, which TLC evaluates in the runs.
The one hypothesis of a single theorem is `Framable`. `WorldAssumption` says of a world that its file is a finite sequence of
words, that its ids are at most `MaxId` (an id is an `int`), and that distances between
its waypoints are below `DBL_MAX`; `IntAssumption`, that `INT_MAX` is a natural number.

Only model-checked: liveness under fairness, which is out of the prover's reach, and
`HoldsSound`. Every other safety property of a passing run has its theorem.

## 5. Not modelled

- Floating-point trigonometry and rounding; `atan2()` is replaced by the direction of
  the beam, distances are whole units.
- `abort_goal()`, `normal_angle()`, `dump_readings_to_csv()`, `Order::from_json()`,
  `generate_n_orders()` and `Pollable`: nothing calls them. `has_goal` is therefore
  always true in the loop.
- The `Waypoint`, `Station` and `OtherRobot` templates and the queries of the UPPAAL
  models: they only delay the robot, as far as a schedule is concerned.
- The printers and query templates of `wbt-translator`, command lines other than the
  order service's, logging, the wall clock, the auto responder, vendored code, tests.
- `eta()`, `uncertainty()` and the passing times of the configuration, which hand a
  number on; the location in `Info`.
- The ends of the pipes, and the descriptor that the early return for a signaled child
  leaves open (`uppaal_executor.cpp:89`).
- The names of the files: `robot/src/main.cpp:29` writes `static_conf.json`, while
  `config_wrapper.cpp:56` reads `static_config.json`. `WorldConfig` goes on with the
  configuration that was made.
- Payloads that contain a frame delimiter are outside `Connection`'s runs: `send()`
  does not escape them. Reuse of process ids by the operating system.

## 6. Plan

1. `Geo`: `angle2index()` gives back the beam of `index2angle()` and is at most one
   past the last beam.
2. `HoldsSound` for all roads and delays; `eta()` with its two names; the printers of `wbt-translator`.
