--------------------------- MODULE PortDiscovery ---------------------------
(***************************************************************************)
(* The port discovery service together with its clients: the Webots         *)
(* controllers (webots_server.cpp), which register the port they listen on, *)
(* wait for one client and deregister when they are destroyed, and the      *)
(* orchestrators (orchestrator.cpp), which ask for a robot's port.          *)
(* Several controllers may serve the same robot one after the other; each   *)
(* has a listening port of its own, so a controller stands for its port.    *)
(***************************************************************************)
EXTENDS Naturals, Sequences

CONSTANTS
    Robots, Controllers, Orchestrators,
    Strangers,   \* other clients, one for each kind of message in BadMessages
    Id,          \* the robot id each controller and each orchestrator was given
    MayCrash,    \* may clients die without running their destructors?
    Overlap      \* may a controller start before the last one has deregistered?

AddReq(c)    == [fn |-> "add_robot",    from |-> c, id |-> Id[c], port |-> c]
RemoveReq(c) == [fn |-> "remove_robot", from |-> c, id |-> Id[c]]
GetReq(g)    == [fn |-> "get_robot",    from |-> g, id |-> Id[g]]
BadReq(s)    == [fn |-> s, from |-> s]

Requests == {AddReq(c) : c \in Controllers} \cup {RemoveReq(c) : c \in Controllers}
            \cup {GetReq(g) : g \in Orchestrators} \cup {BadReq(s) : s \in Strangers}

VARIABLES
    service, conn, backlog, thread, robot_map, reply,
    ctrl,    \* per controller: where its webots_server::Server is
    orch,    \* per orchestrator: where its constructor is
    seen     \* per orchestrator, history: what its robot's entry has been since it asked

PS == INSTANCE PortService WITH Ports <- Controllers

serviceVars == <<service, conn, backlog, thread, robot_map, reply>>
vars == <<serviceVars, ctrl, orch, seen>>

ASSUME PortDiscoveryAssumption ==
    /\ Id \in [Controllers \cup Orchestrators -> Robots \cup PS!BadIds]
    /\ Robots \cap PS!BadIds = {}
    /\ Controllers \cap {PS!Unregistered, PS!Refused} = {}
    /\ Strangers \subseteq PS!BadMessages
    /\ MayCrash \in BOOLEAN /\ Overlap \in BOOLEAN

TypeOK ==
    /\ PS!ServiceTypeOK
    /\ ctrl \in [Controllers -> {"off", "listening", "accepting", "serving", "closing",
                                 "gone", "dead"}]
    /\ orch \in [Orchestrators -> {"off", "connected", "waiting", "answered", "dead"}]
    /\ seen \in [Orchestrators -> SUBSET (Controllers \cup {PS!Unregistered})]

Init ==
    /\ PS!ServiceInit
    /\ ctrl = [c \in Controllers |-> "off"]
    /\ orch = [g \in Orchestrators |-> "off"]
    /\ seen = [g \in Orchestrators |-> {}]

-----------------------------------------------------------------------------
(* Controllers.                                                              *)

Move(c, from, to) == ctrl[c] = from /\ ctrl' = [ctrl EXCEPT ![c] = to]

\* The service has acted on request r.
Handled(r) == thread[r] \in {"replying", "done"}

\* Server::Server(): listen, connect to the service ...
ControllerStart(c) ==
    /\ Move(c, "off", "listening")
    /\ \/ Overlap
       \/ \A d \in Controllers \ {c} : Id[d] = Id[c] => ctrl[d] = "off" \/ Handled(RemoveReq(d))
    /\ PS!Connect(AddReq(c))
    /\ UNCHANGED <<orch, seen>>

\* ... send add_robot, and block in server.accept().
ControllerRegister(c) ==
    /\ Move(c, "listening", "accepting")
    /\ PS!Send(AddReq(c))
    /\ UNCHANGED <<orch, seen>>

\* Seeded fault: the constructor does not wait for a client.
ControllerAcceptNot(c) ==
    /\ Move(c, "accepting", "serving")
    /\ UNCHANGED <<serviceVars, orch, seen>>

\* accept() returns: an orchestrator that was told this port connects to it.
ControllerAccept(c) ==
    /\ Move(c, "accepting", "serving")
    /\ \E g \in Orchestrators : orch[g] = "answered" /\ reply[GetReq(g)] = c
    /\ UNCHANGED <<serviceVars, orch, seen>>

\* Server::~Server(): close the listening socket, connect ...
ControllerStop(c) ==
    /\ Move(c, "serving", "closing")
    /\ PS!Connect(RemoveReq(c))
    /\ UNCHANGED <<orch, seen>>

\* ... send remove_robot and close.
ControllerDeregister(c) ==
    /\ Move(c, "closing", "gone")
    /\ PS!Send(RemoveReq(c))
    /\ UNCHANGED <<orch, seen>>

\* The process is killed, or ended by an exception nobody catches, as that of a failed
\* accept(); a connection on which nothing was sent yet is closed.
ControllerCrash(c) ==
    /\ MayCrash
    /\ \/ Move(c, "listening", "dead") /\ PS!HangUp(AddReq(c))
       \/ Move(c, "closing", "dead") /\ PS!HangUp(RemoveReq(c))
       \/ (Move(c, "accepting", "dead") \/ Move(c, "serving", "dead")) /\ UNCHANGED serviceVars
    /\ UNCHANGED <<orch, seen>>

ControllerStep(c) ==
    ControllerStart(c) \/ ControllerRegister(c) \/ ControllerAccept(c) \/ ControllerStop(c)
    \/ ControllerDeregister(c) \/ ControllerCrash(c)

-----------------------------------------------------------------------------
(* Orchestrators: Orchestrator::Orchestrator(), which does not ask twice.    *)

OrchestratorConnect(g) ==
    /\ orch[g] = "off" /\ orch' = [orch EXCEPT ![g] = "connected"]
    /\ PS!Connect(GetReq(g))
    /\ UNCHANGED <<ctrl, seen>>

OrchestratorAsk(g) ==
    /\ orch[g] = "connected" /\ orch' = [orch EXCEPT ![g] = "waiting"]
    /\ PS!Send(GetReq(g))
    /\ seen' = [seen EXCEPT ![g] = IF Id[g] \in Robots THEN {robot_map[Id[g]]} ELSE {}]
    /\ UNCHANGED ctrl

\* receive_blocking() returns with the reply.
OrchestratorReceive(g) ==
    /\ orch[g] = "waiting" /\ thread[GetReq(g)] = "done"
    /\ orch' = [orch EXCEPT ![g] = "answered"]
    /\ UNCHANGED <<serviceVars, ctrl, seen>>

OrchestratorCrash(g) ==
    /\ MayCrash /\ orch[g] = "connected"
    /\ orch' = [orch EXCEPT ![g] = "dead"]
    /\ PS!HangUp(GetReq(g))
    /\ UNCHANGED <<ctrl, seen>>

OrchestratorStep(g) ==
    OrchestratorConnect(g) \/ OrchestratorAsk(g) \/ OrchestratorReceive(g) \/ OrchestratorCrash(g)

StrangerStep(s) ==
    /\ PS!Connect(BadReq(s)) \/ PS!Send(BadReq(s))
    /\ UNCHANGED <<ctrl, orch, seen>>

-----------------------------------------------------------------------------
\* The history: every orchestrator that has asked sees its robot's entry change.
Observe ==
    seen' = [g \in Orchestrators |->
               IF orch[g] # "waiting" \/ Id[g] \notin Robots THEN seen[g]
               ELSE seen[g] \cup {robot_map'[Id[g]]}]

ServiceAccept == PS!Accept /\ UNCHANGED <<ctrl, orch, seen>>

ServiceThread(r) == PS!ThreadStep(r) /\ Observe /\ UNCHANGED <<ctrl, orch>>

Next ==
    \/ \E c \in Controllers : ControllerStep(c)
    \/ \E g \in Orchestrators : OrchestratorStep(g)
    \/ \E s \in Strangers : StrangerStep(s)
    \/ ServiceAccept
    \/ \E r \in Requests : ServiceThread(r)

Spec == Init /\ [][Next]_vars

\* The accept loop and every thread keep running, and a client in the middle of a
\* constructor or destructor goes on; nothing has to start, to stop or to crash.
Fairness ==
    /\ WF_vars(ServiceAccept)
    /\ \A r \in Requests : WF_vars(ServiceThread(r))
    /\ \A c \in Controllers : WF_vars(ControllerRegister(c)) /\ WF_vars(ControllerDeregister(c))
    /\ \A g \in Orchestrators : WF_vars(OrchestratorAsk(g)) /\ WF_vars(OrchestratorReceive(g))

FairSpec == Spec /\ Fairness

-----------------------------------------------------------------------------
(* Properties.                                                               *)

\* A controller that serves a client stays registered until its own remove_robot is
\* handled: neither another controller with the same id nor a late message takes its
\* entry away, whatever the order in which the threads of the service run.
ServingIsRegistered ==
    \A c \in Controllers :
      ctrl[c] \in {"serving", "closing", "gone"} /\ ~Handled(RemoveReq(c))
        => robot_map[Id[c]] = c

\* Once the remove_robot of a controller has been handled its port is never handed out
\* again: no add_robot of it is still on its way.
RemovedForGood ==
    \A c \in Controllers : Handled(RemoveReq(c)) => \A i \in Robots : robot_map[i] # c

\* The answer an orchestrator gets was true at some moment since it asked.
AnswerWasTrue ==
    \A g \in Orchestrators :
      orch[g] = "answered" /\ Id[g] \in Robots => reply[GetReq(g)] \in seen[g]

\* Every orchestrator that asks is answered, unless the service is brought down.
AskedIsAnswered ==
    \A g \in Orchestrators : orch[g] = "waiting" ~> orch[g] = "answered" \/ service # "up"

\* A controller that does not overlap another one of its robot gets registered.
EventuallyRegistered ==
    \A c \in {d \in Controllers : Id[d] \in Robots} :
      ctrl[c] = "accepting" ~> robot_map[Id[c]] = c \/ service # "up"
=============================================================================
