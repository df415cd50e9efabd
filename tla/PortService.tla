---------------------------- MODULE PortService ----------------------------
(***************************************************************************)
(* The port discovery service (port_service.cpp): start() accepts           *)
(* connections and gives each a detached thread; the thread reads one       *)
(* message, calls its function on robot_map under robot_map_lock, and may   *)
(* send one reply.  A request is a record: the function its message names   *)
(* (or what is wrong with the message), the robot id and the port it        *)
(* carries, and the client it is from.                                      *)
(***************************************************************************)
EXTENDS Naturals, Sequences

CONSTANTS
    Robots,    \* the robot ids
    Ports,     \* the port numbers controllers register
    Requests   \* the requests that clients may make, one connection each

Unregistered == "No robot with Id"
Refused      == "error"             \* the text of any exception sent as a reply

Functions == {"add_robot", "get_robot", "remove_robot"}
BadIds    == {"not_a_number", "too_large"}          \* what stoi() cannot convert

\* What parse_function() and the parameter counts of call_function() reject, and what
\* Connection::receive() throws MalformedMessageException for.
BadMessages == {"unreadable", "bad_params", "malformed"}

VARIABLES
    service,    \* "up", or "terminated" by an exception no handler catches
    conn,       \* per request, the client's side: "none", "connected", "sent",
                \* "eof", "reset"
    backlog,    \* connections the kernel has not handed to accept() yet
    thread,     \* per request: what its thread is doing
    robot_map,  \* per robot id: the registered port
    reply       \* per request: what the thread is to send, or has sent

serviceVars == <<service, conn, backlog, thread, robot_map, reply>>

Threads == {"none", "reading", "calling", "replying", "done", "spinning"}

ServiceTypeOK ==
    /\ service \in {"up", "terminated"}
    /\ conn \in [Requests -> {"none", "connected", "sent", "eof", "reset"}]
    /\ backlog \in Seq(Requests)
    /\ thread \in [Requests -> Threads]
    /\ robot_map \in [Robots -> Ports \cup {Unregistered}]
    /\ reply \in [Requests -> Ports \cup {Unregistered, Refused}]

ServiceInit ==
    /\ service = "up"
    /\ conn = [r \in Requests |-> "none"]
    /\ backlog = <<>>
    /\ thread = [r \in Requests |-> "none"]
    /\ robot_map = [i \in Robots |-> Unregistered]
    /\ reply = [r \in Requests |-> Unregistered]

-----------------------------------------------------------------------------
(* The clients' side of a connection: tcp::Client, send(), and the end of    *)
(* file or the reset a client leaves behind that dies before it has sent.    *)

Connect(r) ==
    /\ service = "up" /\ conn[r] = "none"
    /\ conn' = [conn EXCEPT ![r] = "connected"]
    /\ backlog' = Append(backlog, r)
    /\ UNCHANGED <<service, thread, robot_map, reply>>

Send(r) ==
    /\ conn[r] = "connected"
    /\ conn' = [conn EXCEPT ![r] = "sent"]
    /\ UNCHANGED <<service, backlog, thread, robot_map, reply>>

HangUp(r) ==
    /\ conn[r] = "connected"
    /\ \E how \in {"eof", "reset"} : conn' = [conn EXCEPT ![r] = how]
    /\ UNCHANGED <<service, backlog, thread, robot_map, reply>>

-----------------------------------------------------------------------------
(* PortService::start() and the threads.                                     *)

Running(r, at) == service = "up" /\ thread[r] = at

\* Seeded fault: the accept loop joins the thread instead of detaching it.
AcceptJoining ==
    /\ service = "up" /\ backlog # <<>>
    /\ \A r \in Requests : thread[r] \in {"none", "done"}
    /\ backlog' = Tail(backlog)
    /\ thread' = [thread EXCEPT ![Head(backlog)] = "reading"]
    /\ UNCHANGED <<service, conn, robot_map, reply>>

Accept ==
    /\ service = "up" /\ backlog # <<>>
    /\ backlog' = Tail(backlog)
    /\ thread' = [thread EXCEPT ![Head(backlog)] = "reading"]
    /\ UNCHANGED <<service, conn, robot_map, reply>>

\* receive_blocking(): recv() returns 0 for ever at the end of file, and the loop in
\* receive() never ends.
Receive(r) ==
    /\ Running(r, "reading")
    /\ \/ conn[r] = "sent" /\ thread' = [thread EXCEPT ![r] = "calling"]
       \/ conn[r] = "eof" /\ thread' = [thread EXCEPT ![r] = "spinning"]
    /\ UNCHANGED <<service, conn, backlog, robot_map, reply>>

\* The thread is to send text, and end.
Answer(r, text) ==
    /\ thread' = [thread EXCEPT ![r] = "replying"]
    /\ reply' = [reply EXCEPT ![r] = text]

\* Seeded fault: an id that is taken is overwritten.
AddRobotOverwriting(r) ==
    /\ Running(r, "calling") /\ r.fn = "add_robot" /\ r.id \in Robots
    /\ robot_map' = [robot_map EXCEPT ![r.id] = r.port]
    /\ thread' = [thread EXCEPT ![r] = "done"]
    /\ UNCHANGED <<service, conn, backlog, reply>>

\* add_robot(): there is no reply unless the id is taken.
AddRobot(r) ==
    /\ Running(r, "calling") /\ r.fn = "add_robot" /\ r.id \in Robots
    /\ \/ /\ robot_map[r.id] = Unregistered
          /\ robot_map' = [robot_map EXCEPT ![r.id] = r.port]
          /\ thread' = [thread EXCEPT ![r] = "done"]
          /\ UNCHANGED reply
       \/ /\ robot_map[r.id] # Unregistered
          /\ Answer(r, Refused)
          /\ UNCHANGED robot_map
    /\ UNCHANGED <<service, conn, backlog>>

\* Seeded fault: the reply carries the id instead of the port.
GetRobotId(r) ==
    /\ Running(r, "calling") /\ r.fn = "get_robot" /\ r.id \in Robots
    /\ Answer(r, IF robot_map[r.id] = Unregistered THEN Unregistered ELSE r.id)
    /\ UNCHANGED <<service, conn, backlog, robot_map>>

\* Seeded fault: lookups go to a cache that remove_robot() does not clear.
GetRobotCached(r) ==
    /\ Running(r, "calling") /\ r.fn = "get_robot" /\ r.id \in Robots
    /\ LET adds == {q \in Requests : q.fn = "add_robot" /\ q.id = r.id /\ thread[q] = "done"}
       IN  \/ adds = {} /\ Answer(r, Unregistered)
           \/ \E q \in adds : Answer(r, q.port)
    /\ UNCHANGED <<service, conn, backlog, robot_map>>

\* get_robot(): the lookup is under the lock, the send in Reply is after it.
GetRobot(r) ==
    /\ Running(r, "calling") /\ r.fn = "get_robot" /\ r.id \in Robots
    /\ Answer(r, robot_map[r.id])
    /\ UNCHANGED <<service, conn, backlog, robot_map>>

\* Seeded fault: remove_robot() leaves the entry.
RemoveRobotNot(r) ==
    /\ Running(r, "calling") /\ r.fn = "remove_robot" /\ r.id \in Robots
    /\ thread' = [thread EXCEPT ![r] = "done"]
    /\ UNCHANGED <<service, conn, backlog, robot_map, reply>>

RemoveRobot(r) ==
    /\ Running(r, "calling") /\ r.fn = "remove_robot" /\ r.id \in Robots
    /\ robot_map' = [robot_map EXCEPT ![r.id] = Unregistered]
    /\ thread' = [thread EXCEPT ![r] = "done"]
    /\ UNCHANGED <<service, conn, backlog, reply>>

\* The exceptions: std::invalid_argument of stoi() and those for a message the service
\* does not understand become a reply.
Reject(r) ==
    /\ Running(r, "calling")
    /\ r.fn \in Functions => r.id = "not_a_number"
    /\ Answer(r, Refused)
    /\ UNCHANGED <<service, conn, backlog, robot_map>>

\* std::out_of_range of stoi() and the ReceiveException of a connection that was reset
\* are caught nowhere.
Terminate(r) ==
    /\ \/ Running(r, "calling") /\ r.fn \in Functions /\ r.id = "too_large"
       \/ Running(r, "reading") /\ conn[r] = "reset"
    /\ service' = "terminated"
    /\ UNCHANGED <<conn, backlog, thread, robot_map, reply>>

\* connection->send(); the thread ends.
Reply(r) ==
    /\ Running(r, "replying")
    /\ thread' = [thread EXCEPT ![r] = "done"]
    /\ UNCHANGED <<service, conn, backlog, robot_map, reply>>

ThreadStep(r) ==
    Receive(r) \/ AddRobot(r) \/ GetRobot(r) \/ RemoveRobot(r) \/ Reject(r)
    \/ Terminate(r) \/ Reply(r)
=============================================================================
