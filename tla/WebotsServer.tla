---------------------------- MODULE WebotsServer ----------------------------
(***************************************************************************)
(* webots_server::Server with the sockets below it (tcp/src/server.cpp,    *)
(* client.cpp, and close() and the destructor of connection.cpp): the      *)
(* descriptors of the controller process from the first socket() to the    *)
(* last destructor.  The kernel hands out the lowest free number, so that  *)
(* a number that was closed soon belongs to another object.                *)
(***************************************************************************)
EXTENDS Integers, FiniteSets, FiniteSetsExt

CONSTANT Preopened      \* the descriptors the process starts with

ASSUME ServerAssumption == Preopened \subseteq Nat /\ IsFiniteSet(Preopened)

VARIABLES
  pc,        \* where the process is; what it ended as
  fds,       \* history of the kernel: descriptor -> the object it was opened for
  server,    \* the tcp::Server: [fd, open]
  client,    \* the tcp::Connection of accept(): [fd, open]
  pds,       \* the tcp::Client to the port discovery service, or None
  told,      \* what that service has been sent: "", "add_robot", "remove_robot"
  stolen     \* history: has a close() hit a descriptor of another object?

serverVars == <<fds, server, client, pds, told, stolen>>

None == -1
NotYet == [fd |-> -1, open |-> FALSE]

ServerInit ==
  /\ fds = [d \in Preopened |-> "other"]
  /\ server = NotYet
  /\ client = NotYet
  /\ pds = None
  /\ told = ""
  /\ stolen = FALSE

Sockets == [fd : Nat \cup {None}, open : BOOLEAN]

ServerTypeOK ==
  /\ DOMAIN fds \subseteq Nat /\ IsFiniteSet(DOMAIN fds)
  /\ server \in Sockets /\ client \in Sockets /\ pds \in Nat \cup {None}
  /\ told \in {"", "add_robot", "remove_robot"}

Free == Min((0 .. Cardinality(DOMAIN fds)) \ DOMAIN fds)

Opened(table, d, owner) == [e \in DOMAIN table \cup {d} |-> IF e = d THEN owner ELSE table[e]]
Closed(table, d) == [e \in DOMAIN table \ {d} |-> table[e]]

Goto(from, to) == pc = from /\ pc' = to

-----------------------------------------------------------------------------
(* The constructor.                                                        *)

Listen ==
  /\ Goto("listen", "register")
  /\ server' = [fd |-> Free, open |-> TRUE]
  /\ fds' = Opened(fds, Free, "server")
  /\ UNCHANGED <<client, pds, told, stolen>>

(* A tcp::Client and one send().  The result of connect() is not looked    *)
(* at; a send() on a socket that is not connected ends the process.        *)
Tell(from, to, message) ==
  /\ pds' = Free
  /\ fds' = Opened(fds, Free, "pds")
  /\ \/ Goto(from, to) /\ told' = message
     \/ Goto(from, "killed") /\ UNCHANGED told
  /\ UNCHANGED <<server, client, stolen>>

Register == Tell("register", "accept", "add_robot")

(* accept(); then the constructor ends, and with it its tcp::Client.  The  *)
(* AcceptException of a failed accept() nobody catches.                    *)
Accept ==
  /\ \/ /\ Goto("accept", "step")
        /\ client' = [fd |-> Free, open |-> TRUE]
        /\ fds' = Closed(Opened(fds, Free, "client"), pds)
        /\ pds' = None
     \/ Goto("accept", "aborted") /\ UNCHANGED <<fds, client, pds>>
  /\ UNCHANGED <<server, told, stolen>>

-----------------------------------------------------------------------------
(* The destructor.                                                         *)

(* tcp::Server::close(): it takes the connections it accepted for closed,  *)
(* and does not mark itself.                                               *)
CloseServer ==
  /\ Goto("close", "deregister")
  /\ fds' = Closed(fds, server.fd)
  /\ client' = [client EXCEPT !.open = FALSE]
  /\ UNCHANGED <<server, pds, told, stolen>>

Deregister == Tell("deregister", "deregistered", "remove_robot")

(* Seeded fault: the client is left to its destructor, after the server's. *)
CloseClientLate ==
  /\ Goto("deregistered", "members")
  /\ UNCHANGED <<fds, server, client, pds, told, stolen>>

(* client.close() of the tcp::Client.                                      *)
CloseClient ==
  /\ Goto("deregistered", "members")
  /\ fds' = Closed(fds, pds)
  /\ pds' = None
  /\ UNCHANGED <<server, client, told, stolen>>

(* The destructors of the members.  That of the connection finds it not    *)
(* open and leaves its descriptor; that of the server closes again, and    *)
(* throws if it cannot.                                                    *)
DestroyMembers ==
  /\ \/ /\ server.fd \in DOMAIN fds
        /\ Goto("members", "ended")
        /\ fds' = Closed(fds, server.fd)
        /\ stolen' = (stolen \/ fds[server.fd] # "server")
     \/ /\ server.fd \notin DOMAIN fds
        /\ Goto("members", "terminated")
        /\ UNCHANGED <<fds, stolen>>
  /\ UNCHANGED <<server, client, pds, told>>

Lifecycle ==
  \/ Listen \/ Register \/ Accept
  \/ CloseServer \/ Deregister \/ CloseClient \/ DestroyMembers
=============================================================================
