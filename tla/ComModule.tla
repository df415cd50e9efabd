----------------------------- MODULE ComModule -----------------------------
(***************************************************************************)
(* The broadcaster (com-module.cpp) and its clients.  start_broadcasting()  *)
(* gives each connection a detached thread that receives one message after  *)
(* the other: put_robot_info stores what a robot says of itself, and        *)
(* get_robot_info answers with the whole map.  A client speaks for one      *)
(* robot and stands for that robot's id; what it says of itself is the      *)
(* number of its put, 0 being a robot the map does not know.  A client may  *)
(* be the Orchestrator of this repository, which knows other names for the  *)
(* two functions than the broadcaster.                                      *)
(***************************************************************************)
EXTENDS Naturals, Sequences

CONSTANTS
    Clients,
    Noisy,              \* clients that may send what the broadcaster does not understand
    Closing,            \* clients that may close their connection
    MaxSent,            \* bound on the messages of each client
    SocketBuffer        \* answers the kernel holds before send() blocks

Noise     == {"unknown", "bad_info", "malformed"}
Misnamed  == {"get_robot_locations", "post_robot_location"}
Functions == {"get_robot_info", "put_robot_info"}

ASSUME ComModuleAssumption ==
    /\ Noisy \subseteq Clients /\ Closing \subseteq Clients
    /\ MaxSent \in Nat /\ SocketBuffer \in Nat \ {0}

VARIABLES
    service,     \* "up", or what has ended the process
    robot_info,  \* per robot: its last put
    thread,      \* per client: what the thread of its connection is doing
    answer,      \* per client: what its thread is about to send
    orchestrators, \* the clients that are robot::Orchestrator
    conn,        \* per client: "none", "open" or "closed"
    reset,       \* per client: the kernel knows that the client is gone
    inbox,       \* per client: messages sent and not yet acted on
    replies,     \* per client: answers sent and not yet received
    sent, puts,  \* per client: messages sent, and puts among them
    known,       \* per robot, history: its newest put any client has been told of
    floors       \* per client, history: for each get not yet answered, what was known

serverVars == <<service, robot_info, thread, answer>>
clientVars == <<orchestrators, conn, sent, puts, known, floors>>
vars == <<serverVars, clientVars, reset, inbox, replies>>

Infos    == [Clients -> Nat]
Messages == [fn : Functions \cup Misnamed \cup Noise, info : Nat]
Message(fn, info) == [fn |-> fn, info |-> info]

\* An answer holds the map, or only the text of an exception.
Answers    == [ok : BOOLEAN, info : Infos]
Told(info) == [ok |-> TRUE, info |-> info]
Error      == [ok |-> FALSE, info |-> [c \in Clients |-> 0]]

TypeOK ==
    /\ service \in {"up", "uncaught", "accept_failed", "sigpipe"}
    /\ orchestrators \subseteq Clients
    /\ robot_info \in Infos /\ known \in Infos /\ puts \in Infos /\ sent \in Infos
    /\ thread \in [Clients -> {"none", "reading", "sending", "spinning", "done"}]
    /\ answer \in [Clients -> Answers]
    /\ conn \in [Clients -> {"none", "open", "closed"}]
    /\ reset \in [Clients -> BOOLEAN]
    /\ inbox \in [Clients -> Seq(Messages)]
    /\ replies \in [Clients -> Seq(Answers)]
    /\ floors \in [Clients -> Seq(Infos)]

Init ==
    /\ service = "up" /\ orchestrators \in SUBSET Clients
    /\ robot_info = [c \in Clients |-> 0] /\ known = [c \in Clients |-> 0]
    /\ puts = [c \in Clients |-> 0] /\ sent = [c \in Clients |-> 0]
    /\ thread = [c \in Clients |-> "none"] /\ answer = [c \in Clients |-> Error]
    /\ conn = [c \in Clients |-> "none"] /\ reset = [c \in Clients |-> FALSE]
    /\ inbox = [c \in Clients |-> <<>>] /\ replies = [c \in Clients |-> <<>>]
    /\ floors = [c \in Clients |-> <<>>]

-----------------------------------------------------------------------------
(* The clients.  No code of src/ but the broadcaster's knows the names       *)
(* Functions: Put and Get are clients of other programs.                     *)

ConnectClient(c) ==
    /\ service = "up" /\ conn[c] = "none"
    /\ conn' = [conn EXCEPT ![c] = "open"]
    /\ UNCHANGED <<serverVars, orchestrators, reset, inbox, replies, puts, sent, known, floors>>

\* c has room for one more message and sends it.
Sends(c, fn, info) ==
    /\ service = "up" /\ conn[c] = "open" /\ sent[c] < MaxSent
    /\ sent' = [sent EXCEPT ![c] = @ + 1]
    /\ inbox' = [inbox EXCEPT ![c] = Append(@, Message(fn, info))]
    /\ UNCHANGED <<serverVars, orchestrators, conn, reset, replies, known>>

\* There is no answer to a put.
Put(c) ==
    /\ c \notin orchestrators
    /\ Sends(c, "put_robot_info", puts[c] + 1)
    /\ puts' = [puts EXCEPT ![c] = @ + 1]
    /\ UNCHANGED floors

\* What the client may rely on: its own puts, and what anybody has been told before.
Get(c) ==
    /\ c \notin orchestrators
    /\ Sends(c, "get_robot_info", 0)
    /\ floors' = [floors EXCEPT ![c] = Append(@, [known EXCEPT ![c] = puts[c]])]
    /\ UNCHANGED puts

SendRobotInfo(c) ==
    c \in orchestrators /\ Sends(c, "post_robot_location", 0) /\ UNCHANGED <<puts, floors>>

RequestBroadcastInfo(c) ==
    c \in orchestrators /\ Sends(c, "get_robot_locations", 0) /\ UNCHANGED <<puts, floors>>

RecvBroadcastInfo(c) ==
    /\ conn[c] = "open" /\ replies[c] # <<>>
    /\ replies' = [replies EXCEPT ![c] = Tail(@)]
    /\ LET info == Head(replies[c]).info
       IN  \/ /\ Head(replies[c]).ok
              /\ floors' = [floors EXCEPT ![c] = Tail(@)]
              /\ known' = [r \in Clients |-> IF info[r] > known[r] THEN info[r] ELSE known[r]]
           \/ ~Head(replies[c]).ok /\ UNCHANGED <<floors, known>>
    /\ UNCHANGED <<serverVars, orchestrators, conn, reset, inbox, puts, sent>>

\* A message with an unknown function name, with no valid robot info, or bytes outside
\* a frame.
SendNoise(c, noise) ==
    c \notin orchestrators /\ Sends(c, noise, 0) /\ UNCHANGED <<puts, floors>>

\* Closing with answers unread resets the connection at once.
CloseClient(c) ==
    /\ conn[c] = "open"
    /\ conn' = [conn EXCEPT ![c] = "closed"]
    /\ reset' = [reset EXCEPT ![c] = replies[c] # <<>>]
    /\ UNCHANGED <<serverVars, orchestrators, inbox, replies, puts, sent, known, floors>>

-----------------------------------------------------------------------------
(* start_broadcasting() and the threads, each in the loop of parse_message(). *)

\* Seeded fault: the loop joins the thread instead of detaching it.
AcceptJoining(c) ==
    /\ service = "up" /\ conn[c] # "none" /\ thread[c] = "none"
    /\ \A d \in Clients : thread[d] \in {"none", "done"}
    /\ thread' = [thread EXCEPT ![c] = "reading"]
    /\ UNCHANGED <<service, robot_info, answer, clientVars, reset, inbox, replies>>

\* accept() may fail, and nobody catches the AcceptException.
Accept(c) ==
    /\ service = "up" /\ conn[c] # "none" /\ thread[c] = "none"
    /\ \/ thread' = [thread EXCEPT ![c] = "reading"] /\ UNCHANGED service
       \/ service' = "accept_failed" /\ UNCHANGED thread
    /\ UNCHANGED <<robot_info, answer, clientVars, reset, inbox, replies>>

\* The next message of c calls fn.
Calls(c, fn) ==
    service = "up" /\ thread[c] = "reading" /\ inbox[c] # <<>> /\ Head(inbox[c]).fn = fn

Consume(c) == inbox' = [inbox EXCEPT ![c] = Tail(@)]

\* Seeded fault: std::map::insert(), which keeps an entry that is there.
PutRobotInfoInserting(c) ==
    /\ Calls(c, "put_robot_info")
    /\ robot_info' = [robot_info EXCEPT ![c] = IF @ = 0 THEN Head(inbox[c]).info ELSE @]
    /\ Consume(c)
    /\ UNCHANGED <<service, thread, answer, clientVars, reset, replies>>

PutRobotInfo(c) ==
    /\ Calls(c, "put_robot_info")
    /\ robot_info' = [robot_info EXCEPT ![c] = Head(inbox[c]).info]
    /\ Consume(c)
    /\ UNCHANGED <<service, thread, answer, clientVars, reset, replies>>

\* The map is copied under the lock, and sent by SendAnswer after unlock().
GetRobotInfo(c) ==
    /\ Calls(c, "get_robot_info")
    /\ answer' = [answer EXCEPT ![c] = Told(robot_info)]
    /\ thread' = [thread EXCEPT ![c] = "sending"]
    /\ Consume(c)
    /\ UNCHANGED <<service, robot_info, clientVars, reset, replies>>

\* Seeded fault: MalformedMessageException is not caught.
MalformedUncaught(c) ==
    /\ Calls(c, "malformed")
    /\ service' = "uncaught"
    /\ UNCHANGED <<robot_info, thread, answer, clientVars, reset, inbox, replies>>

\* MalformedMessageException is answered; the bytes stay in obuffer, so that the next
\* receive_blocking() throws again.
Malformed(c) ==
    /\ Calls(c, "malformed")
    /\ answer' = [answer EXCEPT ![c] = Error]
    /\ thread' = [thread EXCEPT ![c] = "sending"]
    /\ UNCHANGED <<service, robot_info, clientVars, reset, inbox, replies>>

\* Nobody catches the tcp::MessageException of parse_function(), nor what from_json()
\* throws.
Uncaught(c) ==
    /\ \E fn \in {"unknown", "bad_info"} \cup Misnamed : Calls(c, fn)
    /\ service' = "uncaught"
    /\ UNCHANGED <<robot_info, thread, answer, clientVars, reset, inbox, replies>>

\* recv() fails once with ECONNRESET: ReceiveException ends the thread.  At a plain end
\* of file the loop in receive() never returns.
ReceiveEnds(c) ==
    /\ service = "up" /\ thread[c] = "reading" /\ conn[c] = "closed"
    /\ \/ reset[c] /\ thread' = [thread EXCEPT ![c] = "done"]
       \/ ~reset[c] /\ inbox[c] = <<>> /\ thread' = [thread EXCEPT ![c] = "spinning"]
    /\ UNCHANGED <<service, robot_info, answer, clientVars, reset, inbox, replies>>

\* conn->send(): blocks while the buffers are full.  To a client that is gone the first
\* send() succeeds, and once it has provoked a reset the next raises SIGPIPE.
SendAnswer(c) ==
    /\ service = "up" /\ thread[c] = "sending"
    /\ \/ /\ conn[c] = "open" /\ Len(replies[c]) < SocketBuffer
          /\ replies' = [replies EXCEPT ![c] = Append(@, answer[c])]
          /\ thread' = [thread EXCEPT ![c] = "reading"]
          /\ UNCHANGED <<service, reset>>
       \/ /\ conn[c] = "closed" /\ ~reset[c]
          /\ \E r \in BOOLEAN : reset' = [reset EXCEPT ![c] = r]
          /\ thread' = [thread EXCEPT ![c] = "reading"]
          /\ UNCHANGED <<service, replies>>
       \/ /\ conn[c] = "closed" /\ reset[c]
          /\ service' = "sigpipe"
          /\ UNCHANGED <<thread, reset, replies>>
    /\ UNCHANGED <<robot_info, answer, clientVars, inbox>>

ThreadStep(c) ==
    PutRobotInfo(c) \/ GetRobotInfo(c) \/ Malformed(c) \/ Uncaught(c) \/ ReceiveEnds(c)
    \/ SendAnswer(c)

-----------------------------------------------------------------------------
Next ==
    \/ \E c \in Clients : \/ ConnectClient(c) \/ Put(c) \/ Get(c) \/ SendRobotInfo(c)
                          \/ RequestBroadcastInfo(c) \/ RecvBroadcastInfo(c) \/ Accept(c) \/ ThreadStep(c)
    \/ \E c \in Noisy, noise \in Noise : SendNoise(c, noise)
    \/ \E c \in Closing : CloseClient(c)

Spec == Init /\ [][Next]_vars

\* Threads run and accept() goes on; a client waits in recv_broadcast_info() for its
\* answers.  Nothing else has to happen.
Fairness ==
    \A c \in Clients : WF_vars(Accept(c)) /\ WF_vars(ThreadStep(c)) /\ WF_vars(RecvBroadcastInfo(c))

FairSpec == Spec /\ Fairness

-----------------------------------------------------------------------------
(* Properties.                                                               *)

Leq(m, n) == \A r \in Clients : m[r] <= n[r]

\* An answer is never stale: it has every put its client sent before the get, and every
\* put that any client had been told of by then.
AnswersFresh ==
    \A c \in Clients : \A k \in 1 .. Len(replies[c]) :
      replies[c][k].ok => Leq(floors[c][k], replies[c][k].info)

\* The answers a client gets one after the other never go back in time, although other
\* clients write between the copy of the map and its sending.
AnswersAscending ==
    \A c \in Clients : \A k \in 2 .. Len(replies[c]) :
      replies[c][k].ok => Leq(replies[c][k - 1].info, replies[c][k].info)

\* What get_robot_info() answers is sound: of the right shape, never stale, and never
\* older than the answer before.
AnswersSound == TypeOK /\ AnswersFresh /\ AnswersAscending

\* The process is ended by a failing accept(), or by a client that sends an unknown name
\* or a bad info, or closes before its gets are answered or after bytes outside a frame.
\* Any other client, whatever it sends and whenever it leaves, never ends it for the
\* others.  The Orchestrator sends an unknown name with its first message.
OnlyRudeClientsEndIt ==
    service \notin {"up", "accept_failed"} =>
      \E c \in Clients :
        \/ inbox[c] # <<>> /\ Head(inbox[c]).fn \in {"unknown", "bad_info"} \cup Misnamed
        \/ conn[c] = "closed" /\ (floors[c] # <<>> \/ \E k \in 1 .. Len(inbox[c]) :
                                                        inbox[c][k].fn = "malformed")

\* Every get is answered while the process is up, beside clients that flood their own
\* connection with errors, do not read, or have gone.
GetAnswered ==
    \A c \in Clients \ Noisy :
      floors[c] # <<>> ~> floors[c] = <<>> \/ conn[c] # "open" \/ service # "up"
=============================================================================
