---------------------------- MODULE OrderService ----------------------------
(***************************************************************************)
(* The order generation service: the command line of                       *)
(* order_generation_service.cpp, RandomGenerator with pick_n_random(), and *)
(* one detached thread per connection.  An uncaught exception or a signal  *)
(* in any of them ends the service for everyone.  The seed only selects    *)
(* among the choices that are all modelled, and is left out.               *)
(***************************************************************************)
EXTENDS Integers, Filter, SequencesExt

CONSTANTS
  Clients,
  StationTokens,    \* what --stations may be given as: sequences of tokens
  Sizes,            \* what --min and --max may be given as
  Unset,            \* an option that is not given
  Uninitialised     \* what the memory of an option that is not given may hold

Word == -1          \* a token that is no number
Huge == -2          \* a number that is no int

ASSUME OrderAssumption ==
  /\ StationTokens \subseteq Seq(Int)
  /\ Sizes \subseteq Int /\ Uninitialised \subseteq Int /\ Unset \notin Sizes

VARIABLES
  option,       \* the command line, and whether the port is free
  status,       \* "starting", "serving", "refused", "dead"
  generator,    \* the RandomGenerator
  client,       \* client -> "idle", "connected", "asked", "closed", "reset"
  asked,        \* client -> its message
  thread,       \* client -> the thread of its connection
  reply         \* client -> what it was sent

vars == <<option, status, generator, client, asked, thread, reply>>

NoThread == [at |-> "none", left |-> 0, choices |-> <<>>, selected |-> <<>>]
NoReply == [kind |-> "none", order |-> <<>>]
NotUnderstood == [kind |-> "not_understood", order |-> <<>>]
OrderOf(stations) == [kind |-> "order", order |-> stations]

Options == [random : BOOLEAN, stations : StationTokens, min : Sizes \cup {Unset},
            max : Sizes \cup {Unset}, port_free : BOOLEAN]

Init ==
  /\ option \in Options
  /\ status = "starting"
  /\ generator = [stations |-> <<>>, min_size |-> 0, max_size |-> 0]
  /\ client = [c \in Clients |-> "idle"]
  /\ asked = [c \in Clients |-> ""]
  /\ thread = [c \in Clients |-> NoThread]
  /\ reply = [c \in Clients |-> NoReply]

-----------------------------------------------------------------------------
(* main().                                                                 *)

parse_stations_argument(tokens) == Keep(tokens, Range(tokens) \ {Word})

(* Seeded fault: an order may always have all stations.                    *)
RandomGeneratorMin(stations, min, max) ==
  [stations |-> stations, min_size |-> min, max_size |-> Len(stations)]

(* Which constructor main() calls, and what it passes on.                  *)
RandomGenerator(stations, min, max) ==
  [stations |-> stations, min_size |-> min, max_size |-> IF max = 0 THEN Len(stations) ELSE max]

Given(o) == IF o = Unset THEN Uninitialised ELSE {o}

Main ==
  /\ status = "starting"
  /\ \/ /\ Contains(option.stations, Huge)
        /\ status' = "dead" /\ UNCHANGED generator
     \/ /\ ~Contains(option.stations, Huge) /\ ~option.random
        /\ status' = "refused" /\ UNCHANGED generator
     \/ /\ ~Contains(option.stations, Huge) /\ option.random
        /\ \E min \in Given(option.min), max \in Given(option.max) :
             generator' = RandomGenerator(parse_stations_argument(option.stations), min, max)
        /\ status' = IF option.port_free THEN "serving" ELSE "dead"
  /\ UNCHANGED <<option, client, asked, thread, reply>>

(* start(): accept() and a detached thread.                                *)
Accept(c) ==
  /\ status = "serving"
  /\ client[c] # "idle" /\ thread[c].at = "none"
  /\ thread' = [thread EXCEPT ![c].at = "receive"]
  /\ UNCHANGED <<option, status, generator, client, asked, reply>>

-----------------------------------------------------------------------------
(* parse_message(), the thread of a connection.                            *)

Thread(c, at) == status = "serving" /\ thread[c].at = at

Dies ==
  /\ status' = "dead"
  /\ UNCHANGED thread

(* receive_blocking(): the end of a message that has no beginning is a     *)
(* MalformedMessageException, a connection that was reset, once the bytes  *)
(* before have been read, a ReceiveException: nobody catches them.  At the *)
(* end of the stream it never returns.                                     *)
Receive(c) ==
  /\ Thread(c, "receive")
  /\ \/ /\ \/ asked[c] = "get_order" /\ thread' = [thread EXCEPT ![c].at = "generate"]
           \/ asked[c] = "other" /\ thread' = [thread EXCEPT ![c].at = "send"]
           \/ asked[c] = "" /\ client[c] = "closed" /\ thread' = [thread EXCEPT ![c].at = "spin"]
        /\ UNCHANGED status
     \/ (asked[c] = "malformed" \/ client[c] = "reset") /\ Dies
  /\ UNCHANGED <<option, generator, client, asked, reply>>

(* min_size + rand() % (max_size - min_size + 1)                           *)
OrderSizes ==
  LET span == generator.max_size - generator.min_size + 1
  IN {generator.min_size + k : k \in 0 .. (IF span < 0 THEN -span ELSE span) - 1}

(* generate_order() and the check of pick_n_random(): a span of 0 divides  *)
(* by zero; n is compared as an unsigned number.                           *)
Generate(c) ==
  /\ Thread(c, "generate")
  /\ \/ /\ OrderSizes = {}
        /\ Dies
     \/ \E n \in OrderSizes :
          \/ (n < 0 \/ n > Len(generator.stations)) /\ Dies
          \/ /\ n \in 0 .. Len(generator.stations)
             /\ thread' = [thread EXCEPT ![c] = [at |-> "pick", left |-> n, selected |-> <<>>,
                                                 choices |-> generator.stations]]
             /\ UNCHANGED status
  /\ UNCHANGED <<option, generator, client, asked, reply>>

(* Seeded fault: std::remove() without erase().                            *)
Keeps(choices, element) == choices

Without(choices, element) == Keep(choices, Range(choices) \ {element})

(* A round of pick_n_random().  Every copy of the element goes; of an      *)
(* empty vector pick_random() divides by zero.                             *)
Pick(c) ==
  /\ Thread(c, "pick")
  /\ \/ thread[c].left = 0 /\ thread' = [thread EXCEPT ![c].at = "send"] /\ UNCHANGED status
     \/ thread[c].left > 0 /\ thread[c].choices = <<>> /\ Dies
     \/ /\ thread[c].left > 0
        /\ \E element \in Range(thread[c].choices) :
             thread' = [thread EXCEPT ![c].left = @ - 1,
                                      ![c].selected = Append(@, element),
                                      ![c].choices = Without(@, element)]
        /\ UNCHANGED status
  /\ UNCHANGED <<option, generator, client, asked, reply>>

(* Seeded fault: a message that is not understood is only logged.          *)
LogsOnly(c) == IF asked[c] = "get_order" THEN OrderOf(thread[c].selected) ELSE NoReply

response(c) == IF asked[c] = "get_order" THEN OrderOf(thread[c].selected) ELSE NotUnderstood

(* A send() to a client that is gone is lost, or ends the service.         *)
Send(c) ==
  /\ Thread(c, "send")
  /\ \/ thread' = [thread EXCEPT ![c].at = "ended"] /\ UNCHANGED status
     \/ client[c] \in {"closed", "reset"} /\ Dies
  /\ reply' = [reply EXCEPT ![c] = response(c)]
  /\ UNCHANGED <<option, generator, client, asked>>

-----------------------------------------------------------------------------
(* The other end of a connection (external).                               *)

Connect(c) ==
  /\ status = "serving" /\ client[c] = "idle"
  /\ client' = [client EXCEPT ![c] = "connected"]
  /\ UNCHANGED <<option, status, generator, asked, thread, reply>>

(* Bytes that end no message are as if they had not been sent.             *)
Ask(c, m) ==
  /\ client[c] = "connected"
  /\ client' = [client EXCEPT ![c] = "asked"]
  /\ asked' = [asked EXCEPT ![c] = m]
  /\ UNCHANGED <<option, status, generator, thread, reply>>

(* Orderly, or by a reset.                                                 *)
Close(c) ==
  /\ client[c] \in {"connected", "asked"}
  /\ \E how \in {"closed", "reset"} : client' = [client EXCEPT ![c] = how]
  /\ UNCHANGED <<option, status, generator, asked, thread, reply>>

Service(c) == Accept(c) \/ Receive(c) \/ Generate(c) \/ Pick(c) \/ Send(c)

Next ==
  \/ Main
  \/ \E c \in Clients : Service(c) \/ Connect(c) \/ Close(c)
  \/ \E c \in Clients : \E m \in {"get_order", "other", "malformed"} : Ask(c, m)

(* accept() and every thread run on; nothing is assumed of the clients.    *)
Spec == Init /\ [][Next]_vars /\ WF_vars(Main) /\ \A c \in Clients : WF_vars(Service(c))

-----------------------------------------------------------------------------

Known == Range(option.stations) \ {Word, Huge}

Threads == [at : {"none", "receive", "spin", "generate", "pick", "send", "ended"},
            left : 0 .. Len(option.stations), choices : Seq(Known), selected : Seq(Known)]

(* The type invariant of the service.                                      *)
TypeOK ==
  /\ option \in Options
  /\ status \in {"starting", "serving", "refused", "dead"}
  /\ generator \in [stations : Seq(Known), min_size : Int, max_size : Int]
  /\ client \in [Clients -> {"idle", "connected", "asked", "closed", "reset"}]
  /\ asked \in [Clients -> {"", "get_order", "other", "malformed"}]
  /\ thread \in [Clients -> Threads]
  /\ reply \in [Clients -> [kind : {"none", "not_understood", "order"}, order : Seq(Known)]]

(* The command line names what it should: stations, both sizes in order,   *)
(* and not more of them than there are different stations.                 *)
Proper ==
  /\ option.random /\ option.port_free
  /\ ~Contains(option.stations, Huge)
  /\ option.min # Unset /\ option.max # Unset
  /\ 0 <= option.min /\ option.min <= option.max
  /\ 0 < option.max /\ option.max <= Cardinality(Known)

(* An order names stations of the command line, none of them twice, even   *)
(* if --stations does; with a proper command line it keeps to both sizes.  *)
OrdersFit ==
  \A c \in Clients : reply[c].kind = "order" =>
    LET order == reply[c].order
    IN /\ Range(order) \subseteq Known
       /\ Cardinality(Range(order)) = Len(order)
       /\ Proper => option.min <= Len(order) /\ Len(order) <= option.max

(* generate_order() keeps its types, and its orders fit the command line.  *)
OrdersSound == TypeOK /\ OrdersFit

(* What a client can end any service with: bytes that are no message, a    *)
(* reset of its connection, and leaving before its answer.                 *)
Ruins(c) ==
  \/ asked[c] = "malformed"
  \/ client[c] = "reset"
  \/ client[c] = "closed" /\ asked[c] # ""

(* A service with a proper command line is ended by nothing but such a     *)
(* client: no order it may have to generate, and no message in its frame,  *)
(* understood or not, from a client that waits for the answer, ends it.    *)
ProperServiceSurvives ==
  Proper /\ status = "dead" => \E c \in Clients : Ruins(c)

(* A client that has asked gets an answer, whatever the others do, unless  *)
(* it leaves or the service comes to an end.                               *)
AskedIsAnswered ==
  \A c \in Clients :
    client[c] = "asked" ~> reply[c] # NoReply \/ client[c] # "asked" \/ status = "dead"
=============================================================================
