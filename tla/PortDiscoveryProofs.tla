------------------------ MODULE PortDiscoveryProofs ------------------------
(***************************************************************************)
(* Proofs about PortDiscovery, for any robots, controllers, orchestrators   *)
(* and strangers, with crashes and overlapping restarts.                    *)
(***************************************************************************)
EXTENDS PortDiscovery, TLAPS

-----------------------------------------------------------------------------
(* Requests are told apart by their function and their client.               *)

LEMMA RequestFields ==
  /\ \A c \in Controllers : /\ AddReq(c) \in Requests
                            /\ AddReq(c).fn = "add_robot" /\ AddReq(c).from = c
                            /\ AddReq(c).id = Id[c] /\ AddReq(c).port = c
  /\ \A c \in Controllers : /\ RemoveReq(c) \in Requests
                            /\ RemoveReq(c).fn = "remove_robot" /\ RemoveReq(c).from = c
                            /\ RemoveReq(c).id = Id[c]
  /\ \A g \in Orchestrators : /\ GetReq(g) \in Requests
                              /\ GetReq(g).fn = "get_robot" /\ GetReq(g).from = g
                              /\ GetReq(g).id = Id[g]
  /\ \A s \in Strangers : BadReq(s) \in Requests /\ BadReq(s).fn = s
  BY DEF Requests, AddReq, RemoveReq, GetReq, BadReq

LEMMA RequestKinds ==
  ASSUME NEW r \in Requests
  PROVE  /\ r.fn = "add_robot" => \E c \in Controllers : r = AddReq(c)
         /\ r.fn = "remove_robot" => \E c \in Controllers : r = RemoveReq(c)
         /\ r.fn = "get_robot" => \E g \in Orchestrators : r = GetReq(g)
  BY RequestFields, PortDiscoveryAssumption DEF Requests, PS!BadMessages

-----------------------------------------------------------------------------
LEMMA TypeInit == Init => TypeOK
  BY DEF Init, TypeOK, PS!ServiceInit, PS!ServiceTypeOK, PS!Threads

LEMMA ThreadTypes ==
  ASSUME TypeOK, NEW r \in Requests, PS!ThreadStep(r)
  PROVE  PS!ServiceTypeOK'
<1> USE DEF TypeOK, PS!ServiceTypeOK, PS!Threads, PS!Running, PS!Answer
<1>1. CASE PS!Receive(r) BY <1>1 DEF PS!Receive
<1>2. CASE PS!AddRobot(r)
  <2>1. r.port \in Controllers
    BY <1>2, RequestKinds, RequestFields DEF PS!AddRobot
  <2>2. robot_map' \in [Robots -> Controllers \cup {PS!Unregistered}]
    BY <1>2, <2>1 DEF PS!AddRobot
  <2> QED
    BY <1>2, <2>2 DEF PS!AddRobot
<1>3. CASE PS!GetRobot(r) BY <1>3 DEF PS!GetRobot
<1>4. CASE PS!RemoveRobot(r) BY <1>4 DEF PS!RemoveRobot
<1>5. CASE PS!Reject(r) BY <1>5 DEF PS!Reject
<1>6. CASE PS!Terminate(r) BY <1>6 DEF PS!Terminate
<1>7. CASE PS!Reply(r) BY <1>7 DEF PS!Reply
<1> QED
  BY <1>1, <1>2, <1>3, <1>4, <1>5, <1>6, <1>7 DEF PS!ThreadStep

LEMMA ClientTypes ==
  ASSUME TypeOK, NEW r \in Requests, PS!Connect(r) \/ PS!Send(r) \/ PS!HangUp(r)
  PROVE  PS!ServiceTypeOK'
<1>1. conn' \in [Requests -> {"none", "connected", "sent", "eof", "reset"}]
  BY DEF TypeOK, PS!ServiceTypeOK, PS!Connect, PS!Send, PS!HangUp
<1>2. backlog' \in Seq(Requests)
  BY SMTT(20) DEF TypeOK, PS!ServiceTypeOK, PS!Connect, PS!Send, PS!HangUp
<1> QED
  BY <1>1, <1>2 DEF TypeOK, PS!ServiceTypeOK, PS!Connect, PS!Send, PS!HangUp

LEMMA TypeStep == TypeOK /\ [Next]_vars => TypeOK'
<1> SUFFICES ASSUME TypeOK, [Next]_vars PROVE TypeOK'
  OBVIOUS
<1> USE DEF TypeOK
<1>1. ASSUME NEW c \in Controllers, ControllerStep(c) PROVE TypeOK'
  <2>1. PS!ServiceTypeOK'
    <3>1. CASE UNCHANGED serviceVars
      BY <3>1 DEF serviceVars, PS!ServiceTypeOK
    <3> QED
      BY <1>1, <3>1, ClientTypes, RequestFields DEF ControllerStep, ControllerStart,
         ControllerRegister, ControllerAccept, ControllerStop, ControllerDeregister, ControllerCrash
  <2> QED
    BY <1>1, <2>1 DEF ControllerStep, ControllerStart, ControllerRegister, ControllerAccept,
       ControllerStop, ControllerDeregister, ControllerCrash, Move
<1>2. ASSUME NEW g \in Orchestrators, OrchestratorStep(g) PROVE TypeOK'
  <2>1. PS!ServiceTypeOK'
    <3>1. CASE UNCHANGED serviceVars
      BY <3>1 DEF serviceVars, PS!ServiceTypeOK
    <3> QED
      BY <1>2, <3>1, ClientTypes, RequestFields DEF OrchestratorStep, OrchestratorConnect,
         OrchestratorAsk, OrchestratorReceive, OrchestratorCrash
  <2>2. orch' \in [Orchestrators -> {"off", "connected", "waiting", "answered", "dead"}]
    BY <1>2 DEF OrchestratorStep, OrchestratorConnect, OrchestratorAsk, OrchestratorReceive,
       OrchestratorCrash
  <2>3. seen' \in [Orchestrators -> SUBSET (Controllers \cup {PS!Unregistered})]
    BY <1>2 DEF OrchestratorStep, OrchestratorConnect, OrchestratorAsk, OrchestratorReceive,
       OrchestratorCrash, PS!ServiceTypeOK
  <2> QED
    BY <1>2, <2>1, <2>2, <2>3 DEF OrchestratorStep, OrchestratorConnect, OrchestratorAsk,
       OrchestratorReceive, OrchestratorCrash
<1>3. ASSUME NEW s \in Strangers, StrangerStep(s) PROVE TypeOK'
  BY <1>3, ClientTypes, RequestFields DEF StrangerStep
<1>4. CASE ServiceAccept
  BY <1>4 DEF ServiceAccept, PS!Accept, PS!ServiceTypeOK, PS!Threads
<1>5. ASSUME NEW r \in Requests, ServiceThread(r) PROVE TypeOK'
  <2>1. PS!ServiceTypeOK'
    BY <1>5, ThreadTypes DEF ServiceThread
  <2>2. seen' \in [Orchestrators -> SUBSET (Controllers \cup {PS!Unregistered})]
    BY <1>5, <2>1 DEF ServiceThread, Observe, PS!ServiceTypeOK
  <2> QED
    BY <1>5, <2>1, <2>2 DEF ServiceThread
<1>6. CASE UNCHANGED vars
  BY <1>6 DEF vars, serviceVars, PS!ServiceTypeOK
<1> QED
  BY <1>1, <1>2, <1>3, <1>4, <1>5, <1>6 DEF Next

\* Every variable of the service and of its clients keeps its type.
THEOREM TypeCorrect == Spec => []TypeOK
  BY TypeInit, TypeStep, PTL DEF Spec

-----------------------------------------------------------------------------
(* Who is registered.  An add_robot that was not refused stays in robot_map  *)
(* until the remove_robot of the same controller is handled, because         *)
(*   - an id that is taken is refused, so that nobody else takes its place;  *)
(*   - a controller sends remove_robot only after it was accepted, hence     *)
(*     after an orchestrator read its port in the map.                       *)

Registered(c) == thread[AddReq(c)] = "done" /\ reply[AddReq(c)] # PS!Refused

\* A connection is in the backlog once, before it has a thread.
BacklogInv ==
    /\ \A k \in 1 .. Len(backlog) : conn[backlog[k]] # "none" /\ thread[backlog[k]] = "none"
    /\ \A k, l \in 1 .. Len(backlog) : backlog[k] = backlog[l] => k = l

\* A thread that has a message was sent one.
FlowInv ==
    \A r \in Requests :
      /\ thread[r] # "none" => conn[r] # "none"
      /\ thread[r] \in {"calling", "replying", "done"} => conn[r] = "sent"

\* remove_robot is sent at the end of a controller's life.
ClientInv ==
    \A c \in Controllers :
      /\ conn[RemoveReq(c)] = "sent" => ctrl[c] = "gone"
      /\ conn[RemoveReq(c)] # "none" => ctrl[c] \in {"closing", "gone", "dead"}

MapInv ==
    /\ \A g \in Orchestrators, c \in Controllers : reply[GetReq(g)] = c => Registered(c)
    /\ \A i \in Robots, c \in Controllers :
         robot_map[i] = c => Id[c] = i /\ Registered(c) /\ ~Handled(RemoveReq(c))
    /\ \A c \in Controllers : Registered(c)
         => Id[c] \in Robots /\ (robot_map[Id[c]] = c \/ Handled(RemoveReq(c)))
    /\ \A c \in Controllers : ctrl[c] \in {"serving", "closing", "gone"} => Registered(c)
    /\ \A r \in Requests : thread[r] \notin {"replying", "done"} => reply[r] = PS!Unregistered
    /\ \A c \in Controllers : thread[AddReq(c)] = "replying" => reply[AddReq(c)] = PS!Refused

WireInv == BacklogInv /\ FlowInv /\ ClientInv

LEMMA WireInit == Init => WireInv
  BY RequestFields DEF Init, PS!ServiceInit, WireInv, BacklogInv, FlowInv, ClientInv

LEMMA WireStep == TypeOK /\ WireInv /\ [Next]_vars => WireInv'
<1> SUFFICES ASSUME TypeOK, WireInv, [Next]_vars PROVE WireInv'
  OBVIOUS
<1> USE DEF TypeOK, PS!ServiceTypeOK
<1>1. ASSUME NEW r \in Requests, PS!Connect(r) PROVE BacklogInv' /\ FlowInv'
  <2>1. /\ Len(backlog') = Len(backlog) + 1 /\ backlog'[Len(backlog) + 1] = r
        /\ \A k \in 1 .. Len(backlog) : backlog'[k] = backlog[k] /\ backlog[k] # r
        /\ \A k \in 1 .. Len(backlog) : backlog[k] \in Requests
        /\ conn' = [conn EXCEPT ![r] = "connected"] /\ thread' = thread /\ conn[r] = "none"
    BY <1>1 DEF PS!Connect, WireInv, BacklogInv
  <2>2. thread[r] = "none"
    BY <2>1 DEF WireInv, FlowInv
  <2>3. BacklogInv'
    <3>1. Len(backlog) \in Nat
      OBVIOUS
    <3>2. \A k \in 1 .. Len(backlog') : k \in 1 .. Len(backlog) \/ k = Len(backlog) + 1
      BY <2>1, <3>1
    <3>3. \A k \in 1 .. Len(backlog') : conn'[backlog'[k]] # "none" /\ thread'[backlog'[k]] = "none"
      BY <2>1, <2>2, <3>2 DEF WireInv, BacklogInv
    <3>4. \A k, l \in 1 .. Len(backlog') : backlog'[k] = backlog'[l] => k = l
      BY <2>1, <3>2 DEF WireInv, BacklogInv
    <3> QED
      BY <3>3, <3>4 DEF BacklogInv
  <2>4. FlowInv'
    BY <2>1, <2>2 DEF WireInv, FlowInv
  <2> QED
    BY <2>3, <2>4
<1>2. ASSUME NEW r \in Requests, PS!Send(r) \/ PS!HangUp(r) PROVE BacklogInv' /\ FlowInv'
  BY <1>2 DEF PS!Send, PS!HangUp, WireInv, BacklogInv, FlowInv
<1>3. ASSUME NEW r \in Requests, PS!ThreadStep(r) PROVE WireInv' \/ ctrl' # ctrl
  <2>1. /\ backlog' = backlog /\ conn' = conn /\ thread[r] # "none"
        /\ thread' = thread \/ \E t \in PS!Threads : t # "none" /\ thread' = [thread EXCEPT ![r] = t]
        /\ thread'[r] \in {"calling", "replying", "done"} => conn[r] = "sent"
    BY <1>3 DEF PS!ThreadStep, PS!Receive, PS!AddRobot, PS!GetRobot, PS!RemoveRobot, PS!Reject,
       PS!Terminate, PS!Reply, PS!Running, PS!Answer, PS!Threads, WireInv, FlowInv
  <2>2. BacklogInv' /\ FlowInv'
    BY <2>1 DEF WireInv, BacklogInv, FlowInv
  <2> QED
    BY <2>1, <2>2 DEF WireInv, ClientInv
<1>4. ASSUME NEW c \in Controllers, ControllerStep(c) PROVE WireInv'
  <2>1. BacklogInv' /\ FlowInv'
    <3>1. CASE UNCHANGED serviceVars
      BY <3>1 DEF serviceVars, WireInv, BacklogInv, FlowInv
    <3> QED
      BY <1>1, <1>2, <1>4, <3>1, RequestFields DEF ControllerStep, ControllerStart,
         ControllerRegister, ControllerAccept, ControllerStop, ControllerDeregister, ControllerCrash
  <2>2. ClientInv'
    BY <1>4, RequestFields DEF ControllerStep, ControllerStart, ControllerRegister,
       ControllerAccept, ControllerStop, ControllerDeregister, ControllerCrash, Move,
       PS!Connect, PS!Send, PS!HangUp, WireInv, ClientInv, serviceVars
  <2> QED
    BY <2>1, <2>2 DEF WireInv
<1>5. ASSUME NEW g \in Orchestrators, OrchestratorStep(g) PROVE WireInv'
  <2>1. BacklogInv' /\ FlowInv'
    <3>1. CASE UNCHANGED serviceVars
      BY <3>1 DEF serviceVars, WireInv, BacklogInv, FlowInv
    <3> QED
      BY <1>1, <1>2, <1>5, <3>1, RequestFields DEF OrchestratorStep, OrchestratorConnect,
         OrchestratorAsk, OrchestratorReceive, OrchestratorCrash
  <2>2. ClientInv'
    BY <1>5, RequestFields DEF OrchestratorStep, OrchestratorConnect, OrchestratorAsk,
       OrchestratorReceive, OrchestratorCrash,
       PS!Connect, PS!Send, PS!HangUp, WireInv, ClientInv, serviceVars
  <2> QED
    BY <2>1, <2>2 DEF WireInv
<1>6. ASSUME NEW s \in Strangers, StrangerStep(s) PROVE WireInv'
  <2>1. BacklogInv' /\ FlowInv'
    BY <1>1, <1>2, <1>6, RequestFields DEF StrangerStep
  <2>2. \A c \in Controllers : BadReq(s) # RemoveReq(c)
    <3>1. BadReq(s).fn \in PS!BadMessages
      BY RequestFields, PortDiscoveryAssumption
    <3>2. "remove_robot" \notin PS!BadMessages
      BY DEF PS!BadMessages
    <3> QED
      BY <3>1, <3>2, RequestFields
  <2>3. ClientInv'
    BY <1>6, <2>2, RequestFields DEF StrangerStep, PS!Connect, PS!Send, WireInv, ClientInv
  <2> QED
    BY <2>1, <2>3 DEF WireInv
<1>7. CASE ServiceAccept
  <2>1. /\ backlog # <<>> /\ backlog' = Tail(backlog) /\ conn' = conn /\ ctrl' = ctrl
        /\ thread' = [thread EXCEPT ![backlog[1]] = "reading"]
    BY <1>7 DEF ServiceAccept, PS!Accept
  <2>2. /\ Len(backlog') = Len(backlog) - 1 /\ 1 \in 1 .. Len(backlog)
        /\ \A k \in 1 .. Len(backlog') : backlog'[k] = backlog[k + 1] /\ k + 1 \in 1 .. Len(backlog)
        /\ \A k \in 1 .. Len(backlog) : backlog[k] \in Requests
    BY <2>1
  <2>3. BacklogInv'
    BY <2>1, <2>2 DEF WireInv, BacklogInv
  <2>4. FlowInv'
    BY <2>1, <2>2 DEF WireInv, BacklogInv, FlowInv
  <2>5. ClientInv'
    BY <2>1 DEF WireInv, ClientInv
  <2> QED
    BY <2>3, <2>4, <2>5 DEF WireInv
<1>8. ASSUME NEW r \in Requests, ServiceThread(r) PROVE WireInv'
  BY <1>3, <1>8 DEF ServiceThread
<1>9. CASE UNCHANGED vars
  BY <1>9 DEF vars, serviceVars, WireInv, BacklogInv, FlowInv, ClientInv
<1> QED
  BY <1>4, <1>5, <1>6, <1>7, <1>8, <1>9 DEF Next

LEMMA MapInit == Init => MapInv
<1> SUFFICES ASSUME Init PROVE MapInv
  OBVIOUS
<1>1. /\ \A r \in Requests : thread[r] = "none" /\ reply[r] = PS!Unregistered
      /\ \A i \in Robots : robot_map[i] = PS!Unregistered
      /\ \A c \in Controllers : ctrl[c] = "off"
  BY DEF Init, PS!ServiceInit
<1>2. \A c \in Controllers : c # PS!Unregistered /\ ~Registered(c)
  BY <1>1, RequestFields, PortDiscoveryAssumption DEF Registered
<1> QED
  BY <1>1, <1>2, RequestFields DEF MapInv

\* A step that touches neither the map nor the replies, and neither enters nor leaves
\* the threads that have acted, keeps MapInv as long as the controllers do.
LEMMA MapFrame ==
  ASSUME MapInv, UNCHANGED <<robot_map, reply>>,
         \A r \in Requests : /\ thread'[r] = "done" <=> thread[r] = "done"
                             /\ thread'[r] = "replying" <=> thread[r] = "replying",
         \A c \in Controllers : ctrl'[c] \in {"serving", "closing", "gone"} => Registered(c)
  PROVE  MapInv'
  BY RequestFields DEF MapInv, Registered, Handled

\* The request a remove thread works on is that of a registered controller.
LEMMA RemoveOfRegistered ==
  ASSUME TypeOK, WireInv, MapInv, NEW c \in Controllers,
         thread[RemoveReq(c)] \in {"calling", "replying", "done"}
  PROVE  ctrl[c] = "gone" /\ Registered(c) /\ Id[c] \in Robots
  BY RequestFields DEF WireInv, FlowInv, ClientInv, MapInv

LEMMA MapThread ==
  ASSUME TypeOK, WireInv, MapInv, NEW r \in Requests, PS!ThreadStep(r), UNCHANGED ctrl
  PROVE  MapInv'
<1> USE DEF PS!Running, PS!Answer
<1>0. \A c \in Controllers : ctrl'[c] \in {"serving", "closing", "gone"} => Registered(c)
  BY DEF MapInv
<1>a. /\ thread \in [Requests -> PS!Threads]
      /\ reply \in [Requests -> Controllers \cup {PS!Unregistered, PS!Refused}]
      /\ robot_map \in [Robots -> Controllers \cup {PS!Unregistered}]
      /\ PS!Unregistered # PS!Refused
      /\ \A c \in Controllers : c # PS!Unregistered /\ c # PS!Refused
  BY PortDiscoveryAssumption DEF TypeOK, PS!ServiceTypeOK, PS!Unregistered, PS!Refused
<1>1. CASE PS!Receive(r)
  BY <1>0, <1>1, <1>a, MapFrame DEF PS!Receive
<1>2. CASE PS!AddRobot(r)
  <2>1. PICK c \in Controllers : r = AddReq(c)
    BY <1>2, RequestKinds DEF PS!AddRobot
  <2>2. Id[c] \in Robots /\ r.id = Id[c] /\ r.port = c /\ thread[r] = "calling"
    BY <1>2, <2>1, RequestFields DEF PS!AddRobot
  <2>3. ~Handled(RemoveReq(c)) /\ ~Registered(c)
    BY <2>1, <2>2, RemoveOfRegistered DEF Handled, Registered
  <2>4. \A q \in Requests : q # r => thread'[q] = thread[q] /\ reply'[q] = reply[q]
    BY <1>2, <1>a DEF PS!AddRobot
  <2>5. \A d \in Controllers : /\ RemoveReq(d) # r /\ (AddReq(d) = r => d = c)
                               /\ AddReq(d) \in Requests /\ RemoveReq(d) \in Requests
    BY <2>1, RequestFields
  <2>6. \A g \in Orchestrators : GetReq(g) # r /\ GetReq(g) \in Requests
    BY <2>1, RequestFields
  <2>7. CASE robot_map[r.id] = PS!Unregistered
    <3>1. /\ robot_map' = [robot_map EXCEPT ![Id[c]] = c]
          /\ thread'[r] = "done" /\ reply' = reply /\ reply[r] = PS!Unregistered
      BY <1>2, <1>a, <2>2, <2>7 DEF PS!AddRobot, MapInv
    <3>2. Registered(c)'
      BY <1>a, <2>1, <3>1 DEF Registered
    <3>3. \A d \in Controllers : d # c => (Registered(d)' <=> Registered(d))
      BY <2>4, <2>5 DEF Registered
    <3>4. \A d \in Controllers : Handled(RemoveReq(d))' <=> Handled(RemoveReq(d))
      BY <2>4, <2>5 DEF Handled
    <3> QED
      BY <1>a, <2>1, <2>2, <2>3, <2>4, <2>5, <2>6, <2>7, <3>1, <3>2, <3>3, <3>4 DEF MapInv
  <2>8. CASE robot_map[r.id] # PS!Unregistered
    <3>1. robot_map' = robot_map /\ thread'[r] = "replying" /\ reply'[r] = PS!Refused
      BY <1>2, <1>a, <2>8 DEF PS!AddRobot
    <3>2. \A d \in Controllers : Registered(d)' <=> Registered(d)
      BY <2>1, <2>2, <2>4, <2>5, <3>1 DEF Registered
    <3>3. \A d \in Controllers : Handled(RemoveReq(d))' <=> Handled(RemoveReq(d))
      BY <2>4, <2>5 DEF Handled
    <3> QED
      BY <2>1, <2>4, <2>5, <2>6, <3>1, <3>2, <3>3 DEF MapInv
  <2> QED
    BY <2>7, <2>8
<1>3. CASE PS!GetRobot(r)
  <2>1. PICK g \in Orchestrators : r = GetReq(g)
    BY <1>3, RequestKinds DEF PS!GetRobot
  <2>2. /\ r.id \in Robots /\ robot_map' = robot_map /\ thread'[r] = "replying"
        /\ reply'[r] = robot_map[r.id] /\ thread[r] = "calling"
        /\ \A q \in Requests : q # r => thread'[q] = thread[q] /\ reply'[q] = reply[q]
    BY <1>3, <1>a DEF PS!GetRobot
  <2>3. \A d \in Controllers : /\ RemoveReq(d) # r /\ AddReq(d) # r
                               /\ AddReq(d) \in Requests /\ RemoveReq(d) \in Requests
    BY <2>1, RequestFields
  <2>4. \A d \in Controllers : /\ Registered(d)' <=> Registered(d)
                               /\ Handled(RemoveReq(d))' <=> Handled(RemoveReq(d))
    BY <2>2, <2>3 DEF Registered, Handled
  <2>5. \A h \in Orchestrators : GetReq(h) \in Requests
    BY RequestFields
  <2> QED
    BY <2>2, <2>3, <2>4, <2>5 DEF MapInv
<1>4. CASE PS!RemoveRobot(r)
  <2>1. PICK c \in Controllers : r = RemoveReq(c)
    BY <1>4, RequestKinds DEF PS!RemoveRobot
  <2>2. /\ r.id = Id[c] /\ thread[r] = "calling" /\ thread'[r] = "done" /\ reply' = reply
        /\ robot_map' = [robot_map EXCEPT ![Id[c]] = PS!Unregistered]
        /\ \A q \in Requests : q # r => thread'[q] = thread[q]
    <3>1. r.id = Id[c]
      BY <2>1, RequestFields
    <3> QED
      BY <1>4, <1>a, <3>1 DEF PS!RemoveRobot
  <2>3. Registered(c) /\ Id[c] \in Robots /\ ~Handled(RemoveReq(c))
    BY <2>1, <2>2, RemoveOfRegistered DEF Handled
  <2>4. robot_map[Id[c]] = c
    BY <2>3 DEF MapInv
  <2>5. \A d \in Controllers : /\ RemoveReq(d) = r <=> d = c
                               /\ AddReq(d) # r
                               /\ AddReq(d) \in Requests /\ RemoveReq(d) \in Requests
    BY <2>1, RequestFields
  <2>6. \A d \in Controllers : /\ Registered(d)' <=> Registered(d)
                               /\ d # c => (Handled(RemoveReq(d))' <=> Handled(RemoveReq(d)))
    BY <2>2, <2>5 DEF Registered, Handled
  <2>7. Handled(RemoveReq(c))'
    BY <2>1, <2>2 DEF Handled
  <2>8. \A h \in Orchestrators : GetReq(h) \in Requests
    BY RequestFields
  <2> QED
    BY <1>a, <2>2, <2>3, <2>4, <2>5, <2>6, <2>7, <2>8 DEF MapInv
<1>5. CASE PS!Reject(r)
  <2>1. /\ thread[r] = "calling" /\ thread'[r] = "replying" /\ reply'[r] = PS!Refused
        /\ robot_map' = robot_map
        /\ \A q \in Requests : q # r => thread'[q] = thread[q] /\ reply'[q] = reply[q]
    BY <1>5, <1>a DEF PS!Reject
  <2>2. \A d \in Controllers : RemoveReq(d) # r
    <3>1. SUFFICES ASSUME NEW d \in Controllers, RemoveReq(d) = r PROVE FALSE
      OBVIOUS
    <3>2. Id[d] \in Robots
      BY <2>1, <3>1, RemoveOfRegistered
    <3>3. Id[d] = "not_a_number"
      BY <1>5, <3>1, RequestFields DEF PS!Reject, PS!Functions
    <3> QED
      BY <3>2, <3>3, PortDiscoveryAssumption DEF PS!BadIds
  <2>3. \A d \in Controllers : AddReq(d) \in Requests /\ RemoveReq(d) \in Requests
    BY RequestFields
  <2>4. \A d \in Controllers : /\ Registered(d)' <=> Registered(d)
                               /\ Handled(RemoveReq(d))' <=> Handled(RemoveReq(d))
    BY <2>1, <2>2, <2>3 DEF Registered, Handled
  <2>5. \A h \in Orchestrators : GetReq(h) \in Requests
    BY RequestFields
  <2> QED
    BY <1>a, <2>1, <2>3, <2>4, <2>5 DEF MapInv
<1>6. CASE PS!Terminate(r)
  BY <1>0, <1>6, MapFrame DEF PS!Terminate
<1>7. CASE PS!Reply(r)
  <2>1. /\ thread[r] = "replying" /\ thread'[r] = "done" /\ reply' = reply
        /\ robot_map' = robot_map
        /\ \A q \in Requests : q # r => thread'[q] = thread[q]
    BY <1>7, <1>a DEF PS!Reply
  <2>2. \A d \in Controllers : AddReq(d) \in Requests /\ RemoveReq(d) \in Requests
    BY RequestFields
  <2>3. \A d \in Controllers : /\ Registered(d)' <=> Registered(d)
                               /\ Handled(RemoveReq(d))' <=> Handled(RemoveReq(d))
    BY <2>1, <2>2 DEF Registered, Handled, MapInv
  <2> QED
    BY <2>1, <2>2, <2>3 DEF MapInv
<1> QED
  BY <1>1, <1>2, <1>3, <1>4, <1>5, <1>6, <1>7 DEF PS!ThreadStep

LEMMA MapStep == TypeOK /\ WireInv /\ MapInv /\ [Next]_vars => MapInv'
<1> SUFFICES ASSUME TypeOK, WireInv, MapInv, [Next]_vars PROVE MapInv'
  OBVIOUS
<1>1. ASSUME NEW c \in Controllers, ControllerStep(c) PROVE MapInv'
  <2>1. UNCHANGED <<robot_map, reply, thread>>
    BY <1>1 DEF ControllerStep, ControllerStart, ControllerRegister, ControllerAccept,
       ControllerStop, ControllerDeregister, ControllerCrash, PS!Connect, PS!Send, PS!HangUp,
       serviceVars
  <2>2. \A d \in Controllers : ctrl'[d] \in {"serving", "closing", "gone"} => Registered(d)
    BY <1>1 DEF ControllerStep, ControllerStart, ControllerRegister, ControllerAccept,
       ControllerStop, ControllerDeregister, ControllerCrash, Move, MapInv, TypeOK
  <2> QED
    BY <2>1, <2>2, MapFrame
<1>2. ASSUME UNCHANGED <<robot_map, reply, thread, ctrl>> PROVE MapInv'
  <2>1. \A d \in Controllers : ctrl'[d] \in {"serving", "closing", "gone"} => Registered(d)
    BY <1>2 DEF MapInv
  <2> QED
    BY <1>2, <2>1, MapFrame
<1>3. ASSUME NEW g \in Orchestrators, OrchestratorStep(g) PROVE MapInv'
  BY <1>2, <1>3 DEF OrchestratorStep, OrchestratorConnect, OrchestratorAsk, OrchestratorReceive,
     OrchestratorCrash, PS!Connect, PS!Send, PS!HangUp, serviceVars
<1>4. ASSUME NEW s \in Strangers, StrangerStep(s) PROVE MapInv'
  BY <1>2, <1>4 DEF StrangerStep, PS!Connect, PS!Send
<1>5. CASE ServiceAccept
  <2>1. backlog # <<>> /\ Head(backlog) = backlog[1] /\ 1 \in 1 .. Len(backlog)
    BY <1>5 DEF ServiceAccept, PS!Accept, TypeOK, PS!ServiceTypeOK
  <2>2. thread[Head(backlog)] = "none"
    BY <2>1 DEF WireInv, BacklogInv
  <2>3. \A d \in Controllers : ctrl'[d] \in {"serving", "closing", "gone"} => Registered(d)
    BY <1>5 DEF ServiceAccept, MapInv
  <2>4. \A r \in Requests : /\ thread'[r] = "done" <=> thread[r] = "done"
                            /\ thread'[r] = "replying" <=> thread[r] = "replying"
    BY <1>5, <2>2 DEF ServiceAccept, PS!Accept, TypeOK, PS!ServiceTypeOK
  <2>5. UNCHANGED <<robot_map, reply>>
    BY <1>5 DEF ServiceAccept, PS!Accept
  <2> QED
    BY <2>3, <2>4, <2>5, MapFrame
<1>6. ASSUME NEW r \in Requests, ServiceThread(r) PROVE MapInv'
  BY <1>6, MapThread DEF ServiceThread
<1>7. CASE UNCHANGED vars
  BY <1>2, <1>7 DEF vars, serviceVars
<1> QED
  BY <1>1, <1>3, <1>4, <1>5, <1>6, <1>7 DEF Next

LEMMA PortInv == Spec => [](TypeOK /\ WireInv /\ MapInv)
  BY TypeInit, TypeStep, WireInit, WireStep, MapInit, MapStep, PTL DEF Spec

\* A controller in service is registered until its own remove_robot is handled.
THEOREM RegistrationKept == Spec => []ServingIsRegistered
<1>1. MapInv => ServingIsRegistered
  BY DEF MapInv, ServingIsRegistered
<1> QED
  BY <1>1, PortInv, PTL

\* After its remove_robot a controller's port is in the map no more.
THEOREM RemovalIsFinal == Spec => []RemovedForGood
<1>1. MapInv => RemovedForGood
  BY DEF MapInv, RemovedForGood
<1> QED
  BY <1>1, PortInv, PTL

-----------------------------------------------------------------------------
(* What an orchestrator is told.  While it waits, the history holds what its  *)
(* robot's entry is now; the reply is read from the map under the lock, so it *)
(* is in the history when it is written and stays there until it arrives.     *)

SeenInv ==
    \A g \in Orchestrators :
      /\ conn[GetReq(g)] = "sent" => orch[g] \in {"waiting", "answered"}
      /\ orch[g] = "answered" => thread[GetReq(g)] = "done"
      /\ orch[g] = "waiting" /\ Id[g] \in Robots => robot_map[Id[g]] \in seen[g]
      /\ orch[g] \in {"waiting", "answered"} /\ Id[g] \in Robots /\ Handled(GetReq(g))
           => reply[GetReq(g)] \in seen[g]

LEMMA SeenInit == Init => SeenInv
  BY RequestFields DEF Init, PS!ServiceInit, SeenInv

\* A step that leaves every orchestrator and every get_robot alone.
LEMMA SeenFrame ==
  ASSUME SeenInv, UNCHANGED <<robot_map, reply, orch, seen>>,
         \A g \in Orchestrators :
           /\ conn'[GetReq(g)] = "sent" => conn[GetReq(g)] = "sent"
           /\ thread'[GetReq(g)] = "done" <=> thread[GetReq(g)] = "done"
           /\ thread'[GetReq(g)] = "replying" <=> thread[GetReq(g)] = "replying"
  PROVE  SeenInv'
  BY DEF SeenInv, Handled

LEMMA SeenThread ==
  ASSUME TypeOK, WireInv, SeenInv, NEW r \in Requests, ServiceThread(r)
  PROVE  SeenInv'
<1> SUFFICES ASSUME NEW g \in Orchestrators
             PROVE  /\ conn'[GetReq(g)] = "sent" => orch'[g] \in {"waiting", "answered"}
                    /\ orch'[g] = "answered" => thread'[GetReq(g)] = "done"
                    /\ orch'[g] = "waiting" /\ Id[g] \in Robots => robot_map'[Id[g]] \in seen'[g]
                    /\ orch'[g] \in {"waiting", "answered"} /\ Id[g] \in Robots
                         /\ Handled(GetReq(g))' => reply'[GetReq(g)] \in seen'[g]
  BY DEF SeenInv
<1>1. GetReq(g) \in Requests /\ GetReq(g).fn = "get_robot" /\ GetReq(g).id = Id[g]
  BY RequestFields
<1>2. /\ orch' = orch /\ seen[g] \subseteq seen'[g]
      /\ orch[g] = "waiting" /\ Id[g] \in Robots => robot_map'[Id[g]] \in seen'[g]
  BY DEF ServiceThread, Observe
<1>3. /\ conn' = conn /\ thread[r] # "done" /\ \A q \in Requests : q # r => thread'[q] = thread[q]
  BY DEF ServiceThread, PS!ThreadStep, PS!Receive, PS!AddRobot, PS!GetRobot, PS!RemoveRobot,
     PS!Reject, PS!Terminate, PS!Reply, PS!Running, PS!Answer, TypeOK, PS!ServiceTypeOK
<1>4. \A q \in Requests : q # r => reply'[q] = reply[q]
  BY DEF ServiceThread, PS!ThreadStep, PS!Receive, PS!AddRobot, PS!GetRobot, PS!RemoveRobot,
     PS!Reject, PS!Terminate, PS!Reply, PS!Running, PS!Answer, TypeOK, PS!ServiceTypeOK
<1>5. orch[g] = "answered" => GetReq(g) # r
  BY <1>3 DEF SeenInv
<1>6. CASE GetReq(g) # r
  BY <1>1, <1>2, <1>3, <1>4, <1>6 DEF SeenInv, Handled
<1>7. CASE GetReq(g) = r
  <2>1. ASSUME orch[g] = "waiting", Id[g] \in Robots, Handled(r)' PROVE reply'[r] \in seen'[g]
    <3>1. CASE PS!GetRobot(r)
      <4>1. reply'[r] = robot_map[Id[g]] /\ robot_map' = robot_map
        BY <1>1, <1>7, <3>1 DEF PS!GetRobot, PS!Answer, TypeOK, PS!ServiceTypeOK
      <4> QED
        BY <1>2, <2>1, <4>1
    <3>2. CASE PS!Reply(r)
      <4>1. reply' = reply /\ Handled(r)
        BY <3>2 DEF PS!Reply, PS!Running, Handled
      <4> QED
        BY <1>2, <1>7, <2>1, <4>1 DEF SeenInv
    <3>3. CASE PS!Receive(r)
      BY <2>1, <3>3 DEF PS!Receive, Handled, TypeOK, PS!ServiceTypeOK
    <3>4. CASE PS!Reject(r)
      <4>1. Id[g] = "not_a_number"
        BY <1>1, <1>7, <3>4 DEF PS!Reject, PS!Functions
      <4> QED
        BY <2>1, <4>1, PortDiscoveryAssumption DEF PS!BadIds
    <3>5. CASE PS!Terminate(r)
      BY <2>1, <3>5 DEF PS!Terminate, PS!Running, Handled
    <3> QED
      BY <1>1, <1>7, <3>1, <3>2, <3>3, <3>4, <3>5
         DEF ServiceThread, PS!ThreadStep, PS!AddRobot, PS!RemoveRobot
  <2> QED
    BY <1>2, <1>3, <1>5, <1>7, <2>1 DEF SeenInv
<1> QED
  BY <1>6, <1>7

LEMMA SeenOrchestrator ==
  ASSUME TypeOK, WireInv, SeenInv, NEW g \in Orchestrators, OrchestratorStep(g)
  PROVE  SeenInv'
<1>1. /\ \A h \in Orchestrators : GetReq(h) \in Requests /\ (GetReq(h) = GetReq(g) => h = g)
      /\ UNCHANGED <<robot_map, reply, thread>>
  BY RequestFields DEF OrchestratorStep, OrchestratorConnect, OrchestratorAsk, OrchestratorReceive,
     OrchestratorCrash, PS!Connect, PS!Send, PS!HangUp, serviceVars
<1>2. \A h \in Orchestrators : h # g =>
        conn'[GetReq(h)] = conn[GetReq(h)] /\ orch'[h] = orch[h] /\ seen'[h] = seen[h]
  BY <1>1 DEF OrchestratorStep, OrchestratorConnect, OrchestratorAsk, OrchestratorReceive,
     OrchestratorCrash, PS!Connect, PS!Send, PS!HangUp, serviceVars, TypeOK, PS!ServiceTypeOK
<1> SUFFICES /\ conn'[GetReq(g)] = "sent" => orch'[g] \in {"waiting", "answered"}
             /\ orch'[g] = "answered" => thread'[GetReq(g)] = "done"
             /\ orch'[g] = "waiting" /\ Id[g] \in Robots => robot_map'[Id[g]] \in seen'[g]
             /\ orch'[g] \in {"waiting", "answered"} /\ Id[g] \in Robots
                  /\ Handled(GetReq(g))' => reply'[GetReq(g)] \in seen'[g]
  BY <1>1, <1>2 DEF SeenInv, Handled
<1>3. CASE OrchestratorConnect(g) \/ OrchestratorCrash(g)
  BY <1>1, <1>3 DEF OrchestratorConnect, OrchestratorCrash, PS!Connect, PS!HangUp, TypeOK,
     PS!ServiceTypeOK
<1>4. CASE OrchestratorAsk(g)
  <2>1. conn[GetReq(g)] = "connected" /\ orch'[g] = "waiting"
        /\ (Id[g] \in Robots => seen'[g] = {robot_map[Id[g]]})
    BY <1>4 DEF OrchestratorAsk, PS!Send, TypeOK
  <2>2. ~Handled(GetReq(g))'
    BY <1>1, <2>1 DEF Handled, WireInv, FlowInv
  <2> QED
    BY <1>1, <2>1, <2>2
<1>5. CASE OrchestratorReceive(g)
  BY <1>1, <1>5 DEF OrchestratorReceive, serviceVars, SeenInv, Handled, TypeOK
<1> QED
  BY <1>3, <1>4, <1>5 DEF OrchestratorStep

LEMMA SeenStep == TypeOK /\ WireInv /\ SeenInv /\ [Next]_vars => SeenInv'
<1> SUFFICES ASSUME TypeOK, WireInv, SeenInv, [Next]_vars PROVE SeenInv'
  OBVIOUS
<1>1. ASSUME NEW c \in Controllers, ControllerStep(c) PROVE SeenInv'
  <2>1. \A g \in Orchestrators : GetReq(g) \in Requests /\ GetReq(g) # AddReq(c) /\ GetReq(g) # RemoveReq(c)
    BY RequestFields
  <2>2. /\ UNCHANGED <<robot_map, reply, orch, seen, thread>>
        /\ \A g \in Orchestrators : conn'[GetReq(g)] = conn[GetReq(g)]
    BY <1>1, <2>1 DEF ControllerStep, ControllerStart, ControllerRegister, ControllerAccept,
       ControllerStop, ControllerDeregister, ControllerCrash, PS!Connect, PS!Send, PS!HangUp,
       serviceVars, TypeOK, PS!ServiceTypeOK
  <2> QED
    BY <2>2, SeenFrame
<1>2. ASSUME NEW s \in Strangers, StrangerStep(s) PROVE SeenInv'
  <2>1. \A g \in Orchestrators : GetReq(g) # BadReq(s)
    <3>1. BadReq(s).fn \in PS!BadMessages /\ "get_robot" \notin PS!BadMessages
      BY RequestFields, PortDiscoveryAssumption DEF PS!BadMessages
    <3> QED
      BY <3>1, RequestFields
  <2>2. /\ UNCHANGED <<robot_map, reply, orch, seen, thread>>
        /\ \A g \in Orchestrators : conn'[GetReq(g)] = conn[GetReq(g)]
    BY <1>2, <2>1, RequestFields DEF StrangerStep, PS!Connect, PS!Send, TypeOK, PS!ServiceTypeOK
  <2> QED
    BY <2>2, SeenFrame
<1>3. CASE ServiceAccept
  <2>1. backlog # <<>> /\ Head(backlog) = backlog[1] /\ 1 \in 1 .. Len(backlog)
    BY <1>3 DEF ServiceAccept, PS!Accept, TypeOK, PS!ServiceTypeOK
  <2>2. thread[Head(backlog)] = "none"
    BY <2>1 DEF WireInv, BacklogInv
  <2>3. \A r \in Requests : /\ thread'[r] = "done" <=> thread[r] = "done"
                            /\ thread'[r] = "replying" <=> thread[r] = "replying"
    BY <1>3, <2>2 DEF ServiceAccept, PS!Accept, TypeOK, PS!ServiceTypeOK
  <2>4. UNCHANGED <<robot_map, reply, orch, seen, conn>>
    BY <1>3 DEF ServiceAccept, PS!Accept
  <2> QED
    BY <2>3, <2>4, SeenFrame, RequestFields
<1>4. CASE UNCHANGED vars
  BY <1>4, SeenFrame DEF vars, serviceVars
<1> QED
  BY <1>1, <1>2, <1>3, <1>4, SeenThread, SeenOrchestrator DEF Next

\* The answer an orchestrator gets was the entry of its robot at some moment between its
\* question and the answer, although get_robot() sends it after it has unlocked the map.
THEOREM AnswersAreTrue == Spec => []AnswerWasTrue
<1>1. SeenInv => AnswerWasTrue
  BY DEF SeenInv, AnswerWasTrue, Handled
<1>2. Spec => []SeenInv
  BY TypeInit, TypeStep, WireInit, WireStep, SeenInit, SeenStep, PTL DEF Spec
<1> QED
  BY <1>1, <1>2, PTL
=============================================================================
