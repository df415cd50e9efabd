-------------------------- MODULE ComModuleProofs --------------------------
(***************************************************************************)
(* Proofs about ComModule, for any clients that put, get, send noise and    *)
(* close as they like, and for any bounds.                                  *)
(***************************************************************************)
EXTENDS ComModule, TLAPS

-----------------------------------------------------------------------------
(* Types.                                                                    *)

\* What a client sends beside puts and gets.
Words == Noise \cup Misnamed

Says(c, word) == Sends(c, word, 0) /\ UNCHANGED <<puts, floors>>

LEMMA Spoken ==
  ASSUME NEW c \in Clients
  PROVE  /\ \A noise \in Noise : SendNoise(c, noise) => \E w \in Words : Says(c, w)
         /\ SendRobotInfo(c) \/ RequestBroadcastInfo(c) => \E w \in Words : Says(c, w)
  BY DEF SendNoise, SendRobotInfo, RequestBroadcastInfo, Says, Words, Misnamed

LEMMA MessageTypes ==
  /\ \A n \in Nat : Message("put_robot_info", n) \in Messages /\ Message("get_robot_info", n) \in Messages
  /\ \A w \in Words : Message(w, 0) \in Messages
  /\ \A fn, info : Message(fn, info).fn = fn /\ Message(fn, info).info = info
  BY DEF Message, Messages, Functions, Words

LEMMA AnswerTypes ==
  /\ Error \in Answers /\ ~Error.ok /\ \A r \in Clients : Error.info[r] = 0
  /\ \A info \in Infos : Told(info) \in Answers /\ Told(info).ok /\ Told(info).info = info
  BY DEF Error, Told, Answers, Infos

LEMMA TypeInit == Init => TypeOK
<1> SUFFICES ASSUME Init PROVE TypeOK
  OBVIOUS
<1>1. [c \in Clients |-> 0] \in Infos /\ [c \in Clients |-> Error] \in [Clients -> Answers]
  BY AnswerTypes DEF Infos
<1> QED
  BY <1>1 DEF Init, TypeOK

LEMMA ServerTypes ==
  ASSUME TypeOK, NEW c \in Clients, Accept(c) \/ ThreadStep(c)
  PROVE  TypeOK'
<1> USE DEF TypeOK
<1>1. CASE Accept(c)
  BY <1>1 DEF Accept, clientVars
<1>2. CASE PutRobotInfo(c)
  <2>1. Head(inbox[c]).info \in Nat /\ Tail(inbox[c]) \in Seq(Messages)
    <3>1. inbox[c] \in Seq(Messages) /\ inbox[c] # <<>>
      BY <1>2 DEF PutRobotInfo, Calls
    <3>2. Head(inbox[c]) \in Messages
      BY <3>1
    <3>3. \A m \in Messages : m.info \in Nat
      BY DEF Messages
    <3>4. Tail(inbox[c]) \in Seq(Messages)
      BY <3>1
    <3> QED
      BY <3>2, <3>3, <3>4
  <2>2. robot_info' \in Infos /\ inbox' \in [Clients -> Seq(Messages)]
    BY <1>2, <2>1 DEF PutRobotInfo, Consume, Infos
  <2> QED
    BY <1>2, <2>2 DEF PutRobotInfo, clientVars
<1>3. CASE GetRobotInfo(c)
  <2>1. answer' \in [Clients -> Answers]
    BY <1>3, AnswerTypes DEF GetRobotInfo
  <2>2. inbox' \in [Clients -> Seq(Messages)]
    BY <1>3 DEF GetRobotInfo, Calls, Consume
  <2> QED
    BY <1>3, <2>1, <2>2 DEF GetRobotInfo, clientVars
<1>4. CASE Malformed(c)
  <2>1. answer' \in [Clients -> Answers]
    BY <1>4, AnswerTypes DEF Malformed
  <2> QED
    BY <1>4, <2>1 DEF Malformed, clientVars
<1>5. CASE Uncaught(c)
  BY <1>5 DEF Uncaught, clientVars
<1>6. CASE ReceiveEnds(c)
  BY <1>6 DEF ReceiveEnds, clientVars
<1>7. CASE SendAnswer(c)
  <2>1. replies' \in [Clients -> Seq(Answers)]
    <3>1. Append(replies[c], answer[c]) \in Seq(Answers)
      OBVIOUS
    <3> QED
      BY <1>7, <3>1 DEF SendAnswer
  <2>2. reset' \in [Clients -> BOOLEAN]
    BY <1>7 DEF SendAnswer
  <2>3. thread' \in [Clients -> {"none", "reading", "sending", "spinning", "done"}]
    BY <1>7 DEF SendAnswer
  <2>4. service' \in {"up", "uncaught", "accept_failed", "sigpipe"}
    BY <1>7 DEF SendAnswer
  <2> QED
    BY <1>7, <2>1, <2>2, <2>3, <2>4 DEF SendAnswer, clientVars
<1> QED
  BY <1>1, <1>2, <1>3, <1>4, <1>5, <1>6, <1>7 DEF ThreadStep

LEMMA ClientTypes ==
  ASSUME TypeOK, NEW c \in Clients,
         \/ ConnectClient(c) \/ Put(c) \/ Get(c)
         \/ RecvBroadcastInfo(c) \/ CloseClient(c) \/ \E w \in Words : Says(c, w),
         RecvBroadcastInfo(c) /\ Head(replies[c]).ok => floors[c] # <<>>
  PROVE  TypeOK'
<1> USE DEF TypeOK
<1>1. CASE ConnectClient(c)
  BY <1>1 DEF ConnectClient, serverVars
<1>2. CASE Put(c)
  <2>1. puts[c] + 1 \in Nat /\ sent[c] + 1 \in Nat
    BY DEF Infos
  <2>2. sent' \in Infos /\ puts' \in Infos
    BY <1>2, <2>1 DEF Put, Sends, Infos
  <2>3. inbox' \in [Clients -> Seq(Messages)]
    <3>1. Append(inbox[c], Message("put_robot_info", puts[c] + 1)) \in Seq(Messages)
      BY <2>1, MessageTypes
    <3> QED
      BY <1>2, <3>1 DEF Put, Sends
  <2> QED
    BY <1>2, <2>2, <2>3 DEF Put, Sends, serverVars
<1>3. CASE Get(c)
  <2>1. sent' \in Infos /\ [known EXCEPT ![c] = puts[c]] \in Infos
    <3>1. sent[c] + 1 \in Nat /\ puts[c] \in Nat
      BY DEF Infos
    <3> QED
      BY <1>3, <3>1 DEF Get, Sends, Infos
  <2>2. inbox' \in [Clients -> Seq(Messages)]
    <3>1. Append(inbox[c], Message("get_robot_info", 0)) \in Seq(Messages)
      BY MessageTypes
    <3> QED
      BY <1>3, <3>1 DEF Get, Sends
  <2>3. floors' \in [Clients -> Seq(Infos)]
    BY <1>3, <2>1 DEF Get, Sends
  <2> QED
    BY <1>3, <2>1, <2>2, <2>3 DEF Get, Sends, serverVars
<1>4. CASE RecvBroadcastInfo(c)
  <2>1. Head(replies[c]) \in Answers /\ replies[c] \in Seq(Answers) /\ replies[c] # <<>>
    BY <1>4 DEF RecvBroadcastInfo
  <2>2. replies' \in [Clients -> Seq(Answers)]
    BY <1>4, <2>1 DEF RecvBroadcastInfo
  <2>3. known' \in Infos
    <3>1. Head(replies[c]).info \in Infos
      BY <2>1 DEF Answers
    <3> QED
      BY <1>4, <3>1 DEF RecvBroadcastInfo, Infos
  <2>4. floors' \in [Clients -> Seq(Infos)]
    <3>1. Head(replies[c]).ok => Tail(floors[c]) \in Seq(Infos)
      BY <1>4
    <3> QED
      BY <1>4, <3>1 DEF RecvBroadcastInfo
  <2> QED
    BY <1>4, <2>2, <2>3, <2>4 DEF RecvBroadcastInfo, serverVars
<1>5. CASE CloseClient(c)
  BY <1>5 DEF CloseClient, serverVars
<1>6. ASSUME NEW w \in Words, Says(c, w) PROVE TypeOK'
  <2>1. sent' \in Infos
    <3>1. sent[c] + 1 \in Nat
      BY DEF Infos
    <3> QED
      BY <1>6, <3>1 DEF Says, Sends, Infos
  <2>2. inbox' \in [Clients -> Seq(Messages)]
    <3>1. Append(inbox[c], Message(w, 0)) \in Seq(Messages)
      BY MessageTypes
    <3> QED
      BY <1>6, <3>1 DEF Says, Sends
  <2> QED
    BY <1>6, <2>1, <2>2 DEF Says, Sends, serverVars
<1> QED
  BY <1>1, <1>2, <1>3, <1>4, <1>5, <1>6

-----------------------------------------------------------------------------
(* What is under way between a client and its thread.                        *)

Gets(c) == {i \in 1 .. Len(inbox[c]) : inbox[c][i].fn = "get_robot_info"}
Puts(c) == {i \in 1 .. Len(inbox[c]) : inbox[c][i].fn = "put_robot_info"}

\* The next receive_blocking() throws, now and for ever.
Stuck(c) == inbox[c] # <<>> /\ inbox[c][1].fn = "malformed"

\* The thread has a copy of the map to send.
Copied(c) == thread[c] = "sending" /\ answer[c].ok

\* The puts under way are in order, and the last of them is the last there was.
PutsInv(c) ==
    /\ robot_info[c] <= puts[c]
    /\ \A i \in Puts(c) : robot_info[c] <= inbox[c][i].info /\ inbox[c][i].info <= puts[c]
    /\ \A i, j \in Puts(c) : i < j => inbox[c][i].info <= inbox[c][j].info
    /\ puts[c] <= robot_info[c] \/ \E i \in Puts(c) : puts[c] <= inbox[c][i].info

\* When it is the turn of the get at i, the map has what its client relies on, the n-th of
\* its floors: it has it already, or a put before the get brings it.
FloorMet(c, i, n) ==
    /\ \A r \in Clients \ {c} : floors[c][n][r] <= robot_info[r]
    /\ \/ floors[c][n][c] <= robot_info[c]
       \/ \E j \in Puts(c) : j < i /\ floors[c][n][c] <= inbox[c][j].info

\* The first oks answers to c hold the map and the others are errors; the gets under way
\* belong, in order, to the floors that have no answer yet.
Aligned(c, oks, turn) ==
    LET answered == IF Copied(c) THEN oks + 1 ELSE oks
    IN  /\ \A k \in 1 .. Len(replies[c]) : replies[c][k].ok <=> k <= oks
        /\ oks < Len(replies[c]) => Stuck(c) /\ ~Copied(c)
        /\ answered <= Len(floors[c])
        /\ Copied(c) => Leq(floors[c][answered], answer[c].info)
        /\ \A i \in Gets(c) : answered < turn[i] /\ FloorMet(c, i, turn[i])
        /\ \A i, j \in Gets(c) : i < j => turn[i] < turn[j]
        /\ \A n \in answered + 1 .. Len(floors[c]) : \E i \in Gets(c) : turn[i] = n

AlignInv(c) ==
    conn[c] = "open" =>
      \E oks \in 0 .. Len(replies[c]), turn \in [Gets(c) -> 1 .. Len(floors[c])] :
        Aligned(c, oks, turn)

\* Nothing happens before the client connects; an error is sent only while the thread is
\* stuck; and a get that is under way has its floor.
FlowInv(c) ==
    /\ conn[c] = "none" => /\ thread[c] = "none" /\ inbox[c] = <<>> /\ replies[c] = <<>>
                           /\ floors[c] = <<>>
    /\ thread[c] = "sending" /\ ~answer[c].ok => Stuck(c)
    /\ Copied(c) \/ Gets(c) # {} => floors[c] # <<>>

\* No answer is ahead of the map, and the one under way is not behind those before it.
BelowInv(c) ==
    /\ known[c] <= robot_info[c] /\ Leq(answer[c].info, robot_info)
    /\ \A k \in 1 .. Len(replies[c]) :
         /\ Leq(replies[c][k].info, robot_info)
         /\ Copied(c) => Leq(replies[c][k].info, answer[c].info)

Fresh(c) == \A k \in 1 .. Len(replies[c]) :
              replies[c][k].ok => Leq(floors[c][k], replies[c][k].info)
Ascending(c) == \A k \in 2 .. Len(replies[c]) :
                  replies[c][k].ok => Leq(replies[c][k - 1].info, replies[c][k].info)

ClientInv(c) ==
    PutsInv(c) /\ AlignInv(c) /\ FlowInv(c) /\ BelowInv(c) /\ Fresh(c) /\ Ascending(c)

ComInv == TypeOK /\ \A c \in Clients : ClientInv(c)

\* The types that the arithmetic below needs.
LEMMA Numbers ==
  ASSUME TypeOK, NEW c \in Clients
  PROVE  /\ Len(inbox[c]) \in Nat /\ Len(replies[c]) \in Nat /\ Len(floors[c]) \in Nat
         /\ robot_info[c] \in Nat /\ known[c] \in Nat /\ puts[c] \in Nat
         /\ \A i \in 1 .. Len(inbox[c]) : inbox[c][i].info \in Nat /\ inbox[c][i] \in Messages
         /\ \A k \in 1 .. Len(replies[c]), r \in Clients : replies[c][k].info[r] \in Nat
         /\ \A k \in 1 .. Len(floors[c]), r \in Clients : floors[c][k][r] \in Nat
         /\ \A r \in Clients : answer[c].info[r] \in Nat
<1>1. inbox[c] \in Seq(Messages) /\ replies[c] \in Seq(Answers) /\ floors[c] \in Seq(Infos)
      /\ answer[c] \in Answers
  BY DEF TypeOK
<1>2. \A i \in 1 .. Len(inbox[c]) : inbox[c][i] \in Messages
  BY <1>1
<1>3. \A k \in 1 .. Len(replies[c]) : replies[c][k] \in Answers
  BY <1>1
<1>4. \A k \in 1 .. Len(floors[c]) : floors[c][k] \in Infos
  BY <1>1
<1>5. \A m \in Messages : m.info \in Nat
  BY DEF Messages
<1>6. \A a \in Answers, r \in Clients : a.info[r] \in Nat
  BY DEF Answers, Infos
<1>7. \A f \in Infos, r \in Clients : f[r] \in Nat
  BY DEF Infos
<1>8. robot_info[c] \in Nat /\ known[c] \in Nat /\ puts[c] \in Nat
  BY <1>7 DEF TypeOK
<1> QED
  BY <1>1, <1>2, <1>3, <1>4, <1>5, <1>6, <1>7, <1>8

LEMMA LeqTransitive ==
  ASSUME NEW f \in Infos, NEW g \in Infos, NEW h \in Infos, Leq(f, g), Leq(g, h)
  PROVE  Leq(f, h)
<1> SUFFICES ASSUME NEW r \in Clients PROVE f[r] <= h[r]
  BY DEF Leq
<1>1. f[r] \in Nat /\ g[r] \in Nat /\ h[r] \in Nat
  BY DEF Infos
<1>2. f[r] <= g[r] /\ g[r] <= h[r]
  BY DEF Leq
<1> QED
  BY <1>1, <1>2

\* A floor that is met stays met when the map grows.
LEMMA FloorKept ==
  ASSUME TypeOK, TypeOK', NEW c \in Clients, Leq(robot_info, robot_info'),
         inbox'[c] = inbox[c], floors'[c] = floors[c],
         NEW i \in Nat, NEW n \in 1 .. Len(floors[c]), FloorMet(c, i, n)
  PROVE  FloorMet(c, i, n)'
<1>1. \A r \in Clients : /\ floors[c][n][r] \in Nat /\ robot_info[r] \in Nat
                         /\ robot_info'[r] \in Nat /\ robot_info[r] <= robot_info'[r]
  <2>1. robot_info \in Infos /\ robot_info' \in Infos
    BY DEF TypeOK
  <2> QED
    BY <2>1, Numbers DEF Infos, Leq
<1>2. Puts(c)' = Puts(c)
  BY DEF Puts
<1> QED
  BY <1>1, <1>2 DEF FloorMet

\* A step that leaves the connection of d alone, while the map may grow.
LEMMA OtherClient ==
  ASSUME TypeOK, TypeOK', NEW d \in Clients, ClientInv(d),
         inbox'[d] = inbox[d], replies'[d] = replies[d], floors'[d] = floors[d],
         thread'[d] = thread[d], answer'[d] = answer[d],
         conn'[d] = conn[d] \/ conn'[d] = "closed", puts'[d] = puts[d],
         robot_info'[d] = robot_info[d], Leq(robot_info, robot_info'),
         known'[d] <= robot_info'[d]
  PROVE  ClientInv(d)'
<1>1. Gets(d)' = Gets(d) /\ Puts(d)' = Puts(d) /\ Stuck(d)' = Stuck(d) /\ Copied(d)' = Copied(d)
  BY DEF Gets, Puts, Stuck, Copied
<1>2. PutsInv(d)'
  BY <1>1 DEF ClientInv, PutsInv
<1>3. FlowInv(d)'
  BY <1>1 DEF ClientInv, FlowInv
<1>4. Fresh(d)' /\ Ascending(d)'
  BY DEF ClientInv, Fresh, Ascending, Leq
<1>5. BelowInv(d)'
  <2>1. robot_info \in Infos /\ robot_info' \in Infos /\ answer[d].info \in Infos
        /\ \A k \in 1 .. Len(replies[d]) : replies[d][k].info \in Infos
    <3>1. \A a \in Answers : a.info \in Infos
      BY DEF Answers
    <3>2. answer[d] \in Answers /\ \A k \in 1 .. Len(replies[d]) : replies[d][k] \in Answers
      BY DEF TypeOK
    <3> QED
      BY <3>1, <3>2 DEF TypeOK
  <2>2. /\ Leq(answer[d].info, robot_info)
        /\ \A k \in 1 .. Len(replies[d]) : Leq(replies[d][k].info, robot_info)
    BY DEF ClientInv, BelowInv
  <2>3. /\ Leq(answer[d].info, robot_info')
        /\ \A k \in 1 .. Len(replies[d]) : Leq(replies[d][k].info, robot_info')
    BY <2>1, <2>2, LeqTransitive
  <2>4. \A k \in 1 .. Len(replies[d]) : Copied(d) => Leq(replies[d][k].info, answer[d].info)
    BY DEF ClientInv, BelowInv
  <2> QED
    BY <1>1, <2>3, <2>4 DEF BelowInv, Leq
<1>6. AlignInv(d)'
  <2> SUFFICES ASSUME conn'[d] = "open"
               PROVE  \E oks \in 0 .. Len(replies'[d]), turn \in [Gets(d)' -> 1 .. Len(floors'[d])] :
                        Aligned(d, oks, turn)'
    BY DEF AlignInv
  <2>1. PICK oks \in 0 .. Len(replies[d]), turn \in [Gets(d) -> 1 .. Len(floors[d])] :
          Aligned(d, oks, turn)
    BY DEF ClientInv, AlignInv
  <2>2. ASSUME NEW i \in Gets(d) PROVE FloorMet(d, i, turn[i])'
    <3>1. i \in Nat /\ turn[i] \in 1 .. Len(floors[d])
      BY DEF Gets
    <3>2. FloorMet(d, i, turn[i])
      BY <2>1 DEF Aligned
    <3> QED
      BY <3>1, <3>2, FloorKept
  <2>3. Aligned(d, oks, turn)'
    BY <1>1, <2>1, <2>2 DEF Aligned, Leq
  <2> QED
    BY <1>1, <2>1, <2>3
<1> QED
  BY <1>2, <1>3, <1>4, <1>5, <1>6 DEF ClientInv

-----------------------------------------------------------------------------
(* The two ends of the inbox.                                                *)

LEMMA Appended ==
  ASSUME TypeOK, NEW c \in Clients, NEW m \in Messages, inbox'[c] = Append(inbox[c], m)
  PROVE  LET n == Len(inbox[c])
         IN  /\ n \in Nat /\ Len(inbox'[c]) = n + 1 /\ inbox'[c][n + 1] = m
             /\ \A i \in 1 .. n : inbox'[c][i] = inbox[c][i]
             /\ Gets(c)' = IF m.fn = "get_robot_info" THEN Gets(c) \cup {n + 1} ELSE Gets(c)
             /\ Puts(c)' = IF m.fn = "put_robot_info" THEN Puts(c) \cup {n + 1} ELSE Puts(c)
             /\ Stuck(c) => Stuck(c)'
<1> DEFINE n == Len(inbox[c])
<1>1. /\ n \in Nat /\ Len(inbox'[c]) = n + 1 /\ inbox'[c][n + 1] = m
      /\ \A i \in 1 .. n : inbox'[c][i] = inbox[c][i]
      /\ inbox'[c] # <<>> /\ (inbox[c] # <<>> => 1 \in 1 .. n)
  <2>1. inbox[c] \in Seq(Messages)
    BY DEF TypeOK
  <2> QED
    BY <2>1
<1>2. 1 .. n + 1 = (1 .. n) \cup {n + 1} /\ n + 1 \notin 1 .. n
  BY <1>1
<1>3. Stuck(c) => Stuck(c)'
  BY <1>1 DEF Stuck
<1> HIDE DEF n
<1>4. Gets(c)' = IF m.fn = "get_robot_info" THEN Gets(c) \cup {n + 1} ELSE Gets(c)
  BY <1>1, <1>2 DEF Gets, n
<1>5. Puts(c)' = IF m.fn = "put_robot_info" THEN Puts(c) \cup {n + 1} ELSE Puts(c)
  BY <1>1, <1>2 DEF Puts, n
<1> QED
  BY <1>1, <1>3, <1>4, <1>5 DEF n

LEMMA Consumed ==
  ASSUME TypeOK, NEW c \in Clients, inbox[c] # <<>>, inbox'[c] = Tail(inbox[c])
  PROVE  /\ 1 \in 1 .. Len(inbox[c]) /\ Head(inbox[c]) = inbox[c][1]
         /\ Gets(c)' = {i \in 1 .. Len(inbox[c]) - 1 : i + 1 \in Gets(c)}
         /\ Puts(c)' = {i \in 1 .. Len(inbox[c]) - 1 : i + 1 \in Puts(c)}
         /\ \A i \in 1 .. Len(inbox[c]) - 1 : inbox'[c][i] = inbox[c][i + 1]
         /\ \A i \in Gets(c) : i # 1 => i - 1 \in Gets(c)'
         /\ \A i \in Puts(c) : i # 1 => i - 1 \in Puts(c)'
<1>1. /\ Len(inbox[c]) \in Nat /\ Len(inbox'[c]) = Len(inbox[c]) - 1 /\ 1 \in 1 .. Len(inbox[c])
      /\ Head(inbox[c]) = inbox[c][1]
      /\ \A i \in 1 .. Len(inbox[c]) - 1 : inbox'[c][i] = inbox[c][i + 1] /\ i + 1 \in 1 .. Len(inbox[c])
  <2>1. inbox[c] \in Seq(Messages)
    BY DEF TypeOK
  <2> QED
    BY <2>1
<1>2. Gets(c)' = {i \in 1 .. Len(inbox[c]) - 1 : i + 1 \in Gets(c)}
  BY <1>1 DEF Gets
<1>3. Puts(c)' = {i \in 1 .. Len(inbox[c]) - 1 : i + 1 \in Puts(c)}
  BY <1>1 DEF Puts
<1>4. \A i \in 1 .. Len(inbox[c]) : i # 1 => i - 1 \in 1 .. Len(inbox[c]) - 1 /\ (i - 1) + 1 = i
  BY <1>1
<1>5. Gets(c) \subseteq 1 .. Len(inbox[c]) /\ Puts(c) \subseteq 1 .. Len(inbox[c])
  BY DEF Gets, Puts
<1> QED
  BY <1>1, <1>2, <1>3, <1>4, <1>5

\* What a client says beside puts and gets is taken for neither.
LEMMA NamesDiffer == \A w \in Words : w \notin Functions
  BY DEF Words, Noise, Misnamed, Functions

-----------------------------------------------------------------------------
(* The steps of one client and its thread.                                   *)

\* What c keeps when neither the map nor its answers change.
LEMMA AnswersKept ==
  ASSUME TypeOK, NEW c \in Clients, ClientInv(c),
         UNCHANGED <<robot_info, known>>, replies'[c] = replies[c], answer'[c] = answer[c],
         Copied(c)' => Copied(c), floors'[c] = floors[c] \/ replies[c] = <<>>
  PROVE  BelowInv(c)' /\ Fresh(c)' /\ Ascending(c)'
<1>1. BelowInv(c)'
  BY DEF ClientInv, BelowInv, Leq
<1>2. Ascending(c)'
  BY DEF ClientInv, Ascending, Leq
<1>3. Fresh(c)'
  <2>1. CASE floors'[c] = floors[c]
    BY <2>1 DEF ClientInv, Fresh, Leq
  <2>2. CASE replies[c] = <<>>
    BY <2>2 DEF Fresh
  <2> QED
    BY <2>1, <2>2
<1> QED
  BY <1>1, <1>2, <1>3

LEMMA ConnectStep ==
  ASSUME TypeOK, TypeOK', NEW c \in Clients, ClientInv(c), ConnectClient(c)
  PROVE  ClientInv(c)'
<1>1. /\ conn[c] = "none" /\ conn'[c] = "open"
      /\ UNCHANGED <<robot_info, thread, answer, inbox, replies, puts, known, floors>>
  BY DEF ConnectClient, serverVars, TypeOK
<1>2. /\ thread[c] = "none" /\ inbox[c] = <<>> /\ replies[c] = <<>> /\ floors[c] = <<>>
  BY <1>1 DEF ClientInv, FlowInv
<1>3. Gets(c) = {} /\ Gets(c)' = {} /\ Puts(c)' = Puts(c) /\ ~Copied(c)' /\ ~Copied(c)
  BY <1>1, <1>2 DEF Gets, Puts, Copied
<1>4. PutsInv(c)'
  BY <1>1, <1>3 DEF ClientInv, PutsInv
<1>5. FlowInv(c)'
  BY <1>1, <1>2, <1>3 DEF FlowInv
<1>6. AlignInv(c)'
  <2> DEFINE turn == [i \in {} |-> 1]
  <2>1. Len(replies'[c]) = 0 /\ Len(floors'[c]) = 0
    BY <1>1, <1>2
  <2>2. Aligned(c, 0, turn)'
    BY <1>1, <1>3, <2>1 DEF Aligned
  <2>3. turn \in [Gets(c)' -> 1 .. Len(floors'[c])] /\ 0 \in 0 .. Len(replies'[c])
    BY <1>3, <2>1
  <2> QED
    BY <2>2, <2>3 DEF AlignInv
<1> QED
  BY <1>1, <1>3, <1>4, <1>5, <1>6, AnswersKept DEF ClientInv

\* Appending a message that is no get.
LEMMA SendStep ==
  ASSUME TypeOK, TypeOK', NEW c \in Clients, ClientInv(c), NEW m \in Messages, m.fn # "get_robot_info",
         inbox'[c] = Append(inbox[c], m), conn[c] = "open",
         UNCHANGED <<robot_info, thread, answer, conn, replies, known, floors>>,
         PutsInv(c)'
  PROVE  ClientInv(c)'
<1> DEFINE n == Len(inbox[c])
<1>1. /\ n \in Nat /\ Gets(c)' = Gets(c) /\ Puts(c) \subseteq Puts(c)' /\ (Stuck(c) => Stuck(c)')
      /\ \A i \in Puts(c) : inbox'[c][i] = inbox[c][i]
  BY Appended DEF Puts
<1>2. Copied(c)' = Copied(c)
  BY DEF Copied
<1>3. FlowInv(c)'
  BY <1>1, <1>2 DEF ClientInv, FlowInv
<1>4. AlignInv(c)'
  <2>1. PICK oks \in 0 .. Len(replies[c]), turn \in [Gets(c) -> 1 .. Len(floors[c])] :
          Aligned(c, oks, turn)
    BY DEF ClientInv, AlignInv
  <2>2. ASSUME NEW i \in Gets(c) PROVE FloorMet(c, i, turn[i])'
    <3>1. FloorMet(c, i, turn[i])
      BY <2>1 DEF Aligned
    <3> QED
      BY <1>1, <3>1 DEF FloorMet
  <2>3. Aligned(c, oks, turn)'
    BY <1>1, <1>2, <2>1, <2>2 DEF Aligned, Leq
  <2> QED
    BY <1>1, <2>1, <2>3 DEF AlignInv
<1> QED
  BY <1>2, <1>3, <1>4, AnswersKept DEF ClientInv

LEMMA PutStep ==
  ASSUME TypeOK, TypeOK', NEW c \in Clients, ClientInv(c), Put(c)
  PROVE  ClientInv(c)'
<1> DEFINE m == Message("put_robot_info", puts[c] + 1)
           n == Len(inbox[c])
<1>1. /\ conn[c] = "open" /\ inbox'[c] = Append(inbox[c], m) /\ puts'[c] = puts[c] + 1
      /\ UNCHANGED <<robot_info, thread, answer, conn, replies, known, floors>>
  BY DEF Put, Sends, serverVars, TypeOK, Infos
<1>2. puts[c] \in Nat /\ robot_info[c] \in Nat /\ \A i \in 1 .. n : inbox[c][i].info \in Nat
  BY Numbers
<1>3. m \in Messages /\ m.fn = "put_robot_info" /\ m.fn # "get_robot_info" /\ m.info = puts[c] + 1
  BY <1>2, MessageTypes
<1> HIDE DEF m
<1>4. /\ n \in Nat /\ inbox'[c][n + 1] = m /\ Puts(c)' = Puts(c) \cup {n + 1}
      /\ \A i \in 1 .. n : inbox'[c][i] = inbox[c][i]
  BY <1>1, <1>3, Appended
<1>5. Puts(c) \subseteq 1 .. n
  BY DEF Puts
<1>6. \A i \in Puts(c) : robot_info[c] <= inbox[c][i].info /\ inbox[c][i].info <= puts[c]
  BY DEF ClientInv, PutsInv
<1>7. \A i, j \in Puts(c) : i < j => inbox[c][i].info <= inbox[c][j].info
  BY DEF ClientInv, PutsInv
<1>8. robot_info[c] <= puts[c]
  BY DEF ClientInv, PutsInv
<1> DEFINE info(i) == inbox'[c][i].info
<1>9. /\ info(n + 1) = puts[c] + 1
      /\ \A i \in Puts(c) : i <= n /\ i \in Nat /\ info(i) = inbox[c][i].info /\ info(i) \in Nat
  BY <1>2, <1>3, <1>4, <1>5
<1>10. PutsInv(c)'
  <2>1. \A i \in Puts(c) : robot_info[c] <= info(i) /\ info(i) <= puts[c]
    BY <1>6, <1>9
  <2>2. \A i, j \in Puts(c) : i < j => info(i) <= info(j)
    BY <1>7, <1>9
  <2> HIDE DEF info, n
  <2>3. \A i \in Puts(c)' : robot_info[c] <= info(i) /\ info(i) <= puts[c] + 1
    BY <1>2, <1>4, <1>8, <1>9, <2>1
  <2>4. \A i, j \in Puts(c)' : i < j => info(i) <= info(j)
    BY <1>2, <1>4, <1>9, <2>1, <2>2
  <2>5. n + 1 \in Puts(c)' /\ puts[c] + 1 <= info(n + 1) /\ robot_info[c] <= puts[c] + 1
    BY <1>2, <1>4, <1>8, <1>9
  <2> QED
    BY <1>1, <2>3, <2>4, <2>5 DEF PutsInv, info
<1> QED
  BY <1>1, <1>3, <1>10, SendStep

LEMMA SayStep ==
  ASSUME TypeOK, TypeOK', NEW c \in Clients, ClientInv(c), NEW w \in Words, Says(c, w)
  PROVE  ClientInv(c)'
<1> DEFINE m == Message(w, 0)
<1>1. /\ conn[c] = "open" /\ inbox'[c] = Append(inbox[c], m) /\ puts' = puts
      /\ UNCHANGED <<robot_info, thread, answer, conn, replies, known, floors>>
  BY DEF Says, Sends, serverVars, TypeOK
<1>2. m \in Messages /\ m.fn # "put_robot_info" /\ m.fn # "get_robot_info"
  BY MessageTypes, NamesDiffer DEF Functions
<1> HIDE DEF m
<1>3. Puts(c)' = Puts(c) /\ \A i \in Puts(c) : inbox'[c][i] = inbox[c][i]
  BY <1>1, <1>2, Appended DEF Puts
<1>4. PutsInv(c)'
  BY <1>1, <1>3 DEF ClientInv, PutsInv
<1> QED
  BY <1>1, <1>2, <1>4, SendStep

LEMMA GetStep ==
  ASSUME TypeOK, TypeOK', NEW c \in Clients, \A d \in Clients : ClientInv(d),
         Get(c)
  PROVE  ClientInv(c)'
<1> DEFINE m == Message("get_robot_info", 0)
           floor == [known EXCEPT ![c] = puts[c]]
<1>0. PICK n \in Nat, L \in Nat : n = Len(inbox[c]) /\ L = Len(floors[c])
  BY Numbers
<1>1. /\ conn[c] = "open" /\ inbox'[c] = Append(inbox[c], m)
      /\ floors'[c] = Append(floors[c], floor)
      /\ UNCHANGED <<robot_info, thread, answer, conn, replies, puts, known>>
  BY DEF Get, Sends, serverVars, TypeOK
<1>2. m \in Messages /\ m.fn # "put_robot_info" /\ m.fn = "get_robot_info"
  BY MessageTypes
<1> HIDE DEF m
<1>3. /\ n \in Nat /\ Gets(c)' = Gets(c) \cup {n + 1} /\ Puts(c)' = Puts(c) /\ (Stuck(c) => Stuck(c)')
      /\ \A i \in Puts(c) : inbox'[c][i] = inbox[c][i]
  BY <1>1, <1>2, <1>0, Appended DEF Puts
<1>4. Gets(c) \subseteq 1 .. n /\ Puts(c) \subseteq 1 .. n
  BY <1>0 DEF Gets, Puts
<1>5. /\ \A r \in Clients \ {c} : floor[r] = known[r]
      /\ floor[c] = puts[c]
  BY DEF TypeOK, Infos
<1>6. /\ L \in Nat /\ Len(floors'[c]) = L + 1 /\ floors'[c][L + 1] = floor
      /\ \A k \in 1 .. L : floors'[c][k] = floors[c][k]
  BY <1>1, <1>0 DEF TypeOK
<1>7. Copied(c)' = Copied(c)
  BY <1>1 DEF Copied
<1>8. PutsInv(c)'
  BY <1>1, <1>3 DEF ClientInv, PutsInv
<1>9. FlowInv(c)'
  <2>1. floors'[c] # <<>>
    BY <1>6
  <2> QED
    BY <1>1, <1>3, <1>7, <2>1 DEF ClientInv, FlowInv
<1>10. PICK oks \in 0 .. Len(replies[c]), turn \in [Gets(c) -> 1 .. L] : Aligned(c, oks, turn)
  BY <1>1, <1>0 DEF ClientInv, AlignInv
<1> HIDE DEF floor
<1>11. FloorMet(c, n + 1, L + 1)'
  <2>1. \A r \in Clients \ {c} : floor[r] <= robot_info[r]
    BY <1>5 DEF ClientInv, BelowInv
  <2>2. floor[c] <= robot_info[c] \/ \E j \in Puts(c) : floor[c] <= inbox[c][j].info
    BY <1>5 DEF ClientInv, PutsInv
  <2>3. \A j \in Puts(c) : j < n + 1
    BY <1>3, <1>4
  <2> QED
    BY <1>1, <1>3, <1>6, <2>1, <2>2, <2>3 DEF FloorMet
<1>12. ASSUME NEW i \in Gets(c) PROVE FloorMet(c, i, turn[i])'
  <2>1. FloorMet(c, i, turn[i]) /\ turn[i] \in 1 .. L
    BY <1>10 DEF Aligned
  <2>2. floors'[c][turn[i]] = floors[c][turn[i]]
    BY <1>6, <2>1
  <2> QED
    BY <1>1, <1>3, <2>1, <2>2 DEF FloorMet
<1>13. PICK later \in [Gets(c)' -> 1 .. Len(floors'[c])] :
         later = [i \in Gets(c) \cup {n + 1} |-> IF i = n + 1 THEN L + 1 ELSE turn[i]]
  <2>1. [i \in Gets(c) \cup {n + 1} |-> IF i = n + 1 THEN L + 1 ELSE turn[i]]
          \in [Gets(c)' -> 1 .. Len(floors'[c])]
    BY <1>3, <1>6, <1>10
  <2> QED
    BY <2>1, Zenon
<1>14. /\ later[n + 1] = L + 1 /\ n + 1 \notin Gets(c)
       /\ \A i \in Gets(c) : later[i] = turn[i] /\ turn[i] \in 1 .. L /\ i < n + 1
  BY <1>3, <1>4, <1>10, <1>13
<1> DEFINE answered == IF Copied(c) THEN oks + 1 ELSE oks
<1>15. /\ answered \in Nat /\ answered <= L /\ (Copied(c) => answered \in 1 .. L)
       /\ \A k \in 1 .. Len(replies[c]) : replies[c][k].ok <=> k <= oks
       /\ oks < Len(replies[c]) => Stuck(c) /\ ~Copied(c)
       /\ Copied(c) => Leq(floors[c][answered], answer[c].info)
       /\ \A i \in Gets(c) : answered < turn[i]
       /\ \A i, j \in Gets(c) : i < j => turn[i] < turn[j]
       /\ \A k \in answered + 1 .. L : \E i \in Gets(c) : turn[i] = k
  <2>1. oks \in Nat /\ L \in Nat /\ Len(floors[c]) = L
    BY <1>0, <1>10
  <2>2. answered \in Nat /\ answered <= L
    BY <1>10, <2>1 DEF Aligned
  <2>3. Copied(c) => answered \in 1 .. L
    BY <2>1, <2>2
  <2> QED
    BY <1>10, <2>1, <2>2, <2>3 DEF Aligned
<1>16. Copied(c) => Leq(floors'[c][answered], answer[c].info)
  BY <1>6, <1>15 DEF Leq
<1>17. Aligned(c, oks, later)'
  <2>1. answered <= L + 1
    BY <1>6, <1>15
  <2>2. \A i \in Gets(c)' : answered < later[i] /\ FloorMet(c, i, later[i])'
    <3>1. answered < L + 1
      BY <1>6, <1>15
    <3> HIDE DEF answered
    <3> QED
      BY <1>3, <1>11, <1>12, <1>14, <1>15, <3>1
  <2>3. \A i, j \in Gets(c)' : i < j => later[i] < later[j]
    <3>1. \A i \in Gets(c) : i \in Nat /\ i < n + 1 /\ later[i] < L + 1
      BY <1>3, <1>4, <1>6, <1>14
    <3> QED
      BY <1>3, <1>6, <1>14, <1>15, <3>1
  <2>4. \A k \in answered + 1 .. L + 1 : \E i \in Gets(c)' : later[i] = k
    <3>1. \A k \in answered + 1 .. L + 1 : k = L + 1 \/ k \in answered + 1 .. L
      BY <1>6, <1>15
    <3> HIDE DEF answered
    <3> QED
      BY <1>3, <1>14, <1>15, <3>1
  <2> QED
    BY <1>1, <1>3, <1>6, <1>7, <1>15, <1>16, <2>1, <2>2, <2>3, <2>4 DEF Aligned
<1>18. AlignInv(c)'
  BY <1>1, <1>10, <1>13, <1>17 DEF AlignInv
<1>19. BelowInv(c)' /\ Ascending(c)'
  BY <1>1, <1>7 DEF ClientInv, BelowInv, Ascending, Leq
<1>20. Fresh(c)'
  <2> SUFFICES ASSUME NEW k \in 1 .. Len(replies[c]), replies[c][k].ok
               PROVE  Leq(floors'[c][k], replies[c][k].info)
    BY <1>1 DEF Fresh
  <2>1. k \in 1 .. L
    <3>1. k <= oks /\ oks <= L
      BY <1>6, <1>10, <1>15
    <3> QED
      BY <1>6, <1>10, <3>1
  <2> QED
    BY <1>6, <2>1 DEF ClientInv, Fresh, Leq
<1> QED
  BY <1>8, <1>9, <1>18, <1>19, <1>20 DEF ClientInv

\* What a client is told is never ahead of the map.
LEMMA KnownBelow ==
  ASSUME TypeOK, \A d \in Clients : ClientInv(d), NEW c \in Clients, RecvBroadcastInfo(c)
  PROVE  \A d \in Clients : known'[d] <= robot_info[d]
<1> SUFFICES ASSUME NEW d \in Clients PROVE known'[d] <= robot_info[d]
  OBVIOUS
<1>1. known[d] <= robot_info[d]
  BY DEF ClientInv, BelowInv
<1>2. replies[c] # <<>> /\ replies[c] \in Seq(Answers)
  BY DEF RecvBroadcastInfo, TypeOK
<1>3. Head(replies[c]) = replies[c][1] /\ 1 \in 1 .. Len(replies[c])
  BY <1>2
<1>4. Head(replies[c]).info[d] <= robot_info[d]
  BY <1>3 DEF ClientInv, BelowInv, Leq
<1>5. known'[d] = known[d] \/ known'[d] = Head(replies[c]).info[d]
  BY DEF RecvBroadcastInfo
<1> QED
  BY <1>1, <1>4, <1>5

LEMMA RecvStep ==
  ASSUME TypeOK, TypeOK', NEW c \in Clients, \A d \in Clients : ClientInv(d), RecvBroadcastInfo(c)
  PROVE  ClientInv(c)'
<1>0. PICK R \in Nat, L \in Nat : R = Len(replies[c]) /\ L = Len(floors[c])
  BY Numbers
<1>1. /\ conn[c] = "open" /\ replies[c] # <<>> /\ replies'[c] = Tail(replies[c])
      /\ UNCHANGED <<robot_info, thread, answer, conn, inbox, puts>>
  BY DEF RecvBroadcastInfo, serverVars, TypeOK
<1>2. /\ R # 0 /\ Len(replies'[c]) = R - 1 /\ Head(replies[c]) = replies[c][1]
      /\ \A k \in 1 .. R - 1 : replies'[c][k] = replies[c][k + 1] /\ k + 1 \in 1 .. R
  <2>1. replies[c] \in Seq(Answers)
    BY DEF TypeOK
  <2> QED
    BY <1>0, <1>1, <2>1
<1>3. Gets(c)' = Gets(c) /\ Puts(c)' = Puts(c) /\ Stuck(c)' = Stuck(c) /\ Copied(c)' = Copied(c)
  BY <1>1 DEF Gets, Puts, Stuck, Copied
<1>4. PutsInv(c)'
  BY <1>1, <1>3 DEF ClientInv, PutsInv
<1>5. BelowInv(c)'
  <2>1. known'[c] <= robot_info[c]
    BY KnownBelow
  <2> QED
    BY <1>0, <1>1, <1>2, <1>3, <2>1 DEF ClientInv, BelowInv, Leq
<1>6. Ascending(c)'
  <2> SUFFICES ASSUME NEW k \in 2 .. R - 1, replies'[c][k].ok
               PROVE  Leq(replies'[c][k - 1].info, replies'[c][k].info)
    BY <1>2 DEF Ascending, Leq
  <2>1. k + 1 \in 2 .. R /\ k \in 1 .. R - 1 /\ k - 1 \in 1 .. R - 1 /\ (k - 1) + 1 = k /\ (k + 1) - 1 = k
    OBVIOUS
  <2>2. replies'[c][k] = replies[c][k + 1] /\ replies'[c][k - 1] = replies[c][k]
    BY <1>2, <2>1
  <2>3. Leq(replies[c][(k + 1) - 1].info, replies[c][k + 1].info)
    BY <1>0, <2>1, <2>2 DEF ClientInv, Ascending
  <2> QED
    BY <2>1, <2>2, <2>3
<1>7. PICK oks \in 0 .. R, turn \in [Gets(c) -> 1 .. L] : Aligned(c, oks, turn)
  BY <1>0, <1>1 DEF ClientInv, AlignInv
<1> DEFINE answered == IF Copied(c) THEN oks + 1 ELSE oks
<1>8. /\ answered \in Nat /\ answered <= L /\ (Copied(c) => answered \in 1 .. L)
      /\ \A k \in 1 .. R : replies[c][k].ok <=> k <= oks
      /\ oks < R => Stuck(c) /\ ~Copied(c)
      /\ Copied(c) => Leq(floors[c][answered], answer[c].info)
      /\ \A i \in Gets(c) : answered < turn[i] /\ FloorMet(c, i, turn[i])
      /\ \A i, j \in Gets(c) : i < j => turn[i] < turn[j]
      /\ \A k \in answered + 1 .. L : \E i \in Gets(c) : turn[i] = k
  BY <1>0, <1>7 DEF Aligned
<1>9. CASE ~replies[c][1].ok
  <2>1. oks = 0
    BY <1>2, <1>7, <1>8, <1>9
  <2>2. floors' = floors
    BY <1>2, <1>9 DEF RecvBroadcastInfo
  <2>3. \A k \in 1 .. R - 1 : ~replies'[c][k].ok
    <3>1. \A k \in 1 .. R - 1 : replies'[c][k].ok <=> k + 1 <= oks
      BY <1>2, <1>8
    <3> QED
      BY <2>1, <3>1
  <2>4. Fresh(c)'
    BY <1>2, <2>3 DEF Fresh
  <2>5. FlowInv(c)'
    BY <1>1, <1>3, <2>2 DEF ClientInv, FlowInv
  <2>6. ASSUME NEW i \in Gets(c) PROVE FloorMet(c, i, turn[i])'
    BY <1>1, <1>3, <1>8, <2>2 DEF FloorMet
  <2>7. Stuck(c) /\ ~Copied(c)
    BY <1>2, <1>8, <2>1
  <2>8. Aligned(c, oks, turn)'
    <3>1. \A k \in 1 .. R - 1 : replies'[c][k].ok <=> k <= oks
      BY <2>1, <2>3
    <3> QED
      BY <1>0, <1>1, <1>2, <1>3, <1>8, <2>2, <2>6, <2>7, <3>1 DEF Aligned
  <2>9. AlignInv(c)'
    BY <1>0, <1>2, <1>3, <1>7, <2>1, <2>2, <2>8 DEF AlignInv
  <2> QED
    BY <1>4, <1>5, <1>6, <2>4, <2>5, <2>9 DEF ClientInv
<1>10. CASE replies[c][1].ok
  <2>1. oks >= 1 /\ oks \in Nat /\ answered >= 1 /\ L >= 1
    BY <1>2, <1>7, <1>8, <1>10
  <2>2. floors'[c] = Tail(floors[c])
    BY <1>2, <1>10 DEF RecvBroadcastInfo, TypeOK
  <2>3. Len(floors'[c]) = L - 1 /\ \A k \in 1 .. L - 1 : floors'[c][k] = floors[c][k + 1]
    <3>1. floors[c] \in Seq(Infos) /\ floors[c] # <<>>
      BY <1>0, <2>1 DEF TypeOK
    <3> QED
      BY <1>0, <2>2, <3>1
  <2>4. Fresh(c)'
    <3> SUFFICES ASSUME NEW k \in 1 .. R - 1, replies'[c][k].ok
                 PROVE  Leq(floors'[c][k], replies'[c][k].info)
      BY <1>2 DEF Fresh
    <3>1. replies'[c][k] = replies[c][k + 1] /\ k + 1 \in 1 .. R /\ replies[c][k + 1].ok
      BY <1>2
    <3>2. k + 1 <= oks /\ oks <= L
      BY <1>7, <1>8, <3>1
    <3>3. floors'[c][k] = floors[c][k + 1]
      BY <1>7, <2>3, <3>2
    <3>4. Leq(floors[c][k + 1], replies[c][k + 1].info)
      BY <1>0, <3>1 DEF ClientInv, Fresh
    <3> QED
      BY <3>1, <3>3, <3>4
  <2>5. PICK later \in [Gets(c)' -> 1 .. Len(floors'[c])] : later = [i \in Gets(c) |-> turn[i] - 1]
    <3>1. \A i \in Gets(c) : turn[i] - 1 \in 1 .. L - 1
      BY <1>7, <1>8, <2>1
    <3>2. [i \in Gets(c) |-> turn[i] - 1] \in [Gets(c)' -> 1 .. Len(floors'[c])]
      BY <1>3, <2>3, <3>1
    <3> QED
      BY <3>2, Zenon
  <2>6. \A i \in Gets(c) : later[i] = turn[i] - 1 /\ turn[i] \in 2 .. L
    BY <1>7, <1>8, <2>1, <2>5
  <2>7. \A i \in Gets(c) : floors'[c][later[i]] = floors[c][turn[i]]
    BY <2>3, <2>6
  <2>8. ASSUME NEW i \in Gets(c) PROVE FloorMet(c, i, later[i])'
    BY <1>1, <1>3, <1>8, <2>7 DEF FloorMet
  <2>9. PICK less \in 0 .. R - 1 : less = oks - 1
    BY <1>7, <2>1
  <2>10. (IF Copied(c) THEN less + 1 ELSE less) = answered - 1
    BY <2>1, <2>9
  <2>11. Copied(c) => Leq(floors'[c][answered - 1], answer[c].info)
    <3>1. Copied(c) => answered - 1 \in 1 .. L - 1
      BY <1>8, <2>1
    <3>2. Copied(c) => floors'[c][answered - 1] = floors[c][answered]
      BY <1>8, <2>3, <3>1
    <3> QED
      BY <1>8, <3>2
  <2>12. Aligned(c, less, later)'
    <3>1. \A k \in 1 .. R - 1 : replies'[c][k].ok <=> k <= less
      <4>1. \A k \in 1 .. R - 1 : replies'[c][k].ok <=> k + 1 <= oks
        BY <1>2, <1>8
      <4>2. \A k \in 1 .. R - 1 : k + 1 <= oks <=> k <= less
        BY <1>7, <2>9
      <4> QED
        BY <4>1, <4>2
    <3>2. less < R - 1 => Stuck(c) /\ ~Copied(c)
      BY <1>8, <2>1, <2>9
    <3>3. answered - 1 <= L - 1
      BY <1>8
    <3>4. \A i \in Gets(c) : answered - 1 < later[i]
      BY <1>8, <2>6
    <3>5. \A i, j \in Gets(c) : i < j => later[i] < later[j]
      BY <1>8, <2>6
    <3>6. \A k \in (answered - 1) + 1 .. L - 1 : \E i \in Gets(c) : later[i] = k
      <4> SUFFICES ASSUME NEW k \in (answered - 1) + 1 .. L - 1
                   PROVE  \E i \in Gets(c) : later[i] = k
        OBVIOUS
      <4>1. k + 1 \in answered + 1 .. L /\ k \in Nat
        BY <1>8, <2>1
      <4>2. PICK i \in Gets(c) : turn[i] = k + 1
        BY <1>8, <4>1
      <4>3. later[i] = k
        BY <2>6, <4>1, <4>2
      <4> QED
        BY <4>3
    <3> HIDE DEF answered
    <3> QED
      BY <1>1, <1>2, <1>3, <2>3, <2>8, <2>10, <2>11, <3>1, <3>2, <3>3, <3>4, <3>5, <3>6 DEF Aligned
  <2>13. AlignInv(c)'
    BY <1>2, <2>5, <2>9, <2>12 DEF AlignInv
  <2>14. FlowInv(c)'
    <3>1. Copied(c) \/ Gets(c) # {} => L - 1 # 0
      BY <1>8, <2>1, <2>6
    <3>2. floors'[c] # <<>> \/ L - 1 = 0
      BY <2>3
    <3> QED
      BY <1>1, <1>3, <3>1, <3>2 DEF ClientInv, FlowInv
  <2> QED
    BY <1>4, <1>5, <1>6, <2>4, <2>13, <2>14 DEF ClientInv
<1> QED
  BY <1>9, <1>10

\* The head of the inbox has been acted on: the gets behind it keep their turns.
LEMMA PutRobotInfoStep ==
  ASSUME TypeOK, TypeOK', NEW c \in Clients, ClientInv(c), PutRobotInfo(c)
  PROVE  ClientInv(c)' /\ Leq(robot_info, robot_info')
<1>0. PICK n \in Nat : n = Len(inbox[c])
  BY Numbers
<1>1. /\ thread[c] = "reading" /\ inbox[c] # <<>> /\ inbox'[c] = Tail(inbox[c])
      /\ Head(inbox[c]).fn = "put_robot_info"
      /\ robot_info' = [robot_info EXCEPT ![c] = Head(inbox[c]).info]
      /\ UNCHANGED <<thread, answer, conn, replies, puts, known, floors>>
  BY DEF PutRobotInfo, Calls, Consume, clientVars, TypeOK
<1>2. /\ 1 \in 1 .. n /\ Head(inbox[c]) = inbox[c][1]
      /\ Gets(c)' = {i \in 1 .. n - 1 : i + 1 \in Gets(c)}
      /\ Puts(c)' = {i \in 1 .. n - 1 : i + 1 \in Puts(c)}
      /\ \A i \in 1 .. n - 1 : inbox'[c][i] = inbox[c][i + 1]
      /\ \A i \in Gets(c) : i # 1 => i - 1 \in Gets(c)'
      /\ \A i \in Puts(c) : i # 1 => i - 1 \in Puts(c)'
  BY <1>0, <1>1, Consumed
<1>3. inbox[c][1].fn = "put_robot_info" /\ inbox[c][1].fn # "get_robot_info" /\ inbox[c][1].fn # "malformed"
  <2>1. inbox[c][1] \in Messages
    BY <1>0, <1>2, Numbers
  <2> QED
    BY <1>1, <1>2, <2>1, NamesDiffer
<1>4. /\ 1 \in Puts(c) /\ 1 \notin Gets(c) /\ ~Stuck(c) /\ ~Copied(c) /\ ~Copied(c)'
      /\ Puts(c) \subseteq 1 .. n /\ Gets(c) \subseteq 1 .. n
  BY <1>0, <1>1, <1>2, <1>3 DEF Puts, Gets, Stuck, Copied
<1>5. PICK new \in Nat : new = inbox[c][1].info
  BY <1>0, <1>2, Numbers
<1>6. /\ robot_info'[c] = new /\ robot_info[c] <= new /\ robot_info[c] \in Nat
      /\ \A r \in Clients \ {c} : robot_info'[r] = robot_info[r] /\ robot_info[r] \in Nat
  BY <1>1, <1>2, <1>4, <1>5 DEF TypeOK, Infos, ClientInv, PutsInv
<1>7. Leq(robot_info, robot_info')
  BY <1>6 DEF Leq
<1>8. PutsInv(c)'
  <2>1. /\ new <= puts[c]
        /\ \A i \in Puts(c) : new <= inbox[c][i].info /\ inbox[c][i].info <= puts[c]
    <3>1. \A i \in Puts(c) : i # 1 => 1 < i
      BY <1>4
    <3>2. \A i \in Puts(c) : i # 1 => new <= inbox[c][i].info
      BY <1>4, <1>5, <3>1 DEF ClientInv, PutsInv
    <3> QED
      BY <1>4, <1>5, <3>2 DEF ClientInv, PutsInv
  <2>2. \A i \in Puts(c)' : i + 1 \in Puts(c) /\ inbox'[c][i] = inbox[c][i + 1] /\ i \in Nat
    BY <1>2
  <2>3. \A i, j \in Puts(c)' : i < j => inbox'[c][i].info <= inbox'[c][j].info
    BY <2>2 DEF ClientInv, PutsInv
  <2>4. puts[c] <= new \/ \E i \in Puts(c)' : puts[c] <= inbox'[c][i].info
    <3>1. CASE puts[c] <= robot_info[c]
      BY <1>6, <3>1, Numbers
    <3>2. ASSUME NEW i \in Puts(c), puts[c] <= inbox[c][i].info
          PROVE  puts[c] <= new \/ \E j \in Puts(c)' : puts[c] <= inbox'[c][j].info
      <4>1. CASE i = 1
        BY <1>5, <3>2, <4>1
      <4>2. CASE i # 1
        <5>1. i - 1 \in Puts(c)' /\ (i - 1) + 1 = i
          BY <1>2, <1>4, <4>2
        <5>2. inbox'[c][i - 1] = inbox[c][i]
          BY <2>2, <5>1
        <5> QED
          BY <3>2, <5>1, <5>2
      <4> QED
        BY <4>1, <4>2
    <3> QED
      BY <3>1, <3>2 DEF ClientInv, PutsInv
  <2> QED
    BY <1>1, <1>6, <2>1, <2>2, <2>3, <2>4 DEF PutsInv
<1>9. FlowInv(c)'
  <2>1. conn[c] # "none"
    BY <1>1 DEF ClientInv, FlowInv
  <2>2. Gets(c)' # {} => Gets(c) # {}
    BY <1>2
  <2> QED
    BY <1>1, <1>4, <2>1, <2>2 DEF ClientInv, FlowInv
<1>10. ASSUME NEW i \in Gets(c)', NEW k \in 1 .. Len(floors[c]), FloorMet(c, i + 1, k)
       PROVE  FloorMet(c, i, k)'
  <2>1. \A r \in Clients : floors[c][k][r] \in Nat
    BY Numbers
  <2>2. \A r \in Clients \ {c} : floors[c][k][r] <= robot_info'[r]
    BY <1>6, <1>10 DEF FloorMet
  <2>3. floors[c][k][c] <= robot_info'[c]
        \/ \E j \in Puts(c)' : j < i /\ floors[c][k][c] <= inbox'[c][j].info
    <3>1. CASE floors[c][k][c] <= robot_info[c]
      BY <1>6, <2>1, <3>1
    <3>2. ASSUME NEW j \in Puts(c), j < i + 1, floors[c][k][c] <= inbox[c][j].info
          PROVE  floors[c][k][c] <= robot_info'[c]
                 \/ \E h \in Puts(c)' : h < i /\ floors[c][k][c] <= inbox'[c][h].info
      <4>1. CASE j = 1
        BY <1>5, <1>6, <3>2, <4>1
      <4>2. CASE j # 1
        <5>1. j - 1 \in Puts(c)' /\ (j - 1) + 1 = j /\ j - 1 \in 1 .. n - 1 /\ j - 1 < i
          BY <1>2, <1>4, <3>2, <4>2
        <5>2. inbox'[c][j - 1] = inbox[c][j]
          BY <1>2, <5>1
        <5> QED
          BY <3>2, <5>1, <5>2
      <4> QED
        BY <4>1, <4>2
    <3> QED
      BY <1>10, <3>1, <3>2 DEF FloorMet
  <2> QED
    BY <1>1, <2>2, <2>3 DEF FloorMet
<1>11. AlignInv(c)'
  <2> SUFFICES ASSUME conn[c] = "open" PROVE AlignInv(c)'
    BY <1>1 DEF AlignInv
  <2>1. PICK oks \in 0 .. Len(replies[c]), turn \in [Gets(c) -> 1 .. Len(floors[c])] :
          Aligned(c, oks, turn)
    BY DEF ClientInv, AlignInv
  <2>2. \A i \in Gets(c)' : i + 1 \in Gets(c) /\ i \in Nat
    BY <1>2
  <2>3. PICK later \in [Gets(c)' -> 1 .. Len(floors'[c])] : later = [i \in Gets(c)' |-> turn[i + 1]]
    <3>1. [i \in Gets(c)' |-> turn[i + 1]] \in [Gets(c)' -> 1 .. Len(floors'[c])]
      BY <1>1, <2>1, <2>2
    <3> QED
      BY <3>1, Zenon
  <2>4. \A i \in Gets(c)' : later[i] = turn[i + 1] /\ later[i] \in 1 .. Len(floors[c])
    BY <1>1, <2>3
  <2>5. ASSUME NEW i \in Gets(c)' PROVE FloorMet(c, i, later[i])'
    <3>1. FloorMet(c, i + 1, later[i])
      BY <2>1, <2>2, <2>4 DEF Aligned
    <3> QED
      BY <1>10, <2>4, <3>1
  <2>6. \A k \in oks + 1 .. Len(floors[c]) : \E i \in Gets(c)' : later[i] = k
    <3> SUFFICES ASSUME NEW k \in oks + 1 .. Len(floors[c]) PROVE \E i \in Gets(c)' : later[i] = k
      OBVIOUS
    <3>1. PICK i \in Gets(c) : turn[i] = k
      BY <1>4, <2>1 DEF Aligned
    <3>2. i - 1 \in Gets(c)' /\ (i - 1) + 1 = i
      BY <1>2, <1>4
    <3> QED
      BY <2>4, <3>1, <3>2
  <2>7. \A i, j \in Gets(c)' : i < j => later[i] < later[j]
    <3> SUFFICES ASSUME NEW i \in Gets(c)', NEW j \in Gets(c)', i < j PROVE later[i] < later[j]
      OBVIOUS
    <3>1. i + 1 < j + 1 /\ i + 1 \in Gets(c) /\ j + 1 \in Gets(c)
      BY <2>2
    <3>2. turn[i + 1] < turn[j + 1]
      BY <2>1, <3>1 DEF Aligned
    <3> QED
      BY <2>4, <3>2
  <2>8. \A i \in Gets(c)' : oks < later[i]
    BY <1>4, <2>1, <2>2, <2>4 DEF Aligned
  <2>9. Aligned(c, oks, later)'
    <3>1. /\ \A k \in 1 .. Len(replies[c]) : replies[c][k].ok <=> k <= oks
          /\ ~(oks < Len(replies[c])) /\ oks <= Len(floors[c])
      BY <1>4, <2>1 DEF Aligned
    <3> QED
      BY <1>1, <1>4, <2>5, <2>6, <2>7, <2>8, <3>1 DEF Aligned
  <2> QED
    BY <1>1, <2>1, <2>3, <2>9 DEF AlignInv
<1>12. BelowInv(c)' /\ Fresh(c)' /\ Ascending(c)'
  <2>1. Fresh(c)' /\ Ascending(c)'
    BY <1>1 DEF ClientInv, Fresh, Ascending, Leq
  <2>2. known'[c] <= robot_info'[c]
    BY <1>1, <1>6, Numbers DEF ClientInv, BelowInv
  <2>3. /\ \A r \in Clients : answer[c].info[r] <= robot_info'[r]
        /\ \A k \in 1 .. Len(replies[c]), r \in Clients : replies[c][k].info[r] <= robot_info'[r]
    <3>1. /\ \A r \in Clients : answer[c].info[r] <= robot_info[r]
          /\ \A k \in 1 .. Len(replies[c]), r \in Clients : replies[c][k].info[r] <= robot_info[r]
      BY DEF ClientInv, BelowInv, Leq
    <3>2. \A r \in Clients : /\ robot_info[r] <= robot_info'[r] /\ robot_info[r] \in Nat
                             /\ robot_info'[r] \in Nat
      BY <1>6, <1>7 DEF Leq
    <3> QED
      <4>1. \A k \in 1 .. Len(replies[c]), r \in Clients : replies[c][k].info[r] \in Nat
        BY Numbers
      <4>2. \A r \in Clients : answer[c].info[r] \in Nat
        BY Numbers
      <4>3. \A l, m, k \in Nat : l <= m /\ m <= k => l <= k
        OBVIOUS
      <4>4. \A r \in Clients : answer[c].info[r] <= robot_info'[r]
        BY <3>1, <3>2, <4>2, <4>3
      <4>5. \A k \in 1 .. Len(replies[c]), r \in Clients : replies[c][k].info[r] <= robot_info'[r]
        BY <3>1, <3>2, <4>1, <4>3
      <4> QED
        BY <4>4, <4>5
  <2> QED
    BY <1>1, <1>4, <2>1, <2>2, <2>3 DEF BelowInv, Leq
<1> QED
  BY <1>7, <1>8, <1>9, <1>11, <1>12 DEF ClientInv

LEMMA GetRobotInfoStep ==
  ASSUME TypeOK, TypeOK', NEW c \in Clients, ClientInv(c), GetRobotInfo(c)
  PROVE  ClientInv(c)'
<1>0. PICK n \in Nat : n = Len(inbox[c])
  BY Numbers
<1>1. /\ thread[c] = "reading" /\ inbox[c] # <<>> /\ inbox'[c] = Tail(inbox[c])
      /\ Head(inbox[c]).fn = "get_robot_info"
      /\ answer'[c] = Told(robot_info) /\ thread'[c] = "sending"
      /\ UNCHANGED <<robot_info, conn, replies, puts, known, floors>>
  BY DEF GetRobotInfo, Calls, Consume, clientVars, TypeOK
<1>2. /\ 1 \in 1 .. n /\ Head(inbox[c]) = inbox[c][1]
      /\ Gets(c)' = {i \in 1 .. n - 1 : i + 1 \in Gets(c)}
      /\ Puts(c)' = {i \in 1 .. n - 1 : i + 1 \in Puts(c)}
      /\ \A i \in 1 .. n - 1 : inbox'[c][i] = inbox[c][i + 1]
      /\ \A i \in Gets(c) : i # 1 => i - 1 \in Gets(c)'
      /\ \A i \in Puts(c) : i # 1 => i - 1 \in Puts(c)'
  BY <1>0, <1>1, Consumed
<1>3. inbox[c][1].fn = "get_robot_info" /\ inbox[c][1].fn # "put_robot_info" /\ inbox[c][1].fn # "malformed"
  <2>1. inbox[c][1] \in Messages
    BY <1>0, <1>2, Numbers
  <2> QED
    BY <1>1, <1>2, <2>1, NamesDiffer
<1>4. /\ 1 \in Gets(c) /\ 1 \notin Puts(c) /\ ~Stuck(c) /\ ~Copied(c)
      /\ Puts(c) \subseteq 1 .. n /\ Gets(c) \subseteq 1 .. n
  BY <1>0, <1>1, <1>2, <1>3 DEF Puts, Gets, Stuck, Copied
<1>5. answer'[c].ok /\ answer'[c].info = robot_info /\ Copied(c)'
  BY <1>1, AnswerTypes DEF TypeOK, Copied
<1>6. \A j \in Puts(c) : j - 1 \in Puts(c)' /\ inbox'[c][j - 1] = inbox[c][j]
  <2>1. \A j \in Puts(c) : j # 1 /\ j - 1 \in 1 .. n - 1 /\ (j - 1) + 1 = j
    BY <1>4
  <2> QED
    BY <1>2, <2>1
<1>7. \A i \in Puts(c)' : i + 1 \in Puts(c) /\ inbox'[c][i] = inbox[c][i + 1] /\ i \in Nat
  BY <1>2
<1>8. PutsInv(c)'
  <2>1. puts[c] <= robot_info[c] \/ \E i \in Puts(c)' : puts[c] <= inbox'[c][i].info
    BY <1>6 DEF ClientInv, PutsInv
  <2>2. \A i, j \in Puts(c)' : i < j => inbox'[c][i].info <= inbox'[c][j].info
    BY <1>7 DEF ClientInv, PutsInv
  <2>3. \A i \in Puts(c)' : robot_info[c] <= inbox'[c][i].info /\ inbox'[c][i].info <= puts[c]
    BY <1>7 DEF ClientInv, PutsInv
  <2> QED
    BY <1>1, <2>1, <2>2, <2>3 DEF ClientInv, PutsInv
<1>9. FlowInv(c)'
  <2>1. conn[c] # "none"
    BY <1>1 DEF ClientInv, FlowInv
  <2>2. floors[c] # <<>>
    BY <1>4 DEF ClientInv, FlowInv
  <2> QED
    BY <1>1, <1>5, <2>1, <2>2 DEF FlowInv
<1>10. ASSUME NEW i \in Gets(c)', NEW k \in 1 .. Len(floors[c]), FloorMet(c, i + 1, k)
       PROVE  FloorMet(c, i, k)'
  <2>1. \A j \in Puts(c) : j < i + 1 => j - 1 < i
    BY <1>2, <1>4
  <2> QED
    BY <1>1, <1>6, <1>10, <2>1 DEF FloorMet
<1>11. AlignInv(c)'
  <2> SUFFICES ASSUME conn[c] = "open" PROVE AlignInv(c)'
    BY <1>1 DEF AlignInv
  <2>1. PICK oks \in 0 .. Len(replies[c]), turn \in [Gets(c) -> 1 .. Len(floors[c])] :
          Aligned(c, oks, turn)
    BY DEF ClientInv, AlignInv
  <2>2. /\ \A k \in 1 .. Len(replies[c]) : replies[c][k].ok <=> k <= oks
        /\ oks = Len(replies[c]) /\ oks \in Nat /\ oks <= Len(floors[c]) /\ Len(floors[c]) \in Nat
        /\ \A i \in Gets(c) : oks < turn[i] /\ turn[i] \in 1 .. Len(floors[c])
        /\ \A i \in Gets(c) : FloorMet(c, i, turn[i])
        /\ \A i, j \in Gets(c) : i < j => turn[i] < turn[j]
        /\ \A k \in oks + 1 .. Len(floors[c]) : \E i \in Gets(c) : turn[i] = k
    BY <1>4, <2>1, Numbers DEF Aligned
  <2>3. turn[1] = oks + 1
    <3>1. oks + 1 \in oks + 1 .. Len(floors[c])
      BY <1>4, <2>2
    <3>2. PICK i \in Gets(c) : turn[i] = oks + 1
      BY <2>2, <3>1
    <3>3. i = 1 \/ 1 < i
      BY <1>4
    <3>4. 1 < i => turn[1] < oks + 1
      BY <1>4, <2>2, <3>2
    <3> QED
      BY <1>4, <2>2, <3>2, <3>3, <3>4
  <2>4. \A r \in Clients : floors[c][oks + 1][r] <= robot_info[r]
    <3>1. FloorMet(c, 1, oks + 1)
      BY <1>4, <2>2, <2>3
    <3>2. \A j \in Puts(c) : ~(j < 1)
      BY <1>4
    <3> QED
      BY <3>1, <3>2 DEF FloorMet
  <2>5. \A i \in Gets(c)' : i + 1 \in Gets(c) /\ i \in Nat /\ 1 < i + 1
    BY <1>2
  <2>6. PICK later \in [Gets(c)' -> 1 .. Len(floors'[c])] : later = [i \in Gets(c)' |-> turn[i + 1]]
    <3>1. [i \in Gets(c)' |-> turn[i + 1]] \in [Gets(c)' -> 1 .. Len(floors'[c])]
      BY <1>1, <2>1, <2>5
    <3> QED
      BY <3>1, Zenon
  <2>7. \A i \in Gets(c)' : later[i] = turn[i + 1] /\ later[i] \in 1 .. Len(floors[c])
    BY <1>1, <2>6
  <2>8. ASSUME NEW i \in Gets(c)' PROVE FloorMet(c, i, later[i])'
    <3>1. FloorMet(c, i + 1, later[i])
      BY <2>2, <2>5, <2>7
    <3> QED
      BY <1>10, <2>7, <3>1
  <2>9. \A k \in (oks + 1) + 1 .. Len(floors[c]) : \E i \in Gets(c)' : later[i] = k
    <3> SUFFICES ASSUME NEW k \in (oks + 1) + 1 .. Len(floors[c])
                 PROVE  \E i \in Gets(c)' : later[i] = k
      OBVIOUS
    <3>1. k \in oks + 1 .. Len(floors[c]) /\ k # oks + 1
      BY <2>2
    <3>2. PICK i \in Gets(c) : turn[i] = k
      BY <2>2, <3>1
    <3>3. i # 1
      BY <2>3, <3>1, <3>2
    <3>4. i - 1 \in Gets(c)' /\ (i - 1) + 1 = i
      BY <1>2, <1>4, <3>3
    <3> QED
      BY <2>7, <3>2, <3>4
  <2>10. \A i, j \in Gets(c)' : i < j => later[i] < later[j]
    <3> SUFFICES ASSUME NEW i \in Gets(c)', NEW j \in Gets(c)', i < j PROVE later[i] < later[j]
      OBVIOUS
    <3>1. i + 1 < j + 1 /\ i + 1 \in Gets(c) /\ j + 1 \in Gets(c)
      BY <2>5
    <3>2. turn[i + 1] < turn[j + 1]
      BY <2>2, <3>1
    <3> QED
      BY <2>7, <3>2
  <2>11. \A i \in Gets(c)' : oks + 1 < later[i]
    BY <1>4, <2>2, <2>3, <2>5, <2>7
  <2>12. oks + 1 <= Len(floors[c])
    BY <1>4, <2>2, <2>3
  <2>13. Aligned(c, oks, later)'
    BY <1>1, <1>5, <2>2, <2>4, <2>8, <2>9, <2>10, <2>11, <2>12 DEF Aligned, Leq
  <2> QED
    BY <1>1, <2>1, <2>6, <2>13 DEF AlignInv
<1>12. BelowInv(c)' /\ Fresh(c)' /\ Ascending(c)'
  <2>1. Fresh(c)' /\ Ascending(c)'
    BY <1>1 DEF ClientInv, Fresh, Ascending, Leq
  <2>2. Leq(robot_info, robot_info)
    <3>1. \A r \in Clients : robot_info[r] \in Nat
      BY DEF TypeOK, Infos
    <3> QED
      BY <3>1 DEF Leq
  <2> QED
    BY <1>1, <1>5, <2>1, <2>2 DEF ClientInv, BelowInv, Leq
<1> QED
  BY <1>8, <1>9, <1>11, <1>12 DEF ClientInv

\* The thread moves, and nothing is received or delivered.
LEMMA ThreadMoves ==
  ASSUME TypeOK, TypeOK', NEW c \in Clients, ClientInv(c), conn[c] # "none",
         UNCHANGED <<robot_info, conn, inbox, replies, puts, known, floors>>,
         (Copied(c)' <=> Copied(c)) \/ (~Copied(c)' /\ conn[c] = "closed"),
         Copied(c)' => answer'[c] = answer[c],
         Leq(answer'[c].info, robot_info),
         thread'[c] = "sending" /\ ~answer'[c].ok => Stuck(c)
  PROVE  ClientInv(c)'
<1>1. Gets(c)' = Gets(c) /\ Puts(c)' = Puts(c) /\ Stuck(c)' = Stuck(c)
  BY DEF Gets, Puts, Stuck
<1>2. PutsInv(c)'
  BY <1>1 DEF ClientInv, PutsInv
<1>3. FlowInv(c)'
  BY <1>1 DEF ClientInv, FlowInv
<1>4. Fresh(c)' /\ Ascending(c)'
  BY DEF ClientInv, Fresh, Ascending, Leq
<1>5. BelowInv(c)'
  BY DEF ClientInv, BelowInv, Leq
<1>6. AlignInv(c)'
  <2> SUFFICES ASSUME conn[c] = "open" PROVE AlignInv(c)'
    BY DEF AlignInv
  <2>1. PICK oks \in 0 .. Len(replies[c]), turn \in [Gets(c) -> 1 .. Len(floors[c])] :
          Aligned(c, oks, turn)
    BY DEF ClientInv, AlignInv
  <2>2. ASSUME NEW i \in Gets(c) PROVE FloorMet(c, i, turn[i])'
    <3>1. FloorMet(c, i, turn[i])
      BY <2>1 DEF Aligned
    <3> QED
      BY <1>1, <3>1 DEF FloorMet
  <2>3. (Copied(c)' <=> Copied(c))
    OBVIOUS
  <2>4. Aligned(c, oks, turn)'
    BY <1>1, <2>1, <2>2, <2>3 DEF Aligned, Leq
  <2> QED
    BY <1>1, <2>1, <2>4 DEF AlignInv
<1> QED
  BY <1>2, <1>3, <1>4, <1>5, <1>6 DEF ClientInv

LEMMA AcceptStep ==
  ASSUME TypeOK, TypeOK', NEW c \in Clients, ClientInv(c), Accept(c) \/ ReceiveEnds(c)
  PROVE  ClientInv(c)'
<1>1. /\ conn[c] # "none" /\ thread[c] \in {"none", "reading"}
      /\ thread'[c] \in {"none", "reading", "done", "spinning"}
      /\ UNCHANGED <<robot_info, answer, conn, inbox, replies, puts, known, floors>>
  BY DEF Accept, ReceiveEnds, clientVars, TypeOK
<1>2. ~Copied(c) /\ ~Copied(c)'
  BY <1>1 DEF Copied
<1>3. Leq(answer'[c].info, robot_info)
  BY <1>1 DEF ClientInv, BelowInv
<1> QED
  BY <1>1, <1>2, <1>3, ThreadMoves

LEMMA MalformedStep ==
  ASSUME TypeOK, TypeOK', NEW c \in Clients, ClientInv(c), Malformed(c)
  PROVE  ClientInv(c)'
<1>1. /\ thread[c] = "reading" /\ inbox[c] # <<>> /\ Head(inbox[c]).fn = "malformed"
      /\ thread'[c] = "sending" /\ answer'[c] = Error
      /\ UNCHANGED <<robot_info, conn, inbox, replies, puts, known, floors>>
  BY DEF Malformed, Calls, clientVars, TypeOK
<1>2. conn[c] # "none"
  BY <1>1 DEF ClientInv, FlowInv
<1>3. Stuck(c)
  <2>1. Head(inbox[c]) = inbox[c][1]
    OBVIOUS
  <2> QED
    BY <1>1, <2>1 DEF Stuck
<1>4. ~Copied(c) /\ ~Copied(c)'
  BY <1>1, AnswerTypes DEF Copied
<1>5. Leq(answer'[c].info, robot_info)
  <2>1. \A r \in Clients : robot_info[r] \in Nat
    BY DEF TypeOK, Infos
  <2> QED
    BY <1>1, <2>1, AnswerTypes DEF Leq
<1> QED
  BY <1>1, <1>2, <1>3, <1>4, <1>5, ThreadMoves

LEMMA UncaughtStep ==
  ASSUME TypeOK, TypeOK', NEW c \in Clients, ClientInv(c), Uncaught(c)
  PROVE  ClientInv(c)'
<1>1. UNCHANGED <<robot_info, thread, answer, conn, inbox, replies, puts, known, floors>>
      /\ thread[c] = "reading"
  BY DEF Uncaught, Calls, clientVars
<1>2. (Copied(c)' <=> Copied(c)) /\ conn[c] # "none" /\ Leq(answer'[c].info, robot_info)
  BY <1>1 DEF Copied, ClientInv, FlowInv, BelowInv
<1> QED
  BY <1>1, <1>2, ThreadMoves

\* conn->send() to a client that is gone.
LEMMA SendToNobodyStep ==
  ASSUME TypeOK, TypeOK', NEW c \in Clients, ClientInv(c), SendAnswer(c), conn[c] = "closed"
  PROVE  ClientInv(c)'
<1>1. /\ UNCHANGED <<robot_info, answer, conn, inbox, replies, puts, known, floors>>
      /\ thread'[c] = "reading" \/ thread' = thread
      /\ thread[c] = "sending"
  BY DEF SendAnswer, clientVars, TypeOK
<1>3. Leq(answer'[c].info, robot_info) /\ (thread'[c] = "sending" /\ ~answer'[c].ok => Stuck(c))
  BY <1>1 DEF ClientInv, BelowInv, FlowInv
<1>4. (Copied(c)' <=> Copied(c)) \/ ~Copied(c)'
  BY <1>1 DEF Copied
<1> QED
  BY <1>1, <1>3, <1>4, ThreadMoves

\* The answer reaches the client: a copy of the map comes before any error.
LEMMA SendAnswerStep ==
  ASSUME TypeOK, TypeOK', NEW c \in Clients, ClientInv(c), SendAnswer(c), conn[c] = "open"
  PROVE  ClientInv(c)'
<1>0. PICK R \in Nat, L \in Nat : R = Len(replies[c]) /\ L = Len(floors[c])
  BY Numbers
<1>1. /\ UNCHANGED <<robot_info, answer, conn, inbox, puts, known, floors>>
      /\ thread[c] = "sending" /\ thread'[c] = "reading"
      /\ replies'[c] = Append(replies[c], answer[c])
  BY DEF SendAnswer, clientVars, TypeOK
<1>2. /\ Len(replies'[c]) = R + 1 /\ replies'[c][R + 1] = answer[c]
      /\ \A k \in 1 .. R : replies'[c][k] = replies[c][k]
  <2>1. replies[c] \in Seq(Answers) /\ answer[c] \in Answers
    BY DEF TypeOK
  <2> QED
    BY <1>0, <1>1, <2>1
<1>3. \A k \in 1 .. R + 1 : k \in 1 .. R \/ k = R + 1
  BY <1>0
<1>4. /\ Gets(c)' = Gets(c) /\ Puts(c)' = Puts(c) /\ Stuck(c)' = Stuck(c) /\ ~Copied(c)'
      /\ Copied(c) <=> answer[c].ok
  BY <1>1 DEF Gets, Puts, Stuck, Copied
<1>5. PICK oks \in 0 .. R, turn \in [Gets(c) -> 1 .. L] : Aligned(c, oks, turn)
  BY <1>0 DEF ClientInv, AlignInv
<1>6. PutsInv(c)'
  BY <1>1, <1>4 DEF ClientInv, PutsInv
<1>7. FlowInv(c)'
  BY <1>1, <1>4 DEF ClientInv, FlowInv
<1>8. BelowInv(c)'
  <2>1. \A k \in 1 .. R + 1 : \A r \in Clients : replies'[c][k].info[r] <= robot_info[r]
    BY <1>0, <1>2, <1>3 DEF ClientInv, BelowInv, Leq
  <2> QED
    BY <1>1, <1>2, <1>4, <2>1 DEF ClientInv, BelowInv, Leq
<1>9. Ascending(c)'
  <2> SUFFICES ASSUME NEW k \in 2 .. R + 1, replies'[c][k].ok
               PROVE  Leq(replies'[c][k - 1].info, replies'[c][k].info)
    BY <1>2 DEF Ascending, Leq
  <2>1. CASE k = R + 1
    <3>1. k - 1 \in 1 .. R /\ Copied(c)
      BY <1>2, <1>4, <2>1
    <3> QED
      BY <1>0, <1>2, <2>1, <3>1 DEF ClientInv, BelowInv
  <2>2. CASE k # R + 1
    <3>1. k \in 2 .. R /\ k \in 1 .. R /\ k - 1 \in 1 .. R
      BY <2>2
    <3> QED
      BY <1>0, <1>2, <3>1 DEF ClientInv, Ascending
  <2> QED
    BY <2>1, <2>2
<1> DEFINE answered == IF Copied(c) THEN oks + 1 ELSE oks
<1>10. /\ \A k \in 1 .. R : replies[c][k].ok <=> k <= oks
       /\ oks < R => Stuck(c) /\ ~Copied(c)
       /\ answered <= L
       /\ Copied(c) => Leq(floors[c][oks + 1], answer[c].info)
       /\ \A i \in Gets(c) : answered < turn[i] /\ FloorMet(c, i, turn[i])
       /\ \A i, j \in Gets(c) : i < j => turn[i] < turn[j]
       /\ \A n \in answered + 1 .. L : \E i \in Gets(c) : turn[i] = n
  BY <1>0, <1>5 DEF Aligned
<1>11. PICK now \in 0 .. R + 1 : now = answered
  BY <1>5
<1>12. /\ Copied(c) => oks = R /\ now = R + 1
       /\ ~Copied(c) => now = oks
  BY <1>5, <1>10, <1>11
<1>13. ~Copied(c) => Stuck(c)
  BY <1>1, <1>4 DEF ClientInv, FlowInv
<1> HIDE DEF answered
<1>14. Fresh(c)'
  <2> SUFFICES ASSUME NEW k \in 1 .. R + 1, replies'[c][k].ok
               PROVE  Leq(floors[c][k], replies'[c][k].info)
    BY <1>1, <1>2 DEF Fresh, Leq
  <2>1. CASE k = R + 1
    BY <1>2, <1>4, <1>10, <1>12, <2>1
  <2>2. CASE k \in 1 .. R
    BY <1>0, <1>2, <2>2 DEF ClientInv, Fresh
  <2> QED
    BY <1>3, <2>1, <2>2
<1>15. Aligned(c, now, turn)'
  <2>1. \A k \in 1 .. R + 1 : replies'[c][k].ok <=> k <= now
    <3> SUFFICES ASSUME NEW k \in 1 .. R + 1 PROVE replies'[c][k].ok <=> k <= now
      OBVIOUS
    <3>1. CASE k = R + 1
      <4>1. replies'[c][k].ok <=> Copied(c)
        BY <1>2, <1>4, <3>1
      <4> QED
        BY <1>5, <1>12, <3>1, <4>1
    <3>2. CASE k \in 1 .. R
      <4>1. replies'[c][k].ok <=> k <= oks
        BY <1>2, <1>10, <3>2
      <4> QED
        BY <1>5, <1>12, <3>2, <4>1
    <3> QED
      BY <1>3, <3>1, <3>2
  <2>2. now < R + 1 => Stuck(c)
    BY <1>12, <1>13
  <2>3. \A i \in Gets(c) : FloorMet(c, i, turn[i])'
    <3>1. \A i \in Gets(c) : FloorMet(c, i, turn[i])
      BY <1>10
    <3> QED
      BY <1>1, <1>4, <3>1 DEF FloorMet
  <2> QED
    BY <1>0, <1>1, <1>2, <1>4, <1>10, <1>11, <2>1, <2>2, <2>3 DEF Aligned
<1>16. AlignInv(c)'
  BY <1>0, <1>1, <1>2, <1>4, <1>5, <1>11, <1>15 DEF AlignInv
<1> QED
  BY <1>6, <1>7, <1>8, <1>9, <1>14, <1>16 DEF ClientInv

-----------------------------------------------------------------------------
(* The invariant.                                                            *)

LEMMA ComInit == Init => ComInv
<1> SUFFICES ASSUME Init PROVE ComInv
  OBVIOUS
<1>1. TypeOK
  BY TypeInit
<1>2. ASSUME NEW c \in Clients PROVE ClientInv(c)
  <2>1. /\ robot_info[c] = 0 /\ known[c] = 0 /\ puts[c] = 0 /\ thread[c] = "none"
        /\ conn[c] = "none" /\ answer[c] = Error
        /\ inbox[c] = <<>> /\ replies[c] = <<>> /\ floors[c] = <<>>
        /\ \A r \in Clients : robot_info[r] = 0
    BY DEF Init
  <2>2. Gets(c) = {} /\ Puts(c) = {} /\ ~Copied(c)
    BY <2>1 DEF Gets, Puts, Copied
  <2>3. PutsInv(c) /\ AlignInv(c) /\ FlowInv(c)
    BY <2>1, <2>2 DEF PutsInv, AlignInv, FlowInv
  <2>4. BelowInv(c)
    BY <2>1, <2>2, AnswerTypes DEF BelowInv, Leq
  <2>5. Fresh(c) /\ Ascending(c)
    BY <2>1 DEF Fresh, Ascending
  <2> QED
    BY <2>3, <2>4, <2>5 DEF ClientInv
<1> QED
  BY <1>1, <1>2 DEF ComInv

\* The client's end of its connection: what the clients do.
LEMMA ClientStep ==
  ASSUME ComInv, NEW c \in Clients,
         \/ ConnectClient(c) \/ Put(c) \/ Get(c)
         \/ RecvBroadcastInfo(c) \/ CloseClient(c) \/ \E w \in Words : Says(c, w)
  PROVE  ComInv'
<1>1. TypeOK /\ \A d \in Clients : ClientInv(d)
  BY DEF ComInv
<1>2. ASSUME RecvBroadcastInfo(c), Head(replies[c]).ok PROVE floors[c] # <<>>
  <2>1. conn[c] = "open" /\ replies[c] # <<>> /\ replies[c] \in Seq(Answers)
    BY <1>1, <1>2 DEF RecvBroadcastInfo, TypeOK
  <2>2. Head(replies[c]) = replies[c][1] /\ 1 \in 1 .. Len(replies[c])
    BY <2>1
  <2>3. PICK oks \in 0 .. Len(replies[c]), turn \in [Gets(c) -> 1 .. Len(floors[c])] :
          Aligned(c, oks, turn)
    BY <1>1, <2>1 DEF ClientInv, AlignInv
  <2>4. 1 <= oks /\ oks <= Len(floors[c])
    BY <1>2, <2>2, <2>3, <1>1, Numbers DEF Aligned
  <2> QED
    BY <2>4
<1>3. TypeOK'
  BY <1>1, <1>2, ClientTypes
<1> DEFINE Frame ==
      /\ UNCHANGED <<robot_info, thread, answer>>
      /\ \A d \in Clients \ {c} : /\ conn'[d] = conn[d] /\ inbox'[d] = inbox[d]
                                  /\ replies'[d] = replies[d] /\ floors'[d] = floors[d]
                                  /\ puts'[d] = puts[d]
<1>4. Frame
  <2> USE <1>1 DEF TypeOK
  <2>1. CASE ConnectClient(c)
    BY <2>1 DEF ConnectClient, serverVars
  <2>2. CASE Put(c)
    BY <2>2 DEF Put, Sends, serverVars, Infos
  <2>3. CASE Get(c)
    BY <2>3 DEF Get, Sends, serverVars
  <2>4. CASE RecvBroadcastInfo(c)
    BY <2>4 DEF RecvBroadcastInfo, serverVars
  <2>5. CASE CloseClient(c)
    BY <2>5 DEF CloseClient, serverVars
  <2>6. ASSUME NEW w \in Words, Says(c, w)
        PROVE  Frame
    BY <2>6 DEF Says, Sends, serverVars
  <2> QED
    BY <2>1, <2>2, <2>3, <2>4, <2>5, <2>6
<1>5. Leq(robot_info, robot_info')
  <2>1. \A r \in Clients : robot_info[r] \in Nat
    BY <1>1 DEF TypeOK, Infos
  <2> QED
    BY <1>4, <2>1 DEF Leq
<1>6. \A d \in Clients : known'[d] <= robot_info'[d]
  <2>1. CASE RecvBroadcastInfo(c)
    BY <1>1, <1>4, <2>1, KnownBelow
  <2>2. CASE ~RecvBroadcastInfo(c)
    <3>1. known' = known
      BY <2>2 DEF ConnectClient, Put, Get, Says, Sends, CloseClient
    <3> QED
      BY <1>1, <1>4, <3>1 DEF ClientInv, BelowInv
  <2> QED
    BY <2>1, <2>2
<1>7. ASSUME NEW d \in Clients, d # c PROVE ClientInv(d)'
  BY <1>1, <1>3, <1>4, <1>5, <1>6, <1>7, OtherClient
<1>8. ClientInv(c)'
  <2>1. CASE ConnectClient(c)
    BY <1>1, <1>3, <2>1, ConnectStep
  <2>2. CASE Put(c)
    BY <1>1, <1>3, <2>2, PutStep
  <2>3. CASE Get(c)
    BY <1>1, <1>3, <2>3, GetStep
  <2>4. CASE RecvBroadcastInfo(c)
    BY <1>1, <1>3, <2>4, RecvStep
  <2>5. CASE CloseClient(c)
    <3>1. /\ UNCHANGED <<robot_info, thread, answer, inbox, replies, puts, known, floors>>
          /\ conn'[c] = "closed"
      BY <1>1, <2>5 DEF CloseClient, serverVars, TypeOK
    <3> QED
      BY <1>1, <1>3, <1>5, <1>6, <3>1, OtherClient
  <2>6. ASSUME NEW w \in Words, Says(c, w) PROVE ClientInv(c)'
    BY <1>1, <1>3, <2>6, SayStep
  <2> QED
    BY <2>1, <2>2, <2>3, <2>4, <2>5, <2>6
<1> QED
  BY <1>3, <1>7, <1>8 DEF ComInv

\* What the broadcaster does for a connection.
LEMMA ServerStep ==
  ASSUME ComInv, NEW c \in Clients, Accept(c) \/ ThreadStep(c)
  PROVE  ComInv'
<1>1. TypeOK /\ \A d \in Clients : ClientInv(d)
  BY DEF ComInv
<1>2. TypeOK'
  BY <1>1, ServerTypes
<1>3. /\ UNCHANGED <<conn, puts, known, floors>>
      /\ \A d \in Clients \ {c} : /\ thread'[d] = thread[d] /\ answer'[d] = answer[d]
                                  /\ inbox'[d] = inbox[d] /\ replies'[d] = replies[d]
                                  /\ robot_info'[d] = robot_info[d]
  <2> USE <1>1 DEF TypeOK, clientVars
  <2>1. CASE Accept(c)
    BY <2>1 DEF Accept
  <2>2. CASE PutRobotInfo(c)
    BY <2>2 DEF PutRobotInfo, Consume, Infos
  <2>3. CASE GetRobotInfo(c)
    BY <2>3 DEF GetRobotInfo, Consume
  <2>4. CASE Malformed(c)
    BY <2>4 DEF Malformed
  <2>5. CASE Uncaught(c)
    BY <2>5 DEF Uncaught
  <2>6. CASE ReceiveEnds(c)
    BY <2>6 DEF ReceiveEnds
  <2>7. CASE SendAnswer(c)
    BY <2>7 DEF SendAnswer
  <2> QED
    BY <2>1, <2>2, <2>3, <2>4, <2>5, <2>6, <2>7 DEF ThreadStep
<1>4. ClientInv(c)' /\ Leq(robot_info, robot_info')
  <2>1. ASSUME robot_info' = robot_info PROVE Leq(robot_info, robot_info')
    <3>1. \A r \in Clients : robot_info[r] \in Nat
      BY <1>1 DEF TypeOK, Infos
    <3> QED
      BY <2>1, <3>1 DEF Leq
  <2>2. CASE Accept(c) \/ ReceiveEnds(c)
    <3>1. robot_info' = robot_info
      BY <2>2 DEF Accept, ReceiveEnds
    <3> QED
      BY <1>1, <1>2, <2>1, <2>2, <3>1, AcceptStep
  <2>3. CASE PutRobotInfo(c)
    BY <1>1, <1>2, <2>3, PutRobotInfoStep
  <2>4. CASE GetRobotInfo(c)
    <3>1. robot_info' = robot_info
      BY <2>4 DEF GetRobotInfo
    <3> QED
      BY <1>1, <1>2, <2>1, <2>4, <3>1, GetRobotInfoStep
  <2>5. CASE Malformed(c)
    <3>1. robot_info' = robot_info
      BY <2>5 DEF Malformed
    <3> QED
      BY <1>1, <1>2, <2>1, <2>5, <3>1, MalformedStep
  <2>6. CASE Uncaught(c)
    <3>1. robot_info' = robot_info
      BY <2>6 DEF Uncaught
    <3> QED
      BY <1>1, <1>2, <2>1, <2>6, <3>1, UncaughtStep
  <2>7. CASE SendAnswer(c)
    <3>1. robot_info' = robot_info /\ conn[c] \in {"open", "closed"}
      BY <2>7 DEF SendAnswer
    <3> QED
      BY <1>1, <1>2, <2>1, <2>7, <3>1, SendAnswerStep, SendToNobodyStep
  <2> QED
    BY <2>2, <2>3, <2>4, <2>5, <2>6, <2>7 DEF ThreadStep
<1>5. \A d \in Clients \ {c} : known'[d] <= robot_info'[d]
  BY <1>1, <1>3 DEF ClientInv, BelowInv
<1>6. ASSUME NEW d \in Clients, d # c PROVE ClientInv(d)'
  BY <1>1, <1>2, <1>3, <1>4, <1>5, <1>6, OtherClient
<1> QED
  BY <1>2, <1>4, <1>6 DEF ComInv

LEMMA ComStep == ComInv /\ [Next]_vars => ComInv'
<1> SUFFICES ASSUME ComInv, [Next]_vars PROVE ComInv'
  OBVIOUS
<1> USE ComModuleAssumption
<1>1. ASSUME NEW c \in Clients,
             \/ ConnectClient(c) \/ Put(c) \/ Get(c) \/ SendRobotInfo(c)
             \/ RequestBroadcastInfo(c) \/ RecvBroadcastInfo(c)
      PROVE  ComInv'
  BY <1>1, Spoken, ClientStep
<1>2. ASSUME NEW c \in Clients, Accept(c) \/ ThreadStep(c) PROVE ComInv'
  BY <1>2, ServerStep
<1>3. ASSUME NEW c \in Noisy, NEW noise \in Noise, SendNoise(c, noise) PROVE ComInv'
  BY <1>3, Spoken, ClientStep
<1>4. ASSUME NEW c \in Closing, CloseClient(c) PROVE ComInv'
  BY <1>4, ClientStep
<1>5. CASE UNCHANGED vars
  <2>1. UNCHANGED <<service, robot_info, thread, answer, orchestrators, conn, reset, inbox, replies, sent, puts,
                    known, floors>>
    BY <1>5 DEF vars, serverVars, clientVars
  <2>2. TypeOK'
    BY <2>1 DEF ComInv, TypeOK
  <2>3. Leq(robot_info, robot_info')
    <3>1. \A r \in Clients : robot_info[r] \in Nat
      BY DEF ComInv, TypeOK, Infos
    <3> QED
      BY <2>1, <3>1 DEF Leq
  <2>4. ASSUME NEW d \in Clients PROVE ClientInv(d)'
    <3>1. TypeOK /\ ClientInv(d) /\ known'[d] <= robot_info'[d]
      BY <2>1 DEF ComInv, ClientInv, BelowInv
    <3> QED
      BY <2>1, <2>2, <2>3, <3>1, OtherClient
  <2> QED
    BY <2>2, <2>4 DEF ComInv
<1> QED
  BY <1>1, <1>2, <1>3, <1>4, <1>5 DEF Next

\* What get_robot_info() answers is sound, whatever the clients send beside their puts and
\* gets: the answer has every put its client sent before the get and all that any client
\* had been told of by then, and no answer is older than the one before.
THEOREM AnswersAreSound == Spec => []AnswersSound
<1>1. ComInv => AnswersSound
  <2>1. ASSUME ComInv PROVE TypeOK /\ AnswersFresh /\ AnswersAscending
    BY <2>1 DEF ComInv, ClientInv, Fresh, Ascending, AnswersFresh, AnswersAscending
  <2> QED
    BY <2>1 DEF AnswersSound
<1> QED
  BY ComInit, ComStep, <1>1, PTL DEF Spec

\* What has ended the process is the fault of c.
Rude(c) ==
    \/ inbox[c] # <<>> /\ Head(inbox[c]).fn \in {"unknown", "bad_info"} \cup Misnamed
    \/ conn[c] = "closed" /\ (floors[c] # <<>> \/ \E k \in 1 .. Len(inbox[c]) :
                                                    inbox[c][k].fn = "malformed")

\* What ends the process, unless it is a failing accept(), is a message it does not know,
\* as the first one of an Orchestrator, or the SIGPIPE of an answer to a client that closed
\* too early.  A client that does neither never ends it for the others.
THEOREM OnlyRudeClientsDo == Spec => []OnlyRudeClientsEndIt
<1>1. OnlyRudeClientsEndIt <=> (service \notin {"up", "accept_failed"} => \E c \in Clients : Rude(c))
  BY DEF OnlyRudeClientsEndIt, Rude
<1>2. Init => OnlyRudeClientsEndIt
  BY DEF Init, OnlyRudeClientsEndIt
<1>3. ComInv /\ OnlyRudeClientsEndIt /\ [Next]_vars => OnlyRudeClientsEndIt'
  <2> SUFFICES ASSUME ComInv, OnlyRudeClientsEndIt, [Next]_vars,
                      service' \notin {"up", "accept_failed"}
               PROVE  \E c \in Clients : Rude(c)'
    BY DEF OnlyRudeClientsEndIt, Rude
  <2>1. ASSUME NEW c \in Clients, Uncaught(c) PROVE Rude(c)'
    <3>1. inbox' = inbox /\ inbox[c] # <<>>
          /\ Head(inbox[c]).fn \in {"unknown", "bad_info"} \cup Misnamed
      BY <2>1 DEF Uncaught, Calls
    <3> QED
      BY <3>1 DEF Rude
  <2>2. ASSUME NEW c \in Clients, SendAnswer(c), service = "up" PROVE Rude(c)'
    <3>1. /\ conn[c] = "closed" /\ thread[c] = "sending"
          /\ UNCHANGED <<conn, inbox, floors>>
      BY <2>2 DEF SendAnswer, clientVars
    <3>2. Copied(c) \/ Stuck(c)
      BY <3>1 DEF ComInv, ClientInv, FlowInv, Copied
    <3>3. CASE Copied(c)
      <4>1. floors[c] # <<>>
        BY <3>3 DEF ComInv, ClientInv, FlowInv
      <4> QED
        BY <3>1, <4>1 DEF Rude
    <3>4. CASE Stuck(c)
      <4>1. inbox[c] \in Seq(Messages) /\ inbox[c] # <<>> /\ inbox[c][1].fn = "malformed"
        BY <3>4 DEF ComInv, TypeOK, Stuck
      <4>2. 1 \in 1 .. Len(inbox[c])
        BY <4>1
      <4> QED
        BY <3>1, <4>1, <4>2 DEF Rude
    <3> QED
      BY <3>2, <3>3, <3>4
  <2>3. CASE service # "up"
    <3>1. PICK c \in Clients : Rude(c)
      <4>1. service' = service
        BY <2>3, ComModuleAssumption
        DEF Next, ConnectClient, Put, Get, SendRobotInfo, RequestBroadcastInfo, SendNoise, Sends,
            RecvBroadcastInfo, CloseClient, Accept, ThreadStep, PutRobotInfo, GetRobotInfo,
            Malformed, Uncaught, Calls, ReceiveEnds, SendAnswer, vars, serverVars
      <4> QED
        BY <1>1, <2>3, <4>1
    <3>2. inbox' = inbox /\ (conn[c] = "closed" => conn'[c] = "closed" /\ floors'[c] = floors[c])
      <4>1. ASSUME NEW d \in Clients, RecvBroadcastInfo(d) PROVE <3>2
        BY <4>1 DEF RecvBroadcastInfo, ComInv, TypeOK
      <4>2. ASSUME NEW d \in Clients, CloseClient(d) PROVE <3>2
        BY <4>2 DEF CloseClient, ComInv, TypeOK
      <4>3. CASE UNCHANGED vars
        BY <4>3 DEF vars, clientVars
      <4>4. \/ \E d \in Clients : RecvBroadcastInfo(d) \/ CloseClient(d)
            \/ UNCHANGED vars
        BY <2>3, ComModuleAssumption
        DEF Next, ConnectClient, Put, Get, SendRobotInfo, RequestBroadcastInfo, SendNoise, Sends, Accept, ThreadStep,
            PutRobotInfo, GetRobotInfo, Malformed, Uncaught, Calls, ReceiveEnds, SendAnswer
      <4> QED
        BY <4>1, <4>2, <4>3, <4>4
    <3>3. Rude(c)'
      BY <3>1, <3>2 DEF Rude
    <3> QED
      BY <3>3
  <2>4. CASE service = "up"
    <3>1. \E c \in Clients : Uncaught(c) \/ SendAnswer(c)
      <4>1. ASSUME NEW c \in Clients,
                   ConnectClient(c) \/ Put(c) \/ Get(c)
                   \/ RecvBroadcastInfo(c) \/ CloseClient(c)
                   \/ \E w \in Words : Says(c, w)
            PROVE  FALSE
        BY <2>4, <4>1 DEF ConnectClient, Put, Get, RecvBroadcastInfo, CloseClient, Says, Sends, serverVars
      <4>2. ASSUME NEW c \in Clients,
                   Accept(c) \/ PutRobotInfo(c) \/ GetRobotInfo(c) \/ Malformed(c) \/ ReceiveEnds(c)
            PROVE  FALSE
        BY <2>4, <4>2 DEF Accept, PutRobotInfo, GetRobotInfo, Malformed, ReceiveEnds
      <4>3. ~UNCHANGED vars
        BY <2>4 DEF vars, serverVars
      <4> QED
        BY <4>1, <4>2, <4>3, Spoken, ComModuleAssumption DEF Next, ThreadStep
    <3> QED
      BY <2>1, <2>2, <2>4, <3>1
  <2> QED
    BY <2>3, <2>4
<1> QED
  BY ComInit, ComStep, <1>2, <1>3, PTL DEF Spec
=============================================================================
