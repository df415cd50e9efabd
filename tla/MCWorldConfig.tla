--------------------------- MODULE MCWorldConfig ---------------------------
EXTENDS WorldConfig

(* Corners of a rectangle of 4.5 by 6: its diagonal is 7.5.                *)
Corner == <<<<0, 0>>, <<45, 0>>, <<45, 60>>, <<0, 60>>>>

Token(word, value) == [word |-> word, value |-> value]
Brace == Token("}", <<>>)
IdOf(id) == Token("id", <<id>>)
PlaceOf(id) == Token("translation", Corner[(id % 4) + 1])
AdjOf(ids) == Token("adjList", ids)

WaypointNode(word, id, adj) ==
  <<Token(word, <<>>), PlaceOf(id), AdjOf(adj), IdOf(id), Brace>>
RobotNode == <<Token("Elisa3", <<>>), PlaceOf(1), Brace>>

(* Ascending sequences of ids.                                             *)
Ascending == << <<>>, <<0>>, <<1>>, <<0, 1>>, <<2>>, <<0, 2>>, <<1, 2>>, <<0, 1, 2>>,
                <<3>>, <<0, 3>>, <<1, 3>>, <<2, 3>>, <<0, 1, 3>>, <<0, 2, 3>>, <<1, 2, 3>> >>
Adjs(S) == {adj \in {Ascending[p] : p \in 2 .. 15} : \A p \in DOMAIN adj : adj[p] \in S}

(* Three waypoints: every type, every directed graph without isolated ones.*)
Three ==
  {WaypointNode(w[0], 0, a) \o WaypointNode(w[1], 1, b) \o RobotNode \o WaypointNode(w[2], 2, c) :
     w \in [0 .. 2 -> NodeWords], a \in Adjs({1, 2}), b \in Adjs({0, 2}), c \in Adjs({0, 1})}

(* Four waypoints, with at most two edges out of each: two types.          *)
Four ==
  {WaypointNode("Station", 3, d) \o WaypointNode("Station", 2, c) \o
   WaypointNode("Waypoint", 1, b) \o WaypointNode("Station", 0, a) :
     a \in {<<1>>, <<2>>, <<3>>, <<1, 3>>}, b \in {<<0>>, <<2>>, <<3>>, <<0, 2>>},
     c \in {<<0>>, <<1>>, <<3>>}, d \in {<<0>>, <<1>>, <<2>>, <<0, 2>>}}

(* Fields in other orders, twice, missing, unreadable; ids twice, with     *)
(* gaps; edges to nowhere; nothing at all.                                 *)
Fields3(word, f, g, h) == <<Token(word, <<>>), f, g, h>>
Odd ==
  LET good == WaypointNode("Station", 1, <<0>>) IN
  {<<>>, RobotNode, <<PlaceOf(0), IdOf(0)>>,
   Fields3("Station", AdjOf(<<1>>), IdOf(0), PlaceOf(0)) \o RobotNode \o good \o RobotNode,
   Fields3("Endpoint", IdOf(0), Brace, PlaceOf(0)) \o <<AdjOf(<<1>>)>> \o good,
   Fields3("Station", IdOf(0), IdOf(0), PlaceOf(0)) \o <<AdjOf(<<1>>)>> \o good,
   Fields3("Station", IdOf(0), PlaceOf(0), Brace) \o RobotNode \o good,
   Fields3("Station", IdOf(0), AdjOf(<<1>>), Brace) \o RobotNode \o good,
   Fields3("Station", IdOf(0), PlaceOf(0), AdjOf(<<>>)) \o good,
   Fields3("Station", IdOf(0), PlaceOf(0), AdjOf(NotANumber)) \o good,
   Fields3("Station", Token("id", NotANumber), PlaceOf(0), AdjOf(<<1>>)) \o good,
   Fields3("Station", IdOf(0), Token("translation", NotANumber), AdjOf(<<1>>)) \o good,
   good \o Fields3("Station", IdOf(0), PlaceOf(0), Brace),
   good, good \o WaypointNode("Station", 3, <<1>>),
   good \o WaypointNode("Station", 0, <<2>>), good \o WaypointNode("Waypoint", 0, <<0, 1>>),
   good \o WaypointNode("Endpoint", 1, <<3>>) \o WaypointNode("Station", 0, <<1>>)}

MCWorldFiles == Three \cup Four \cup Odd
=============================================================================
