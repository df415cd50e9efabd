---------------------------- MODULE WorldParser ----------------------------
(***************************************************************************)
(* The Webots world file parser (wbt-translator/src/webots_parser.cpp).    *)
(* It reads words and reacts to a few of them; a brace, a name or a node   *)
(* it does not know is only another word, so that nothing tells it where   *)
(* the node it is reading ends.                                            *)
(*                                                                         *)
(* A world file is a sequence of tokens: a word, and for the words that    *)
(* name a field the numbers that follow it: an id, the x and z of a        *)
(* translation (its y is never used), the ids of an adjList.  NotANumber   *)
(* stands for something that stoi() or stod() refuses.                     *)
(***************************************************************************)
EXTENDS Integers, Sequences, FiniteSets

CONSTANTS
  WorldFiles,     \* the world files to be read
  NotANumber      \* a model value

NodeWords == {"Waypoint", "Station", "Endpoint"}
Fields    == {"translation", "id", "adjList"}

VARIABLES
  file,        \* the world file
  pos,         \* position of the next token
  waypoint,    \* the waypoint being read: its type and the fields read so far
  ast,         \* AST::nodes: waypoints by id
  robots,      \* Parser::number_of_robots
  parse        \* "top": between waypoints; "waypoint": in parse_waypoint();
               \* "parsed"; "malformed", "invalid_argument": the exception that
               \* left the parser

parserVars == <<file, pos, waypoint, ast, robots, parse>>

NoWaypoint == <<>>

ParserInit ==
  /\ file \in WorldFiles
  /\ pos = 1
  /\ waypoint = NoWaypoint
  /\ ast = <<>>
  /\ robots = 0
  /\ parse = "top"

(* The word under the reading position, if there is one.                   *)
AtWord(W) == pos <= Len(file) /\ file[pos].word \in W

(* The keyword decides the WaypointType.                                   *)
waypointType(word) ==
  CASE word = "Waypoint" -> "via"
    [] word = "Station"  -> "station"
    [] word = "Endpoint" -> "endpoint"

(* parse_stream() meets a waypoint and calls parse_waypoint().             *)
BeginWaypoint ==
  /\ parse = "top"
  /\ AtWord(NodeWords)
  /\ waypoint' = [type |-> waypointType(file[pos].word)]
  /\ parse' = "waypoint"
  /\ pos' = pos + 1
  /\ UNCHANGED <<file, ast, robots>>

CountRobot ==
  /\ parse = "top"
  /\ AtWord({"Elisa3"})
  /\ robots' = robots + 1
  /\ pos' = pos + 1
  /\ UNCHANGED <<file, waypoint, ast, parse>>

(* A word that means nothing where it stands: at the top, everything but a *)
(* waypoint or a robot; in a waypoint, everything but the three fields.    *)
SkipWord ==
  /\ pos <= Len(file)
  /\ \/ parse = "top"      /\ ~ AtWord(NodeWords \cup {"Elisa3"})
     \/ parse = "waypoint" /\ ~ AtWord(Fields)
  /\ pos' = pos + 1
  /\ UNCHANGED <<file, waypoint, ast, robots, parse>>

(* A map with one more key: Assign() is operator[], Insert() is insert(),   *)
(* which leaves a key alone that is there already.                         *)
Assign(map, key, value) ==
  [k \in DOMAIN map \cup {key} |-> IF k = key THEN value ELSE map[k]]
Insert(map, key, value) ==
  [k \in DOMAIN map \cup {key} |-> IF k \in DOMAIN map THEN map[k] ELSE value]

(* An adjList needs at least one number: stoi("") throws.                  *)
Readable(token) ==
  /\ token.value # NotANumber
  /\ token.word = "adjList" => token.value # <<>>

(* parse_id(), parse_translation(), parse_adjlist().                       *)
Value(token) == IF token.word = "id" THEN token.value[1] ELSE token.value

(* Seeded fault: the map assigns, so that the last waypoint with an id     *)
(* wins.                                                                   *)
ReadFieldOverwrites ==
  /\ parse = "waypoint"
  /\ AtWord(Fields)
  /\ Readable(file[pos])
  /\ LET read == Assign(waypoint, file[pos].word, Value(file[pos]))
     IN  IF Fields \subseteq DOMAIN read
         THEN /\ ast' = Assign(ast, read.id, read)
              /\ waypoint' = NoWaypoint
              /\ parse' = "top"
         ELSE /\ waypoint' = read
              /\ UNCHANGED <<ast, parse>>
  /\ pos' = pos + 1
  /\ UNCHANGED <<file, robots>>

(* A field of the waypoint; the third different one completes it, and the  *)
(* map keeps the first waypoint with an id (std::map::insert).             *)
ReadField ==
  /\ parse = "waypoint"
  /\ AtWord(Fields)
  /\ Readable(file[pos])
  /\ LET read == Assign(waypoint, file[pos].word, Value(file[pos]))
     IN  IF Fields \subseteq DOMAIN read
         THEN /\ ast' = Insert(ast, read.id, read)
              /\ waypoint' = NoWaypoint
              /\ parse' = "top"
         ELSE /\ waypoint' = read
              /\ UNCHANGED <<ast, parse>>
  /\ pos' = pos + 1
  /\ UNCHANGED <<file, robots>>

(* A value that is not a number: parse_adjlist() turns the exception into  *)
(* a MalformedWorldFileError, the other two let it through.                *)
ReadGarbage ==
  /\ parse = "waypoint"
  /\ AtWord(Fields)
  /\ ~ Readable(file[pos])
  /\ parse' = IF file[pos].word = "adjList" THEN "malformed" ELSE "invalid_argument"
  /\ pos' = pos + 1
  /\ UNCHANGED <<file, waypoint, ast, robots>>

(* read_token() throws at the end of the stream: parse_stream() takes that *)
(* as the end, parse_waypoint() as an error.                               *)
EndOfStream ==
  /\ pos > Len(file)
  /\ \/ parse = "top"      /\ parse' = "parsed"
     \/ parse = "waypoint" /\ parse' = "malformed"
  /\ UNCHANGED <<file, pos, waypoint, ast, robots>>

ParserNext ==
  BeginWaypoint \/ CountRobot \/ SkipWord \/ ReadField \/ ReadGarbage \/ EndOfStream

-----------------------------------------------------------------------------
(* What a reader of the file understands by it: a node reaches from its    *)
(* word to the word of the next node, and its fields are those in between. *)

Nodes(words) == {p \in DOMAIN file : file[p].word \in words}

FieldsOf(p, f) ==
  {q \in DOMAIN file : /\ q > p
                       /\ file[q].word = f
                       /\ \A r \in (p + 1) .. q : r \notin Nodes(NodeWords \cup {"Elisa3"})}

(* Every waypoint has each field once.                                     *)
Complete == \A p \in Nodes(NodeWords), f \in Fields : Cardinality(FieldsOf(p, f)) = 1

AllReadable ==
  \A p \in Nodes(NodeWords), f \in Fields : \A q \in FieldsOf(p, f) : Readable(file[q])

Field(p, f) == Value(file[CHOOSE q \in FieldsOf(p, f) : TRUE])

(* A complete file is read as it is written, in whatever order its fields  *)
(* stand and whatever nodes stand between: each id gets the fields of the  *)
(* first waypoint that claims it, and every robot is counted.              *)
ParsesFile ==
  Complete /\ parse = "parsed" =>
    /\ DOMAIN ast = {Field(p, "id") : p \in Nodes(NodeWords)}
    /\ robots = Cardinality(Nodes({"Elisa3"}))
    /\ \A p \in Nodes(NodeWords) :
         LET id == Field(p, "id") IN
         (\A q \in Nodes(NodeWords) : q < p => Field(q, "id") # id) =>
           /\ ast[id].type = waypointType(file[p].word)
           /\ \A f \in Fields : ast[id][f] = Field(p, f)
=============================================================================
