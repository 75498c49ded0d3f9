------------------------------ MODULE RrGraph ------------------------------
(* The routing graph library (utils/lib/rr_graph/graph.py): the nodes and   *)
(* edges of a graph, the names of nodes at a position, and the channels.    *)
(* A node's number in the sequence is its id plus one.  Timing, capacity    *)
(* and metadata are left out, and so is the order of the edges.             *)
EXTENDS Integers, Sequences, FiniteSets, TLC, TrackChannels
LOCAL INSTANCE SequencesExt

CONSTANT GridSize

(* The channels end one place before the block grid does.                   *)
ChannelSize == <<GridSize[1] - 1, GridSize[2] - 1>>

ASSUME GridSizeAssumption == GridSize \in (Nat \ {0}) \X (Nat \ {0})

EmptyGraph ==
  [nodes |-> <<>>, edges |-> {}, names |-> [n \in {} |-> 0], tracks |-> {}, raised |-> FALSE]

Shift(pos, offset) == <<pos[1] + offset[1], pos[2] + offset[2]>>

Node(type, low, high, ptc) == [type |-> type, low |-> low, high |-> high, ptc |-> ptc]

CreateNode(g, node) == [g EXCEPT !.nodes = Append(@, node)]

Newest(g) == Len(g.nodes)

(* MappingLocalNames.add: a name at a place is of one node for ever.         *)
AddName(g, pos, name, id) ==
  IF <<pos, name>> \in DOMAIN g.names
  THEN [g EXCEPT !.raised = @ \/ g.names[<<pos, name>>] # id]
  ELSE [g EXCEPT !.names = (<<pos, name>> :> id) @@ @]

HasName(g, pos, name) == <<pos, name>> \in DOMAIN g.names

Tracks == {"CHANX", "CHANY"}

(* RoutingGraph._is_valid.                                                   *)
ValidEdge(from, to) ==
  \/ from = "IPIN" /\ to = "SINK"
  \/ from = "SOURCE" /\ to = "OPIN"
  \/ from \in {"OPIN"} \union Tracks /\ to \in {"IPIN"} \union Tracks

(* An edge goes both ways when it is asked to and the way back is valid.     *)
CreateEdge(g, from, to, switch, bidir) ==
  LET a == g.nodes[from].type
      b == g.nodes[to].type
  IN  IF ~ValidEdge(a, b) THEN [g EXCEPT !.raised = TRUE]
      ELSE [g EXCEPT !.edges =
              @ \union {<<from, to, switch>>}
                \union {<<to, from, switch>> : both \in {TRUE} \cap {bidir /\ ValidEdge(b, a)}}]

CreateTrack(g, type, low, high) ==
  IF ~CanCreate(ChannelSize, type, low, high) THEN [g EXCEPT !.raised = TRUE]
  ELSE LET ptc == FirstFit(g.tracks, type, low, high)
           made == CreateNode(g, Node(type, low, high, ptc))
       IN  [made EXCEPT !.tracks = @ \union {Track(type, low, high, ptc, Newest(made))}]

(* One node for the class and one for its pin, with the edge that joins them: *)
(* the class spans the block, the pin is where its metadata puts it.          *)
CreatePin(g, block, pin, offset) ==
  LET at == Shift(block.pos, offset)
      top == <<block.pos[1] + block.size[1] - 1, block.pos[2] + block.size[2] - 1>>
      output == pin.dir = "OUTPUT"
      class == CreateNode(g, Node(IF output THEN "SOURCE" ELSE "SINK", block.pos, top, pin.ptc))
      made == CreateNode(class, Node(IF output THEN "OPIN" ELSE "IPIN", at, at, pin.ptc))
      named == AddName(made, at, pin.name, Newest(made))
  IN  IF output THEN CreateEdge(named, Newest(class), Newest(made), "delayless", FALSE)
      ELSE CreateEdge(named, Newest(made), Newest(class), "delayless", FALSE)

(* What a graph is once its file is read again: the nodes and the edges are   *)
(* those of the file, only pins have names, and the channels are rebuilt from *)
(* the nodes.                                                                 *)
TracksIn(nodes) ==
  {Track(nodes[i].type, nodes[i].low, nodes[i].high, nodes[i].ptc, i) :
     i \in {j \in DOMAIN nodes : nodes[j].type \in Tracks}}

PinAt(blocks, node) ==
  LET block == CHOOSE b \in blocks :
                 node.low \in SpanOf(b.pos, Shift(b.pos, <<b.size[1] - 1, b.size[2] - 1>>))
  IN  CHOOSE p \in ToSet(block.pins) : p.ptc = node.ptc

FromFile(blocks, nodes, edges) ==
  LET pins == {i \in DOMAIN nodes : nodes[i].type \in {"IPIN", "OPIN"}}
      Key(i) == <<nodes[i].low, PinAt(blocks, nodes[i]).name>>
      tracks == TracksIn(nodes)
  IN  [nodes |-> nodes, edges |-> edges,
       names |-> [key \in {Key(i) : i \in pins} |-> CHOOSE i \in pins : Key(i) = key],
       tracks |-> tracks,
       raised |-> ~CanPlaceAll(tracks, ChannelSize)]

(* check_graph.py walks over the edges from a node, one layer after another,  *)
(* and says which of the targets it has not met.                              *)
Walk[edges \in SUBSET (Nat \X Nat), layer \in SUBSET Nat, visited \in SUBSET Nat] ==
  LET next == {e[2] : e \in {f \in edges : f[1] \in layer}} \ visited
  IN  IF layer = {} THEN visited ELSE Walk[edges, next, visited \union next]

Inaccessible(edges, node, targets) == targets \ Walk[edges, {node}, {}]
=============================================================================
