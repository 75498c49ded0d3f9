----------------------------- MODULE EdgeImport -----------------------------
(***************************************************************************)
(* create_and_insert_edges and mark_track_liveness of                      *)
(* prjxray_edge_library.py: tile by tile, every pip becomes edges between  *)
(* the graph nodes of the two nodes it joins; site pins get a wire node    *)
(* between them and the pip; edges go to the database in batches; tracks   *)
(* that no route can use are then marked dead and not imported.            *)
(*                                                                         *)
(* Nodes, pips and tiles are the database's; what names say is in the kind *)
(* of a node.  Where a pip meets a track of several graph nodes the place  *)
(* decides which of them it joins: here, any.  Of the coordinates of pins  *)
(* only that a side is found is kept.  The tables of constant ties are     *)
(* empty, and the loop over them is left out.                              *)
(***************************************************************************)
EXTENDS Integers, Sequences, FiniteSets

CONSTANTS
  Nodes,      \* rows of node
  Kind,       \* what each is: "track", "opin", "ipin", or "none" without graph nodes
  Segments,   \* for each track, how many graph nodes it has
  Joints,     \* for each track, its track_connections: pairs of those
  SiteTile,   \* for each pin, the tile of its site_wire_pkey
  NumTiles,   \* tile locations, visited from 1 to NumTiles
  Layouts,    \* the sets of pips to start from, with the reserved nodes
  Batch       \* edges are committed when there are more than this

ASSUME ImportAssumption ==
  /\ IsFiniteSet(Nodes)
  /\ Kind \in [Nodes -> {"track", "opin", "ipin", "none"}]
  /\ Segments \in [Nodes -> Nat \ {0}]
  /\ \A n \in Nodes : Joints[n] \subseteq (1 .. Segments[n]) \X (1 .. Segments[n])
  /\ SiteTile \in [Nodes -> 1 .. NumTiles]
  /\ NumTiles \in Nat /\ Batch \in Nat
  /\ \A l \in Layouts : \A p \in l.pips :
       p.tile \in 1 .. NumTiles /\ p.from \in Nodes /\ p.to \in Nodes

VARIABLES
  pips,         \* the pips of the device
  input_only,   \* input_only_nodes
  output_only,  \* output_only_nodes
  tile,         \* the tile being visited
  left,         \* its sorted pips not yet connected: pairs of forward and pip
  cached,       \* the wires, pairs of tile and node, that find_connector knows
  made,         \* for each pin, the number of wire nodes made for it
  shared,       \* site_pin_graph_node_pkey of its site wire, 0 for NULL
  edges,        \* the edges not yet committed
  graph_edge,   \* the edges committed
  alive,        \* the tracks marked alive
  pc            \* "tiles", "marked" or "raised"

graph == <<pips, input_only, output_only>>
vars == <<graph, tile, left, cached, made, shared, edges, graph_edge, alive, pc>>

Pins == {n \in Nodes : Kind[n] \in {"opin", "ipin"}}
Tracks == {n \in Nodes : Kind[n] = "track"}

(* Graph nodes: <<n, 0>> is the node of pin n, <<n, 1>> and on are the     *)
(* nodes of track n, or the wire nodes of pin n, each a track of its own.  *)
(* An edge without a pip is a short in a track, or joins a pin and a wire  *)
(* node.                                                                   *)
TrackOf(g) == IF Kind[g[1]] = "track" THEN g[1] ELSE g

Edge(src, dst, ps, at) == [src |-> src, dst |-> dst, pip |-> ps, tile |-> at]

(* insert_tracks joins graph nodes of a track, both ways.                  *)
Shorts ==
  UNION {{Edge(<<n, k[1]>>, <<n, k[2]>>, {}, 0) :
            k \in {l \in (1 .. Segments[n]) \X (1 .. Segments[n]) :
                     l \in Joints[n] \/ <<l[2], l[1]>> \in Joints[n]}} : n \in Tracks}

(* make_sorted_pips: a pip that is not directional is there twice.         *)
SortedPips(t) ==
  {<<TRUE, p>> : p \in {q \in pips : q.tile = t}} \union
  {<<FALSE, p>> : p \in {q \in pips : q.tile = t /\ ~q.directional}}

Init ==
  /\ \E l \in Layouts : pips = l.pips /\ input_only = l.input /\ output_only = l.output
  /\ tile = 1
  /\ left = SortedPips(1)
  /\ cached = {}
  /\ made = [n \in Pins |-> 0]
  /\ shared = [n \in Pins |-> 0]
  /\ edges = {}
  /\ graph_edge = Shorts
  /\ alive = {}
  /\ pc = "tiles"

(* make_connection skips a pip for its two ends, whichever way it is taken.*)
Reserved(p) == p.from \in input_only \/ p.to \in output_only

(* find_connector asserts that the graph nodes of a pin are all pins.  Its *)
(* cache holds more wires than a tile has, so what was found for a pip of  *)
(* a tile is still there for the next.                                     *)
Unsound(n) == n \in Pins /\ <<tile, n>> \notin cached /\ made[n] > 0

(* The sink is looked up only when the source has a connector.             *)
LookedUp(p) == {p.from} \union (IF Kind[p.from] = "none" THEN {} ELSE {p.to})

(* find_wire_node: the wire node recorded on the site wire, or a new one.  *)
WireNode(n) == <<n, IF shared[n] # 0 THEN shared[n] ELSE made[n] + 1>>

(* Mutant of Recorded: the new wire node is not recorded.                  *)
Recorded_Never(n) == shared

(* A new wire node is looked up on the site wire but recorded on the wire  *)
(* of the pip.                                                             *)
Recorded(n) ==
  IF shared[n] = 0 /\ tile = SiteTile[n] THEN [shared EXCEPT ![n] = made[n] + 1] ELSE shared

MakeWireNode(n) ==
  /\ made' = IF shared[n] = 0 THEN [made EXCEPT ![n] = @ + 1] ELSE made
  /\ shared' = Recorded(n)

(* What connect_at joins: each side a track or a pin, pins to be driven    *)
(* being inputs, and the two pins of a pseudo pip the other way round.     *)
Joins(s, d, p) ==
  \/ Kind[s] = "track" /\ Kind[d] \in {"track", "ipin"}
  \/ Kind[s] = "opin" /\ Kind[d] = "track"
  \/ Kind[s] = "opin" /\ Kind[d] = "ipin" /\ ~p.pseudo
  \/ Kind[s] = "ipin" /\ Kind[d] = "opin" /\ p.pseudo /\ shared[s] # 0 /\ shared[d] # 0

(* connect_at: the edges of a pip from node s to node d.                   *)
ConnectAt(s, d, p) ==
  \/ /\ Kind[s] = "track" /\ Kind[d] = "track"
     /\ \E i \in 1 .. Segments[s], j \in 1 .. Segments[d] :
          edges' = edges \union {Edge(<<s, i>>, <<d, j>>, {p}, tile)}
     /\ UNCHANGED <<made, shared>>
  \/ /\ Kind[s] = "opin" /\ Kind[d] = "track"
     /\ \E j \in 1 .. Segments[d] :
          edges' = edges \union {Edge(<<s, 0>>, WireNode(s), {}, tile),
                                 Edge(WireNode(s), <<d, j>>, {p}, tile)}
     /\ MakeWireNode(s)
  \/ /\ Kind[s] = "track" /\ Kind[d] = "ipin"
     /\ \E i \in 1 .. Segments[s] :
          edges' = edges \union {Edge(<<s, i>>, WireNode(d), {p}, tile),
                                 Edge(WireNode(d), <<d, 0>>, {}, tile)}
     /\ MakeWireNode(d)
  \/ /\ Kind[s] = "opin" /\ Kind[d] = "ipin"
     /\ edges' = edges \union {Edge(<<s, 0>>, <<d, 0>>, {p}, tile)}
     /\ UNCHANGED <<made, shared>>
  \/ /\ Kind[s] = "ipin" /\ Kind[d] = "opin"
     /\ edges' = edges \union {Edge(WireNode(s), WireNode(d), {p}, tile)}
     /\ UNCHANGED <<made, shared>>

(* The sort puts pseudo pips last; among the others, any order.            *)
IsNext(c) == c \in left /\ (c[2].pseudo => \A other \in left : other[2].pseudo)

(* make_connection for the next pip, and what it yields added to edges.    *)
MakeConnection(c) ==
  LET p == c[2]
      s == IF c[1] THEN p.from ELSE p.to
      d == IF c[1] THEN p.to ELSE p.from
  IN  /\ pc = "tiles"
      /\ IsNext(c)
      /\ left' = left \ {c}
      /\ IF Reserved(p)
         THEN UNCHANGED <<cached, made, shared, edges, pc>>
         ELSE /\ cached' = cached \union {<<tile, n>> : n \in LookedUp(p)}
              /\ IF \E n \in LookedUp(p) : Unsound(n)
                 THEN pc' = "raised" /\ UNCHANGED <<made, shared, edges>>
                 ELSE IF \E n \in LookedUp(p) : Kind[n] = "none"
                 THEN UNCHANGED <<made, shared, edges, pc>>
                 ELSE IF Joins(s, d, p)
                 THEN ConnectAt(s, d, p) /\ UNCHANGED pc
                 ELSE pc' = "raised" /\ UNCHANGED <<made, shared, edges>>
      /\ UNCHANGED <<graph, tile, graph_edge, alive>>

(* Mutant of Committed: the buffer is emptied though nothing was written.  *)
Committed_Dropped ==
  /\ graph_edge' = IF Cardinality(edges) > Batch THEN graph_edge \union edges ELSE graph_edge
  /\ edges' = {}

(* commit_edges, when there are enough of them.                            *)
Committed ==
  IF Cardinality(edges) > Batch
  THEN graph_edge' = graph_edge \union edges /\ edges' = {}
  ELSE UNCHANGED <<graph_edge, edges>>

EndTile ==
  /\ pc = "tiles" /\ tile <= NumTiles /\ left = {}
  /\ Committed
  /\ tile' = tile + 1
  /\ left' = SortedPips(tile + 1)
  /\ UNCHANGED <<graph, cached, made, shared, alive, pc>>

Neighbours(g) ==
  {e.dst : e \in {f \in graph_edge : f.src = g}} \union
  {e.src : e \in {f \in graph_edge : f.dst = g}}

TrackNodes ==
  (UNION {{<<n, i>> : i \in 1 .. Segments[n]} : n \in Tracks}) \union
  (UNION {{<<n, i>> : i \in 1 .. made[n]} : n \in Pins})

(* Mutant of Lives: a track between two nodes is not enough.               *)
Lives_OnlyJunctions(g) ==
  \/ g[1] \in input_only \union output_only
  \/ /\ \E e \in graph_edge : e.src = g
     /\ \E e \in graph_edge : e.dst = g
     /\ Cardinality(Neighbours(g)) > 2

(* A graph node for which mark_track_liveness keeps its track.             *)
Lives(g) ==
  \/ g[1] \in input_only \union output_only
  \/ /\ \E e \in graph_edge : e.src = g
     /\ \E e \in graph_edge : e.dst = g
     /\ Cardinality(Neighbours(g)) > 1

MarkTrackLiveness ==
  /\ pc = "tiles" /\ tile > NumTiles
  /\ alive' = {TrackOf(g) : g \in {h \in TrackNodes : Lives(h)}}
  /\ pc' = "marked"
  /\ UNCHANGED <<graph, tile, left, cached, made, shared, edges, graph_edge>>

Next ==
  \/ \E c \in left : MakeConnection(c)
  \/ EndTile
  \/ MarkTrackLiveness

Spec == Init /\ [][Next]_vars
-----------------------------------------------------------------------------
TypeOK ==
  /\ tile \in 1 .. NumTiles + 1
  /\ left \subseteq SortedPips(tile)
  /\ cached \subseteq (1 .. NumTiles) \X Nodes
  /\ made \in [Pins -> Nat]
  /\ shared \in [Pins -> Nat] /\ \A n \in Pins : shared[n] <= made[n]
  /\ \A e \in edges \union graph_edge :
       \A g \in {e.src, e.dst} : g \in TrackNodes \union (Pins \X {0})
  /\ pc \in {"tiles", "marked", "raised"}

(* The graph nodes that edges es lead to from those of from.               *)
Reach(from, es) ==
  LET Step(gs) == gs \union {e.dst : e \in {f \in es : f.src \in gs}}
      R[k \in 0 .. Cardinality(es)] == IF k = 0 THEN from ELSE Step(R[k - 1])
  IN  R[Cardinality(es)]

(* Done with a pip: its tile was left, or it is no longer to be connected. *)
Done(forward, p) ==
  IF p.tile = tile THEN <<forward, p>> \notin left ELSE p.tile < tile

(* The pips that make_connection connects.                                 *)
Connected(p) == ~Reserved(p) /\ "none" \notin {Kind[p.from], Kind[p.to]}

(* A wire node is joined to its pin, the way a signal goes.                *)
Pinned(g, es) ==
  /\ Kind[g[1]] = "opin" /\ g[2] # 0 => \E f \in es : f.src = <<g[1], 0>> /\ f.dst = g
  /\ Kind[g[1]] = "ipin" /\ g[2] # 0 => \E f \in es : f.src = g /\ f.dst = <<g[1], 0>>

(* A signal gets from node s to node d through pip p.                      *)
HasEdge(s, d, p, es) ==
  \E e \in es : /\ e.pip = {p} /\ e.src[1] = s /\ e.dst[1] = d
                /\ Pinned(e.src, es) /\ Pinned(e.dst, es)

(* Every connected pip has its edge, from the pin or its wire node to the  *)
(* other end, committed or waiting, once it was visited; and a wire node   *)
(* is joined to its pin, so a signal gets from the pin through the pip.    *)
EveryPipHasItsEdges ==
  /\ pc # "raised"
  /\ \A p \in {q \in pips : Connected(q)} :
       /\ Done(TRUE, p) => HasEdge(p.from, p.to, p, edges \union graph_edge)
       /\ Done(FALSE, p) => p.directional \/ HasEdge(p.to, p.from, p, edges \union graph_edge)

(* Reserved nodes are kept free of the edges that forward pips would make. *)
ForwardEdgesRespectReserved ==
  \A e \in edges \union graph_edge : \A p \in pips :
    e.pip = {p} /\ e.src[1] = p.from =>
      e.src[1] \notin input_only /\ e.dst[1] \notin output_only

(* The pins whose pips are all in the tile of their site wire have one     *)
(* wire node, whatever the number of pips: the delay of the pin is counted *)
(* once and VPR sees one wire.                                             *)
OneWireNodePerPin ==
  \A n \in Pins :
    (\A p \in pips : n \in {p.from, p.to} => p.tile = SiteTile[n]) => made[n] <= 1

(* Leaving out the dead tracks, as the routing import does, cuts no route  *)
(* from an output pin to an input pin.                                     *)
DeadTracksCutNoRoute ==
  pc = "marked" =>
    LET live(g) == g \in Pins \X {0} \/ TrackOf(g) \in alive
        imported == {e \in graph_edge : live(e.src) /\ live(e.dst)}
    IN  \A o \in {n \in Pins : Kind[n] = "opin"}, i \in {n \in Pins : Kind[n] = "ipin"} :
          <<i, 0>> \in Reach({<<o, 0>>}, graph_edge) =>
            <<i, 0>> \in Reach({<<o, 0>>}, imported)
-----------------------------------------------------------------------------
(* What the documentation says and the code does not do.                   *)

(* "Make graph edges based on pips in every tile."                         *)
EveryEdgeIsCommitted == pc = "marked" => edges = {}
=============================================================================
