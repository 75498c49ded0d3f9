---------------------------- MODULE RoutingImport ----------------------------
(***************************************************************************)
(* From the sides of the pins to the routing graph of VPR: the edges of    *)
(* prjxray_edge_library.py between pins, their wire nodes and tracks, the  *)
(* liveness of tracks and their places in the channels, and then           *)
(* prjxray_routing_import.py with lib/rr_graph_capnp/graph2.py: nodes of   *)
(* the database are matched with nodes of VPR's graph, or added to it,     *)
(* nodes are renumbered, edges counted, and written one by one.            *)
(*                                                                         *)
(* A graph node is <<"pin", k, t, d>>, a side of the pin k of tile t,      *)
(* <<"wire", k, t>>, the wire between it and its pips, or <<"track", w, n>>*)
(* segment n of track w.  A switch is a name; its timing is left out.      *)
(***************************************************************************)
EXTENDS PinDirections, PipFeatures, FiniteSetsExt, SequencesExt

CONSTANT ConstantTrack  \* vcc_track_pkey; the ground is like it

ASSUME ConstantAssumption == ConstantTrack \in Tracks

(* A device has finitely many tiles, tracks and pads, segments at places   *)
(* of a grid, a switch for every pip, and no pip from a wire to itself.    *)
ASSUME RoutingAssumption ==
  /\ IsFiniteSet(Tiles) /\ IsFiniteSet(Tracks)
  /\ \A v \in Devices :
       /\ \A w \in Tracks :
            v.segments[w] \in Seq([dir : {"X", "Y"}, at : Int, low : Int, high : Int])
       /\ v.pips \union v.muxes \union v.crossings \subseteq DOMAIN v.switch
       /\ \A s \in v.crossings :
            s.backward \in BOOLEAN /\ v.fabric.name[s].from # v.fabric.name[s].to
       /\ IsFiniteSet(v.region.pins) /\ IsFiniteSet(v.grid)
       /\ \A b \in v.grid : b.place \in Nat \X Nat /\ b.inpads \in Nat /\ b.outpads \in Nat

(* Tracks run along places that are not at 0, and where there are several *)
(* segments there are both directions (an assertion of make_tracks).  The  *)
(* constant track is made for all tiles (create_constant_tracks): its rows *)
(* end at the last column, its columns at the last row, and on a grid of   *)
(* several of both it has two segments of one direction.                   *)
ASSUME LayoutAssumption ==
  \A v \in Devices :
    /\ \A w \in Tracks :
         LET segment == v.segments[w]
         IN  \A n \in DOMAIN segment :
               /\ segment[n].low <= segment[n].high /\ 1 <= segment[n].high
               /\ DOMAIN segment # {n} => \E m \in DOMAIN segment : segment[m].dir # segment[n].dir
    /\ LET constant == v.segments[ConstantTrack]
           Reaches(place) ==
             /\ \E n \in DOMAIN constant : constant[n].dir = "X" /\ place[1] <= constant[n].high
             /\ \E n \in DOMAIN constant : constant[n].dir = "Y" /\ place[2] <= constant[n].high
       IN  /\ \A t \in Tiles : Reaches(Place[t])
           /\ \A b \in v.grid : Reaches(b.place)
           /\ \E i, j \in DOMAIN constant : i # j /\ constant[i].dir = constant[j].dir

(* What a pip, a mux and a crossing join; tiles have places of their own,  *)
(* and pads names of their own; a synthetic tile is at one place, with a z *)
(* for each of the pads that drive, or drain, a track.                     *)
ASSUME PinAssumption ==
  /\ \A t, u \in Tiles : Place[t] = Place[u] => t = u
  /\ Keys \intersect {"VCC", "inpad", "outpad"} = {}
  /\ \A v \in Devices :
       /\ v.pips \subseteq [pin : Keys, tile : Tiles, track : Tracks]
       /\ v.muxes \subseteq [from : Outputs, to : Keys \ Outputs, src : Tiles, dst : Tiles]
       /\ v.crossings \subseteq [from : Tracks, to : Tracks, at : Nat \X Nat, backward : BOOLEAN]
       /\ \A p \in v.region.pins :
            p.track \in Tracks /\ p.port \in {"input", "output", "VCC"} /\ p.z \in Nat
       /\ \A p, q \in {r \in v.region.pins : r.port # "VCC"} :
            /\ p.loc = q.loc => p.tile = q.tile
            /\ p.tile = q.tile /\ p.port = q.port /\ p.z = q.z => p = q

(* In a device a pip leads to a wire of the node it drives.  Of clock      *)
(* lines: a row that one crosses is next to a buffer at an end of it, and  *)
(* no pip that drives one is of an IOI_SING tile or begins at a pad.       *)
RowWire == "CLK_HROW_R_CK_GCLK"
PadWires == {"IOB_DIFFO_OUT0", "IOB_PADOUT0", "IOB_PADOUT1"}

NextTo(f, x, buffer) ==
  LET at == IF buffer[2].name = "REBUF_TOP" THEN x - 1 ELSE x + 1
  IN  /\ buffer[2].name \in RebufWires
      /\ at \in DOMAIN f.column /\ f.column[at].tile = buffer[1]

Drives(f, p, backward, w) ==
  LET n == f.name[p]
      IsLine == \E u \in f.wires[w] : u[2].name \in RebufWires \union {RowWire}
  IN  IsLine => /\ <<n.tile, IF backward THEN n.from ELSE n.to>> \in f.wires[w]
                /\ n.tile \notin DOMAIN f.sing
                /\ (IF backward THEN n.to ELSE n.from).name \notin PadWires

HasClockLines(f) ==
  /\ Tracks \subseteq DOMAIN f.wires
  /\ f.column \in Seq(Range(f.column))
  /\ \A x, y \in DOMAIN f.column : f.column[x].tile = f.column[y].tile => x = y
  /\ \A w \in Tracks : \A u \in f.wires[w] :
       u[2].name = RowWire =>
         \E buffer \in f.wires[w], x \in DOMAIN f.column :
           /\ u = <<f.column[x].tile, W(RowWire, buffer[2].args)>>
           /\ f.column[x].type = "CLK_HROW" /\ NextTo(f, x, buffer)

ASSUME ClockAssumption ==
  \A v \in Devices :
    /\ HasClockLines(v.fabric)
    /\ \A p \in v.pips : p.pin \in Outputs => Drives(v.fabric, p, FALSE, p.track)
    /\ \A s \in v.crossings : s.to \in Tracks /\ Drives(v.fabric, s, s.backward, s.to)

VARIABLES
  crossings,      \* pips between two tracks, and their backward copies
  region,        \* the mode, the synthetic pins and the wires outside of it
  grid,          \* of VPR's grid, the synthetic tiles
  switch,        \* of each pip and crossing, and its backward copy, the switch
  left,          \* the pips, muxes and crossings that have no edges yet
  graph_edge,    \* its rows: from, to, pip, switch and backward
  wire_node,     \* for pins with a wire node, the segment it was copied from
  alive,         \* the tracks that are alive, a wire node being one
  ptc,           \* for each graph node of one, its place in the channel
  channel,       \* x_min, x_max, y_min, y_max of the channel table
  synth_tiles,   \* the synthetic pins to join
  graph_switches,  \* the names of the switches of VPR's graph
  nodes,         \* graph.nodes: an id is an index
  edges,         \* graph.edges: pairs of ids
  node_mapping,  \* for a graph node, the id of its node
  id_map,        \* the ids after create_node_remap
  num_edges,     \* what get_number_graph_edges counts
  row,           \* the place in edges, then in graph_edge, of the next to yield
  nodes_set,     \* pairs of ids of pins and wires that were yielded
  written,       \* the edges in the message to be written
  node_map       \* the node map file

database == <<left, graph_edge, wire_node, alive, ptc, channel>>
vprgraph == <<synth_tiles, graph_switches, nodes, edges, node_mapping, id_map, num_edges>>
writer == <<row, nodes_set, written, node_map>>
rest == <<crossings, region, grid, fabric, switch>>
vars == <<pinvars, rest, database, vprgraph, writer>>
directions == <<device, rest, edge_assignments, final, todo, reducing>>

(* A set in some order.                                                    *)
Listed(S) == FoldSet(LAMBDA x, seq : Append(seq, x), <<>>, S)

(* Switches that are not of a pip.                                         *)
Delayless == "__vpr_delayless_switch__"
Short == "short"
SitePin == "site pin"

Row(src, dst, sw) == [src |-> src, dst |-> dst, pip |-> {}, switch |-> sw, backward |-> FALSE]

(* Pip.get_pip_switch: by the wire a connection begins at.                 *)
GetPipSwitch(p, src) ==
  IF src = fabric.name[p].from THEN switch[p].forward ELSE switch[p].backward

(* get_edge_with_mux_switch: from the row of the mux.                      *)
MuxSwitch(m) == switch[m].forward

Via(src, dst, p) ==
  [Row(src, dst, GetPipSwitch(p, fabric.name[p].from)) EXCEPT !.pip = {p}]
OnePerSide(s, i) == \A j \in DOMAIN s : s[j].dir = s[i].dir => i <= j

(* insert_tracks: a segment is joined to the first of the other direction. *)
Shorts ==
  LET Joined(w) ==
        {e \in (DOMAIN segments[w]) \X (DOMAIN segments[w]) :
           /\ segments[w][e[1]].dir # segments[w][e[2]].dir
           /\ OnePerSide(segments[w], e[1]) \/ OnePerSide(segments[w], e[2])}
  IN  UNION {{Row(<<"track", w, e[1]>>, <<"track", w, e[2]>>, Short) : e \in Joined(w)} : w \in Tracks}

Init ==
  /\ \E v \in Devices : /\ DirectionsInit(v)
                        /\ crossings = v.crossings /\ fabric = v.fabric
                        /\ switch = v.switch /\ region = v.region /\ grid = v.grid
  /\ left = pips \union muxes \union crossings
  /\ graph_edge = Listed(Shorts)
  /\ wire_node = <<>> /\ alive = {} /\ ptc = <<>>
  /\ channel = <<>>
  /\ synth_tiles = {} /\ graph_switches = {Delayless}
  /\ nodes = <<>> /\ edges = <<>> /\ node_mapping = <<>> /\ id_map = <<>>
  /\ num_edges = 0 /\ row = 1 /\ nodes_set = {} /\ written = <<>> /\ node_map = <<>>

Assign == DirectionsNext /\ UNCHANGED <<rest, database, vprgraph, writer>>

(* create_edges: the tracks that synthetic pins drain and drive, each with *)
(* all wires outside the region that its tile lists.                       *)
TracksFor(port) ==
  UNION {{p.track} \union region.outside[p.tile] : p \in {q \in region.pins : q.port = port}}

InputOnly == TracksFor("input")
OutputOnly == TracksFor("output")

(* Mutant of Reserved: what a pad drains is taken for what it drives.      *)
Reserved_Swapped(p) ==
  IF p \in crossings
  THEN LET turned == p.backward
       IN  \/ (IF turned THEN p.to ELSE p.from) \in OutputOnly
           \/ (IF turned THEN p.from ELSE p.to) \in InputOnly
  ELSE IF p.pin \in Outputs THEN p.track \in InputOnly ELSE p.track \in OutputOnly

(* make_connection leaves a pip out, for its ends before any turning.      *)
Reserved(p) ==
  IF p \in crossings
  THEN LET turned == p.backward
       IN  \/ (IF turned THEN p.to ELSE p.from) \in InputOnly
           \/ (IF turned THEN p.from ELSE p.to) \in OutputOnly
  ELSE IF p.pin \in Outputs THEN p.track \in OutputOnly ELSE p.track \in InputOnly

(* get_tracks_for_wire_at_coord and its callers: of a track's segments     *)
(* beside a place, the sides are in the order of the first on each, and a  *)
(* side has its last; the callers take the first of the sides they can.    *)
Joins(w, place, beside) ==
  LET side(n) == SideOf(segments[w][n], place)
  IN  Max({n \in beside : side(n) = side(Min(beside))})

(* The segments of the track of a pip that run along a side of its pin,    *)
(* and those of a track that run along any side of a place.                *)
Meets(p) ==
  {n \in DOMAIN segments[p.track] : SideOf(segments[p.track][n], Place[p.tile]) \in final[p.pin]}
Alongside(w, place) ==
  {n \in DOMAIN segments[w] : SideOf(segments[w][n], place) # "NO_SIDE"}

(* connect_at for a pin and a track: the wire node of the pin is between   *)
(* them, and is made like the graph node of the track.                     *)
ConnectTrack(p) ==
  LET n == Joins(p.track, Place[p.tile], Meets(p))
      track == <<"track", p.track, n>>
      wire == <<"wire", p.pin, p.tile>>
      pin == <<"pin", p.pin, p.tile, SideOf(segments[p.track][n], Place[p.tile])>>
      rows == IF p.pin \in Outputs THEN <<Row(pin, wire, SitePin), Via(wire, track, p)>>
                                   ELSE <<Via(track, wire, p), Row(wire, pin, SitePin)>>
  IN  /\ stage = "assigned" /\ p \in left \intersect pips
      /\ left' = left \ {p}
      /\ IF Reserved(p)
         THEN UNCHANGED <<stage, graph_edge, wire_node>>
         ELSE IF Meets(p) = {}
         THEN stage' = "raised" /\ UNCHANGED <<graph_edge, wire_node>>
         ELSE /\ graph_edge' = graph_edge \o rows
              /\ wire_node' = IF wire \in DOMAIN wire_node THEN wire_node
                              ELSE [g \in DOMAIN wire_node \union {wire} |->
                                      IF g = wire THEN segments[p.track][n] ELSE wire_node[g]]
              /\ UNCHANGED stage
      /\ UNCHANGED <<directions, alive, ptc, channel, vprgraph, writer>>

(* connect_at for two tracks, each at a segment beside the tile.           *)
ConnectTracks(s) ==
  LET At(w) == Alongside(w, s.at)
      Node(w) == <<"track", w, Joins(w, s.at, At(w))>>
      first == IF s.backward THEN fabric.name[s].to ELSE fabric.name[s].from
  IN  /\ stage = "assigned" /\ s \in left \intersect crossings
      /\ left' = left \ {s}
      /\ IF Reserved(s)
         THEN UNCHANGED <<stage, graph_edge>>
         ELSE IF At(s.from) = {} \/ At(s.to) = {}
         THEN stage' = "raised" /\ UNCHANGED graph_edge
         ELSE /\ graph_edge' = Append(graph_edge, [Row(Node(s.from), Node(s.to), GetPipSwitch(s, first))
                                                     EXCEPT !.pip = {s}, !.backward = s.backward])
              /\ UNCHANGED stage
      /\ UNCHANGED <<directions, wire_node, alive, ptc, channel, vprgraph, writer>>

(* connect_at for two pins: their only sides, or two that are opposite.    *)
ConnectPins(m) ==
  LET pairs == IF Cardinality(final[m.from]) = 1 /\ Cardinality(final[m.to]) = 1
               THEN final[m.from] \X final[m.to]
               ELSE {e \in final[m.from] \X final[m.to] : e[2] = Opposite[e[1]]}
  IN  /\ stage = "assigned" /\ m \in left \intersect muxes
      /\ left' = left \ {m}
      /\ IF pairs = {}
         THEN stage' = "raised" /\ UNCHANGED graph_edge
         ELSE /\ \E e \in pairs :
                   graph_edge' = Append(graph_edge, [Row(<<"pin", m.from, m.src, e[1]>>,
                                                         <<"pin", m.to, m.dst, e[2]>>, MuxSwitch(m))
                                                     EXCEPT !.pip = {m}])
              /\ UNCHANGED stage
      /\ UNCHANGED <<directions, wire_node, alive, ptc, channel, vprgraph, writer>>

TrackNodes ==
  DOMAIN wire_node \union UNION {{<<"track", w, n>> : n \in DOMAIN segments[w]} : w \in Tracks}

Segment(g) == IF g[1] = "wire" THEN wire_node[g] ELSE segments[g[2]][g[3]]
TrackOf(g) == IF g[1] = "wire" THEN g ELSE <<"track", g[2]>>

MarkTrackLiveness ==
  LET rows == ToSet(graph_edge)
      From(g) == {e.src : e \in {r \in rows : r.dst = g}}
      To(g) == {e.dst : e \in {r \in rows : r.src = g}}
      Lives(g) ==
        \/ g[1] = "track" /\ g[2] \in InputOnly \union OutputOnly
        \/ From(g) # {} /\ To(g) # {} /\ Cardinality(From(g) \union To(g)) > 1
  IN  /\ stage = "assigned" /\ left = {}
      /\ alive' = {TrackOf(g) : g \in {h \in TrackNodes : Lives(h)}}
      /\ stage' = "marked"
      /\ UNCHANGED <<directions, left, graph_edge, wire_node, ptc, channel, vprgraph, writer>>

AliveNodes == {g \in TrackNodes : TrackOf(g) \in alive}

SameChannel(s, t) == s.dir = t.dir /\ s.at = t.at

(* channel2.Channel.pack_tracks: by their lower ends, every node in the    *)
(* first tree with space.                                                  *)
Packed ==
  LET Fit(g, placed) ==
        LET taken == {placed[h] : h \in {k \in DOMAIN placed :
              SameChannel(Segment(k), Segment(g)) /\ Segment(k).high >= Segment(g).low}}
        IN  [h \in DOMAIN placed \union {g} |->
               IF h = g THEN Min((0 .. Cardinality(taken)) \ taken) ELSE placed[h]]
      Highest(gs) == CHOOSE g \in gs : \A h \in gs : Segment(h).low <= Segment(g).low
  IN  MapThenFoldSet(Fit, <<>>, LAMBDA g : g, Highest, AliveNodes)

Lows(d) == {IF Segment(g).dir = d THEN Segment(g).low ELSE Segment(g).at : g \in AliveNodes}
Highs(d) == {IF Segment(g).dir = d THEN Segment(g).high ELSE Segment(g).at : g \in AliveNodes}

(* MIN and MAX of no row are NULL, and range(None, ...) raises.            *)
BuildChannels ==
  /\ stage = "marked"
  /\ IF AliveNodes = {}
     THEN stage' = "raised" /\ UNCHANGED <<ptc, channel>>
     ELSE /\ ptc' = Packed
          /\ channel' = [x_min |-> Min(Lows("X")), x_max |-> Max(Highs("X")),
                         y_min |-> Min(Lows("Y")), y_max |-> Max(Highs("Y"))]
          /\ stage' = "built"
  /\ UNCHANGED <<directions, left, graph_edge, wire_node, alive, vprgraph, writer>>

Overlap(s, t) == SameChannel(s, t) /\ s.low <= t.high /\ t.low <= s.high

VerifyChannels ==
  /\ stage = "built"
  /\ stage' = IF \E g, h \in AliveNodes :
                   g # h /\ Overlap(Segment(g), Segment(h)) /\ ptc[g] = ptc[h]
              THEN "raised" ELSE "network"
  /\ UNCHANGED <<directions, database, vprgraph, writer>>

(* main: the pins of a region come from its file, and those of an overlay  *)
(* too, but not its constant network.                                      *)
NetworkIsInGrid == region.mode # "roi"

(* find_constant_network: all devices have a SYN-VCC and a SYN-GND in      *)
(* VPR's grid, but for a region that is a file, whose pins say where.      *)
FindConstantNetwork ==
  LET At(type) == {b \in grid : b.type = type}
      vcc == {[port |-> "VCC", tile |-> "VCC", track |-> ConstantTrack, loc |-> b.place, z |-> 0] :
                b \in At("SYN-VCC")}
  IN  /\ stage = "network"
      /\ IF NetworkIsInGrid /\ \E type \in {"SYN-VCC", "SYN-GND"} : Cardinality(At(type)) # 1
         THEN stage' = "raised" /\ UNCHANGED synth_tiles
         ELSE /\ synth_tiles' = region.pins \union IF NetworkIsInGrid THEN vcc ELSE {}
              /\ stage' = "switches"
      /\ UNCHANGED <<directions, database, graph_switches, nodes, edges, node_mapping, id_map,
                      num_edges, writer>>

(* What is in the switch table of the database.                            *)
SwitchTable ==
  {Delayless, Short, SitePin} \union UNION {{switch[p].forward, switch[p].backward} : p \in DOMAIN switch}

(* VPR leaves switches out of its graph that the architecture does not     *)
(* use; they are added again.                                              *)
AddSwitches ==
  /\ stage = "switches"
  /\ graph_switches' = graph_switches \union SwitchTable
  /\ stage' = "pins"
  /\ UNCHANGED <<directions, database, synth_tiles, nodes, edges, node_mapping, id_map, num_edges, writer>>

PinTypes == {"IPIN", "OPIN"}
TrackTypes == {"CHANX", "CHANY"}
IsPin(i) == nodes[i].type \in PinTypes

(* VPR's graph: for each pin of a tile a class and a pin, which is on all  *)
(* of its sides; the ptc of a pin is its key, with the number of its       *)
(* sub-tile.  The pads of a synthetic tile are in two kinds of sub-tiles.  *)
VprNode(type, place, k) ==
  [type |-> type, x_low |-> place[1], x_high |-> place[1],
   y_low |-> place[2], y_high |-> place[2], ptc |-> k]

VprPins ==
  {VprNode(IF k \in Outputs THEN "OPIN" ELSE "IPIN", Place[t], <<k, 0>>) : k \in Keys, t \in Tiles}
    \union {VprNode("OPIN", b.place, <<"VCC", 0>>) : b \in {c \in grid : c.type = "SYN-VCC"}}
    \union UNION {{VprNode("OPIN", b.place, <<"inpad", z>>) : z \in 0 .. b.inpads - 1} \union
                  {VprNode("IPIN", b.place, <<"outpad", z>>) : z \in 0 .. b.outpads - 1} : b \in grid}

Class(n) == [n EXCEPT !.type = IF n.type = "OPIN" THEN "SOURCE" ELSE "SINK"]

(* Mutant of Sides: the node of a pin stands for one of its sides.         *)
Sides_First(k) == {CHOOSE d \in final[k] : TRUE}

Sides(k) == final[k]

(* add_graph_nodes_for_pins: a graph node for every side of a pin.         *)
PinNodes == UNION {{<<"pin", k, t, d>> : d \in Sides(k)} : k \in Keys, t \in Tiles}

(* Graph.__init__ makes the edges of the classes; import_graph_nodes       *)
(* matches the graph nodes of all sides of a pin with its one node.        *)
ImportGraphNodes ==
  LET ns == Listed(VprPins \union {Class(n) : n \in VprPins})
      At(n) == CHOOSE i \in DOMAIN ns : ns[i] = n
      id(k, t) == CHOOSE i \in DOMAIN ns :
                    ns[i].type \in PinTypes /\ ns[i].ptc = <<k, 0>> /\ <<ns[i].x_low, ns[i].y_low>> = Place[t]
  IN  /\ stage = "pins"
      /\ nodes' = ns
      /\ edges' = Listed({IF n.type = "OPIN" THEN <<At(Class(n)), At(n)>>
                                               ELSE <<At(n), At(Class(n))>> : n \in VprPins})
      /\ node_mapping' = [g \in PinNodes |-> id(g[2], g[3])]
      /\ stage' = "tracks"
      /\ UNCHANGED <<directions, database, synth_tiles, graph_switches, id_map, num_edges, writer>>

(* import_tracks and add_track: a node for each graph node of a track that *)
(* is alive, in the channel, which begins at 1.                            *)
ImportTracks ==
  LET new == Listed(AliveNodes)
      from1(n) == IF n > 1 THEN n ELSE 1
      Node(g) ==
        LET s == Segment(g)
        IN  IF s.dir = "X"
            THEN [type |-> "CHANX", x_low |-> from1(s.low), x_high |-> s.high,
                  y_low |-> s.at, y_high |-> s.at, ptc |-> ptc[g]]
            ELSE [type |-> "CHANY", x_low |-> s.at, x_high |-> s.at,
                  y_low |-> from1(s.low), y_high |-> s.high, ptc |-> ptc[g]]
  IN  /\ stage = "tracks"
      /\ nodes' = nodes \o [n \in DOMAIN new |-> Node(new[n])]
      /\ node_mapping' =
           [g \in DOMAIN node_mapping \union AliveNodes |->
              IF g \in AliveNodes THEN Len(nodes) + (CHOOSE n \in DOMAIN new : new[n] = g)
                                  ELSE node_mapping[g]]
      /\ stage' = "synthetic"
      /\ UNCHANGED <<directions, database, synth_tiles, graph_switches, edges, id_map, num_edges, writer>>

(* The VPR pin of a synthetic pin: pads are numbered together on a tile    *)
(* that has several, those that drive first.                               *)
PadName(p) ==
  LET Pads(port) == {q \in synth_tiles : q.tile = p.tile /\ q.port = port}
      Number(first) == IF Cardinality(Pads(p.port)) > 1 THEN p.z - first ELSE 0
  IN  CASE p.port = "VCC" -> <<"VCC", 0>>
        [] p.port = "output" -> <<"inpad", Number(0)>>
        [] p.port = "input" -> <<"outpad", Number(Cardinality(Pads("output")))>>

PadNodes(p) ==
  {i \in DOMAIN nodes : /\ IsPin(i) /\ nodes[i].ptc = PadName(p)
                        /\ <<nodes[i].x_low, nodes[i].y_low>> = p.loc}

(* A synthetic pin drives, or drains, a segment of its track beside its    *)
(* tile, which has to be alive.                                            *)
AddSyntheticEdges ==
  LET option(p) == Alongside(p.track, p.loc)
      track(p) == <<"track", p.track, Joins(p.track, p.loc, option(p))>>
      Synthetic(p) ==
        LET pin == CHOOSE i \in PadNodes(p) : TRUE
        IN  IF p.port = "input" THEN <<node_mapping[track(p)], pin>> ELSE <<pin, node_mapping[track(p)]>>
  IN  /\ stage = "synthetic"
      /\ IF \E p \in synth_tiles :
              option(p) = {} \/ track(p) \notin DOMAIN node_mapping \/ PadNodes(p) = {}
         THEN stage' = "raised" /\ UNCHANGED edges
         ELSE /\ edges' = edges \o Listed({Synthetic(p) : p \in synth_tiles})
              /\ stage' = "connected"
      /\ UNCHANGED <<directions, database, synth_tiles, graph_switches, nodes, node_mapping, id_map, num_edges, writer>>

(* Mutant of Order: the last point of the curve is left out.               *)
Order_Floor == CHOOSE p \in 0 .. Max({channel.x_max, channel.y_max}) :
                 /\ 2 ^ p <= Max({channel.x_max, channel.y_max})
                 /\ 2 ^ (p + 1) > Max({channel.x_max, channel.y_max})

(* math.ceil(math.log2(max(x_max, y_max)))                                 *)
Order == Min({p \in 0 .. Max({channel.x_max, channel.y_max}) :
                2 ^ p >= Max({channel.x_max, channel.y_max})})

OnCurve(n) == n.x_low < 2 ^ Order /\ n.y_low < 2 ^ Order

(* The order of the points of the curve is that of the hilbertcurve        *)
(* library; another does as well.                                          *)
Before(n, m) ==
  \/ n.x_low < m.x_low
  \/ n.x_low = m.x_low /\ n.y_low < m.y_low

SamePoint(n, m) == n.x_low = m.x_low /\ n.y_low = m.y_low

NewId(i) ==
  Cardinality({j \in DOMAIN nodes :
                 /\ OnCurve(nodes[j])
                 /\ \/ Before(nodes[j], nodes[i])
                    \/ SamePoint(nodes[j], nodes[i]) /\ j <= i})

CreateNodeRemap ==
  /\ stage = "connected"
  /\ id_map' = [i \in {j \in DOMAIN nodes : OnCurve(nodes[j])} |-> NewId(i)]
  /\ stage' = "counting"
  /\ UNCHANGED <<directions, database, synth_tiles, graph_switches, nodes, edges, node_mapping, num_edges, writer>>

Mapped(e) == e.src \in DOMAIN node_mapping /\ e.dst \in DOMAIN node_mapping
Pair(e) == <<node_mapping[e.src], node_mapping[e.dst]>>

PinAndTrack(e) == IsPin(Pair(e)[1]) # IsPin(Pair(e)[2])

(* get_number_graph_edges: of the rows for a pin and a wire, the first.    *)
Counted(n) ==
  /\ Mapped(graph_edge[n])
  /\ PinAndTrack(graph_edge[n]) =>
       \A m \in 1 .. n - 1 :
         Mapped(graph_edge[m]) => Pair(graph_edge[m]) # Pair(graph_edge[n])

GetNumberGraphEdges ==
  /\ stage = "counting"
  /\ num_edges' = Len(edges) + Cardinality({n \in DOMAIN graph_edge : Counted(n)})
  /\ stage' = "serialize"
  /\ UNCHANGED <<directions, database, synth_tiles, graph_switches, nodes, edges, node_mapping, id_map, writer>>

(* serialize_to_capnp up to the edges: a node that has no new id raises.   *)
WriteNodes ==
  /\ stage = "serialize"
  /\ stage' = IF \E i \in DOMAIN nodes : i \notin DOMAIN id_map THEN "raised" ELSE "writing"
  /\ UNCHANGED <<directions, database, vprgraph, writer>>

(* Mutant of Skipped: nothing is.                                          *)
Skipped_Never(e) == ~Mapped(e)

(* import_graph_edges does not yield the row.                              *)
Skipped(e) == ~Mapped(e) \/ (PinAndTrack(e) /\ Pair(e) \in nodes_set)

Between(ids) == [src |-> id_map[ids[1]], dst |-> id_map[ids[2]], pip |-> {},
                 switch |-> Delayless, features |-> {}]

(* An edge of the database, with the features of its pip, if it has one.   *)
New(e) ==
  [Between(Pair(e)) EXCEPT
     !.pip = e.pip, !.switch = e.switch,
     !.features = UNION {CheckFeature(PipName(p, e.backward)) : p \in e.pip}]

Yielded(edge) ==
  IF Len(written) = num_edges
  THEN stage' = "raised" /\ UNCHANGED written
  ELSE /\ written' = Append(written, edge)
       /\ UNCHANGED stage

(* get_switch_name: a switch that is not in the graph raises a KeyError.   *)
HasSwitch(e) == e.switch \in graph_switches

WriteEdge ==
  /\ stage = "writing"
  /\ row <= Len(edges) + Len(graph_edge)
  /\ row' = row + 1
  /\ \/ /\ row <= Len(edges)
        /\ Yielded(Between(edges[row]))
        /\ UNCHANGED nodes_set
     \/ /\ row > Len(edges)
        /\ LET e == graph_edge[row - Len(edges)]
           IN  IF Skipped(e)
               THEN UNCHANGED <<written, nodes_set, stage>>
               ELSE IF ~HasSwitch(e)
               THEN stage' = "raised" /\ UNCHANGED <<written, nodes_set>>
               ELSE /\ Yielded(New(e))
                    /\ nodes_set' = nodes_set \union (IF PinAndTrack(e) THEN {Pair(e)} ELSE {})
  /\ UNCHANGED <<directions, database, vprgraph, node_map>>

(* "Unwritten edges!"; then both files are written.                        *)
WriteFiles ==
  /\ stage = "writing"
  /\ row > Len(edges) + Len(graph_edge)
  /\ IF Len(written) # num_edges
     THEN stage' = "raised" /\ UNCHANGED node_map
     ELSE /\ node_map' = [g \in DOMAIN node_mapping |-> id_map[node_mapping[g]]]
          /\ stage' = "written"
  /\ UNCHANGED <<directions, database, vprgraph, row, nodes_set, written>>

Next ==
  \/ Assign
  \/ \E e \in left : ConnectTrack(e) \/ ConnectTracks(e) \/ ConnectPins(e)
  \/ MarkTrackLiveness \/ BuildChannels \/ VerifyChannels
  \/ FindConstantNetwork \/ AddSwitches
  \/ ImportGraphNodes \/ ImportTracks \/ AddSyntheticEdges
  \/ CreateNodeRemap \/ GetNumberGraphEdges \/ WriteNodes
  \/ WriteEdge \/ WriteFiles

Spec == Init /\ [][Next]_vars /\ WF_vars(WriteEdge)
-----------------------------------------------------------------------------
(* Edges are kept apart by their ends and their pip, as VPR takes them.    *)
Serializing == stage \in {"writing", "written"}

(* The switch of a pip, or of its backward copy.                           *)
Way(e) ==
  IF e.pip = {} THEN e.switch
  ELSE LET ways == switch[CHOOSE p \in e.pip : TRUE]
       IN  IF e.backward THEN ways.backward ELSE ways.forward

Wanted ==
  IF ~Serializing THEN {} ELSE
    {Between(e) : e \in ToSet(edges)} \union
    {[Between(Pair(e)) EXCEPT !.pip = e.pip, !.switch = Way(e)] : e \in {r \in ToSet(graph_edge) : Mapped(r)}}

Sent == [n \in DOMAIN written |-> [written[n] EXCEPT !.features = {}]]

Export == INSTANCE GraphExport WITH wanted <- Wanted, sent <- Sent

(* Every edge whose ends are imported is written, with the new ids, and    *)
(* none twice, however many sides, pips and rows speak for it: the counts  *)
(* of two loops over the table agree.                                      *)
ImplementsExport == Export!Spec

(* What some links lead to from one of their ends.                         *)
Reached(links, from) ==
  LET Step(is) == is \union {l[2] : l \in {m \in links : m[1] \in is}}
      R[n \in 0 .. Cardinality(links)] == IF n = 0 THEN {from} ELSE Step(R[n - 1])
  IN  R[Cardinality(links)]

(* A pad drives, or drains, its own track and the wires outside the region *)
(* that its tile lists.  A pip may be used unless the database has it lead *)
(* into a track that a pad drives, or out of one that a pad drains; of a   *)
(* pip that is turned round it is the ends it has in the database.         *)
HasPad(port, w) ==
  \E p \in region.pins : p.port = port /\ (w = p.track \/ w \in region.outside[p.tile])
LeadsInto(p, w) ==
  IF p \in crossings THEN w = (IF p.backward THEN p.from ELSE p.to)
                     ELSE w = p.track /\ p.pin \in Outputs
LeadsOutOf(p, w) ==
  IF p \in crossings THEN w = (IF p.backward THEN p.to ELSE p.from)
                     ELSE w = p.track /\ p.pin \notin Outputs
Usable(p) ==
  \A w \in Tracks : /\ LeadsInto(p, w) => ~HasPad("output", w)
                    /\ LeadsOutOf(p, w) => ~HasPad("input", w)

(* A pin, or a pad of the region, with its tracks.                         *)
TracksOf(k, t) == {p.track : p \in {q \in pips : q.pin = k /\ q.tile = t /\ Usable(q)}}
PinNode(k, t) == node_map[<<"pin", k, t, CHOOSE d \in final[k] : TRUE>>]
RegionPads(port) ==
  {[node |-> id_map[CHOOSE i \in PadNodes(p) : TRUE], tracks |-> {p.track}] :
     p \in {q \in synth_tiles : q.port = port}}
Sources == {[node |-> PinNode(o, t), tracks |-> TracksOf(o, t)] : o \in Outputs, t \in Tiles} \union RegionPads("output")
Sinks == {[node |-> PinNode(i, t), tracks |-> TracksOf(i, t)] : i \in Keys \ Outputs, t \in Tiles} \union RegionPads("input")

(* No edge of a pip leads into a track that a pad drives, nor out of one   *)
(* that a pad drains, but for a pip that is turned round: line 1121 judges *)
(* both ways of it by the ends of one, so that the way back may do what    *)
(* the docstring of make_connection excludes.                              *)
PadsAreAlone ==
  \A e \in ToSet(written), w \in Tracks : \A n \in DOMAIN segments[w] :
    LET g == <<"track", w, n>>
    IN  e.pip # {} /\ g \in DOMAIN node_map =>
          \/ \E p \in e.pip : p \in crossings /\ p.backward
          \/ /\ e.dst = node_map[g] => ~HasPad("output", w)
             /\ e.src = node_map[g] => ~HasPad("input", w)

(* A route of the written graph leads from an output pin, or a pad of the  *)
(* region, to an input pin or pad just where usable pips of the two meet   *)
(* the same track, or tracks that usable pips lead on between, or a mux    *)
(* joins the pins; and nothing but the turned pips drives a track that a   *)
(* pad drives, or is driven by one that a pad drains.                      *)
RoutesAreTheDevices ==
  stage = "written" =>
    LET links == {<<e.src, e.dst>> : e \in ToSet(written)}
        crossed == {<<s.from, s.to>> : s \in {r \in crossings : Usable(r)}}
    IN  /\ PadsAreAlone
        /\ \A a \in Sources :
             LET reached == Reached(links, a.node)
             IN  \A b \in Sinks :
                   b.node \in reached <=>
                     \/ \E w \in a.tracks : Reached(crossed, w) \intersect b.tracks # {}
                     \/ \E m \in muxes : PinNode(m.from, m.src) = a.node /\ PinNode(m.to, m.dst) = b.node

(* An edge that leads into a clock line, whichever pip drives it and from  *)
(* which end, turns on the buffers at the ends of the line and every row   *)
(* that the line crosses: the code looks for rows beside the buffers of a  *)
(* list of tiles, and hardware at the wires.                               *)
ClockLinesAreOn ==
  stage = "written" =>
    \A e \in ToSet(written), w \in Tracks :
      (e.pip # {} /\ \E n \in DOMAIN segments[w] :
         /\ <<"track", w, n>> \in DOMAIN node_map
         /\ node_map[<<"track", w, n>>] = e.dst) =>
        \A v \in fabric.wires[w] :
          LET On(part, wire) == <<v[1], part, wire>> \in e.features
          IN  /\ v[2].name = "REBUF_TOP" => On(W("ENABLE_BELOW", v[2].args), Whole)
              /\ v[2].name = "REBUF_BOT" => On(W("ENABLE_ABOVE", v[2].args), Whole)
              /\ v[2].name = "CLK_HROW_R_CK_GCLK" => On(W("ACTIVE", <<>>), v[2])

(* When nodes have their new ids, only one thing keeps the graph from      *)
(* being written: a grid whose greater side is a power of two, the points  *)
(* at which are beyond the curve.                                          *)
OnlyTheCurveStops ==
  stage = "raised" /\ id_map # <<>> =>
    \E p \in 0 .. Order : 2 ^ p = Max({channel.x_max, channel.y_max})
=============================================================================
