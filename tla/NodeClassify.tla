---------------------------- MODULE NodeClassify ----------------------------
(***************************************************************************)
(* What every node of the device becomes, in prjxray_form_channels.py:     *)
(* count_sites_and_pips_on_nodes, classify_nodes and form_tracks, which    *)
(* calls create_track for every CHANNEL node and then for the two constant *)
(* networks.  EdgeImport starts from what is left here.                    *)
(*                                                                         *)
(* A node has at most one wire in a tile, at the place in the VPR grid     *)
(* that create_vpr_grid gave it.  Rows are a set: those edge_with_mux has  *)
(* twice, once from each end, are one.  Timing and segments are left out.  *)
(***************************************************************************)
EXTENDS TrackForm

CONSTANTS
  Nodes,    \* rows of node
  Devices   \* wires, sites and pips to start from

(* The nodes that create_constant_tracks adds.                             *)
Constants == {"VCC", "GND"}

(* The names of pips matter for two reasons: "pad" is a PADOUT of one pad  *)
(* to the DIFFI_IN of the other, "padout" any other pip of a PADOUT.       *)
PipKinds == {"plain", "pseudo", "pad", "padout"}

(* What devices have and the program relies on without a test, of a pip    *)
(* that is imported between two pins: it is the only one of the pin it     *)
(* goes to, and of the pin it comes from; a PADOUT may have others, and as *)
(* their names say so none of them is imported.                            *)
PinsAsInDevices(v) ==
  \A p, q \in v.pips :
    p.kind \in {"plain", "pad"} /\ v.site[p.from] # 0 /\ v.site[p.to] # 0 /\ q # p =>
      /\ p.to \in {q.from, q.to} => q.kind = "pseudo"
      /\ p.from \in {q.from, q.to} =>
           IF p.kind = "plain" THEN q.kind = "pseudo" ELSE q.kind \in {"pseudo", "padout"}

ASSUME DeviceAssumption ==
  /\ IsFiniteSet(Nodes) /\ Nodes \intersect Constants = {}
  /\ \A v \in Devices :
       /\ IsFiniteSet(v.pips) /\ PinsAsInDevices(v)
       /\ \A n \in Nodes : /\ \A t \in DOMAIN v.wires[n] : v.wires[n][t] \in Locs
                           /\ DOMAIN v.wires[n] # {}
                           /\ v.site[n] = 0 \/ v.site[n] \in DOMAIN v.wires[n]
       /\ \A p \in v.pips : /\ {p.from, p.to} \subseteq Nodes /\ p.from # p.to
                            /\ p.tile \in DOMAIN v.wires[p.from] \intersect DOMAIN v.wires[p.to]
                            /\ p.kind \in PipKinds

VARIABLES
  wires,           \* for each node, the places of its wires by tile
  site,            \* the tile of site_wire_pkey, 0 for NULL
  pips,            \* the pips of the device
  number_pips,     \* column of node
  classification,  \* column of node, "none" for NULL the value of SQL
  edge_with_mux,   \* its rows
  stage,           \* how far main() came
  todo,            \* the CHANNEL nodes without a track
  forming,         \* the nodes whose track is being formed
  track            \* the track of each node: its points and tracks

device == <<wires, site, pips>>
nodevars == <<device, number_pips, classification, edge_with_mux, stage, todo, forming, track>>

NodeInit ==
  /\ TrackInit
  /\ \E v \in Devices : wires = v.wires /\ site = v.site /\ pips = v.pips
  /\ number_pips = [n \in Nodes |-> 0]
  /\ classification = [n \in Nodes |-> "none"]
  /\ edge_with_mux = {}
  /\ stage = "nodes"
  /\ todo = {} /\ forming = {}
  /\ track = [n \in Nodes \union Constants |-> [points |-> {}, tracks |-> {}]]

PipsOf(n) == {p \in pips : n \in {p.from, p.to}}

Real(p) == p.kind # "pseudo"

CountSitesAndPips ==
  /\ stage = "nodes"
  /\ number_pips' = [n \in Nodes |-> Cardinality({p \in PipsOf(n) : Real(p)})]
  /\ stage' = "counted"
  /\ UNCHANGED <<trackvars, device, classification, edge_with_mux, todo, forming, track>>

HasPin(n) == site[n] # 0

(* The first three statements, that look at the node alone.                *)
Alone(n) ==
  CASE HasPin(n) /\ number_pips[n] = 0 -> "NULL"
    [] ~HasPin(n) /\ number_pips[n] <= 1 -> "NULL"
    [] HasPin(n) /\ number_pips[n] > 1 -> "EDGES_TO_CHANNEL"
    [] ~HasPin(n) /\ number_pips[n] > 1 -> "CHANNEL"
    [] OTHER -> "none"

(* The nodes that also depend on the other node of their one pip.          *)
OnePip == {n \in Nodes : HasPin(n) /\ number_pips[n] = 1}
ThePip(n) == CHOOSE p \in PipsOf(n) : Real(p)
Beyond(n) == CHOOSE m \in {ThePip(n).from, ThePip(n).to} : m # n

ToPin(n) == HasPin(Beyond(n)) /\ (number_pips[Beyond(n)] = 1 \/ ThePip(n).kind = "pad")

(* Mutant of Dangling: whatever else the wire is connected to.             *)
Dangling_Any(n) == ~HasPin(Beyond(n))

Dangling(n) == ~HasPin(Beyond(n)) /\ number_pips[Beyond(n)] = 1

(* The lists edge_with_mux and null_nodes: both ends.                      *)
MuxNodes == UNION {{n, Beyond(n)} : n \in {m \in OnePip : ToPin(m)}}
NullNodes == UNION {{n, Beyond(n)} : n \in {m \in OnePip : ~ToPin(m) /\ Dangling(m)}}
EdgesToChannel == {n \in OnePip : ~ToPin(n) /\ ~Dangling(n)}

(* The lists are gone through in this order, the last update stays.        *)
Classified(n) ==
  CASE n \in NullNodes -> "NULL"
    [] n \notin NullNodes /\ n \in EdgesToChannel -> "EDGES_TO_CHANNEL"
    [] n \notin NullNodes \union EdgesToChannel /\ n \in MuxNodes -> "EDGE_WITH_MUX"
    [] OTHER -> Alone(n)

ClassifyNodes ==
  /\ stage = "counted"
  /\ classification' = [n \in Nodes |-> Classified(n)]
  /\ edge_with_mux' = {ThePip(n) : n \in {m \in OnePip : ToPin(m)}}
  /\ stage' = "tracks"
  /\ todo' = {n \in Nodes : Classified(n) = "CHANNEL"}
  /\ UNCHANGED <<trackvars, device, number_pips, forming, track>>

Across(n, p) == IF n = p.from THEN p.to ELSE p.from

SitePlace(n) == wires[n][site[n]]

(* Mutant of UniquePos: the sites of the pins are not asked for.           *)
UniquePos_NoSites(n) ==
       {wires[n][t] : t \in DOMAIN wires[n]}
  \union {wires[Across(n, p)][p.tile] : p \in PipsOf(n)}

(* The places a node has to reach: its wires, the wires at the other side  *)
(* of its pips, and the sites of the pins there.                           *)
UniquePos(n) ==
       {wires[n][t] : t \in DOMAIN wires[n]}
  \union {wires[Across(n, p)][p.tile] : p \in PipsOf(n)}
  \union {SitePlace(m) : m \in {k \in {Across(n, p) : p \in PipsOf(n)} :
                                  classification[k] = "EDGES_TO_CHANNEL"}}

FormTrack(n) ==
  /\ stage = "tracks" /\ n \in todo
  /\ Begin(UniquePos(n))
  /\ forming' = {n} /\ todo' = todo \ {n}
  /\ UNCHANGED <<device, number_pips, classification, edge_with_mux, stage, track>>

(* The constants reach every tile but those of the first row and column.   *)
CreateConstantTracks ==
  /\ stage = "tracks" /\ todo = {}
  /\ Begin({p \in Locs : p[1] > 0 /\ p[2] > 0})
  /\ forming' = Constants
  /\ stage' = "constants"
  /\ UNCHANGED <<device, number_pips, classification, edge_with_mux, todo, track>>

InsertTracks ==
  /\ Return
  /\ track' = [n \in DOMAIN track |->
                 IF n \in forming THEN [points |-> points, tracks |-> tracks] ELSE track[n]]
  /\ stage' = IF stage = "constants" THEN "done" ELSE stage
  /\ forming' = {}
  /\ UNCHANGED <<device, number_pips, classification, edge_with_mux, todo>>

NodeNext ==
  \/ CountSitesAndPips
  \/ ClassifyNodes
  \/ \E n \in todo : FormTrack(n)
  \/ CreateConstantTracks
  \/ Form /\ UNCHANGED nodevars
  \/ InsertTracks

NodeSpec == NodeInit /\ [][NodeNext]_<<trackvars, nodevars>>
-----------------------------------------------------------------------------
(* find_connector finds nothing for a node without graph nodes, and        *)
(* create_and_insert_edges skips pseudo pips and what else PADOUTs lead to.*)
Imported(p) ==
  /\ p.kind \in {"plain", "pad"}
  /\ "NULL" \notin {classification[p.from], classification[p.to]}

Meets(n, place) == \E t \in track[n].tracks : Adjacent(track[n].points, t, place)

IsChannel(n) == classification[n] = "CHANNEL"

(* What connect_at and find_connection_at_loc rely on, for every pip the   *)
(* edge import takes: between two tracks, both are where the wire it comes *)
(* from is; between a track and a pin, the track is where the site is; and *)
(* two pins have their row of edge_with_mux.                               *)
PipsFindTheirTracks ==
  stage = "done" => \A p \in {q \in pips : Imported(q)} :
    /\ IsChannel(p.from) /\ IsChannel(p.to) =>
         \A n \in {p.from, p.to} : Meets(n, wires[p.from][p.tile])
    /\ \A n \in {p.from, p.to} :
         IsChannel(n) /\ ~IsChannel(Across(n, p)) => Meets(n, SitePlace(Across(n, p)))
    /\ ~IsChannel(p.from) /\ ~IsChannel(p.to) => p \in edge_with_mux

(* What pips lead to from n, of the pips ps.                               *)
ReachedBy(n, ps) ==
  LET Step(ns) == ns \union UNION {{p.from, p.to} : p \in {q \in ps : {q.from, q.to} \intersect ns # {}}}
      R[k \in 0 .. Cardinality(ps)] == IF k = 0 THEN {n} ELSE Step(R[k - 1])
  IN  R[Cardinality(ps)]

(* Nodes classified NULL are on no way between two pins: what the pips of  *)
(* the device connect, the pips that are imported connect.                 *)
NullNodesCutNoRoute ==
  stage = "done" =>
    LET all == {p \in pips : p.kind \in {"plain", "pad"}}
        pins == {n \in Nodes : HasPin(n)}
    IN  \A n \in pins : ReachedBy(n, all) \intersect pins
                          \subseteq ReachedBy(n, {p \in all : Imported(p)})
=============================================================================
