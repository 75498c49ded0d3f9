------------------------------ MODULE TileNets ------------------------------
(* Tile types that are made from the connection database: the nets inside a   *)
(* tile, which become connections inside its block, and the pins that keep a  *)
(* port (xilinx/common/utils/prjxray_tile_import.py).  The database "db" has  *)
(* the tiles, their physical tiles with types and places, and the wires,      *)
(* pips, sites and site instances.  A type of physical tiles is its key; a    *)
(* node has one site pin at most, which form_channels asserts.                *)
EXTENDS TileTypes

(* The row of wire_in_tile of a wire.                                         *)
Wit(db, w) == db.wit[<<db.phyType[w.phy], w.name>>]

TilesOf(db, type) == {t \in db.tiles : t.type = type}

TypeOfWire(db, w) == (CHOOSE t \in db.tiles : t.id = w.tile).type

PhyTilesOf(db, type) == UNION {t.phys : t \in TilesOf(db, type)}

WitsOf(db, type) == {key \in DOMAIN db.wit : db.wit[key].type = type}

PinWits(db, type) == {key \in WitsOf(db, type) : db.wit[key].pin # NoName}

-----------------------------------------------------------------------------
(* expand_nodes_in_tile_type                                                 *)

(* GROUP BY takes one physical tile of each type, whichever the database      *)
(* comes to.                                                                  *)
Representatives(db, type) ==
  {r \in SUBSET PhyTilesOf(db, type) :
     \A p \in PhyTilesOf(db, type) :
       Cardinality({q \in r : db.phyType[q] = db.phyType[p]}) = 1}

NodesIn(db, phys) == {w.node : w \in {v \in db.wires : v.phy \in phys}}

(* The nodes that a pip of these tiles joins to the node; pseudo pips do not  *)
(* join.                                                                      *)
OnePipAway(db, phys, node) ==
  {w.node : w \in {v \in db.wires :
     /\ v.phy \in phys
     /\ \E u \in db.wires, pip \in db.pips :
          /\ u.node = node /\ u.phy = v.phy
          /\ pip.type = db.phyType[v.phy] /\ ~pip.pseudo
          /\ pip.ends = {u.name, v.name}}}

SetOf(sets, node) == IF node \in DOMAIN sets THEN sets[node] ELSE {node}

(* As Merged, but the sets of the others are left alone.                      *)
MergedWithNeighbours(sets, node, others) == SetOf(sets, node) \union others

Merged(sets, node, others) == SetOf(sets, node) \union UNION {SetOf(sets, n) : n \in others}

Share(sets, merged) ==
  [n \in DOMAIN sets \union merged |-> IF n \in merged THEN merged ELSE sets[n]]

ExpandNode(db, phys, sets, node) ==
  Share(sets, Merged(sets, node, OnePipAway(db, phys, node)))

NodeSets(sets) == {sets[n] : n \in DOMAIN sets}

-----------------------------------------------------------------------------
(* find_connections                                                          *)

PinsOn(db, nodes) == {w \in db.wires : w.node \in nodes /\ Wit(db, w).pin # NoName}

(* The wires with a site pin in a tile of the type, and those elsewhere.  It  *)
(* is the type that counts, not the tile.                                     *)
Inside(db, type, nodes) == {w \in PinsOn(db, nodes) : TypeOfWire(db, w) = type}

Outside(db, type, nodes) == PinsOn(db, nodes) \ Inside(db, type, nodes)

Named(db, wires, dir) == {w.name : w \in {v \in wires : Wit(db, v).dir = dir}}

(* A net keeps its ports unless all of its ends are pins of the tile.         *)
KeepsPorts(db, type, nodes) ==
  \/ Named(db, Inside(db, type, nodes), "IN") = {}
  \/ Named(db, Inside(db, type, nodes), "OUT") = {}
  \/ Outside(db, type, nodes) # {}

ExternalWires(db, type, nets) ==
  UNION {{w.name : w \in Inside(db, type, nodes)} : nodes \in {n \in nets : KeepsPorts(db, type, n)}}

(* Each input pin that an output pin of the tile drives.                      *)
InternalConnections(db, type, nets) ==
  UNION {Named(db, Inside(db, type, nodes), "IN") \X Named(db, Inside(db, type, nodes), "OUT") :
           nodes \in nets}

PinOf(db, w) == <<Wit(db, w).siteType, Wit(db, w).pin>>

PinOfName(db, type, nets, name) ==
  PinOf(db, CHOOSE w \in Inside(db, type, UNION nets) : w.name = name)

NetsAreSound(db, type, nets) ==
  /\ \A v, w \in Inside(db, type, UNION nets) : v.name = w.name => PinOf(db, v) = PinOf(db, w)
  /\ \A w \in Inside(db, type, UNION nets) : Wit(db, w).dir \in {"IN", "OUT"}
  /\ \A nodes \in nets : Cardinality(Named(db, Inside(db, type, nodes), "OUT")) <= 1
  /\ \A c, d \in InternalConnections(db, type, nets) : c[1] = d[1] => c[2] = d[2]

-----------------------------------------------------------------------------
(* import_tile_from_database                                                 *)

SitesIn(db, type) == {db.wit[key].site : key \in PinWits(db, type)}

SiteTypesIn(db, type) == {db.sites[s].type : s \in SitesIn(db, type)}

(* Of each type of site one of the first type of physical tile that has it.   *)
Picks(db, type) ==
  LET Keys(t) == {key \in PinWits(db, type) : db.sites[db.wit[key].site].type = t}
      First(t) == {key \in Keys(t) : \A k \in Keys(t) : key[1] <= k[1]}
  IN  {f \in [SiteTypesIn(db, type) -> SitesIn(db, type)] :
         \A t \in DOMAIN f : \E key \in First(t) : db.wit[key].site = f[t]}

PickedWits(db, type, pick) == {key \in PinWits(db, type) : \E t \in DOMAIN pick : pick[t] = db.wit[key].site}

(* Every type of site with the parity of the rows it is in: these come in no  *)
(* order, and each takes the next instance of its type.                       *)
SiteRows(db, type) ==
  {<<db.sites[i.site].type, i.y % 2>> : i \in {j \in db.instances : j.site \in SitesIn(db, type)}}

Orderings(S) == {f \in [1..Cardinality(S) -> S] : {f[i] : i \in DOMAIN f} = S}

(* The sites of the second query, one at each place, in the order of types.   *)
PlacedSites(db, type) ==
  LET Place(s) == [type |-> db.sites[s].type, x |-> db.sites[s].x, y |-> db.sites[s].y]
      Least(place) == CHOOSE s \in SitesIn(db, type) : Place(s) = place
      places == CHOOSE o \in Orderings({Place(s) : s \in SitesIn(db, type)}) :
                  \A i, j \in DOMAIN o : i < j => SiteBefore(o[i], o[j])
  IN  [i \in DOMAIN places |-> Least(places[i])]

Normalized ==
  [IOB33M |-> "IOB", IOB33S |-> "IOB", IOB33 |-> "IOB", ILOGICE3 |-> "ILOGIC",
   OLOGICE3 |-> "OLOGIC", IDELAYE2 |-> "IDELAY"]

NormalizeSiteType(type) == IF type \in DOMAIN Normalized THEN Normalized[type] ELSE type

(* The first by name of the physical tiles that have the type of site.        *)
GetTilePrefix(db, type, siteType) ==
  LET types == {db.sites[s].phyType : s \in {t \in DOMAIN db.sites : db.sites[t].type = siteType}}
      names == {db.typeName[t] : t \in types \cap {db.phyType[p] : p \in PhyTilesOf(db, type)}}
  IN  CHOOSE n \in names : \A m \in names \ {n} : Before(n, m)

CellPrefix(db, type, row) ==
  IF \E t \in TilesOf(db, type) : Cardinality(t.phys) > 1
  THEN <<GetTilePrefix(db, type, row[1]), NormalizeSiteType(row[1]), row[2]>>
  ELSE <<NormalizeSiteType(row[1]), row[2]>>

RowTypes(rows) == [i \in DOMAIN rows |-> rows[i][1]]

(* The instance of row i, and that of site i: the second query is numbered    *)
(* like the first.                                                            *)
Instance(r, rows, i) == r.types[rows[i][1]][Occurrence(RowTypes(rows), i)]

InstanceOfSite(db, r, rows, i) ==
  r.types[db.sites[PlacedSites(db, r.tile)[i]].type][Occurrence(RowTypes(rows), i)]

CellsAreSound(db, r, rows) ==
  LET Used(type, i) == Occurrence(RowTypes(rows), i) <= Len(r.types[type])
  IN  /\ SiteTypesIn(db, r.tile) \subseteq DOMAIN r.types
      /\ \A i \in DOMAIN rows : Used(rows[i][1], i)
      /\ \A i, j \in DOMAIN rows : Instance(r, rows, i) = Instance(r, rows, j) => i = j
      /\ \A i \in DOMAIN PlacedSites(db, r.tile) :
           /\ i \in DOMAIN rows
           /\ Used(db.sites[PlacedSites(db, r.tile)[i]].type, i)
           /\ \E j \in DOMAIN rows : Instance(r, rows, j) = InstanceOfSite(db, r, rows, i)

SitePinsOf(db, type, site) ==
  {[name |-> db.wit[key].pin, wire |-> key[2], dir |-> db.wit[key].dir] :
     key \in {k \in PinWits(db, type) : db.wit[k].site = site}}

(* Site->Site: of the connected pins those for which both have a port.        *)
SiteToSite(r, internal) ==
  LET cell(t) == r.cells[r.types[t][1]]
      Ends(pin) == {<<cell(pin[1]).name>> \o port : port \in FindPort(pin[2], cell(pin[1]).ports)}
  IN  UNION {Ends(c[2]) \X Ends(c[1]) : c \in internal}

Internal(db, type, nets) ==
  {<<PinOfName(db, type, nets, c[1]), PinOfName(db, type, nets, c[2])>> :
     c \in InternalConnections(db, type, nets)}

ConnectedPins(db, r, rows, external, i) ==
  PinDirects(r.tile, r.cells[InstanceOfSite(db, r, rows, i)],
             {p \in SitePinsOf(db, r.tile, PlacedSites(db, r.tile)[i]) : p.wire \in external})

PinsAreSound(db, r, rows, nets, external) ==
  /\ \A s \in SitesIn(db, r.tile), p \in UNION {SitePinsOf(db, r.tile, t) : t \in SitesIn(db, r.tile)} :
       p \in SitePinsOf(db, r.tile, s) /\ p.wire \in external =>
         PinOfName(db, r.tile, nets, p.wire) = <<db.sites[s].type, p.name>>
  /\ \A i \in DOMAIN PlacedSites(db, r.tile) :
       ~PinsRaise(r.cells[InstanceOfSite(db, r, rows, i)],
                  SitePinsOf(db, r.tile, PlacedSites(db, r.tile)[i]))
  /\ \A c \in Internal(db, r.tile, nets) :
       Len(r.types[c[1][1]]) = 1 /\ Len(r.types[c[2][1]]) = 1

DatabasePbType(db, r, rows, pick, nets, external) ==
  LET ports(dir) == {key[2] : key \in {k \in PickedWits(db, r.tile, pick) : db.wit[k].dir = dir}}
  IN  [name |-> r.tile,
       ins |-> ports("IN") \cap external, outs |-> ports("OUT") \cap external,
       cells |-> {<<r.cells[Instance(r, rows, i)].name, CellPrefix(db, r.tile, rows[i])>> : i \in DOMAIN rows},
       directs |-> UNION {ConnectedPins(db, r, rows, external, i) : i \in DOMAIN PlacedSites(db, r.tile)}
                   \union SiteToSite(r, Internal(db, r.tile, nets))]

ImportTileFromDatabase(db, r, rows, pick, nets) ==
  LET external == ExternalWires(db, r.tile, nets)
      ok == /\ \A k, l \in PickedWits(db, r.tile, pick) : k[2] = l[2] => k = l
            /\ \A k \in PickedWits(db, r.tile, pick) : db.wit[k].dir \in {"IN", "OUT"}
            /\ NetsAreSound(db, r.tile, nets)
            /\ CellsAreSound(db, r, rows)
            /\ PinsAreSound(db, r, rows, nets, external)
  IN  [ok |-> ok,
       pb |-> IF ok THEN DatabasePbType(db, r, rows, pick, nets, external)
              ELSE PbType(r.tile, {}, {}, {})]
=============================================================================
