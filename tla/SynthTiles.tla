----------------------------- MODULE SynthTiles -----------------------------
(* The synthetic tiles through which a region of the device, or what an       *)
(* overlay leaves of it, is connected to the rest                             *)
(* (xilinx/common/utils/prjxray_create_synth_tiles.py).  A device "d" has the *)
(* grid of Project X-Ray, in its order, the database, and the regions with    *)
(* their ports.  The synthetic tiles made are by physical tile.               *)
EXTENDS TileNets

IsOverlay(d) == d.mode = "overlay"

GridInfo(d, phy) == CHOOSE g \in ToSet(d.grid) : g.name = phy

(* prjxray.roi and prjxray.overlay *)
InRegion(region, g) ==
  /\ region.lo[1] <= g.x /\ g.x <= region.hi[1]
  /\ region.lo[2] <= g.y /\ g.y <= region.hi[2]

OutsideRegions(d, g) == \A i \in DOMAIN d.regions : ~InRegion(d.regions[i], g)

-----------------------------------------------------------------------------
(* Where a port is connected                                                 *)

(* The tiles with something in them that a physical tile has become.          *)
VprTilesOf(d, phy) == {t \in d.db.tiles : phy \in t.phys /\ t.type # "NULL"}

MapTileToVprCoord(d, phy) ==
  LET t == CHOOSE u \in d.db.tiles : u \in VprTilesOf(d, phy) IN <<t.x, t.y>>

TileWith(d, w) == CHOOSE t \in d.db.tiles : t.id = w.tile

(* A wire of the design's side; a tile is where its first physical tile is.   *)
IsOnOurSide(d, region, w) == IsOverlay(d) # InRegion(region, GridInfo(d, TileWith(d, w).phy))

Gap(a, b) == IF a < b THEN b - a ELSE a - b

WireDistance(d, v, w) ==
  Gap(TileWith(d, v).x, TileWith(d, w).x) + Gap(TileWith(d, v).y, TileWith(d, w).y)

(* A wire of the other side that is as close as any to one of this side.      *)
WiresAcross(d, region, wires) ==
  LET ins == {w \in wires : IsOnOurSide(d, region, w)}
      outs == wires \ ins
  IN  {j \in outs : \E i \in ins : \A k \in ins, l \in outs :
         WireDistance(d, i, j) <= WireDistance(d, k, l)}

NodeWires(d, wire) ==
  {w \in d.db.wires : \E v \in d.db.wires : v.phy = wire[1] /\ v.name = wire[2] /\ v.node = w.node}

FindWireFromNode(d, region, wire) ==
  {<<w.phy, w.name>> : w \in WiresAcross(d, region, NodeWires(d, wire))}

(* A port names a wire, or any wire of its node.                              *)
WiresForPort(d, region, port) ==
  IF port.isWire THEN {port.at} ELSE FindWireFromNode(d, region, port.at)

-----------------------------------------------------------------------------
(* The pads                                                                  *)

TypeOrder == [clk |-> 1, in |-> 2, out |-> 3]

(* As PortBefore, but an overlay has the order of a region.                   *)
PortBeforeAlways(d, a, b) ==
  \/ TypeOrder[a.type] < TypeOrder[b.type]
  \/ a.type = b.type /\ Before(a.name, b.name)

(* By type, the other way round for an overlay, and then by name.             *)
PortBefore(d, a, b) ==
  \/ IF IsOverlay(d) THEN TypeOrder[a.type] > TypeOrder[b.type] ELSE TypeOrder[a.type] < TypeOrder[b.type]
  \/ a.type = b.type /\ Before(a.name, b.name)

SortedPorts(d, ports) ==
  InOrder(ports, {e \in (DOMAIN ports) \X (DOMAIN ports) : PortBefore(d, ports[e[1]], ports[e[2]])})

(* What leaves the design is an input of its pad.                             *)
PortType(d, port) == IF (port.type = "out") # IsOverlay(d) THEN "input" ELSE "output"

(* A tile on the design's own side has no site, and the tiles of a region     *)
(* count their own pads only.                                                 *)
MayPlace(d, region, synth, count, tile) ==
  /\ IsOverlay(d) # InRegion(region, GridInfo(d, tile)) => ~GridInfo(d, tile).sites
  /\ Cardinality(VprTilesOf(d, tile)) = 1
  /\ tile \in DOMAIN synth => tile \in DOMAIN count

Counted(count, tile) == (IF tile \in DOMAIN count THEN count[tile] ELSE 0)

Pin(d, port, wire, z) ==
  [wire |-> wire, pad |-> port.name, type |-> PortType(d, port), clock |-> port.type = "clk", z |-> z]

(* The name of a tile has its number.                                         *)
NewTile(d, synth, tile) ==
  [loc |-> MapTileToVprCoord(d, tile), name |-> <<"SYN-IOPAD", Cardinality(DOMAIN synth)>>,
   pins |-> <<>>, outside |-> {}]

AddPort(d, synth, count, port, at) ==
  LET old == IF at[1] \in DOMAIN synth THEN synth[at[1]] ELSE NewTile(d, synth, at[1])
      new == [old EXCEPT !.pins = Append(@, Pin(d, port, at[2], Counted(count, at[1]))),
                         !.outside = @ \union port.outside]
  IN  Over(Only(at[1], new), synth)

CountPad(count, tile) == Over(Only(tile, Counted(count, tile) + 1), count)

-----------------------------------------------------------------------------
(* The constants                                                             *)

(* The tiles for the constants so far, the last one found first.              *)
Shifted(found, g) ==
  IF Len(found) < 2 \/ (g.x < found[1].x /\ g.y < found[1].y)
  THEN <<g>> \o SubSeq(found, 1, IF found = <<>> THEN 0 ELSE 1)
  ELSE found

Candidates(d, synth) ==
  {g \in ToSet(d.grid) : g.name \notin DOMAIN synth /\ InRegion(d.regions[1], g) /\ g.vbrk}

(* One place of the grid after another.                                       *)
ConstantTiles(d, synth) ==
  LET Found[n \in 0 .. Len(d.grid)] ==
        IF n = 0 THEN <<>>
        ELSE IF d.grid[n] \in Candidates(d, synth) THEN Shifted(Found[n - 1], d.grid[n])
        ELSE Found[n - 1]
  IN  Found[Len(d.grid)]

MayPlaceConstants(d, synth) ==
  /\ \A g \in Candidates(d, synth) : ~g.sites
  /\ Len(ConstantTiles(d, synth)) = 2
  /\ \A g \in ToSet(ConstantTiles(d, synth)) : Cardinality(VprTilesOf(d, g.name)) = 1

ConstantTile(d, tile, signal) ==
  [loc |-> MapTileToVprCoord(d, tile), name |-> <<signal, 0>>, outside |-> {},
   pins |-> <<[wire |-> <<<<signal>>, <<>>>>, pad |-> signal, type |-> signal, clock |-> FALSE, z |-> 0]>>]

AddConstants(d, synth, found) ==
  Over(Only(found[1].name, ConstantTile(d, found[1].name, "VCC")),
       Over(Only(found[2].name, ConstantTile(d, found[2].name, "GND")), synth))
=============================================================================
