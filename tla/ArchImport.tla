----------------------------- MODULE ArchImport -----------------------------
(***************************************************************************)
(* The architecture from the connection database and Project X-Ray: the    *)
(* programs that the build runs for it, one after another.  Each tile type *)
(* has a recipe that says which program makes its block or its tile; then  *)
(* synthetic tiles are placed, and the architecture is written.            *)
(*                                                                         *)
(* The rows of a query come in any order, and so do the members of a set.  *)
(***************************************************************************)
EXTENDS ArchXml

CONSTANT Devices   \* databases with their recipes, regions and assignments

(* A physical tile is once in the grid and at a place of its own, and so is a *)
(* tile in the database; NULL places have no sites.                           *)
ASSUME GridAssumption ==
  \A d \in Devices :
    /\ d.grid \in Seq(ToSet(d.grid))
    /\ \A i, j \in DOMAIN d.grid :
         d.grid[i].name = d.grid[j].name \/ <<d.grid[i].x, d.grid[i].y>> = <<d.grid[j].x, d.grid[j].y>> => i = j
    /\ \A g \in ToSet(d.grid) : g.x \in Int /\ g.y \in Int /\ (g.type = "NULL" => ~g.sites)
    /\ \A t, u \in d.db.tiles : <<t.x, t.y>> = <<u.x, u.y>> => t = u

(* The tiles for constants are not in the device.  A tile of a NULL place is  *)
(* NULL, a VBRK becomes a tile of its own, and sites are where the grid has   *)
(* some.                                                                      *)
ASSUME TilesAssumption ==
  \A d \in Devices :
    /\ \A t \in d.db.tiles :
         /\ t.type \notin {SynthTileOf[s] : s \in Signals}
         /\ \A g \in ToSet(d.grid) :
              /\ g.name = t.phy /\ g.type = "NULL" => t.type = "NULL"
              /\ g.name \in t.phys /\ g.vbrk => t.phy = g.name
    /\ \A i \in d.db.instances : i.prohibited => GridInfo(d, i.phy).sites

(* A design with ports has regions, and the ports have types and names.       *)
ASSUME PortsAssumption ==
  \A d \in Devices :
    /\ d.regions \in Seq(ToSet(d.regions))
    /\ d.mode \in {"roi", "overlay"} => d.regions # <<>>
    /\ \A region \in ToSet(d.regions) :
         /\ region.ports \in Seq(ToSet(region.ports))
         /\ \A p \in ToSet(region.ports) : p.type \in DOMAIN TypeOrder /\ p.name \in ToSet(Alphabet)

(* The recipes that write a tile with the name.                               *)
Writes(r, tile) ==
  \/ r.how \in {"physical", "capacity"} /\ r.tile = tile
  \/ r.how = "equiv" /\ tile \in ToSet(r.tiles)

(* A tile is written once, and none has the name of a constant.  The sites of *)
(* a tile have a type and a place.  A tile with connections of its own is     *)
(* made of its sites, and they lead from an output to an input.               *)
ASSUME RecipesAssumption ==
  \A d \in Devices :
    /\ d.recipes \in Seq(ToSet(d.recipes))
    /\ \A r \in ToSet(d.recipes) : r.how = "capacity" =>
         /\ r.sites \in Seq(ToSet(r.sites))
         /\ \A s \in ToSet(r.sites) :
              /\ {"type", "x", "y", "pins"} \subseteq DOMAIN s
              /\ s.type \in ToSet(Alphabet) /\ s.x \in Int /\ s.y \in Int
         /\ \A q \in ToSet(d.recipes) : Writes(q, r.tile) => q = r
         /\ r.tile \notin {SynthTileOf[s] : s \in Signals}
    /\ \A x \in ZeroOffset(d) : \E r \in ToSet(d.recipes) :
         /\ r.how = "capacity" /\ r.tile = x.from[1]
         /\ \A p \in SitePins(r.sites) :
              (p.wire = x.from[2] => p.dir = "OUT") /\ (p.wire = x.to[2] => p.dir = "IN")

(* The sites at a tile are those of its type, in the same directions of each  *)
(* other and with the same wires; the database may lack some.                 *)
InstancesOf(d, t) == {i \in d.db.instances : i.phy = t.phy}

IsLaidOut(d, r, t, of) ==
  /\ \A i \in InstancesOf(d, t) :
       /\ i.x \in Int /\ i.y \in Int /\ d.db.sites[i.site].type = r.sites[of[i]].type
       /\ \A p \in r.sites[of[i]].pins :
            p.wire # NoName => d.db.wit[<<d.db.phyType[t.phy], p.wire>>].site = i.site
  /\ \A i, j \in InstancesOf(d, t) :
       /\ of[i] = of[j] => i = j
       /\ r.sites[of[i]].type = r.sites[of[j]].type =>
            /\ i.x < j.x <=> r.sites[of[i]].x < r.sites[of[j]].x
            /\ i.y < j.y <=> r.sites[of[i]].y < r.sites[of[j]].y

ASSUME SitesAssumption ==
  \A d \in Devices : \A r \in ToSet(d.recipes), t \in d.db.tiles :
    r.how = "capacity" /\ t.type = r.tile =>
      /\ t.site = "none"
      /\ \E of \in [InstancesOf(d, t) -> DOMAIN r.sites] : IsLaidOut(d, r, t, of)

(* The wires of the database are finitely many.                               *)
ASSUME WiresAssumption == \A d \in Devices : IsFiniteSet(d.db.wires)

(* A direct is so many places long, and has a switch of the database.         *)
ASSUME DirectsAssumption ==
  \A d \in Devices :
    /\ d.assigned.directs \in Seq(ToSet(d.assigned.directs))
    /\ \A x \in ToSet(d.assigned.directs) :
         x.dx \in Int /\ x.dy \in Int /\ x.switch \in d.switches \union {Delayless}

VARIABLES
  dev,     \* the device
  pc,      \* "tiles", "ports", "arch", "layout", "directs", "done" or "raised"
  todo,    \* the recipes that are left
  nets,    \* of a tile type: physical tiles, sets of nodes, and nodes left
  blocks,  \* the complex blocks
  tiles,   \* the sub tiles of each tile
  region,  \* the region whose ports are placed
  ports,   \* those that are left
  count,   \* its pads on each tile
  synth,   \* the synthetic tiles
  locs,    \* where the architecture has them
  arch     \* layout, extent, switches, segments and directs

vars == <<dev, pc, todo, nets, blocks, tiles, region, ports, count, synth, locs, arch>>

Init ==
  /\ dev \in Devices
  /\ pc = "tiles" /\ todo = dev.recipes
  /\ nets = <<>> /\ blocks = <<>> /\ tiles = <<>>
  /\ region = 0 /\ ports = <<>> /\ count = <<>>
  /\ synth = <<>> /\ locs = <<>> /\ arch = <<>>

-----------------------------------------------------------------------------
(* Blocks and tiles                                                          *)

Recipe(how) == pc = "tiles" /\ todo # <<>> /\ Head(todo).how = how

Raise == pc' = "raised" /\ UNCHANGED <<todo, nets, blocks, tiles>>

Write(newBlocks, newTiles) ==
  /\ blocks' = Over(newBlocks, blocks) /\ tiles' = Over(newTiles, tiles)
  /\ todo' = Tail(todo) /\ nets' = <<>> /\ UNCHANGED pc

WriteBlock(made) == IF made.ok THEN Write(Only(made.pb.name, made.pb), <<>>) ELSE Raise

WriteTile(name, made) == IF made.ok THEN Write(<<>>, Only(<<name>>, made.subs)) ELSE Raise

ElsewhereUnchanged == UNCHANGED <<dev, region, ports, count, synth, locs, arch>>

ImportFromPrjxray ==
  /\ \/ Recipe("sites") /\ WriteBlock(ImportTile(Head(todo)))
     \/ Recipe("fused") /\ WriteBlock(ImportFusedTile(Head(todo)))
     \/ Recipe("site_as_tile") /\ WriteBlock(ImportSiteAsTile(Head(todo)))
  /\ ElsewhereUnchanged

ImportTiles ==
  /\ \/ /\ Recipe("physical")
        /\ WriteTile(Head(todo).tile,
                     ImportPhysicalTile(blocks[Head(todo).tile],
                                        {blocks[b] : b \in Head(todo).equivalents}, dev.assigned))
     \/ Recipe("capacity") /\ WriteTile(Head(todo).tile, ImportTileCapacity(Head(todo), dev.assigned))
  /\ ElsewhereUnchanged

NetTypes == IF Recipe("database") THEN {Head(todo).tile}
            ELSE IF Recipe("equiv") THEN ToSet(Head(todo).tiles) ELSE {}

ReadNodes(type) ==
  /\ type \in NetTypes \ DOMAIN nets
  /\ \E phys \in Representatives(dev.db, type) :
       nets' = Over(Only(type, [phys |-> phys, sets |-> <<>>, left |-> NodesIn(dev.db, phys)]), nets)
  /\ UNCHANGED <<pc, todo, blocks, tiles>> /\ ElsewhereUnchanged

Expand(type) ==
  /\ type \in NetTypes \cap DOMAIN nets
  /\ \E node \in nets[type].left :
       nets' = [nets EXCEPT ![type].left = @ \ {node},
                            ![type].sets = IF Recipe("equiv")
                                           THEN EquivExpandNode(dev.db, nets[type].phys, @, node)
                                           ELSE ExpandNode(dev.db, nets[type].phys, @, node)]
  /\ UNCHANGED <<pc, todo, blocks, tiles>> /\ ElsewhereUnchanged

NetsAreRead == NetTypes \subseteq DOMAIN nets /\ \A type \in NetTypes : nets[type].left = {}

ImportFromDatabase ==
  /\ Recipe("database") /\ NetsAreRead
  /\ \E pick \in Picks(dev.db, Head(todo).tile), rows \in Orderings(SiteRows(dev.db, Head(todo).tile)) :
       WriteBlock(ImportTileFromDatabase(dev.db, Head(todo), rows, pick,
                                         NodeSets(nets[Head(todo).tile].sets)))
  /\ ElsewhereUnchanged

(* The blocks of the group that some of its tiles may hold, and the tiles.    *)
CreateEquivalents ==
  /\ Recipe("equiv") /\ NetsAreRead
  /\ LET q == Head(todo)
         netsOf == [t \in DOMAIN nets |-> NodeSets(nets[t].sets)]
         made == [b \in {c \in DOMAIN q.blocks : Hosts(dev.db, q, c) # <<>>} |->
                    CreatePbType(dev.db, q, b, netsOf)]
         new == [t \in ToSet(q.tiles) |-> CreateTile(dev.db, q, t, made, dev.assigned)]
     IN  IF /\ GroupIsSound(dev.db, q)
            /\ \A b \in DOMAIN made : made[b].ok
            /\ \A t \in DOMAIN new : new[t].ok
         THEN Write([b \in DOMAIN made |-> made[b].pb],
                    [n \in {<<t>> : t \in DOMAIN new} |-> new[n[1]].subs])
         ELSE Raise
  /\ ElsewhereUnchanged

-----------------------------------------------------------------------------
(* Synthetic tiles                                                           *)

HasPorts(d) == d.mode \in {"roi", "overlay"}

StartRegion(n) ==
  /\ region' = n /\ count' = <<>>
  /\ ports' = SortedPorts(dev, dev.regions[n].ports)

FinishTiles ==
  /\ pc = "tiles" /\ todo = <<>>
  /\ IF HasPorts(dev) THEN pc' = "ports" /\ StartRegion(1)
     ELSE pc' = "arch" /\ UNCHANGED <<region, ports, count>>
  /\ UNCHANGED <<dev, todo, nets, blocks, tiles, synth, locs, arch>>

PlacePort ==
  /\ pc = "ports" /\ ports # <<>>
  /\ \E at \in WiresForPort(dev, dev.regions[region], Head(ports)) :
       IF MayPlace(dev, dev.regions[region], synth, count, at[1])
       THEN /\ synth' = AddPort(dev, synth, count, Head(ports), at)
            /\ count' = CountPad(count, at[1])
            /\ ports' = Tail(ports) /\ UNCHANGED pc
       ELSE pc' = "raised" /\ UNCHANGED <<synth, count, ports>>
  /\ UNCHANGED <<dev, todo, nets, blocks, tiles, region, locs, arch>>

(* The node of a port has no wire on the other side.                          *)
LosePort ==
  /\ pc = "ports" /\ ports # <<>>
  /\ WiresForPort(dev, dev.regions[region], Head(ports)) = {}
  /\ pc' = "raised"
  /\ UNCHANGED <<dev, todo, nets, blocks, tiles, region, ports, count, synth, locs, arch>>

NextRegion ==
  /\ pc = "ports" /\ ports = <<>> /\ region < Len(dev.regions)
  /\ StartRegion(region + 1)
  /\ UNCHANGED <<dev, pc, todo, nets, blocks, tiles, synth, locs, arch>>

FinishPorts ==
  /\ pc = "ports" /\ ports = <<>> /\ region = Len(dev.regions)
  /\ CASE IsOverlay(dev) -> pc' = "arch" /\ UNCHANGED synth
       [] ~IsOverlay(dev) /\ MayPlaceConstants(dev, synth) ->
            pc' = "arch" /\ synth' = AddConstants(dev, synth, ConstantTiles(dev, synth))
       [] OTHER -> pc' = "raised" /\ UNCHANGED synth
  /\ UNCHANGED <<dev, todo, nets, blocks, tiles, region, ports, count, locs, arch>>

-----------------------------------------------------------------------------
(* The architecture                                                          *)

ReadSynthTiles ==
  /\ pc = "arch" /\ OneTileAtEachLoc(synth)
  /\ pc' = "constants" /\ locs' = SynthLocMap(synth)
  /\ tiles' = Over(SynthTileTypes(synth), tiles)
  /\ blocks' = Over(IF HasPorts(dev) THEN PadBlocks(IsOverlay(dev)) ELSE <<>>, blocks)
  /\ UNCHANGED <<dev, todo, nets, region, ports, count, synth, arch>>

(* Two of them are at the same place.                                         *)
RefuseSynthTiles ==
  /\ pc = "arch" /\ ~OneTileAtEachLoc(synth)
  /\ pc' = "raised"
  /\ UNCHANGED <<dev, todo, nets, blocks, tiles, region, ports, count, synth, locs, arch>>

(* Only the pads of a region come with constants.                             *)
InsertConstantTiles ==
  /\ pc = "constants"
  /\ IF dev.mode = "roi" THEN locs' = locs /\ pc' = "layout"
     ELSE IF MayInsertConstants(dev) THEN locs' = Over(ConstantLocMap(dev), locs) /\ pc' = "layout"
     ELSE pc' = "raised" /\ UNCHANGED locs
  /\ tiles' = Over(ConstantTileTypes, tiles)
  /\ blocks' = Over(ConstantBlocks, blocks)
  /\ UNCHANGED <<dev, todo, nets, region, ports, count, synth, arch>>

EmitLayout ==
  /\ pc = "layout"
  /\ LET layout == Layout(dev, locs, tiles)
     IN  IF \A l \in DOMAIN layout : layout[l].prefix.ok
         THEN /\ pc' = "directs"
              /\ arch' = [layout |-> layout, extent |-> Extent(dev), switches |-> Switches(dev),
                          segments |-> Segments(dev), directs |-> {}]
         ELSE pc' = "raised" /\ UNCHANGED arch
  /\ UNCHANGED <<dev, todo, nets, blocks, tiles, region, ports, count, synth, locs>>

EmitDirects ==
  /\ pc = "directs"
  /\ IF ZeroOffsetsAreSound(dev, tiles)
     THEN pc' = "done" /\ arch' = [arch EXCEPT !.directs = Directs(dev, tiles)]
     ELSE pc' = "raised" /\ UNCHANGED arch
  /\ UNCHANGED <<dev, todo, nets, blocks, tiles, region, ports, count, synth, locs>>

Next ==
  \/ ImportFromPrjxray \/ ImportTiles
  \/ \E type \in NetTypes : ReadNodes(type) \/ Expand(type)
  \/ ImportFromDatabase \/ CreateEquivalents
  \/ FinishTiles \/ PlacePort \/ LosePort \/ NextRegion \/ FinishPorts
  \/ ReadSynthTiles \/ RefuseSynthTiles \/ InsertConstantTiles \/ EmitLayout \/ EmitDirects

Spec == Init /\ [][Next]_vars
-----------------------------------------------------------------------------
(* The pins of sites that a recipe for a block has, with the ports of the    *)
(* primitive of each.                                                        *)
PinsOfRecipe(r) ==
  CASE r.how = "sites" ->
         LET types == [i \in DOMAIN r.sites |-> r.sites[i].type]
         IN  UNION {{<<pin, r.cells[r.types[types[i]][Occurrence(types, i)]]>> : pin \in r.sites[i].pins} :
                      i \in {j \in DOMAIN types : types[j] \in DOMAIN r.types}}
    [] r.how = "fused" -> (UNION {FusedPins(site) : site \in ToSet(r.sites)}) \X {r.cell}
    [] r.how = "site_as_tile" -> {[pin EXCEPT !.wire = pin.name] : pin \in r.pins} \X {r.cell}
    [] r.how = "database" ->
         UNION {SitePinsOf(dev.db, r.tile, s) \X {r.cells[r.types[dev.db.sites[s].type][1]]} :
                  s \in SitesIn(dev.db, r.tile)}
    [] OTHER -> {}

(* The name that a bit of a port has in Project X-Ray.                        *)
BitName(port, i) ==
  IF i = -1 THEN port ELSE <<port[1], port[2] \o (IF i < 10 THEN <<i>> ELSE <<i \div 10, i % 10>>)>>

BlockPorts(block) == block.ins \union block.outs

(* Each pin that a block has a port for is connected with the bit of its      *)
(* primitive that has its name, and with no other, although names of ports    *)
(* may themselves end with digits.                                            *)
PinsReachTheirBits ==
  \A r \in ToSet(dev.recipes) :
    \A c \in {d \in PinsOfRecipe(r) : r.tile \in DOMAIN blocks /\ d[1].wire \in BlockPorts(blocks[r.tile])} :
      \A port \in ToSet(c[2].ports) : \A i \in -1 .. port.width - 1 :
        Direct(r.tile, c[2].name, c[1], <<port.name, i>>) \in blocks[r.tile].directs
          <=> BitName(port.name, i) = c[1].name

-----------------------------------------------------------------------------
(* The nodes that the pips of some physical tiles connect with a node, and    *)
(* those of a tile.                                                           *)
Connected(db, phys, node) ==
  LET Near[n \in 0 .. Cardinality(NodesIn(db, phys))] ==
        IF n = 0 THEN {node}
        ELSE LET near == Near[n - 1] IN near \union UNION {OnePipAway(db, phys, m) : m \in near}
  IN  Near[Cardinality(NodesIn(db, phys))]

Net(t, node) == Connected(dev.db, t.phys, node)

(* The sets that nodes were put into are what the pips connect, whichever     *)
(* node came first: sets that meet have become one, and nothing else has.     *)
NetsAreConnected ==
  \A type \in DOMAIN nets :
    LET net == nets[type]
    IN  net.left = {} => /\ DOMAIN net.sets = NodesIn(dev.db, net.phys)
                         /\ \A n \in DOMAIN net.sets : net.sets[n] = Connected(dev.db, net.phys, n)

PinsIn(t, net) == {w \in PinsOn(dev.db, net) : w.tile = t.id}

TilePins(t) == PinsIn(t, NodesIn(dev.db, t.phys))

Pins(t, net, dir) == {w \in PinsIn(t, net) : Wit(dev.db, w).dir = dir}

(* A net that ends at pins of the tile only.                                  *)
StaysInside(t, net) ==
  Pins(t, net, "IN") # {} /\ Pins(t, net, "OUT") # {} /\ PinsOn(dev.db, net) = PinsIn(t, net)

(* The pairs of an output and an input in a net.                              *)
Pairs(t) ==
  UNION {Pins(t, Net(t, w.node), "OUT") \X Pins(t, Net(t, w.node), "IN") : w \in TilePins(t)}

(* Tiles of a type, or of a group, are taken to be alike: the same pins are   *)
(* connected in all of them, and go on to other tiles, of other types.        *)
SitePin(w) == Wit(dev.db, w).pin

AreAlike(types) ==
  LET group == {t \in dev.db.tiles : t.type \in types}
  IN  /\ \A t \in group, w \in UNION {TilePins(u) : u \in group} :
           w \in TilePins(t) => \A v \in PinsOn(dev.db, Net(t, w.node)) :
                                   v.tile = t.id \/ TypeOfWire(dev.db, v) # t.type
      /\ \A t, u \in group : \A v \in TilePins(t), w \in TilePins(u) :
           SitePin(v) = SitePin(w) => (StaysInside(t, Net(t, v.node)) <=> StaysInside(u, Net(u, w.node)))
      /\ \A t, u \in group :
           {<<SitePin(p[1]), SitePin(p[2])>> : p \in Pairs(t)} = {<<SitePin(p[1]), SitePin(p[2])>> : p \in Pairs(u)}

CellEnds(cell, w) == {<<cell.name>> \o port : port \in FindPort(SitePin(w), cell.ports)}

(* A block made from the database is what every tile of its type is: it has   *)
(* a port just for the pins whose nets go on outside, and connects primitives *)
(* just where the tile does.  The nets were read from one of the tiles, with  *)
(* the nodes in any order.                                                    *)
BlockIsTile(r, t) ==
  LET Cell(w) == r.cells[r.types[Wit(dev.db, w).siteType][1]]
      cells == {r.cells[c].name : c \in DOMAIN r.cells}
  IN  /\ \A w \in TilePins(t) :
           w.name \in BlockPorts(blocks[r.tile]) <=> ~StaysInside(t, Net(t, w.node))
      /\ {d \in blocks[r.tile].directs : d[1][1] \in cells /\ d[2][1] \in cells} =
           UNION {CellEnds(Cell(p[1]), p[1]) \X CellEnds(Cell(p[2]), p[2]) : p \in Pairs(t)}

PbTypeIsTheTile ==
  \A r \in ToSet(dev.recipes) :
    r.how = "database" /\ r.tile \in DOMAIN blocks /\ AreAlike({r.tile}) =>
      \A t \in TilesOf(dev.db, r.tile) : BlockIsTile(r, t)

EquivEnds(q, block, w) ==
  LET pin == BlockPin(dev.db, q, block, w)
  IN  {<<q.cells[pin[1]].name>> \o port : port \in EquivFindPort(pin[2], q.cells[pin[1]].ports)}

(* A block that several types of tiles may hold has all of its ports in each  *)
(* of them, at the wire of the pin that the port is named for, and connects   *)
(* primitives just where each tile does.                                      *)
EquivalentTilesFit ==
  \A q \in {r \in ToSet(dev.recipes) : r.how = "equiv"} :
    {<<t>> : t \in ToSet(q.tiles)} \subseteq DOMAIN tiles /\ AreAlike(ToSet(q.tiles)) =>
      \A type \in ToSet(q.tiles) : \A site \in tiles[<<type>>][1].sites :
        /\ {m[2] : m \in site[2]} = BlockPorts(blocks[site[1]])
        /\ \A m \in site[2] : \E k \in PinWits(dev.db, type) :
             k[2] = m[1] /\ m[2] \in {PortOf(<<s, dev.db.wit[k].pin>>) :
                                         s \in {dev.db.wit[k].siteType, Remapped(q, dev.db.wit[k].siteType)}}
        /\ IsSingle(q, site[1])
           \/ \A t \in TilesOf(dev.db, type) :
                {d \in blocks[site[1]].directs : d[1][1] # site[1] /\ d[2][1] # site[1]} =
                  UNION {EquivEnds(q, site[1], p[1]) \X EquivEnds(q, site[1], p[2]) : p \in Pairs(t)}

-----------------------------------------------------------------------------
(* The sub tile with the instance z of a tile.                                *)
SubTileAt(subs, z) ==
  CHOOSE i \in DOMAIN subs : /\ Capacity(SubSeq(subs, 1, i - 1)) <= z
                             /\ z < Capacity(SubSeq(subs, 1, i))

(* The instance of its tile that a port of the design was given is a pad of   *)
(* its direction: the ports were numbered by one program in an order that     *)
(* another program's sub tiles have to follow.                                *)
PadsHaveTheirPlace ==
  locs # <<>> =>
    \A t \in {u \in DOMAIN synth : ~IsConstant(synth[u])} :
      LET subs == tiles[synth[t].name]
          pins == synth[t].pins
      IN  /\ Capacity(subs) = Len(pins)
          /\ {pins[i].z : i \in DOMAIN pins} = 0 .. Len(pins) - 1
          /\ \A i \in DOMAIN pins :
               IF pins[i].type = "output" THEN subs[SubTileAt(subs, pins[i].z)].outs # {}
               ELSE subs[SubTileAt(subs, pins[i].z)].ins # {}

IsDrawn == pc \in {"directs", "done"}

(* Tiles that another tile of the same place does not hide.                   *)
CannotBePlaced(l) == \E t \in dev.db.tiles : <<t.x, t.y>> = l /\ HasProhibitedSites(dev, t)

(* Each pad is in the layout, also where the region ends, and each constant   *)
(* is there once.                                                             *)
SynthTilesAreEmitted ==
  IsDrawn =>
    /\ \A t \in DOMAIN synth : ~CannotBePlaced(synth[t].loc) =>
         synth[t].loc \in DOMAIN arch.layout /\ arch.layout[synth[t].loc].type = SynthName(synth[t])
    /\ \A s \in Signals : Cardinality({l \in DOMAIN arch.layout : arch.layout[l].type = <<SynthTileOf[s]>>}) = 1

TileAt(l) == CHOOSE t \in dev.db.tiles : <<t.x, t.y>> = l

(* The sites that the wires of a sub tile are pins of.                        *)
SitesOfSubTile(t, sub) == {dev.db.wit[<<dev.db.phyType[t.phy], wire>>].site : wire \in sub.ins \union sub.outs}

(* The prefixes of a tile of several sites are those of its sub tiles, in the *)
(* order that VPR numbers these in.                                           *)
PrefixesFollowTheSubTiles ==
  IsDrawn =>
    \A r \in {q \in ToSet(dev.recipes) : q.how = "capacity"} :
      \A l \in {m \in DOMAIN arch.layout : arch.layout[m].type = <<r.tile>>} :
        LET prefixes == arch.layout[l].prefix.sites
            t == TileAt(l)
            Of(site) == {MakePrefix(dev.db.sites[site].type, i.x, i.y) :
                           i \in {j \in dev.db.instances : j.phy = t.phy /\ j.site = site}}
        IN  \A i \in DOMAIN prefixes :
              \A site \in SitesOfSubTile(t, tiles[<<r.tile>>][i]) : prefixes[i] \in Of(site)

(* Whatever equivalent tile a block is placed in, the tile has a name for     *)
(* each placeholder in the prefixes of the block.                             *)
PlaceholdersAreFilled ==
  IsDrawn =>
    \A q \in {r \in ToSet(dev.recipes) : r.how = "equiv"} :
      \A l \in {m \in DOMAIN arch.layout : arch.layout[m].type[1] \in ToSet(q.tiles)} :
        \A site \in tiles[arch.layout[l].type][1].sites :
          \A cell \in {c \in blocks[site[1]].cells : c[2] # <<>>} :
            {cell[2][1], cell[2][2]} \subseteq {h[1] : h \in arch.layout[l].prefix.holders}

(* A direct within a tile leads from the sub tile with the one port to that   *)
(* with the other; there is one between two pins at most; and its switch is   *)
(* in the architecture.                                                       *)
DirectsMeetTheirPorts ==
  pc = "done" =>
    /\ \A x, y \in arch.directs : x.from = y.from /\ x.to = y.to => x = y
    /\ \A x \in arch.directs :
         /\ x.switch \subseteq arch.switches
         /\ Offset(x) = 0 =>
              \E i, j \in DOMAIN tiles[<<x.from[1]>>] :
                /\ x.from[2] \in tiles[<<x.from[1]>>][i].outs /\ x.to[2] \in tiles[<<x.to[1]>>][j].ins
                /\ j = i + x.dz
=============================================================================
