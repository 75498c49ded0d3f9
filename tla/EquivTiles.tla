----------------------------- MODULE EquivTiles -----------------------------
(* Tiles in which the same blocks may be placed                               *)
(* (xilinx/common/utils/prjxray_create_equiv_tiles.py).  A group "q" has the  *)
(* tile types in their order, the blocks with the types of sites they are     *)
(* made of, the types that stand for others, and the ports of the sites.  A   *)
(* port of a block is named for the site and its pin.                         *)
EXTENDS TileNets

PortOf(pin) == Prefixed(<<pin[1]>>, pin[2])

(* As FindPort, but a port whose own name ends with digits is not found.      *)
EquivFindPort(pin, ports) ==
  IF IsPort(pin, ports) THEN {<<pin, -1>>}
  ELSE IF pin[2] = <<>> THEN {}
  ELSE Indexed(pin, ports, SplitAtStem(pin, ports))

(* The program has its own copy of expand_nodes_in_tile_type.                 *)
EquivExpandNode(db, phys, sets, node) ==
  Share(sets, Merged(sets, node, OnePipAway(db, phys, node)))

-----------------------------------------------------------------------------
(* Which blocks a tile may hold                                              *)

Remapped(q, siteType) == IF siteType \in DOMAIN q.remap THEN q.remap[siteType] ELSE siteType

(* Every pin of the specific site is one of the general site.                 *)
CheckSiteEquiv(db, general, specific) ==
  LET PinsOfType(t) == {db.wit[k].pin : k \in {j \in DOMAIN db.wit : db.wit[j].siteType = t}}
  IN  PinsOfType(specific) \subseteq PinsOfType(general)

MappedSiteSet(q, types) == {Remapped(q, t) : t \in types}

BlockOf(q, types) == {b \in DOMAIN q.blocks : q.blocks[b] = types}

(* The block of the sites themselves and the one of those they stand for.     *)
BlocksIn(db, q, tile) ==
  BlockOf(q, SiteTypesIn(db, tile)) \union BlockOf(q, MappedSiteSet(q, SiteTypesIn(db, tile)))

Hosts(db, q, block) == SelectSeq(q.tiles, LAMBDA t : block \in BlocksIn(db, q, t))

GroupIsSound(db, q) ==
  /\ \A general \in DOMAIN q.remap : CheckSiteEquiv(db, general, q.remap[general])
  /\ \A a, b \in DOMAIN q.blocks : q.blocks[a] = q.blocks[b] => a = b
  /\ \A tile \in ToSet(q.tiles) :
       /\ BlockOf(q, SiteTypesIn(db, tile)) # {}
       /\ BlockOf(q, MappedSiteSet(q, SiteTypesIn(db, tile))) # {}

-----------------------------------------------------------------------------
(* create_pb_type                                                            *)

(* The pin a wire has in the block, which is that of the site that its own    *)
(* stands for when the block does not have it.                                *)
BlockPin(db, q, block, w) ==
  <<IF Wit(db, w).siteType \in q.blocks[block] THEN Wit(db, w).siteType
    ELSE Remapped(q, Wit(db, w).siteType),
    Wit(db, w).pin>>

IsSingle(q, block) == Cardinality(q.blocks[block]) = 1

BlockPins(db, q, block, tile, nets, dir) ==
  {BlockPin(db, q, block, w) : w \in {v \in Inside(db, tile, UNION nets) : Wit(db, v).dir = dir}}

(* Of a block with one site all nets are external.                            *)
OpenWires(db, q, block, tile, nets) ==
  UNION {Inside(db, tile, nodes) : nodes \in
           {n \in nets : KeepsPorts(db, tile, n) \/ IsSingle(q, block)}}

Joins(db, q, block, tile, nets) ==
  IF IsSingle(q, block) THEN {}
  ELSE UNION {{<<BlockPin(db, q, block, w), BlockPin(db, q, block, v)>> :
                 w \in {u \in Inside(db, tile, nodes) : Wit(db, u).dir = "IN"},
                 v \in {u \in Inside(db, tile, nodes) : Wit(db, u).dir = "OUT"}} : nodes \in nets}

Keys(pairs) == {c[1] : c \in pairs}

IsSingleValued(pairs) == \A c, d \in pairs : c[1] = d[1] => c[2] = d[2]

(* The ports of any of the tiles.                                             *)
PortsOfAny(acc, old, pins, external) == (old \union pins) \cap external

(* The ports so far that the next tile has as well, if they are external.     *)
KeptPorts(acc, old, pins, external) ==
  IF acc.first THEN pins \cap external ELSE old \cap pins \cap external

(* One tile after another: the pins that are external in one of them so far   *)
(* are kept, the ports are those of all.                                      *)
AddTile(db, q, block, nets, acc, tile) ==
  LET pins(dir) == BlockPins(db, q, block, tile, nets, dir)
      open == OpenWires(db, q, block, tile, nets)
      external == acc.external \union {BlockPin(db, q, block, w) : w \in open}
  IN  [first    |-> FALSE,
       ok       |-> /\ acc.ok
                    /\ \A w \in Inside(db, tile, UNION nets) : BlockPin(db, q, block, w)[1] \in q.blocks[block]
                    /\ \A nodes \in nets : Cardinality(Named(db, Inside(db, tile, nodes), "OUT")) <= 1,
       external |-> external,
       wires    |-> acc.wires \union {w.name : w \in open},
       values   |-> acc.values \union
                    {<<w.name, <<BlockPin(db, q, block, w), Wit(db, w).dir>>>> : w \in Inside(db, tile, UNION nets)},
       internal |-> acc.internal \union Joins(db, q, block, tile, nets),
       ins      |-> KeptPorts(acc, acc.ins, pins("IN"), external),
       outs     |-> KeptPorts(acc, acc.outs, pins("OUT"), external)]

AddTiles(db, q, block, netsOf) ==
  FoldLeft(LAMBDA acc, tile : AddTile(db, q, block, netsOf[tile], acc, tile),
           [first |-> TRUE, ok |-> TRUE, external |-> {}, wires |-> {}, values |-> {},
            internal |-> {}, ins |-> {}, outs |-> {}],
           Hosts(db, q, block))

NormalizedTile ==
  [RIOI3 |-> "IOI3_TILE", RIOI3_SING |-> "IOI3_TILE", RIOI3_TBYTESRC |-> "IOI3_TILE",
   RIOI3_TBYTETERM |-> "IOI3_TILE", LIOI3 |-> "IOI3_TILE", LIOI3_SING |-> "IOI3_TILE",
   LIOI3_TBYTESRC |-> "IOI3_TILE", LIOI3_TBYTETERM |-> "IOI3_TILE",
   LIOB33 |-> "IOB_TILE", LIOB33_SING |-> "IOB_TILE", RIOB33 |-> "IOB_TILE", RIOB33_SING |-> "IOB_TILE",
   CMT_TOP_R_UPPER_T |-> "CMT_TOP_UPPER_T", CMT_TOP_L_UPPER_T |-> "CMT_TOP_UPPER_T"]

NormalizeTileType(type) == IF type \in DOMAIN NormalizedTile THEN NormalizedTile[type] ELSE type

(* The prefix of each site of the block, the same in all of the tiles.        *)
TilePrefixes(db, q, block) ==
  UNION {{<<IF db.wit[k].siteType \in q.blocks[block] THEN db.wit[k].siteType
            ELSE Remapped(q, db.wit[k].siteType),
            <<NormalizeTileType(db.typeName[k[1]]), NormalizeSiteType(db.wit[k].siteType)>>>> :
            k \in PinWits(db, t)} : t \in ToSet(Hosts(db, q, block))}

(* The ports of a block, some of which lead to a pin of a site.               *)
BlockDirects(q, block, pins, dir) ==
  UNION {{Direct(block, q.cells[pin[1]].name, [wire |-> PortOf(pin), dir |-> dir], port) :
            port \in EquivFindPort(pin[2], q.cells[pin[1]].ports)} : pin \in pins}

SitesToSites(q, internal) ==
  LET Ends(pin) == {<<q.cells[pin[1]].name>> \o port : port \in EquivFindPort(pin[2], q.cells[pin[1]].ports)}
  IN  UNION {Ends(c[2]) \X Ends(c[1]) : c \in internal}

FinishPbType(db, q, block, all) ==
  [ok |-> /\ all.ok
          /\ IsSingleValued(all.values)
          /\ IsSingleValued(all.internal)
          /\ IsSingleValued(TilePrefixes(db, q, block))
          /\ Keys(TilePrefixes(db, q, block)) = q.blocks[block],
   pb |-> [name |-> block,
           ins |-> {PortOf(pin) : pin \in all.ins}, outs |-> {PortOf(pin) : pin \in all.outs},
           cells |-> {<<q.cells[p[1]].name, IF IsSingle(q, block) THEN <<>> ELSE p[2]>> :
                        p \in TilePrefixes(db, q, block)},
           directs |-> BlockDirects(q, block, all.outs, "OUT") \union BlockDirects(q, block, all.ins, "IN")
                       \union SitesToSites(q, all.internal)],
   connections |-> {v \in all.values : v[1] \in all.wires /\ v[2][1] \in all.ins \union all.outs}]

CreatePbType(db, q, block, netsOf) == FinishPbType(db, q, block, AddTiles(db, q, block, netsOf))

-----------------------------------------------------------------------------
(* create_tile: a port for each wire that one of the blocks connects, and in  *)
(* each block the port that stands for it.                                    *)
CreateTile(db, q, tile, made, assigned) ==
  LET wires == {key[2] : key \in PinWits(db, tile)}
      Of(b) == {c \in made[b].connections : c[1] \in wires}
      ports(dir) == {c[1] : c \in {d \in UNION {Of(b) : b \in BlocksIn(db, q, tile)} : d[2][2] = dir}}
      locations == Locations(tile, ports("IN") \union ports("OUT"), assigned)
  IN  [ok |-> ports("IN") # {} /\ ports("OUT") # {} /\ locations.ok,
       subs |-> <<SubTile(ports("IN"), ports("OUT"), 1,
                          {<<b, {<<c[1], PortOf(c[2][1])>> : c \in Of(b)}>> : b \in BlocksIn(db, q, tile)},
                          locations)>>]
=============================================================================
