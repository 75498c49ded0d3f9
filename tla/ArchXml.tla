------------------------------- MODULE ArchXml -------------------------------
(* What the architecture is made of besides the tiles: pads, constants, the   *)
(* layout with the prefixes of the features, and the directs                  *)
(* (xilinx/common/utils/prjxray_arch_import.py).  The name of a tile is a     *)
(* sequence: a type, or a pad and its number.                                 *)
EXTENDS SynthTiles, EquivTiles

Port(word) == <<<<word>>, <<>>>>

(* A connection in a block between the ports of two of its cells, or its own. *)
Connects(a, p, b, q) == <<<<a, Port(p), -1>>, <<b, Port(q), -1>>>>

-----------------------------------------------------------------------------
(* Synthetic pads                                                            *)

PadPort(dir) == IF dir = "OUT" THEN "inpad" ELSE "outpad"

PadBlock(dir) == IF dir = "OUT" THEN "SYN-INPAD" ELSE "SYN-OUTPAD"

PadSubTile(dir, capacity) ==
  IF capacity = 0 THEN <<>>
  ELSE LET pads == {Port(PadPort(dir))}
           none == [loc |-> {}, fc0 |-> {}]
       IN  <<SubTile(IF dir = "IN" THEN pads ELSE {}, IF dir = "OUT" THEN pads ELSE {}, capacity,
                     {<<PadBlock(dir), {<<p, p>> : p \in pads}>>}, none)>>

PinsOfType(tile, type) == Cardinality({i \in DOMAIN tile.pins : tile.pins[i].type = type})

(* create_synth_io_tile: the inputs of the design come first.                 *)
SynthIoTile(tile) == PadSubTile("OUT", PinsOfType(tile, "output")) \o PadSubTile("IN", PinsOfType(tile, "input"))

(* Between the pad and the port of the block an overlay has a buffer.         *)
InPad(overlay) ==
  [name |-> "SYN-INPAD", ins |-> {}, outs |-> {Port("inpad")},
   cells |-> {<<"inpad", <<>>>>} \union (IF overlay THEN {<<"SYN-IBUF", <<>>>>} ELSE {}),
   directs |-> IF overlay
               THEN {Connects("inpad", "inpad", "SYN-IBUF", "I"), Connects("SYN-IBUF", "O", "SYN-INPAD", "inpad")}
               ELSE {Connects("inpad", "inpad", "SYN-INPAD", "inpad")}]

OutPad(overlay) ==
  [name |-> "SYN-OUTPAD", ins |-> {Port("outpad")}, outs |-> {},
   cells |-> {<<"outpad", <<>>>>} \union (IF overlay THEN {<<"SYN-OBUF", <<>>>>} ELSE {}),
   directs |-> IF overlay
               THEN {Connects("SYN-OBUF", "O", "outpad", "outpad"), Connects("SYN-OUTPAD", "outpad", "SYN-OBUF", "I")}
               ELSE {Connects("SYN-OUTPAD", "outpad", "outpad", "outpad")}]

PadBlocks(overlay) == Over(Only("SYN-INPAD", InPad(overlay)), Only("SYN-OUTPAD", OutPad(overlay)))

Signals == {"VCC", "GND"}

SynthTileOf == [VCC |-> "SYN-VCC", GND |-> "SYN-GND"]

ConstantBlock(signal) ==
  [name |-> SynthTileOf[signal], ins |-> {}, outs |-> {Port(signal)}, cells |-> {<<signal, <<>>>>},
   directs |-> {Connects(signal, signal, SynthTileOf[signal], signal)}]

ConstantSubTile(signal) ==
  SubTile({}, {Port(signal)}, 1, {<<SynthTileOf[signal], {<<Port(signal), Port(signal)>>}>>},
          [loc |-> {}, fc0 |-> {}])

ConstantBlocks == [b \in {SynthTileOf[s] : s \in Signals} |-> ConstantBlock(CHOOSE s \in Signals : SynthTileOf[s] = b)]

ConstantTileTypes ==
  [n \in {<<SynthTileOf[s]>> : s \in Signals} |-> <<ConstantSubTile(CHOOSE s \in Signals : SynthTileOf[s] = n[1])>>]

-----------------------------------------------------------------------------
(* Where the synthetic tiles are                                             *)

IsConstant(tile) == tile.pins[1].type \in Signals

SynthName(tile) == IF IsConstant(tile) THEN <<SynthTileOf[tile.pins[1].type]>> ELSE tile.name

SynthLocs(synth) == {synth[t].loc : t \in DOMAIN synth}

OneTileAtEachLoc(synth) == \A s, t \in DOMAIN synth : synth[s].loc = synth[t].loc => s = t

SynthLocMap(synth) ==
  [l \in SynthLocs(synth) |-> SynthName(synth[CHOOSE t \in DOMAIN synth : synth[t].loc = l])]

SynthTileTypes(synth) ==
  LET pads == {t \in DOMAIN synth : ~IsConstant(synth[t])}
  IN  [n \in {synth[t].name : t \in pads} |-> SynthIoTile(synth[CHOOSE t \in pads : synth[t].name = n])]

(* The first two of the empty places, by rows.                                *)
NullPlaces(d) == {g \in ToSet(d.grid) : g.type = "NULL"}

InRowsBefore(g, h) == g.y < h.y \/ (g.y = h.y /\ g.x < h.x)

NullPlace(d, n) ==
  CHOOSE g \in NullPlaces(d) : Cardinality({h \in NullPlaces(d) : InRowsBefore(h, g)}) = n - 1

TilesAt(d, g) == {t \in d.db.tiles : t.phy = g.name}

MayInsertConstants(d) ==
  /\ Cardinality(NullPlaces(d)) >= 2
  /\ \A n \in 1 .. 2 : Cardinality(TilesAt(d, NullPlace(d, n))) = 1

ConstantLocMap(d) ==
  LET Loc(n) == CHOOSE l \in {<<t.x, t.y>> : t \in TilesAt(d, NullPlace(d, n))} : TRUE
  IN  Over(Only(Loc(1), <<SynthTileOf["VCC"]>>), Only(Loc(2), <<SynthTileOf["GND"]>>))

-----------------------------------------------------------------------------
(* Prefixes of the features                                                  *)

(* The coordinates of a site that its prefix has, and their moduli.           *)
Coordinates(letters, mx, my) == [letters |-> letters, mx |-> mx, my |-> my]

PrefixRequired ==
  [t \in {"IOB", "IDELAY", "ILOGIC", "OLOGIC", "IBUFDS_GTE2"} |-> Coordinates("Y", 1, 2)]
  @@ [t \in {"SLICEM", "SLICEL"} |-> Coordinates("X", 2, 1)]
  @@ ("BUFGCTRL" :> Coordinates("XY", 2, 16))
  @@ [t \in {"GTPE2_COMMON", "GTPE2_CHANNEL", "IPAD", "OPAD"} |-> Coordinates("", 1, 1)]

MakePrefix(type, x, y) ==
  <<type, PrefixRequired[type].letters, x % PrefixRequired[type].mx, y % PrefixRequired[type].my>>

(* The sites of a tile by the first word of their names.                      *)
SiteInstances(d, t) ==
  LET sites == {d.db.wit[k].site : k \in {j \in PinWits(d.db, t.type) :
                  j[1] \in {d.db.phyType[p] : p \in t.phys}}}
  IN  {i \in d.db.instances : i.site \in sites /\ i.phy \in t.phys}

SitePrefixesAreSound(d, t) ==
  /\ \A i \in SiteInstances(d, t) : i.word \in DOMAIN PrefixRequired
  /\ \A i, j \in SiteInstances(d, t) : i.word = j.word => i = j

SitePrefixes(d, t) == {<<i.word, MakePrefix(i.word, i.x, i.y)>> : i \in SiteInstances(d, t)}

(* A prefix for each of several sites, by their types and places.             *)
InstancesAt(d, phy) ==
  {[type |-> d.db.sites[i.site].type, x |-> i.x, y |-> i.y] : i \in {j \in d.db.instances : j.phy = phy}}

(* The order of the query, in which the places come first.                    *)
InstanceBeforeByPlace(a, b) ==
  a.x < b.x \/ (a.x = b.x /\ a.y < b.y) \/ (a.x = b.x /\ a.y = b.y /\ Before(a.type, b.type))

InstanceBefore(a, b) ==
  Before(a.type, b.type) \/ (a.type = b.type /\ a.x < b.x) \/ (a.type = b.type /\ a.x = b.x /\ a.y < b.y)

CapacityPrefix(instances) ==
  LET order == CHOOSE o \in Orderings(instances) : \A i, j \in DOMAIN o : i < j => InstanceBefore(o[i], o[j])
  IN  [i \in DOMAIN order |-> MakePrefix(order[i].type, order[i].x, order[i].y)]

HasBits(d, t) == {p \in t.phys : GridInfo(d, p).bits}

TypesWithBits(d, t) == {d.db.typeName[d.db.phyType[p]] : p \in HasBits(d, t)}

(* The last of the physical tiles of a type is the one that counts.           *)
TileOfType(d, t, type) == Max({p \in HasBits(d, t) : d.db.typeName[d.db.phyType[p]] = type})

(* As TypeRemap, but without the tiles of one site.                           *)
TypeRemapOfPairs(type) ==
  CASE type \in {"LIOI3", "RIOI3"} -> "IOI3_TILE"
    [] type \in {"LIOB33", "RIOB33"} -> "IOB_TILE"
    [] OTHER -> type

TypeRemap(type) ==
  CASE type \in {"LIOI3_SING", "LIOI3", "LIOI3_TBYTESRC", "LIOI3_TBYTETERM",
                 "RIOI3_SING", "RIOI3", "RIOI3_TBYTESRC", "RIOI3_TBYTETERM"} -> "IOI3_TILE"
    [] type \in {"LIOB33", "LIOB33_SING", "RIOB33", "RIOB33_SING"} -> "IOB_TILE"
    [] OTHER -> type

NoPrefix == [ok |-> TRUE, tile |-> 0, sites |-> <<>>, holders |-> {}]

Placeholders(d, t, capacity) ==
  [ok |-> capacity = 1 /\ SitePrefixesAreSound(d, t), tile |-> 0, sites |-> <<>>,
   holders |-> IF ~SitePrefixesAreSound(d, t) THEN {}
               ELSE {<<TypeRemap(type), <<TileOfType(d, t, type)>>>> : type \in TypesWithBits(d, t)}
                    \union SitePrefixes(d, t)]

SitesPrefix(d, t, capacity) ==
  CASE t.site # "none" ->
         [ok |-> capacity = 1, sites |-> <<<<d.db.sites[t.site].type, "X", d.db.sites[t.site].x, 0>>>>]
    [] t.site = "none" /\ capacity > 1 ->
         LET instances == InstancesAt(d, t.phy)
             known == \A i \in instances : i.type \in DOMAIN PrefixRequired
         IN  [ok |-> known /\ Cardinality(instances) = capacity,
              sites |-> IF known THEN CapacityPrefix(instances) ELSE <<>>]
    [] OTHER -> [ok |-> TRUE, sites |-> <<>>]

FasmTilePrefix(d, t, capacity) ==
  IF Cardinality(TypesWithBits(d, t)) > 1 THEN Placeholders(d, t, capacity)
  ELSE IF HasBits(d, t) = {} THEN [NoPrefix EXCEPT !.ok = FALSE]
  ELSE LET prefix == SitesPrefix(d, t, capacity)
       IN  [NoPrefix EXCEPT !.ok = prefix.ok, !.tile = Max(HasBits(d, t)), !.sites = prefix.sites]

-----------------------------------------------------------------------------
(* The layout                                                                *)

(* roi.tile_in_roi: no region for the whole device.                           *)
TileInRoi(d, phy) ==
  CASE d.mode \in {"roi", "limit"} -> InRegion(d.regions[1], GridInfo(d, phy))
    [] IsOverlay(d) -> OutsideRegions(d, GridInfo(d, phy))
    [] OTHER -> TRUE

IsInRoi(d, t) == \E p \in t.phys : TileInRoi(d, p)

HasProhibitedSites(d, t) == \E i \in d.db.instances : i.phy = t.phy /\ i.prohibited

IsSynthetic(t, locs) == <<t.x, t.y>> \in DOMAIN locs

(* As IsEmitted, but a synthetic tile is looked at like any other.            *)
IsEmittedInRoi(d, t, locs) ==
  /\ ~HasProhibitedSites(d, t)
  /\ IsInRoi(d, t)
  /\ IsSynthetic(t, locs) \/ t.type \in d.wanted

IsEmitted(d, t, locs) ==
  /\ ~HasProhibitedSites(d, t)
  /\ IsSynthetic(t, locs) \/ (t.type \in d.wanted /\ IsInRoi(d, t))

Capacity(subs) ==
  LET Sum[n \in 0 .. Len(subs)] == IF n = 0 THEN 0 ELSE Sum[n - 1] + subs[n].capacity
  IN  Sum[Len(subs)]

(* Processor tiles have no prefix, and synthetic tiles neither.               *)
Single(d, t, locs, tiles) ==
  IF IsSynthetic(t, locs) THEN [type |-> locs[<<t.x, t.y>>], prefix |-> NoPrefix]
  ELSE [type |-> <<t.type>>,
        prefix |-> IF t.pss THEN NoPrefix ELSE FasmTilePrefix(d, t, Capacity(tiles[<<t.type>>]))]

Layout(d, locs, tiles) ==
  LET emitted == {t \in d.db.tiles : IsEmitted(d, t, locs)}
  IN  [l \in {<<t.x, t.y>> : t \in emitted} |->
         Single(d, CHOOSE t \in emitted : <<t.x, t.y>> = l, locs, tiles)]

Extent(d) == <<Max({t.x + 2 : t \in d.db.tiles}), Max({t.y + 2 : t \in d.db.tiles})>>

-----------------------------------------------------------------------------
(* Switches, segments and directs                                            *)

Delayless == "__vpr_delayless_switch__"

Switches(d) == (d.switches \ {Delayless}) \union {"buffer"}

(* A segment without a length, -1, has length 1.                              *)
Segments(d) == {<<"dummy", 2>>} \union {<<s[1], IF s[2] = -1 THEN 1 ELSE s[2]>> : s \in d.segments}

Offset(direct) == Gap(direct.dx, 0) + Gap(direct.dy, 0)

(* The first of the nearest directs between two pins.                         *)
IsNearest(directs, i) ==
  \A j \in DOMAIN directs :
    directs[j].from = directs[i].from /\ directs[j].to = directs[i].to =>
      \/ Offset(directs[i]) < Offset(directs[j])
      \/ Offset(directs[i]) = Offset(directs[j]) /\ i <= j

Nearest(d) ==
  {d.assigned.directs[i] : i \in {j \in DOMAIN d.assigned.directs :
     /\ IsNearest(d.assigned.directs, j)
     /\ d.assigned.directs[j].from[1] \in d.wanted
     /\ d.assigned.directs[j].to[1] \in d.wanted}}

AllowedZeroOffsetDirect ==
  {"GTP_CHANNEL_0", "GTP_CHANNEL_1", "GTP_CHANNEL_2", "GTP_CHANNEL_3",
   "GTP_CHANNEL_0_MID_LEFT", "GTP_CHANNEL_1_MID_LEFT", "GTP_CHANNEL_2_MID_LEFT", "GTP_CHANNEL_3_MID_LEFT",
   "GTP_CHANNEL_0_MID_RIGHT", "GTP_CHANNEL_1_MID_RIGHT", "GTP_CHANNEL_2_MID_RIGHT", "GTP_CHANNEL_3_MID_RIGHT",
   "GTP_COMMON_MID_LEFT", "GTP_COMMON_MID_RIGHT"}

ZeroOffset(d) ==
  {x \in Nearest(d) : Offset(x) = 0 /\ x.from[1] = x.to[1] /\ x.from[1] \in AllowedZeroOffsetDirect}

(* The switch of a direct without delay is left to VPR.                       *)
AddDirect(x, dz) ==
  [from |-> x.from, to |-> x.to, dx |-> x.dx, dy |-> x.dy, dz |-> dz,
   switch |-> IF x.switch = Delayless THEN {} ELSE {x.switch}]

(* The sub tiles of a tile with a port, the first is 0: the last one counts.  *)
SubTilesWith(subs, port) == {i - 1 : i \in {j \in DOMAIN subs : port \in subs[j].ins \union subs[j].outs}}

ZeroOffsetsAreSound(d, tiles) ==
  \A x \in ZeroOffset(d) : \A pin \in {x.from[2], x.to[2]} : SubTilesWith(tiles[<<x.from[1]>>], pin) # {}

(* As ZOffset, but from the sub tile that the connection leads to.            *)
ZOffsetBack(subs, from, to) == Max(SubTilesWith(subs, from)) - Max(SubTilesWith(subs, to))

ZOffset(subs, from, to) == Max(SubTilesWith(subs, to)) - Max(SubTilesWith(subs, from))

Directs(d, tiles) ==
  {AddDirect(x, 0) : x \in {n \in Nearest(d) : Offset(n) # 0}}
  \union {AddDirect(x, ZOffset(tiles[<<x.from[1]>>], x.from[2], x.to[2])) : x \in ZeroOffset(d)}
=============================================================================
