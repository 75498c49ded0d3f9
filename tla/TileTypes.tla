----------------------------- MODULE TileTypes -----------------------------
(* The complex blocks and the tiles that are written from Project X-Ray's     *)
(* description of a tile type (xilinx/common/utils/prjxray_tile_import.py,    *)
(* prjxray_physical_tile_import.py, prjxray_import_tile_capacity.py).  A name *)
(* is a stem, which is a sequence of words, and the digits that it ends with. *)
(* An operator that may stop the program says so in the field "ok".  A clock  *)
(* input is an input here.                                                    *)
EXTENDS Integers, Sequences, FiniteSets, TLC, SequencesExt

CONSTANT Alphabet   \* the names that the programs sort, in their order

ASSUME AlphabetAssumption ==
  /\ Alphabet \in Seq(ToSet(Alphabet))
  /\ \A i, j \in DOMAIN Alphabet : Alphabet[i] = Alphabet[j] => i = j

Before(a, b) ==
  \E i, j \in DOMAIN Alphabet : Alphabet[i] = a /\ Alphabet[j] = b /\ i < j

(* What sorted() makes of a sequence, given the pairs of indices at which one *)
(* is less than another: what is equally great stays in order.                *)
ComesBefore(less, k, j) == <<k, j>> \in less \/ (k < j /\ <<j, k>> \notin less)

InOrder(s, less) ==
  [i \in 1 .. Len(s) |->
     s[CHOOSE j \in DOMAIN s : Cardinality({k \in DOMAIN s : ComesBefore(less, k, j)}) = i - 1]]

(* A function with the values of one that came first, or of another.          *)
Over(f, g) == [x \in DOMAIN f \union DOMAIN g |-> IF x \in DOMAIN f THEN f[x] ELSE g[x]]

Only(x, y) == [z \in {x} |-> y]

NoName == <<<<>>, <<>>>>

Prefixed(words, name) == <<words \o name[1], name[2]>>

-----------------------------------------------------------------------------
(* The port of a primitive that a pin of its site belongs to                 *)

Number(digits) == FoldLeft(LAMBDA n, d : 10 * n + d, 0, digits)

(* A port that has the name so far and more digits takes these out of the     *)
(* index.  When the pin's name does not go on like that, int() is given the   *)
(* whole name and raises: the index -1.  The code looks for the name anywhere *)
(* in the port's and strips its letters from both ends; of names that differ  *)
(* in more than digits, but in no letter, nothing is said here (RADDR1 is     *)
(* taken for a longer ADDR), nor of names with digits within.                 *)
TakeDigits(split, port, pin) ==
  IF /\ port.name[1] = pin[1]
     /\ IsPrefix(split.digits, port.name[2])
     /\ ~(ToSet(port.name[2]) \subseteq ToSet(split.digits))
  THEN [digits |-> port.name[2],
        index  |-> IF IsPrefix(port.name[2], pin[2])
                   THEN Number(SubSeq(pin[2], Len(port.name[2]) + 1, Len(pin[2])))
                   ELSE -1]
  ELSE split

(* All the digits are the index: the other programs stop here.                *)
SplitAtStem(pin, ports) == [digits |-> <<>>, index |-> Number(pin[2])]

Split(pin, ports) ==
  FoldLeft(LAMBDA s, p : TakeDigits(s, p, pin), SplitAtStem(pin, ports), ports)

IsPort(name, ports) == \E p \in ToSet(ports) : p.name = name

Indexed(pin, ports, split) ==
  {<<p.name, split.index>> :
     p \in {q \in ToSet(ports) : q.name = <<pin[1], split.digits>> /\ split.index < q.width}}

(* The port and the index in it, -1 for the port itself; none without a port. *)
FindPort(pin, ports) ==
  IF IsPort(pin, ports) THEN {<<pin, -1>>}
  ELSE IF pin[2] = <<>> THEN {}
  ELSE Indexed(pin, ports, Split(pin, ports))

FindPortRaises(pin, ports) ==
  ~IsPort(pin, ports) /\ pin[2] # <<>> /\ Split(pin, ports).index = -1

-----------------------------------------------------------------------------
(* Complex blocks                                                            *)

(* A direct connection, from and to: the block, the port and the index.       *)
Direct(block, cell, pin, port) ==
  IF pin.dir = "IN" THEN <<<<block, pin.wire, -1>>, <<cell>> \o port>>
  ELSE <<<<cell>> \o port, <<block, pin.wire, -1>>>>

PinDirects(block, cell, pins) ==
  UNION {{Direct(block, cell.name, pin, port) : port \in FindPort(pin.name, cell.ports)} :
           pin \in {p \in pins : p.wire # NoName /\ p.dir # "INOUT"}}

PinsRaise(cell, pins) ==
  \E pin \in {p \in pins : p.wire # NoName} : FindPortRaises(pin.name, cell.ports)

Wires(pins, dir) == {p.wire : p \in {q \in pins : q.wire # NoName /\ q.dir = dir}}

PbType(name, pins, cells, directs) ==
  [name |-> name, ins |-> Wires(pins, "IN"), outs |-> Wires(pins, "OUT"),
   cells |-> cells, directs |-> directs]

SitePins(sites) == UNION {s.pins : s \in ToSet(sites)}

(* Which of the instances of its type a site is: the first is 1.              *)
Occurrence(types, i) == Cardinality({j \in 1..i : types[j] = types[i]})

SitePrefix(coords, site) ==
  CASE coords = "X" -> <<site.type, site.x>>
    [] coords = "Y" -> <<site.type, site.y>>
    [] coords = "XY" -> <<site.type, site.x, site.y>>

(* The sites of a tile become one cell each: the requested types, and of a    *)
(* type the instances in their order.  The second loop of the program counts  *)
(* the sites that the filter leaves out: it raises as soon as there is one.   *)
ImportSites(r, kept) ==
  LET types == [i \in DOMAIN kept |-> kept[i].type]
      Instance(i) == r.types[types[i]][Occurrence(types, i)]
      Cell(i) == r.cells[Instance(i)]
      Instanced ==
        /\ \A i \in DOMAIN kept : Occurrence(types, i) <= Len(r.types[types[i]])
        /\ \A i, j \in DOMAIN kept : Instance(i) = Instance(j) => i = j
  IN  [ok |-> /\ DOMAIN r.types \subseteq ToSet(types)
              /\ \A i \in DOMAIN kept : r.keepX = {} \/ kept[i].x \in r.keepX
              /\ \A s \in ToSet(kept), p \in SitePins(kept) :
                   p \in s.pins /\ p.dir = "INOUT" => s.type = "PS7"
              /\ Instanced
              /\ \A i \in DOMAIN kept : ~PinsRaise(Cell(i), kept[i].pins),
       pb |-> IF Instanced
              THEN PbType(r.tile, SitePins(kept),
                          {<<Cell(i).name, SitePrefix(r.coords, kept[i])>> : i \in DOMAIN kept},
                          UNION {PinDirects(r.tile, Cell(i), kept[i].pins) : i \in DOMAIN kept})
              ELSE PbType(r.tile, {}, {}, {})]

ImportTile(r) == ImportSites(r, SelectSeq(r.sites, LAMBDA s : s.type \in DOMAIN r.types))

(* With fused sites the tile is one cell, whose ports have the site in their  *)
(* names.                                                                     *)
FusedPins(site) ==
  {[p EXCEPT !.name = Prefixed(<<site.prefix, site.name>>, @)] : p \in site.pins}

ImportFusedTile(r) ==
  LET pins == UNION {FusedPins(s) : s \in ToSet(r.sites)}
  IN  [ok |-> ~PinsRaise(r.cell, pins) /\ \A p \in pins : p.dir # "INOUT",
       pb |-> PbType(r.tile, pins, {<<r.cell.name>>}, PinDirects(r.tile, r.cell, pins))]

(* A site as a tile of its own: the ports of the tile have the names of the   *)
(* pins, without those that the architecture does not use.                    *)
ImportSiteAsTile(r) ==
  LET used == {[p EXCEPT !.wire = p.name] : p \in {q \in r.pins : q.name \notin r.unused}}
  IN  [ok |-> ~PinsRaise(r.cell, used) /\ \A p \in used : p.dir # "INOUT",
       pb |-> PbType(r.tile, used, {<<r.cell.name>>}, PinDirects(r.tile, r.cell, used))]

-----------------------------------------------------------------------------
(* Tiles                                                                     *)

(* Where the pins are, and those that no channel reaches: the ends of direct  *)
(* connections.  Without a direction for a pin the program stops.             *)
Locations(tile, pins, assigned) ==
  [ok   |-> \A pin \in pins : <<tile, pin>> \in DOMAIN assigned.sides,
   loc  |-> {<<assigned.sides[<<tile, pin>>], pin>> :
               pin \in {p \in pins : <<tile, p>> \in DOMAIN assigned.sides}},
   fc0  |-> {d.from[2] : d \in {e \in ToSet(assigned.directs) : e.from[1] = tile}}
            \union {d.to[2] : d \in {e \in ToSet(assigned.directs) : e.to[1] = tile}}]

SubTile(ins, outs, capacity, sites, locations) ==
  [ins |-> ins, outs |-> outs, capacity |-> capacity, sites |-> sites,
   loc |-> locations.loc, fc0 |-> locations.fc0]

(* A tile with the ports of its own block; a block that may be placed in it   *)
(* is connected where it has a port of that name.                             *)
ImportPhysicalTile(pb, equivalents, assigned) ==
  LET ports == pb.ins \union pb.outs
      locations == Locations(pb.name, ports, assigned)
      Mapped(eq) == {<<port, port>> : port \in ports \cap (eq.ins \union eq.outs)}
  IN  [ok |-> locations.ok,
       subs |-> <<SubTile(pb.ins, pb.outs, 1, {<<eq.name, Mapped(eq)>> : eq \in equivalents}, locations)>>]

(* Tiles of several sites: a sub tile for each, in the order of their types   *)
(* and places.                                                                *)
SiteBefore(a, b) ==
  \/ Before(a.type, b.type)
  \/ a.type = b.type /\ a.x < b.x
  \/ a.type = b.type /\ a.x = b.x /\ a.y < b.y

UsedPins(site, unused) == {p \in site.pins : p.name \notin unused}

FirstOfType(sites, type) == CHOOSE i \in DOMAIN sites : sites[i].type = type /\ \A j \in 1..i - 1 : sites[j].type # type

(* get_site_pin_wire: the wire here of the pin that another site has.         *)
WireOf(pin, pins) == {<<p.wire, pin.name>> : p \in {q \in pins : q.name = pin.name}}

SiteMappings(sites, i, alternatives) ==
  {<<t, UNION {WireOf(pin, sites[i].pins) : pin \in sites[FirstOfType(sites, t)].pins}>> :
     t \in {sites[i].type} \union ToSet(alternatives[sites[i].type])}

HeterogeneousTile(tile, sites, alternatives, assigned) ==
  LET Pins(i) == {p.wire : p \in sites[i].pins}
      Located(i) == Locations(tile, Pins(i), assigned)
      Alternatives(i) == {sites[FirstOfType(sites, t)] :
                            t \in ToSet(alternatives[sites[i].type]) \cap {s.type : s \in ToSet(sites)}}
      ok == /\ sites # <<>>
            /\ \A i \in DOMAIN sites :
                 /\ NoName \notin Pins(i)
                 /\ \A p \in sites[i].pins : p.dir # "INOUT"
                 /\ Located(i).ok
                 /\ sites[i].type \in DOMAIN alternatives
                 /\ ToSet(alternatives[sites[i].type]) \subseteq {s.type : s \in ToSet(sites)}
                 /\ \A s \in Alternatives(i), p \in SitePins(sites) :
                      p \in s.pins => WireOf(p, sites[i].pins) # {}
  IN  [ok |-> ok,
       subs |-> IF ~ok THEN <<>>
                ELSE [i \in DOMAIN sites |->
                        SubTile(Wires(sites[i].pins, "IN"), Wires(sites[i].pins, "OUT"), 1,
                                SiteMappings(sites, i, alternatives), Located(i))]]

SortedSites(sites) ==
  InOrder(sites, {e \in (DOMAIN sites) \X (DOMAIN sites) : SiteBefore(sites[e[1]], sites[e[2]])})

ImportTileCapacity(r, assigned) ==
  HeterogeneousTile(
    r.tile, SortedSites([i \in DOMAIN r.sites |-> [r.sites[i] EXCEPT !.pins = UsedPins(r.sites[i], r.unused)]]),
    r.alternatives, assigned)
=============================================================================
