---------------------------- MODULE DeviceImport ----------------------------
(***************************************************************************)
(* The connection database from the Project X-Ray database to the last     *)
(* program that writes it.  prjxray_form_channels.py imports tile types,   *)
(* tiles and wires, makes nodes of connected wires, and counts sites and   *)
(* pips; prjxray_create_edges.py works on a copy.  Both work in memory     *)
(* (prjxray_db_cache.py), so that three states of the tables are kept: the *)
(* one in memory, what of it is committed, and the file.  Programs raise,  *)
(* or are killed, and the build runs them again.                           *)
(*                                                                         *)
(* Classification, grid, tracks and edges have modules of their own; here  *)
(* they are entries of "later", but for the switches that classification   *)
(* makes.  Names are left out.                                             *)
(***************************************************************************)
EXTENDS SwitchTiming, FiniteSets, SequencesExt

CONSTANTS
  TileTypes,   \* wires, pips and sites of each tile type, with their timing
  Devices,     \* tiles in their order and connections of wires
  MaxFailures  \* how often programs fail

ASSUME MaxFailuresAssumption == MaxFailures \in Nat

Timings == [delay : Nat, r : Nat, c : Nat]

(* What Project X-Ray knows of a tile type.                                *)
ASSUME TileTypesAssumption ==
  \A ty \in DOMAIN TileTypes :
    /\ TileTypes[ty].pips \in Seq(Range(TileTypes[ty].pips))
    /\ \A p \in Range(TileTypes[ty].pips) : /\ p.pass \in BOOLEAN
                                           /\ p.timing \subseteq Timings /\ p.back \subseteq Timings
    /\ TileTypes[ty].sites \in Seq(Range(TileTypes[ty].sites))
    /\ \A s \in Range(TileTypes[ty].sites) : s.timing \subseteq Timings
    /\ \A w \in TileTypes[ty].wires : TileTypes[ty].capacitance[w] \in Nat

(* Tiles have names of their own; a connection has two wires.              *)
ASSUME DevicesAssumption ==
  \A d \in Devices :
    /\ d.tiles \in Seq(Range(d.tiles))
    /\ \A t \in Range(d.tiles) : t.type \in DOMAIN TileTypes
    /\ \A t, u \in Range(d.tiles) : t.name = u.name => t = u
    /\ IsFiniteSet(d.connections) /\ \A c \in d.connections : DOMAIN c = {1, 2}

VARIABLES
  device,     \* what prjxray.db.Database returns
  file,       \* the tables in the files of the two programs
  memory,     \* those of the memory connection
  committed,  \* what a rollback leaves of them
  program,    \* the program that runs
  stage,      \* how far its main() came
  left,       \* what the loop of the stage has left to do
  queue,      \* the same of a loop inside it, and the tile type it is for
  pip_cache,  \* the switches that get_switch_timing knows
  wires,      \* wires of import_nodes: the node of each, {} for None
  built,      \* the targets that the build takes for made
  failures

vars == <<device, file, memory, committed, program, stage, left, queue, pip_cache, wires, built, failures>>
inner == <<queue, pip_cache>>

NoTables ==
  [created |-> FALSE, switch |-> <<>>, tile_type |-> {}, wire_in_tile |-> {}, pip_in_tile |-> {},
   pip_switch |-> <<>>, site_type |-> {}, site |-> {}, site_pin |-> <<>>, phy_tile |-> <<>>,
   site_instance |-> <<>>, wire |-> {}, node |-> <<>>, site_wire |-> <<>>,
   number_pips |-> <<>>, edge_with_mux |-> <<>>, later |-> <<>>]

(* A loop for a tile type, and lastrowid of the cursor where it is read.   *)
Loop(ty, items, row) == [type |-> ty, left |-> items, lastrowid |-> row]

Idle == Loop(<<>>, <<>>, 0)

Init ==
  /\ device \in Devices
  /\ file = [f \in {"form_channels", "create_edges"} |-> NoTables]
  /\ memory = NoTables /\ committed = NoTables
  /\ program = "none" /\ stage = "none" /\ left = {} /\ wires = <<>>
  /\ queue = Idle /\ pip_cache = <<>>
  /\ built = {} /\ failures = 0

Runs(p, s) == program = p /\ stage = s

(* The programs that the build starts.                                     *)
Ends ==
  /\ program' = "none" /\ stage' = "none" /\ left' = {} /\ wires' = <<>>
  /\ queue' = Idle /\ pip_cache' = <<>>
  /\ memory' = NoTables /\ committed' = NoTables

(* An exception in the block of a DatabaseCache: __exit__ rolls back and   *)
(* writes what is left over the file.                                      *)
RaisedWith(tables) ==
  /\ file' = [file EXCEPT ![program] = tables]
  /\ Ends
  /\ UNCHANGED built

Raised == RaisedWith(committed)

Proceeds(s, items) == stage' = s /\ left' = items /\ UNCHANGED <<file, program, built>>

Commits == committed' = memory'

(* Mutant of Removed: the file of an earlier attempt stays.                *)
Removed_Kept(tables) == tables

Removed(tables) == NoTables

StartFormChannels ==
  /\ program = "none" /\ "form_channels" \notin built
  /\ program' = "form_channels" /\ stage' = "tables"
  /\ file' = [file EXCEPT !["form_channels"] = Removed(@)]
  /\ memory' = file'["form_channels"] /\ Commits
  /\ UNCHANGED <<device, left, inner, wires, built, failures>>

TypesOfTiles == {device.tiles[n].type : n \in DOMAIN device.tiles}

CreateTables ==
  /\ Runs("form_channels", "tables")
  /\ \/ memory.created /\ Raised
     \/ /\ ~memory.created
        /\ memory' = [memory EXCEPT !.created = TRUE, !.switch = <<Delayless>>] /\ Commits
        /\ pip_cache' = [row \in {Delayless} |-> 1]
        /\ Proceeds("types", TypesOfTiles) /\ UNCHANGED <<queue, wires>>
  /\ UNCHANGED <<device, failures>>

(* build_pss_object_mask: the pads of the processor, their wires and pips, *)
(* and what is at the other end of these.                                  *)
MaskedSites(ty) ==
  {i \in DOMAIN TileTypes[ty].sites : TileTypes[ty].pss /\ TileTypes[ty].sites[i].type = "IOPAD"}
PadWires(ty) == UNION {TileTypes[ty].sites[i].pins : i \in MaskedSites(ty)}
MaskedPips(ty) == {p \in Range(TileTypes[ty].pips) : {p.src, p.dest} \intersect PadWires(ty) # {}}
MaskedWires(ty) == PadWires(ty) \union UNION {{p.src, p.dest} : p \in MaskedPips(ty)}

ImportTileType(ty) ==
  /\ Runs("form_channels", "types") /\ ty \in left
  /\ memory' = [memory EXCEPT !.tile_type = @ \union {ty},
                              !.wire_in_tile = @ \union ({ty} \X (TileTypes[ty].wires \ MaskedWires(ty)))]
  /\ queue' = Loop(ty, TileTypes[ty].pips, 0)
  /\ Proceeds("pips", left \ {ty})
  /\ UNCHANGED <<device, committed, pip_cache, wires, failures>>

(* The next round of the inner loop.                                       *)
Continues ==
  /\ queue' = [queue EXCEPT !.left = Tail(@)]
  /\ UNCHANGED <<file, program, stage, left, wires, built>>

Now == [memory |-> memory, committed |-> committed, cache |-> pip_cache]

(* Both switches of a pip that is not masked, and then its row; a wire     *)
(* that was masked has no row to refer to.                                 *)
ImportPip ==
  LET p == Head(queue.left)
      forward == SwitchOfPip(p, p.timing)
      backward == SwitchOfPip(p, p.back)
      s == GetSwitchTiming(GetSwitchTiming(Now, forward), backward)
      pip == <<queue.type, p>>
  IN  /\ Runs("form_channels", "pips") /\ queue.left # <<>>
      /\ \/ /\ p \in MaskedPips(queue.type)
            /\ Continues /\ UNCHANGED <<memory, committed, pip_cache>>
         \/ /\ p \notin MaskedPips(queue.type)
            /\ {p.src, p.dest} \intersect MaskedWires(queue.type) # {}
            /\ RaisedWith(s.committed)
         \/ /\ p \notin MaskedPips(queue.type)
            /\ {p.src, p.dest} \intersect MaskedWires(queue.type) = {}
            /\ memory' = [s.memory EXCEPT
                 !.pip_in_tile = @ \union {pip},
                 !.pip_switch = [r \in DOMAIN @ \union {pip} |->
                    IF r = pip THEN <<s.cache[forward], s.cache[backward]>> ELSE @[r]]]
            /\ committed' = s.committed /\ pip_cache' = s.cache
            /\ Continues
      /\ UNCHANGED <<device, failures>>

ImportSiteTypes ==
  LET sites == TileTypes[queue.type].sites
  IN  /\ Runs("form_channels", "pips") /\ queue.left = <<>>
      /\ memory' = [memory EXCEPT !.site_type =
                      @ \union {sites[i].type : i \in DOMAIN sites \ MaskedSites(queue.type)}]
      /\ queue' = Idle
      /\ Proceeds("types", left)
      /\ UNCHANGED <<device, committed, pip_cache, wires, failures>>

CommitTileTypes ==
  /\ Runs("form_channels", "types") /\ left = {}
  /\ committed' = memory
  /\ Proceeds("sites", TypesOfTiles)
  /\ UNCHANGED <<device, memory, inner, wires, failures>>

SitesOf(ty) == [i \in DOMAIN TileTypes[ty].sites |-> i]

AddWireToSiteRelation(ty) ==
  /\ Runs("form_channels", "sites") /\ ty \in left
  /\ queue' = Loop(ty, SitesOf(ty), 0)
  /\ Proceeds("relations", left \ {ty})
  /\ UNCHANGED <<device, memory, committed, pip_cache, wires, failures>>

(* If the type of the site was imported, which those of masked pads may be *)
(* for another tile type, its row, and for each of its pins, which have    *)
(* one timing, the switch and the wire.  A wire belongs to the last site   *)
(* with a pin on it.                                                       *)
ImportSite ==
  LET i == Head(queue.left)
      site == TileTypes[queue.type].sites[i]
      row == SwitchOfPin(site.timing)
      start == [Now EXCEPT !.memory.site = @ \union {<<queue.type, i>>}]
      s == IF site.pins = {} THEN start ELSE GetSwitchTiming(start, row)
      pins == {w \in memory.wire_in_tile : w[1] = queue.type /\ w[2] \in site.pins}
  IN  /\ Runs("form_channels", "relations") /\ queue.left # <<>>
      /\ \/ /\ site.type \notin memory.site_type
            /\ UNCHANGED <<memory, committed, pip_cache>>
         \/ /\ site.type \in memory.site_type
            /\ memory' = [s.memory EXCEPT
                 !.site_pin = [w \in DOMAIN @ \union pins |->
                    IF w \in pins THEN [site |-> i, switch |-> s.cache[row]] ELSE @[w]]]
            /\ committed' = s.committed /\ pip_cache' = s.cache
      /\ Continues
      /\ UNCHANGED <<device, failures>>

EndRelation ==
  /\ Runs("form_channels", "relations") /\ queue.left = <<>>
  /\ queue' = Idle
  /\ Proceeds("sites", left)
  /\ UNCHANGED <<device, memory, committed, pip_cache, wires, failures>>

ImportTile ==
  LET n == Len(memory.phy_tile) + 1
      tile == device.tiles[n]
  IN  /\ Runs("form_channels", "sites") /\ left = {}
      /\ n <= Len(device.tiles)
      /\ memory' = [memory EXCEPT !.phy_tile = Append(@, tile.name)]
      /\ queue' = Loop(tile.type, SitesOf(tile.type), n)
      /\ Proceeds("instances", {})
      /\ UNCHANGED <<device, committed, pip_cache, wires, failures>>

(* A row for a site of the tile, which is marked as prohibited or not at   *)
(* lastrowid: not its own when nothing was inserted for the site, because  *)
(* it was masked.                                                          *)
ImportSiteInstance ==
  LET n == Len(memory.phy_tile)
      i == Head(queue.left)
      masked == <<queue.type, i>> \notin memory.site
      rows == IF masked THEN memory.site_instance
              ELSE Append(memory.site_instance, [tile |-> n, site |-> i, prohibited |-> FALSE])
      lastrowid == IF masked THEN queue.lastrowid ELSE Len(rows)
  IN  /\ Runs("form_channels", "instances") /\ queue.left # <<>>
      /\ memory' = [memory EXCEPT !.site_instance =
           [r \in DOMAIN rows |->
              [rows[r] EXCEPT !.prohibited = IF r = lastrowid THEN i \in device.tiles[n].prohibited ELSE @]]]
      /\ queue' = Loop(queue.type, Tail(queue.left), lastrowid)
      /\ Proceeds("instances", {})
      /\ UNCHANGED <<device, committed, pip_cache, wires, failures>>

EndTile ==
  /\ Runs("form_channels", "instances") /\ queue.left = <<>>
  /\ queue' = Idle
  /\ Proceeds("sites", {})
  /\ UNCHANGED <<device, memory, committed, pip_cache, wires, failures>>

CommitGrid ==
  /\ Runs("form_channels", "sites") /\ left = {}
  /\ Len(memory.phy_tile) = Len(device.tiles)
  /\ committed' = memory
  /\ Proceeds("wires", {})
  /\ UNCHANGED <<device, memory, inner, wires, failures>>

TypeOf(tile) == (CHOOSE t \in Range(device.tiles) : t.name = tile).type
WireInTile(w) == <<TypeOf(w[1]), w[2]>>

InsertWires ==
  LET all == UNION {{<<t.name, w>> : w \in TileTypes[t.type].wires} : t \in Range(device.tiles)}
  IN  /\ Runs("form_channels", "wires")
      /\ memory' = [memory EXCEPT !.wire = {w \in all : WireInTile(w) \in memory.wire_in_tile}]
      /\ Commits
      /\ wires' = [w \in memory'.wire |-> {}]
      /\ Proceeds("connect", device.connections)
      /\ UNCHANGED <<device, inner, failures>>

NodeOf(w) == IF wires[w] = {} THEN {w} ELSE wires[w]

(* Mutant of Merged: the others of the two nodes keep what they had.       *)
Merged_EndsOnly(a, b) ==
  [w \in DOMAIN wires |-> IF w \in {a, b} THEN NodeOf(a) \union NodeOf(b) ELSE wires[w]]

Merged(a, b) ==
  [w \in DOMAIN wires |-> IF w \in NodeOf(a) \union NodeOf(b) THEN NodeOf(a) \union NodeOf(b) ELSE wires[w]]

Connect(c) ==
  /\ Runs("form_channels", "connect") /\ c \in left
  /\ \/ ~(Range(c) \subseteq DOMAIN wires) /\ Raised
     \/ /\ Range(c) \subseteq DOMAIN wires
        /\ wires' = Merged(c[1], c[2])
        /\ Proceeds("connect", left \ {c}) /\ UNCHANGED <<memory, committed, inner>>
  /\ UNCHANGED <<device, failures>>

InsertNodes ==
  /\ Runs("form_channels", "connect") /\ left = {}
  /\ memory' = [memory EXCEPT !.node = [w \in DOMAIN wires |-> NodeOf(w)]] /\ Commits
  /\ wires' = <<>>
  /\ Proceeds("count", {})
  /\ UNCHANGED <<device, inner, failures>>

Nodes(tables) == Range(tables.node)
PinsOf(tables, node) == {w \in node : WireInTile(w) \in DOMAIN tables.site_pin}

(* assert max(number_site_pins) == 1                                       *)
SitesAreCounted(tables) ==
  /\ \E n \in Nodes(tables) : PinsOf(tables, n) # {}
  /\ \A n \in Nodes(tables) : Cardinality(PinsOf(tables, n)) <= 1

(* A row for every wire of the node that is an end of the pip.             *)
PipsOn(tables, node) ==
  {r \in node \X tables.pip_in_tile :
     /\ ~r[2][2].pseudo
     /\ WireInTile(r[1]) \in {<<r[2][1], r[2][2].src>>, <<r[2][1], r[2][2].dest>>}}

CountSitesAndPipsOnNodes ==
  /\ Runs("form_channels", "count")
  /\ \/ ~SitesAreCounted(memory) /\ Raised
     \/ /\ SitesAreCounted(memory)
        /\ memory' = [memory EXCEPT
             !.site_wire = [n \in {m \in Nodes(memory) : PinsOf(memory, m) # {}} |->
                              CHOOSE w \in PinsOf(memory, n) : TRUE],
             !.number_pips = [n \in Nodes(memory) |-> Cardinality(PipsOn(memory, n))]]
        /\ Commits
        /\ Proceeds("classify", {}) /\ UNCHANGED <<inner, wires>>
  /\ UNCHANGED <<device, failures>>

Done(tables, s) == [tables EXCEPT !.later = Append(@, s)]

(* Of classify_nodes, the pips between two nodes with a site pin and no    *)
(* other pip, with the wires of the site pins.  The pips of PADOUT, which  *)
(* its names make another case, are in NodeClassify.                       *)
EdgesWithMux(tables) ==
  LET alone == {n \in DOMAIN tables.site_wire : tables.number_pips[n] = 1}
      Joins(p, n, m) == /\ ~p[2].pseudo
                        /\ \E t \in Range(device.tiles) : /\ t.type = p[1] /\ <<t.name, p[2].src>> \in n
                                                          /\ <<t.name, p[2].dest>> \in m
  IN  {[src |-> tables.site_wire[e[1]], dest |-> tables.site_wire[e[2]], pip |-> e[3]] :
         e \in {f \in alone \X alone \X tables.pip_in_tile : Joins(f[3], f[1], f[2])}}

Resistance(w) == TileTypes[TypeOf(w[1])].resistance[w[2]]
Capacitance(w) == TileTypes[TypeOf(w[1])].capacitance[w[2]]

(* Of an edge with mux, what Lumped takes.                                 *)
Chain(tables, x) ==
  LET Pin(w) == tables.switch[tables.site_pin[WireInTile(w)].switch].timing
  IN  <<Pin(x.src), Capacitance(x.src), tables.switch[tables.pip_switch[x.pip][1]],
        Capacitance(x.dest), Pin(x.dest)>>

CheckEdgeWithMuxTiming(tables, x) ==
  LET c == Chain(tables, x)
  IN  /\ Resistance(x.src) = 0 /\ Resistance(x.dest) = 0
      /\ CanBeLumped(c[1], c[2], c[3], c[4], c[5])

LumpedSwitch(c) == Row(FALSE, Timing(Lumped(c[1], c[2], c[3], c[4], c[5]), 0, 0))

ClassifyNodes ==
  /\ Runs("form_channels", "classify")
  /\ Proceeds("muxes", EdgesWithMux(memory))
  /\ UNCHANGED <<device, memory, committed, inner, wires, failures>>

InsertEdgeWithMux(x) ==
  LET row == LumpedSwitch(Chain(memory, x))
      s == GetSwitchTiming(Now, row)
  IN  /\ Runs("form_channels", "muxes") /\ x \in left
      /\ IF ~CheckEdgeWithMuxTiming(memory, x)
         THEN Raised
         ELSE /\ memory' = [s.memory EXCEPT !.edge_with_mux =
                     [y \in DOMAIN @ \union {x} |-> IF y = x THEN s.cache[row] ELSE @[y]]]
              /\ committed' = s.committed /\ pip_cache' = s.cache
              /\ Proceeds("muxes", left \ {x}) /\ UNCHANGED <<queue, wires>>
      /\ UNCHANGED <<device, failures>>

EndClassify ==
  /\ Runs("form_channels", "muxes") /\ left = {}
  /\ memory' = Done(memory, "classify") /\ Commits
  /\ Proceeds("grid", {})
  /\ UNCHANGED <<device, inner, wires, failures>>

(* create_vpr_grid, form_tracks and the block of create_edges have modules *)
(* of their own.                                                           *)
Following == [grid |-> "tracks", tracks |-> "flush", edges |-> "flush"]

(* They make indices, which can be made once.                              *)
RunStage ==
  /\ program # "none" /\ stage \in DOMAIN Following
  /\ \/ stage \in Range(memory.later) /\ Raised
     \/ /\ stage \notin Range(memory.later)
        /\ memory' = Done(memory, stage) /\ Commits
        /\ Proceeds(Following[stage], {}) /\ UNCHANGED <<inner, wires>>
  /\ UNCHANGED <<device, failures>>

(* The end of the block of a DatabaseCache.  form_channels is then done;   *)
(* create_edges goes on with the file itself.                              *)
Flush ==
  /\ program # "none" /\ stage = "flush"
  /\ file' = [file EXCEPT ![program] = memory]
  /\ \/ program = "form_channels" /\ built' = built \union {program} /\ Ends
     \/ /\ program = "create_edges"
        /\ stage' = "channels"
        /\ UNCHANGED <<memory, committed, program, left, inner, wires, built>>
  /\ UNCHANGED <<device, failures>>

(* prjxray_assign_tile_pin_direction.py reads only.                        *)
AssignPins ==
  /\ program = "none" /\ "form_channels" \in built
  /\ built' = built \union {"pin_assignments"}
  /\ UNCHANGED <<device, file, memory, committed, program, stage, left, inner, wires, failures>>

StartCreateEdges ==
  /\ program = "none"
  /\ {"form_channels", "pin_assignments"} \subseteq built /\ "create_edges" \notin built
  /\ program' = "create_edges" /\ stage' = "edges"
  /\ file' = [file EXCEPT !["create_edges"] = file["form_channels"]]
  /\ memory' = file'["create_edges"] /\ Commits
  /\ UNCHANGED <<device, left, inner, wires, built, failures>>

(* build_channels, set_track_canonical_loc, annotate_pin_feeds and         *)
(* compute_segment_lengths, each a transaction of its own on the file, and *)
(* at last verify_channels, which reads only.                              *)
After == [channels |-> "locs", locs |-> "feeds", feeds |-> "lengths", lengths |-> "verify"]

ChangeFile ==
  /\ program = "create_edges" /\ stage \in DOMAIN After
  /\ file' = [file EXCEPT ![program] = Done(@, stage)]
  /\ stage' = After[stage]
  /\ UNCHANGED <<device, memory, committed, program, left, inner, wires, built, failures>>

VerifyChannels ==
  /\ Runs("create_edges", "verify")
  /\ built' = built \union {program} /\ Ends
  /\ UNCHANGED <<device, file, failures>>

(* Mutant of Succeeds: __exit__ returns True.                              *)
Succeeds_Swallowed(exception) == exception

(* Whether the build takes the target for made when the program stops.     *)
Succeeds(exception) == FALSE

(* A program stops anywhere: with an exception, when what is committed is  *)
(* written, possibly in the middle of a stage, or killed.                  *)
Fail ==
  /\ program # "none" /\ failures < MaxFailures
  /\ failures' = failures + 1
  /\ \E exception \in BOOLEAN, partly \in {TRUE, FALSE} :
       /\ partly => exception /\ stage \in DOMAIN Following
       /\ file' = IF exception /\ stage \notin DOMAIN After \union {"verify"}
                  THEN [file EXCEPT ![program] = IF partly THEN Done(committed, stage) ELSE committed]
                  ELSE file
       /\ built' = IF Succeeds(exception) THEN built \union {program} ELSE built
  /\ Ends
  /\ UNCHANGED device

Work ==
  \/ StartFormChannels \/ CreateTables
  \/ \E ty \in left : ImportTileType(ty) \/ AddWireToSiteRelation(ty)
  \/ ImportPip \/ ImportSiteTypes \/ ImportSite \/ EndRelation
  \/ CommitTileTypes \/ ImportTile \/ ImportSiteInstance \/ EndTile \/ CommitGrid
  \/ InsertWires \/ (\E c \in left : Connect(c)) \/ InsertNodes
  \/ CountSitesAndPipsOnNodes
  \/ ClassifyNodes \/ (\E x \in left : InsertEdgeWithMux(x)) \/ EndClassify
  \/ RunStage \/ Flush
  \/ AssignPins \/ StartCreateEdges \/ ChangeFile \/ VerifyChannels

Next == Work \/ Fail

(* The build runs programs, and programs run.                              *)
Spec == Init /\ [][Next]_vars /\ WF_vars(Work)
-----------------------------------------------------------------------------
(* The wires that the connections E join with a wire.                      *)
Joined(E, x) ==
  LET Grow[n \in 0 .. Cardinality(E)] ==
        IF n = 0 THEN {x}
        ELSE Grow[n - 1] \union
             UNION {Range(c) : c \in {d \in E : Range(d) \intersect Grow[n - 1] # {}}}
  IN  Grow[Cardinality(E)]

Component(x) == Joined(device.connections, x)

(* Two wires have the same node just when connections join them, in        *)
(* whatever order the connections were gone through.                       *)
NodesAreComponents == \A w \in DOMAIN memory.node : memory.node[w] = Component(w)

DeviceWires ==
  UNION {{<<t.name, w>> : w \in TileTypes[t.type].wires \ MaskedWires(t.type)} : t \in Range(device.tiles)}

SitePins(node) ==
  {w \in node : \E i \in DOMAIN TileTypes[TypeOf(w[1])].sites :
                  w[2] \in TileTypes[TypeOf(w[1])].sites[i].pins}

SwitchRow(tables, pkey) == tables.switch[pkey]

(* Every pip, whichever way, and every site pin has the switch of its      *)
(* timing, however many share it; and a pip between pins one with the      *)
(* delay of all it stands for, unless it is a pass transistor, of which    *)
(* the delay to what is behind it is left out when what is before it has   *)
(* none.                                                                   *)
Timed(tables) ==
  /\ \A p \in tables.pip_in_tile :
       /\ SwitchRow(tables, tables.pip_switch[p][1]) = SwitchOfPip(p[2], p[2].timing)
       /\ SwitchRow(tables, tables.pip_switch[p][2]) = SwitchOfPip(p[2], p[2].back)
  /\ \A w \in DOMAIN tables.site_pin :
       LET pin == tables.site_pin[w]
       IN  SwitchRow(tables, pin.switch) = SwitchOfPin(TileTypes[w[1]].sites[pin.site].timing)
  /\ DOMAIN tables.edge_with_mux = EdgesWithMux(tables)
  /\ \A x \in DOMAIN tables.edge_with_mux :
       LET c == Chain(tables, x)
           lumped == SwitchRow(tables, tables.edge_with_mux[x])
       IN  /\ ~lumped.pass /\ lumped.timing.r = 0 /\ lumped.timing.c = 0
           /\ c[3].pass \/ lumped.timing.delay = ElmoreDelay(c[1], c[2], c[3], c[4], c[5])

(* What a target of the build is made from is the whole device, once,      *)
(* whatever failed before: programs that read the file see no trace of it. *)
Whole(tables) ==
  /\ tables.tile_type = TypesOfTiles /\ Timed(tables)
  /\ tables.phy_tile = [n \in DOMAIN device.tiles |-> device.tiles[n].name]
  /\ tables.wire = DeviceWires
  /\ \A w \in DeviceWires : tables.node[w] = Component(w)
  /\ \A n \in DOMAIN device.tiles : \A i \in DOMAIN TileTypes[device.tiles[n].type].sites \
       MaskedSites(device.tiles[n].type) :
       Cardinality({r \in DOMAIN tables.site_instance :
                      tables.site_instance[r].tile = n /\ tables.site_instance[r].site = i}) = 1

TargetsAreWhole ==
  /\ "form_channels" \in built =>
       /\ Whole(file["form_channels"])
       /\ file["form_channels"].later = <<"classify", "grid", "tracks">>
  /\ "create_edges" \in built =>
       /\ Whole(file["create_edges"])
       /\ file["create_edges"].later =
            <<"classify", "grid", "tracks", "edges", "channels", "locs", "feeds", "lengths">>

(* Devices that can be imported: no connection of a masked wire, no pip    *)
(* that is not masked on one, one site pin on a node, no resistance of a   *)
(* wire, and pass transistors without delay.                               *)
CanBeImported ==
  /\ \A c \in device.connections : Range(c) \subseteq DeviceWires
  /\ \A ty \in TypesOfTiles : \A p \in Range(TileTypes[ty].pips) \ MaskedPips(ty) :
       {p.src, p.dest} \intersect MaskedWires(ty) = {}
  /\ \A w \in DeviceWires : Cardinality(SitePins(Component(w))) <= 1
  /\ \E w \in DeviceWires : SitePins(Component(w)) # {}
  /\ \A ty \in TypesOfTiles :
       /\ \A w \in TileTypes[ty].wires : TileTypes[ty].resistance[w] = 0
       /\ \A p \in Range(TileTypes[ty].pips) : p.pass => \A t \in p.timing : t.delay = 0 /\ t.r = 0

(* Such a device gets its databases in the end, when programs do not fail  *)
(* for ever: what a failure left does not stand in the way of the next     *)
(* attempt.                                                                *)
EventuallyBuilt ==
  CanBeImported ~> built = {"form_channels", "pin_assignments", "create_edges"}
=============================================================================
