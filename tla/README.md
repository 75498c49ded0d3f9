# Verification of the f4pga-arch-defs device import

f4pga-arch-defs turns descriptions of FPGAs (Project X-Ray for Xilinx 7-series,
icebox for iCE40, QuickLogic data) into what VPR needs: an architecture, a
routing graph and the maps between the two.  The part with logic of its own is
the import: for Xilinx a chain of Python programs over one SQL database that
splits and merges tiles, decides what every node of the device becomes, makes
the edges of the routing graph, packs its tracks into channels, and writes the
blocks and tiles of the architecture; for iCE40 one program that makes a
routing graph from the wire groups of a part.  A mistake there shows hours
later, as a routing graph VPR refuses or a route that does not exist on the
chip.  These modules state what each step promises, check it with TLC on every
input of a small instance, and prove the most important promises with TLAPS for
every value of the constants.

All paths below are relative to the root of the repository.

## 1. Inventory

### 1.1 The parts and how they interact

```
 Project X-Ray database
        |  prjxray_form_channels.py
        |    import_phy_grid, import_tile_type, import_nodes
        |    count_sites_and_pips_on_nodes, classify_nodes
        |    create_vpr_grid  ---------> utils/tile_splitter/grid.py
        |    form_tracks, insert_tracks, create_constant_tracks
        |    initialize tables  -------> utils/lib/connection_database.sql
        v
   connection database (SQLite, in memory during a run, prjxray_db_cache.py)
        |
        |  prjxray_assign_tile_pin_direction.py
        |
        |  prjxray_create_edges.py --> prjxray_edge_library.py
        |    create_and_insert_edges, mark_track_liveness
        |    set_track_canonical_loc, annotate_pin_feeds
        |    compute_segment_lengths
        |    build_channels, verify_channels --> utils/lib/rr_graph/channel2.py
        |
        |  prjxray_tile_import.py, prjxray_physical_tile_import.py,
        |  prjxray_import_tile_capacity.py, prjxray_create_equiv_tiles.py,
        |  prjxray_create_synth_tiles.py, prjxray_arch_import.py
        |                        --> architecture XML --> VPR --> its own graph
        |                                                          |
        |  prjxray_routing_import.py <-----------------------------+
        |    --> utils/lib/rr_graph_capnp/graph2.py
        v
   rr_graph for VPR, map from graph nodes to VPR's

 icebox database --> ice40_import_routing_from_icebox.py
                       --> utils/lib/rr_graph/graph.py, channel.py, points.py
                       --> rr_graph for VPR
```

The programs run one after the other and share nothing but files; each reads
what an earlier one wrote and relies on what it looks like.  Within a program
the control is sequential, with one exception: graph2 packs channels in a pool
of processes.  The build runs a program again after it failed, on what the
failure left.  Beside the import the repository has Verilog test designs, of
which the RAM testers have a protocol of their own.

| Part | State | Operations | What is hard | What makes it correct |
|---|---|---|---|---|
| Physical grid import, `import_phy_grid`, `import_nodes` | rows of tile types, sites, wires, nodes, switches; the cache of switches | `import_tile_type`, `add_wire_to_site_relation`, `import_nodes`, `get_switch_timing`, `check_edge_with_mux_timing` | sets of wires that merge; a cache beside the table; masked pads | nodes are connected components; every pip and pin has the switch of its timing |
| Connection database, `DatabaseCache` | the file, its copy in memory, what of that is committed | open, commit, write back, roll back | the copy is written back even when the program failed; programs run again | what the build takes for made is whole; failures do not stand in the way of the next attempt |
| VPR grid, `create_vpr_grid` | tile types of the device, `wire` rows | the loops over styles, assignment of sites and wires | loops over rows that grow; order of merges and splits; rank of a site's y | every wire gets a tile; sites follow their y; the loops end |
| Tile grid, `tile_splitter.Grid` | `Tile` objects linked to neighbours, `items`, `origin` | `merge_tiles`, `split_tile`, `insert_empty`, `merge_tile_type`, `split_tile_type`, `output_grid` | eight pointers rewired per inserted tile; merges and splits in any sequence | the links are those of a rectangle; one root per physical tile |
| Node classification, `classify_nodes`, `form_tracks` | `node.classification`, counts of pips and pins | `count_sites_and_pips_on_nodes`, `classify_nodes`, `form_tracks` | a table of cases, and neighbours re-classified from two sides | every pip between two pins is an edge; every other reaches a track; nothing that is dropped was needed |
| Track forming, `create_track` | columns and rows left, counters of the points | `decompose_points_into_tracks`, `make_tracks` | four greedy loops over counters each removal changes | every place has a track; the tracks are one wire |
| Edge creation, `create_and_insert_edges` | graph nodes, edges waiting and committed, connector cache | `make_connection`, `find_connector`, `find_wire_node`, `commit_edges`, `mark_track_liveness` | batches, caches that the steps themselves invalidate, sort order of pips | every pip has its edges; one wire node per pin; dead tracks cut no route |
| Pin feeds, `annotate_pin_feeds` | segment and place of each track, connection boxes | `walk_and_mark_segment`, `set_pin_connection`, `set_track_canonical_loc` | a recursive walk on a graph with cycles; later walks see what earlier ones wrote | a named feed is the only way to its pin; output feeds win; termination |
| Track packing, `channel2.Channel` | `by_low` (stacks of unpacked tracks), `trees` | `pack_tracks`, `fill_empty` | nested loops over a dictionary that shrinks while its keys are looked up; boundaries | tracks of a ptc are disjoint; none lost; width minimal |
| Channel building, `build_channels` | `channel`, `graph_node.ptc` rows | `build_channels`, `verify_channels` | agreement of the packed trees and the rows | drives `channel2`; see there |
| Pin directions | sides asked for by each pin, sides chosen | `prjxray_assign_tile_pin_direction.py` | one choice for all tiles of a type, reduced greedily | every pin of every tile has a side its track or its direct connection reaches |
| Routing import | nodes and edges of the graph, node map, ids | `prjxray_routing_import.py` | two counts of one table; ids renumbered at three places; pads of regions; clock lines | the written graph has the routes of the device; each edge once; features of the clock lines |
| Routing graph channels, `graph2.Graph` | `nodes`, channel lists | `add_track`, `set_track_ptc`, `create_channels` | a pool whose jobs end in any order; padding bounds shared by both directions | no two nodes of a channel collide; channels full; returns |
| Tile and block import | blocks (`pb_type`), tiles and sub tiles | `prjxray_tile_import.py`, `prjxray_physical_tile_import.py`, `prjxray_import_tile_capacity.py`, `prjxray_create_equiv_tiles.py` | names of pins with digits; nets joined row by row; ports narrowed tile by tile | a block connects what its tiles connect; equivalent tiles fit the block |
| Synthetic tiles and architecture | pads and constants, layout, directs | `prjxray_create_synth_tiles.py`, `prjxray_arch_import.py` | pads numbered by one program and placed by another; prefixes in the order of sub tiles | pads have their place; each direct meets its ports; each placeholder is filled |
| iCE40 routing | nodes, names, edges and tracks of the graph | `ice40_import_routing_from_icebox.py` over `graph.py`, `channel.py`, `points.py` | a wire of any shape is taken apart into straight lines; names that pins had before | signals go just where the database lets them; who reads the file gets the same graph |
| RAM tests and their log | address, phase and LFSR of the tester; log counters; UART | `ram_test.v`, `error_output_logic.v`, `uart*.v`, `read_uart.py` | three state machines and a reader that resynchronises | a report is not torn; an error is not lost |
| QuickLogic, testarch, XML libraries, scripts, CMake, CI | data | conversions | none of order or interleaving | the data |

Section 7 says why the parts that are not modelled are not.

### 1.2 Hazards

`PROJECT.json` lists, at the line where each bites, what in this code is hard
to test: emptied stacks in `pack_tracks`, jobs that end in any order, pointer
surgery on the tile grid, loops that insert the rows they walk over, edges that
wait for a commit that never comes, a cache that goes stale by what its hit
causes, a walk that ends only because it remembers where it was, counters that
every removed track has to bring down, a copy of the database that is written
back after an exception, sides of pins that have to suit all tiles of a type,
a list of edges that is sized by one loop and filled by another, ids that are
renumbered at three places, wires that are taken apart and joined again, pads
that one program numbers and another places.  Each names the properties that
would catch it, or says why none does.

## 2. Plan

The order is that of importance to the flow: what VPR rejects first, then the
steps whose output those rely on, then the rest of the flow to the files VPR
reads.

| | Module | Builds on | State |
|---|---|---|---|
| 1 | `TrackAssignment`: what a packed channel promises | | done |
| 2 | `ChannelPack` | implements `TrackAssignment` | done |
| 3 | `ChannelGraph`: the pool and the padding; `ChannelProofs` (of both) | uses what `ChannelPack` guarantees | done |
| 4 | `TileGrid` | | done |
| 5 | `VprGrid`, `TileGridProofs` (of both) | drives the operations of `TileGrid` | done |
| 6 | `EdgeImport` | | done |
| 7 | `PinFeeds`, `EdgeImportProofs` (of both) | extends `EdgeImport`, keeps its `Spec` | done |
| 8 | `TrackForm`, `NodeClassify`, `NodeClassifyProofs` | extends and keeps `TrackForm`; before `EdgeImport` | done |
| 9 | `SwitchTiming`, `DeviceImport`, `DeviceImportProofs`: the database from Project X-Ray, with failures | | done |
| 10 | `PinDirections`, `PipFeatures`, `RoutingImport`, `RoutingImportProofs` | one composition; implements `GraphExport` | done |
| 11 | `StraightLines`, `TrackChannels`, `RrGraph`, `IceRouting` | one composition | done |
| 12 | `TileTypes`, `TileNets`, `EquivTiles`, `SynthTiles`, `ArchXml`, `ArchImport`, `ArchImportProofs` | one composition | done |
| 13 | `Reachability`: what reachable sets and least numbers are, for the proofs | | done |
| 14 | Proofs about 11, and about the names in 12 | | open |
| 15 | RAM tester, its log and the UART, composed | | open |

Theorems still worth proving: `NetsAreWhole` of `IceRouting`, once its joins no
longer need a recursive operator.

## 3. Modules

Each module keeps the names of the code.  `PROJECT.json` maps every definition
to its lines.

### TrackAssignment, ChannelPack: `utils/lib/rr_graph/channel2.py`

`TrackAssignment` is the abstract specification: tracks receive numbers one at a
time, a number is never taken back, and tracks that meet never share one.
`ChannelPack` is `Channel.pack_tracks` pop by pop: `StartTree` pops the longest
of the tracks that start lowest into a new tree, `AddTrackToTree` scans
`range(track_high + 1, high + 1)` for the next stack, `EndTree` is the inner
loop running out.  `by_low` is the set of keys not packed: a stack is those with
the same `low`, its top the longest.  Ties in a stack are broken by the order of
the input, so any of them may be next.  The refinement maps a track to the index
of its tree.

### ChannelGraph: `utils/lib/rr_graph/graph2.py`

`create_channels`: `Submit` groups the tracks and starts one job per channel;
`ProcessTrack(c)` is a worker ending, at any time, with any packing that
`ChannelPack`'s proved invariants allow; `Collect(d)` is one round of the main
loop, which blocks on the job of its channel; `Pad` adds the padding tracks.
`Raise(d)` is `max()` of an empty dictionary.

### TileGrid, VprGrid: `utils/tile_splitter/grid.py`, `create_vpr_grid`

`TileGrid` holds the linked tiles with one action per operation: a merge, a
split into tiles already inserted, an empty row or column.  `root` is
`root_phy_tile_pkeys`, `phys` is `phy_tile_pkeys`.  The assertions of the three
operations, a site the map of a split does not have, and an index past the tiles
that were found are `raised`.
`VprGrid` is the program that calls them: each call of `merge_tile_type` and
`split_tile_type` in order.  The first loop of `split_tile_type` is `FindRow`, which
marks a row as seen and keeps its top; the second is `StartRow` to `EndRow`, one call of
`split_in_dir` for each top, with the rows it inserts and the tiles it splits.  Each
type to split has its own directions and its own types for the ys of its sites.
The tail gives every wire a tile, first by the root of its
physical tile and then, for the wires of sites, by the place of the site.
`NumToInsert` keeps a detail of the loop it models: the test that ends the look
ahead comes after a `continue`, so that a split into one type, as of `LIOI3_SING`,
still pushes an empty row in before a tile that is not empty.

### TrackForm: `utils/lib/rr_graph/points.py`, `tracks.py`

`create_track`, the routine that decides where the wires of a node run.  `Begin` makes
every column and row beside a point; `RemoveSmaller`, `RemoveSmallest` and
`TryAny` are one round of the three kinds of loops that take them away, each with
its call of `try_remove_track` (`Removable`).  The counter of a point is the number
of tracks it is on, which is what the counters always are.  `Adjacent` and
`Joined` are the tracks that `make_tracks` returns and `is_wire_adjacent_to_track`.
The options `grid_width`, `grid_height` and `right_only`, which the Xilinx flow does
not use, are left out.

### NodeClassify: `xilinx/common/utils/prjxray_form_channels.py`

Around it, what every node becomes: `CountSitesAndPips`, `ClassifyNodes` (the
updates by the node alone, the loop over pins with one pip, and the three lists in
the order they are written back), `FormTrack` with the places it asks for
(`UniquePos`), `CreateConstantTracks`, `InsertTracks`.  What is abstracted:

* A node has one wire per tile.  Timing and segments are left out, and so are the
  pins of TIEOFF that are connected to the constants.
* The rows of `edge_with_mux` are a set of pips: a pip between two pins is there
  once from each end.
* The tracks are inserted one by one, not all at the end, and the two constant
  tracks, which are formed from the same places, are formed once.
* Devices are such that two pins are joined by the only pip of both, or by a pip
  from PADOUT to a DIFFI_IN that has no other (the rule for pads); what else a
  PADOUT leads to is not imported (`prjxray_edge_library.py:2104`).

### EdgeImport: `xilinx/common/utils/prjxray_edge_library.py`

`create_and_insert_edges` tile by tile: `MakeConnection` is one round of the loop
over the sorted pips, with the connector cache, the wire nodes made on demand
and the assertions; `EndTile` the commit at the end of a tile;
`MarkTrackLiveness` the step after the loop.  A graph node is `<<node, i>>`, with
`i = 0` for a pin's own and `i > 0` for tracks and the wire nodes of pins.
`src`, `dst` and the pip of an edge are kept.  What is abstracted:

* Where a pip meets a track of several graph nodes, which of them it joins
  depends on coordinates: here, any.  `Joints` are the connections `make_tracks`
  gave the track.
* Edges are deduplicated per pip rather than by ends and switch per tile.
* The tables of constant ties are empty in the repository, and their loop is
  left out; so are the constants shared by TIEOFF pins.
* A pip between two pins has a row in `edge_with_mux`, which
  `get_edge_with_mux_switch` asserts.
* The pips of a pin are in one tile (where they are not, the assertions of
  `find_connector` fire), tiles outside the ROI are not among the tiles, and
  pips that the import filters by name are not among the pips.

### PinFeeds: the same file, after the edges

`SetTrackCanonicalLoc`, then one `StartWalk` per active pin, output pins first,
and one `Walk` per call of the recursive `walk_and_mark_segment`;
`SetPinConnection` is the part of the last call that places the feed.  A node has
one wire per tile, `NULL` and `unknown` segments are one value, and the queries
that find clock pins are in the constant `Feed`.  `cut` and `path` are history: the
nodes a walk had passed when it named a track, and those it had at its end.

### SwitchTiming, DeviceImport: `prjxray_form_channels.py`, `prjxray_db_cache.py`, `prjxray_create_edges.py`

The connection database from Project X-Ray to the last program that writes it,
with three states of the tables: `file`, `memory`, and what of the memory
connection is `committed`.  `ImportTileType`, `ImportPip`, `ImportSiteTypes`,
`AddWireToSiteRelation`, `ImportSite`, `ImportTile`, `ImportSiteInstance`,
`InsertWires`, `Connect` (one connection of `import_nodes`, which merges two sets
of wires), `InsertNodes`, `CountSitesAndPipsOnNodes`, `ClassifyNodes` and
`InsertEdgeWithMux` are the loops of the code, a step for each round: `left` is
what the loop of a stage has still to do, `queue` the same of a loop inside it,
over the pips or sites of a tile type, with the `lastrowid` of its cursor.  Muxes
are inserted in any order.  Classification, grid, tracks and edges, which have
modules of their own, are entries of `later`.  `GetSwitchTiming` is the cache of switches,
which commits what comes before a new one too; `pip_cache` is that of the
running program.  `Lumped` is the one switch that stands for a pip between two
site pins.  `Fail` stops the running program anywhere, with an exception (the
rollback and the write-back of `__exit__`) or killed; the build starts
it again as long as its target is not `built`.  What is abstracted:

* Timings are small integers; names and indices are left out.
* All pins of a site have one timing.
* Of `classify_nodes` only the pips with a mux are here, by the rule without
  names.

### PinDirections, PipFeatures, RoutingImport, GraphExport: from the sides of the pins to VPR's graph

`PinDirections` is `prjxray_assign_tile_pin_direction.py` for the tiles of one
type: what direct connections and tracks of each tile ask for, and then key by
key the choice of sides and its reduction.  `RoutingImport` goes on with
`prjxray_edge_library.py` for pins, wire nodes and tracks with their coordinates
(the sides decide which segment a pip meets, which `EdgeImport` leaves open:
`Joins` is the table of `get_tracks_for_wire_at_coord`, one segment for each side),
`mark_track_liveness`, `build_channels`, `verify_channels`, and then
`prjxray_routing_import.py` with the `Graph` of graph2: `ImportGraphNodes` matches
VPR's nodes, `ImportTracks` adds the tracks, `AddSyntheticEdges` joins the
constant network and the pads of a region, `CreateNodeRemap` renumbers along the
curve of Hilbert, `GetNumberGraphEdges` counts, `WriteEdge` yields one edge to
the writer, which numbers and writes it.  `PipFeatures` is what FASM
features an edge has besides its own: `check_feature`, by the first rule that
matches, with the rows and buffers of clock lines.  `GraphExport` is the
abstract specification: the wanted edges are known before the first is sent,
each is sent once, and in the end all are.  What is abstracted:

* A switch is a name; which names are in VPR's graph and the order of its
  switches are kept, its timing is not.
* A wire of a tile is what the regular expressions of the code capture of it.
* The ground is like the constant one, and tiles outside of a region are not among
  the tiles.
* The tables `FEATURES_WHEN_ROUTED` and `WIRE_TIE_OPTIONS` of
  `prjxray_constant_site_pins.py` are empty in the repository.
* The features that a property compares are those of the clock lines.

### StraightLines, TrackChannels, RrGraph, IceRouting: the iCE40 routing graph

`StraightLines` is `decompose_into_straight_lines` of `utils/lib/rr_graph/points.py`:
the places of a wire become rows, columns and stubs, and the places where these
are joined.  `TrackChannels` is `channel.py` (the first index at which a track is
free along its length), `RrGraph` the operations of `graph.py` the import uses, and
reading a graph from its file.  `IceRouting` is `main` of
`ice40_import_routing_from_icebox.py`: `RebuildPins`, `AliasPins`, four passes over
the wire groups (`SkipGroup`, `AddGroup`, `MixedGroup` for the assertion that a
group has one type), `AddEntry` for each entry of the tile database, `Save` and
`Read`.  An entry of the RAM of a 384 raises, and so does a group of `glb_netwk` wires
alone, for which `group_seg_type` has no type.  Metadata, segments, timing, the
side of a pin and the order of the edges are left out; tracks are a set, from which the length of the lists of a
slice follows; a name is a sequence of words.

### TileTypes, TileNets, EquivTiles, SynthTiles, ArchXml, ArchImport: the architecture

`TileTypes` holds the operators for blocks and tiles that are made from Project
X-Ray's description alone (`ImportTile`, `ImportFusedTile`,
`ImportSiteAsTile`, `ImportPhysicalTile`, `ImportTileCapacity`), with the matching of pins to ports of which
the names may end with digits.  `TileNets` are the nets inside a tile that is
imported from the database: `ExpandNode` takes one node into the sets so far.
`EquivTiles` is `prjxray_create_equiv_tiles.py`, with its own copies of both.
`SynthTiles` is `prjxray_create_synth_tiles.py`, `ArchXml` what
`prjxray_arch_import.py` writes: pads, constants, the layout with the prefixes and
placeholders of FASM, the directs and their z offsets.  `ArchImport` runs the
programs in the order of the build: one recipe per tile type, then synthetic
tiles port by port, then the architecture.  Rows of queries without an order,
`GROUP BY` without an aggregate and the members of sets come in any order.  What is
abstracted:

* The models of primitives, delays, wire lengths and the constants of the XML.
* A name is a stem and the digits it ends with; a clock input is an input.
* A node has one site pin at most, which `count_sites_and_pips_on_nodes` asserts.

## 4. What the runs check

Every run explores its whole state space.

| Run | Instance | Shows |
|---|---|---|
| `channel_pack` | 4 tracks anywhere on 4 coordinates | the packing is minimal and implements `TrackAssignment`, so that it is disjoint |
| `channel_graph` | 3 tracks anywhere in a 3 by 2 grid, all schedules of the pool | no collisions, channels full, always returns |
| `tile_grid` | 2 by 2 tiles, all sequences of 3 operations | the mesh stays a rectangle, each physical tile has one root |
| `vpr_grid` | 2 by 3, all device layouts, all loop orders | every tile to split is split once, every wire has a tile, sites follow their y, ends without an exception |
| `node_classify` | 3 by 3 grid, a wire in any tiles with its pin's site anywhere; 3 pins, 2 wires, all choices of up to 5 of 12 pips | pips find their tracks, dropped nodes cut no route, tracks reach their places and are one wire |
| `edge_import` | 7 nodes, all choices of 3 to 5 of 11 pips with reserved nodes, or with a clock buffer; 2 tiles | pips have their edges, one wire node per pin, dead tracks cut no route |
| `edge_import_lost` | the same | *violated:* the last edges are never committed |
| `pin_feeds` | 7 nodes, all choices of 2 to 4 of 11 pips | feeds are cuts, outputs win, the walks end |
| `device_import` | 2 tiles of 3 wires, all choices of up to 4 of 5 connections; a processor with a masked pad; a pip between two pins with 108 timings; up to 2 failures anywhere | nodes are components; what is taken for made is whole, once, with the right switches; in the end everything is made |
| `routing_import` | 2 tiles of a type, 3 tracks in 4 layouts, all choices of pips; 4 clock columns; regions with pads and with crossings of one or both ways; grids with and without constants | sides suit all tiles, clock lines are on, only the curve stops the export, routes are the device's, implements `GraphExport` |
| `ice_routing` | 5 by 5 tiles, any choice of 8 wire groups | wires are whole nets, routes are the database's, the file is the graph |
| `arch_import` | 4 kinds of small devices, all orders of rows and sets | pins, nets, pads, prefixes, placeholders and directs meet what they are for |

### Bounds

Four coordinates and four tracks hold every relation
of two intervals (apart, touching, overlapping, nested, equal) with a third track
before, between and after, and a stack of two; the minimal-width argument needs
one track in each of two trees and a third that fits neither.  Three tracks in
six channels put two in one channel with a third in the other direction, which
is what the padding bounds depend on.  Three operations on 2 by 2 tiles insert
next to an inserted row, split over an insertion, and merge what was split.  Two
columns of three rows hold an IOB beside its IOI, two splits in one row and one
split above another, and an `LIOI3_SING`, whose split is of one type and comes second,
in any of these places.  On a three by three grid points lie beside one or two columns,
on an edge where only one direction reaches, and apart enough that several columns
or rows stay and their crossing with them; up to five pips in `node_classify` put a
node in two of the lists of `classify_nodes` at once.  Five pips on seven nodes
close a cycle of two tracks with a pin at each end, give one pin two pips, and
leave tracks dead on one side; `Batch = 2` commits in the first tile and strands
edges in the last.  Four pips between the nodes of `pin_feeds` give a feed shared
by two pins, a track between an output and an input pin, and a cycle.  `MaxOps`
and `MaxTiles` bound `TileGrid`; `VprGrid` does not reach its bounds, which
`EventuallyAssigned` shows.

Four connections among six wires make components of up to four wires, and those of
a cycle, in every order of the merges; `MaxFailures = 2` is a failure of one program
and one of the next, or the same program failing on what its own failure left.  Some devices
cannot be imported (two site pins on a node, a connection to a masked wire, a
resistance on the wire of a pin between pins, a pass transistor with a delay); they
show that nothing is taken for made then.

Two tiles at corners of each other have a track between them on the opposite sides
of both, so that no side suits both but for one layout, and the tracks of two
segments turn a corner; one layout puts a track at the column where the curve
ends.  Two or three pips make a route over a track that is joined at two places,
and leave a dead track beside an alive one.  The clock columns differ in where
the rows are: between the buffers, beside the ends, missing.  A region has up to
three pads, of either direction, on tracks that pins also use, with or without a
wire outside of it, and on the same tracks a crossing of one way or of both, so
that each end of a pip is reserved in each of the directions.

The wire groups of `ice_routing` are those shapes that icebox has: one tile, a
neighbourhood with and without a corner, a row, a row and a column that meet in a
tile of the wire or beside it, a cross; any choice of them puts tracks over each other.  Two
more shapes and a pin in the middle of the part show where the import raises.

`arch_import` starts from ports and pins with digits, from a tile type of the
database whose nets are joined through one or two pips, from a tile of two physical
ones with a net across them, as RIOPAD_M is, from groups of two or three
equivalent tiles, and from layouts with regions, overlays and prohibited sites,
with odd ones of each kind among them.  Where the programs look at one tile
of a type, `PbTypeIsTheTile` and `EquivalentTilesFit` compare all tiles of types
whose tiles are alike (`AreAlike`), as those of a device are; for groups that are not, the result
depends on which tile the database comes to.  No tile type that is imported from
the database has several tiles of several physical tiles each (section 8 says why).

### Fairness

Packing, the grid, the pin feeds and the iCE40 import are sequential
programs without blocking calls, so weak fairness of their next-state relation
says that the program keeps running.  For `ChannelGraph` weak fairness of `Next`
says that as long as something can happen something does: jobs are finite and
each ends once, so that is enough for the pool.  For `DeviceImport` it is weak
fairness of `Work` alone: programs run on and the build starts them; failures
need not happen, and are at most `MaxFailures`, because nothing is ever
built where programs fail for ever.  For `RoutingImport` it is weak fairness
of `WriteEdge`, the loop of the writer, which `GraphExport` asks of it.  `VprGrid`,
`NodeClassify`, `EdgeImport` and `ArchImport` are checked for safety, but for
`EventuallyAssigned`, under `FairDriverSpec`.

## 5. What is proved

The theorems hold for every value of the constants that the `ASSUME`s of the
modules allow: any number of tiles, tracks, nodes, pips, operations and
failures.  What is assumed is what the databases have and the code relies on:

* sets of a device are finite, the places of a device are on its grid, and the
  grid of `TrackForm` has two columns and two rows;
* sites of a type are at the ys that its style has; the types that a split makes are
  new, one for each y, and no type is both merged and split (`CallAssumption`,
  `TypesAssumption`);
* a pip joins two nodes, in a tile where both have a wire; two pins are joined
  by the only pip of both, or by the one of the pads (`PinsAsInDevices`);
* tiles have names of their own and known types, and a connection has two
  wires (`DevicesAssumption`, `TileTypesAssumption`);
* no segment is both an output's and an input's (`FeedAssumption`);
* there is a switch for every pip, and a crossing joins two wires
  (`RoutingAssumption`);
* segments end beyond 0, and several segments of a track have both directions,
  as `make_tracks` asserts; the constant track, which `create_constant_tracks`
  makes for all tiles, has a row and a column that end no sooner than the tiles
  and the grid, and two segments of one direction (`LayoutAssumption`);
* tiles have places of their own and pads names of their own, a synthetic tile
  is at one place with a z for each pad, and a mux leads from an output to an
  input (`PinAssumption`);
* the names that programs sort differ; a place of Project X-Ray's grid is there
  once, as is a tile of the database; NULL places have no sites and become
  NULL tiles, a VBRK a tile of its own, and prohibited sites are where the grid has sites; no
  tile of the device has the type of a constant; ports have a type and a name, and
  designs with ports a region (`AlphabetAssumption`, `GridAssumption`,
  `TilesAssumption`, `PortsAssumption`);
* the tiles with directs between their own sub tiles, GTP_CHANNEL and
  GTP_COMMON, are made from their sites, as the `CMakeLists.txt` of the families have
  it, and are always made (the import opens the file of every tile it wants); such a
  direct leads from an output to an input; a tile that is made of its sites is
  written by one recipe and has no constant's name; directs have integer lengths and
  switches of the database (`RecipesAssumption`, `DirectsAssumption`);
* the sites at a tile are among those of its type in Project X-Ray, with the same
  wires and in the same directions of each other, though not at the same coordinates,
  and such a tile is not split by site; the database may lack some of them
  (`SitesAssumption`); the database has finitely many wires (`WiresAssumption`);
* a pip leads to a wire of the node that it drives; a row that a clock line
  crosses is next to a buffer at an end of the line, in the column of the clock
  tiles; what drives a clock line is neither a pip of an IOI_SING tile nor begins
  at a pad (`ClockAssumption`).

TLC evaluates each on the devices of the runs.

**Reachability.**  The library's induction theorems cannot be used here (their
parameter is an operator), so that the facts about reachable sets are proved
once from a set of naturals: the set that grows along links until nothing is new
exists, contains where it began and is closed (`GrowthIsClosure`); a set of
naturals has a least one; what holds at 0 and with n at n + 1 holds everywhere.
`FoldSet` over a finite set is treated in the same way (`ListedOnce`: the
sequence it makes has each member once).

**ChannelPack** (`ChannelProofs`).  `Disjoint`, `Conserved`, `Needed`,
`Optimal`, `TypeCorrect`, `Refinement`.  The inductive invariant adds to the
properties that every tree but the open one covers the start of all unpacked
tracks (`LeftIsCovered`), that the tracks of the open tree end at `track_high`
(`OpenTree`), and that no start is above `high`.  Without the first a new tree
could be opened where an old one has room.  `Optimal` follows: the track that
opened the last tree starts where all trees are occupied.  The refinement sends
both pops to `Assign` and `EndTree` to a stutter.

**ChannelGraph** (also in `ChannelProofs`).  `PtcsAreNeverShared`: no two nodes of
a channel that share a coordinate share a ptc, in whatever order the jobs end.
The invariant says whose ptcs are assigned at each collected channel
(`Collecting`); that the padding does not collide is a fact about the intervals
between the tracks of a ptc.  `ReturnedChannelsAreFull` says the same intervals
leave no gap.  `PackingsAreAnswers` joins the two: when `ChannelPack` has packed the
tracks of a channel, its numbers are one of the answers that `ProcessTrack` may
give, for which the number of its trees must not exceed that of its tracks.

**TileGrid** (`TileGridProofs`).  `OneRoot`, `SitesAreNotCopied`: by induction
over the operations that move roots and sites, each of which empties where it
fills from.  `LinksAreARectangle`: the invariant (`LinksInv`) gives every tile a
place of which its four links are the neighbours; `insert_empty` moves the
places behind the new row, and the pointers it rewires, row by row, are those
that the new places ask for.  `TypeCorrect` is a part of it.

**VprGrid** (also in `TileGridProofs`).  The loops change tiles only by the operations
of `TileGrid` (`StepMaps`), so what is proved of these holds of the program
(`DriverOneRoot`, `DriverSitesAreNotCopied`, `DriverLinksAreARectangle`).
`TilesAreSplitOnce`: when the loops have ended, every tile of a type to split has
become one tile of each of its types, no two of them share a tile, and no other tile was
touched, for every layout, every list of merges and splits and every order of the
tiles.  What has to be shown is about rows: each tile that is still to be split is on
a row whose top is kept (`Covered`), which needs that the walk to the bottom of a row
and back ends at its top wherever it began (`FoundTop`, `Lined`), that a row that is
pushed in leaves the others rows (`InsertKeepsRows`), and that the walk from a top meets
all of its row (`RowUnique`).  That a tile is not taken twice follows from the tiles
themselves: one that was split has a type that is never looked for, and takes only
empty tiles, which belong to no other split (`MadeOfOne`, `OwnPhys`).
`SitesKeepTheirY`: a tile with sites is either
still to be split, with its type, or holds those of its y (`SitesInv`).
`WiresHaveTiles`: when the wires are assigned, every one has a tile of the output
and those of a site have the tile of the site, for every layout and every list of
merges and splits.  A wire always has a root or a site to go to; what could go
wrong is that `output_grid`, which goes east from the first tile and south from
there, misses that tile.  The invariant (`CornerInv`) says that the first tile stays
the north-west corner (`Cornered`), that a set of tiles that has it and is closed
under steps south and east has all tiles (`Spanned`), and why an insertion keeps
both: `split_in_dir` counts only tiles that are ahead of one of the row, so that a row
that is pushed in always lands between two that were there (`TopHasRoom`), never
outside of the first.  In a rectangle the walks of `output_grid` are such a set
(`OutputIsAll`).  That the loops get as far as assigning wires is not part of
it: `EventuallyAssigned` is checked, on layouts without an IOI in the first row.

**TrackForm, NodeClassify** (`NodeClassifyProofs`).  `PointsReached`: every place
is beside a track; `OneWire`: the tracks are joined, and touch where they are.  The
inductive invariant says that every point is on a track (`Covered`), that of two
tracks that run alike there is one that crosses (`Crossed`), and that no track
is outside of the points (`Between`).  A removal keeps the first because a counter
above one means another track, and the second because a last crossing is only
let go when there is one track to cross.  `FormingIsKept`: the program around it
calls it with places of the grid only, so both hold for every node of every
device.  `NullNodesAreDeadEnds`: a node becomes NULL only where at most one pip is
left to it, so a way between pins through it would have to turn; ways are taken
as closed sets on both sides.  `PipsMeetTheirTracks`: the places that a track was
formed for contain each place that a pip of it is looked for at, which connects
the counting of pips, the classification and the tracks.

**EdgeImport** (`EdgeImportProofs`).  `Typed`; `OneWireNode`, from the invariant
that a pin whose pips are in the tile of its site wire has either no wire node
or one that is recorded there (`MadeAndRecorded`); `ReservedRespected`.
`PipsKeepTheirEdges`: what waits for a commit and what is committed together have
the edges of every pip that was visited, also where the connector came from the
cache.  `DeadEndsOnly`: the sets that `mark_track_liveness` grows from both kinds
of pins contain every route.

**PinFeeds** (also in `EdgeImportProofs`).  `ImportIsKept`: the program with the
feeds implements the edge import, so all of the above holds of it.
`FeedsAreCuts`: a track named by a walk is the only way between the pin and the
rest of the graph, for every graph the import can make.  The invariant is that
the walk so far is itself a cut (`OnlyWayFrom`), that the graph no longer
changes (`Staged`), and that pins are ends of the graph (`PinsAreEnds`), which a
walk needs to have only one pin in what it passed.  `OutputsComeFirst`: while
output pins are left no input was walked from (`OutputsFirst`), and a track that
has a name is passed by.

**DeviceImport** (`DeviceImportProofs`).  `WiresMeetInNodes`: the sets of wires
that `import_nodes` merges are a partition, of which the members are joined by
the connections seen so far (`Partition`).  `TargetsHoldTheDevice`: whatever the
build takes for made is whole, after any number of failures.  Its invariant
(`TargetsInv`) is a description of the tables after each stage of each program;
a failure leaves a target either not built or as the last stage described it,
and a program that is started again finds what it needs or raises.

**PinDirections, RoutingImport** (`RoutingImportProofs`).  `SidesAreSuitable`,
`AssertionHolds`: all that is asked for is known before the first pin is decided
(`SidesInv`), and a decision that is being reduced serves all of it (`Chosen`).
For `GraphExport` the invariant has four parts, each of which relies on those
before:

* `RowsInv`: every row of `graph_edge` is of a joined pair of segments, a site
  pin or a pip that is no longer left, and no two rows speak for the same edge
  but those of a site pin, which is there once for each pip of the pin;
* `GraphInv`: a graph node that is not a pin's has a node of its own, edges made
  for VPR's own pins and for synthetic pins are apart, and the graph has a
  switch for every row;
* `IdsApart`: ids after the renumbering are apart, because the number of nodes
  that are not after a node on the curve is greater for a later node;
* `WriteInv`: what was yielded up to a row is what was counted up to it.

`ExportsOnce` is the refinement but for its liveness, `AllAreSent` that a file
that is written has all the edges wanted, and `WritingNeverRaises` that neither
the count ("Unwritten edges!") nor a switch stops the writer halfway.
`ExportIsImplemented` reduces `ImplementsExport` to the ending of the loop.

`LinesAreTurnedOn`: an edge into a clock line has the features of all of its
buffers and of the rows it crosses.  By `ClockInv` every row that ends at a track
is of a pip that drives this track, in its own direction, and so is every edge
that was written; the rest is that `CheckFeature` of a wire of a line finds what
the fabric has at the line (`PipTurnsOn`).  `CurveStopsOnly`: once nodes are
renumbered only a side that is a power of two stops the import.  By `TracksInv`
the constant track is alive when the channels are measured, for the segment that
joins two of its segments has two neighbours, so that the channels reach all
tiles; then no node is beyond them (`CurveInv`), and the curve covers all but
its far side.

`RoutesAreWritten`: in the file, an input or a pad is reached from an output or
a pad just where the pips, crossings and muxes of the device lead from one to
the other, over any number of tracks (`RoutesAreTheDevices`).  The pips meant are
those that lead neither into a track that a pad of the region drives nor out of
one that a pad drains, which the property reads off the pads and not off the
model's `Reserved`; and no edge of a pip in the file does so either
(`PadsAreAlone`), but for a pip that is turned round (section 8).  Four parts are
added to the invariant (`RoutesInv`):

* `LinksInv`: what rows join is two segments of a track that meet, a pin and a
  segment of a pip between them, segments of crossed tracks or the pins of a mux,
  and each pip, crossing and mux that is no longer left has its row;
* `AliveInv`: a track through which rows lead from one node to another is alive,
  and so is one that a pad outside of the region drives or drains;
* `PlacedInv`: the node of a pin is VPR's node of its place, for each of the
  sides chosen for it, and VPR's and the region's nodes have only the edges of
  their class and of their pads;
* `PadRowsInv`: no row of a pip leads into a track that a pad drives or out of one
  that a pad drains, unless the pip is turned.

A route of the device is then followed forward: all segments of a track are
joined, so a closed set that contains one of them contains them all, and the
next pin or track with them.  Backward, the nodes of tracks that the route's own
tracks lead to are a closed set (`ReachedIds`), in which each track has all of
its nodes or is a dead end; the pins in it are those that the device joins.
The renumbering only renames both (`EndsAreNew`).

**ArchImport** (`ArchImportProofs`).  Four properties that no program of this
part can keep alone.  The invariant follows the data from one to the next:

* `PadsHaveNumbers`, `SynthTilesHaveAPlace`, `PadsAreCounted`, `PortsAreSorted`: a
  pad's pins are numbered as they come, and once it has an input no port that is left
  is an output, because the ports are sorted by direction in the order of
  `create_synth_io_tile`; no two pads have the same name;
* `ConstantsComeLast`, `LocsFollow`: a region has just two tiles that are no pads,
  for VCC and GND, at breaks without sites, and other designs have none; what the
  layout looks up is where they were placed;
* `PadsHaveTiles`, `RecipesAreFollowed`, `ArchIsWritten`: the tiles of pads are those
  of their pins; a tile of several sites, once written, is what its recipe makes of
  them, so that each end of a direct of its own is on one side of it only; each
  instance of a tile in the layout was found in the database.

`PadsArePlaced`: the outputs of a pad come first, as do its sub tiles for
them, and there are as many instances as pins.  `SynthTilesAreInTheLayout`: a
synthetic tile is at the place of a tile that is not NULL and the added
constants are at NULL places, so neither hides the other; two NULL places differ because
`sorted` puts them in order (`NullPlacesDiffer`), as do the two breaks
(`ConstantTilesDiffer`).  `DirectsLeadToTheirPorts`: the nearest direct between two
pins is unique, as ties go to the first, and `z_offset` is the distance of the last
sub tile with one end from the last with the other, which have the pin as an output
and as an input.  That `sorted` (`InOrder`) sorts is a lemma for any strict weak order
(`SortingIsAnOrder`, `InOrderSorts`).

`PrefixesAreInOrder`: a tile is only emitted with as many prefixes as its sub tiles
have instances, so each site of the type is there once (`CapacityOfAll`).  Both
programs sort by type and place, and the rank of a site is the same in both
(`RankOfSorted`); a sorted sequence has one order only (`SortedIsUnique`), so the
prefix and the sub tile at one place are of one site (`PrefixOfSorted`).

`NetsOfTilesAreWhole` is about the first half of the import from the database:
`NetsAreConnected` says that `expand_nodes_in_tile_type` leaves in each set what
the pips connect.  Its invariant (`NetsInv`) is that sets are apart, each a part of
one net, and that a node which was taken is with the nodes one pip away.  Taking a node
keeps that because sets that meet become one as a whole (`OneMoreNode`), and
because a pip joins both ways, so that connected nodes have the same net
(`ConnectedIsSymmetric`).

## 6. What is only model-checked

* Liveness (`EventuallyReturns`, `EventuallyAssigned`, `EventuallyAnnotated`,
  `EventuallyBuilt`, and that the loop of the writer ends), which needs `ENABLED`.
* `IceRouting`: the joins of wires are a recursive operator, and names are what
  a fold leaves.
* Of `ArchImport` what depends on names, which `FoldLeft` takes apart
  (`PinsReachTheirBits`), on tiles that are alike (`PbTypeIsTheTile`,
  `EquivalentTilesFit`), and on the blocks and features of each recipe
  (`PlaceholdersAreFilled`).

## 7. What is not modelled

* `compute_segment_lengths`, a median over what `PinFeeds` leaves;
  `connect_hardpins_to_constant_network`, one insertion for each pin of TIEOFF;
  of `create_vpr_grid` the new types of `wire_in_tile` rows and the wires that are found through a pip
  beside a site.
* Of the pin directions which wires of a tile type are pins; of the routing
  import the timing that `add_switches` copies.
* Of the iCE40 support `add_global_tracks`, which nothing calls, the layout
  import and the FASM tools, which reformat data, and
  `ice40_generate_routing.py`, which nothing in the build runs.
* Of the routing graph library the printers and the helpers without a caller.
* The RAM tests and their log: state machines in Verilog that share nothing with
  the import.
* QuickLogic and testarch generators, the XML and multiplexer libraries, the
  inspection scripts: their result is a function of their input, with no order of
  steps to get wrong.
* SQLite itself, the file system, VPR, the CMake build, CI.

## 8. Where code and documentation disagree

One disagreement is a run that TLC violates (`edge_import_lost`);
`PROJECT.json` quotes the lines: `create_and_insert_edges` never commits its
last batch (`xilinx/common/utils/prjxray_edge_library.py:2158`;
`prjxray_create_edges.py:14` promises edges "based on pips in every tile").

Others were seen while modelling and have no run.

Tile grid:

* `Grid.split_tile` drops the sites of every tile but the first
  (`utils/tile_splitter/grid.py:460`; the docstring at line 169 has each site in
  exactly one tile).
* `split_in_dir` inserts nothing for a tile at the edge and then indexes past the
  tiles it found (line 553; the docstring at line 521).
* Tiles that were split can be merged (`grid.py:176` against 636-647); split-off
  tiles keep roots (142 against 451); split tiles can hold several sites (175);
  `origin` is not moved by insertions above or left of it (357 against 505); a
  split in three inserts too few rows (521 against 554).
* "Find how many empty tiles are required" (542): `split_in_dir` looks at the tile
  ahead before it compares the length of the list, so that the split of an
  `LIOI3_SING` into one type pushes a row in that nothing takes.
* A row that is pushed in for one split may come between the tiles of another, which
  are then no longer next to each other.

Channels:

* `create_channels` raises ValueError when all tracks run in one direction
  (`graph2.py:493` against 551).
* `tracks.make_tracks` asserts a tuple, which is always true.

Edges and import of the database (`prjxray_edge_library.py`,
`prjxray_form_channels.py`):

* A pip that is not directional, taken backward, drives from an input-only node, or
  into an output-only one, because both ways are judged by the ends of one (line
  1121; line 1083 calls them "Nodes that can only be used as sinks", and the comment
  at 2279 has "only outgoing or incoming edges").  `PadsAreAlone` excepts it.
* `resistance + wire_res` is an expression without effect (line 544), so nodes keep
  the resistance of no wire.
* `find_wire_node` makes a second wire node when the pip is in another tile than
  the site (598).
* The wires outside the region that a synthetic tile lists are reserved for each of
  its pins, in both directions (2278); where a tile has pads of both, they are of
  no use to either.
* Two pins with a shared feed over a track of several graph nodes can disagree
  on its place, because each walk enters it elsewhere; the docstring of
  `set_pin_connection` (1418) has the tracks of the feed at the pin's location.
* `DatabaseCache` writes the copy in memory back after an exception too.
* `import_phy_grid` marks a site as prohibited at `lastrowid`
  (`prjxray_form_channels.py:561`), which is not the row of a site that was masked.
* The zero delay of `check_edge_with_mux_timing` (869) is judged on both sides of
  the switch, as if a pass transistor kept them apart.
* Each row of `edge_with_mux` is there twice, once from each end (1078).

Pin directions and routing import:

* The comment at `prjxray_assign_tile_pin_direction.py:575`, "final the minimal
  number of pins", describes a reduction that stops at two sides, and otherwise
  at a set from which nothing can be taken, which need not be the smallest.
* `create_node_remap` raises KeyError when the greater side of the grid is a power
  of two (`prjxray_routing_import.py:1190`).

Architecture (`prjxray_arch_import.py`, `prjxray_tile_import.py`,
`prjxray_create_equiv_tiles.py`, `prjxray_create_synth_tiles.py`):

* "Skip generation of tiles containing prohibited sites"
  (`prjxray_arch_import.py:792`) looks at the first physical tile of a tile only, and comes
  before the emission of a synthetic tile at the same place.
* "Use shortest variant of tile type" (`prjxray_tile_import.py:964`): the code takes
  the first in the order of strings.
* `--filter_x` raises KeyError whenever it filters a site.
* The assertion that a site type is used once per tile cannot fire, because the
  query groups by it.
* `find_port` of the equivalent tiles lacks what that of the tile import does
  for ports that end with digits, and `find_port` raises ValueError where there are
  a port and one of the same name with digits.
* Overlay regions that share a tile raise KeyError.
* The match of a port whose name ends with digits looks for the other name anywhere
  in the port's and strips its letters from both ends
  (`prjxray_tile_import.py:69`): `RADDR1` passes for a longer `ADDR`.  `TakeDigits`
  tells ports apart by what comes before the digits.
* A direct with a zero offset hides other directs between the same pins.
* Whether a port goes on outside is judged by the type of the tiles, not by the
  tile; a site pin gets both a port and an internal direct when its net has another
  pin outside; the node of an internal port may go on to the fabric.
* The result for a group of tiles that are not alike depends on their order.
* `GROUP BY phy_tile.tile_type_pkey` (`prjxray_tile_import.py:730`) takes one physical tile of
  each type, whichever SQLite comes to.  If these are of different tiles, a net
  across two physical tiles comes apart, and its pins get ports although they stay
  inside: with two tiles like RIOPAD_M TLC finds `PbTypeIsTheTile` violated.
* CMT tiles have one name in the equivalent tiles and another in the type map of
  the architecture.

iCE40 (`ice40_import_routing_from_icebox.py`, `utils/lib/rr_graph/points.py`):

* `group_seg_type` looks for "global" in the names of a group, which `glb_netwk`
  does not hold, so that a group of nothing else would raise (297, 309).
* The output pin of a tile next to a right corner is left out of the net of its own
  neighbourhood (873), because lines meet at its place; `NetsAreWhole` excepts it
  (`PinAtJoin`).
* Wires in the shape of a staircase stay in pieces, and two rows without a column
  raise in `decompose_into_straight_lines`; the check that would say so is
  commented out (`points.py:630-647`).
