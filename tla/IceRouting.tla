----------------------------- MODULE IceRouting -----------------------------
(* The import of the iCE40 routing graph                                     *)
(* (lattice/ice40/utils/ice40_import_routing_from_icebox.py): the pins of    *)
(* the blocks, the tracks of the wire groups of the icebox database with the *)
(* shorts between the lines of a wire, and the edges of its tile database.   *)
(* A name is a sequence of words, the first of which is the family of wires. *)
EXTENDS RrGraph, StraightLines
LOCAL INSTANCE FiniteSetsExt
LOCAL INSTANCE SequencesExt

CONSTANTS
  Part,          \* the device: "384", "1k", "5k" or "8k"
  MaxX, MaxY,    \* the last tile of a row and of a column
  Layouts,       \* the devices to import: [blocks, groups, entries]
  Hlc(_, _)      \* icebox_asc2hlc: the name a wire of a tile has everywhere

VARIABLES
  layout,   \* what is imported: it stays as it is
  g,        \* the graph so far
  pc,       \* the part of main that comes next
  left,     \* what that part has still to do
  file      \* the file that was saved

vars == <<layout, g, pc, left, file>>

Vpr(pos) == Shift(pos, <<2, 2>>)

Empty == [nodes |-> <<>>, edges |-> {}, widths |-> [x |-> <<>>, y |-> <<>>]]

-----------------------------------------------------------------------------
(* Names                                                                     *)

Unusable == {"sp4_r_v", "cout", "carry_in", "lout"}

FilterTrackNames(places) ==
  LET Kept(p) == [p EXCEPT !.names = SelectSeq(@, LAMBDA n : n[1] \notin Unusable)]
  IN  SelectSeq([i \in DOMAIN places |-> Kept(places[i])], LAMBDA p : p.names # <<>>)

(* What a family says of its wire; the program looks for words in the name,  *)
(* and finds none in that of a global network, "glb_netwk".                  *)
FamilyType ==
  [lutff |-> "pin", lout |-> "pin", cout |-> "pin", carry_in |-> "pin", io |-> "pin", ram |-> "pin",
   local |-> "local", glb2local |-> "local", fabout |-> "local",
   neigh_op |-> "neigh", logic_op |-> "neigh",
   sp4_h |-> "span4", sp4_v |-> "span4", sp4_r_v |-> "span4",
   span4_horz |-> "span4", span4_vert |-> "span4",
   sp12_h |-> "span12", sp12_v |-> "span12"]

NamesOf(places) == FoldLeft(LAMBDA ns, p : ns \o [i \in DOMAIN p.names |-> <<p.pos, p.names[i]>>], <<>>, places)

(* Of several types those that only one wire has do not count.               *)
Counted(values) ==
  LET count(v) == Cardinality({i \in DOMAIN values : values[i] = v})
      all == ToSet(values)
  IN  IF Cardinality(all) > 1 THEN {v \in all : count(v) > 1} ELSE all

GroupSegTypes(places) ==
  LET typed == SelectSeq(NamesOf(places), LAMBDA n : n[2][1] \in DOMAIN FamilyType)
  IN  Counted([i \in DOMAIN typed |-> FamilyType[typed[i][2][1]]])

HasHlcName(places) ==
  Cardinality(Counted([i \in DOMAIN NamesOf(places) |->
                         Hlc(NamesOf(places)[i][1], NamesOf(places)[i][2])])) = 1

-----------------------------------------------------------------------------
(* Pins                                                                      *)

RamPinOffset(pin) == IF (pin.half = "0to8") = (Part = "1k") THEN <<0, 0>> ELSE <<0, 1>>

PinOffset(block, pin) ==
  CASE block.type = "RAM" -> RamPinOffset(pin)
    [] block.type = "DSP" -> <<0, pin.index>>
    [] OTHER -> <<0, 0>>

(* get_pin_meta has an answer for the blocks of PIN type at the edges only,   *)
(* and for RAM where a part has any.                                          *)
PinMetaIsKnown(block) ==
  /\ block.type = "RAM" => Part # "384"
  /\ block.type = "PIN" => \/ block.pos[1] \in {1, MaxX + 3}
                           \/ block.pos[2] \in {1, MaxY + 3}

PinsOf(blocks) ==
  FoldSet(LAMBDA b, s : s \union {[block |-> b, pin |-> p] : p \in ToSet(b.pins)}, {}, blocks)

CreateBlockPins(graph, blocks) ==
  FoldSet(LAMBDA c, h : IF PinMetaIsKnown(c.block)
                        THEN CreatePin(h, c.block, c.pin, PinOffset(c.block, c.pin))
                        ELSE [h EXCEPT !.raised = TRUE],
          graph, PinsOf(blocks))

(* A pin has its icebox name too: the one of the table, or what icebox calls  *)
(* the pin's own name.                                                        *)
AddPinAliases(graph, blocks) ==
  LET Alias(c) == IF c.pin.local # <<>> THEN c.pin.local
                  ELSE Hlc(Shift(c.block.pos, <<-2, -2>>), c.pin.name)
      Add(c, h) ==
        LET at == Shift(c.block.pos, PinOffset(c.block, c.pin))
        IN  IF HasName(h, at, c.pin.name)
            THEN AddName(h, at, Alias(c), h.names[<<at, c.pin.name>>])
            ELSE [h EXCEPT !.raised = TRUE]
  IN  FoldSet(Add, graph, PinsOf(blocks))

-----------------------------------------------------------------------------
(* Edges                                                                     *)

Bidir(switch) == switch = "short"

(* create_edge_with_names: without a node of a name there is no edge.         *)
CanLink(graph, pos, a, b) == HasName(graph, Vpr(pos), a) /\ HasName(graph, Vpr(pos), b)

Link(graph, pos, a, b, switch) ==
  CreateEdge(graph, graph.names[<<Vpr(pos), a>>], graph.names[<<Vpr(pos), b>>], switch, Bidir(switch))

-----------------------------------------------------------------------------
(* Tracks                                                                    *)

(* As NamePlace, but nobody joins the node that has the name.                *)
NamePlaceUnjoined(acc, pos, name, id) ==
  LET own == IF HasName(acc.g, Vpr(pos), name) THEN Append(name, "?") ELSE name
  IN  [acc EXCEPT !.g = AddName(@, Vpr(pos), own, id)]

(* A name that a node has already is joined to the new track, which gets     *)
(* another one, unless something is joined at that place before.             *)
NamePlace(acc, pos, name, id) ==
  IF ~HasName(acc.g, Vpr(pos), name)
  THEN [acc EXCEPT !.g = AddName(@, Vpr(pos), name, id)]
  ELSE [g |-> AddName(acc.g, Vpr(pos), Append(name, "?"), id),
        conns |-> IF pos \in DOMAIN acc.conns THEN acc.conns
                  ELSE Joined(acc.conns, pos, name, Append(name, "?"))]

NameLine(acc, line, made) ==
  LET Named(a, n) == NamePlace(a, n[1], n[2], Newest(made))
  IN  IF acc.g.raised \/ made.raised THEN [acc EXCEPT !.g.raised = TRUE]
      ELSE FoldLeft(Named, [acc EXCEPT !.g = made], NamesOf(line.places))

AddLine(acc, line) ==
  NameLine(acc, line, CreateTrack(acc.g, IF line.dir = "H" THEN "CHANX" ELSE "CHANY",
                                  Vpr(StraightEnds(line)[1]), Vpr(StraightEnds(line)[2])))

(* The shorts between the lines, once all of these have their names.           *)
Short(graph, conns) ==
  LET joins == UNION {{<<pos, i>> : i \in DOMAIN conns[pos]} : pos \in DOMAIN conns}
      Add(j, h) ==
        LET ab == conns[j[1]][j[2]]
        IN  IF CanLink(h, j[1], ab[1], ab[2]) THEN Link(h, j[1], ab[1], ab[2], "short")
            ELSE [h EXCEPT !.raised = TRUE]
  IN  IF graph.raised THEN graph ELSE FoldSet(Add, graph, joins)

ShortLines(done) == Short(done.g, done.conns)

AddTrackWithLines(graph, split) ==
  ShortLines(FoldLeft(AddLine, [g |-> graph, conns |-> split.conns], split.lines))

IsX(name) == name[Len(name)] = "x"

(* add_track_with_localnames: of several names at one place the first stays    *)
(* and each of the others becomes a line of its own, joined to it.             *)
SplitNames(lines, conns) ==
  LET Own(p) == SelectSeq(p.names, LAMBDA n : ~IsX(n))
      Others(p) == IF Len(Own(p)) > 1 THEN Tail(Own(p)) ELSE <<>>
      Alone(line, p) == [i \in DOMAIN Others(p) |->
                           [dir |-> line.dir, places |-> <<Place(p.pos, <<Others(p)[i]>>)>>]]
      First(p) == IF Others(p) = <<>> THEN p ELSE Place(p.pos, <<Own(p)[1]>>)
      Join(cs, p) == FoldLeft(LAMBDA ds, n : Joined(ds, p.pos, Own(p)[1], n), cs, Others(p))
      Split(acc, line) ==
        [lines |-> FoldLeft(LAMBDA ls, p : ls \o Alone(line, p), acc.lines, line.places),
         conns |-> FoldLeft(Join, acc.conns, line.places)]
      split == FoldLeft(Split, [lines |-> <<>>, conns |-> conns], lines)
  IN  [lines |-> [i \in DOMAIN lines |->
                    [lines[i] EXCEPT !.places = [j \in DOMAIN @ |-> First(@[j])]]] \o split.lines,
       conns |-> split.conns]

(* The places of a group, in the order they come in it.                       *)
PlacesOf(group) ==
  LET Add(places, wire) ==
        IF \E i \in DOMAIN places : places[i].pos = wire[1]
        THEN [i \in DOMAIN places |->
                IF places[i].pos = wire[1] THEN [places[i] EXCEPT !.names = Append(@, wire[2])]
                ELSE places[i]]
        ELSE Append(places, Place(wire[1], <<wire[2]>>))
  IN  FoldLeft(Add, <<>>, group)

AddLines(graph, places, straight) ==
  IF straight.raised THEN [graph EXCEPT !.raised = TRUE]
  ELSE AddTrackWithLines(graph, IF HasHlcName(places) THEN straight
                                ELSE SplitNames(straight.lines, straight.conns))

AddTrack(graph, places) ==
  IF places = <<>> THEN graph ELSE AddLines(graph, places, DecomposeIntoStraightLines(places))

-----------------------------------------------------------------------------
(* main                                                                      *)

Passes == <<"local", "neigh", "span4", "span12">>

After(state, graph) == IF graph.raised THEN "raised" ELSE state

Init ==
  /\ layout \in Layouts
  /\ g = EmptyGraph /\ pc = "pins" /\ left = <<>> /\ file = Empty

RebuildPins ==
  /\ pc = "pins"
  /\ g' = CreateBlockPins(EmptyGraph, layout.blocks)
  /\ pc' = After("aliases", g')
  /\ UNCHANGED <<layout, left, file>>

(* All groups come in every pass: a pass takes those of its type.             *)
AliasPins ==
  /\ pc = "aliases"
  /\ g' = AddPinAliases(g, layout.blocks)
  /\ pc' = After("tracks", g')
  /\ left' = FoldLeft(LAMBDA s, pass : s \o [i \in DOMAIN layout.groups |-> <<pass, i>>], <<>>, Passes)
  /\ UNCHANGED <<layout, file>>

SkipGroup ==
  LET places == PlacesOf(layout.groups[left[1][2]])
  IN  /\ pc = "tracks" /\ left # <<>>
      /\ Cardinality(GroupSegTypes(places)) = 1
      /\ GroupSegTypes(places) # {left[1][1]}
      /\ left' = Tail(left)
      /\ UNCHANGED <<layout, g, pc, file>>

AddGroup ==
  LET places == PlacesOf(layout.groups[left[1][2]])
  IN  /\ pc = "tracks" /\ left # <<>>
      /\ GroupSegTypes(places) = {left[1][1]}
      /\ g' = AddTrack(g, FilterTrackNames(places))
      /\ pc' = After("tracks", g')
      /\ left' = Tail(left)
      /\ UNCHANGED <<layout, file>>

(* group_seg_type asserts that there is a type, and that one is left.         *)
MixedGroup ==
  /\ pc = "tracks" /\ left # <<>>
  /\ Cardinality(GroupSegTypes(PlacesOf(layout.groups[left[1][2]]))) # 1
  /\ pc' = "raised"
  /\ UNCHANGED <<layout, g, left, file>>

StartEdges ==
  /\ pc = "tracks" /\ left = <<>>
  /\ pc' = "edges"
  /\ left' = layout.entries
  /\ UNCHANGED <<layout, g, file>>

IsUsable(entry) ==
  /\ entry.present
  /\ entry.switch \in {"routing", "buffer"}
  /\ {entry.from[1], entry.to[1]} \cap Unusable = {}

AddEntry ==
  /\ pc = "edges" /\ left # <<>>
  /\ LET entry == left[1]
     IN  g' = IF IsUsable(entry) /\ CanLink(g, entry.pos, entry.from, entry.to)
              THEN Link(g, entry.pos, entry.from, entry.to, entry.switch) ELSE g
  /\ pc' = After("edges", g')
  /\ left' = Tail(left)
  /\ UNCHANGED <<layout, file>>

Save ==
  /\ pc = "edges" /\ left = <<>>
  /\ file' = [nodes |-> g.nodes, edges |-> g.edges, widths |-> Widths(g.tracks, ChannelSize)]
  /\ pc' = "saved"
  /\ UNCHANGED <<layout, g, left>>

(* The programs that come after read the file into a graph of their own.      *)
Read ==
  /\ pc = "saved"
  /\ g' = FromFile(layout.blocks, file.nodes, file.edges)
  /\ pc' = After("read", g')
  /\ UNCHANGED <<layout, left, file>>

Next ==
  \/ RebuildPins \/ AliasPins
  \/ SkipGroup \/ AddGroup \/ MixedGroup
  \/ StartEdges \/ AddEntry
  \/ Save \/ Read

Spec == Init /\ [][Next]_vars /\ WF_vars(Next)

-----------------------------------------------------------------------------
(* Properties                                                                *)

(* The names of a group that tracks are made for.                            *)
KeptPlaces(i) ==
  LET places == PlacesOf(layout.groups[i])
  IN  IF GroupSegTypes(places) \subseteq ToSet(Passes) THEN FilterTrackNames(places) ELSE <<>>

Kept(i) == ToSet(NamesOf(KeptPlaces(i)))

NodeOf(wire) == g.names[<<Vpr(wire[1]), wire[2]>>]

Shorts == {<<e[1], e[2]>> : e \in {f \in g.edges : f[3] = "short"}}

(* One of the nodes of the group drives all the others through shorts.       *)
Whole(i) ==
  \E wire \in Kept(i) :
    Inaccessible(Shorts, NodeOf(wire), {NodeOf(w) : w \in Kept(i)} \ {NodeOf(wire)}) = {}

(* A place where the lines of the group meet has the name of a pin.          *)
PinAtJoin(i) ==
  \E wire \in Kept(i) :
    /\ HasName(g, Vpr(wire[1]), Append(wire[2], "?"))
    /\ wire[1] \in DOMAIN DecomposeIntoStraightLines(KeptPlaces(i)).conns

(* A wire is one net: from one of its names all the others are reached       *)
(* through shorts, however many lines it was taken apart into and however    *)
(* many of its names belonged to pins.  The exception is the code's: where   *)
(* lines meet at a place, a pin with the wire's name there is not joined.    *)
NetsAreWhole ==
  pc = "saved" => \A i \in DOMAIN layout.groups : Kept(i) # {} => Whole(i) \/ PinAtJoin(i)

(* The wires and the pins that the import is about.                          *)
PinWires ==
  {w \in {<<Shift(c.block.pos, Shift(PinOffset(c.block, c.pin), <<-2, -2>>)), c.pin.local>> :
             c \in {d \in PinsOf(layout.blocks) : d.pin.local # <<>>}} : w[2][1] \notin Unusable}

(* Where the database lets a signal go: to all of its wire, and through the  *)
(* switches of the tiles.                                                    *)
Switched ==
  {<<<<e.pos, e.from>>, <<e.pos, e.to>>>> :
     e \in {f \in ToSet(layout.entries) : f.present /\ f.switch \in {"routing", "buffer"}}}

RECURSIVE Spread(_, _, _)
Spread(nets, switched, wires) ==
  LET all == wires \union UNION {n \in nets : n \cap wires # {}}
                   \union {s[2] : s \in {t \in switched : t[1] \in wires}}
  IN  IF all = wires THEN wires ELSE Spread(nets, switched, all)

(* A signal gets through the graph from a wire to another one, or to an input *)
(* pin, exactly when it does in the database: the lines that a wire is taken  *)
(* apart into and the names that they get on the way neither cut a wire nor   *)
(* short it with another.                                                     *)
RoutesAreTheDatabase ==
  pc = "saved" =>
    LET nets == {Kept(i) : i \in DOMAIN layout.groups}
        wires == PinWires \union UNION nets
        switched == Switched \cap (wires \X wires)
        edges == {<<e[1], e[2]>> : e \in g.edges}
        cut == \E i \in DOMAIN layout.groups : PinAtJoin(i)
    IN  \A w \in wires :
          LET met == {NodeOf(w)} \union Walk[edges, {NodeOf(w)}, {}]
              spread == Spread(nets, switched, {w})
          IN  \A v \in {u \in wires : g.nodes[NodeOf(u)].type # "OPIN"} :
                /\ NodeOf(v) \in met => v \in spread
                /\ v \in spread => cut \/ NodeOf(v) \in met

(* Who reads the file finds room for every track at its index, the channels   *)
(* as wide as the file says, and the pins under the names they were made with. *)
FileIsTheGraph ==
  /\ pc = "saved" => ~FromFile(layout.blocks, file.nodes, file.edges).raised
  /\ pc = "read" =>
       /\ Widths(g.tracks, ChannelSize) = file.widths
       /\ DOMAIN g.names = {<<Shift(c.block.pos, PinOffset(c.block, c.pin)), c.pin.name>> :
                               c \in PinsOf(layout.blocks)}
=============================================================================
