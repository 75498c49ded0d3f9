----------------------------- MODULE MCArchImport -----------------------------
(* Four kinds of devices: ports with digits in their names, a tile type from  *)
(* the database, equivalent tiles, and a layout with synthetic tiles.         *)
EXTENDS ArchImport

N(word) == <<<<word>>, <<>>>>
ND(word, digits) == <<<<word>>, digits>>

MCAlphabet ==
  <<"GTPE2_CHANNEL", "ILOGICE3", "IOB33M", "IPAD", "OLOGICE3", "SLICEL", "SLICEM", "p", "q", "r">>

PinAt(name, wire, dir) == [name |-> name, wire |-> wire, dir |-> dir]
PortAs(name, width) == [name |-> name, width |-> width]

(* Places: the name of a physical tile is its number.                         *)
Place(phy, type, x, y) ==
  [name |-> phy, type |-> type, x |-> x, y |-> y, sites |-> type \notin {"NULL", "VBRK", "INT", "FAB"},
   bits |-> type \notin {"NULL", "VBRK", "INT", "FAB"}, vbrk |-> type = "VBRK"]
TileOf(g) ==
  [id |-> g.name, type |-> g.type, phys |-> {g.name}, phy |-> g.name, x |-> g.x + 1, y |-> g.y,
   site |-> "none", pss |-> FALSE]

Empty == <<Place(1, "NULL", 0, 0), Place(2, "NULL", 1, 0)>>

Fabric(type) == [type |-> type, site |-> "none", siteType |-> "none", pin |-> NoName, dir |-> "IN"]
PinOn(type, site, siteType, pin, dir) ==
  [type |-> type, site |-> site, siteType |-> siteType, pin |-> pin, dir |-> dir]

NoDb ==
  [tiles |-> {TileOf(Empty[1]), TileOf(Empty[2])}, phyType |-> (1 :> 0) @@ (2 :> 0), typeName |-> (0 :> "NULL"),
   wit |-> <<>>, wires |-> {}, pips |-> {}, sites |-> <<>>, instances |-> {}]

Device(db, grid, recipes, wanted) ==
  [db |-> db, grid |-> grid, recipes |-> recipes, wanted |-> wanted, mode |-> "all", regions |-> <<>>,
   assigned |-> [sides |-> <<>>, directs |-> <<>>],
   switches |-> {Delayless, "routing"}, segments |-> {<<"unknown", -1>>}]

-----------------------------------------------------------------------------
(* Ports and pins with digits                                                *)

SiteA(type, x, pins) == [type |-> type, name |-> "X0", prefix |-> "P", x |-> x, y |-> 0, pins |-> pins]

DigitPins ==
  {PinAt(ND("A", <<0>>), N("a0"), "IN"), PinAt(ND("A", <<1>>), N("a1"), "IN"),
   PinAt(ND("A", <<1, 0>>), N("a10"), "IN"), PinAt(ND("S", <<1, 2>>), N("s12"), "OUT"),
   PinAt(N("B"), N("b"), "OUT"), PinAt(N("C"), NoName, "IN")}

PortLists ==
  {<<PortAs(N("A"), 2), PortAs(ND("S", <<1>>), 4), PortAs(N("B"), 1)>>,
   <<PortAs(ND("S", <<1>>), 4), PortAs(N("A"), 11)>>,
   <<PortAs(ND("A", <<1>>), 2), PortAs(N("S"), 13)>>,
   <<PortAs(N("S"), 2), PortAs(ND("A", <<0>>), 1), PortAs(ND("A", <<1>>), 1)>>,
   <<PortAs(N("A"), 2), PortAs(ND("A", <<1>>), 2)>>,
   <<PortAs(N("B"), 1), PortAs(N("C"), 1)>>}

Sides(names, pins) == [key \in names \X pins |-> "LEFT"]

SitesRecipe(ps, keepX, second) ==
  [how |-> "sites", tile |-> "CLB",
   sites |-> <<SiteA("SLICEL", 0, DigitPins), SiteA(second, 1, {PinAt(N("B"), N("m"), "IN")}), SiteA("TIEOFF", 0, {})>>,
   types |-> ("SLICEL" :> <<"L0", "L1">>) @@ (IF second = "SLICEM" THEN ("SLICEM" :> <<"M0">>) ELSE <<>>),
   coords |-> "X", keepX |-> keepX,
   cells |-> [c \in {"L0", "L1", "M0"} |-> [name |-> c, ports |-> ps]]]

FusedRecipe(ps) ==
  [how |-> "fused", tile |-> "BRAM", sites |-> <<SiteA("RAMB", 0, {PinAt(ND("A", <<1>>), N("x"), "IN")})>>,
   cell |-> [name |-> "FUSED", ports |-> [i \in DOMAIN ps |-> [ps[i] EXCEPT !.name = Prefixed(<<"P", "X0">>, @)]]]]

SiteRecipe(ps) ==
  [how |-> "site_as_tile", tile |-> "PLL", pins |-> DigitPins, unused |-> {N("C")}, cell |-> [name |-> "PLLE2", ports |-> ps]]

Physical(tile, equivalents) == [how |-> "physical", tile |-> tile, equivalents |-> equivalents]

PortDevices ==
  LET Of(recipes) == [Device(NoDb, Empty, recipes, {}) EXCEPT
                        !.assigned.sides = Sides({"CLB", "PLL"}, {p.wire : p \in DigitPins} \union
                                                                 {p.name : p \in DigitPins} \union {N("m")})]
  IN  {Of(<<SitesRecipe(ps, {}, second), Physical("CLB", {"CLB"}), FusedRecipe(ps)>>) :
         ps \in PortLists, second \in {"SLICEL", "SLICEM"}}
      \union {Of(<<SiteRecipe(ps), SitesRecipe(ps, keepX, "SLICEM"), Physical("PLL", {"PLL", "CLB"}), Physical("CLB", {"CLB"})>>) :
                ps \in PortLists, keepX \in {{0}, {0, 1}}}

-----------------------------------------------------------------------------
(* A tile type from the database                                             *)

DbGrid == Empty \o <<Place(3, "IO", 0, 1), Place(4, "IO", 1, 1), Place(5, "FAB", 2, 1)>>

DbWits ==
  (<<3, N("o")>> :> PinOn("IO", "so", "OLOGICE3", N("O"), "OUT"))
  @@ (<<3, N("i")>> :> PinOn("IO", "si", "ILOGICE3", ND("I", <<1>>), "IN"))
  @@ [k \in {3} \X {N("a"), N("b")} |-> Fabric("IO")]
  @@ (<<5, N("f")>> :> PinOn("FAB", "sf", "SLICEL", N("F"), "IN"))
  @@ (<<5, N("g")>> :> PinOn("FAB", "sf", "SLICEL", N("G"), "OUT"))

DbWires(out) ==
  {[phy |-> p, name |-> N(w), node |-> <<p, w>>, tile |-> p] : p \in {3, 4}, w \in {"o", "i", "a", "b"}}
  \union {[phy |-> 5, name |-> N("f"), node |-> out[1], tile |-> 5], [phy |-> 5, name |-> N("g"), node |-> out[2], tile |-> 5]}

Pip(type, a, b, pseudo) == [type |-> type, ends |-> {N(a), N(b)}, pseudo |-> pseudo]

DbRecipe ==
  [how |-> "database", tile |-> "IO", types |-> ("OLOGICE3" :> <<"o0">>) @@ ("ILOGICE3" :> <<"i0">>),
   cells |-> ("o0" :> [name |-> "OL", ports |-> <<PortAs(N("O"), 1)>>])
             @@ ("i0" :> [name |-> "IL", ports |-> <<PortAs(N("I"), 2)>>])]

DbInstance(site, phy, y) == [site |-> site, phy |-> phy, x |-> 0, y |-> y, prohibited |-> FALSE, word |-> "IOB"]

DbDevice(pips, out, rows) ==
  Device([tiles |-> {TileOf(DbGrid[i]) : i \in DOMAIN DbGrid},
          phyType |-> (1 :> 0) @@ (2 :> 0) @@ (3 :> 3) @@ (4 :> 3) @@ (5 :> 5),
          typeName |-> (0 :> "NULL") @@ (3 :> "IO") @@ (5 :> "FAB"),
          wit |-> DbWits, wires |-> DbWires(out), pips |-> pips,
          sites |-> ("so" :> [type |-> "OLOGICE3", x |-> 0, y |-> 0, phyType |-> 3])
                    @@ ("si" :> [type |-> "ILOGICE3", x |-> 0, y |-> 1, phyType |-> 3])
                    @@ ("sf" :> [type |-> "SLICEL", x |-> 0, y |-> 0, phyType |-> 5]),
          instances |-> {DbInstance("so", 3, 0), DbInstance("si", 3, 1),
                         DbInstance("so", 4, rows[1]), DbInstance("si", 4, rows[2])}],
         DbGrid, <<DbRecipe>>, {})

DatabaseDevices ==
  {DbDevice(pips, out, <<0, 1>>) :
     pips \in SUBSET {Pip(3, "o", "a", FALSE), Pip(3, "a", "b", FALSE), Pip(3, "b", "i", FALSE), Pip(3, "o", "i", TRUE)},
     out \in {<< <<5, "f">>, <<5, "g">> >>, << <<3, "a">>, <<4, "a">> >>}}
  \union {DbDevice({Pip(3, "o", "i", FALSE)}, << <<5, "f">>, <<5, "g">> >>, <<1, 1>>)}

-----------------------------------------------------------------------------
(* Equivalent tiles                                                          *)

EqGrid ==
  Empty \o <<Place(3, "LIOI3", 0, 1), Place(4, "LIOB33", 1, 1), Place(5, "LIOI3_SING", 0, 2),
             Place(6, "LIOB33_SING", 1, 2), Place(7, "FAB", 2, 1)>>

IoTile(id, type, phys) ==
  [id |-> id, type |-> type, phys |-> phys, phy |-> id, x |-> 1, y |-> id, site |-> "none", pss |-> FALSE]

EqWits(k, type, iol, io, iob) ==
  (<<k + 1, N("I")>> :> PinOn(type, io, iob, N("I"), "OUT"))
  @@ (<<k + 1, N("O")>> :> PinOn(type, io, iob, N("O"), "IN"))
  @@ (<<k, N("D")>> :> PinOn(type, iol, "ILOGICE3", N("D"), "IN"))
  @@ (<<k, N("Q")>> :> PinOn(type, iol, "ILOGICE3", N("Q"), "OUT"))
  @@ [key \in {k} \X {N("n"), N("m")} |-> Fabric(type)]

WireAt(phy, name, node, tile) == [phy |-> phy, name |-> N(name), node |-> node, tile |-> tile]

EqWires(k) ==
  {WireAt(k + 1, "I", <<k, 1>>, k), WireAt(k, "n", <<k, 1>>, k), WireAt(k, "D", <<k, 2>>, k),
   WireAt(k, "Q", <<k, 3>>, k), WireAt(k + 1, "O", <<k, 4>>, k), WireAt(k, "m", <<k, 5>>, k)}

EqInstances(phy, io, il) ==
  {[site |-> io, phy |-> phy + 1, x |-> 0, y |-> phy, prohibited |-> FALSE, word |-> "IOB"],
   [site |-> il, phy |-> phy, x |-> 0, y |-> phy, prohibited |-> FALSE, word |-> "ILOGIC"]}

EqGroup(order) ==
  [how |-> "equiv", tiles |-> order,
   blocks |-> ("PAIR" :> {"ILOGICE3", "IOB33M"}) @@ ("SING" :> {"ILOGICE3", "IOB33"}),
   remap |-> ("IOB33M" :> "IOB33"),
   cells |-> ("ILOGICE3" :> [name |-> "ILOGIC", ports |-> <<PortAs(N("D"), 1), PortAs(N("Q"), 1)>>])
             @@ ("IOB33M" :> [name |-> "IOBM", ports |-> <<PortAs(N("I"), 1), PortAs(N("O"), 1), PortAs(N("P"), 1)>>])
             @@ ("IOB33" :> [name |-> "IOB", ports |-> <<PortAs(N("I"), 1), PortAs(N("O"), 1)>>])]

EqPips(pairs) == UNION {{Pip(3, p[1], p[2], FALSE), Pip(5, p[1], p[2], FALSE)} : p \in pairs}

EqDevice(pips, order, prohibited) ==
  [Device([tiles |-> {TileOf(Empty[1]), TileOf(Empty[2]), TileOf(EqGrid[7]),
                      IoTile(3, "LIOI", {3, 4}), IoTile(5, "SINGLE", {5, 6})},
           phyType |-> [p \in 1 .. 7 |-> IF p < 3 THEN 0 ELSE p],
           typeName |-> (0 :> "NULL") @@ (3 :> "LIOI3") @@ (4 :> "LIOB33") @@ (5 :> "LIOI3_SING")
                        @@ (6 :> "LIOB33_SING") @@ (7 :> "FAB"),
           wit |-> EqWits(3, "LIOI", "il", "iom", "IOB33M") @@ EqWits(5, "SINGLE", "ils", "ios", "IOB33")
                   @@ (<<4, N("P")>> :> PinOn("LIOI", "iom", "IOB33M", N("P"), "OUT"))
                   @@ (<<7, N("f")>> :> PinOn("FAB", "sf", "SLICEL", N("F"), "IN"))
                   @@ (<<7, N("g")>> :> PinOn("FAB", "sf", "SLICEL", N("G"), "IN")),
           wires |-> EqWires(3) \union EqWires(5) \union
                     {WireAt(4, "P", <<3, 6>>, 3), WireAt(7, "f", <<3, 5>>, 7), WireAt(7, "g", <<5, 5>>, 7)},
           pips |-> pips,
           sites |-> ("iom" :> [type |-> "IOB33M", x |-> 0, y |-> 0, phyType |-> 4])
                     @@ ("il" :> [type |-> "ILOGICE3", x |-> 0, y |-> 0, phyType |-> 3])
                     @@ ("ios" :> [type |-> "IOB33", x |-> 0, y |-> 0, phyType |-> 6])
                     @@ ("ils" :> [type |-> "ILOGICE3", x |-> 0, y |-> 0, phyType |-> 5])
                     @@ ("sf" :> [type |-> "SLICEL", x |-> 0, y |-> 0, phyType |-> 7]),
           instances |-> {[i EXCEPT !.prohibited = i.phy \in prohibited] :
                            i \in EqInstances(3, "iom", "il") \union EqInstances(5, "ios", "ils")}],
          EqGrid, <<EqGroup(order)>>, {"LIOI", "SINGLE"})
     EXCEPT !.assigned.sides = Sides({"LIOI", "SINGLE"}, {N(w) : w \in {"I", "O", "D", "Q", "P"}})]

EquivalentDevices ==
  {EqDevice(EqPips(pairs), order, prohibited) :
     pairs \in SUBSET {<<"n", "D">>, <<"n", "m">>}, order \in {<<"LIOI", "SINGLE">>, <<"SINGLE", "LIOI">>},
     prohibited \in {{}, {3}}}
  \union {EqDevice({Pip(5, "n", "D", FALSE), Pip(5, "D", "m", FALSE), Pip(3, "n", "m", FALSE)}, <<"LIOI", "SINGLE">>, {})}

(* One tile of the database made of two, with a net across them.              *)
PadRecipe ==
  [how |-> "database", tile |-> "PAD", types |-> ("ILOGICE3" :> <<"i0">>) @@ ("IOB33M" :> <<"b0">>),
   cells |-> ("i0" :> [name |-> "IL", ports |-> <<PortAs(N("D"), 1), PortAs(N("Q"), 1)>>])
             @@ ("b0" :> [name |-> "IB", ports |-> <<PortAs(N("I"), 1), PortAs(N("O"), 1)>>])]

PadDevice(pairs) ==
  Device([tiles |-> {TileOf(Empty[1]), TileOf(Empty[2]), TileOf(EqGrid[7]), IoTile(3, "PAD", {3, 4})},
          phyType |-> (1 :> 0) @@ (2 :> 0) @@ (3 :> 3) @@ (4 :> 4) @@ (7 :> 7),
          typeName |-> (0 :> "NULL") @@ (3 :> "LIOI3") @@ (4 :> "LIOB33") @@ (7 :> "FAB"),
          wit |-> EqWits(3, "PAD", "il", "iom", "IOB33M") @@ (<<7, N("f")>> :> PinOn("FAB", "sf", "SLICEL", N("F"), "IN")),
          wires |-> EqWires(3) \union {WireAt(7, "f", <<3, 5>>, 7)},
          pips |-> {Pip(3, p[1], p[2], FALSE) : p \in pairs},
          sites |-> ("iom" :> [type |-> "IOB33M", x |-> 0, y |-> 0, phyType |-> 4])
                    @@ ("il" :> [type |-> "ILOGICE3", x |-> 0, y |-> 0, phyType |-> 3])
                    @@ ("sf" :> [type |-> "SLICEL", x |-> 0, y |-> 0, phyType |-> 7]),
          instances |-> EqInstances(3, "iom", "il")],
         EqGrid, <<PadRecipe>>, {})

PadDevices == {PadDevice(pairs) : pairs \in SUBSET {<<"n", "D">>, <<"n", "m">>}}

-----------------------------------------------------------------------------
(* A layout                                                                  *)

Grid ==
  Empty \o <<Place(3, "INT", 2, 0), Place(4, "INT", 0, 1), Place(5, "CLBLM", 1, 1), Place(6, "VBRK", 2, 1),
             Place(7, "VBRK", 0, 2), Place(8, "GTP_CHANNEL_0", 1, 2), Place(9, "VBRK", 2, 2)>>

SiteB(type, x, pins) == [type |-> type, name |-> "X0", prefix |-> "P", x |-> x, y |-> 0, pins |-> pins]

SliceRecipe ==
  [how |-> "capacity", tile |-> "CLBLM", unused |-> {N("U")},
   sites |-> <<SiteB("SLICEM", 0, {PinAt(N("A"), N("m_a"), "IN"), PinAt(N("Q"), N("m_q"), "OUT"), PinAt(N("U"), N("m_u"), "IN")}),
               SiteB("SLICEL", 1, {PinAt(N("A"), N("l_a"), "IN"), PinAt(N("Q"), N("l_q"), "OUT")})>>,
   alternatives |-> ("SLICEL" :> <<>>) @@ ("SLICEM" :> <<"SLICEL">>)]

GtpRecipe ==
  [how |-> "capacity", tile |-> "GTP_CHANNEL_0", unused |-> {},
   sites |-> <<SiteB("IPAD", 0, {PinAt(N("O"), N("pad"), "OUT")}),
               SiteB("GTPE2_CHANNEL", 0, {PinAt(N("RXP"), N("rxp"), "IN"), PinAt(N("D"), N("d"), "IN")})>>,
   alternatives |-> [t \in {"IPAD", "GTPE2_CHANNEL"} |-> <<>>]]

SliceWits ==
  [k \in {5} \X {N("m_a"), N("m_u")} |-> PinOn("CLBLM", "sm", "SLICEM", N("A"), "IN")]
  @@ (<<5, N("m_q")>> :> PinOn("CLBLM", "sm", "SLICEM", N("Q"), "OUT"))
  @@ (<<5, N("l_a")>> :> PinOn("CLBLM", "sl", "SLICEL", N("A"), "IN"))
  @@ (<<5, N("l_q")>> :> PinOn("CLBLM", "sl", "SLICEL", N("Q"), "OUT"))
  @@ (<<8, N("pad")>> :> PinOn("GTP_CHANNEL_0", "ip", "IPAD", N("O"), "OUT"))
  @@ [k \in {8} \X {N("rxp"), N("d")} |-> PinOn("GTP_CHANNEL_0", "ch", "GTPE2_CHANNEL", N("RXP"), "IN")]
  @@ [k \in {3} \X {N("w"), N("v")} |-> Fabric("INT")]

InstanceAt(site, phy, x, y, prohibited) ==
  [site |-> site, phy |-> phy, x |-> x, y |-> y, prohibited |-> phy \in prohibited, word |-> "IOB"]

DirectOf(from, to, dx, dy, switch) ==
  [from |-> from, to |-> to, dx |-> dx, dy |-> dy, switch |-> switch]

Rx == <<"GTP_CHANNEL_0", N("rxp")>>
Carry == <<"CLBLM", N("l_a")>>

DirectLists ==
  {<<DirectOf(<<"GTP_CHANNEL_0", N("pad")>>, Rx, 0, 0, Delayless),
     DirectOf(<<"CLBLM", N("m_q")>>, Carry, 0, 2, "routing"), DirectOf(<<"CLBLM", N("m_q")>>, Carry, -1, 0, "routing"),
     DirectOf(<<"CLBLM", N("l_q")>>, <<"INT", N("w")>>, 1, 0, "routing"), DirectOf(<<"CLBLM", N("l_q")>>, Carry, 0, 0, "routing")>>,
   <<DirectOf(<<"GTP_CHANNEL_0", N("none")>>, Rx, 0, 0, "routing")>>}

LayoutDevice(mode, regions, prohibited, directs) ==
  [Device([tiles |-> {TileOf(Grid[i]) : i \in DOMAIN Grid},
           phyType |-> [p \in 1 .. 9 |-> CASE p < 3 -> 0 [] p \in {3, 4} -> 3 [] p \in {6, 7, 9} -> 6 [] OTHER -> p],
           typeName |-> (0 :> "NULL") @@ (3 :> "INT") @@ (5 :> "CLBLM") @@ (6 :> "VBRK") @@ (8 :> "GTP_CHANNEL_0"),
           wit |-> SliceWits,
           wires |-> {WireAt(3, "w", 1, 3), WireAt(4, "w", 1, 4), WireAt(3, "v", 2, 3)},
           pips |-> {},
           sites |-> ("sm" :> [type |-> "SLICEM", x |-> 0, y |-> 0, phyType |-> 5])
                     @@ ("sl" :> [type |-> "SLICEL", x |-> 1, y |-> 0, phyType |-> 5])
                     @@ ("ip" :> [type |-> "IPAD", x |-> 0, y |-> 0, phyType |-> 8])
                     @@ ("ch" :> [type |-> "GTPE2_CHANNEL", x |-> 0, y |-> 0, phyType |-> 8]),
           instances |-> {InstanceAt("sm", 5, 2, 1, prohibited), InstanceAt("sl", 5, 3, 1, prohibited),
                          InstanceAt("ip", 8, 0, 2, prohibited), InstanceAt("ch", 8, 0, 2, prohibited)}],
          Grid, <<SliceRecipe, GtpRecipe>>, {"CLBLM", "GTP_CHANNEL_0"})
     EXCEPT !.mode = mode, !.regions = regions,
            !.assigned = [sides |-> Sides({"CLBLM", "GTP_CHANNEL_0"}, {k[2] : k \in DOMAIN SliceWits}), directs |-> directs]]

PortOn(name, type, isWire, phy, wire) ==
  [name |-> name, type |-> type, isWire |-> isWire, at |-> <<phy, N(wire)>>, outside |-> {<<phy, N(wire)>>}]

Region(lo, hi, ps) == [lo |-> lo, hi |-> hi, ports |-> ps]

PortChoices(a, b) ==
  {<<PortOn("q", t1, TRUE, a, "w"), PortOn("p", t2, w2, b, "w"), PortOn("r", "in", TRUE, a, "v")>> :
     t1 \in {"in", "out"}, t2 \in {"out", "clk"}, w2 \in BOOLEAN}

LayoutDevices ==
  {LayoutDevice(mode, <<Region(<<1, 1>>, <<2, 2>>, <<>>)>>, prohibited, directs) :
     mode \in {"all", "limit"}, prohibited \in {{}, {5}}, directs \in DirectLists}
  \union {LayoutDevice("roi", <<Region(<<0, 1>>, hi, ps)>>, {}, directs) :
            hi \in {<<2, 2>>, <<1, 2>>}, ps \in PortChoices(3, 4) \union PortChoices(4, 3), directs \in DirectLists}
  \union {LayoutDevice("roi", <<Region(<<0, 1>>, <<2, 2>>, <<PortOn("p", "out", w, b, "v")>>)>>, {}, <<>>) :
            w \in BOOLEAN, b \in {3, 5}}
  \union {LayoutDevice("overlay", <<Region(<<0, 1>>, <<0, 2>>, ps), Region(<<2, 0>>, <<2, 2>>, others)>>, {}, <<>>) :
            ps \in PortChoices(4, 4), others \in {<<>>, <<PortOn("r", "in", TRUE, 3, "v")>>, <<PortOn("r", "in", TRUE, 4, "w")>>}}

(* Two physical tiles that became one, and places without a tile or a site.  *)
WithMergedTiles(d) ==
  [d EXCEPT !.db.tiles = {t \in @ : t.id \notin {3, 4}} \union {[TileOf(Grid[3]) EXCEPT !.phys = {3, 4}]},
            !.db.wires = {[w EXCEPT !.tile = 3] : w \in @}]

WithoutTile(d, id) == [d EXCEPT !.db.tiles = {t \in @ : t.id # id}]

WithoutSite(d, site) == [d EXCEPT !.db.instances = {i \in @ : i.site # site}]

OddDevices ==
  {WithMergedTiles(LayoutDevice("roi", <<Region(<<0, 1>>, <<2, 2>>,
     <<PortOn("q", "in", TRUE, 3, "w"), PortOn("p", "out", TRUE, b, "w")>>)>>, {}, <<>>)) : b \in {3, 4}}
  \union {WithoutTile(LayoutDevice("all", <<>>, {}, <<>>), 2), WithoutSite(LayoutDevice("all", <<>>, {}, <<>>), "ip")}

MCDevices ==
  PortDevices \union DatabaseDevices \union EquivalentDevices \union PadDevices \union LayoutDevices \union OddDevices
=============================================================================
