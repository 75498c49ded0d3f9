--------------------------- MODULE MCRoutingImport ---------------------------
(***************************************************************************)
(* Two tiles of a type, corner to corner, with an output and an input; two *)
(* tracks and the constant track, of one or two segments around them.      *)
(***************************************************************************)
EXTENDS RoutingImport, TLC

MCPlace == ("a" :> <<1, 1>>) @@ ("b" :> <<2, 2>>)

(* The constant network of VPR's grid, and the pads of a synthetic tile.   *)
Block(type, place, pads) ==
  [type |-> type, place |-> place, inpads |-> pads[1], outpads |-> pads[2]]
Constants == {Block("SYN-VCC", <<3, 1>>, <<0, 0>>), Block("SYN-GND", <<3, 2>>, <<0, 0>>)}
NoRegion == [mode |-> "none", pins |-> {}, outside |-> <<>>]

X(at, low, high) == [dir |-> "X", at |-> at, low |-> low, high |-> high]
Y(at, low, high) == [dir |-> "Y", at |-> at, low |-> low, high |-> high]

(* Two tracks around both tiles, tracks of two segments, tracks beside one *)
(* tile or none, and one at the column where the curve ends.               *)
Layouts == {<< <<X(1, 1, 2)>>, <<Y(1, 1, 2)>> >>,
            << <<Y(1, 1, 2), X(1, 1, 2)>>, <<Y(2, 1, 2), X(1, 1, 2)>> >>,
            << <<X(0, 1, 2)>>, <<Y(1, 1, 2)>> >>,
            << <<X(1, 1, 2)>>, <<Y(4, 1, 2), X(1, 1, 2)>> >>}
Ground == <<Y(3, 1, 2), X(1, 1, 3), X(2, 1, 3)>>

MCPips == [pin : {"o", "i"}, tile : {"a", "b"}, track : {"T", "U"}]
MCMux == [from |-> "o", to |-> "i", src |-> "a", dst |-> "b"]

Meet(s, p) ==
  \E n \in DOMAIN s[p.track] :
    LET c == s[p.track][n]
        along == IF c.dir = "X" THEN MCPlace[p.tile][1] ELSE MCPlace[p.tile][2]
        across == IF c.dir = "X" THEN MCPlace[p.tile][2] ELSE MCPlace[p.tile][1]
    IN  along \in c.low .. c.high /\ c.at \in {across, across - 1}

(* Names of pips that the rules but those of clock lines are about.        *)
Named(tile, to, from) == [tile |-> tile, to |-> to, from |-> from]
Plain(p) ==
  CASE p.pin = "o" /\ p.tile = "a" /\ p.track = "T" ->
         Named("sing", W("IOI_OCLK", <<0>>), W("IMUX", <<34, 0>>))
    [] p.pin = "o" /\ p.tile = "a" /\ p.track # "T" ->
         Named("cmt", W("FREQ_REF", <<0>>), W("HCLK_CMT_CCIO", <<0>>))
    [] p.pin = "o" /\ p.tile = "b" /\ p.track = "T" ->
         Named("hrow", W("CLK_HROW_CK_MUX", <<0>>), W("CLK_HROW_CK_HCLK_OUT", <<"L", 3>>))
    [] p.pin = "o" /\ p.tile = "b" /\ p.track # "T" ->
         Named("iob", W("IOB_DIFFI_IN1", <<>>), W("IOB_PADOUT0", <<>>))
    [] p.pin = "i" /\ p.track = "T" ->
         Named("hrow", W("CLK_HROW_CK_HCLK_OUT", <<"R", 1>>), W("CLK_HROW_CK_MUX_OUT", <<"R", 1>>))
    [] OTHER ->
         Named("bram", W("BRAM_CASCOUT", <<"ARD", 2>>), W("BRAM_ADDR", <<2>>))
MuxName == [tile |-> "a", from |-> W("o", <<0>>), to |-> W("i", <<0>>)]

Fabric(name, wires, column) ==
  [name |-> name, wires |-> wires, column |-> column,
   row |-> "hrow" :> << [tile |-> "cmt", type |-> "HCLK_CMT"], [tile |-> "hrow", type |-> "CLK_HROW"] >>,
   sing |-> "sing" :> 50]
NoWires == [w \in {"T", "U", "V"} |-> {}]

Device(s, ps, ms) ==
  [segments |-> s, pips |-> ps, muxes |-> ms, crossings |-> {}, region |-> NoRegion, grid |-> Constants,
   switch |-> [p \in ps \union ms |-> [forward |-> "buf", backward |-> "buf"]],
   fabric |-> Fabric([p \in ps \union ms |-> IF p \in ms THEN MuxName ELSE Plain(p)], NoWires, <<>>)]

Tracked(l) == ("T" :> l[1]) @@ ("U" :> l[2]) @@ ("V" :> Ground)

Ordinary ==
  UNION {LET s == Tracked(l)
         IN  {Device(s, ps, {}) :
                ps \in {qs \in SUBSET {p \in MCPips : Meet(s, p)} : Cardinality(qs) \in 2 .. 3}} \union
             {Device(s, {p}, {MCMux}) : p \in {q \in MCPips : Meet(s, q)}} \union
             {Device(s, {}, {MCMux})}
         : l \in Layouts}

(* A clock column of buffers and rows, and the places where two lines of   *)
(* it begin and end: buffers, or the end of the column.                    *)
Columns ==
  {<< <<"R1", "H1", "R2", "H2", "R3">>, 1, 3, 5 >>,
   << <<"R1", "R2", "H2", "R3", "R4">>, 1, 2, 4 >>,
   << <<"R1", "H1", "R2", "R3", "H2">>, 1, 3, 4 >>,
   << <<"H1", "R2", "H2", "R3">>, 1, 2, 4 >>}

TileType(n) == IF n \in {"H1", "H2"} THEN "CLK_HROW" ELSE "CLK_BUFG_REBUF"

(* The wires of a line from the place low of a column to the place high.   *)
Line(c, low, high) ==
  {<<c[n], CASE TileType(c[n]) = "CLK_HROW" -> W("CLK_HROW_R_CK_GCLK", <<0>>)
             [] n = low /\ TileType(c[n]) # "CLK_HROW" -> W("REBUF_TOP", <<0>>)
             [] OTHER -> W("REBUF_BOT", <<0>>)>> : n \in low .. high}

(* A pin of a buffer drives one line, a pin of a row takes from one, and   *)
(* the tile between joins them, both ways or not.                          *)
Clocked ==
  LET s == Tracked(<< <<X(1, 1, 2)>>, <<Y(1, 1, 2)>> >>)
      up == [from |-> "T", to |-> "U", at |-> MCPlace["a"], backward |-> FALSE]
      down == [from |-> "U", to |-> "T", at |-> MCPlace["a"], backward |-> TRUE]
      Pin(k, t, w) == [pin |-> k, tile |-> t, track |-> w]
      Name(c, mid, p) ==
        CASE p \in {up, down} -> [tile |-> c[mid], from |-> W("REBUF_BOT", <<0>>), to |-> W("REBUF_TOP", <<0>>)]
          [] p \notin {up, down} /\ p.pin = "o" ->
               [tile |-> "bufg", from |-> W("CLK_BUFG_BUFGCTRL_O", <<0>>), to |-> W("CLK_BUFG_CK_GCLK", <<0>>)]
          [] OTHER -> [tile |-> "H2", from |-> W("CLK_HROW_R_CK_GCLK", <<0>>), to |-> W("CLK_HROW_CK_MUX", <<0>>)]
      Column(c) == [n \in DOMAIN c |-> [tile |-> c[n], type |-> TileType(c[n])]]
      Wires(c, driven) ==
        [w \in {"T", "U", "V"} |->
           (CASE w = "T" -> Line(c[1], c[2], c[3]) [] w = "U" -> Line(c[1], c[3], c[4]) [] OTHER -> {})
             \union IF w = driven THEN {<<"bufg", W("CLK_BUFG_CK_GCLK", <<0>>)>>} ELSE {}]
      Clock(c, ps, ss, driven) ==
        [segments |-> s, pips |-> ps, muxes |-> {}, crossings |-> ss, region |-> NoRegion, grid |-> Constants,
         switch |-> [p \in ps \union ss |-> [forward |-> "buf", backward |-> IF ss = {up} THEN "buf" ELSE "back"]],
         fabric |-> Fabric([p \in ps \union ss |-> Name(c[1], c[3], p)], Wires(c, driven), Column(c[1]))]
  IN  {Clock(c, {Pin("o", t, w), Pin("i", u, x)}, ss, w) :
         c \in Columns, t \in {"a"}, u \in {"a", "b"}, w \in {"T", "U"}, x \in {"T", "U"},
         ss \in {{up}, {up, down}}}

(* Pads of a synthetic tile beside both tracks, by their ports in order,   *)
(* and the same track as a wire outside of the region or none; or a grid   *)
(* without the constant network, or with two.                              *)
Pads(ports) ==
  {[port |-> ports[n][1], tile |-> "pads", track |-> ports[n][2], loc |-> <<2, 1>>, z |-> n - 1] :
     n \in DOMAIN ports}
PortLists ==
  {<< <<"output", "T">> >>, << <<"input", "U">> >>, << <<"output", "T">>, <<"input", "U">> >>,
   << <<"output", "U">>, <<"output", "T">> >>, << <<"output", "T">>, <<"input", "U">>, <<"input", "V">> >>}
Vcc == [port |-> "VCC", tile |-> "VBRK", track |-> "V", loc |-> <<3, 1>>, z |-> 0]

(* A pip between the two tracks, in the tile a, one way or both.           *)
Joined(d, both) ==
  LET up == [from |-> "T", to |-> "U", at |-> MCPlace["a"], backward |-> FALSE]
      down == [from |-> "U", to |-> "T", at |-> MCPlace["a"], backward |-> TRUE]
      ss == {up} \union IF both THEN {down} ELSE {}
  IN  [d EXCEPT !.crossings = ss,
                !.switch = @ @@ [s \in ss |-> [forward |-> "buf", backward |-> "back"]],
                !.fabric.name = @ @@ [s \in ss |-> Named("int", W("SS2BEG", <<0>>), W("SS2END", <<0>>))]]

Regions ==
  LET s == Tracked(<< <<X(1, 1, 2)>>, <<Y(1, 1, 2)>> >>)
      Number(ports, port) == Cardinality({n \in DOMAIN ports : ports[n][1] = port})
      Region(mode, ports, out) ==
        [mode |-> mode, outside |-> "pads" :> out,
         pins |-> Pads(ports) \union IF mode = "roi" THEN {Vcc} ELSE {}]
      Within(d, mode, ports, out) ==
        [d EXCEPT
          !.region = Region(mode, ports, out),
          !.grid = Constants \union
                     {Block("SYN-IOPAD-0", <<2, 1>>, <<Number(ports, "output"), Number(ports, "input")>>)}]
      Pins(k, t) == {p \in MCPips : p.pin = k /\ p.tile = t}
  IN  {Within(Device(s, ps, {}), mode, ports, out) :
         ps \in {qs \in SUBSET {p \in MCPips : Meet(s, p)} : Cardinality(qs) = 2},
         mode \in {"roi", "overlay"}, ports \in PortLists, out \in {{}, {"T"}}}
  \union
      {Within(Joined(Device(s, {o, i}, {}), both), "roi", ports, out) :
         o \in Pins("o", "a"), i \in Pins("i", "b"), both \in BOOLEAN,
         ports \in PortLists, out \in {{}, {"T"}}}
  \union
      {[Device(s, {}, {MCMux}) EXCEPT !.grid = g] :
         g \in {{}, Constants \union {Block("SYN-GND", <<2, 1>>, <<0, 0>>)}}}

MCDevices == Ordinary \union Clocked \union Regions
=============================================================================
