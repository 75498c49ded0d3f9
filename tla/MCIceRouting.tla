---------------------------- MODULE MCIceRouting ----------------------------
(* A part with five tiles in a row and in a column, without the corners: any  *)
(* choice of eight wire groups, of the shapes that icebox has, on it.         *)
EXTENDS IceRouting

MCGridSize == <<MaxX + 5, MaxY + 5>>

Pin(name, dir, ptc, local) ==
  [name |-> name, dir |-> dir, ptc |-> ptc, local |-> local, half |-> "", index |-> 0]

RamPin(name, dir, ptc, half) ==
  [name |-> name, dir |-> dir, ptc |-> ptc, local |-> <<"ram">> \o name, half |-> half, index |-> 0]

Block(type, pos, size, pins) == [type |-> type, pos |-> pos, size |-> size, pins |-> pins]

Out == <<"lutff", "out">>
In == <<"lutff", "in">>

LutPins == <<Pin(<<"lut_out">>, "OUTPUT", 0, Out), Pin(<<"lut_in">>, "INPUT", 1, In),
             Pin(<<"FCOUT">>, "OUTPUT", 2, <<"cout", "0">>)>>

MCBlocks ==
  {Block("PLB", <<4, 4>>, <<1, 1>>, LutPins),
   Block("PLB", <<5, 5>>, <<1, 1>>, LutPins),
   Block("RAM", <<3, 3>>, <<1, 2>>, <<RamPin(<<"WE">>, "INPUT", 0, "0to8"),
                                      RamPin(<<"RDATA">>, "OUTPUT", 1, "8to16")>>),
   Block("DSP", <<6, 3>>, <<1, 2>>, <<[Pin(<<"A">>, "INPUT", 0, <<>>) EXCEPT !.index = 0],
                                      [Pin(<<"A">>, "INPUT", 1, <<>>) EXCEPT !.index = 1]>>),
   Block("PIN", <<1, 4>>, <<1, 1>>, <<Pin(<<"pad">>, "CLOCK", 0, <<>>)>>)}

W(x, y, name) == <<<<x, y>>, name>>

Around(x, y, n) ==
  <<W(x - 1, y - 1, <<"neigh_op", "tnr", n>>), W(x - 1, y, <<"neigh_op", "rgt", n>>),
    W(x - 1, y + 1, <<"neigh_op", "bnr", n>>), W(x, y - 1, <<"neigh_op", "top", n>>),
    W(x, y, Out), W(x, y + 1, <<"neigh_op", "bot", n>>),
    W(x + 1, y - 1, <<"neigh_op", "tnl", n>>), W(x + 1, y, <<"neigh_op", "lft", n>>)>>

Pool ==
  <<\* a wire of one tile
    <<W(2, 2, <<"local", "g0">>)>>,
    \* an output and its neighbours: an inner tile, and a tile next to a corner
    Append(Around(2, 2, "0"), W(3, 3, <<"neigh_op", "bnl", "0">>)),
    Around(3, 3, "0"),
    \* a row, with a column of another tile's wires that is not imported
    <<W(1, 1, <<"sp4_r_v", "3">>), W(1, 2, <<"sp4_h", "3">>), W(2, 2, <<"sp4_h", "2">>),
      W(3, 2, <<"sp4_h", "1">>)>>,
    \* a row and a column that meet at no tile of the group
    <<W(1, 4, <<"span4_horz", "7">>), W(2, 4, <<"span4_horz", "6">>), W(3, 2, <<"sp4_v", "7">>),
      W(3, 3, <<"sp4_v", "6">>)>>,
    \* a cross, with two names where it crosses
    <<W(1, 2, <<"sp12_h", "0">>), W(2, 1, <<"sp12_v", "0">>), W(2, 2, <<"sp12_h", "1">>),
      W(2, 2, <<"sp12_v", "1">>), W(2, 3, <<"sp12_v", "2">>), W(3, 2, <<"sp12_h", "2">>)>>,
    \* a row and a column that meet at a tile of the group, over tracks of the others
    <<W(1, 2, <<"sp4_h", "9">>), W(2, 2, <<"sp4_h", "8">>), W(3, 1, <<"sp4_v", "8">>),
      W(3, 2, <<"sp4_h", "7">>), W(3, 3, <<"sp4_v", "9">>)>>,
    \* a wire that is not imported
    <<W(2, 2, <<"lutff", "clk">>)>>>>

Entry(x, y, switch, from, to) ==
  [pos |-> <<x, y>>, switch |-> switch, from |-> from, to |-> to, present |-> TRUE]

MCEntries ==
  <<Entry(2, 2, "buffer", <<"local", "g0">>, In),
    Entry(2, 2, "routing", <<"sp12_v", "1">>, <<"sp4_h", "2">>),
    [Entry(2, 2, "buffer", Out, <<"sp4_h", "2">>) EXCEPT !.present = FALSE],
    Entry(2, 2, "carry_in_set", <<"carry_in">>, In),
    Entry(3, 3, "buffer", Out, <<"sp4_v", "6">>),
    Entry(3, 3, "buffer", <<"cout", "0">>, In),
    Entry(3, 1, "routing", <<"sp4_v", "8">>, <<"neigh_op", "tnl", "0">>)>>

Chosen(S) == [i \in 1..Cardinality(S) |-> Pool[CHOOSE n \in S : Cardinality({m \in S : m < n}) = i - 1]]

(* More: groups of two types and of none, one of two rows, which has no corner *)
(* to be joined at, one of rows and a column apart, and a pin block that is    *)
(* not at the edge.                                                            *)
TwoRows == <<W(1, 1, <<"sp4_h", "9">>), W(1, 3, <<"sp4_h", "8">>), W(2, 1, <<"sp4_h", "7">>),
             W(2, 3, <<"sp4_h", "6">>)>>
Apart == <<W(1, 1, <<"sp4_h", "9">>), W(1, 4, <<"span4_horz", "8">>), W(2, 1, <<"sp4_h", "7">>),
           W(2, 4, <<"span4_horz", "6">>), W(3, 2, <<"sp4_v", "5">>), W(3, 3, <<"sp4_v", "4">>)>>
TwoTypes == <<W(1, 1, <<"sp4_h", "3">>), W(1, 2, <<"local", "g1">>)>>
NoType == <<W(2, 2, <<"glb_netwk", "0">>), W(3, 3, <<"glb_netwk", "0">>)>>

MCLayouts ==
  {[blocks |-> MCBlocks, groups |-> Chosen(S), entries |-> MCEntries] : S \in SUBSET DOMAIN Pool}
  \union {[blocks |-> MCBlocks, entries |-> <<>>, groups |-> <<group>>] :
             group \in {TwoTypes, NoType, TwoRows, Apart}}
  \union {[blocks |-> {Block("PIN", <<4, 4>>, <<1, 1>>, <<Pin(<<"pad">>, "CLOCK", 0, <<>>)>>)},
           entries |-> <<>>, groups |-> <<>>]}

(* Wires of a row of four have one name everywhere, and those of a cross two. *)
MCHlc(pos, name) ==
  CASE name[1] = "sp4_h" -> <<"span4_row", ToString(pos[2])>>
    [] name[1] \in {"sp12_h", "sp12_v"} -> <<name[1], "all">>
    [] OTHER -> name
=============================================================================
