----------------------------- MODULE PipFeatures -----------------------------
(***************************************************************************)
(* prjxray_routing_import.py: the FASM features of an edge.  The name of a *)
(* pip is a feature, and may imply others: the buffers and rows of the     *)
(* clock line it leads to, or parts of its tile, by the first rule that    *)
(* its wires match.                                                        *)
(*                                                                         *)
(* A wire is a name and what the regular expressions capture of it, <<>>   *)
(* where that is nothing; a feature is a tile, a part of it, and a wire.   *)
(***************************************************************************)
EXTENDS Integers, Sequences, FiniteSetsExt

VARIABLE
  fabric  \* name: for each pip its tile and wires; wires: of each node, pairs
          \* of a tile and a wire; column: the clock column by falling grid_y;
          \* row: by its left end, the grid row of each CLK_HROW tile;
          \* sing: grid_y of each IOI_SING tile

W(name, args) == [name |-> name, args |-> args]
Whole == W("", <<>>)

(* FASM names a pip by the wire it drives first.                           *)
PipName(p, backward) ==
  LET n == fabric.name[p]
  IN  IF backward THEN [tile |-> n.tile, dst |-> n.from, src |-> n.to]
                  ELSE [tile |-> n.tile, dst |-> n.to, src |-> n.from]

IoiSitePips == {"IOI_OLOGIC", "IOI_ILOGIC", "IOI_IDELAY", "IOI_OCLK", "IOI_OCLKM"}
Shared == {"IMUX", "LOGIC_OUTS", "CTRL", "FAN", "BYP"}

(* IOI_SING tiles share bits with a half of a whole IOI tile: the bottom   *)
(* one, where a clock region of 50 rows begins, with the upper half.       *)
Renumbered(pip) ==
  LET bottom == fabric.sing[pip.tile] % 50 = 0
      upper == IF bottom THEN 1 ELSE 0
      Half(w) == CASE w.name \in Shared -> [w EXCEPT !.args[2] = IF @ = 0 THEN upper ELSE @]
                   [] w.name = "IOI_OCLK" -> [w EXCEPT !.args[1] = IF @ = 0 THEN 1 - upper ELSE @]
                   [] OTHER -> w
  IN  IF pip.tile \in DOMAIN fabric.sing /\ pip.dst.name \in IoiSitePips
      THEN [pip EXCEPT !.dst.args[1] = 1 - upper, !.src = Half(pip.src)]
      ELSE pip

(* Mutant of Beside: the list is taken to run from the top.                *)
Beside_Swapped(tile, wire) ==
  LET at == CHOOSE n \in DOMAIN fabric.column : fabric.column[n].tile = tile
  IN  {n \in DOMAIN fabric.column :
         /\ n = IF wire = "REBUF_TOP" THEN at - 1 ELSE at + 1
         /\ fabric.column[n].type = "CLK_HROW"}

(* rebuf_to_hrow_map: the row next to a buffer, on the side of a wire.     *)
Beside(tile, wire) ==
  LET at == CHOOSE n \in DOMAIN fabric.column : fabric.column[n].tile = tile
  IN  {n \in DOMAIN fabric.column :
         /\ n = IF wire = "REBUF_TOP" THEN at + 1 ELSE at - 1
         /\ fabric.column[n].type = "CLK_HROW"}

Enable(wire) == IF wire = "REBUF_TOP" THEN "ENABLE_BELOW" ELSE "ENABLE_ABOVE"

(* The nodes with any of some wires, and the pips that lead to one.        *)
Nodes(names) == {n \in DOMAIN fabric.wires : \E w \in fabric.wires[n] : w[2].name \in names}
Leads(pip, names) == {n \in Nodes(names) : <<pip.tile, pip.dst>> \in fabric.wires[n]}

RebufWires == {"REBUF_TOP", "REBUF_BOT"}

(* REBUF_NODES: what a clock line needs on.                                *)
Rebufs(n) ==
  UNION {{<<w[1], W(Enable(w[2].name), w[2].args), Whole>>} \union
         {<<fabric.column[h].tile, W("ACTIVE", <<>>), W("CLK_HROW_R_CK_GCLK", w[2].args)>> :
            h \in Beside(w[1], w[2].name)}
         : w \in {v \in fabric.wires[n] : v[2].name \in RebufWires}}

(* populate_freq_bb_features: the wires of the node that need to be on.    *)
FreqBb(n) ==
  {<<w[1], W("ACTIVE", <<>>), w[2]>> :
     w \in {v \in fabric.wires[n] : v[2].name \in {"MMCM_CLK_FREQ_BB_NS", "PLL_CLK_FREQ_BB_NS"}}}

(* HCLK_CMT_TILES: the nearest tile of the type of the side.               *)
HclkCmtTile(hrow, lr) ==
  LET row == IF hrow \in DOMAIN fabric.row THEN fabric.row[hrow] ELSE <<>>
      at == CHOOSE x \in DOMAIN row : row[x].tile = hrow
      left == {x \in DOMAIN row : x < at /\ row[x].type = "HCLK_CMT"}
      right == {x \in DOMAIN row : x > at /\ row[x].type = "HCLK_CMT_L"}
  IN  CASE lr = "L" /\ left # {} -> {row[Max(left)].tile}
        [] lr = "R" /\ right # {} -> {row[Min(right)].tile}
        [] OTHER -> {}

(* check_feature from the rules on: their order is that of the code.  The  *)
(* last, FEATURES_WHEN_ROUTED, is empty.                                   *)
Rules(pip) ==
  LET tile == pip.tile
      src == pip.src
      Active(part) == {<<tile, W(part, <<>>), src>>}
      bufhce(part) == <<tile, W(part, <<>>), W("BUFHCE", <<IF src.args[1] = "L" THEN 0 ELSE 1, src.args[2]>>)>>
      Rule(when, what) == [when |-> when, what |-> what]
  IN  << Rule(Leads(pip, RebufWires) # {}, UNION {Rebufs(n) : n \in Leads(pip, RebufWires)}),
         Rule(pip.dst.name = "IOI_OCLK", {<<tile, W("IOI_OCLKM", pip.dst.args), src>>}),
         Rule(src.name = "HCLK_CK_BUFHCLK", Active("ENABLE_BUFFER")),
         Rule(src.name = "CLK_HROW_CK_MUX_OUT",
              IF src.name = "CLK_HROW_CK_MUX_OUT" THEN {bufhce("IN_USE"), bufhce("ZINV_CE")} ELSE {}),
         Rule(src.name \in {"CLK_HROW_CK_IN", "CLK_HROW_R_CK_GCLK"}, Active("ACTIVE")),
         Rule(src.name = "HCLK_CMT_CCIO",
              Active("ACTIVE") \union (IF pip.dst.name = "FREQ_REF" THEN {} ELSE Active("USED"))),
         Rule(src.name = "CLK_HROW_CK_HCLK_OUT",
              IF src.name = "CLK_HROW_CK_HCLK_OUT"
              THEN {<<t, W("USED", <<>>), W("HCLK_CMT_CK_BUFHCLK", <<src.args[2]>>)>> :
                      t \in HclkCmtTile(tile, src.args[1])}
              ELSE {}),
         Rule(pip.dst.name = "BRAM_CASCOUT", IF pip.dst.name = "BRAM_CASCOUT"
              THEN {<<tile, W("CASCOUT_ACTIVE", <<pip.dst.args[1]>>), Whole>>} ELSE {}),
         Rule(TRUE, UNION {FreqBb(n) : n \in Leads(pip, {"MMCM_CLK_FREQ_BB_NS", "PLL_CLK_FREQ_BB_NS"})}) >>

HardWires ==
  {<<"IOB_PADOUT0", "IOB_DIFFI_IN1">>, <<"IOB_PADOUT1", "IOB_DIFFI_IN0">>}

(* check_feature: the features of an edge.                                 *)
CheckFeature(name) ==
  LET pip == Renumbered(name)
      rules == Rules(pip)
      ends == <<pip.src.name, pip.dst.name>>
  IN  CASE ends = <<"IOB_DIFFO_OUT0", "IOB_DIFFO_IN1">> ->
             {<<pip.tile, W("OUT_DIFF", <<>>), Whole>>}
        [] ends \in HardWires -> {}
        [] OTHER ->
             {<<pip.tile, pip.dst, pip.src>>} \union
             rules[Min({n \in DOMAIN rules : rules[n].when})].what
=============================================================================
