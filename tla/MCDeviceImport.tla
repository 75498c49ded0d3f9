--------------------------- MODULE MCDeviceImport ---------------------------
(***************************************************************************)
(* Two and three tiles: CLBs of three wires, and a processor with a masked *)
(* pad, before or after them.  The prohibited sites are in the CLBs.       *)
(* Buffers, alone, have a pip between two pins, of many timings.           *)
(***************************************************************************)
EXTENDS DeviceImport, TLC

Pip(src, dest, pseudo, pass, timing, back) ==
  [src |-> src, dest |-> dest, pseudo |-> pseudo, pass |-> pass, timing |-> timing, back |-> back]
Site(type, pins, timing) == [type |-> type, pins |-> pins, timing |-> timing]
Plain(ws) == [w \in ws |-> 0]

ClbType ==
  [pss |-> FALSE, wires |-> {"i", "o", "n"},
   resistance |-> Plain({"i", "o", "n"}), capacitance |-> Plain({"i", "o", "n"}),
   pips |-> <<Pip("n", "i", FALSE, FALSE, {Timing(2, 1, 0)}, {}),
              Pip("o", "n", TRUE, TRUE, {}, {})>>,
   sites |-> <<Site("SLICE", {"o"}, {Timing(2, 1, 0)}), Site("SLICE", {"i"}, {})>>]
PssType ==
  [pss |-> TRUE, wires |-> {"io", "m", "p"},
   resistance |-> Plain({"io", "m", "p"}), capacitance |-> Plain({"io", "m", "p"}),
   pips |-> <<Pip("io", "m", FALSE, FALSE, {}, {})>>,
   sites |-> <<Site("IOPAD", {"io"}, {}), Site("PS7", {"p"}, {})>>]

(* The pin of q drives that of d, through a pip s of a kind: the names of  *)
(* these types are their parameters.                                       *)
BufferType(q, s, d, pass, c, r) ==
  [pss |-> FALSE, wires |-> {"q", "d"}, resistance |-> [w \in {"q", "d"} |-> IF w = "d" THEN r ELSE 0],
   capacitance |-> [w \in {"q", "d"} |-> c],
   pips |-> <<Pip("q", "d", FALSE, pass, s, s)>>,
   sites |-> <<Site("BUFO", {"q"}, q), Site("BUFI", {"d"}, d)>>]

Buffers ==
  ({{}, {Timing(0, 1, 0)}, {Timing(2, 3, 0)}} \X
   {{}, {Timing(0, 0, 1)}, {Timing(1, 1, 1)}} \X
   {{Timing(0, 0, 2)}, {Timing(3, 0, 1)}, {Timing(0, 0, 0)}} \X
   BOOLEAN \X {0, 1} \X {0}) \union {<<{}, {}, {}, FALSE, 0, 1>>}

MCTileTypes ==
  [ty \in {<<"CLB">>, <<"PSS">>} \union Buffers |->
     CASE ty = <<"CLB">> -> ClbType [] ty = <<"PSS">> -> PssType
       [] OTHER -> BufferType(ty[1], ty[2], ty[3], ty[4], ty[5], ty[6])]

Tile(name, type, prohibited) == [name |-> name, type |-> type, prohibited |-> prohibited]

Clb(name, prohibited) == Tile(name, <<"CLB">>, prohibited)

MCDevices ==
  {[tiles |-> <<Clb("a", {}), Clb("b", {1})>>, connections |-> cs] :
     cs \in {ds \in SUBSET {<< <<"a", "n">>, <<"b", "n">> >>, << <<"a", "o">>, <<"a", "n">> >>,
                            << <<"b", "i">>, <<"b", "n">> >>, << <<"b", "n">>, <<"a", "o">> >>,
                            << <<"a", "i">>, <<"b", "n">> >>} : Cardinality(ds) \in 1 .. 4}} \union
  {[tiles |-> ts, connections |-> {c}] :
     ts \in {<<Clb("a", {1, 2}), Tile("s", <<"PSS">>, {})>>, <<Tile("s", <<"PSS">>, {}), Clb("a", {2})>>},
     c \in {<< <<"a", "n">>, <<"s", "p">> >>, << <<"s", "m">>, <<"a", "n">> >>}} \union
  {[tiles |-> <<Tile("f", ty, {})>>, connections |-> {}] : ty \in Buffers}
=============================================================================
