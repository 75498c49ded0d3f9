----------------------------- MODULE MCPinFeeds -----------------------------
(* Output pins o and c, input pins i and j, a track t, a track u of two    *)
(* graph nodes and the GND track z, in two tiles.                          *)
EXTENDS PinFeeds, TLC

CONSTANTS o, c, t, u, z, i, j

MCNodes == {o, c, t, u, z, i, j}

MCKind == (o :> "opin") @@ (c :> "opin") @@ (i :> "ipin") @@ (j :> "ipin")
            @@ [n \in {t, u, z} |-> "track"]

MCSegments == [n \in MCNodes |-> IF n = u THEN 2 ELSE 1]

MCJoints == [n \in MCNodes |-> IF n = u THEN {<<2, 1>>} ELSE {}]

MCSiteTile == [n \in MCNodes |-> IF n = o THEN 1 ELSE 2]

MCFeed == (o :> "OUTPINFEED") @@ (c :> "HCLK_ROWS") @@ (i :> "INPINFEED") @@ (j :> "PLL_INPINFEED")

Pip(at_, from, to, directional) ==
  [tile |-> at_, from |-> from, to |-> to, directional |-> directional, pseudo |-> FALSE]

MCPips ==
  {Pip(1, o, t, TRUE), Pip(1, o, u, TRUE), Pip(1, t, u, FALSE), Pip(2, t, u, TRUE),
   Pip(2, t, i, TRUE), Pip(2, t, j, TRUE), Pip(2, u, i, TRUE), Pip(2, u, j, TRUE),
   Pip(2, c, t, TRUE), Pip(2, c, j, TRUE), Pip(2, z, i, TRUE)}

MCLayouts ==
  [pips : {qs \in SUBSET MCPips : Cardinality(qs) \in 2 .. 4}, input : {{}}, output : {{}}]
=============================================================================
