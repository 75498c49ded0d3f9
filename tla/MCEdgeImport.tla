---------------------------- MODULE MCEdgeImport ----------------------------
(* An output pin o, two tracks t and u, of which u has two graph nodes, an *)
(* input pin i, a wire x that was dropped, and a clock buffer with input   *)
(* pin b and output pin c, in two tiles.  The site of i is in the tile     *)
(* before the one its pips are in, as for the pads.                        *)
EXTENDS EdgeImport, TLC

CONSTANTS o, t, u, i, x, b, c

MCNodes == {o, t, u, i, x, b, c}

MCKind == (o :> "opin") @@ (t :> "track") @@ (u :> "track") @@ (i :> "ipin")
            @@ (x :> "none") @@ (b :> "ipin") @@ (c :> "opin")

MCSegments == [n \in MCNodes |-> IF n = u THEN 2 ELSE 1]

MCJoints == [n \in MCNodes |-> IF n = u THEN {<<2, 1>>} ELSE {}]

MCSiteTile == [n \in MCNodes |-> IF n \in {o, i} THEN 1 ELSE 2]

Pip(at, from, to, directional, pseudo) ==
  [tile |-> at, from |-> from, to |-> to, directional |-> directional, pseudo |-> pseudo]

MCPips ==
  {Pip(1, o, t, TRUE, FALSE), Pip(1, o, u, TRUE, FALSE), Pip(1, t, u, FALSE, FALSE),
   Pip(1, t, x, TRUE, FALSE), Pip(2, t, u, TRUE, FALSE), Pip(2, t, i, TRUE, FALSE),
   Pip(2, u, i, TRUE, FALSE), Pip(2, u, b, TRUE, FALSE), Pip(2, c, t, TRUE, FALSE),
   Pip(2, c, i, TRUE, FALSE), Pip(2, x, i, TRUE, FALSE)}

Buffer == Pip(2, b, c, TRUE, TRUE)

(* Three to five pips with at most one node reserved each way, or the      *)
(* buffer and up to three pips where its pins are wired to tracks.         *)
MCLayouts ==
  [pips : {qs \in SUBSET MCPips : Cardinality(qs) \in 3 .. 5}, input : {{}, {t}, {u}}, output : {{}, {u}}]
  \union
  [pips : {{Buffer, Pip(2, u, b, TRUE, FALSE), Pip(2, c, t, TRUE, FALSE)} \union qs :
             qs \in {rs \in SUBSET MCPips : Cardinality(rs) \in 1 .. 3}},
   input : {{}}, output : {{}}]
=============================================================================
