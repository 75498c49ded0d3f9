----------------------------- MODULE MCTileGrid -----------------------------
(* A grid of two by two tiles for TLC, split into two types.               *)
EXTENDS TileGrid

CONSTANT A

MCTypes == {Empty, A}

MCYsOf == [type \in MCTypes |-> IF type = A THEN {0, 1} ELSE {}]

MCSplitTypes == {<<A, A>>}
=============================================================================
