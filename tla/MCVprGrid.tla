----------------------------- MODULE MCVprGrid -----------------------------
(* IO tiles of one bank: LIOB33 is merged east into LIOI3, LIOI3 is split  *)
(* north into LIOPAD_S and LIOPAD_M, and LIOI3_SING, which has the sites   *)
(* of one pad, becomes LIOPAD_SING.                                        *)
EXTENDS VprGrid

CONSTANTS LIOB33, LIOI3, LIOI3_SING, CLB, LIOPAD_S, LIOPAD_M, LIOPAD_SING

PhysicalTypes == {Empty, LIOB33, LIOI3, LIOI3_SING, CLB}

MCTypes == PhysicalTypes \union {LIOPAD_S, LIOPAD_M, LIOPAD_SING}

MCSplitTypes == {<<LIOPAD_S, LIOPAD_M>>, <<LIOPAD_SING>>}

MCYsOf ==
  [type \in MCTypes |-> IF type \in {LIOB33, LIOI3, CLB} THEN {0, 1}
                        ELSE IF type = LIOI3_SING THEN {0} ELSE {}]

MCMerges == << <<LIOB33, "EAST">> >>

MCSplits ==
  << <<LIOI3, "NORTH", (0 :> LIOPAD_S) @@ (1 :> LIOPAD_M)>>,
     <<LIOI3_SING, "NORTH", 0 :> LIOPAD_SING>> >>

(* Layouts as devices have them: an IOB beside its IOI, and no IOI in the  *)
(* northernmost row but those of one pad.                                  *)
DeviceLayouts ==
  {f \in [PhyTiles -> PhysicalTypes] : \A p \in PhyTiles :
     /\ f[p] = LIOB33 => "EAST" \in DOMAIN Mesh[p] /\ f[p + 1] = LIOI3
     /\ f[p] = LIOI3 => "NORTH" \in DOMAIN Mesh[p]}
=============================================================================
