--------------------------- MODULE TrackAssignment ---------------------------
(***************************************************************************)
(* What a packed channel promises to the routing graph: the tracks of one  *)
(* channel are given ptc numbers one at a time, a number is never taken    *)
(* back, and two tracks that share a grid coordinate never share a number. *)
(* VPR refuses a routing graph that breaks this ("No duplicate PTC's",     *)
(* prjxray_edge_library.verify_channels).                                  *)
(***************************************************************************)
EXTENDS Integers

CONSTANTS
  Keys,      \* the tracks of the channel, by node id
  MaxCoord   \* the last grid coordinate along the channel

VARIABLES
  tracks,    \* where each track starts and ends along the channel
  ptc        \* the number of each track, Unassigned while it has none

Unassigned == -1

Coord == 0 .. MaxCoord

Interval == [low : Coord, high : Coord]

(* Two tracks meet when they share a grid coordinate.                      *)
Meet(a, b) == a.low <= b.high /\ b.low <= a.high

Init ==
  /\ tracks \in {f \in [Keys -> Interval] : \A k \in Keys : f[k].low <= f[k].high}
  /\ ptc = [k \in Keys |-> Unassigned]

(* Track k gets some number that no track it meets has.                    *)
Assign(k) ==
  /\ ptc[k] = Unassigned
  /\ ptc'[k] \in Nat
  /\ \A j \in Keys : ptc[j] = ptc'[k] => ~Meet(tracks[j], tracks[k])
  /\ ptc' = [ptc EXCEPT ![k] = ptc'[k]]
  /\ UNCHANGED tracks

Next == \E k \in Keys : Assign(k)

vars == <<tracks, ptc>>

Spec == Init /\ [][Next]_vars
=============================================================================
