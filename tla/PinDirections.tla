---------------------------- MODULE PinDirections ----------------------------
(***************************************************************************)
(* prjxray_assign_tile_pin_direction.py: every pin of a tile type gets the *)
(* sides of the tile it is on.  One choice serves all tiles of the type,   *)
(* so it has to suit the tracks around each of them: what the pips and the *)
(* direct connections of every tile ask for is collected, and a small set  *)
(* of sides that satisfies all of it is looked for.                        *)
(*                                                                         *)
(* All tiles are of one type, so a key is the name of a wire; each tile    *)
(* has a wire of that name.  A segment is a straight track, at a column    *)
(* ("Y") or a row ("X"), from low to high.                                 *)
(***************************************************************************)
EXTENDS Integers, Sequences, FiniteSets

CONSTANTS
  Keys,     \* the pins of the tile type, keys of edge_assignments
  Outputs,  \* those that drive
  Tiles,    \* tiles of the type
  Place,    \* grid_x and grid_y of each
  Tracks,   \* rows of track
  Devices   \* the segments of the tracks, the pips and the muxes to start from

Directions == {"TOP", "BOTTOM", "LEFT", "RIGHT"}

ASSUME DeviceAssumption ==
  /\ IsFiniteSet(Keys) /\ Outputs \subseteq Keys
  /\ \A t \in Tiles : Place[t] \in Nat \X Nat
  /\ \A v \in Devices :
       /\ \A p \in v.pips : p.pin \in Keys /\ p.tile \in Tiles /\ p.track \in Tracks
       /\ \A m \in v.muxes : /\ m.from \in Outputs /\ m.to \in Keys \ Outputs
                             /\ m.src \in Tiles /\ m.dst \in Tiles /\ m.src # m.dst

VARIABLES
  segments,          \* the graph nodes of each track
  pips,              \* pips between a pin and a track
  muxes,             \* rows of edge_with_mux
  edge_assignments,  \* for each key, the sets of sides asked for
  final,             \* final_edge_assignments
  todo,              \* the keys not in it yet
  reducing,          \* the key whose sides are being taken away: one or none
  stage              \* how far main() came

device == <<segments, pips, muxes>>
pinvars == <<device, edge_assignments, final, todo, reducing, stage>>

DirectionsInit(v) ==
  /\ segments = v.segments /\ pips = v.pips /\ muxes = v.muxes
  /\ edge_assignments = [k \in Keys |-> {}]
  /\ final = [k \in Keys |-> {}]
  /\ todo = Keys /\ reducing = {}
  /\ stage = "direct"

(* is_wire_adjacent_to_track: the side of the tile at a place where a      *)
(* segment is.                                                             *)
SideOf(s, place) ==
  LET along == IF s.dir = "X" THEN place[1] ELSE place[2]
      across == IF s.dir = "X" THEN place[2] ELSE place[1]
  IN  CASE along \notin s.low .. s.high -> "NO_SIDE"
        [] along \in s.low .. s.high /\ s.at = across ->
             IF s.dir = "X" THEN "TOP" ELSE "RIGHT"
        [] along \in s.low .. s.high /\ s.at = across - 1 ->
             IF s.dir = "X" THEN "BOTTOM" ELSE "LEFT"
        [] OTHER -> "NO_SIDE"

(* The keys of get_tracks_for_wire_at_coord.                               *)
Facing(t, place) == {SideOf(segments[t][n], place) : n \in DOMAIN segments[t]} \ {"NO_SIDE"}

(* The sides of two tiles that face each other, and of others the side     *)
(* the other is on.                                                        *)
Toward(a, b) ==
  IF a[1] = b[1] THEN (IF b[2] > a[2] THEN "TOP" ELSE "BOTTOM")
                 ELSE (IF b[1] > a[1] THEN "RIGHT" ELSE "LEFT")

Opposite == [TOP |-> "BOTTOM", BOTTOM |-> "TOP", LEFT |-> "RIGHT", RIGHT |-> "LEFT"]

Direct(k) ==
  {{Toward(Place[m.src], Place[m.dst])} : m \in {n \in muxes : n.from = k}} \union
  {{Opposite[Toward(Place[m.src], Place[m.dst])]} : m \in {n \in muxes : n.to = k}}

HandleDirectionConnections ==
  /\ stage = "direct"
  /\ edge_assignments' = [k \in Keys |-> edge_assignments[k] \union Direct(k)]
  /\ stage' = "reasons"
  /\ UNCHANGED <<device, final, todo, reducing>>

(* The classifications of the nodes of a key, in all tiles, without NULL.  *)
Reasons(k) ==
  {"EDGE_WITH_MUX" : m \in {n \in muxes : k \in {n.from, n.to}}} \union
  {"EDGES_TO_CHANNEL" : p \in {q \in pips : q.pin = k}}

(* wires_not_in_channels: asserted to be the same in every tile.           *)
CheckReasons ==
  /\ stage = "reasons"
  /\ stage' = IF \E k \in Keys : Cardinality(Reasons(k)) > 1 THEN "raised" ELSE "channels"
  /\ UNCHANGED <<device, edge_assignments, final, todo, reducing>>

(* What the pips of a key ask for in every tile.                           *)
Asked(k) == {Facing(p.track, Place[p.tile]) : p \in {q \in pips : q.pin = k}}

HandleEdgesToChannels ==
  /\ stage = "channels"
  /\ edge_assignments' = [k \in Keys |-> edge_assignments[k] \union Asked(k)]
  /\ stage' = "process"
  /\ UNCHANGED <<device, final, todo, reducing>>

Available(k) == edge_assignments[k] \ {{}}

Suits(pins, k) == \A available \in Available(k) : pins \intersect available # {}

Common(k) == {d \in Directions : \A available \in Available(k) : d \in available}

(* A pin nothing asks for is on the right; one side for all if there is    *)
(* one, and any of those; or all the sides, to be reduced.                 *)
Decide(k) ==
  /\ stage = "process" /\ reducing = {} /\ k \in todo
  /\ todo' = todo \ {k}
  /\ \/ /\ Available(k) = {}
        /\ final' = [final EXCEPT ![k] = {"RIGHT"}] /\ UNCHANGED reducing
     \/ /\ Available(k) # {} /\ Common(k) # {}
        /\ \E d \in Common(k) : final' = [final EXCEPT ![k] = {d}]
        /\ UNCHANGED reducing
     \/ /\ Available(k) # {} /\ Common(k) = {}
        /\ final' = [final EXCEPT ![k] = UNION Available(k)] /\ reducing' = {k}
  /\ UNCHANGED <<device, edge_assignments, stage>>

(* Mutant of Needless: whatever the tracks ask for.                        *)
Needless_Any(k) == IF Cardinality(final[k]) > 2 THEN final[k] ELSE {}

(* The sides one of which a round of the while loop takes away; the order  *)
(* of a set of sides is any.                                               *)
Needless(k) ==
  IF Cardinality(final[k]) > 2 THEN {d \in final[k] : Suits(final[k] \ {d}, k)} ELSE {}

Reduce(k) ==
  /\ stage = "process" /\ k \in reducing
  /\ IF Needless(k) = {}
     THEN reducing' = {} /\ UNCHANGED final
     ELSE /\ \E d \in Needless(k) : final' = [final EXCEPT ![k] = @ \ {d}]
          /\ UNCHANGED reducing
  /\ UNCHANGED <<device, edge_assignments, todo, stage>>

(* The assertion before pin_assignments.json is written.                   *)
CheckAssignments ==
  /\ stage = "process" /\ todo = {} /\ reducing = {}
  /\ stage' = IF \A k \in Keys : Suits(final[k], k) THEN "assigned" ELSE "raised"
  /\ UNCHANGED <<device, edge_assignments, final, todo, reducing>>

DirectionsNext ==
  \/ HandleDirectionConnections
  \/ CheckReasons
  \/ HandleEdgesToChannels
  \/ \E k \in Keys : Decide(k) \/ Reduce(k)
  \/ CheckAssignments
-----------------------------------------------------------------------------
(* The sides of a pin suit every tile: where a pip joins it to a track,    *)
(* the track runs along one of them; no side is left that no tile needs,   *)
(* beyond two; and a pin that one side serves has one.                     *)
SidesSuitEveryTile ==
  todo = {} /\ reducing = {} =>
    \A k \in Keys :
      /\ \A p \in {q \in pips : q.pin = k} :
           Facing(p.track, Place[p.tile]) # {} =>
             final[k] \intersect Facing(p.track, Place[p.tile]) # {}
      /\ Cardinality(final[k]) > 2 => \A d \in final[k] : ~Suits(final[k] \ {d}, k)
      /\ Cardinality(final[k]) > 1 => Common(k) = {}
=============================================================================
