------------------------------ MODULE PinFeeds ------------------------------
(***************************************************************************)
(* The last steps of prjxray_create_edges.py, after the edges:             *)
(* set_track_canonical_loc gives every living track a place, and           *)
(* annotate_pin_feeds walks from each pin for as long as there is one way  *)
(* to go, names the segment of the tracks it passes, and moves them to     *)
(* the tile where the walk ends, which for an input pin is the place of    *)
(* its connection box.                                                     *)
(*                                                                         *)
(* The graph is the one EdgeImport makes.  A node has one wire in a tile.  *)
(* NULL and "unknown" segments are one value; the sets of clock pins are   *)
(* in Feed.                                                                *)
(***************************************************************************)
EXTENDS EdgeImport

CONSTANTS
  ConstantTracks,  \* the GND and VCC tracks of constant_sources
  Feed             \* for each pin, the segment its feed gets

ASSUME FeedAssumption ==
  /\ ConstantTracks \subseteq Tracks
  /\ DOMAIN Feed = Pins
  /\ \A n \in Pins : Feed[n] \notin {"unknown", "named"}
  /\ \A m, n \in Pins : Feed[m] = Feed[n] => Kind[m] = Kind[n]

VARIABLES
  stage,    \* "edges", "feeds" or "done", or "raised" by an assertion
  segment,  \* segment_pkey of each track
  canon,    \* canon_phy_tile_pkey of each track, 0 for none on the device
  box,      \* for each input pin, the tile of connection_box_wire_pkey, or 0
  todo,     \* the active pins not yet walked from
  pin,      \* the pins being walked from: one or none
  at,       \* graph_node_pkey of the walk
  visited,  \* visited_nodes
  tracks,   \* the tracks this walk named
  cut,      \* history: for each track named, the pin and what was passed before
  path      \* history: for each pin walked from, visited_nodes at the end

feedvars == <<stage, segment, canon, box, todo, pin, at, visited, tracks, cut, path>>

PinNode(n) == <<n, 0>>
TrackIds == Tracks \union (UNION {{<<n, k>> : k \in 1 .. made[n]} : n \in Pins})
Named(n, ids) == [x \in ids |-> n]

FeedsInit ==
  /\ Init
  /\ stage = "edges"
  /\ segment = Named("unknown", Tracks)
  /\ canon = Named(0, Tracks)
  /\ box = [n \in Pins |-> 0]
  /\ todo = {} /\ pin = {}
  /\ at = <<>> /\ visited = {} /\ tracks = {}
  /\ cut = {} /\ path = [n \in Pins |-> {}]

Forward(n) == Kind[n] = "opin"

(* The rows of graph_edge from g the walk may follow: those of the walk's  *)
(* direction that do not come from a constant.                             *)
NextEdges(g, forward) ==
  IF forward
  THEN {e \in graph_edge : e.src = g}
  ELSE {e \in graph_edge : e.dst = g /\ TrackOf(e.src) \notin ConstantTracks}

End(e, forward) == IF forward THEN e.dst ELSE e.src

(* active_graph_node: constants count here.                                *)
Active(n) ==
  \E e \in graph_edge : PinNode(n) = (IF Forward(n) THEN e.src ELSE e.dst)

(* Where pips drive a track; the wire nodes of pins are no track of a node.*)
DrivenIn(x) == {p.tile : p \in {q \in pips : q.to = x}}
Least(S) == CHOOSE m \in S : \A k \in S : m <= k

SetTrackCanonicalLoc ==
  /\ pc = "marked" /\ stage = "edges"
  /\ canon' = [x \in TrackIds |->
                 IF x \in alive /\ DrivenIn(x) # {} THEN Least(DrivenIn(x)) ELSE 0]
  /\ \E named \in SUBSET (Tracks \ ConstantTracks) :
       segment' = [x \in TrackIds |->
                     IF x \in named \union ConstantTracks THEN "named" ELSE "unknown"]
  /\ stage' = "feeds"
  /\ todo' = {n \in Pins : Active(n)}
  /\ UNCHANGED <<vars, box, pin, at, visited, tracks, cut, path>>

(* Mutant of IsFirst: the input pins are not kept for last.                *)
IsFirst_AnyKind(n) == n \in todo

(* All output pins come before all input pins, in the order of the rows.   *)
IsFirst(n) == n \in todo /\ (Forward(n) \/ \A m \in todo : ~Forward(m))

StartWalk(n) ==
  /\ stage = "feeds" /\ pin = {} /\ IsFirst(n)
  /\ pin' = {n} /\ todo' = todo \ {n}
  /\ at' = PinNode(n) /\ visited' = {} /\ tracks' = {}
  /\ UNCHANGED <<vars, stage, segment, canon, box, cut, path>>

(* The track of the walk's node, if it is one with no segment yet.         *)
Unnamed == {x \in {TrackOf(at)} : at[2] # 0 /\ segment[x] = "unknown"}

One(S) == \E r \in S : S = {r}

(* Mutant of Followed: with several ways to go, one is taken.              *)
Followed_First(n) ==
  LET next == NextEdges(at, Forward(n))
      others == {e \in next : End(e, Forward(n)) \notin visited}
  IN  IF others = {} THEN {} ELSE {CHOOSE e \in others : TRUE}

(* The one edge to follow: the only one, or the only one that does not go  *)
(* back within a track.                                                    *)
Followed(n) ==
  LET next == NextEdges(at, Forward(n))
      back(e) == End(e, Forward(n)) \in visited /\ TrackOf(at) = TrackOf(End(e, Forward(n)))
      others == {e \in next : ~back(e)}
  IN  IF One(next) THEN next ELSE IF One(others) THEN others ELSE {}

(* The tiles where a node has a wire that pips lead from, or to.           *)
TilesOut(m) == {p.tile : p \in {q \in pips : q.from = m /\ ~q.pseudo}}
TilesIn(m) == {p.tile : p \in {q \in pips : q.to = m /\ ~q.pseudo}}

(* The tiles of the pips into a node, without the pips that are not        *)
(* directional if there are several.                                       *)
InputTiles(m) ==
  LET all == {<<p.tile, p.directional>> : p \in {q \in pips : q.to = m}}
  IN  {r[1] : r \in {s \in all : Cardinality(all) > 1 => s[2]}}

Ambiguous(m, forward) == Cardinality(IF forward THEN TilesOut(m) ELSE TilesIn(m)) > 1

(* set_pin_connection: where the routing of a pin begins, when its walk    *)
(* ended at node m.  The assertions are that an ambiguous place has one.   *)
Place(m, forward) ==
  LET sources == IF forward THEN TilesOut(m) ELSE TilesIn(m)
      sinks == IF forward THEN TilesIn(m) ELSE TilesOut(m)
  IN  CASE Ambiguous(m, forward) /\ forward -> InputTiles(m)
        [] Ambiguous(m, forward) /\ ~forward -> sinks \ sources
        [] One(sources) -> sources
        [] OTHER -> IF One(sinks) THEN sinks ELSE {}

SetPinConnection(n, named) ==
  LET place == Place(at[1], Forward(n))
  IN  IF Ambiguous(at[1], Forward(n)) /\ ~One(place)
      THEN stage' = "raised" /\ UNCHANGED <<canon, box>>
      ELSE /\ UNCHANGED stage
           /\ canon' = [x \in DOMAIN canon |->
                          IF x \in named /\ place # {} THEN Least(place) ELSE canon[x]]
           /\ box' = IF Forward(n) \/ place = {} THEN box ELSE [box EXCEPT ![n] = Least(place)]

(* Mutant of Passed: the nodes passed are not remembered.                  *)
Passed_Forgotten(g) == visited

Passed(g) == visited \union {g}

(* One call of walk_and_mark_segment.                                      *)
Walk(n) ==
  /\ stage = "feeds" /\ n \in pin
  /\ segment' = [x \in DOMAIN segment |-> IF x \in Unnamed THEN Feed[n] ELSE segment[x]]
  /\ tracks' = tracks \union Unnamed
  /\ cut' = cut \union {[track |-> x, pin |-> n,
                         nodes |-> ({PinNode(n)} \union visited) \ {at}] : x \in Unnamed}
  /\ LET onward == {g \in {End(e, Forward(n)) : e \in Followed(n)} : g \notin visited}
     IN  IF onward # {}
         THEN /\ \E g \in onward : at' = g /\ visited' = Passed(g)
              /\ UNCHANGED <<stage, canon, box, pin, path>>
         ELSE /\ SetPinConnection(n, tracks \union Unnamed)
              /\ path' = [path EXCEPT ![n] = visited]
              /\ pin' = {} /\ at' = <<>> /\ visited' = {}
  /\ UNCHANGED <<vars, todo>>

EndFeeds ==
  /\ stage = "feeds" /\ pin = {} /\ todo = {}
  /\ stage' = "done"
  /\ UNCHANGED <<vars, segment, canon, box, todo, pin, at, visited, tracks, cut, path>>

Import == Next /\ UNCHANGED feedvars

FeedsNext ==
  \/ Import
  \/ SetTrackCanonicalLoc
  \/ \E n \in todo : StartWalk(n)
  \/ \E n \in pin : Walk(n)
  \/ EndFeeds

FeedsSpec == FeedsInit /\ [][FeedsNext]_<<vars, feedvars>> /\ WF_<<vars, feedvars>>(FeedsNext)
-----------------------------------------------------------------------------
(* A track named for a pin is the only way between the pin and the rest of *)
(* the graph, the constants aside: from what the walk had passed there is  *)
(* no edge but to that, and to the track; and that holds none of the pins  *)
(* a route could end at.                                                   *)
FeedsAreTheOnlyWay ==
  \A k \in cut :
    /\ PinNode(k.pin) \in k.nodes
    /\ \A g \in k.nodes :
         /\ IF g[2] = 0 THEN Forward(g[1]) = Forward(k.pin) ELSE TrackOf(g) # k.track
         /\ \A e \in NextEdges(g, Forward(k.pin)) :
              End(e, Forward(k.pin)) \in k.nodes \/ TrackOf(End(e, Forward(k.pin))) = k.track

(* A track that is the only way out of an output pin never gets the        *)
(* segment of an input feed, though the walk of an input pin reaches it.   *)
OutputsNameTheirTracks ==
  \A n \in {m \in Pins : Forward(m)} : \A e \in NextEdges(PinNode(n), TRUE) :
    stage \in {"feeds", "done"} /\ One(NextEdges(PinNode(n), TRUE))
      /\ e.dst[2] # 0 =>
        \A m \in Pins : segment[TrackOf(e.dst)] = Feed[m] => Forward(m)

(* The walks end although the graph has cycles, and every pin is reached.  *)
EventuallyAnnotated == <>(stage \in {"done", "raised"} \/ pc = "raised")
=============================================================================
