-------------------------- MODULE EdgeImportProofs --------------------------
(***************************************************************************)
(* What holds of the edge import for any nodes, pips, tiles and batch      *)
(* size: its state is typed, a pin that is wired in the tile of its site   *)
(* gets one wire node however many pips it has, no edge of a pip taken     *)
(* forward touches a reserved node on its reserved side, every pip that is *)
(* connected gets its edges, and the tracks that are marked dead are on no *)
(* route.                                                                  *)
(*                                                                         *)
(* Then, what annotate_pin_feeds does to any graph the edge import makes:  *)
(* a track that a walk names is the only way between its pin and the rest  *)
(* of the graph, and one that is the only way out of an output pin has no  *)
(* input feed's segment.  The edge import goes on as it does alone.        *)
(***************************************************************************)
EXTENDS PinFeeds, Reachability

PipsTyped ==
  \A p \in pips : p.tile \in 1 .. NumTiles /\ p.from \in Nodes /\ p.to \in Nodes

LeftTyped == tile \in 1 .. NumTiles + 1 /\ left \subseteq SortedPips(tile)

WiresTyped ==
  /\ made \in [Pins -> Nat]
  /\ shared \in [Pins -> Nat] /\ \A n \in Pins : shared[n] <= made[n]

GraphNodes == TrackNodes \union (Pins \X {0})

EdgesTyped == \A e \in edges \union graph_edge : e.src \in GraphNodes /\ e.dst \in GraphNodes

RestTyped == cached \subseteq (1 .. NumTiles) \X Nodes /\ pc \in {"tiles", "marked", "raised"}

Local(n) == \A p \in pips : n \in {p.from, p.to} => p.tile = SiteTile[n]

(* A wire node is made for a local pin once, and is then recorded.         *)
MadeAndRecorded ==
  \A n \in Pins : Local(n) => made[n] = IF shared[n] = 0 THEN 0 ELSE 1

WireInv == PipsTyped /\ LeftTyped /\ WiresTyped /\ MadeAndRecorded
-----------------------------------------------------------------------------
(* A pip to connect is one of the tile's, and joins nodes of the database. *)
LEMMA NextPip ==
  ASSUME PipsTyped, LeftTyped, NEW c \in left
  PROVE  /\ c[2] \in pips /\ c[2].tile = tile
         /\ c[2].from \in Nodes /\ c[2].to \in Nodes
         /\ tile \in 1 .. NumTiles
<1>1. c \in SortedPips(tile)
  BY DEF LeftTyped
<1>2. PICK p \in pips : p.tile = tile /\ (c = <<TRUE, p>> \/ c = <<FALSE, p>>)
  <2>1. CASE c \in {<<TRUE, p>> : p \in {q \in pips : q.tile = tile}}
    BY <2>1, Zenon
  <2>2. CASE c \in {<<FALSE, p>> : p \in {q \in pips : q.tile = tile /\ ~q.directional}}
    BY <2>2, Zenon
  <2>. QED
    BY <1>1, <2>1, <2>2, Zenon DEF SortedPips
<1>3. c[2] = p
  <2>1. <<TRUE, p>>[2] = p /\ <<FALSE, p>>[2] = p
    OBVIOUS
  <2>. QED
    BY <1>2, <2>1, Zenon
<1>. QED
  BY <1>2, <1>3 DEF PipsTyped

(* What MakeConnection may do to the wire nodes: nothing, or make the one  *)
(* of a pin of the pip.                                                    *)
LEMMA ConnectionMakesOneWire ==
  ASSUME NEW c, MakeConnection(c)
  PROVE  \/ UNCHANGED <<made, shared>>
         \/ \E n \in {c[2].from, c[2].to} : Kind[n] \in {"opin", "ipin"} /\ MakeWireNode(n)
BY DEF MakeConnection, ConnectAt

LEMMA WireInit == Init => WireInv
<1> SUFFICES ASSUME Init PROVE WireInv
  OBVIOUS
<1> USE ImportAssumption
<1>1. PipsTyped
  BY DEF Init, PipsTyped
<1>2. LeftTyped
  BY DEF Init, LeftTyped
<1>3. WiresTyped /\ MadeAndRecorded
  BY DEF Init, WiresTyped, MadeAndRecorded
<1>. QED
  BY <1>1, <1>2, <1>3 DEF WireInv

LEMMA WireStep == WireInv /\ [Next]_vars => WireInv'
<1> SUFFICES ASSUME WireInv, [Next]_vars PROVE WireInv'
  OBVIOUS
<1> USE ImportAssumption
<1> USE DEF WireInv
<1>1. ASSUME NEW c \in left, MakeConnection(c) PROVE WireInv'
  <2>1. UNCHANGED <<pips, tile>> /\ left' \subseteq left
    BY <1>1 DEF MakeConnection, graph
  <2>2. PipsTyped' /\ LeftTyped'
    BY <2>1 DEF PipsTyped, LeftTyped, SortedPips
  <2>3. CASE UNCHANGED <<made, shared>>
    BY <2>1, <2>2, <2>3 DEF WiresTyped, MadeAndRecorded, Local
  <2>4. ASSUME NEW n \in {c[2].from, c[2].to}, Kind[n] \in {"opin", "ipin"}, MakeWireNode(n)
        PROVE  WiresTyped' /\ MadeAndRecorded'
    <3>1. n \in Pins /\ (Local(n) => tile = SiteTile[n])
      BY <2>4, NextPip DEF Pins, Local
    <3>2. CASE shared[n] # 0
      BY <2>1, <2>4, <3>2 DEF MakeWireNode, Recorded, WiresTyped, MadeAndRecorded, Local
    <3>3. CASE shared[n] = 0
      <4>1. made' = [made EXCEPT ![n] = made[n] + 1]
        BY <2>4, <3>3 DEF MakeWireNode
      <4>2. shared' = IF tile = SiteTile[n] THEN [shared EXCEPT ![n] = made[n] + 1] ELSE shared
        BY <2>4, <3>3 DEF MakeWireNode, Recorded
      <4>3. WiresTyped'
        BY <3>1, <4>1, <4>2 DEF WiresTyped
      <4>4. ASSUME NEW m \in Pins, Local(m)
            PROVE  made'[m] = IF shared'[m] = 0 THEN 0 ELSE 1
        BY <3>1, <3>3, <4>1, <4>2, <4>4 DEF WiresTyped, MadeAndRecorded
      <4>. QED
        BY <2>1, <4>3, <4>4 DEF MadeAndRecorded, Local
    <3>. QED
      BY <3>2, <3>3
  <2>. QED
    BY <1>1, <2>2, <2>3, <2>4, ConnectionMakesOneWire
<1>2. CASE EndTile
  BY <1>2 DEF EndTile, graph, PipsTyped, LeftTyped, WiresTyped, MadeAndRecorded, Local, SortedPips
<1>3. CASE MarkTrackLiveness
  BY <1>3 DEF MarkTrackLiveness, graph, PipsTyped, LeftTyped, WiresTyped, MadeAndRecorded,
    Local, SortedPips
<1>4. CASE UNCHANGED vars
  BY <1>4 DEF vars, graph, PipsTyped, LeftTyped, WiresTyped, MadeAndRecorded, Local, SortedPips
<1>. QED
  BY <1>1, <1>2, <1>3, <1>4 DEF Next

LEMMA WireInvariant == Spec => []WireInv
<1>. QED
  BY WireInit, WireStep, PTL DEF Spec

(* find_wire_node makes at most one wire node for a pin whose pips are in  *)
(* the tile of its site wire.                                              *)
THEOREM OneWireNode == Spec => []OneWireNodePerPin
<1>1. WireInv => OneWireNodePerPin
  BY DEF WireInv, MadeAndRecorded, OneWireNodePerPin, Local
<1>. QED
  BY <1>1, WireInvariant, PTL
-----------------------------------------------------------------------------
(* The wire nodes of a pin are graph nodes, before and after a step.       *)
LEMMA WireIsGraphNode ==
  ASSUME NEW n \in Pins
  PROVE  /\ \A i \in 1 .. made[n] : <<n, i>> \in GraphNodes
         /\ \A i \in 1 .. made'[n] : <<n, i>> \in GraphNodes'
<1>1. ASSUME NEW i \in 1 .. made[n] PROVE <<n, i>> \in GraphNodes
  <2>1. <<n, i>> \in UNION {{<<m, k>> : k \in 1 .. made[m]} : m \in Pins}
    <3>1. <<n, i>> \in {<<n, k>> : k \in 1 .. made[n]}
      OBVIOUS
    <3>2. {<<n, k>> : k \in 1 .. made[n]} \in {{<<m, k>> : k \in 1 .. made[m]} : m \in Pins}
      OBVIOUS
    <3>. QED
      BY <3>1, <3>2
  <2>. QED
    BY <2>1 DEF GraphNodes, TrackNodes
<1>2. ASSUME NEW i \in 1 .. made'[n] PROVE <<n, i>> \in GraphNodes'
  <2>1. <<n, i>> \in UNION {{<<m, k>> : k \in 1 .. made'[m]} : m \in Pins}
    <3>1. <<n, i>> \in {<<n, k>> : k \in 1 .. made'[n]}
      OBVIOUS
    <3>2. {<<n, k>> : k \in 1 .. made'[n]} \in {{<<m, k>> : k \in 1 .. made'[m]} : m \in Pins}
      OBVIOUS
    <3>. QED
      BY <3>1, <3>2
  <2>. QED
    BY <2>1 DEF GraphNodes, TrackNodes
<1>. QED
  BY <1>1, <1>2

(* What is a graph node.                                                   *)
LEMMA GraphNode ==
  ASSUME NEW n \in Nodes
  PROVE  /\ Kind[n] = "track" => \A i \in 1 .. Segments[n] : <<n, i>> \in GraphNodes
         /\ Kind[n] \in {"opin", "ipin"} =>
              n \in Pins /\ <<n, 0>> \in GraphNodes
<1>1. ASSUME Kind[n] = "track", NEW i \in 1 .. Segments[n] PROVE <<n, i>> \in GraphNodes
  <2>1. n \in Tracks
    BY <1>1 DEF Tracks
  <2>2. <<n, i>> \in UNION {{<<m, k>> : k \in 1 .. Segments[m]} : m \in Tracks}
    <3>1. <<n, i>> \in {<<n, k>> : k \in 1 .. Segments[n]}
      OBVIOUS
    <3>2. {<<n, k>> : k \in 1 .. Segments[n]} \in {{<<m, k>> : k \in 1 .. Segments[m]} : m \in Tracks}
      BY <2>1
    <3>. QED
      BY <3>1, <3>2
  <2>. QED
    BY <2>2 DEF GraphNodes, TrackNodes
<1>. QED
  BY <1>1 DEF GraphNodes, Pins

(* Wire nodes are only added, and the one find_wire_node returns is there. *)
LEMMA WireNodesGrow ==
  ASSUME WiresTyped, NEW n \in Pins, MakeWireNode(n)
  PROVE  /\ \A m \in Pins : made[m] <= made'[m]
         /\ made' \in [Pins -> Nat]
         /\ WireNode(n)[1] = n /\ WireNode(n)[2] \in 1 .. made'[n]
         /\ WireNode(n) = <<n, WireNode(n)[2]>>
<1>1. CASE shared[n] = 0
  BY <1>1 DEF MakeWireNode, WireNode, WiresTyped
<1>2. CASE shared[n] # 0
  BY <1>2 DEF MakeWireNode, WireNode, WiresTyped
<1>. QED
  BY <1>1, <1>2

LEMMA GraphNodesGrow ==
  ASSUME WiresTyped, made' \in [Pins -> Nat], \A m \in Pins : made[m] <= made'[m]
  PROVE  GraphNodes \subseteq GraphNodes'
<1>1. ASSUME NEW m \in Pins, NEW i \in 1 .. made[m] PROVE i \in 1 .. made'[m]
  BY DEF WiresTyped
<1>. QED
  BY <1>1 DEF GraphNodes, TrackNodes

LEMMA ConnectAtTyped ==
  ASSUME WiresTyped, EdgesTyped, NEW s \in Nodes, NEW d \in Nodes, NEW p,
         ConnectAt(s, d, p), Joins(s, d, p), UNCHANGED graph_edge
  PROVE  EdgesTyped'
<1> DEFINE Ends(src, dst) == {src, dst} \subseteq GraphNodes'
<1>1. GraphNodes \subseteq GraphNodes'
  <2>1. CASE UNCHANGED made
    BY <2>1 DEF GraphNodes, TrackNodes
  <2>2. ASSUME NEW n \in {s, d}, Kind[n] \in {"opin", "ipin"}, MakeWireNode(n)
        PROVE  GraphNodes \subseteq GraphNodes'
    BY <2>2, WireNodesGrow, GraphNodesGrow DEF Pins
  <2>. QED
    BY <2>1, <2>2 DEF ConnectAt
<1>2. ASSUME NEW n \in {s, d}, Kind[n] \in {"opin", "ipin"}, MakeWireNode(n)
      PROVE  WireNode(n) \in GraphNodes' /\ <<n, 0>> \in GraphNodes'
  <2>1. n \in Pins
    BY <1>2 DEF Pins
  <2>2. WireNode(n)[2] \in 1 .. made'[n] /\ WireNode(n) = <<n, WireNode(n)[2]>>
    BY <1>2, <2>1, WireNodesGrow
  <2>. QED
    BY <2>1, <2>2, WireIsGraphNode DEF GraphNodes
<1>3. ASSUME NEW n \in {s, d}, Kind[n] = "track", NEW i \in 1 .. Segments[n]
      PROVE  <<n, i>> \in GraphNodes'
  BY <1>1, <1>3, GraphNode
<1>4. ASSUME NEW n \in {s, d}, Kind[n] \in {"opin", "ipin"}
      PROVE  <<n, 0>> \in GraphNodes'
  BY <1>1, <1>4, GraphNode
<1>5. \A e \in edges : Ends(e.src, e.dst)
  BY <1>1 DEF EdgesTyped
<1>6. \A e \in edges' \ edges : Ends(e.src, e.dst)
  <2>1. CASE Kind[s] = "track" /\ Kind[d] = "track"
    BY <2>1, <1>3 DEF ConnectAt, Edge
  <2>2. CASE Kind[s] = "opin" /\ Kind[d] = "track"
    BY <2>2, <1>2, <1>3 DEF ConnectAt, Edge
  <2>3. CASE Kind[s] = "track" /\ Kind[d] = "ipin"
    BY <2>3, <1>2, <1>3 DEF ConnectAt, Edge
  <2>4. CASE Kind[s] = "opin" /\ Kind[d] = "ipin"
    BY <2>4, <1>4 DEF ConnectAt, Edge
  <2>5. CASE Kind[s] = "ipin" /\ Kind[d] = "opin"
    <3>1. shared[s] # 0 /\ shared[d] # 0 /\ s \in Pins /\ d \in Pins
      BY <2>5 DEF Joins, Pins
    <3>2. WireNode(s) \in GraphNodes /\ WireNode(d) \in GraphNodes
      <4>1. shared[s] \in 1 .. made[s] /\ shared[d] \in 1 .. made[d]
        BY <3>1 DEF WiresTyped
      <4>. QED
        BY <3>1, <4>1, WireIsGraphNode DEF WireNode
    <3>. QED
      BY <2>5, <3>2, <1>1 DEF ConnectAt, Edge
  <2>. QED
    BY <2>1, <2>2, <2>3, <2>4, <2>5 DEF ConnectAt
<1>. QED
  BY <1>1, <1>5, <1>6 DEF EdgesTyped

LEMMA TypeInit == Init => EdgesTyped /\ RestTyped
<1> SUFFICES ASSUME Init PROVE EdgesTyped /\ RestTyped
  OBVIOUS
<1>1. ASSUME NEW e \in Shorts PROVE e.src \in GraphNodes /\ e.dst \in GraphNodes
  <2>1. PICK n \in Tracks : \E k \in (1 .. Segments[n]) \X (1 .. Segments[n]) :
          e = Edge(<<n, k[1]>>, <<n, k[2]>>, {}, 0)
    BY DEF Shorts
  <2>2. PICK k \in (1 .. Segments[n]) \X (1 .. Segments[n]) :
          e = Edge(<<n, k[1]>>, <<n, k[2]>>, {}, 0)
    BY <2>1
  <2>3. n \in Nodes /\ Kind[n] = "track" /\ k[1] \in 1 .. Segments[n] /\ k[2] \in 1 .. Segments[n]
    BY DEF Tracks
  <2>4. e.src = <<n, k[1]>> /\ e.dst = <<n, k[2]>>
    BY <2>2 DEF Edge
  <2>. QED
    BY <2>3, <2>4, GraphNode
<1>. QED
  BY <1>1 DEF Init, EdgesTyped, RestTyped

LEMMA TypeStep == WireInv /\ EdgesTyped /\ RestTyped /\ [Next]_vars => (EdgesTyped /\ RestTyped)'
<1> SUFFICES ASSUME WireInv, EdgesTyped, RestTyped, [Next]_vars PROVE (EdgesTyped /\ RestTyped)'
  OBVIOUS
<1>1. ASSUME NEW c \in left, MakeConnection(c) PROVE (EdgesTyped /\ RestTyped)'
  <2> DEFINE p == c[2]
             s == IF c[1] THEN p.from ELSE p.to
             d == IF c[1] THEN p.to ELSE p.from
  <2>1. p.from \in Nodes /\ p.to \in Nodes /\ tile \in 1 .. NumTiles
    BY <1>1, NextPip DEF WireInv
  <2>2. s \in Nodes /\ d \in Nodes
    BY <2>1
  <2>3. RestTyped'
    BY <1>1, <2>1 DEF MakeConnection, RestTyped, LookedUp
  <2>4. UNCHANGED graph_edge
    BY <1>1 DEF MakeConnection
  <2>5. ASSUME UNCHANGED <<made, edges>> PROVE EdgesTyped'
    BY <2>4, <2>5 DEF EdgesTyped, GraphNodes, TrackNodes
  <2>6. ASSUME ConnectAt(s, d, p) /\ Joins(s, d, p) PROVE EdgesTyped'
    <3> HIDE DEF s, d, p
    <3>. QED
      BY <2>2, <2>4, <2>6, ConnectAtTyped DEF WireInv
  <2>7. UNCHANGED <<made, edges>> \/ (ConnectAt(s, d, p) /\ Joins(s, d, p))
    BY <1>1 DEF MakeConnection
  <2>. QED
    BY <2>3, <2>5, <2>6, <2>7
<1>2. CASE EndTile
  BY <1>2 DEF EndTile, Committed, EdgesTyped, RestTyped, GraphNodes, TrackNodes
<1>3. CASE MarkTrackLiveness
  BY <1>3 DEF MarkTrackLiveness, EdgesTyped, RestTyped, GraphNodes, TrackNodes
<1>4. CASE UNCHANGED vars
  BY <1>4 DEF vars, EdgesTyped, RestTyped, GraphNodes, TrackNodes
<1>. QED
  BY <1>1, <1>2, <1>3, <1>4 DEF Next

(* Edges join graph nodes that exist, and every pip left to connect is one *)
(* of the tile being visited.                                              *)
THEOREM Typed == Spec => []TypeOK
<1>1. WireInv /\ EdgesTyped /\ RestTyped => TypeOK
  BY DEF WireInv, LeftTyped, WiresTyped, EdgesTyped, GraphNodes, RestTyped, TypeOK
<1>. QED
  BY <1>1, TypeInit, TypeStep, WireInit, WireStep, PTL DEF Spec
-----------------------------------------------------------------------------
(* The edges of a pip taken from s to d.                                   *)
LEMMA ConnectionEdges ==
  ASSUME NEW c, MakeConnection(c), NEW e \in edges', e \notin edges
  PROVE  /\ ~Reserved(c[2])
         /\ e.pip = {} \/ /\ e.pip = {c[2]}
                          /\ <<e.src[1], e.dst[1]>> =
                               IF c[1] THEN <<c[2].from, c[2].to>> ELSE <<c[2].to, c[2].from>>
<1>1. ~Reserved(c[2])
  BY DEF MakeConnection
<1> DEFINE p == c[2]
           s == IF c[1] THEN p.from ELSE p.to
           d == IF c[1] THEN p.to ELSE p.from
<1>2. ConnectAt(s, d, p)
  BY <1>1 DEF MakeConnection
<1>3. e.pip = {} \/ (e.pip = {p} /\ e.src[1] = s /\ e.dst[1] = d)
  <2> HIDE DEF s, d, p
  <2>. QED
    BY <1>2 DEF ConnectAt, Edge, WireNode
<1>. QED
  BY <1>1, <1>3

(* Neither the pips nor the reserved nodes change, and nothing else adds   *)
(* an edge.                                                                *)
LEMMA OtherStepsAddNoEdge ==
  ASSUME EndTile \/ MarkTrackLiveness \/ UNCHANGED vars
  PROVE  /\ edges' \union graph_edge' \subseteq edges \union graph_edge
         /\ UNCHANGED graph
BY DEF EndTile, Committed, MarkTrackLiveness, vars

(* make_connection keeps to the reserved nodes for pips taken forward.     *)
THEOREM ReservedRespected == Spec => []ForwardEdgesRespectReserved
<1>1. Init => ForwardEdgesRespectReserved
  <2>1. ASSUME NEW e \in Shorts PROVE e.pip = {}
    <3>1. PICK n \in Tracks : \E k \in (1 .. Segments[n]) \X (1 .. Segments[n]) :
            e = Edge(<<n, k[1]>>, <<n, k[2]>>, {}, 0)
      BY DEF Shorts
    <3>. QED
      BY <3>1 DEF Edge
  <2>. QED
    BY <2>1 DEF Init, ForwardEdgesRespectReserved
<1>2. ForwardEdgesRespectReserved /\ [Next]_vars => ForwardEdgesRespectReserved'
  <2> SUFFICES ASSUME ForwardEdgesRespectReserved, [Next]_vars
               PROVE  ForwardEdgesRespectReserved'
    OBVIOUS
  <2>1. ASSUME NEW c \in left, MakeConnection(c) PROVE ForwardEdgesRespectReserved'
    <3>1. UNCHANGED <<pips, input_only, output_only, graph_edge>>
      BY <2>1 DEF MakeConnection, graph
    <3>2. ASSUME NEW e \in edges', e \notin edges, NEW p \in pips,
                 e.pip = {p}, e.src[1] = p.from
          PROVE  e.src[1] \notin input_only /\ e.dst[1] \notin output_only
      <4>1. p = c[2] /\ ~Reserved(p)
        BY <2>1, <3>2, ConnectionEdges
      <4>2. <<e.src[1], e.dst[1]>> = IF c[1] THEN <<p.from, p.to>> ELSE <<p.to, p.from>>
        BY <2>1, <3>2, <4>1, ConnectionEdges
      <4>3. CASE c[1]
        BY <4>1, <4>2, <4>3 DEF Reserved
      <4>4. CASE ~c[1]
        BY <3>2, <4>1, <4>2, <4>4 DEF Reserved
      <4>. QED
        BY <4>3, <4>4
    <3>. QED
      BY <3>1, <3>2 DEF ForwardEdgesRespectReserved
  <2>2. CASE EndTile \/ MarkTrackLiveness \/ UNCHANGED vars
    BY <2>2, OtherStepsAddNoEdge DEF ForwardEdgesRespectReserved, graph
  <2>. QED
    BY <2>1, <2>2 DEF Next
<1>. QED
  BY <1>1, <1>2, PTL DEF Spec
-----------------------------------------------------------------------------
all == edges \union graph_edge

(* The wire node that the site wire of a pin records is joined to the pin. *)
RecordedIsPinned == \A n \in Pins : shared[n] # 0 => Pinned(<<n, shared[n]>>, all)

(* The edges of the pip in its two directions, once these were visited.    *)
PipHasEdges(p) ==
  /\ Done(TRUE, p) => HasEdge(p.from, p.to, p, all)
  /\ Done(FALSE, p) => p.directional \/ HasEdge(p.to, p.from, p, all)

PipsHaveEdges == pc # "raised" => \A p \in pips : Connected(p) => PipHasEdges(p)

LEMMA EdgesStay ==
  ASSUME NEW es, NEW more, es \subseteq more
  PROVE  /\ \A g : Pinned(g, es) => Pinned(g, more)
         /\ \A s, d, p : HasEdge(s, d, p, es) => HasEdge(s, d, p, more)
<1>1. \A g : Pinned(g, es) => Pinned(g, more)
  BY DEF Pinned
<1>. QED
  BY <1>1 DEF HasEdge

LEMMA PipEdge ==
  ASSUME NEW es, NEW src, NEW dst, NEW p, NEW tl,
         Edge(src, dst, {p}, tl) \in es, Pinned(src, es), Pinned(dst, es)
  PROVE  HasEdge(src[1], dst[1], p, es)
<1> DEFINE e == Edge(src, dst, {p}, tl)
<1>1. e.pip = {p} /\ e.src = src /\ e.dst = dst
  BY DEF Edge
<1> HIDE DEF e
<1>2. e \in es
  BY DEF e
<1>. QED
  BY <1>1, <1>2 DEF HasEdge

LEMMA WireEdge ==
  ASSUME NEW es, NEW n, NEW g, NEW tl, g[1] = n,
         \/ Kind[n] = "opin" /\ Edge(<<n, 0>>, g, {}, tl) \in es
         \/ Kind[n] = "ipin" /\ Edge(g, <<n, 0>>, {}, tl) \in es
  PROVE  Pinned(g, es)
<1> DEFINE e == IF Kind[n] = "opin" THEN Edge(<<n, 0>>, g, {}, tl) ELSE Edge(g, <<n, 0>>, {}, tl)
<1>1. \/ Kind[n] = "opin" /\ e.src = <<n, 0>> /\ e.dst = g
      \/ Kind[n] = "ipin" /\ e.src = g /\ e.dst = <<n, 0>>
  BY DEF Edge
<1>2. e \in es
  OBVIOUS
<1> HIDE DEF e
<1>. QED
  BY <1>1, <1>2 DEF Pinned

(* connect_at makes the edge of the pip, and joins the wire nodes it makes *)
(* to their pins; those of a pseudo pip were recorded and joined before.   *)
LEMMA ConnectAtMakesTheEdge ==
  ASSUME WiresTyped, RecordedIsPinned, NEW s \in Nodes, NEW d \in Nodes, NEW p,
         Joins(s, d, p), ConnectAt(s, d, p), UNCHANGED graph_edge
  PROVE  all \subseteq all' /\ HasEdge(s, d, p, all') /\ RecordedIsPinned'
<1>1. all \subseteq all'
  BY DEF ConnectAt, all
<1>2. ASSUME UNCHANGED shared PROVE RecordedIsPinned'
  BY <1>1, <1>2, EdgesStay DEF RecordedIsPinned
<1>3. ASSUME NEW n \in Pins, MakeWireNode(n), Pinned(WireNode(n), all') PROVE RecordedIsPinned'
  <2>1. CASE UNCHANGED shared
    BY <1>2, <2>1
  <2>2. CASE shared[n] = 0 /\ shared' = [shared EXCEPT ![n] = made[n] + 1]
    <3>1. shared'[n] = made[n] + 1 /\ WireNode(n) = <<n, made[n] + 1>>
      BY <2>2 DEF WireNode, WiresTyped
    <3>2. \A m \in Pins : m # n => shared'[m] = shared[m]
      BY <2>2 DEF WiresTyped
    <3>3. ASSUME NEW m \in Pins, shared'[m] # 0 PROVE Pinned(<<m, shared'[m]>>, all')
      <4>1. CASE m = n
        BY <1>3, <3>1, <4>1
      <4>2. CASE m # n
        BY <1>1, <3>2, <3>3, <4>2, EdgesStay DEF RecordedIsPinned
      <4>. QED
        BY <4>1, <4>2
    <3>. QED
      BY <3>3 DEF RecordedIsPinned
  <2>. QED
    BY <1>3, <2>1, <2>2 DEF MakeWireNode, Recorded
<1>4. CASE Kind[s] = "track" /\ Kind[d] = "track"
  <2>1. PICK i \in 1 .. Segments[s], j \in 1 .. Segments[d] :
          Edge(<<s, i>>, <<d, j>>, {p}, tile) \in all'
    BY <1>4 DEF ConnectAt, all
  <2>2. Pinned(<<s, i>>, all') /\ Pinned(<<d, j>>, all')
    BY <1>4 DEF Pinned
  <2>3. HasEdge(<<s, i>>[1], <<d, j>>[1], p, all')
    BY <2>1, <2>2, PipEdge
  <2>. QED
    BY <1>1, <1>2, <1>4, <2>3 DEF ConnectAt
<1>5. CASE Kind[s] = "opin" /\ Kind[d] = "track"
  <2>1. PICK j \in 1 .. Segments[d] :
          edges' = edges \union {Edge(<<s, 0>>, WireNode(s), {}, tile),
                                 Edge(WireNode(s), <<d, j>>, {p}, tile)}
    BY <1>5 DEF ConnectAt
  <2>2. MakeWireNode(s) /\ s \in Pins
    BY <1>5 DEF ConnectAt, Pins
  <2>3. WireNode(s)[1] = s
    BY DEF WireNode
  <2>4. Pinned(WireNode(s), all')
    <3>1. Edge(<<s, 0>>, WireNode(s), {}, tile) \in all'
      BY <2>1 DEF all
    <3>. QED
      BY <1>5, <2>3, <3>1, WireEdge
  <2>5. HasEdge(s, d, p, all')
    <3>1. Pinned(<<d, j>>, all')
      BY <1>5 DEF Pinned
    <3>2. Edge(WireNode(s), <<d, j>>, {p}, tile) \in all'
      BY <2>1 DEF all
    <3>3. HasEdge(WireNode(s)[1], <<d, j>>[1], p, all')
      BY <2>4, <3>1, <3>2, PipEdge
    <3>. QED
      BY <2>3, <3>3
  <2>. QED
    BY <1>1, <1>3, <2>2, <2>4, <2>5
<1>6. CASE Kind[s] = "track" /\ Kind[d] = "ipin"
  <2>1. PICK i \in 1 .. Segments[s] :
          edges' = edges \union {Edge(<<s, i>>, WireNode(d), {p}, tile),
                                 Edge(WireNode(d), <<d, 0>>, {}, tile)}
    BY <1>6 DEF ConnectAt
  <2>2. MakeWireNode(d) /\ d \in Pins
    BY <1>6 DEF ConnectAt, Pins
  <2>3. WireNode(d)[1] = d
    BY DEF WireNode
  <2>4. Pinned(WireNode(d), all')
    <3>1. Edge(WireNode(d), <<d, 0>>, {}, tile) \in all'
      BY <2>1 DEF all
    <3>. QED
      BY <1>6, <2>3, <3>1, WireEdge
  <2>5. HasEdge(s, d, p, all')
    <3>1. Pinned(<<s, i>>, all')
      BY <1>6 DEF Pinned
    <3>2. Edge(<<s, i>>, WireNode(d), {p}, tile) \in all'
      BY <2>1 DEF all
    <3>3. HasEdge(<<s, i>>[1], WireNode(d)[1], p, all')
      BY <2>4, <3>1, <3>2, PipEdge
    <3>. QED
      BY <2>3, <3>3
  <2>. QED
    BY <1>1, <1>3, <2>2, <2>4, <2>5
<1>7. CASE Kind[s] = "opin" /\ Kind[d] = "ipin"
  <2>1. Edge(<<s, 0>>, <<d, 0>>, {p}, tile) \in all'
    BY <1>7 DEF ConnectAt, all
  <2>2. Pinned(<<s, 0>>, all') /\ Pinned(<<d, 0>>, all')
    BY DEF Pinned
  <2>3. HasEdge(<<s, 0>>[1], <<d, 0>>[1], p, all')
    BY <2>1, <2>2, PipEdge
  <2>. QED
    BY <1>1, <1>2, <1>7, <2>3 DEF ConnectAt
<1>8. CASE Kind[s] = "ipin" /\ Kind[d] = "opin"
  <2>1. shared[s] # 0 /\ shared[d] # 0 /\ s \in Pins /\ d \in Pins
    BY <1>8 DEF Joins, Pins
  <2>2. WireNode(s) = <<s, shared[s]>> /\ WireNode(d) = <<d, shared[d]>>
    BY <2>1 DEF WireNode
  <2>3. Pinned(WireNode(s), all') /\ Pinned(WireNode(d), all')
    BY <1>1, <2>1, <2>2, EdgesStay DEF RecordedIsPinned
  <2>4. edges' = edges \union {Edge(WireNode(s), WireNode(d), {p}, tile)} /\ UNCHANGED shared
    BY <1>8 DEF ConnectAt
  <2>5. HasEdge(WireNode(s)[1], WireNode(d)[1], p, all')
    <3>1. Edge(WireNode(s), WireNode(d), {p}, tile) \in all'
      BY <2>4 DEF all
    <3>. QED
      BY <2>3, <3>1, PipEdge
  <2>. QED
    BY <1>1, <1>2, <2>2, <2>4, <2>5
<1>. QED
  BY <1>4, <1>5, <1>6, <1>7, <1>8 DEF ConnectAt

LEMMA PipsInit == Init => RecordedIsPinned /\ PipsHaveEdges
<1> SUFFICES ASSUME Init PROVE RecordedIsPinned /\ PipsHaveEdges
  OBVIOUS
<1>1. RecordedIsPinned
  BY DEF Init, RecordedIsPinned
<1>2. ASSUME NEW p \in pips PROVE PipHasEdges(p)
  <2>1. p.tile \in 1 .. NumTiles /\ tile = 1 /\ left = SortedPips(1)
    BY ImportAssumption DEF Init
  <2>2. p.tile = 1 => <<TRUE, p>> \in left /\ (p.directional \/ <<FALSE, p>> \in left)
    BY <2>1 DEF SortedPips
  <2>. QED
    BY <2>1, <2>2, ImportAssumption DEF PipHasEdges, Done
<1>. QED
  BY <1>1, <1>2 DEF PipsHaveEdges

LEMMA PipsStep ==
  WireInv /\ RecordedIsPinned /\ PipsHaveEdges /\ [Next]_vars => (RecordedIsPinned /\ PipsHaveEdges)'
<1> SUFFICES ASSUME WireInv, RecordedIsPinned, PipsHaveEdges, [Next]_vars
             PROVE  (RecordedIsPinned /\ PipsHaveEdges)'
  OBVIOUS
<1>1. ASSUME NEW c \in left, MakeConnection(c) PROVE (RecordedIsPinned /\ PipsHaveEdges)'
  <2> DEFINE p == c[2]
             s == IF c[1] THEN p.from ELSE p.to
             d == IF c[1] THEN p.to ELSE p.from
  <2>1. p \in pips /\ p.from \in Nodes /\ p.to \in Nodes /\ c = <<c[1], p>> /\ c[1] \in BOOLEAN
    <3>1. c[1] \in BOOLEAN /\ c = <<c[1], c[2]>>
      <4>1. c \in SortedPips(tile)
        BY DEF WireInv, LeftTyped
      <4>2. \E q : c = <<TRUE, q>> \/ c = <<FALSE, q>>
        BY <4>1, Zenon DEF SortedPips
      <4>3. \A q : /\ <<TRUE, q>>[1] = TRUE /\ <<TRUE, q>>[2] = q
                 /\ <<FALSE, q>>[1] = FALSE /\ <<FALSE, q>>[2] = q
        OBVIOUS
      <4>. QED
        BY <4>2, <4>3, Zenon
    <3>. QED
      BY <3>1, NextPip DEF WireInv
  <2>2. UNCHANGED <<pips, input_only, output_only, tile, graph_edge>> /\ left' = left \ {c}
    BY <1>1 DEF MakeConnection, graph
  <2>3. pc = "tiles"
    BY <1>1 DEF MakeConnection
  <2>4. \/ UNCHANGED <<edges, shared>> /\ (pc' = "raised" \/ ~Connected(p))
        \/ Joins(s, d, p) /\ ConnectAt(s, d, p)
    BY <1>1 DEF MakeConnection, Connected, LookedUp
  <2>5. /\ all \subseteq all' /\ RecordedIsPinned'
        /\ pc' # "raised" /\ Connected(p) => HasEdge(s, d, p, all')
    <3>1. CASE UNCHANGED <<edges, shared>> /\ (pc' = "raised" \/ ~Connected(p))
      BY <2>2, <3>1 DEF all, RecordedIsPinned
    <3>2. CASE Joins(s, d, p) /\ ConnectAt(s, d, p)
      <4>1. s \in Nodes /\ d \in Nodes
        BY <2>1
      <4> HIDE DEF s, d, p
      <4>. QED
        BY <2>2, <3>2, <4>1, ConnectAtMakesTheEdge DEF WireInv
    <3>. QED
      BY <2>4, <3>1, <3>2
  <2>6. ASSUME pc' # "raised", NEW q \in pips, Connected(q)
        PROVE  PipHasEdges(q)'
    <3>1. PipHasEdges(q)
      BY <2>3, <2>6 DEF PipsHaveEdges
    <3>2. \A a, b : HasEdge(a, b, q, all) => HasEdge(a, b, q, all')
      BY <2>5, EdgesStay
    <3>3. ASSUME NEW f \in BOOLEAN, Done(f, q)' PROVE Done(f, q) \/ c = <<f, q>>
      BY <2>2, <3>3 DEF Done
    <3>4. c = <<TRUE, q>> => HasEdge(q.from, q.to, q, all')
      <4> SUFFICES ASSUME c = <<TRUE, q>> PROVE HasEdge(q.from, q.to, q, all')
        OBVIOUS
      <4>1. p = q /\ s = q.from /\ d = q.to
        OBVIOUS
      <4>. QED
        BY <2>5, <2>6, <4>1
    <3>5. c = <<FALSE, q>> => HasEdge(q.to, q.from, q, all')
      <4> SUFFICES ASSUME c = <<FALSE, q>> PROVE HasEdge(q.to, q.from, q, all')
        OBVIOUS
      <4>1. p = q /\ s = q.to /\ d = q.from
        OBVIOUS
      <4>. QED
        BY <2>5, <2>6, <4>1
    <3>. QED
      BY <3>1, <3>2, <3>3, <3>4, <3>5 DEF PipHasEdges
  <2>. QED
    BY <2>2, <2>5, <2>6 DEF PipsHaveEdges, Connected, Reserved
<1>2. ASSUME EndTile PROVE (RecordedIsPinned /\ PipsHaveEdges)'
  <2>1. UNCHANGED <<pips, input_only, output_only, shared, pc>> /\ all' = all
    BY <1>2 DEF EndTile, Committed, graph, all
  <2>2. RecordedIsPinned'
    BY <2>1 DEF RecordedIsPinned
  <2>3. ASSUME NEW p \in pips, PipHasEdges(p) PROVE PipHasEdges(p)'
    <3>1. p.tile \in Nat /\ tile \in Nat
      BY DEF WireInv, PipsTyped, LeftTyped
    <3>2. tile' = tile + 1 /\ left = {} /\ left' = SortedPips(tile + 1)
      BY <1>2 DEF EndTile
    <3>3. p.tile = tile + 1 => <<TRUE, p>> \in left' /\ (p.directional \/ <<FALSE, p>> \in left')
      BY <3>2 DEF SortedPips
    <3>4. Done(TRUE, p)' => Done(TRUE, p)
      BY <3>1, <3>2, <3>3 DEF Done
    <3>5. Done(FALSE, p)' => Done(FALSE, p) \/ p.directional
      BY <3>1, <3>2, <3>3 DEF Done
    <3>. QED
      BY <2>1, <2>3, <3>4, <3>5 DEF PipHasEdges
  <2>. QED
    BY <2>1, <2>2, <2>3 DEF PipsHaveEdges, Connected, Reserved
<1>3. CASE MarkTrackLiveness \/ UNCHANGED vars
  <2>1. UNCHANGED <<pips, input_only, output_only, tile, left, shared, edges, graph_edge>>
        /\ (pc' # "raised" => pc # "raised")
    BY <1>3 DEF MarkTrackLiveness, vars, graph
  <2>2. all' = all /\ \A p : PipHasEdges(p)' <=> PipHasEdges(p)
    BY <2>1 DEF PipHasEdges, Done, all
  <2>. QED
    BY <2>1, <2>2 DEF PipsHaveEdges, RecordedIsPinned, Connected, Reserved
<1>. QED
  BY <1>1, <1>2, <1>3 DEF Next

(* Unless make_connection raised, which a device whose pips join what they *)
(* cannot join makes it do, every pip that was visited has its edges, in   *)
(* each direction, and its wire nodes are joined to their pins: whatever   *)
(* the order in which the pips of a tile are taken, and however often the  *)
(* edges were committed.                                                   *)
THEOREM PipsKeepTheirEdges == Spec => [](pc # "raised" => EveryPipHasItsEdges)
<1>1. PipsHaveEdges => (pc # "raised" => EveryPipHasItsEdges)
  BY DEF PipsHaveEdges, PipHasEdges, EveryPipHasItsEdges, all
<1>. QED
  BY <1>1, PipsInit, PipsStep, WireInit, WireStep, PTL DEF Spec
-----------------------------------------------------------------------------
(* Reach is the least set with from that the edges do not lead out of.     *)
LEMMA ReachIsClosure ==
  ASSUME NEW from, NEW es, IsFiniteSet(es)
  PROVE  /\ from \subseteq Reach(from, es)
         /\ \A e \in es : e.src \in Reach(from, es) => e.dst \in Reach(from, es)
         /\ \A gs : from \subseteq gs /\ (\A e \in es : e.src \in gs => e.dst \in gs)
                   => Reach(from, es) \subseteq gs
<1> DEFINE Step(gs) == gs \union {e.dst : e \in {f \in es : f.src \in gs}}
           N == Cardinality(es)
           In == [e \in es |-> {e.src}]
           Out == [e \in es |-> {e.dst}]
           R == CHOOSE r : r = [k \in 0 .. N |-> IF k = 0 THEN from ELSE Step(r[k - 1])]
<1>1. \A gs : Grown(gs, es, In, Out) = Step(gs)
  BY DEF Grown
<1>2. N \in Nat
  BY FS_CardinalityType
<1>3. Grows(R, N, from, es, In, Out)
  <2>1. PICK r : Grows(r, N, from, es, In, Out)
    <3> HIDE DEF In, Out, N
    <3>. QED
      BY <1>2, GrowthExists
  <2> HIDE DEF In, Out, N
  <2>2. r = [k \in 0 .. N |-> IF k = 0 THEN from ELSE Step(r[k - 1])]
    BY <1>1, <2>1 DEF Grows
  <2> HIDE DEF Step
  <2>3. R = [k \in 0 .. N |-> IF k = 0 THEN from ELSE Step(R[k - 1])]
    BY <2>2
  <2> HIDE DEF R
  <2>. QED
    BY <1>1, <2>3 DEF Grows, Step
<1>4. Reach(from, es) = R[N]
  BY DEF Reach
<1>5. \A gs : IsClosed(gs, es, In, Out) <=> \A e \in es : e.src \in gs => e.dst \in gs
  BY DEF IsClosed
<1> HIDE DEF R, In, Out
<1>. QED
  BY <1>3, <1>4, <1>5, GrowthIsClosure

EdgesFinite == IsFiniteSet(edges) /\ IsFiniteSet(graph_edge)

Marked == pc = "marked" => alive = {TrackOf(g) : g \in {h \in TrackNodes : Lives(h)}}

LEMMA ShortsFinite == IsFiniteSet(Shorts)
<1> DEFINE Pairs(n) == {l \in (1 .. Segments[n]) \X (1 .. Segments[n]) :
                          l \in Joints[n] \/ <<l[2], l[1]>> \in Joints[n]}
           From(n) == {Edge(<<n, k[1]>>, <<n, k[2]>>, {}, 0) : k \in Pairs(n)}
<1>1. ASSUME NEW n \in Tracks PROVE IsFiniteSet(From(n))
  <2>1. Segments[n] \in Nat
    BY ImportAssumption DEF Tracks
  <2>2. IsFiniteSet((1 .. Segments[n]) \X (1 .. Segments[n]))
    <3> DEFINE I == 1 .. Segments[n]
    <3>1. IsFiniteSet(I)
      BY <2>1, FS_Interval
    <3> HIDE DEF I
    <3>2. IsFiniteSet(I \X I)
      BY <3>1, FS_Product
    <3>. QED
      BY <3>2 DEF I
  <2>3. IsFiniteSet(Pairs(n))
    BY <2>2, FS_Subset
  <2> DEFINE f == [k \in Pairs(n) |-> Edge(<<n, k[1]>>, <<n, k[2]>>, {}, 0)]
  <2>4. f \in Surjection(Pairs(n), From(n))
    BY DEF Surjection
  <2> HIDE DEF f, Pairs, From
  <2>. QED
    BY <2>3, <2>4, FS_Surjection
<1>2. IsFiniteSet(Tracks)
  BY ImportAssumption, FS_Subset DEF Tracks
<1> DEFINE g == [n \in Tracks |-> From(n)]
           All == {From(n) : n \in Tracks}
<1>3. g \in Surjection(Tracks, All)
  BY DEF Surjection
<1>4. IsFiniteSet(All)
  <2> HIDE DEF g, All
  <2>. QED
    BY <1>2, <1>3, FS_Surjection
<1>5. Shorts = UNION All
  BY DEF Shorts
<1>. QED
  BY <1>1, <1>4, <1>5, FS_UNION

LEMMA MarkedInit == Init => EdgesFinite /\ Marked
BY ShortsFinite, FS_EmptySet DEF Init, EdgesFinite, Marked

LEMMA MarkedStep == EdgesFinite /\ Marked /\ [Next]_vars => (EdgesFinite /\ Marked)'
<1> SUFFICES ASSUME EdgesFinite, Marked, [Next]_vars PROVE (EdgesFinite /\ Marked)'
  OBVIOUS
<1>1. ASSUME NEW c \in left, MakeConnection(c) PROVE (EdgesFinite /\ Marked)'
  <2>1. UNCHANGED graph_edge /\ pc' # "marked"
    BY <1>1 DEF MakeConnection
  <2>2. UNCHANGED edges \/ \E x, y : edges' = edges \union {x, y}
    <3>1. UNCHANGED edges \/ \E s, d, p : ConnectAt(s, d, p)
      BY <1>1 DEF MakeConnection
    <3>2. ASSUME NEW s, NEW d, NEW p, ConnectAt(s, d, p)
          PROVE  \E x, y : edges' = edges \union {x, y}
      <4>1. (\E x, y : edges' = edges \union {x, y}) \/ \E x : edges' = edges \union {x}
        BY <3>2 DEF ConnectAt
      <4>2. ASSUME NEW x, edges' = edges \union {x}
            PROVE  \E y, z : edges' = edges \union {y, z}
        <5>1. edges' = edges \union {x, x}
          BY <4>2
        <5>. QED
          BY <5>1
      <4>. QED
        BY <4>1, <4>2
    <3>. QED
      BY <3>1, <3>2
  <2>3. IsFiniteSet(edges')
    <3>1. CASE UNCHANGED edges
      BY <3>1 DEF EdgesFinite
    <3>2. ASSUME NEW x, NEW y, edges' = edges \union {x, y} PROVE IsFiniteSet(edges')
      <4>1. edges' = (edges \union {x}) \union {y}
        BY <3>2
      <4>. QED
        BY <4>1, FS_AddElement DEF EdgesFinite
    <3>. QED
      BY <2>2, <3>1, <3>2
  <2>. QED
    BY <2>1, <2>3 DEF EdgesFinite, Marked
<1>2. CASE EndTile
  <2>1. IsFiniteSet(graph_edge \union edges)
    BY FS_Union DEF EdgesFinite
  <2>2. IsFiniteSet(graph_edge') /\ IsFiniteSet(edges')
    BY <1>2, <2>1, FS_EmptySet DEF EndTile, Committed, EdgesFinite
  <2>3. pc' # "marked"
    BY <1>2 DEF EndTile
  <2>. QED
    BY <2>2, <2>3 DEF EdgesFinite, Marked
<1>3. CASE MarkTrackLiveness
  BY <1>3 DEF MarkTrackLiveness, EdgesFinite, Marked, TrackNodes, Lives, Neighbours, graph
<1>4. CASE UNCHANGED vars
  <2>1. UNCHANGED <<input_only, output_only, made, edges, graph_edge, alive, pc>>
    BY <1>4 DEF vars, graph
  <2>2. \A g : Lives(g)' <=> Lives(g)
    BY <2>1 DEF Lives, Neighbours
  <2>3. TrackNodes' = TrackNodes
    BY <2>1 DEF TrackNodes
  <2>4. {h \in TrackNodes : Lives(h)}' = {h \in TrackNodes : Lives(h)}
    BY <2>2, <2>3
  <2>. QED
    BY <2>1, <2>4 DEF EdgesFinite, Marked
<1>. QED
  BY <1>1, <1>2, <1>3, <1>4 DEF Next

(* A node that an edge leads to from f and another leads from to h lives,  *)
(* unless f and h are one.                                                 *)
LEMMA BetweenTwoLives ==
  ASSUME EdgesFinite, NEW d \in graph_edge, NEW e \in graph_edge,
         d.dst = e.src, d.src # e.dst
  PROVE  Lives(e.src)
<1> DEFINE g == e.src
           From == {f.src : f \in {r \in graph_edge : r.dst = g}}
           To == {f.dst : f \in {r \in graph_edge : r.src = g}}
<1>1. IsFiniteSet({r \in graph_edge : r.dst = g}) /\ IsFiniteSet({r \in graph_edge : r.src = g})
  BY FS_Subset DEF EdgesFinite
<1>2. IsFiniteSet(From)
  <2> DEFINE S == {r \in graph_edge : r.dst = g}
             m == [f \in S |-> f.src]
  <2>1. m \in Surjection(S, From)
    BY DEF Surjection
  <2> HIDE DEF m, From, S
  <2>. QED
    BY <1>1, <2>1, FS_Surjection DEF S
<1>3. IsFiniteSet(To)
  <2> DEFINE S == {r \in graph_edge : r.src = g}
             m == [f \in S |-> f.dst]
  <2>1. m \in Surjection(S, To)
    BY DEF Surjection
  <2> HIDE DEF m, To, S
  <2>. QED
    BY <1>1, <2>1, FS_Surjection DEF S
<1>4. Neighbours(g) = To \union From /\ d.src \in Neighbours(g) /\ e.dst \in Neighbours(g)
  BY DEF Neighbours
<1>5. IsFiniteSet(Neighbours(g))
  <2> HIDE DEF From, To
  <2>. QED
    BY <1>2, <1>3, <1>4, FS_Union
<1>6. Cardinality({d.src, e.dst}) = 2 /\ IsFiniteSet({d.src, e.dst})
  <2>1. {d.src, e.dst} = {d.src} \union {e.dst} /\ e.dst \notin {d.src}
    OBVIOUS
  <2>2. IsFiniteSet({d.src}) /\ Cardinality({d.src}) = 1
    BY FS_Singleton
  <2>. QED
    BY <2>1, <2>2, FS_AddElement
<1>7. Cardinality(Neighbours(g)) >= 2 /\ Cardinality(Neighbours(g)) \in Nat
  <2>1. {d.src, e.dst} \in SUBSET Neighbours(g)
    BY <1>4
  <2>. QED
    BY <1>5, <1>6, <2>1, FS_Subset, FS_CardinalityType
<1>. QED
  BY <1>7 DEF Lives

(* mark_track_liveness takes only tracks away that no route needs: those   *)
(* that nothing leads to or nothing leads from, and those that lead back   *)
(* to where they were reached from.  With the nodes that are reached by    *)
(* live ones, the dead ones beside them are all that is reached.           *)
THEOREM DeadEndsOnly == Spec => []DeadTracksCutNoRoute
<1>1. EdgesTyped /\ EdgesFinite /\ Marked => DeadTracksCutNoRoute
  <2> DEFINE live(g) == g \in Pins \X {0} \/ TrackOf(g) \in alive
             imported == {e \in graph_edge : live(e.src) /\ live(e.dst)}
  <2> SUFFICES ASSUME EdgesTyped, EdgesFinite, Marked, pc = "marked",
                      NEW o \in Pins, NEW i \in Pins,
                      <<i, 0>> \in Reach({<<o, 0>>}, graph_edge)
               PROVE  <<i, 0>> \in Reach({<<o, 0>>}, imported)
    BY DEF DeadTracksCutNoRoute
  <2> DEFINE reached == Reach({<<o, 0>>}, imported)
             dead == {e.dst : e \in {f \in graph_edge : f.src \in reached /\ ~live(f.dst)}}
  <2>1. IsFiniteSet(graph_edge) /\ IsFiniteSet(imported)
    BY FS_Subset DEF EdgesFinite
  <2>2. /\ <<o, 0>> \in reached
        /\ \A e \in imported : e.src \in reached => e.dst \in reached
        /\ \A gs : <<o, 0>> \in gs /\ (\A e \in imported : e.src \in gs => e.dst \in gs)
                  => reached \subseteq gs
    <3> HIDE DEF imported
    <3>. QED
      BY <2>1, ReachIsClosure
  <2>3. \A g \in reached : live(g)
    <3> DEFINE gs == {g \in reached : live(g)}
    <3>1. <<o, 0>> \in gs
      BY <2>2
    <3>2. \A e \in imported : e.src \in gs => e.dst \in gs
      BY <2>2
    <3>3. reached \subseteq gs
      <4> HIDE DEF gs, imported, reached
      <4>. QED
        BY <2>2, <3>1, <3>2
    <3>. QED
      BY <3>3
  <2>4. ASSUME NEW g \in GraphNodes, Lives(g) PROVE live(g)
    BY <2>4 DEF Marked, GraphNodes
  <2>5. ASSUME NEW e \in graph_edge, e.src \in reached \union dead
        PROVE  e.dst \in reached \union dead
    <3>1. e.src \in GraphNodes /\ e.dst \in GraphNodes
      BY DEF EdgesTyped
    <3>2. CASE e.src \in reached
      <4>1. CASE live(e.dst)
        BY <2>2, <2>3, <3>2, <4>1
      <4>2. CASE ~live(e.dst)
        BY <3>2, <4>2
      <4>. QED
        BY <4>1, <4>2
    <3>3. CASE e.src \in dead
      <4>1. PICK d \in graph_edge : d.src \in reached /\ ~live(d.dst) /\ d.dst = e.src
        BY <3>3
      <4>2. ~Lives(e.src)
        BY <2>4, <3>1, <4>1
      <4>3. d.src = e.dst
        BY <4>1, <4>2, BetweenTwoLives
      <4>. QED
        BY <4>1, <4>3
    <3>. QED
      BY <2>5, <3>2, <3>3
  <2>6. Reach({<<o, 0>>}, graph_edge) \subseteq reached \union dead
    <3>1. {<<o, 0>>} \subseteq reached \union dead
      BY <2>2
    <3>2. \A gs : {<<o, 0>>} \subseteq gs /\ (\A e \in graph_edge : e.src \in gs => e.dst \in gs)
                 => Reach({<<o, 0>>}, graph_edge) \subseteq gs
      BY <2>1, ReachIsClosure
    <3> HIDE DEF reached, dead
    <3>. QED
      BY <2>5, <3>1, <3>2
  <2>7. live(<<i, 0>>) /\ \A g \in dead : ~live(g)
    OBVIOUS
  <2>. QED
    BY <2>6, <2>7
<1>. QED
  BY <1>1, TypeInit, TypeStep, WireInit, WireStep, MarkedInit, MarkedStep, PTL DEF Spec
-----------------------------------------------------------------------------
allvars == <<vars, feedvars>>

(* A route starts at an output pin and ends at an input pin: no edge leads *)
(* on from the one or back from the other.                                 *)
PinsAreEnds ==
  \A e \in edges \union graph_edge :
    /\ e.src[2] = 0 => Kind[e.src[1]] = "opin"
    /\ e.dst[2] = 0 => Kind[e.dst[1]] = "ipin"

(* What the walk of pin n has passed.                                      *)
Behind(n) == ({PinNode(n)} \union visited) \ {at}

HasName(x) == x \in DOMAIN segment /\ segment[x] # "unknown"

(* From what was passed the walk is the only way on, and all is named.     *)
OnlyWayFrom(n) ==
  /\ at = PinNode(n) \/ at \in visited
  /\ at[2] = 0 \/ TrackOf(at) \in DOMAIN segment
  /\ \A g \in Behind(n) :
       /\ \A e \in NextEdges(g, Forward(n)) : End(e, Forward(n)) \in visited
       /\ IF g[2] = 0 THEN Forward(g[1]) = Forward(n) ELSE HasName(TrackOf(g))

Staged ==
  /\ stage = "edges" => pin = {} /\ cut = {}
  /\ stage # "edges" => pc = "marked" /\ DOMAIN segment = TrackIds
  /\ pin \subseteq Pins /\ todo \subseteq Pins
  /\ \A m, n \in pin : m = n

WalkInv == Staged /\ (\A n \in pin : OnlyWayFrom(n)) /\ FeedsAreTheOnlyWay

Imported == WireInv /\ EdgesTyped /\ RestTyped /\ PinsAreEnds
-----------------------------------------------------------------------------
(* The edges of a connection have pins only at the ends they are for.      *)
LEMMA ConnectionEnds ==
  ASSUME WiresTyped, NEW s \in Nodes, NEW d \in Nodes, NEW p,
         ConnectAt(s, d, p), Joins(s, d, p), NEW e \in edges', e \notin edges
  PROVE  /\ e.src[2] = 0 => Kind[e.src[1]] = "opin"
         /\ e.dst[2] = 0 => Kind[e.dst[1]] = "ipin"
<1> USE ImportAssumption
<1>1. ASSUME NEW n \in {s, d}, Kind[n] \in {"opin", "ipin"} PROVE WireNode(n)[2] # 0
  BY <1>1 DEF WireNode, WiresTyped, Pins
<1>2. ASSUME NEW n \in {s, d}, NEW k \in 1 .. Segments[n] PROVE k # 0
  BY <1>2
<1>3. CASE Kind[s] = "track" /\ Kind[d] = "track"
  BY <1>2, <1>3 DEF ConnectAt, Edge
<1>4. CASE Kind[s] = "opin" /\ Kind[d] = "track"
  BY <1>1, <1>2, <1>4 DEF ConnectAt, Edge
<1>5. CASE Kind[s] = "track" /\ Kind[d] = "ipin"
  BY <1>1, <1>2, <1>5 DEF ConnectAt, Edge
<1>6. CASE Kind[s] = "opin" /\ Kind[d] = "ipin"
  BY <1>6 DEF ConnectAt, Edge
<1>7. CASE Kind[s] = "ipin" /\ Kind[d] = "opin"
  BY <1>1, <1>7 DEF ConnectAt, Edge
<1>. QED
  BY <1>3, <1>4, <1>5, <1>6, <1>7 DEF ConnectAt

LEMMA PinsAreEndsInit == Init => PinsAreEnds
<1> SUFFICES ASSUME Init, NEW e \in Shorts PROVE e.src[2] # 0 /\ e.dst[2] # 0
  BY DEF Init, PinsAreEnds
<1>1. PICK n \in Tracks : \E k \in (1 .. Segments[n]) \X (1 .. Segments[n]) :
        e = Edge(<<n, k[1]>>, <<n, k[2]>>, {}, 0)
  BY DEF Shorts
<1>. QED
  BY <1>1 DEF Edge

LEMMA PinsAreEndsStep == WireInv /\ PinsAreEnds /\ [Next]_vars => PinsAreEnds'
<1> SUFFICES ASSUME WireInv, PinsAreEnds, [Next]_vars PROVE PinsAreEnds'
  OBVIOUS
<1>1. ASSUME NEW c \in left, MakeConnection(c) PROVE PinsAreEnds'
  <2> DEFINE p == c[2]
             s == IF c[1] THEN p.from ELSE p.to
             d == IF c[1] THEN p.to ELSE p.from
  <2>1. s \in Nodes /\ d \in Nodes
    BY <1>1, NextPip DEF WireInv
  <2>2. UNCHANGED graph_edge
    BY <1>1 DEF MakeConnection
  <2>3. UNCHANGED edges \/ (ConnectAt(s, d, p) /\ Joins(s, d, p))
    BY <1>1 DEF MakeConnection
  <2>4. ASSUME NEW e \in edges', e \notin edges
        PROVE  (e.src[2] = 0 => Kind[e.src[1]] = "opin") /\ (e.dst[2] = 0 => Kind[e.dst[1]] = "ipin")
    <3> HIDE DEF s, d, p
    <3>. QED
      BY <2>1, <2>3, <2>4, ConnectionEnds DEF WireInv
  <2>. QED
    BY <2>2, <2>4 DEF PinsAreEnds
<1>2. CASE EndTile \/ MarkTrackLiveness \/ UNCHANGED vars
  BY <1>2, OtherStepsAddNoEdge DEF PinsAreEnds
<1>. QED
  BY <1>1, <1>2 DEF Next

(* The steps after the edges change nothing of the import: it goes on as   *)
(* it does alone.                                                          *)
THEOREM ImportIsKept == FeedsSpec => Spec
<1>1. FeedsInit => Init
  BY DEF FeedsInit
<1>2. [FeedsNext]_allvars => [Next]_vars
  BY DEF FeedsNext, Import, SetTrackCanonicalLoc, StartWalk, Walk, EndFeeds, allvars
<1>. QED
  BY <1>1, <1>2, PTL DEF FeedsSpec, Spec, allvars

LEMMA ImportedInvariant == FeedsSpec => []Imported
<1>1. Spec => []Imported
  BY WireInit, WireStep, TypeInit, TypeStep, PinsAreEndsInit, PinsAreEndsStep, PTL
    DEF Spec, Imported
<1>. QED
  BY <1>1, ImportIsKept, PTL
-----------------------------------------------------------------------------
LEMMA WalkInit == FeedsInit => WalkInv
BY DEF FeedsInit, WalkInv, Staged, FeedsAreTheOnlyWay

(* The edges to choose from are edges of the graph, so they end at graph   *)
(* nodes, and the pins they start from look the way the walk goes.         *)
LEMMA NextEdgeShape ==
  ASSUME EdgesTyped, PinsAreEnds, NEW n, NEW g, NEW e \in NextEdges(g, Forward(n))
  PROVE  /\ End(e, Forward(n)) \in GraphNodes
         /\ g[2] = 0 => Forward(g[1]) = Forward(n)
<1>1. CASE Forward(n)
  <2>1. e \in graph_edge /\ e.src = g
    BY <1>1 DEF NextEdges
  <2>. QED
    BY <1>1, <2>1 DEF End, EdgesTyped, PinsAreEnds, Forward
<1>2. CASE ~Forward(n)
  <2>1. e \in graph_edge /\ e.dst = g
    BY <1>2 DEF NextEdges
  <2>. QED
    BY <1>2, <2>1 DEF End, EdgesTyped, PinsAreEnds, Forward
<1>. QED
  BY <1>1, <1>2

(* A graph node that is not a pin is on a track.                           *)
LEMMA GraphNodeTrack ==
  ASSUME NEW g \in GraphNodes, g[2] # 0
  PROVE  TrackOf(g) \in TrackIds
<1>1. CASE g \in UNION {{<<m, k>> : k \in 1 .. Segments[m]} : m \in Tracks}
  <2>1. PICK S \in {{<<m, k>> : k \in 1 .. Segments[m]} : m \in Tracks} : g \in S
    BY <1>1
  <2>2. PICK m \in Tracks : S = {<<m, k>> : k \in 1 .. Segments[m]}
    BY <2>1
  <2>. QED
    BY <2>1, <2>2 DEF TrackOf, TrackIds, Tracks
<1>2. CASE g \in UNION {{<<m, k>> : k \in 1 .. made[m]} : m \in Pins}
  <2>1. PICK S \in {{<<m, k>> : k \in 1 .. made[m]} : m \in Pins} : g \in S
    BY <1>2
  <2>2. PICK m \in Pins : S = {<<m, k>> : k \in 1 .. made[m]}
    BY <2>1
  <2>3. g[1] = m /\ Kind[m] # "track"
    BY <2>1, <2>2 DEF Pins
  <2>. QED
    BY <1>2, <2>3 DEF TrackOf, TrackIds
<1>3. CASE g \in Pins \X {0}
  BY <1>3
<1>. QED
  BY <1>1, <1>2, <1>3 DEF GraphNodes, TrackNodes

(* The edge followed is the only one that leads to a node not yet visited. *)
LEMMA FollowedIsTheOnlyWay ==
  ASSUME NEW n, NEW f \in Followed(n)
  PROVE  /\ f \in NextEdges(at, Forward(n))
         /\ \A e \in NextEdges(at, Forward(n)) : e = f \/ End(e, Forward(n)) \in visited
<1> DEFINE next == NextEdges(at, Forward(n))
           back(e) == End(e, Forward(n)) \in visited /\ TrackOf(at) = TrackOf(End(e, Forward(n)))
           others == {e \in next : ~back(e)}
<1>1. \/ One(next) /\ f \in next
      \/ One(others) /\ f \in others
  BY DEF Followed
<1>2. CASE One(next) /\ f \in next
  BY <1>2 DEF One
<1>3. CASE One(others) /\ f \in others
  <2>1. \A e \in others : e = f
    BY <1>3 DEF One
  <2>. QED
    BY <1>3, <2>1
<1>. QED
  BY <1>1, <1>2, <1>3

(* What a walk has passed is a cut of the graph at the track it names.     *)
LEMMA NamedTrackIsTheOnlyWay ==
  ASSUME NEW n \in pin, OnlyWayFrom(n), at[2] # 0, segment[TrackOf(at)] = "unknown"
  PROVE  /\ PinNode(n) \in Behind(n)
         /\ \A g \in Behind(n) :
              /\ IF g[2] = 0 THEN Forward(g[1]) = Forward(n) ELSE TrackOf(g) # TrackOf(at)
              /\ \A e \in NextEdges(g, Forward(n)) :
                   \/ End(e, Forward(n)) \in Behind(n)
                   \/ TrackOf(End(e, Forward(n))) = TrackOf(at)
<1>1. PinNode(n) # at
  BY DEF PinNode
<1>. QED
  BY <1>1 DEF OnlyWayFrom, Behind, HasName

(* The walk keeps what is known of the nodes it passed, with the one it    *)
(* leaves among them.                                                      *)
LEMMA WalkOn ==
  ASSUME Imported, Staged, stage = "feeds", NEW n \in pin, OnlyWayFrom(n),
         segment' = [x \in DOMAIN segment |-> IF x \in Unnamed THEN Feed[n] ELSE segment[x]],
         NEW f \in Followed(n), at' = End(f, Forward(n)), visited' = visited \union {at'},
         UNCHANGED vars
  PROVE  OnlyWayFrom(n)'
<1> USE FeedAssumption
<1>1. /\ f \in NextEdges(at, Forward(n))
      /\ \A e \in NextEdges(at, Forward(n)) : e = f \/ End(e, Forward(n)) \in visited
  BY FollowedIsTheOnlyWay
<1>2. at' \in GraphNodes /\ (at[2] = 0 => Forward(at[1]) = Forward(n))
  BY <1>1, NextEdgeShape DEF Imported
<1>3. UNCHANGED <<graph_edge, made, pc>>
  BY DEF vars
<1>4. DOMAIN segment' = TrackIds /\ DOMAIN segment = TrackIds
  BY DEF Staged
<1>5. at'[2] = 0 \/ TrackOf(at') \in DOMAIN segment'
  BY <1>2, <1>4, GraphNodeTrack
<1>6. \A x : HasName(x) => HasName(x)'
  BY DEF HasName, Unnamed
<1>7. \A x : x = TrackOf(at) /\ at[2] # 0 => HasName(x)'
  BY DEF OnlyWayFrom, Unnamed, HasName, Staged
<1>8. ASSUME NEW g \in Behind(n)'
      PROVE  /\ \A e \in NextEdges(g, Forward(n)) : End(e, Forward(n)) \in visited'
             /\ IF g[2] = 0 THEN Forward(g[1]) = Forward(n) ELSE HasName(TrackOf(g))'
  <2>1. CASE g = at
    <3>1. g[2] # 0 => HasName(TrackOf(g))'
      BY <1>7, <2>1
    <3>. QED
      BY <1>1, <1>2, <2>1, <3>1
  <2>2. CASE g # at
    <3>1. g \in Behind(n)
      BY <2>2 DEF Behind
    <3>. QED
      BY <1>6, <3>1 DEF OnlyWayFrom
  <2>. QED
    BY <2>1, <2>2
<1>9. \A g : NextEdges(g, Forward(n))' = NextEdges(g, Forward(n))
  BY <1>3 DEF NextEdges
<1>. QED
  BY <1>5, <1>8, <1>9 DEF OnlyWayFrom

LEMMA CutKept ==
  ASSUME FeedsAreTheOnlyWay, UNCHANGED graph_edge, UNCHANGED cut
  PROVE  FeedsAreTheOnlyWay'
BY DEF FeedsAreTheOnlyWay, NextEdges

(* A step of the walk adds the cut of the track it names, if any.          *)
LEMMA WalkCuts ==
  ASSUME Staged, FeedsAreTheOnlyWay, NEW n \in pin, OnlyWayFrom(n), Walk(n)
  PROVE  FeedsAreTheOnlyWay'
<1>1. UNCHANGED graph_edge
  BY DEF Walk, vars
<1>2. \A g : NextEdges(g, Forward(n))' = NextEdges(g, Forward(n))
  BY <1>1 DEF NextEdges
<1>3. cut' = cut \union {[track |-> x, pin |-> n, nodes |-> Behind(n)] : x \in Unnamed}
  BY DEF Walk, Behind
<1> DEFINE OnlyWay(k) ==
      /\ PinNode(k.pin) \in k.nodes
      /\ \A g \in k.nodes :
           /\ IF g[2] = 0 THEN Forward(g[1]) = Forward(k.pin) ELSE TrackOf(g) # k.track
           /\ \A e \in NextEdges(g, Forward(k.pin)) :
                End(e, Forward(k.pin)) \in k.nodes \/ TrackOf(End(e, Forward(k.pin))) = k.track
<1>4. ASSUME NEW x \in Unnamed
      PROVE  OnlyWay([track |-> x, pin |-> n, nodes |-> Behind(n)])
  <2>1. x = TrackOf(at) /\ at[2] # 0 /\ segment[TrackOf(at)] = "unknown"
    BY DEF Unnamed
  <2>. QED
    BY <2>1, NamedTrackIsTheOnlyWay
<1>5. \A k \in cut' : OnlyWay(k)
  BY <1>3, <1>4 DEF FeedsAreTheOnlyWay
<1>. QED
  BY <1>1, <1>5 DEF FeedsAreTheOnlyWay, NextEdges

LEMMA WalkStep == Imported /\ WalkInv /\ [FeedsNext]_allvars => WalkInv'
<1> SUFFICES ASSUME Imported, WalkInv, [FeedsNext]_allvars PROVE WalkInv'
  OBVIOUS
<1>1. CASE Import
  <2>1. stage = "edges"
    BY <1>1 DEF Import, Next, MakeConnection, EndTile, MarkTrackLiveness, WalkInv, Staged
  <2>. QED
    BY <1>1, <2>1 DEF Import, feedvars, WalkInv, Staged, FeedsAreTheOnlyWay
<1>2. CASE SetTrackCanonicalLoc
  <2>1. DOMAIN segment' = TrackIds /\ UNCHANGED <<made, graph_edge, pc, pin, cut>>
    BY <1>2 DEF SetTrackCanonicalLoc, vars
  <2>2. pin = {} /\ cut = {} /\ pc = "marked" /\ stage' = "feeds" /\ todo' \subseteq Pins
    BY <1>2 DEF SetTrackCanonicalLoc, WalkInv, Staged
  <2>. QED
    BY <2>1, <2>2 DEF WalkInv, Staged, TrackIds, FeedsAreTheOnlyWay
<1>3. ASSUME NEW n \in todo, StartWalk(n) PROVE WalkInv'
  <2>1. UNCHANGED <<made, graph_edge, pc, stage, segment, cut>>
    BY <1>3 DEF StartWalk, vars
  <2>2. pin' = {n} /\ todo' \subseteq todo /\ n \in Pins
    BY <1>3 DEF StartWalk, WalkInv, Staged
  <2>3. Staged'
    BY <1>3, <2>1, <2>2 DEF StartWalk, WalkInv, Staged, TrackIds
  <2>4. at' = PinNode(n) /\ visited' = {}
    BY <1>3 DEF StartWalk
  <2>5. OnlyWayFrom(n)'
    BY <2>4 DEF OnlyWayFrom, Behind, PinNode
  <2>. QED
    BY <2>1, <2>2, <2>3, <2>5, CutKept DEF WalkInv
<1>4. ASSUME NEW n \in pin, Walk(n) PROVE WalkInv'
  <2>1. UNCHANGED <<vars, todo>> /\ DOMAIN segment' = DOMAIN segment /\ stage = "feeds"
    BY <1>4 DEF Walk
  <2>2. UNCHANGED <<made, pc>> /\ stage # "edges" /\ stage' # "edges" /\ (pin' = pin \/ pin' = {})
    BY <1>4, <2>1 DEF Walk, SetPinConnection, vars
  <2>3. Staged'
    BY <2>1, <2>2 DEF WalkInv, Staged, TrackIds
  <2>4. FeedsAreTheOnlyWay'
    BY <1>4, WalkCuts DEF WalkInv
  <2>5. CASE pin' = {}
    BY <2>3, <2>4, <2>5 DEF WalkInv
  <2>6. CASE pin' = pin
    <3>1. PICK f \in Followed(n) : at' = End(f, Forward(n)) /\ visited' = visited \union {at'}
      BY <1>4, <2>6 DEF Walk, Passed
    <3>2. segment' = [x \in DOMAIN segment |-> IF x \in Unnamed THEN Feed[n] ELSE segment[x]]
      BY <1>4 DEF Walk
    <3>3. OnlyWayFrom(n)'
      BY <2>1, <3>1, <3>2, WalkOn DEF WalkInv
    <3>4. \A m \in pin' : m = n
      BY <2>6 DEF WalkInv, Staged
    <3>. QED
      BY <2>3, <2>4, <3>3, <3>4 DEF WalkInv
  <2>. QED
    BY <2>2, <2>5, <2>6
<1>5. CASE EndFeeds
  BY <1>5 DEF EndFeeds, vars, WalkInv, Staged, TrackIds, FeedsAreTheOnlyWay, NextEdges
<1>6. CASE UNCHANGED allvars
  <2>1. UNCHANGED <<made, graph_edge, pc, stage, segment, cut, pin, todo, at, visited>>
    BY <1>6 DEF allvars, vars, feedvars
  <2>2. Staged'
    BY <2>1 DEF WalkInv, Staged, TrackIds
  <2>3. \A n \in pin : OnlyWayFrom(n)'
    BY <2>1 DEF WalkInv, OnlyWayFrom, Behind, HasName, NextEdges
  <2>. QED
    BY <2>1, <2>2, <2>3, CutKept DEF WalkInv
<1>. QED
  BY <1>1, <1>2, <1>3, <1>4, <1>5, <1>6 DEF FeedsNext

(* A track named INPINFEED, OUTPINFEED or one of their kin is the only way *)
(* into or out of its pin, in any device.                                  *)
THEOREM FeedsAreCuts == FeedsSpec => []FeedsAreTheOnlyWay
<1>1. FeedsSpec => []WalkInv
  BY WalkInit, WalkStep, ImportedInvariant, PTL DEF FeedsSpec, allvars
<1>2. WalkInv => FeedsAreTheOnlyWay
  BY DEF WalkInv
<1>. QED
  BY <1>1, <1>2, PTL
-----------------------------------------------------------------------------
(* Output pin n has one way out, to a track.                               *)
OnlyTrack(n, e) ==
  n \in Pins /\ Forward(n) /\ NextEdges(PinNode(n), TRUE) = {e} /\ e.dst[2] # 0

(* Until output pin n was walked from, its track has no input feed's       *)
(* segment because no input pin was walked from; from then on it has a     *)
(* segment that no walk replaces.                                          *)
OutputsFirst ==
  /\ \A m \in pin : ~Forward(m) => \A k \in todo : ~Forward(k)
  /\ \A n \in pin : Forward(n) /\ at = PinNode(n) => visited = {}
  /\ \A n, e : OnlyTrack(n, e) =>
       /\ \A m \in Pins : segment[TrackOf(e.dst)] = Feed[m] => Forward(m)
       /\ \/ segment[TrackOf(e.dst)] # "unknown"
          \/ n \in todo
          \/ n \in pin /\ at \in {PinNode(n), e.dst}

OutputsInv == stage \in {"feeds", "done"} => OutputsFirst

LEMMA OnlyTrackIsATrack ==
  ASSUME Imported, NEW n, NEW e, OnlyTrack(n, e)
  PROVE  e \in graph_edge /\ e.src = PinNode(n) /\ TrackOf(e.dst) \in TrackIds
<1>1. e \in graph_edge /\ e.src = PinNode(n)
  BY DEF OnlyTrack, NextEdges
<1>2. e.dst \in GraphNodes
  BY <1>1 DEF Imported, EdgesTyped
<1>. QED
  BY <1>1, <1>2, GraphNodeTrack DEF OnlyTrack

(* A walk names the track of its own output pin at its second node, and    *)
(* what an output pin names is an output feed.                             *)
LEMMA OutputsWalk ==
  ASSUME Imported, Staged, OutputsInv, NEW k \in pin, Walk(k), stage' = "feeds"
  PROVE  OutputsFirst'
<1> USE FeedAssumption
<1>1. /\ stage = "feeds" /\ k \in Pins /\ UNCHANGED <<vars, todo>> /\ UNCHANGED graph_edge
      /\ OutputsFirst /\ DOMAIN segment = TrackIds /\ pin = {k}
  BY DEF Walk, Staged, OutputsInv, vars
<1>2. segment' = [x \in TrackIds |-> IF x \in Unnamed THEN Feed[k] ELSE segment[x]]
  BY <1>1 DEF Walk
<1>3. \/ pin' = {}
      \/ /\ pin' = {k}
         /\ \E f \in Followed(k) : at' = End(f, Forward(k)) /\ End(f, Forward(k)) \notin visited
  BY <1>1 DEF Walk
<1>4. \A f \in Followed(k) : f \in NextEdges(at, Forward(k))
  BY FollowedIsTheOnlyWay
<1>5. ASSUME Forward(k), pin' = {k} PROVE at' # PinNode(k)
  <2>1. PICK f \in NextEdges(at, Forward(k)) : at' = End(f, Forward(k))
    BY <1>3, <1>4, <1>5
  <2>2. f \in graph_edge /\ at' = f.dst
    BY <1>5, <2>1 DEF NextEdges, End
  <2>3. at'[2] = 0 => Kind[at'[1]] = "ipin"
    BY <2>2 DEF Imported, PinsAreEnds
  <2>. QED
    BY <1>5, <2>3 DEF PinNode, Forward
<1>6. ASSUME NEW n, NEW e, OnlyTrack(n, e)'
      PROVE  /\ \A m \in Pins : segment'[TrackOf(e.dst)] = Feed[m] => Forward(m)
             /\ \/ segment'[TrackOf(e.dst)] # "unknown"
                \/ n \in todo'
                \/ n \in pin' /\ at' \in {PinNode(n), e.dst}
  <2> DEFINE x == TrackOf(e.dst)
  <2>1. OnlyTrack(n, e)
    BY <1>1, <1>6 DEF OnlyTrack, NextEdges
  <2>2. e \in graph_edge /\ e.src = PinNode(n) /\ x \in TrackIds
    BY <2>1, OnlyTrackIsATrack
  <2>3. /\ \A m \in Pins : segment[x] = Feed[m] => Forward(m)
        /\ segment[x] # "unknown" \/ n \in todo \/ (n \in pin /\ at \in {PinNode(n), e.dst})
    BY <1>1, <2>1 DEF OutputsFirst
  <2>4. segment'[x] = IF x \in Unnamed THEN Feed[k] ELSE segment[x]
    BY <1>2, <2>2
  <2>5. Unnamed \subseteq {TrackOf(at)} /\ (x \in Unnamed => at[2] # 0 /\ segment[x] = "unknown")
    BY DEF Unnamed
  <2> HIDE DEF x
  <2>6. CASE segment[x] # "unknown"
    BY <2>3, <2>4, <2>5, <2>6 DEF x
  <2>7. CASE segment[x] = "unknown" /\ n \in todo
    <3>1. Forward(k)
      BY <1>1, <2>1, <2>7 DEF OutputsFirst, OnlyTrack
    <3>2. \A m \in Pins : Feed[k] = Feed[m] => Forward(m)
      BY <1>1, <3>1 DEF Forward
    <3>. QED
      BY <1>1, <2>3, <2>4, <2>7, <3>2 DEF x
  <2>8. CASE segment[x] = "unknown" /\ n \in pin /\ at = e.dst
    <3>1. k = n /\ Forward(k) /\ x \in Unnamed
      BY <1>1, <2>1, <2>8 DEF OnlyTrack, Unnamed, x
    <3>2. segment'[x] = Feed[k]
      BY <2>4, <3>1
    <3>. QED
      BY <1>1, <3>1, <3>2 DEF Forward, x
  <2>9. CASE segment[x] = "unknown" /\ n \in pin /\ at = PinNode(n)
    <3>1. k = n /\ Forward(k) /\ visited = {}
      BY <1>1, <2>1, <2>9 DEF OnlyTrack, OutputsFirst
    <3>2. NextEdges(at, Forward(k)) = {e}
      BY <2>1, <2>9, <3>1 DEF OnlyTrack
    <3>3. Followed(k) = {e}
      BY <3>2 DEF Followed, One
    <3>4. pin' = {k} /\ at' = e.dst
      <4>1. {g \in {End(f, Forward(k)) : f \in Followed(k)} : g \notin visited} = {e.dst}
        BY <3>1, <3>3 DEF End
      <4>. QED
        BY <1>1, <4>1 DEF Walk
    <3>5. x \notin Unnamed
      BY <2>9 DEF Unnamed, PinNode
    <3>. QED
      BY <2>3, <2>4, <3>1, <3>4, <3>5 DEF x
  <2>. QED
    BY <2>3, <2>6, <2>7, <2>8, <2>9
<1>7. \A m \in pin' : ~Forward(m) => \A i \in todo' : ~Forward(i)
  BY <1>1, <1>3 DEF OutputsFirst
<1>8. \A n \in pin' : Forward(n) /\ at' = PinNode(n) => visited' = {}
  BY <1>3, <1>5
<1>. QED
  BY <1>6, <1>7, <1>8 DEF OutputsFirst

LEMMA OutputsStep == Imported /\ WalkInv /\ OutputsInv /\ [FeedsNext]_allvars => OutputsInv'
<1> SUFFICES ASSUME Imported, Staged, OutputsInv, [FeedsNext]_allvars, stage' \in {"feeds", "done"}
             PROVE  OutputsFirst'
  BY DEF OutputsInv, WalkInv
<1>1. CASE Import
  BY <1>1 DEF Import, feedvars, Next, MakeConnection, EndTile, MarkTrackLiveness, Staged
<1>2. CASE SetTrackCanonicalLoc
  <2>1. /\ pin' = {} /\ UNCHANGED <<graph_edge, made>> /\ todo' = {n \in Pins : Active(n)}
        /\ \A x \in TrackIds : segment'[x] \in {"named", "unknown"}
    BY <1>2 DEF SetTrackCanonicalLoc, Staged, vars
  <2>2. ASSUME NEW n, NEW e, OnlyTrack(n, e)'
        PROVE  n \in todo' /\ \A m \in Pins : segment'[TrackOf(e.dst)] # Feed[m]
    <3>1. OnlyTrack(n, e)
      BY <2>1, <2>2 DEF OnlyTrack, NextEdges
    <3>2. e \in graph_edge /\ e.src = PinNode(n) /\ TrackOf(e.dst) \in TrackIds
      BY <3>1, OnlyTrackIsATrack
    <3>3. Active(n)
      BY <3>1, <3>2 DEF Active, OnlyTrack
    <3>. QED
      BY <2>1, <3>1, <3>2, <3>3, FeedAssumption DEF OnlyTrack
  <2>. QED
    BY <2>1, <2>2 DEF OutputsFirst
<1>3. ASSUME NEW k \in todo, StartWalk(k) PROVE OutputsFirst'
  <2>1. /\ OutputsFirst /\ UNCHANGED <<graph_edge, segment>> /\ pin = {}
        /\ pin' = {k} /\ todo' = todo \ {k} /\ at' = PinNode(k) /\ visited' = {}
    BY <1>3 DEF StartWalk, OutputsInv, vars
  <2>2. \A m \in pin' : ~Forward(m) => \A i \in todo' : ~Forward(i)
    BY <1>3, <2>1 DEF StartWalk, IsFirst
  <2>3. \A n, e : OnlyTrack(n, e)' <=> OnlyTrack(n, e)
    BY <2>1 DEF OnlyTrack, NextEdges
  <2>. QED
    BY <2>1, <2>2, <2>3 DEF OutputsFirst
<1>4. ASSUME NEW k \in pin, Walk(k) PROVE OutputsFirst'
  <2>1. stage' = "feeds"
    BY <1>4 DEF Walk, SetPinConnection
  <2>. QED
    BY <1>4, <2>1, OutputsWalk
<1>5. CASE EndFeeds
  BY <1>5 DEF EndFeeds, vars, OutputsInv, OutputsFirst, OnlyTrack, NextEdges
<1>6. CASE UNCHANGED allvars
  BY <1>6 DEF allvars, vars, feedvars, OutputsInv, OutputsFirst, OnlyTrack, NextEdges
<1>. QED
  BY <1>1, <1>2, <1>3, <1>4, <1>5, <1>6 DEF FeedsNext

(* A track that is the only way out of an output pin never gets the        *)
(* segment of an input feed, in any device and whatever order the pins of  *)
(* each kind are taken in.                                                 *)
THEOREM OutputsComeFirst == FeedsSpec => []OutputsNameTheirTracks
<1>1. FeedsInit => OutputsInv
  BY DEF FeedsInit, OutputsInv
<1>2. FeedsSpec => [](WalkInv /\ Imported)
  BY WalkInit, WalkStep, ImportedInvariant, PTL DEF FeedsSpec, allvars
<1>3. OutputsInv => OutputsNameTheirTracks
  <2> SUFFICES ASSUME OutputsInv, NEW n \in Pins, Forward(n), NEW e \in NextEdges(PinNode(n), TRUE),
                      stage \in {"feeds", "done"}, One(NextEdges(PinNode(n), TRUE)), e.dst[2] # 0,
                      NEW m \in Pins, segment[TrackOf(e.dst)] = Feed[m]
               PROVE  Forward(m)
    BY DEF OutputsNameTheirTracks
  <2>1. OnlyTrack(n, e)
    BY DEF OnlyTrack, One
  <2>. QED
    BY <2>1 DEF OutputsInv, OutputsFirst
<1>. QED
  BY <1>1, <1>2, <1>3, OutputsStep, PTL DEF FeedsSpec, allvars
=============================================================================
