------------------------- MODULE DeviceImportProofs -------------------------
(***************************************************************************)
(* What holds of the connection database for any tile types, any finite    *)
(* device and any number of failures.  The nodes that import_nodes makes   *)
(* are the sets of wires that the connections of the device join, in       *)
(* whatever order it goes through them, in every table that is committed   *)
(* or flushed.  And what the build takes for made is the whole device:     *)
(* TargetsInv says, stage by stage, what the tables in memory hold, loop   *)
(* by loop, until they hold all of it when they are flushed.               *)
(***************************************************************************)
EXTENDS DeviceImport, Reachability, SequenceTheorems

(* No connection of E leads out of S.                                      *)
ClosedFor(S, E) == \A c \in E : Range(c) \intersect S # {} => Range(c) \subseteq S

NodeIn(ws, w) == IF ws[w] = {} THEN {w} ELSE ws[w]

(* The wires ws when the connections left are still to be gone through:    *)
(* the nodes are a partition, which joins the wires of every connection    *)
(* that was and none that the connections of the device do not.            *)
Partition(E, left_, ws) ==
  /\ left_ \subseteq E
  /\ \A w \in DOMAIN ws :
       /\ w \in NodeIn(ws, w) /\ NodeIn(ws, w) \subseteq DOMAIN ws
       /\ NodeIn(ws, w) \subseteq Joined(E, w)
       /\ \A v \in NodeIn(ws, w) : NodeIn(ws, v) = NodeIn(ws, w)
  /\ \A c \in E \ left_ : Range(c) \subseteq DOMAIN ws /\ c[2] \in NodeIn(ws, c[1])

(* Merged, for the wires ws.                                               *)
MergedIn(ws, c) ==
  LET both == NodeIn(ws, c[1]) \union NodeIn(ws, c[2])
  IN  [w \in DOMAIN ws |-> IF w \in both THEN both ELSE ws[w]]

(* Tables without nodes, or with those of the device.                      *)
Good(d, tables) ==
  /\ "node" \in DOMAIN tables
  /\ \A w \in DOMAIN tables.node : tables.node[w] = Joined(d.connections, w)

GoodTables ==
  /\ device \in Devices
  /\ Good(device, memory) /\ Good(device, committed)
  /\ DOMAIN file = {"form_channels", "create_edges"}
  /\ \A f \in DOMAIN file : Good(device, file[f])

Merging == Runs("form_channels", "connect") => Partition(device.connections, left, wires)

NodesInv == GoodTables /\ Merging
-----------------------------------------------------------------------------
(* Joined is the least set with the wire that no connection leads out of.  *)
LEMMA JoinedIsClosure ==
  ASSUME NEW x, NEW E, IsFiniteSet(E)
  PROVE  /\ x \in Joined(E, x)
         /\ ClosedFor(Joined(E, x), E)
         /\ \A S : x \in S /\ ClosedFor(S, E) => Joined(E, x) \subseteq S
<1> DEFINE N == Cardinality(E)
           Step(gs) == gs \union UNION {Range(c) : c \in {d \in E : Range(d) \intersect gs # {}}}
           At == [c \in E |-> Range(c)]
           R == CHOOSE r : r = [k \in 0 .. N |-> IF k = 0 THEN {x} ELSE Step(r[k - 1])]
<1>1. \A gs : Grown(gs, E, At, At) = Step(gs)
  BY DEF Grown
<1>2. N \in Nat
  BY FS_CardinalityType
<1>3. Grows(R, N, {x}, E, At, At)
  <2>1. PICK r : Grows(r, N, {x}, E, At, At)
    <3> HIDE DEF At, N
    <3>. QED
      BY <1>2, GrowthExists
  <2> HIDE DEF At, N
  <2> HIDE DEF Step, R
  <2>2. r = [k \in 0 .. N |-> IF k = 0 THEN {x} ELSE Step(r[k - 1])]
    BY <1>1, <2>1 DEF Grows
  <2> USE DEF R
  <2>3. R = [k \in 0 .. N |-> IF k = 0 THEN {x} ELSE Step(R[k - 1])]
    BY <2>2
  <2> HIDE DEF R
  <2>. QED
    BY <1>1, <2>3 DEF Grows, Step
<1>4. Joined(E, x) = R[N]
  BY DEF Joined
<1>5. \A gs : IsClosed(gs, E, At, At) <=> ClosedFor(gs, E)
  BY DEF IsClosed, ClosedFor
<1> HIDE DEF R, At
<1>6. /\ {x} \subseteq R[N]
      /\ IsClosed(R[N], E, At, At)
      /\ \A C : {x} \subseteq C /\ IsClosed(C, E, At, At) => R[N] \subseteq C
  BY <1>3, GrowthIsClosure
<1> HIDE DEF N
<1>. QED
  BY <1>4, <1>5, <1>6

(* Wires of one component have the same.                                   *)
LEMMA JoinedIsShared ==
  ASSUME NEW E, IsFiniteSet(E), NEW w, NEW v \in Joined(E, w)
  PROVE  Joined(E, v) = Joined(E, w)
<1>1. Joined(E, v) \subseteq Joined(E, w)
  BY JoinedIsClosure
<1>2. w \in Joined(E, v)
  <2> SUFFICES ASSUME w \notin Joined(E, v) PROVE FALSE
    OBVIOUS
  <2> DEFINE S == Joined(E, w) \ Joined(E, v)
  <2>1. w \in S
    BY JoinedIsClosure
  <2>2. ClosedFor(S, E)
    <3> SUFFICES ASSUME NEW c \in E, NEW u \in Range(c) \intersect S PROVE Range(c) \subseteq S
      BY DEF ClosedFor
    <3>1. Range(c) \subseteq Joined(E, w)
      BY JoinedIsClosure DEF ClosedFor
    <3>2. Range(c) \intersect Joined(E, v) = {}
      BY JoinedIsClosure DEF ClosedFor
    <3>. QED
      BY <3>1, <3>2
  <2>3. v \in S
    BY <2>1, <2>2, JoinedIsClosure
  <2>. QED
    BY <2>3, JoinedIsClosure
<1>3. Joined(E, w) \subseteq Joined(E, v)
  BY <1>2, JoinedIsClosure
<1>. QED
  BY <1>1, <1>3

LEMMA PairRange ==
  ASSUME NEW c, DOMAIN c = {1, 2}
  PROVE  Range(c) = {c[1], c[2]}
BY DEF Range

(* Connecting the wires of a connection keeps the partition.               *)
LEMMA MergeKeepsPartition ==
  ASSUME NEW E, IsFiniteSet(E), NEW left_, NEW ws, Partition(E, left_, ws),
         \A b \in E : DOMAIN b = {1, 2}, NEW c \in left_, Range(c) \subseteq DOMAIN ws
  PROVE  Partition(E, left_ \ {c}, MergedIn(ws, c))
<1>1. PICK both : both = NodeIn(ws, c[1]) \union NodeIn(ws, c[2])
  OBVIOUS
<1>2. PICK wt : wt = [w \in DOMAIN ws |-> IF w \in both THEN both ELSE ws[w]]
  OBVIOUS
<1>3. DOMAIN c = {1, 2}
  BY DEF Partition
<1>4. c[1] \in DOMAIN ws /\ c[2] \in DOMAIN ws
  BY <1>3, PairRange
<1>5. /\ c[1] \in NodeIn(ws, c[1]) /\ c[2] \in NodeIn(ws, c[2])
      /\ both \subseteq DOMAIN ws /\ both # {} /\ left_ \subseteq E
  BY <1>1, <1>4 DEF Partition
<1>6. ASSUME NEW w \in DOMAIN ws
      PROVE  NodeIn(wt, w) = IF w \in both THEN both ELSE NodeIn(ws, w)
  BY <1>2, <1>5 DEF NodeIn
<1>7. Joined(E, c[1]) = Joined(E, c[2])
  <2>1. c[1] \in Joined(E, c[1])
    BY JoinedIsClosure
  <2>2. Range(c) \subseteq Joined(E, c[1])
    <3>1. ClosedFor(Joined(E, c[1]), E)
      BY JoinedIsClosure
    <3>. QED
      BY <1>3, <1>5, <2>1, <3>1, PairRange DEF ClosedFor
  <2>. QED
    BY <1>3, <2>2, PairRange, JoinedIsShared
<1>8. ASSUME NEW w \in both PROVE Joined(E, w) = Joined(E, c[1])
  <2>1. NodeIn(ws, c[1]) \subseteq Joined(E, c[1]) /\ NodeIn(ws, c[2]) \subseteq Joined(E, c[2])
    BY <1>4 DEF Partition
  <2>. QED
    BY <1>1, <1>7, <1>8, <2>1, JoinedIsShared
<1>9. both \subseteq Joined(E, c[1])
  BY <1>1, <1>4, <1>7 DEF Partition
<1>10. ASSUME NEW w \in DOMAIN ws
      PROVE  /\ w \in NodeIn(wt, w) /\ NodeIn(wt, w) \subseteq DOMAIN wt
             /\ NodeIn(wt, w) \subseteq Joined(E, w)
             /\ \A v \in NodeIn(wt, w) : NodeIn(wt, v) = NodeIn(wt, w)
  <2>1. CASE w \in both
    BY <1>2, <1>5, <1>6, <1>8, <1>9, <2>1
  <2>2. CASE w \notin both
    <3>1. /\ w \in NodeIn(ws, w) /\ NodeIn(ws, w) \subseteq DOMAIN ws
          /\ NodeIn(ws, w) \subseteq Joined(E, w)
          /\ \A v \in NodeIn(ws, w) : NodeIn(ws, v) = NodeIn(ws, w)
      BY DEF Partition
    <3>2. ASSUME NEW v \in NodeIn(ws, w), v \in both PROVE FALSE
      <4>1. NodeIn(ws, v) \subseteq both
        BY <1>1, <1>4, <3>2 DEF Partition
      <4>. QED
        BY <2>2, <3>1, <4>1
    <3>. QED
      BY <1>2, <1>6, <2>2, <3>1, <3>2
  <2>. QED
    BY <2>1, <2>2
<1>11. ASSUME NEW b \in E \ (left_ \ {c})
      PROVE  Range(b) \subseteq DOMAIN wt /\ b[2] \in NodeIn(wt, b[1])
  <2>1. CASE b = c
    BY <1>3, <1>1, <1>2, <1>4, <1>5, <1>6, <2>1, PairRange
  <2>2. CASE b # c
    <3>1. Range(b) \subseteq DOMAIN ws /\ b[2] \in NodeIn(ws, b[1])
      BY <1>11, <2>2 DEF Partition
    <3>2. b[1] \in DOMAIN ws
      BY <3>1, PairRange
    <3>3. CASE b[1] \in both
      <4>1. NodeIn(ws, b[1]) \subseteq both
        BY <1>1, <1>4, <3>3 DEF Partition
      <4>. QED
        BY <1>2, <1>6, <3>1, <3>2, <3>3, <4>1
    <3>4. CASE b[1] \notin both
      BY <1>2, <1>6, <3>1, <3>2, <3>4
    <3>. QED
      BY <1>2, <3>1, <3>3, <3>4
  <2>. QED
    BY <2>1, <2>2
<1>12. wt = MergedIn(ws, c)
  BY <1>1, <1>2 DEF MergedIn
<1>13. DOMAIN wt = DOMAIN ws
  BY <1>2
<1>. QED
  BY <1>5, <1>10, <1>11, <1>12, <1>13 DEF Partition

(* When all connections were gone through, the nodes are the components.   *)
LEMMA PartitionIsComponents ==
  ASSUME NEW E, IsFiniteSet(E), \A b \in E : DOMAIN b = {1, 2},
         NEW ws, Partition(E, {}, ws), NEW w \in DOMAIN ws
  PROVE  NodeIn(ws, w) = Joined(E, w)
<1>1. /\ w \in NodeIn(ws, w) /\ NodeIn(ws, w) \subseteq DOMAIN ws
      /\ NodeIn(ws, w) \subseteq Joined(E, w)
  BY DEF Partition
<1>2. ClosedFor(NodeIn(ws, w), E)
  <2> SUFFICES ASSUME NEW c \in E, NEW u \in Range(c) \intersect NodeIn(ws, w)
               PROVE  Range(c) \subseteq NodeIn(ws, w)
    BY DEF ClosedFor
  <2>1. Range(c) = {c[1], c[2]} /\ Range(c) \subseteq DOMAIN ws /\ c[2] \in NodeIn(ws, c[1])
    BY PairRange DEF Partition
  <2>2. NodeIn(ws, c[2]) = NodeIn(ws, c[1]) /\ c[1] \in NodeIn(ws, c[1])
    BY <2>1 DEF Partition
  <2>3. NodeIn(ws, u) = NodeIn(ws, w)
    BY DEF Partition
  <2>. QED
    BY <2>1, <2>2, <2>3
<1>. QED
  BY <1>1, <1>2, JoinedIsClosure

LEMMA GoodFollows ==
  ASSUME NEW d, NEW t, Good(d, t), NEW u, "node" \in DOMAIN u, u.node = t.node
  PROVE  Good(d, u)
BY DEF Good

LEMMA SwitchKeepsNodes ==
  ASSUME NEW d, NEW s, Good(d, s.memory), Good(d, s.committed), NEW row
  PROVE  Good(d, GetSwitchTiming(s, row).memory) /\ Good(d, GetSwitchTiming(s, row).committed)
<1>1. Good(d, [s.memory EXCEPT !.switch = Append(@, row)])
  BY GoodFollows DEF Good
<1>. QED
  BY <1>1 DEF GetSwitchTiming

LEMMA NodesInit == Init => NodesInv
<1> SUFFICES ASSUME Init PROVE NodesInv
  OBVIOUS
<1>1. \A d : Good(d, NoTables)
  BY DEF Good, NoTables
<1>. QED
  BY <1>1 DEF Init, NodesInv, GoodTables, Merging, Runs

(* A step that leaves the connections of wires, or never was in them.      *)
LEMMA ElsewhereKeeps ==
  ASSUME NodesInv, UNCHANGED device, ~Runs("form_channels", "connect")',
         Good(device, memory'), Good(device, committed'),
         DOMAIN file' = DOMAIN file, \A f \in DOMAIN file : Good(device, file'[f])
  PROVE  NodesInv'
BY DEF NodesInv, GoodTables, Merging

LEMMA StopKeeps ==
  ASSUME NodesInv, UNCHANGED device, NEW t, Good(device, t), RaisedWith(t)
  PROVE  NodesInv'
<1>1. Good(device, NoTables)
  BY DEF Good, NoTables
<1>2. memory' = NoTables /\ committed' = NoTables /\ program' = "none"
  BY DEF RaisedWith, Ends
<1>3. file' = [file EXCEPT ![program] = t]
  BY DEF RaisedWith
<1>4. DOMAIN file' = DOMAIN file /\ \A f \in DOMAIN file : Good(device, file'[f])
  BY <1>3 DEF NodesInv, GoodTables
<1>. QED
  BY <1>1, <1>2, <1>4, ElsewhereKeeps DEF Runs

LEMMA TablesKeep ==
  ASSUME NodesInv, UNCHANGED <<device, file>>, ~Runs("form_channels", "connect")',
         "node" \in DOMAIN memory', memory'.node = memory.node,
         committed' \in {committed, memory'}
  PROVE  NodesInv'
<1>1. Good(device, memory') /\ Good(device, committed')
  BY GoodFollows DEF NodesInv, GoodTables
<1>2. DOMAIN file' = DOMAIN file /\ \A f \in DOMAIN file : Good(device, file'[f])
  BY DEF NodesInv, GoodTables
<1>. QED
  BY <1>1, <1>2, ElsewhereKeeps

(* The steps before the nodes, and after, which leave the nodes alone.     *)
LEMMA TableSteps ==
  ASSUME NodesInv,
         CreateTables \/ (\E ty \in left : ImportTileType(ty) \/ AddWireToSiteRelation(ty))
           \/ ImportSiteTypes \/ EndRelation \/ CommitTileTypes
           \/ ImportTile \/ ImportSiteInstance \/ EndTile \/ CommitGrid
           \/ CountSitesAndPipsOnNodes \/ ClassifyNodes \/ EndClassify \/ RunStage
  PROVE  NodesInv'
<1>1. "node" \in DOMAIN memory /\ Good(device, committed)
  BY DEF NodesInv, GoodTables, Good
<1>2. CASE CreateTables
  <2>1. CASE Raised
    BY <1>1, <1>2, <2>1, StopKeeps DEF CreateTables, Raised
  <2>2. CASE ~Raised
    BY <1>1, <1>2, <2>2, TablesKeep DEF CreateTables, Commits, Proceeds, Runs
  <2>. QED
    BY <2>1, <2>2
<1>3. ASSUME NEW ty \in left, ImportTileType(ty) PROVE NodesInv'
  BY <1>1, <1>3, TablesKeep DEF ImportTileType, Proceeds, Runs
<1>4. ASSUME NEW ty \in left, AddWireToSiteRelation(ty) PROVE NodesInv'
  BY <1>1, <1>4, TablesKeep DEF AddWireToSiteRelation, Proceeds, Runs
<1>5. CASE ImportSiteTypes
  BY <1>1, <1>5, TablesKeep DEF ImportSiteTypes, Proceeds, Runs
<1>6. CASE EndRelation
  BY <1>1, <1>6, TablesKeep DEF EndRelation, Proceeds, Runs
<1>7. CASE CommitTileTypes
  BY <1>1, <1>7, TablesKeep DEF CommitTileTypes, Proceeds, Runs
<1>8. CASE ImportTile
  BY <1>1, <1>8, TablesKeep DEF ImportTile, Proceeds, Runs
<1>9. CASE CommitGrid
  BY <1>1, <1>9, TablesKeep DEF CommitGrid, Proceeds, Runs
<1>10. CASE CountSitesAndPipsOnNodes
  <2>1. CASE Raised
    BY <1>1, <1>10, <2>1, StopKeeps DEF CountSitesAndPipsOnNodes, Raised
  <2>2. CASE ~Raised
    BY <1>1, <1>10, <2>2, TablesKeep DEF CountSitesAndPipsOnNodes, Commits, Proceeds, Runs
  <2>. QED
    BY <2>1, <2>2
<1>11. CASE ClassifyNodes
  BY <1>1, <1>11, TablesKeep DEF ClassifyNodes, Proceeds, Runs
<1>12. CASE EndClassify
  BY <1>1, <1>12, TablesKeep DEF EndClassify, Done, Commits, Proceeds, Runs
<1>13. CASE RunStage
  <2>1. CASE Raised
    BY <1>1, <1>13, <2>1, StopKeeps DEF RunStage, Raised
  <2>2. CASE ~Raised
    <3>1. Following[stage] \in {"tracks", "flush"}
      BY <1>13 DEF RunStage, Following
    <3>2. memory' = [memory EXCEPT !.later = Append(@, stage)] /\ committed' = memory'
          /\ stage' = Following[stage] /\ UNCHANGED <<device, file>>
      BY <1>13, <2>2 DEF RunStage, Done, Commits, Proceeds
    <3>. QED
      BY <1>1, <3>1, <3>2, TablesKeep DEF Runs
  <2>. QED
    BY <2>1, <2>2
<1>14. CASE ImportSiteInstance
  BY <1>1, <1>14, TablesKeep DEF ImportSiteInstance, Proceeds, Runs
<1>15. CASE EndTile
  BY <1>1, <1>15, TablesKeep DEF EndTile, Proceeds, Runs
<1>. QED
  BY <1>2, <1>3, <1>4, <1>5, <1>6, <1>7, <1>8, <1>9, <1>10, <1>11, <1>12, <1>13, <1>14, <1>15

(* The steps that may make a switch, which is committed with all before.   *)
LEMMA SwitchSteps ==
  ASSUME NodesInv, ImportPip \/ ImportSite \/ (\E x \in left : InsertEdgeWithMux(x))
  PROVE  NodesInv'
<1>1. /\ Good(device, memory) /\ Good(device, committed)
      /\ \A f \in DOMAIN file : Good(device, file[f])
  BY DEF NodesInv, GoodTables
<1>2. Now.memory = memory /\ Now.committed = committed
  BY DEF Now
<1>3. CASE ImportPip
  <2> DEFINE p == Head(queue.left)
             forward == SwitchOfPip(p, p.timing)
             backward == SwitchOfPip(p, p.back)
             s == GetSwitchTiming(GetSwitchTiming(Now, forward), backward)
  <2>1. Good(device, s.memory) /\ Good(device, s.committed)
    <3> HIDE DEF forward, backward
    <3>. QED
      BY <1>1, <1>2, SwitchKeepsNodes
  <2>2. CASE RaisedWith(s.committed)
    BY <1>3, <2>1, <2>2, StopKeeps DEF ImportPip
  <2>3. CASE p \in MaskedPips(queue.type)
    BY <1>1, <1>3, <2>3, TablesKeep DEF ImportPip, Continues, Runs, Good
  <2>4. CASE ~RaisedWith(s.committed) /\ p \notin MaskedPips(queue.type)
    <3>1. UNCHANGED <<device, file, program, stage>> /\ Runs("form_channels", "pips") /\ committed' = s.committed
      BY <1>3, <2>4 DEF ImportPip, Continues
    <3>2. /\ "node" \in DOMAIN s.memory => "node" \in DOMAIN memory'
          /\ "node" \in DOMAIN s.memory => memory'.node = s.memory.node
      BY <1>3, <2>4 DEF ImportPip
    <3> HIDE DEF s
    <3>3. Good(device, memory')
      BY <2>1, <3>2, GoodFollows DEF Good
    <3>. QED
      BY <1>1, <2>1, <3>1, <3>3, ElsewhereKeeps DEF Runs
  <2>. QED
    BY <1>3, <2>2, <2>3, <2>4 DEF ImportPip
<1>4. CASE ImportSite
  <2> DEFINE i == Head(queue.left)
             site == TileTypes[queue.type].sites[i]
             row == SwitchOfPin(site.timing)
             start == [Now EXCEPT !.memory.site = @ \union {<<queue.type, i>>}]
             s == IF site.pins = {} THEN start ELSE GetSwitchTiming(start, row)
  <2>1. Good(device, start.memory) /\ Good(device, start.committed)
    <3>1. start.memory = [memory EXCEPT !.site = @ \union {<<queue.type, i>>}] /\ start.committed = committed
      BY DEF Now
    <3> HIDE DEF start
    <3>2. "node" \in DOMAIN start.memory /\ start.memory.node = memory.node
      BY <1>1, <3>1 DEF Good
    <3>. QED
      BY <1>1, <3>1, <3>2, GoodFollows
  <2>2. Good(device, s.memory) /\ Good(device, s.committed)
    <3> HIDE DEF start, row
    <3>. QED
      BY <2>1, SwitchKeepsNodes
  <2>3. UNCHANGED <<device, file, program, stage>> /\ Runs("form_channels", "relations")
    BY <1>4 DEF ImportSite, Continues
  <2>4. CASE site.type \notin memory.site_type
    BY <1>1, <1>4, <2>3, <2>4, TablesKeep DEF ImportSite, Runs, Good
  <2>5. CASE site.type \in memory.site_type
    <3>1. /\ committed' = s.committed
          /\ "node" \in DOMAIN s.memory => "node" \in DOMAIN memory'
          /\ "node" \in DOMAIN s.memory => memory'.node = s.memory.node
      BY <1>4, <2>5 DEF ImportSite
    <3> HIDE DEF s
    <3>2. Good(device, memory')
      BY <2>2, <3>1, GoodFollows DEF Good
    <3>. QED
      BY <1>1, <2>2, <2>3, <3>1, <3>2, ElsewhereKeeps DEF Runs
  <2>. QED
    BY <2>4, <2>5
<1>5. ASSUME NEW x \in left, InsertEdgeWithMux(x) PROVE NodesInv'
  <2> DEFINE row == LumpedSwitch(Chain(memory, x))
             s == GetSwitchTiming(Now, row)
  <2>1. Good(device, s.memory) /\ Good(device, s.committed)
    <3> HIDE DEF row
    <3>. QED
      BY <1>1, <1>2, SwitchKeepsNodes
  <2>2. CASE ~CheckEdgeWithMuxTiming(memory, x)
    BY <1>1, <1>5, <2>2, StopKeeps DEF InsertEdgeWithMux, Raised
  <2>3. CASE CheckEdgeWithMuxTiming(memory, x)
    <3>1. UNCHANGED <<device, file>> /\ Runs("form_channels", "muxes")'
          /\ committed' = s.committed
      BY <1>5, <2>3 DEF InsertEdgeWithMux, Proceeds, Runs
    <3>2. /\ "node" \in DOMAIN s.memory => "node" \in DOMAIN memory'
          /\ "node" \in DOMAIN s.memory => memory'.node = s.memory.node
      BY <1>5, <2>3 DEF InsertEdgeWithMux
    <3> HIDE DEF s
    <3>3. Good(device, memory')
      BY <2>1, <3>2, GoodFollows DEF Good
    <3>. QED
      BY <1>1, <2>1, <3>1, <3>3, ElsewhereKeeps DEF Runs
  <2>. QED
    BY <2>2, <2>3
<1>. QED
  BY <1>3, <1>4, <1>5

(* The steps of the programs as a whole, whatever they leave in the files. *)
LEMMA ProgramSteps ==
  ASSUME NodesInv,
         StartFormChannels \/ Flush \/ AssignPins \/ StartCreateEdges \/ ChangeFile
           \/ VerifyChannels \/ Fail
  PROVE  NodesInv'
<1> DEFINE Programs == {"form_channels", "create_edges"}
<1>1. /\ device \in Devices /\ Good(device, memory) /\ Good(device, committed)
      /\ DOMAIN file = Programs /\ \A f \in Programs : Good(device, file[f])
  BY DEF NodesInv, GoodTables
<1>2. Good(device, NoTables)
  BY DEF Good, NoTables
<1>3. CASE StartFormChannels
  <2>1. file' = [file EXCEPT !["form_channels"] = NoTables] /\ stage' = "tables"
        /\ memory' = file'["form_channels"] /\ committed' = memory' /\ UNCHANGED device
    BY <1>3 DEF StartFormChannels, Removed, Commits
  <2>. QED
    BY <1>1, <1>2, <2>1, ElsewhereKeeps DEF Runs
<1>4. CASE Flush
  <2>1. file' = [file EXCEPT ![program] = memory] /\ UNCHANGED device
    BY <1>4 DEF Flush
  <2>2. \A f \in Programs : Good(device, file'[f])
    BY <1>1, <2>1
  <2>3. CASE Ends
    BY <1>1, <1>2, <2>1, <2>2, <2>3, ElsewhereKeeps DEF Ends, Runs
  <2>4. CASE ~Ends
    <3>1. stage' = "channels" /\ UNCHANGED <<memory, committed>>
      BY <1>4, <2>4 DEF Flush
    <3>. QED
      BY <1>1, <2>1, <2>2, <3>1, ElsewhereKeeps DEF Runs
  <2>. QED
    BY <2>3, <2>4
<1>5. CASE AssignPins
  BY <1>1, <1>5, ElsewhereKeeps DEF AssignPins, Runs
<1>6. CASE StartCreateEdges
  <2>1. file' = [file EXCEPT !["create_edges"] = file["form_channels"]] /\ stage' = "edges"
        /\ memory' = file'["create_edges"] /\ committed' = memory' /\ UNCHANGED device
    BY <1>6 DEF StartCreateEdges, Commits
  <2>. QED
    BY <1>1, <2>1, ElsewhereKeeps DEF Runs
<1>7. CASE ChangeFile
  <2>1. file' = [file EXCEPT ![program] = Done(@, stage)] /\ program = "create_edges"
        /\ UNCHANGED <<device, memory, committed, program>>
    BY <1>7 DEF ChangeFile
  <2>2. Good(device, Done(file["create_edges"], stage))
    BY <1>1 DEF Good, Done
  <2>3. \A f \in Programs : Good(device, file'[f])
    BY <1>1, <2>1, <2>2
  <2>. QED
    BY <1>1, <2>1, <2>3, ElsewhereKeeps DEF Runs
<1>8. CASE VerifyChannels
  BY <1>1, <1>2, <1>8, ElsewhereKeeps DEF VerifyChannels, Ends, Runs
<1>9. CASE Fail
  <2>1. PICK t : /\ t \in {committed, Done(committed, stage)}
                 /\ file' = file \/ file' = [file EXCEPT ![program] = t]
    BY <1>9 DEF Fail
  <2>2. Good(device, Done(committed, stage))
    BY <1>1 DEF Good, Done
  <2>3. DOMAIN file' = Programs /\ \A f \in Programs : Good(device, file'[f])
    BY <1>1, <2>1, <2>2
  <2>. QED
    BY <1>1, <1>2, <1>9, <2>3, ElsewhereKeeps DEF Fail, Ends, Runs
<1>. QED
  BY <1>3, <1>4, <1>5, <1>6, <1>7, <1>8, <1>9

(* import_nodes.                                                           *)
LEMMA NodeSteps ==
  ASSUME NodesInv, InsertWires \/ (\E c \in left : Connect(c)) \/ InsertNodes
  PROVE  NodesInv'
<1> DEFINE E == device.connections
<1>1. /\ device \in Devices /\ Good(device, memory) /\ Good(device, committed)
      /\ \A f \in DOMAIN file : Good(device, file[f])
  BY DEF NodesInv, GoodTables
<1>2. IsFiniteSet(E) /\ \A c \in E : DOMAIN c = {1, 2}
  BY <1>1, DevicesAssumption
<1>3. CASE InsertWires
  <2>1. /\ memory' = [memory EXCEPT !.wire = memory'.wire] /\ committed' = memory'
        /\ wires' = [w \in memory'.wire |-> {}] /\ left' = E
        /\ UNCHANGED <<device, file>>
    BY <1>3 DEF InsertWires, Commits, Proceeds
  <2>2. Good(device, memory')
    BY <1>1, <2>1 DEF Good
  <2>3. ASSUME NEW w \in DOMAIN wires' PROVE NodeIn(wires', w) = {w} /\ w \in Joined(E, w)
    BY <1>2, <2>1, <2>3, JoinedIsClosure DEF NodeIn
  <2>4. Partition(E, left', wires')
    <3>1. \A w \in DOMAIN wires' : \A v \in NodeIn(wires', w) : NodeIn(wires', v) = NodeIn(wires', w)
      BY <2>3
    <3>2. left' \subseteq E /\ E \ left' = {}
      BY <2>1
    <3>. QED
      BY <2>3, <3>1, <3>2 DEF Partition
  <2>. QED
    BY <1>1, <2>1, <2>2, <2>4 DEF NodesInv, GoodTables, Merging
<1>4. ASSUME NEW c \in left, Connect(c) PROVE NodesInv'
  <2>1. CASE Raised
    BY <1>1, <1>4, <2>1, StopKeeps DEF Connect, Raised
  <2>2. CASE ~Raised
    <3>1. /\ Runs("form_channels", "connect") /\ Range(c) \subseteq DOMAIN wires
          /\ wires' = Merged(c[1], c[2]) /\ left' = left \ {c}
          /\ UNCHANGED <<device, file, memory, committed>>
      BY <1>4, <2>2 DEF Connect, Proceeds
    <3>2. Partition(E, left, wires)
      BY <3>1 DEF NodesInv, Merging
    <3>3. NodeOf(c[1]) = NodeIn(wires, c[1]) /\ NodeOf(c[2]) = NodeIn(wires, c[2])
      BY DEF NodeOf, NodeIn
    <3>4. wires' = MergedIn(wires, c)
      BY <3>1, <3>3 DEF Merged, MergedIn
    <3>5. Partition(E, left \ {c}, wires')
      <4> HIDE DEF E
      <4>. QED
        BY <1>2, <3>1, <3>2, <3>4, MergeKeepsPartition
    <3>. QED
      BY <1>1, <3>1, <3>5 DEF NodesInv, GoodTables, Merging
  <2>. QED
    BY <2>1, <2>2
<1>5. CASE InsertNodes
  <2>1. /\ memory' = [memory EXCEPT !.node = [w \in DOMAIN wires |-> NodeOf(w)]] /\ committed' = memory'
        /\ stage' = "count" /\ UNCHANGED <<device, file>>
        /\ Runs("form_channels", "connect") /\ left = {}
    BY <1>5 DEF InsertNodes, Commits, Proceeds
  <2>2. Partition(E, {}, wires)
    BY <2>1 DEF NodesInv, Merging
  <2>3. ASSUME NEW w \in DOMAIN wires PROVE NodeOf(w) = Joined(E, w)
    <3>1. NodeIn(wires, w) = Joined(E, w)
      BY <1>2, <2>2, PartitionIsComponents
    <3>. QED
      BY <3>1 DEF NodeOf, NodeIn
  <2>4. memory'.node = [w \in DOMAIN wires |-> NodeOf(w)] /\ "node" \in DOMAIN memory'
    BY <1>1, <2>1 DEF Good
  <2>5. Good(device, memory')
    BY <2>3, <2>4 DEF Good
  <2>. QED
    BY <1>1, <2>1, <2>5, ElsewhereKeeps DEF Runs
<1>. QED
  BY <1>3, <1>4, <1>5

LEMMA NodesStep == NodesInv /\ [Next]_vars => NodesInv'
<1> SUFFICES ASSUME NodesInv, [Next]_vars PROVE NodesInv'
  OBVIOUS
<1>1. CASE Work
  BY <1>1, TableSteps, SwitchSteps, ProgramSteps, NodeSteps DEF Work
<1>2. CASE Fail
  BY <1>2, ProgramSteps
<1>3. CASE UNCHANGED vars
  BY <1>3 DEF vars, NodesInv, GoodTables, Merging, Runs
<1>. QED
  BY <1>1, <1>2, <1>3 DEF Next

(* Two wires have the same node just when connections join them, for every *)
(* order in which import_nodes goes through the connections, and whatever  *)
(* failed before.                                                          *)
THEOREM WiresMeetInNodes == Spec => []NodesAreComponents
<1>1. NodesInv => NodesAreComponents
  BY DEF Component, NodesInv, GoodTables, Good, NodesAreComponents
<1>. QED
  BY <1>1, NodesInit, NodesStep, PTL DEF Spec
-----------------------------------------------------------------------------
(* What a target is made from is whole.  A program that fails leaves what  *)
(* was committed in a file, in the middle of any loop; but a target counts *)
(* as made only when its program came to the end, and then memory has the  *)
(* whole device: by the stage of the program, what its loops have done.    *)

IsTables(t) == DOMAIN t = DOMAIN NoTables

HasRow(t, k, r) == k \in DOMAIN t.switch /\ t.switch[k] = r

(* The cache of switches knows rows of the table.                          *)
CacheKnows(t, cache) ==
  /\ t.switch \in Seq(Range(t.switch))
  /\ \A r \in DOMAIN cache : HasRow(t, cache[r], r)

PipsTimed(t) ==
  \A p \in t.pip_in_tile :
    /\ p \in DOMAIN t.pip_switch /\ p[1] \in DOMAIN TileTypes /\ p[2] \in Range(TileTypes[p[1]].pips)
    /\ HasRow(t, t.pip_switch[p][1], SwitchOfPip(p[2], p[2].timing))
    /\ HasRow(t, t.pip_switch[p][2], SwitchOfPip(p[2], p[2].back))

PinsTimed(t) ==
  \A w \in DOMAIN t.site_pin :
    /\ w[1] \in DOMAIN TileTypes /\ w[2] \in TileTypes[w[1]].wires
    /\ t.site_pin[w].site \in DOMAIN TileTypes[w[1]].sites
    /\ HasRow(t, t.site_pin[w].switch, SwitchOfPin(TileTypes[w[1]].sites[t.site_pin[w].site].timing))

Switches ==
  /\ stage # "tables" => CacheKnows(memory, pip_cache)
  /\ PipsTimed(memory) /\ PinsTimed(memory)
  /\ stage = "pips" => queue.left \in Seq(Range(TileTypes[queue.type].pips))

(* The rest of a loop over the numbers up to n.                            *)
Rest(q, n) == Len(q) \in 0 .. n /\ q = [j \in 1 .. Len(q) |-> n - Len(q) + j]

Sites(ty) == DOMAIN TileTypes[ty].sites
Emitted(ty) == Sites(ty) \ MaskedSites(ty)
Seen(ty) == 1 .. Len(TileTypes[ty].sites) - Len(queue.left)
WiresOf(types) == UNION {{ty} \X (TileTypes[ty].wires \ MaskedWires(ty)) : ty \in types}

Types ==
  /\ memory.wire_in_tile = WiresOf(memory.tile_type)
  /\ stage \in {"types", "pips"} => left \subseteq TypesOfTiles /\ memory.tile_type = TypesOfTiles \ left
  /\ stage \notin {"tables", "types", "pips"} => memory.tile_type = TypesOfTiles
  /\ stage = "pips" => queue.type \in memory.tile_type
  /\ \A ty \in memory.tile_type :
       \/ stage = "pips" /\ ty = queue.type
       \/ \A i \in Emitted(ty) : TileTypes[ty].sites[i].type \in memory.site_type

SiteRows ==
  /\ stage \in {"sites", "relations"} => left \subseteq TypesOfTiles
  /\ stage = "relations" =>
       /\ queue.type \in TypesOfTiles
       /\ Rest(queue.left, Len(TileTypes[queue.type].sites))
       /\ \A i \in Emitted(queue.type) \intersect Seen(queue.type) : <<queue.type, i>> \in memory.site
  /\ stage \in {"sites", "relations"} =>
       \A ty \in TypesOfTiles \ left :
         \/ stage = "relations" /\ ty = queue.type
         \/ \A i \in Emitted(ty) : <<ty, i>> \in memory.site
  /\ stage = "instances" =>
       left = {} /\ \A ty \in TypesOfTiles : \A i \in Emitted(ty) : <<ty, i>> \in memory.site

Instances(n) == [tile : 1 .. n, site : Nat, prohibited : BOOLEAN]

RowsFor(t, n, i) == {r \in DOMAIN t.site_instance : t.site_instance[r].tile = n /\ t.site_instance[r].site = i}

(* The sites of the tile that is imported which are still to come.         *)
Ahead(n, i) == stage = "instances" /\ n = Len(memory.phy_tile) /\ i \notin Seen(queue.type)

RowsMade ==
  \A n \in 1 .. Len(memory.phy_tile) : \A i \in Emitted(device.tiles[n].type) :
    /\ Ahead(n, i) => RowsFor(memory, n, i) = {}
    /\ ~Ahead(n, i) => \E r \in DOMAIN memory.site_instance : RowsFor(memory, n, i) = {r}

TileRows ==
  /\ Len(memory.phy_tile) \in 0 .. Len(device.tiles)
  /\ memory.phy_tile = [n \in 1 .. Len(memory.phy_tile) |-> device.tiles[n].name]
  /\ stage \in {"wires", "connect", "count", "classify", "muxes", "grid", "tracks", "flush"} =>
       Len(memory.phy_tile) = Len(device.tiles)
  /\ memory.site_instance \in Seq(Instances(Len(memory.phy_tile)))
  /\ stage = "instances" =>
       /\ Len(memory.phy_tile) # 0
       /\ queue.type = device.tiles[Len(memory.phy_tile)].type
       /\ Rest(queue.left, Len(TileTypes[queue.type].sites))
  /\ RowsMade

NodeRows ==
  /\ stage \in {"connect", "count", "classify", "muxes", "grid", "tracks", "flush"} => memory.wire = DeviceWires
  /\ stage = "connect" => DOMAIN wires = DeviceWires
  /\ stage \in {"count", "classify", "muxes", "grid", "tracks", "flush"} => DOMAIN memory.node = DeviceWires

EdgeTimed(t, x) ==
  LET c == Chain(t, x)
      row == t.switch[t.edge_with_mux[x]]
  IN  /\ t.edge_with_mux[x] \in DOMAIN t.switch
      /\ ~row.pass /\ row.timing.r = 0 /\ row.timing.c = 0
      /\ c[3].pass \/ row.timing.delay = ElmoreDelay(c[1], c[2], c[3], c[4], c[5])

Muxes ==
  /\ \A n \in DOMAIN memory.site_wire : WireInTile(memory.site_wire[n]) \in DOMAIN memory.site_pin
  /\ stage \notin {"muxes", "grid", "tracks", "flush"} => memory.edge_with_mux = <<>>
  /\ stage = "muxes" => /\ left \subseteq EdgesWithMux(memory)
                        /\ DOMAIN memory.edge_with_mux = EdgesWithMux(memory) \ left
  /\ stage \in {"grid", "tracks", "flush"} => DOMAIN memory.edge_with_mux = EdgesWithMux(memory)
  /\ \A x \in DOMAIN memory.edge_with_mux : EdgeTimed(memory, x)

Stages ==
  {"tables", "types", "pips", "sites", "relations", "instances", "wires", "connect", "count",
   "classify", "muxes", "grid", "tracks", "flush"}

(* What was appended to "later" when the import is at a stage.             *)
Before ==
  [s \in Stages |->
     CASE s = "grid" -> <<"classify">>
       [] s = "tracks" -> <<"classify", "grid">>
       [] s = "flush" -> <<"classify", "grid", "tracks">>
       [] OTHER -> <<>>]

Importing ==
  /\ IsTables(memory)
  /\ stage \in Stages /\ memory.later = Before[stage]
  /\ stage = "tables" => memory = NoTables
  /\ stage \in {"pips", "relations", "instances"} => DOMAIN queue = DOMAIN Idle
  /\ Switches /\ Types /\ SiteRows /\ TileRows /\ NodeRows /\ Muxes

(* The same for create_edges, and where its tables are.                    *)
EdgeStages == {"edges", "flush", "channels", "locs", "feeds", "lengths", "verify"}

EdgesBefore ==
  [s \in EdgeStages |->
     CASE s = "edges" -> <<"classify", "grid", "tracks">>
       [] s \in {"flush", "channels"} -> <<"classify", "grid", "tracks", "edges">>
       [] s = "locs" -> <<"classify", "grid", "tracks", "edges", "channels">>
       [] s = "feeds" -> <<"classify", "grid", "tracks", "edges", "channels", "locs">>
       [] s = "lengths" -> <<"classify", "grid", "tracks", "edges", "channels", "locs", "feeds">>
       [] s = "verify" -> <<"classify", "grid", "tracks", "edges", "channels", "locs", "feeds", "lengths">>]

Creating ==
  LET tables == IF stage \in {"edges", "flush"} THEN memory ELSE file["create_edges"]
  IN  /\ "form_channels" \in built
      /\ stage \in EdgeStages
      /\ Whole(tables) /\ IsTables(tables) /\ tables.later = EdgesBefore[stage]

TargetsInv ==
  /\ program \in {"none", "form_channels", "create_edges"} /\ program \notin built
  /\ built \subseteq {"form_channels", "pin_assignments", "create_edges"}
  /\ program = "form_channels" => Importing
  /\ program = "create_edges" => Creating
  /\ TargetsAreWhole
  /\ \A f \in built \intersect {"form_channels", "create_edges"} : IsTables(file[f])

-----------------------------------------------------------------------------
(* What a step does to tables: nothing but to add rows for switches.       *)
Extends(t, u) ==
  /\ IsTables(u)
  /\ \A f \in DOMAIN NoTables \ {"switch"} : u[f] = t[f]
  /\ u.switch \in Seq(Range(u.switch))
  /\ \A k \in DOMAIN t.switch : HasRow(u, k, t.switch[k])

LEMMA AppendRow ==
  ASSUME NEW q, q \in Seq(Range(q)), NEW r
  PROVE  /\ Append(q, r) \in Seq(Range(Append(q, r)))
         /\ Len(q) \in Nat /\ DOMAIN q = 1 .. Len(q)
         /\ Len(Append(q, r)) = Len(q) + 1 /\ DOMAIN Append(q, r) = 1 .. Len(q) + 1
         /\ Append(q, r)[Len(q) + 1] = r
         /\ \A k \in DOMAIN q : k \in DOMAIN Append(q, r) /\ Append(q, r)[k] = q[k]
<1> DEFINE S == Range(q) \union {r}
           a == Append(q, r)
<1>1. q \in Seq(S) /\ r \in S
  OBVIOUS
<1>2. /\ a \in Seq(S) /\ Len(q) \in Nat /\ Len(a) = Len(q) + 1
      /\ DOMAIN q = 1 .. Len(q) /\ DOMAIN a = 1 .. Len(q) + 1
      /\ a[Len(q) + 1] = r /\ \A k \in 1 .. Len(q) : a[k] = q[k]
  <2> HIDE DEF S
  <2>. QED
    BY <1>1
<1>3. a \in [1 .. Len(a) -> Range(a)] /\ Len(a) \in Nat
  <2> HIDE DEF a, S
  <2>1. a \in [1 .. Len(a) -> S] /\ Len(a) \in Nat
    BY <1>2, LenProperties
  <2>. QED
    BY <2>1 DEF Range
<1>4. a \in Seq(Range(a))
  <2> HIDE DEF a
  <2>. QED
    BY <1>3, SeqDef
<1>. QED
  BY <1>2, <1>4

LEMMA ExtendsRows ==
  ASSUME NEW t, NEW u, Extends(t, u), NEW k, NEW r, HasRow(t, k, r)
  PROVE  HasRow(u, k, r)
BY DEF Extends, HasRow

LEMMA ExtendsTimed ==
  ASSUME NEW t, NEW u, Extends(t, u)
  PROVE  /\ PipsTimed(t) => PipsTimed(u)
         /\ PinsTimed(t) => PinsTimed(u)
<1>1. u.pip_in_tile = t.pip_in_tile /\ u.pip_switch = t.pip_switch /\ u.site_pin = t.site_pin
  BY DEF Extends, NoTables
<1>. QED
  BY <1>1, ExtendsRows DEF PipsTimed, PinsTimed

(* get_switch_timing only adds a row, and the cache knows it then.         *)
LEMMA SwitchIsKnown ==
  ASSUME NEW s, IsTables(s.memory), CacheKnows(s.memory, s.cache),
         NEW r, NEW u, u = GetSwitchTiming(s, r)
  PROVE  /\ Extends(s.memory, u.memory) /\ CacheKnows(u.memory, u.cache)
         /\ HasRow(u.memory, u.cache[r], r)
<1>1. CASE r \in DOMAIN s.cache
  BY <1>1 DEF GetSwitchTiming, CacheKnows, Extends, HasRow
<1>2. CASE r \notin DOMAIN s.cache
  <2> DEFINE q == s.memory.switch
             tables == [s.memory EXCEPT !.switch = Append(@, r)]
  <2>1. /\ u.memory = tables
        /\ u.cache = [k \in DOMAIN s.cache \union {r} |-> IF k = r THEN Len(tables.switch) ELSE s.cache[k]]
    BY <1>2 DEF GetSwitchTiming
  <2>2. DOMAIN s.memory = DOMAIN NoTables /\ "switch" \in DOMAIN NoTables
    BY DEF IsTables, NoTables
  <2>3. u.memory.switch = Append(q, r) /\ IsTables(u.memory)
        /\ \A f \in DOMAIN NoTables \ {"switch"} : u.memory[f] = s.memory[f]
    BY <2>1, <2>2 DEF IsTables
  <2>4. /\ Append(q, r) \in Seq(Range(Append(q, r)))
        /\ Len(q) \in Nat /\ DOMAIN q = 1 .. Len(q)
        /\ Len(Append(q, r)) = Len(q) + 1 /\ DOMAIN Append(q, r) = 1 .. Len(q) + 1
        /\ Append(q, r)[Len(q) + 1] = r
        /\ \A k \in DOMAIN q : k \in DOMAIN Append(q, r) /\ Append(q, r)[k] = q[k]
    <3>1. q \in Seq(Range(q))
      BY DEF CacheKnows
    <3> HIDE DEF q
    <3>. QED
      BY <3>1, AppendRow
  <2>5. Extends(s.memory, u.memory)
    BY <2>3, <2>4 DEF Extends, HasRow
  <2>6. u.cache[r] = Len(q) + 1 /\ HasRow(u.memory, u.cache[r], r)
    BY <2>1, <2>3, <2>4 DEF HasRow
  <2>7. ASSUME NEW k \in DOMAIN u.cache PROVE HasRow(u.memory, u.cache[k], k)
    <3>1. CASE k = r
      BY <2>6, <3>1
    <3>2. CASE k # r
      <4>1. k \in DOMAIN s.cache /\ u.cache[k] = s.cache[k]
        BY <2>1, <2>7, <3>2
      <4>2. HasRow(s.memory, s.cache[k], k)
        BY <4>1 DEF CacheKnows
      <4>. QED
        BY <2>5, <4>1, <4>2, ExtendsRows
    <3>. QED
      BY <3>1, <3>2
  <2>. QED
    BY <2>5, <2>6, <2>7 DEF CacheKnows, Extends
<1>. QED
  BY <1>1, <1>2

(* The pip's delay and all it stands for, of any timings.                  *)
LEMMA LumpedIsElmore ==
  ASSUME NEW src \in Timings, NEW cs \in Nat, NEW sw, sw.timing \in Timings,
         NEW cd \in Nat, NEW dest \in Timings, CanBeLumped(src, cs, sw, cd, dest), ~sw.pass
  PROVE  Lumped(src, cs, sw, cd, dest) = ElmoreDelay(src, cs, sw, cd, dest)
<1> DEFINE a == src.r  b == src.delay  e == sw.timing.r  f == sw.timing.delay
           g == sw.timing.c  h == dest.c  k == dest.delay
<1>1. a \in Nat /\ b \in Nat /\ e \in Nat /\ f \in Nat /\ g \in Nat /\ h \in Nat /\ k \in Nat
  BY DEF Timings
<1>2. ElmoreDelay(src, cs, sw, cd, dest) = b + a * (cs + g + 0) + f + e * (cd + h) + k
  BY DEF ElmoreDelay
<1>3. CASE ZeroDelay(src, cs, sw, cd, dest)
  <2>1. Lumped(src, cs, sw, cd, dest) = f /\ b = 0 /\ k = 0
    BY <1>3 DEF Lumped, ZeroDelay
  <2>2. a = 0 \/ (g = 0 /\ cs = 0)
    BY <1>3 DEF ZeroDelay
  <2>3. e = 0 \/ (cd = 0 /\ h = 0)
    BY <1>3 DEF ZeroDelay
  <2> HIDE DEF a, b, e, f, g, h, k
  <2>4. a * (cs + g + 0) = 0
    BY <1>1, <2>2
  <2>5. e * (cd + h) = 0
    BY <1>1, <2>3
  <2>. QED
    BY <1>1, <1>2, <2>1, <2>4, <2>5
<1>4. CASE ~ZeroDelay(src, cs, sw, cd, dest)
  <2>1. Lumped(src, cs, sw, cd, dest) = b + a * (g + cs) + f + e * (cd + h) + k
    BY <1>4 DEF Lumped
  <2> HIDE DEF a, b, e, f, g, h, k
  <2>2. cs + g + 0 = g + cs
    BY <1>1
  <2>. QED
    BY <1>1, <1>2, <2>1, <2>2
<1>. QED
  BY <1>3, <1>4

(* The device does not change, and what is said of tables with it.         *)
LEMMA DeviceIsRigid ==
  ASSUME UNCHANGED device, NEW t
  PROVE  /\ TypesOfTiles' = TypesOfTiles /\ DeviceWires' = DeviceWires
         /\ \A w : TypeOf(w)' = TypeOf(w) /\ WireInTile(w)' = WireInTile(w) /\ Component(w)' = Component(w)
         /\ EdgesWithMux(t)' = EdgesWithMux(t)
         /\ \A x : Chain(t, x)' = Chain(t, x)
<1>1. TypesOfTiles' = TypesOfTiles /\ DeviceWires' = DeviceWires
  BY DEF TypesOfTiles, DeviceWires
<1>2. \A w : TypeOf(w)' = TypeOf(w)
  BY DEF TypeOf
<1>3. \A w : WireInTile(w)' = WireInTile(w)
  BY <1>2 DEF WireInTile
<1>4. \A w : Component(w)' = Component(w)
  BY DEF Component
<1>5. EdgesWithMux(t)' = EdgesWithMux(t)
  BY DEF EdgesWithMux
<1>6. \A w : Capacitance(w)' = Capacitance(w)
  BY <1>2 DEF Capacitance
<1>7. \A x : Chain(t, x)' = Chain(t, x)
  BY <1>3, <1>6 DEF Chain
<1>. QED
  BY <1>1, <1>2, <1>3, <1>4, <1>5, <1>7

LEMMA WholeIsRigid ==
  ASSUME UNCHANGED device, NEW t
  PROVE  Whole(t)' <=> Whole(t)
<1>1. Timed(t)' <=> Timed(t)
  BY DeviceIsRigid DEF Timed, SwitchRow
<1>. QED
  BY <1>1, DeviceIsRigid DEF Whole

RowsCounted(t) ==
  \A n \in DOMAIN device.tiles : \A i \in Emitted(device.tiles[n].type) : Cardinality(RowsFor(t, n, i)) = 1

LEMMA WholeParts ==
  ASSUME NEW t
  PROVE  Whole(t) <=> /\ t.tile_type = TypesOfTiles /\ Timed(t)
                      /\ t.phy_tile = [n \in DOMAIN device.tiles |-> device.tiles[n].name]
                      /\ t.wire = DeviceWires
                      /\ \A w \in DeviceWires : t.node[w] = Component(w)
                      /\ RowsCounted(t)
BY DEF Whole, RowsCounted, RowsFor, Emitted, Sites

(* What "later" stands for is in none of the rows that make tables whole.  *)
LEMMA DoneIsWhole ==
  ASSUME NEW t, NEW s, IsTables(t)
  PROVE  /\ IsTables(Done(t, s)) /\ Done(t, s).later = Append(t.later, s)
         /\ Whole(Done(t, s)) <=> Whole(t)
<1> DEFINE u == Done(t, s)
<1>1. /\ IsTables(u) /\ u.later = Append(t.later, s)
      /\ u.tile_type = t.tile_type /\ u.phy_tile = t.phy_tile /\ u.wire = t.wire /\ u.node = t.node
      /\ u.site_instance = t.site_instance /\ u.pip_in_tile = t.pip_in_tile /\ u.switch = t.switch
      /\ u.pip_switch = t.pip_switch /\ u.site_pin = t.site_pin /\ u.edge_with_mux = t.edge_with_mux
      /\ u.site_wire = t.site_wire /\ u.number_pips = t.number_pips
  BY DEF Done, IsTables, NoTables
<1> HIDE DEF u
<1>2. EdgesWithMux(u) = EdgesWithMux(t)
  BY <1>1 DEF EdgesWithMux
<1>3. \A x : Chain(u, x) = Chain(t, x)
  BY <1>1 DEF Chain
<1>4. Timed(u) <=> Timed(t)
  BY <1>1, <1>2, <1>3 DEF Timed, SwitchRow
<1>5. Whole(u) <=> Whole(t)
  <2>1. \A n, i : RowsFor(u, n, i) = RowsFor(t, n, i)
    BY <1>1 DEF RowsFor
  <2>2. RowsCounted(u) <=> RowsCounted(t)
    BY <2>1 DEF RowsCounted
  <2>. QED
    BY <1>1, <1>4, <2>2, WholeParts
<1>. QED
  BY <1>1, <1>5 DEF u

LEMMA InitTargets == Init => TargetsInv
BY DEF Init, TargetsInv, TargetsAreWhole

(* The file of a target that is built stays as it is.                      *)
KeepsTargets ==
  /\ UNCHANGED device
  /\ DOMAIN file' = DOMAIN file
  /\ \A f \in built \intersect {"form_channels", "create_edges"} : file'[f] = file[f]

LEMMA TargetsStay ==
  ASSUME TargetsInv, KeepsTargets,
         built' \intersect {"form_channels", "create_edges"} = built \intersect {"form_channels", "create_edges"}
  PROVE  /\ TargetsAreWhole'
         /\ \A f \in built' \intersect {"form_channels", "create_edges"} : IsTables(file'[f])
<1>1. ASSUME NEW f \in {"form_channels", "create_edges"}, f \in built
      PROVE  file'[f] = file[f] /\ IsTables(file[f])
  BY <1>1 DEF KeepsTargets, TargetsInv
<1>2. ASSUME NEW f \in {"form_channels", "create_edges"}, f \in built, Whole(file[f])
      PROVE  Whole(file[f])'
  <2>1. PICK t : t = file[f]
    OBVIOUS
  <2>2. Whole(t)'
    BY <1>2, <2>1, WholeIsRigid DEF KeepsTargets
  <2>. QED
    BY <1>1, <1>2, <2>1, <2>2
<1>3. TargetsAreWhole
  BY DEF TargetsInv
<1>. QED
  BY <1>1, <1>2, <1>3 DEF TargetsAreWhole

(* A program that stops before its end leaves no target.                   *)
LEMMA StopTargets ==
  ASSUME TargetsInv, NodesInv, UNCHANGED <<device, built>>, program # "none", Ends,
         NEW t, file' = file \/ file' = [file EXCEPT ![program] = t]
  PROVE  TargetsInv'
<1>1. KeepsTargets
  BY DEF KeepsTargets, TargetsInv, NodesInv, GoodTables
<1>2. program' = "none" /\ "none" \notin built
  BY DEF Ends, TargetsInv
<1>. QED
  BY <1>1, <1>2, TargetsStay DEF TargetsInv

(* A step that changes these tables in memory only.                        *)
OnlyChanges(tables) ==
  /\ UNCHANGED device /\ IsTables(memory')
  /\ \A f \in DOMAIN NoTables \ tables : memory'[f] = memory[f]

LEMMA TypesKeep ==
  ASSUME Types, NEW S, OnlyChanges(S), S \intersect {"wire_in_tile", "tile_type", "site_type"} = {},
         {stage, stage'} \intersect {"tables", "types", "pips"} = {}
  PROVE  Types'
<1>1. /\ memory'.wire_in_tile = memory.wire_in_tile /\ memory'.tile_type = memory.tile_type
      /\ memory'.site_type = memory.site_type
  BY DEF OnlyChanges, NoTables
<1>2. UNCHANGED TypesOfTiles
  BY DeviceIsRigid DEF OnlyChanges
<1>. QED
  BY <1>1, <1>2 DEF Types, WiresOf

LEMMA TileRowsKeep ==
  ASSUME TileRows, NEW S, OnlyChanges(S), S \intersect {"phy_tile", "site_instance"} = {},
         {stage, stage'} \intersect {"instances"} = {},
         \/ stage' \notin {"wires", "connect", "count", "classify", "muxes", "grid", "tracks", "flush"}
         \/ stage \in {"wires", "connect", "count", "classify", "muxes", "grid", "tracks", "flush"}
         \/ Len(memory.phy_tile) = Len(device.tiles)
  PROVE  TileRows'
<1>1. /\ memory'.phy_tile = memory.phy_tile /\ memory'.site_instance = memory.site_instance /\ UNCHANGED device
  BY DEF OnlyChanges, NoTables
<1>2. \A n, i : RowsFor(memory', n, i) = RowsFor(memory, n, i)
  BY <1>1 DEF RowsFor
<1>3. RowsMade'
  <2>1. ASSUME NEW n, NEW i PROVE ~Ahead(n, i) /\ ~Ahead(n, i)'
    BY DEF Ahead
  <2>2. ASSUME NEW n \in 1 .. Len(memory.phy_tile), NEW i \in Emitted(device.tiles[n].type)
        PROVE  \E r \in DOMAIN memory.site_instance : RowsFor(memory', n, i) = {r}
    <3>1. RowsMade /\ ~Ahead(n, i)
      BY <2>1 DEF TileRows
    <3>2. \E r \in DOMAIN memory.site_instance : RowsFor(memory, n, i) = {r}
      BY <3>1 DEF RowsMade
    <3>. QED
      BY <1>2, <3>2
  <2>. QED
    BY <1>1, <2>1, <2>2 DEF RowsMade, Emitted, Sites
<1>. QED
  BY <1>1, <1>3 DEF TileRows

LEMMA NodeRowsKeep ==
  ASSUME NodeRows, NEW S, OnlyChanges(S), S \intersect {"wire", "node"} = {}, stage' # "connect",
         \/ stage' \notin {"count", "classify", "muxes", "grid", "tracks", "flush"}
         \/ stage \in {"count", "classify", "muxes", "grid", "tracks", "flush"}
  PROVE  NodeRows'
<1>1. memory'.wire = memory.wire /\ memory'.node = memory.node
  BY DEF OnlyChanges, NoTables
<1>2. UNCHANGED DeviceWires
  BY DeviceIsRigid DEF OnlyChanges
<1>. QED
  BY <1>1, <1>2 DEF NodeRows

(* Before classify_nodes.                                                  *)
LEMMA NoMuxes ==
  ASSUME Muxes, NEW S, OnlyChanges(S), S \intersect {"site_wire", "edge_with_mux"} = {},
         {stage, stage'} \intersect {"muxes", "grid", "tracks", "flush"} = {},
         DOMAIN memory.site_pin \subseteq DOMAIN memory'.site_pin
  PROVE  Muxes'
<1>1. memory'.site_wire = memory.site_wire /\ memory'.edge_with_mux = <<>>
  BY DEF OnlyChanges, NoTables, Muxes
<1>2. \A w : UNCHANGED WireInTile(w)
  BY DeviceIsRigid DEF OnlyChanges
<1>3. \A n \in DOMAIN memory'.site_wire : WireInTile(memory.site_wire[n])' \in DOMAIN memory'.site_pin
  BY <1>1, <1>2 DEF Muxes
<1>4. DOMAIN memory'.edge_with_mux = {}
  BY <1>1
<1>. QED
  BY <1>1, <1>3, <1>4 DEF Muxes

LEMMA SwitchesKeep ==
  ASSUME Switches, NEW S, OnlyChanges(S),
         S \intersect {"switch", "pip_in_tile", "pip_switch", "site_pin"} = {},
         pip_cache' = pip_cache, stage # "tables",
         stage' = "pips" => queue'.left \in Seq(Range(TileTypes[queue'.type].pips))
  PROVE  Switches'
<1>1. /\ memory'.switch = memory.switch /\ memory'.pip_in_tile = memory.pip_in_tile
      /\ memory'.pip_switch = memory.pip_switch /\ memory'.site_pin = memory.site_pin
  BY DEF OnlyChanges, NoTables
<1>2. \A k, r : HasRow(memory', k, r) <=> HasRow(memory, k, r)
  BY <1>1 DEF HasRow
<1>. QED
  BY <1>1, <1>2 DEF Switches, CacheKnows, PipsTimed, PinsTimed

(* form_channels goes on, and no file changes.                             *)
LEMMA Onwards ==
  ASSUME TargetsInv, program = "form_channels", UNCHANGED <<device, file, program, built>>, Importing'
  PROVE  TargetsInv'
<1>1. KeepsTargets
  BY DEF KeepsTargets
<1>. QED
  BY <1>1, TargetsStay DEF TargetsInv

(* What memory has when form_channels leaves the block of the cache.       *)
LEMMA WholeAtFlush ==
  ASSUME NodesInv, Importing, stage = "flush"
  PROVE  Whole(memory) /\ memory.later = <<"classify", "grid", "tracks">>
<1>1. memory.tile_type = TypesOfTiles
  BY DEF Importing, Types
<1>2. Timed(memory)
  <2>1. \A p \in memory.pip_in_tile :
          /\ SwitchRow(memory, memory.pip_switch[p][1]) = SwitchOfPip(p[2], p[2].timing)
          /\ SwitchRow(memory, memory.pip_switch[p][2]) = SwitchOfPip(p[2], p[2].back)
    BY DEF Importing, Switches, PipsTimed, HasRow, SwitchRow
  <2>2. \A w \in DOMAIN memory.site_pin :
          SwitchRow(memory, memory.site_pin[w].switch)
            = SwitchOfPin(TileTypes[w[1]].sites[memory.site_pin[w].site].timing)
    BY DEF Importing, Switches, PinsTimed, HasRow, SwitchRow
  <2>3. /\ DOMAIN memory.edge_with_mux = EdgesWithMux(memory)
        /\ \A x \in DOMAIN memory.edge_with_mux : EdgeTimed(memory, x)
    BY DEF Importing, Muxes
  <2>. QED
    BY <2>1, <2>2, <2>3 DEF Timed, EdgeTimed, SwitchRow
<1>3. Len(memory.phy_tile) = Len(device.tiles) /\ DOMAIN device.tiles = 1 .. Len(device.tiles)
  <2>1. device.tiles \in Seq(Range(device.tiles))
    BY DevicesAssumption DEF NodesInv, GoodTables
  <2>. QED
    BY <2>1, LenProperties DEF Importing, TileRows
<1>4. memory.phy_tile = [n \in DOMAIN device.tiles |-> device.tiles[n].name]
  BY <1>3 DEF Importing, TileRows
<1>5. memory.wire = DeviceWires /\ \A w \in DeviceWires : memory.node[w] = Component(w)
  BY DEF Importing, NodeRows, NodesInv, GoodTables, Good, Component
<1>6. RowsCounted(memory)
  <2> SUFFICES ASSUME NEW n \in DOMAIN device.tiles, NEW i \in Emitted(device.tiles[n].type)
               PROVE  Cardinality(RowsFor(memory, n, i)) = 1
    BY DEF RowsCounted
  <2>1. RowsMade /\ ~Ahead(n, i) /\ n \in 1 .. Len(memory.phy_tile)
    BY <1>3 DEF Importing, TileRows, Ahead
  <2>2. PICK r : RowsFor(memory, n, i) = {r}
    BY <2>1 DEF RowsMade
  <2>. QED
    BY <2>2, FS_Singleton
<1>7. memory.later = <<"classify", "grid", "tracks">>
  BY DEF Importing, Before, Stages
<1>. QED
  BY <1>1, <1>2, <1>4, <1>5, <1>6, <1>7, WholeParts

(* At the end of its program a target is what the program left.            *)
Complete ==
  [form_channels |-> <<"classify", "grid", "tracks">>,
   create_edges |-> <<"classify", "grid", "tracks", "edges", "channels", "locs", "feeds", "lengths">>]

LEMMA NewTarget ==
  ASSUME TargetsInv, NodesInv, UNCHANGED device, program \in DOMAIN Complete,
         program' = "none", built' = built \union {program},
         DOMAIN file' = DOMAIN file, \A f \in DOMAIN file \ {program} : file'[f] = file[f],
         NEW t, t = file'[program], Whole(t), IsTables(t), t.later = Complete[program]
  PROVE  TargetsInv'
<1> DEFINE Both == {"form_channels", "create_edges"}
<1>1. program \in Both /\ DOMAIN file = Both /\ program \notin built
  BY DEF Complete, TargetsInv, NodesInv, GoodTables
<1>2. ASSUME NEW f \in Both, f \in built'
      PROVE  Whole(file[f])' /\ IsTables(file'[f]) /\ file'[f].later = Complete[f]
  <2>1. PICK u : u = file'[f]
    OBVIOUS
  <2>2. Whole(u) /\ IsTables(u) /\ u.later = Complete[f]
    <3>1. CASE f = program
      BY <2>1, <3>1
    <3>2. CASE f # program
      <4>1. f \in built /\ u = file[f]
        BY <1>1, <1>2, <2>1, <3>2
      <4>. QED
        BY <4>1 DEF TargetsInv, TargetsAreWhole, Complete
    <3>. QED
      BY <3>1, <3>2
  <2>3. Whole(u)'
    BY <2>2, WholeIsRigid
  <2>. QED
    BY <2>1, <2>2, <2>3
<1>3. TargetsAreWhole'
  BY <1>2 DEF TargetsAreWhole, Complete
<1>4. \A f \in built' \intersect Both : IsTables(file'[f])
  BY <1>2
<1>5. "none" \notin built' /\ built' \subseteq {"form_channels", "pin_assignments", "create_edges"}
  BY <1>1 DEF TargetsInv
<1>. QED
  BY <1>3, <1>4, <1>5 DEF TargetsInv

(* An import begins without tables.                                        *)
LEMMA ImportBegins ==
  ASSUME NodesInv, UNCHANGED device, memory' = NoTables, stage' = "tables"
  PROVE  Importing'
<1>1. Len(device.tiles) \in Nat
  <2>1. device.tiles \in Seq(Range(device.tiles))
    BY DevicesAssumption DEF NodesInv, GoodTables
  <2>. QED
    BY <2>1, LenProperties
<1>2. /\ NoTables.pip_in_tile = {} /\ DOMAIN NoTables.site_pin = {} /\ NoTables.wire_in_tile = {}
      /\ NoTables.tile_type = {} /\ NoTables.phy_tile = <<>> /\ NoTables.site_instance = <<>>
      /\ NoTables.site_wire = <<>> /\ NoTables.edge_with_mux = <<>> /\ NoTables.later = <<>>
  BY DEF NoTables
<1>3. IsTables(NoTables) /\ Before["tables"] = <<>> /\ "tables" \in Stages
  BY DEF IsTables, Before, Stages
<1>4. Switches'
  BY <1>2 DEF Switches, PipsTimed, PinsTimed
<1>5. Types'
  BY <1>2 DEF Types, WiresOf
<1>6. SiteRows'
  BY DEF SiteRows
<1>7. TileRows'
  <2>1. RowsMade'
    BY <1>2 DEF RowsMade
  <2>2. memory'.site_instance \in Seq(Instances(0))
    BY <1>2
  <2>3. Len(memory'.phy_tile) = 0 /\ memory'.phy_tile = [n \in 1 .. 0 |-> device'.tiles[n].name]
    BY <1>2
  <2>. QED
    BY <1>1, <2>1, <2>2, <2>3 DEF TileRows
<1>8. NodeRows'
  BY DEF NodeRows
<1>9. Muxes'
  <2>1. DOMAIN memory'.site_wire = {} /\ memory'.edge_with_mux = <<>> /\ DOMAIN memory'.edge_with_mux = {}
    BY <1>2
  <2>. QED
    BY <2>1 DEF Muxes
<1>. QED
  BY <1>2, <1>3, <1>4, <1>5, <1>6, <1>7, <1>8, <1>9 DEF Importing

LEMMA ChangesInOrder ==
  ASSUME NEW s \in {"channels", "locs", "feeds", "lengths"}
  PROVE  After[s] \in EdgeStages \ {"edges", "flush"} /\ EdgesBefore[After[s]] = Append(EdgesBefore[s], s)
<1>1. CASE s = "channels"
  BY <1>1 DEF EdgesBefore, EdgeStages, After
<1>2. CASE s = "locs"
  BY <1>2 DEF EdgesBefore, EdgeStages, After
<1>3. CASE s = "feeds"
  BY <1>3 DEF EdgesBefore, EdgeStages, After
<1>4. CASE s = "lengths"
  BY <1>4 DEF EdgesBefore, EdgeStages, After
<1>. QED
  BY <1>1, <1>2, <1>3, <1>4

LEMMA TargetPrograms ==
  ASSUME TargetsInv, NodesInv,
         StartFormChannels \/ Flush \/ AssignPins \/ StartCreateEdges \/ ChangeFile
           \/ VerifyChannels \/ Fail
  PROVE  TargetsInv'
<1> DEFINE Both == {"form_channels", "create_edges"}
<1>1. DOMAIN file = Both /\ program \in Both \union {"none"} /\ program \notin built
  BY DEF TargetsInv, NodesInv, GoodTables
<1>2. CASE StartFormChannels
  <2>1. /\ "form_channels" \notin built /\ program' = "form_channels" /\ stage' = "tables"
        /\ file' = [file EXCEPT !["form_channels"] = NoTables] /\ memory' = NoTables
        /\ UNCHANGED <<device, built>>
    BY <1>1, <1>2 DEF StartFormChannels, Removed
  <2>2. KeepsTargets
    BY <1>1, <2>1 DEF KeepsTargets
  <2>3. Importing'
    BY <2>1, ImportBegins
  <2>. QED
    BY <2>1, <2>2, <2>3, TargetsStay DEF TargetsInv
<1>3. CASE Flush
  <2>1. CASE program = "form_channels"
    <3>1. Importing /\ stage = "flush"
      BY <1>3, <2>1 DEF Flush, TargetsInv
    <3>2. /\ file' = [file EXCEPT ![program] = memory] /\ built' = built \union {program}
          /\ program' = "none" /\ UNCHANGED device
      BY <1>3, <2>1 DEF Flush, Ends
    <3>3. file'[program] = memory /\ DOMAIN file' = DOMAIN file
          /\ \A f \in DOMAIN file \ {program} : file'[f] = file[f]
      BY <1>1, <2>1, <3>2
    <3>4. Whole(memory) /\ IsTables(memory) /\ memory.later = Complete[program] /\ program \in DOMAIN Complete
      BY <2>1, <3>1, WholeAtFlush DEF Importing, Complete
    <3>. QED
      BY <3>2, <3>3, <3>4, NewTarget
  <2>2. CASE program = "create_edges"
    <3>1. /\ Creating /\ stage = "flush" /\ file' = [file EXCEPT !["create_edges"] = memory]
          /\ stage' = "channels" /\ UNCHANGED <<device, program, built>>
      BY <1>3, <2>2 DEF Flush, TargetsInv
    <3>2. KeepsTargets
      BY <1>1, <2>2, <3>1 DEF KeepsTargets
    <3>3. PICK t : t = memory
      OBVIOUS
    <3>4. Whole(t) /\ IsTables(t) /\ t.later = EdgesBefore["flush"] /\ "form_channels" \in built
      BY <3>1, <3>3 DEF Creating
    <3>5. Whole(t)' /\ file'["create_edges"] = t
      BY <1>1, <3>1, <3>3, <3>4, WholeIsRigid
    <3>6. Creating'
      BY <3>1, <3>4, <3>5 DEF Creating, EdgesBefore, EdgeStages
    <3>. QED
      BY <2>2, <3>1, <3>2, <3>6, TargetsStay DEF TargetsInv
  <2>. QED
    BY <1>1, <1>3, <2>1, <2>2 DEF Flush
<1>4. CASE AssignPins
  <2>1. UNCHANGED <<device, file, program>> /\ program = "none" /\ built' = built \union {"pin_assignments"}
    BY <1>4 DEF AssignPins
  <2>2. KeepsTargets
    BY <2>1 DEF KeepsTargets
  <2>. QED
    BY <2>1, <2>2, TargetsStay DEF TargetsInv
<1>5. CASE StartCreateEdges
  <2>1. /\ "form_channels" \in built /\ "create_edges" \notin built
        /\ program' = "create_edges" /\ stage' = "edges"
        /\ file' = [file EXCEPT !["create_edges"] = file["form_channels"]]
        /\ memory' = file'["create_edges"] /\ UNCHANGED <<device, built>>
    BY <1>5 DEF StartCreateEdges
  <2>2. KeepsTargets
    BY <1>1, <2>1 DEF KeepsTargets
  <2>3. PICK t : t = file["form_channels"]
    OBVIOUS
  <2>4. Whole(t) /\ IsTables(t) /\ t.later = EdgesBefore["edges"]
    BY <2>1, <2>3 DEF TargetsInv, TargetsAreWhole, EdgesBefore, EdgeStages
  <2>5. Whole(t)' /\ memory' = t
    BY <1>1, <2>1, <2>3, <2>4, WholeIsRigid
  <2>6. Creating'
    BY <2>1, <2>4, <2>5 DEF Creating, EdgeStages
  <2>. QED
    BY <2>1, <2>2, <2>6, TargetsStay DEF TargetsInv
<1>6. CASE ChangeFile
  <2>1. /\ program = "create_edges" /\ stage \in DOMAIN After /\ stage' = After[stage]
        /\ file' = [file EXCEPT !["create_edges"] = Done(file["create_edges"], stage)]
        /\ UNCHANGED <<device, program, built>> /\ Creating
    BY <1>6 DEF ChangeFile, TargetsInv
  <2>2. KeepsTargets
    BY <1>1, <2>1 DEF KeepsTargets
  <2>3. stage \in {"channels", "locs", "feeds", "lengths"}
    BY <2>1 DEF After
  <2>4. PICK t : t = Done(file["create_edges"], stage)
    OBVIOUS
  <2>5. Whole(file["create_edges"]) /\ IsTables(file["create_edges"])
        /\ file["create_edges"].later = EdgesBefore[stage] /\ "form_channels" \in built
    BY <2>1, <2>3 DEF Creating
  <2>6. Whole(t) /\ IsTables(t) /\ t.later = Append(EdgesBefore[stage], stage)
    BY <2>4, <2>5, DoneIsWhole
  <2>7. After[stage] \in EdgeStages \ {"edges", "flush"}
        /\ EdgesBefore[After[stage]] = Append(EdgesBefore[stage], stage)
    BY <2>3, ChangesInOrder
  <2>8. Whole(t)' /\ file'["create_edges"] = t
    BY <1>1, <2>1, <2>4, <2>6, WholeIsRigid
  <2>9. Creating'
    BY <2>1, <2>5, <2>6, <2>7, <2>8 DEF Creating
  <2>. QED
    BY <2>1, <2>2, <2>9, TargetsStay DEF TargetsInv
<1>7. CASE VerifyChannels
  <2>1. /\ program = "create_edges" /\ stage = "verify" /\ built' = built \union {program}
        /\ program' = "none" /\ UNCHANGED <<device, file>> /\ Creating
    BY <1>7 DEF VerifyChannels, Runs, Ends, TargetsInv
  <2>2. Whole(file[program]) /\ IsTables(file[program]) /\ file[program].later = Complete[program]
        /\ program \in DOMAIN Complete
    BY <2>1 DEF Creating, Complete, EdgesBefore, EdgeStages
  <2>. QED
    BY <2>1, <2>2, NewTarget
<1>8. CASE Fail
  <2>1. PICK t : file' = file \/ file' = [file EXCEPT ![program] = t]
    BY <1>8 DEF Fail
  <2>2. program # "none" /\ Ends /\ UNCHANGED <<device, built>>
    BY <1>8 DEF Fail, Succeeds
  <2>. QED
    BY <2>1, <2>2, StopTargets
<1>. QED
  BY <1>2, <1>3, <1>4, <1>5, <1>6, <1>7, <1>8

LEMMA LaterIsEmpty == \A s \in Stages \ {"grid", "tracks", "flush"} : Before[s] = <<>>
BY DEF Before

LEMMA TailOfSequence ==
  ASSUME NEW S, NEW q \in Seq(S), q # <<>>
  PROVE  Tail(q) \in Seq(S) /\ Head(q) \in S
OBVIOUS

LEMMA TypesAreKnown ==
  ASSUME NodesInv
  PROVE  TypesOfTiles \subseteq DOMAIN TileTypes
<1> SUFFICES ASSUME NEW n \in DOMAIN device.tiles PROVE device.tiles[n].type \in DOMAIN TileTypes
  BY DEF TypesOfTiles
<1>1. device.tiles[n] \in Range(device.tiles) /\ device \in Devices
  BY DEF Range, NodesInv, GoodTables
<1>. QED
  BY <1>1, DevicesAssumption

LEMMA RaisedStops ==
  ASSUME TargetsInv, NodesInv, program # "none", UNCHANGED device, NEW t, RaisedWith(t)
  PROVE  TargetsInv'
<1>1. file' = [file EXCEPT ![program] = t] /\ Ends /\ UNCHANGED built
  BY DEF RaisedWith
<1>. QED
  BY <1>1, StopTargets

LEMMA TablesImport ==
  ASSUME TargetsInv, NodesInv, CreateTables
  PROVE  TargetsInv'
<1>1. program = "form_channels" /\ stage = "tables" /\ Importing /\ memory = NoTables
  BY DEF CreateTables, Runs, TargetsInv, Importing
<1>2. /\ memory' = [memory EXCEPT !.created = TRUE, !.switch = <<Delayless>>]
      /\ pip_cache' = [row \in {Delayless} |-> 1]
      /\ stage' = "types" /\ left' = TypesOfTiles /\ UNCHANGED <<device, file, program, built>>
  BY <1>1 DEF CreateTables, Proceeds, NoTables
<1>3. OnlyChanges({"created", "switch"}) /\ memory'.switch = <<Delayless>> /\ memory'.later = <<>>
  BY <1>1, <1>2 DEF OnlyChanges, IsTables, NoTables
<1>4. Switches'
  <2>1. memory'.switch \in Seq(Range(memory'.switch)) /\ DOMAIN memory'.switch = {1} /\ memory'.switch[1] = Delayless
    <3>1. DOMAIN <<Delayless>> = 1 .. 1 /\ <<Delayless>>[1] = Delayless /\ <<Delayless>> \in Seq({Delayless})
      OBVIOUS
    <3>2. Range(<<Delayless>>) = {Delayless}
      BY <3>1 DEF Range
    <3>. QED
      BY <1>3, <3>1, <3>2
  <2>2. \A r \in DOMAIN pip_cache' : HasRow(memory', pip_cache'[r], r)
    BY <1>2, <2>1 DEF HasRow
  <2>3. memory'.pip_in_tile = {} /\ DOMAIN memory'.site_pin = {}
    <3>1. NoTables.pip_in_tile = {} /\ DOMAIN NoTables.site_pin = {}
      BY DEF NoTables
    <3>. QED
      BY <1>1, <1>3, <3>1 DEF OnlyChanges, NoTables
  <2>. QED
    BY <1>2, <2>1, <2>2, <2>3 DEF Switches, CacheKnows, PipsTimed, PinsTimed
<1>5. Types'
  <2>1. memory'.tile_type = {} /\ memory'.wire_in_tile = {}
    BY <1>1, <1>3 DEF OnlyChanges, NoTables
  <2>2. UNCHANGED TypesOfTiles
    BY <1>2, DeviceIsRigid
  <2>. QED
    BY <1>2, <2>1, <2>2 DEF Types, WiresOf
<1>6. SiteRows'
  BY <1>2 DEF SiteRows
<1>7. TileRows'
  BY <1>1, <1>2, <1>3, TileRowsKeep DEF Importing
<1>8. NodeRows'
  BY <1>2 DEF NodeRows
<1>9. Muxes'
  <2>1. memory'.site_pin = memory.site_pin
    BY <1>3 DEF OnlyChanges, NoTables
  <2>. QED
    BY <1>1, <1>2, <1>3, <2>1, NoMuxes DEF Importing
<1>10. Importing'
  BY <1>2, <1>3, <1>4, <1>5, <1>6, <1>7, <1>8, <1>9, LaterIsEmpty DEF Importing, OnlyChanges, Stages
<1>. QED
  BY <1>1, <1>2, <1>10, Onwards

LEMMA TileTypeImport ==
  ASSUME TargetsInv, NodesInv, NEW ty \in left, ImportTileType(ty)
  PROVE  TargetsInv'
<1>1. program = "form_channels" /\ stage = "types" /\ Importing
  BY DEF ImportTileType, Runs, TargetsInv
<1>2. /\ memory' = [memory EXCEPT !.tile_type = @ \union {ty},
                       !.wire_in_tile = @ \union ({ty} \X (TileTypes[ty].wires \ MaskedWires(ty)))]
      /\ queue' = Loop(ty, TileTypes[ty].pips, 0) /\ UNCHANGED pip_cache
      /\ stage' = "pips" /\ left' = left \ {ty} /\ UNCHANGED <<device, file, program, built>>
  BY DEF ImportTileType, Proceeds
<1>3. OnlyChanges({"tile_type", "wire_in_tile"}) /\ memory'.later = memory.later
      /\ memory'.tile_type = memory.tile_type \union {ty}
      /\ memory'.wire_in_tile = memory.wire_in_tile \union ({ty} \X (TileTypes[ty].wires \ MaskedWires(ty)))
  BY <1>1, <1>2 DEF OnlyChanges, Importing, IsTables, NoTables
<1>4. queue'.type = ty /\ queue'.left = TileTypes[ty].pips /\ DOMAIN queue' = DOMAIN Idle
  BY <1>2 DEF Loop, Idle
<1>5. ty \in TypesOfTiles /\ left \subseteq TypesOfTiles
  BY <1>1 DEF Importing, Types
<1>6. TileTypes[ty].pips \in Seq(Range(TileTypes[ty].pips))
  BY <1>5, TypesAreKnown, TileTypesAssumption
<1>7. Switches'
  BY <1>1, <1>2, <1>3, <1>4, <1>6, SwitchesKeep DEF Importing
<1>8. Types'
  <2>1. UNCHANGED TypesOfTiles
    BY <1>2, DeviceIsRigid
  <2>2. memory'.wire_in_tile = WiresOf(memory'.tile_type)
    BY <1>1, <1>3 DEF Importing, Types, WiresOf
  <2>3. memory'.site_type = memory.site_type
    BY <1>3 DEF OnlyChanges, NoTables
  <2>4. \A u \in memory.tile_type : \A i \in Emitted(u) : TileTypes[u].sites[i].type \in memory.site_type
    BY <1>1 DEF Importing, Types
  <2>5. memory'.tile_type = TypesOfTiles \ left'
    BY <1>1, <1>2, <1>3, <1>5 DEF Importing, Types
  <2>. QED
    BY <1>2, <1>3, <1>4, <1>5, <2>1, <2>2, <2>3, <2>4, <2>5 DEF Types, WiresOf
<1>9. SiteRows'
  BY <1>2 DEF SiteRows
<1>10. TileRows'
  BY <1>1, <1>2, <1>3, TileRowsKeep DEF Importing
<1>11. NodeRows'
  BY <1>2 DEF NodeRows
<1>12. Muxes'
  <2>1. memory'.site_pin = memory.site_pin
    BY <1>3 DEF OnlyChanges, NoTables
  <2>. QED
    BY <1>1, <1>2, <1>3, <2>1, NoMuxes DEF Importing
<1>13. Importing'
  BY <1>1, <1>2, <1>3, <1>4, <1>7, <1>8, <1>9, <1>10, <1>11, <1>12, LaterIsEmpty
     DEF Importing, OnlyChanges, Stages
<1>. QED
  BY <1>1, <1>2, <1>13, Onwards

(* Types is about what ImportPip leaves alone.                             *)
LEMMA TypesWait ==
  ASSUME Types, NEW S, OnlyChanges(S), S \intersect {"wire_in_tile", "tile_type", "site_type"} = {},
         stage' = stage, left' = left, queue'.type = queue.type
  PROVE  Types'
<1>1. /\ memory'.wire_in_tile = memory.wire_in_tile /\ memory'.tile_type = memory.tile_type
      /\ memory'.site_type = memory.site_type
  BY DEF OnlyChanges, NoTables
<1>2. UNCHANGED TypesOfTiles
  BY DeviceIsRigid DEF OnlyChanges
<1>. QED
  BY <1>1, <1>2 DEF Types, WiresOf

LEMMA PipImport ==
  ASSUME TargetsInv, NodesInv, ImportPip
  PROVE  TargetsInv'
<1> DEFINE p == Head(queue.left)
           pip == <<queue.type, p>>
           forward == SwitchOfPip(p, p.timing)
           backward == SwitchOfPip(p, p.back)
           s1 == GetSwitchTiming(Now, forward)
           s == GetSwitchTiming(s1, backward)
<1>1. program = "form_channels" /\ stage = "pips" /\ Importing /\ queue.left # <<>> /\ UNCHANGED device
  BY DEF ImportPip, Runs, TargetsInv
<1>2. queue.left \in Seq(Range(TileTypes[queue.type].pips)) /\ CacheKnows(memory, pip_cache)
      /\ PipsTimed(memory) /\ PinsTimed(memory) /\ DOMAIN queue = DOMAIN Idle
      /\ queue.type \in DOMAIN TileTypes
  BY <1>1, TypesAreKnown DEF Importing, Switches, Types
<1>3. p \in Range(TileTypes[queue.type].pips) /\ Tail(queue.left) \in Seq(Range(TileTypes[queue.type].pips))
  BY <1>1, <1>2, TailOfSequence
<1>4. /\ Extends(memory, s.memory) /\ CacheKnows(s.memory, s.cache)
      /\ HasRow(s.memory, s.cache[forward], forward) /\ HasRow(s.memory, s.cache[backward], backward)
  <2> HIDE DEF forward, backward
  <2>1. Now.memory = memory /\ Now.cache = pip_cache
    BY DEF Now
  <2>2. Extends(memory, s1.memory) /\ CacheKnows(s1.memory, s1.cache) /\ HasRow(s1.memory, s1.cache[forward], forward)
    <3>1. IsTables(Now.memory) /\ CacheKnows(Now.memory, Now.cache)
      BY <1>1, <1>2, <2>1 DEF Importing
    <3>. QED
      BY <2>1, <3>1, SwitchIsKnown
  <2>3. forward \in DOMAIN s1.cache
    BY <2>1 DEF GetSwitchTiming
  <2> HIDE DEF s1
  <2>4. IsTables(s1.memory)
    BY <2>2 DEF Extends
  <2>5. Extends(s1.memory, s.memory) /\ CacheKnows(s.memory, s.cache) /\ HasRow(s.memory, s.cache[backward], backward)
    BY <2>2, <2>4, SwitchIsKnown
  <2>6. forward \in DOMAIN s.cache
    BY <2>3 DEF GetSwitchTiming
  <2> HIDE DEF s
  <2>7. HasRow(s.memory, s.cache[forward], forward)
    BY <2>5, <2>6 DEF CacheKnows
  <2>8. Extends(memory, s.memory)
    BY <2>2, <2>5 DEF Extends, HasRow
  <2>. QED
    BY <2>5, <2>7, <2>8
<1>5. CASE RaisedWith(s.committed)
  BY <1>1, <1>5, RaisedStops
<1>6. CASE ~RaisedWith(s.committed)
  <2>1. /\ queue' = [queue EXCEPT !.left = Tail(@)] /\ UNCHANGED <<file, program, stage, left, wires, built>>
    BY <1>6 DEF ImportPip, Continues
  <2>2. DOMAIN queue' = DOMAIN Idle /\ queue'.type = queue.type /\ queue'.left = Tail(queue.left)
    BY <1>2, <2>1 DEF Idle, Loop
  <2>3. CASE p \in MaskedPips(queue.type)
    <3>1. UNCHANGED <<memory, pip_cache>>
      BY <1>6, <2>3 DEF ImportPip
    <3>2. OnlyChanges({}) /\ memory'.later = memory.later /\ memory'.site_pin = memory.site_pin
      BY <1>1, <3>1 DEF OnlyChanges, Importing
    <3>3. Switches'
      BY <1>1, <1>3, <2>1, <2>2, <3>1, <3>2, SwitchesKeep DEF Importing
    <3>4. Types'
      BY <1>1, <2>1, <2>2, <3>2, TypesWait DEF Importing
    <3>5. SiteRows' /\ NodeRows'
      BY <1>1, <2>1 DEF SiteRows, NodeRows
    <3>6. TileRows'
      BY <1>1, <2>1, <3>2, TileRowsKeep DEF Importing
    <3>7. Muxes'
      BY <1>1, <2>1, <3>2, NoMuxes DEF Importing
    <3>8. Importing'
      BY <1>1, <2>1, <2>2, <3>2, <3>3, <3>4, <3>5, <3>6, <3>7 DEF Importing, OnlyChanges
    <3>. QED
      BY <1>1, <2>1, <3>8, Onwards
  <2>4. CASE p \notin MaskedPips(queue.type)
    <3>1. /\ memory' = [s.memory EXCEPT
               !.pip_in_tile = @ \union {pip},
               !.pip_switch = [r \in DOMAIN @ \union {pip} |->
                 IF r = pip THEN <<s.cache[forward], s.cache[backward]>> ELSE @[r]]]
          /\ pip_cache' = s.cache
      BY <1>6, <2>4 DEF ImportPip
    <3> HIDE DEF s, s1, forward, backward
    <3>2. /\ OnlyChanges({"switch", "pip_in_tile", "pip_switch"})
          /\ memory'.pip_in_tile = memory.pip_in_tile \union {pip}
          /\ memory'.pip_switch = [r \in DOMAIN memory.pip_switch \union {pip} |->
               IF r = pip THEN <<s.cache[forward], s.cache[backward]>> ELSE memory.pip_switch[r]]
          /\ memory'.switch = s.memory.switch
      BY <1>1, <1>4, <3>1 DEF OnlyChanges, Extends, IsTables, NoTables
    <3>3. \A k, r : HasRow(s.memory, k, r) => HasRow(memory', k, r)
      BY <3>2 DEF HasRow
    <3>4. CacheKnows(memory', pip_cache')
      BY <1>4, <3>1, <3>2, <3>3 DEF CacheKnows
    <3>5. PipsTimed(s.memory) /\ PinsTimed(s.memory)
      BY <1>2, <1>4, ExtendsTimed
    <3>6. PinsTimed(memory')
      <4>1. memory'.site_pin = memory.site_pin /\ s.memory.site_pin = memory.site_pin
        BY <1>4, <3>2 DEF OnlyChanges, Extends, NoTables
      <4>. QED
        BY <3>3, <3>5, <4>1 DEF PinsTimed
    <3>7. PipsTimed(memory')
      <4>1. s.memory.pip_in_tile = memory.pip_in_tile /\ s.memory.pip_switch = memory.pip_switch
        BY <1>4 DEF Extends, NoTables
      <4> SUFFICES ASSUME NEW r \in memory'.pip_in_tile
                   PROVE  /\ r \in DOMAIN memory'.pip_switch /\ r[1] \in DOMAIN TileTypes
                          /\ r[2] \in Range(TileTypes[r[1]].pips)
                          /\ HasRow(memory', memory'.pip_switch[r][1], SwitchOfPip(r[2], r[2].timing))
                          /\ HasRow(memory', memory'.pip_switch[r][2], SwitchOfPip(r[2], r[2].back))
        BY DEF PipsTimed
      <4>2. CASE r = pip
        <5>1. memory'.pip_switch[r] = <<s.cache[forward], s.cache[backward]>> /\ r \in DOMAIN memory'.pip_switch
          BY <3>2, <4>2
        <5>2. HasRow(memory', s.cache[forward], forward) /\ HasRow(memory', s.cache[backward], backward)
          BY <1>4, <3>3
        <5>. QED
          BY <1>2, <1>3, <4>2, <5>1, <5>2 DEF forward, backward
      <4>3. CASE r # pip
        <5>1. r \in memory.pip_in_tile
          BY <3>2, <4>3
        <5>2. r \in DOMAIN memory.pip_switch /\ r[1] \in DOMAIN TileTypes /\ r[2] \in Range(TileTypes[r[1]].pips)
              /\ HasRow(s.memory, memory.pip_switch[r][1], SwitchOfPip(r[2], r[2].timing))
              /\ HasRow(s.memory, memory.pip_switch[r][2], SwitchOfPip(r[2], r[2].back))
          BY <3>5, <4>1, <5>1 DEF PipsTimed
        <5>3. memory'.pip_switch[r] = memory.pip_switch[r] /\ r \in DOMAIN memory'.pip_switch
          BY <3>2, <4>3, <5>2
        <5>. QED
          BY <3>3, <5>2, <5>3
      <4>. QED
        BY <4>2, <4>3
    <3>8. Switches'
      BY <1>1, <1>3, <2>1, <2>2, <3>4, <3>6, <3>7 DEF Switches
    <3>9. Types'
      BY <1>1, <2>1, <2>2, <3>2, TypesWait DEF Importing
    <3>10. SiteRows' /\ NodeRows'
      BY <1>1, <2>1 DEF SiteRows, NodeRows
    <3>11. TileRows'
      BY <1>1, <2>1, <3>2, TileRowsKeep DEF Importing
    <3>12. Muxes'
      <4>1. memory'.site_pin = memory.site_pin
        BY <3>2 DEF OnlyChanges, NoTables
      <4>. QED
        BY <1>1, <2>1, <3>2, <4>1, NoMuxes DEF Importing
    <3>13. memory'.later = memory.later
      BY <3>2 DEF OnlyChanges, NoTables
    <3>14. Importing'
      BY <1>1, <2>1, <2>2, <3>2, <3>8, <3>9, <3>10, <3>11, <3>12, <3>13 DEF Importing, OnlyChanges
    <3>. QED
      BY <1>1, <2>1, <3>14, Onwards
  <2>. QED
    BY <2>3, <2>4
<1>. QED
  BY <1>5, <1>6

LEMMA SiteTypesImport ==
  ASSUME TargetsInv, NodesInv, ImportSiteTypes
  PROVE  TargetsInv'
<1> DEFINE sites == TileTypes[queue.type].sites
<1>1. program = "form_channels" /\ stage = "pips" /\ Importing
  BY DEF ImportSiteTypes, Runs, TargetsInv
<1>2. /\ memory' = [memory EXCEPT !.site_type = @ \union {sites[i].type : i \in DOMAIN sites \ MaskedSites(queue.type)}]
      /\ stage' = "types" /\ UNCHANGED <<device, file, program, built, left, pip_cache>>
  BY DEF ImportSiteTypes, Proceeds
<1>3. OnlyChanges({"site_type"}) /\ memory'.later = memory.later /\ memory'.site_pin = memory.site_pin
      /\ memory'.site_type = memory.site_type \union {sites[i].type : i \in Emitted(queue.type)}
  BY <1>1, <1>2 DEF OnlyChanges, Importing, IsTables, NoTables, Emitted, Sites
<1>4. Switches'
  BY <1>1, <1>2, <1>3, SwitchesKeep DEF Importing
<1>5. Types'
  <2>1. UNCHANGED TypesOfTiles
    BY <1>2, DeviceIsRigid
  <2>2. memory'.tile_type = memory.tile_type /\ memory'.wire_in_tile = memory.wire_in_tile
    BY <1>3 DEF OnlyChanges, NoTables
  <2>3. \A ty \in memory.tile_type : \A i \in Emitted(ty) : TileTypes[ty].sites[i].type \in memory'.site_type
    BY <1>1, <1>3 DEF Importing, Types
  <2>. QED
    BY <1>1, <1>2, <2>1, <2>2, <2>3 DEF Importing, Types, WiresOf
<1>6. SiteRows' /\ NodeRows'
  BY <1>2 DEF SiteRows, NodeRows
<1>7. TileRows'
  BY <1>1, <1>2, <1>3, TileRowsKeep DEF Importing
<1>8. Muxes'
  BY <1>1, <1>2, <1>3, NoMuxes DEF Importing
<1>9. Importing'
  BY <1>1, <1>2, <1>3, <1>4, <1>5, <1>6, <1>7, <1>8, LaterIsEmpty DEF Importing, OnlyChanges, Stages
<1>. QED
  BY <1>1, <1>2, <1>9, Onwards

LEMMA TileTypesCommit ==
  ASSUME TargetsInv, NodesInv, CommitTileTypes
  PROVE  TargetsInv'
<1>1. program = "form_channels" /\ stage = "types" /\ Importing /\ left = {}
  BY DEF CommitTileTypes, Runs, TargetsInv
<1>2. /\ stage' = "sites" /\ left' = TypesOfTiles
      /\ UNCHANGED <<device, memory, file, program, built, pip_cache, queue>>
  BY DEF CommitTileTypes, Proceeds, inner
<1>3. OnlyChanges({})
  BY <1>1, <1>2 DEF OnlyChanges, Importing
<1>4. Switches'
  BY <1>1, <1>2, <1>3, SwitchesKeep DEF Importing
<1>5. UNCHANGED TypesOfTiles
  BY <1>2, DeviceIsRigid
<1>6. Types'
  BY <1>1, <1>2, <1>5 DEF Importing, Types, WiresOf
<1>7. SiteRows' /\ NodeRows'
  BY <1>2, <1>5 DEF SiteRows, NodeRows
<1>8. TileRows'
  BY <1>1, <1>2, <1>3, TileRowsKeep DEF Importing
<1>9. Muxes'
  BY <1>1, <1>2, <1>3, NoMuxes DEF Importing
<1>10. Importing'
  BY <1>1, <1>2, <1>3, <1>4, <1>6, <1>7, <1>8, <1>9, LaterIsEmpty DEF Importing, OnlyChanges, Stages
<1>. QED
  BY <1>1, <1>2, <1>10, Onwards

LEMMA RestOfLoop ==
  ASSUME NEW n \in Nat, NEW q, Rest(q, n), q # <<>>
  PROVE  /\ Len(q) \in 1 .. n /\ Head(q) = n - Len(q) + 1
         /\ Rest(Tail(q), n) /\ Len(Tail(q)) = Len(q) - 1
<1>1. Len(q) \in 0 .. n /\ q = [j \in 1 .. Len(q) |-> n - Len(q) + j]
  BY DEF Rest
<1>2. q \in Seq(Int)
  <2>1. Len(q) \in Nat /\ q \in [1 .. Len(q) -> Int]
    BY <1>1
  <2>. QED
    BY <2>1, SeqDef
<1>3. Len(q) \in 1 .. n
  BY <1>1, <1>2
<1>4. /\ Tail(q) \in Seq(Int) /\ Len(Tail(q)) = Len(q) - 1 /\ Head(q) = q[1]
      /\ \A j \in 1 .. Len(q) - 1 : Tail(q)[j] = q[j + 1]
  BY <1>2, <1>3
<1>5. Head(q) = n - Len(q) + 1
  BY <1>1, <1>3, <1>4
<1>6. DOMAIN Tail(q) = 1 .. Len(q) - 1
  BY <1>4, LenProperties
<1>7. \A j \in 1 .. Len(q) - 1 : Tail(q)[j] = n - Len(Tail(q)) + j
  BY <1>1, <1>3, <1>4
<1>8. Tail(q) = [j \in 1 .. Len(Tail(q)) |-> n - Len(Tail(q)) + j]
  <2>1. Tail(q) \in [1 .. Len(q) - 1 -> Int]
    BY <1>4, LenProperties
  <2>. QED
    BY <1>3, <1>4, <1>7, <2>1
<1>. QED
  BY <1>3, <1>4, <1>5, <1>8 DEF Rest

LEMMA SitesAreCountable ==
  ASSUME NEW ty \in DOMAIN TileTypes
  PROVE  /\ Len(TileTypes[ty].sites) \in Nat /\ Sites(ty) = 1 .. Len(TileTypes[ty].sites)
         /\ Rest(SitesOf(ty), Len(TileTypes[ty].sites))
         /\ Len(SitesOf(ty)) = Len(TileTypes[ty].sites)
<1> DEFINE n == Len(TileTypes[ty].sites)
<1>1. TileTypes[ty].sites \in Seq(Range(TileTypes[ty].sites))
  BY TileTypesAssumption
<1>2. n \in Nat /\ DOMAIN TileTypes[ty].sites = 1 .. n
  BY <1>1, LenProperties
<1>3. SitesOf(ty) = [i \in 1 .. n |-> i]
  BY <1>2 DEF SitesOf
<1> HIDE DEF n
<1>4. SitesOf(ty) \in Seq(Int) /\ SitesOf(ty) \in [1 .. n -> Int]
  <2>1. SitesOf(ty) \in [1 .. n -> Int]
    BY <1>2, <1>3
  <2>. QED
    BY <1>2, <2>1, SeqDef
<1>5. Len(SitesOf(ty)) = n
  BY <1>2, <1>4, LenProperties
<1>6. SitesOf(ty) = [j \in 1 .. n |-> n - n + j]
  BY <1>2, <1>3
<1>7. Rest(SitesOf(ty), n)
  BY <1>2, <1>5, <1>6 DEF Rest
<1>. QED
  BY <1>2, <1>5, <1>7 DEF Sites, n

(* What ImportSite has gone through, and goes through next.                *)
LEMMA SeenGrows ==
  ASSUME NEW ty \in DOMAIN TileTypes, NEW q, Rest(q, Len(TileTypes[ty].sites)), q # <<>>
  PROVE  /\ Head(q) \in Sites(ty) /\ Rest(Tail(q), Len(TileTypes[ty].sites))
         /\ 1 .. Len(TileTypes[ty].sites) - Len(Tail(q))
              = (1 .. Len(TileTypes[ty].sites) - Len(q)) \union {Head(q)}
         /\ Head(q) \notin 1 .. Len(TileTypes[ty].sites) - Len(q)
<1> DEFINE n == Len(TileTypes[ty].sites)
<1>1. n \in Nat /\ Sites(ty) = 1 .. n
  BY SitesAreCountable
<1> HIDE DEF n
<1>2. /\ Len(q) \in 1 .. n /\ Head(q) = n - Len(q) + 1
      /\ Rest(Tail(q), n) /\ Len(Tail(q)) = Len(q) - 1
  BY <1>1, RestOfLoop DEF n
<1>3. n - Len(Tail(q)) = n - Len(q) + 1
  BY <1>1, <1>2
<1>4. 1 .. n - Len(Tail(q)) = (1 .. n - Len(q)) \union {Head(q)} /\ Head(q) \notin 1 .. n - Len(q)
  BY <1>1, <1>2, <1>3
<1>. QED
  BY <1>1, <1>2, <1>4 DEF n

LEMMA AllSeen ==
  ASSUME NEW ty \in DOMAIN TileTypes, Rest(<<>>, Len(TileTypes[ty].sites))
  PROVE  Emitted(ty) \subseteq 1 .. Len(TileTypes[ty].sites) - 0
BY SitesAreCountable DEF Emitted

LEMMA RelationBegins ==
  ASSUME TargetsInv, NodesInv, NEW ty \in left, AddWireToSiteRelation(ty)
  PROVE  TargetsInv'
<1>1. program = "form_channels" /\ stage = "sites" /\ Importing
  BY DEF AddWireToSiteRelation, Runs, TargetsInv
<1>2. /\ queue' = Loop(ty, SitesOf(ty), 0) /\ stage' = "relations" /\ left' = left \ {ty}
      /\ UNCHANGED <<device, memory, file, program, built, pip_cache>>
  BY DEF AddWireToSiteRelation, Proceeds
<1>3. OnlyChanges({}) /\ queue'.type = ty /\ queue'.left = SitesOf(ty) /\ DOMAIN queue' = DOMAIN Idle
  BY <1>1, <1>2 DEF OnlyChanges, Importing, Loop, Idle
<1>4. UNCHANGED TypesOfTiles /\ left \subseteq TypesOfTiles /\ ty \in DOMAIN TileTypes
  BY <1>1, <1>2, DeviceIsRigid, TypesAreKnown DEF Importing, SiteRows
<1>5. SiteRows'
  <2>1. Rest(SitesOf(ty), Len(TileTypes[ty].sites)) /\ Seen(ty)' = {}
    BY <1>3, <1>4, SitesAreCountable DEF Seen
  <2>2. \A u \in TypesOfTiles \ left : \A i \in Emitted(u) : <<u, i>> \in memory.site
    BY <1>1 DEF Importing, SiteRows
  <2>. QED
    BY <1>2, <1>3, <1>4, <2>1, <2>2 DEF SiteRows
<1>6. Switches'
  BY <1>1, <1>2, <1>3, SwitchesKeep DEF Importing
<1>7. Types'
  BY <1>1, <1>2, <1>3, TypesKeep DEF Importing
<1>8. NodeRows'
  BY <1>2 DEF NodeRows
<1>9. TileRows'
  BY <1>1, <1>2, <1>3, TileRowsKeep DEF Importing
<1>10. Muxes'
  BY <1>1, <1>2, <1>3, NoMuxes DEF Importing
<1>11. Importing'
  BY <1>1, <1>2, <1>3, <1>5, <1>6, <1>7, <1>8, <1>9, <1>10, LaterIsEmpty DEF Importing, OnlyChanges, Stages
<1>. QED
  BY <1>1, <1>2, <1>11, Onwards

LEMMA RelationEnds ==
  ASSUME TargetsInv, NodesInv, EndRelation
  PROVE  TargetsInv'
<1>1. program = "form_channels" /\ stage = "relations" /\ Importing /\ queue.left = <<>>
  BY DEF EndRelation, Runs, TargetsInv
<1>2. stage' = "sites" /\ left' = left /\ UNCHANGED <<device, memory, file, program, built, pip_cache>>
  BY DEF EndRelation, Proceeds
<1>3. OnlyChanges({})
  BY <1>1, <1>2 DEF OnlyChanges, Importing
<1>4. UNCHANGED TypesOfTiles /\ queue.type \in DOMAIN TileTypes
  BY <1>1, <1>2, DeviceIsRigid, TypesAreKnown DEF Importing, SiteRows
<1>5. SiteRows'
  <2>1. Rest(<<>>, Len(TileTypes[queue.type].sites)) /\ Seen(queue.type) = 1 .. Len(TileTypes[queue.type].sites) - 0
    BY <1>1 DEF Importing, SiteRows, Seen
  <2>2. \A i \in Emitted(queue.type) : <<queue.type, i>> \in memory.site
    <3>1. Emitted(queue.type) \subseteq Seen(queue.type)
      BY <1>4, <2>1, AllSeen
    <3>2. \A i \in Emitted(queue.type) \intersect Seen(queue.type) : <<queue.type, i>> \in memory.site
      BY <1>1 DEF Importing, SiteRows
    <3>. QED
      BY <3>1, <3>2
  <2>3. left \subseteq TypesOfTiles /\
        \A ty \in TypesOfTiles \ left : ty = queue.type \/ \A i \in Emitted(ty) : <<ty, i>> \in memory.site
    BY <1>1 DEF Importing, SiteRows
  <2>. QED
    BY <1>2, <1>4, <2>2, <2>3 DEF SiteRows
<1>6. Switches'
  BY <1>1, <1>2, <1>3, SwitchesKeep DEF Importing
<1>7. Types'
  BY <1>1, <1>2, <1>3, TypesKeep DEF Importing
<1>8. NodeRows'
  BY <1>2 DEF NodeRows
<1>9. TileRows'
  BY <1>1, <1>2, <1>3, TileRowsKeep DEF Importing
<1>10. Muxes'
  BY <1>1, <1>2, <1>3, NoMuxes DEF Importing
<1>11. Importing'
  BY <1>1, <1>2, <1>3, <1>5, <1>6, <1>7, <1>8, <1>9, <1>10, LaterIsEmpty DEF Importing, OnlyChanges, Stages
<1>. QED
  BY <1>1, <1>2, <1>11, Onwards

LEMMA SiteImport ==
  ASSUME TargetsInv, NodesInv, ImportSite
  PROVE  TargetsInv'
<1> DEFINE ty == queue.type
           i == Head(queue.left)
           site == TileTypes[ty].sites[i]
           row == SwitchOfPin(site.timing)
           start == [Now EXCEPT !.memory.site = @ \union {<<ty, i>>}]
           s == IF site.pins = {} THEN start ELSE GetSwitchTiming(start, row)
           pins == {w \in memory.wire_in_tile : w[1] = ty /\ w[2] \in site.pins}
           n == Len(TileTypes[ty].sites)
<1>1. /\ program = "form_channels" /\ stage = "relations" /\ Importing /\ queue.left # <<>>
      /\ queue' = [queue EXCEPT !.left = Tail(@)]
      /\ UNCHANGED <<device, file, program, stage, left, wires, built>>
  BY DEF ImportSite, Continues, Runs, TargetsInv
<1>2. /\ CacheKnows(memory, pip_cache) /\ PipsTimed(memory) /\ PinsTimed(memory)
      /\ DOMAIN queue = DOMAIN Idle /\ IsTables(memory)
      /\ ty \in TypesOfTiles /\ ty \in DOMAIN TileTypes /\ Rest(queue.left, n)
  BY <1>1, TypesAreKnown DEF Importing, Switches, SiteRows
<1>3. DOMAIN queue' = DOMAIN Idle /\ queue'.type = ty /\ queue'.left = Tail(queue.left)
  BY <1>1, <1>2 DEF Idle, Loop
<1>4. i \in Sites(ty) /\ Rest(Tail(queue.left), n) /\ (1 .. n - Len(queue'.left)) = Seen(ty) \union {i}
  BY <1>1, <1>2, <1>3, SeenGrows DEF Seen
(* What is done with the tables.                                           *)
<1>5. /\ OnlyChanges({"switch", "site", "site_pin"}) /\ memory'.later = memory.later
      /\ DOMAIN memory.site_pin \subseteq DOMAIN memory'.site_pin
      /\ memory.site \subseteq memory'.site
      /\ site.type \in memory.site_type => <<ty, i>> \in memory'.site
      /\ CacheKnows(memory', pip_cache') /\ PipsTimed(memory') /\ PinsTimed(memory')
  <2>1. CASE site.type \notin memory.site_type
    <3>1. UNCHANGED <<memory, pip_cache>>
      BY <2>1 DEF ImportSite
    <3>. QED
      BY <1>1, <1>2, <2>1, <3>1 DEF OnlyChanges
  <2>2. CASE site.type \in memory.site_type
    <3>1. /\ memory' = [s.memory EXCEPT
               !.site_pin = [w \in DOMAIN @ \union pins |->
                  IF w \in pins THEN [site |-> i, switch |-> s.cache[row]] ELSE @[w]]]
          /\ pip_cache' = s.cache
      BY <2>2 DEF ImportSite
    <3>2. start.memory = [memory EXCEPT !.site = @ \union {<<ty, i>>}] /\ start.cache = pip_cache
      BY DEF Now
    <3> HIDE DEF start
    <3>3. /\ IsTables(start.memory) /\ start.memory.switch = memory.switch
          /\ start.memory.site = memory.site \union {<<ty, i>>}
          /\ \A f \in DOMAIN NoTables \ {"site"} : start.memory[f] = memory[f]
      BY <1>2, <3>2 DEF IsTables, NoTables
    <3>4. CacheKnows(start.memory, start.cache) /\ PipsTimed(start.memory) /\ PinsTimed(start.memory)
      <4>1. \A k, r : HasRow(start.memory, k, r) <=> HasRow(memory, k, r)
        BY <3>3 DEF HasRow
      <4>2. /\ start.memory.pip_in_tile = memory.pip_in_tile /\ start.memory.pip_switch = memory.pip_switch
            /\ start.memory.site_pin = memory.site_pin
        BY <3>3 DEF NoTables
      <4>. QED
        BY <1>2, <3>2, <3>3, <4>1, <4>2 DEF CacheKnows, PipsTimed, PinsTimed
    <3>5. /\ Extends(start.memory, s.memory) /\ CacheKnows(s.memory, s.cache)
          /\ site.pins # {} => HasRow(s.memory, s.cache[row], row)
      <4> HIDE DEF row
      <4>1. CASE site.pins = {}
        BY <3>3, <3>4, <4>1 DEF Extends, HasRow, CacheKnows
      <4>2. CASE site.pins # {}
        BY <3>3, <3>4, <4>2, SwitchIsKnown
      <4>. QED
        BY <4>1, <4>2
    <3> HIDE DEF s, row
    <3>6. PipsTimed(s.memory) /\ PinsTimed(s.memory)
      BY <3>4, <3>5, ExtendsTimed
    <3>7. /\ IsTables(s.memory) /\ s.memory.site = memory.site \union {<<ty, i>>}
          /\ \A f \in DOMAIN NoTables \ {"switch", "site"} : s.memory[f] = memory[f]
      BY <3>3, <3>5 DEF Extends, NoTables
    <3>8. /\ OnlyChanges({"switch", "site", "site_pin"}) /\ memory'.later = memory.later
          /\ memory'.switch = s.memory.switch /\ memory'.site = s.memory.site
          /\ memory'.pip_in_tile = s.memory.pip_in_tile /\ memory'.pip_switch = s.memory.pip_switch
          /\ memory'.site_pin = [w \in DOMAIN s.memory.site_pin \union pins |->
                IF w \in pins THEN [site |-> i, switch |-> s.cache[row]] ELSE s.memory.site_pin[w]]
          /\ s.memory.site_pin = memory.site_pin
      BY <1>1, <3>1, <3>7 DEF OnlyChanges, IsTables, NoTables
    <3>9. \A k, r : HasRow(memory', k, r) <=> HasRow(s.memory, k, r)
      BY <3>8 DEF HasRow
    <3>10. CacheKnows(memory', pip_cache') /\ PipsTimed(memory')
      BY <3>1, <3>5, <3>6, <3>8, <3>9 DEF CacheKnows, PipsTimed
    <3>11. PinsTimed(memory')
      <4> SUFFICES ASSUME NEW w \in DOMAIN memory'.site_pin
                   PROVE  /\ w[1] \in DOMAIN TileTypes /\ w[2] \in TileTypes[w[1]].wires
                          /\ memory'.site_pin[w].site \in DOMAIN TileTypes[w[1]].sites
                          /\ HasRow(memory', memory'.site_pin[w].switch,
                                    SwitchOfPin(TileTypes[w[1]].sites[memory'.site_pin[w].site].timing))
        BY DEF PinsTimed
      <4>1. CASE w \in pins
        <5>1. memory'.site_pin[w] = [site |-> i, switch |-> s.cache[row]]
          BY <3>8, <4>1
        <5>2. w[1] = ty /\ site.pins # {} /\ w \in memory.wire_in_tile
          BY <4>1
        <5>3. w \in WiresOf(memory.tile_type)
          BY <1>1, <5>2 DEF Importing, Types
        <5>4. w[2] \in TileTypes[w[1]].wires
          BY <5>3 DEF WiresOf
        <5>5. memory'.site_pin[w].site = i /\ memory'.site_pin[w].switch = s.cache[row]
          BY <5>1
        <5>6. HasRow(memory', s.cache[row], row) /\ i \in DOMAIN TileTypes[ty].sites
          BY <1>4, <3>5, <3>9, <5>2 DEF Sites
        <5>7. row = SwitchOfPin(TileTypes[ty].sites[i].timing)
          BY DEF row
        <5> HIDE DEF i
        <5>. QED
          BY <1>2, <5>2, <5>4, <5>5, <5>6, <5>7
      <4>2. CASE w \notin pins
        <5>1. w \in DOMAIN s.memory.site_pin /\ memory'.site_pin[w] = s.memory.site_pin[w]
          BY <3>8, <4>2
        <5>. QED
          BY <3>6, <3>9, <5>1 DEF PinsTimed
      <4>. QED
        BY <4>1, <4>2
    <3>12. DOMAIN memory.site_pin \subseteq DOMAIN memory'.site_pin
      BY <3>8
    <3>. QED
      BY <3>7, <3>8, <3>10, <3>11, <3>12
  <2>. QED
    BY <2>1, <2>2
<1>6. UNCHANGED TypesOfTiles
  BY <1>1, DeviceIsRigid
<1>7. SiteRows'
  <2>1. \A k \in Emitted(ty) \intersect (1 .. n - Len(queue'.left)) : <<ty, k>> \in memory'.site
    <3> SUFFICES ASSUME NEW k \in Emitted(ty), k \in Seen(ty) \/ k = i PROVE <<ty, k>> \in memory'.site
      BY <1>4
    <3>1. CASE k \in Seen(ty)
      BY <1>1, <1>5, <3>1 DEF Importing, SiteRows
    <3>2. CASE k = i
      <4>1. TileTypes[ty].sites[k].type \in memory.site_type
        BY <1>1, <1>2 DEF Importing, Types
      <4>. QED
        BY <1>5, <3>2, <4>1
    <3>. QED
      BY <3>1, <3>2
  <2>2. left \subseteq TypesOfTiles
        /\ \A u \in TypesOfTiles \ left : u = ty \/ \A k \in Emitted(u) : <<u, k>> \in memory'.site
    BY <1>1, <1>5 DEF Importing, SiteRows
  <2>3. PICK u : u = ty
    OBVIOUS
  <2>4. /\ queue'.type = u /\ u \in TypesOfTiles /\ Rest(queue'.left, Len(TileTypes[u].sites))
        /\ \A k \in Emitted(u) \intersect (1 .. Len(TileTypes[u].sites) - Len(queue'.left)) : <<u, k>> \in memory'.site
        /\ stage' = "relations" /\ left' \subseteq TypesOfTiles
        /\ \A v \in TypesOfTiles \ left' : v = u \/ \A k \in Emitted(v) : <<v, k>> \in memory'.site
    BY <1>1, <1>2, <1>3, <1>4, <2>1, <2>2, <2>3
  <2> HIDE DEF ty
  <2>. QED
    BY <1>6, <2>4 DEF SiteRows, Seen
<1>8. Switches'
  BY <1>1, <1>5 DEF Switches
<1>9. Types'
  BY <1>1, <1>5, TypesKeep DEF Importing
<1>10. NodeRows'
  BY <1>1 DEF NodeRows
<1>11. TileRows'
  BY <1>1, <1>5, TileRowsKeep DEF Importing
<1>12. Muxes'
  BY <1>1, <1>5, NoMuxes DEF Importing
<1>13. Importing'
  BY <1>1, <1>3, <1>5, <1>7, <1>8, <1>9, <1>10, <1>11, <1>12 DEF Importing, OnlyChanges
<1>. QED
  BY <1>1, <1>13, Onwards

(* The tiles that were imported are those of the device in their order.    *)
LEMMA TilesInOrder ==
  ASSUME TileRows
  PROVE  /\ Len(memory.phy_tile) \in Nat /\ memory.phy_tile = [n \in 1 .. Len(memory.phy_tile) |-> device.tiles[n].name]
         /\ LET grown == Append(memory.phy_tile, device.tiles[Len(memory.phy_tile) + 1].name)
            IN  /\ Len(grown) = Len(memory.phy_tile) + 1
                /\ grown = [n \in 1 .. Len(grown) |-> device.tiles[n].name]
<1> DEFINE q == memory.phy_tile
           m == Len(q)
           S == {device.tiles[n].name : n \in 1 .. m + 1}
           grown == Append(q, device.tiles[m + 1].name)
<1>1. m \in Nat /\ q = [n \in 1 .. m |-> device.tiles[n].name]
  <2>1. Len(memory.phy_tile) \in 0 .. Len(device.tiles)
    BY DEF TileRows
  <2>. QED
    BY <2>1 DEF TileRows
<1>2. q \in Seq(S)
  <2>1. q \in [1 .. m -> S]
    BY <1>1
  <2> HIDE DEF q, S
  <2>. QED
    BY <1>1, <2>1, SeqDef
<1>3. device.tiles[m + 1].name \in S
  BY <1>1
<1>4. /\ Len(grown) = m + 1 /\ grown \in Seq(S) /\ grown[m + 1] = device.tiles[m + 1].name
      /\ \A k \in 1 .. m : grown[k] = q[k]
  <2> HIDE DEF q, S
  <2>. QED
    BY <1>2, <1>3
<1>5. \A k \in 1 .. m + 1 : grown[k] = device.tiles[k].name
  <2>1. \A k \in 1 .. m : q[k] = device.tiles[k].name
    BY <1>1
  <2>2. \A k \in 1 .. m + 1 : k \in 1 .. m \/ k = m + 1
    BY <1>1
  <2> HIDE DEF grown, m, q
  <2>. QED
    BY <1>4, <2>1, <2>2
<1>6. grown = [n \in 1 .. m + 1 |-> device.tiles[n].name]
  <2>1. grown \in [1 .. m + 1 -> S]
    BY <1>4, LenProperties
  <2> HIDE DEF grown, m, q, S
  <2>. QED
    BY <1>5, <2>1
<1>. QED
  BY <1>1, <1>4, <1>6

LEMMA TileImport ==
  ASSUME TargetsInv, NodesInv, ImportTile
  PROVE  TargetsInv'
<1> DEFINE m == Len(memory.phy_tile)
           n == m + 1
           type == device.tiles[n].type
<1>1. /\ program = "form_channels" /\ stage = "sites" /\ Importing /\ left = {} /\ n <= Len(device.tiles)
      /\ memory' = [memory EXCEPT !.phy_tile = Append(memory.phy_tile, device.tiles[n].name)]
      /\ queue' = Loop(type, SitesOf(type), n)
      /\ stage' = "instances" /\ left' = {} /\ UNCHANGED <<device, file, program, built, pip_cache>>
  BY DEF ImportTile, Proceeds, Runs, TargetsInv, Importing, IsTables, NoTables
<1>2. /\ OnlyChanges({"phy_tile"}) /\ memory'.later = memory.later /\ memory'.site_pin = memory.site_pin
      /\ memory'.site = memory.site /\ memory'.site_instance = memory.site_instance
      /\ memory'.phy_tile = Append(memory.phy_tile, device.tiles[n].name)
  BY <1>1 DEF OnlyChanges, Importing, IsTables, NoTables
<1>3. queue'.type = type /\ queue'.left = SitesOf(type) /\ DOMAIN queue' = DOMAIN Idle
  BY <1>1 DEF Loop, Idle
<1>4. /\ m \in Nat /\ Len(device.tiles) \in Nat /\ DOMAIN device.tiles = 1 .. Len(device.tiles)
      /\ Len(memory'.phy_tile) = n /\ memory'.phy_tile = [k \in 1 .. n |-> device.tiles[k].name]
  <2>1. device.tiles \in Seq(Range(device.tiles))
    BY DevicesAssumption DEF NodesInv, GoodTables
  <2>2. Len(device.tiles) \in Nat /\ DOMAIN device.tiles = 1 .. Len(device.tiles)
    BY <2>1, LenProperties
  <2>. QED
    BY <1>1, <1>2, <2>2, TilesInOrder DEF Importing
<1>5. type \in TypesOfTiles /\ type \in DOMAIN TileTypes /\ UNCHANGED TypesOfTiles
  <2>1. n \in DOMAIN device.tiles
    BY <1>1, <1>4
  <2>. QED
    BY <1>1, <2>1, TypesAreKnown, DeviceIsRigid DEF TypesOfTiles
<1>6. SiteRows'
  BY <1>1, <1>2, <1>5 DEF Importing, SiteRows
<1>7. TileRows'
  <2> HIDE DEF m, n, type
  <2>0. m \in Nat /\ n = m + 1 /\ m = Len(memory.phy_tile) /\ type = device.tiles[n].type
    BY <1>4 DEF m, n, type
  <2>1. Rest(SitesOf(type), Len(TileTypes[type].sites)) /\ Len(SitesOf(type)) = Len(TileTypes[type].sites)
        /\ Len(TileTypes[type].sites) \in Nat
    BY <1>5, SitesAreCountable
  <2>2. memory.site_instance \in Seq(Instances(m))
    BY <1>1, <2>0 DEF Importing, TileRows
  <2>3. memory.site_instance \in Seq(Instances(n))
    <3>1. Instances(m) \subseteq Instances(n)
      BY <2>0 DEF Instances
    <3>. QED
      BY <2>2, <3>1, SeqDef, LenProperties
  <2>4. RowsMade'
    <3>1. ASSUME NEW k \in 1 .. m, NEW i \in Emitted(device.tiles[k].type)
          PROVE  \E r \in DOMAIN memory.site_instance : RowsFor(memory, k, i) = {r}
      BY <1>1, <2>0 DEF Importing, TileRows, RowsMade, Ahead
    <3>2. ASSUME NEW i PROVE RowsFor(memory, n, i) = {}
      <4>1. \A r \in DOMAIN memory.site_instance : memory.site_instance[r] \in Instances(m)
        BY <2>2, LenProperties
      <4>2. \A r \in DOMAIN memory.site_instance : memory.site_instance[r].tile \in 1 .. m
        BY <4>1 DEF Instances
      <4>. QED
        BY <2>0, <4>2 DEF RowsFor
    <3>3. \A k, i : RowsFor(memory', k, i) = RowsFor(memory, k, i)
      BY <1>2 DEF RowsFor
    <3>4. ASSUME NEW k, NEW i PROVE Ahead(k, i)' <=> k = n
      <4>1. 1 .. Len(TileTypes[queue'.type].sites) - Len(queue'.left) = {}
        BY <1>3, <2>1
      <4>. QED
        BY <1>1, <1>4, <4>1 DEF Ahead, Seen
    <3>5. ASSUME NEW k \in 1 .. n, NEW i \in Emitted(device.tiles[k].type)
          PROVE  /\ Ahead(k, i)' => RowsFor(memory', k, i) = {}
                 /\ ~Ahead(k, i)' => \E r \in DOMAIN memory'.site_instance : RowsFor(memory', k, i) = {r}
      <4>1. CASE k = n
        BY <3>2, <3>3, <3>4, <4>1
      <4>2. CASE k # n
        <5>1. k \in 1 .. m
          BY <2>0, <4>2
        <5>2. \E r \in DOMAIN memory.site_instance : RowsFor(memory, k, i) = {r}
          BY <3>1, <5>1
        <5>. QED
          BY <1>2, <3>3, <3>4, <4>2, <5>2
      <4>. QED
        BY <4>1, <4>2
    <3>. QED
      BY <1>1, <1>4, <3>5 DEF RowsMade, Emitted, Sites
  <2>5. Len(memory'.phy_tile) \in 0 .. Len(device.tiles) /\ Len(memory'.phy_tile) # 0
    BY <1>1, <1>4, <2>0
  <2>6. memory'.site_instance \in Seq(Instances(Len(memory'.phy_tile)))
    BY <1>2, <1>4, <2>3
  <2>7. queue'.type = device.tiles[Len(memory'.phy_tile)].type /\ Rest(queue'.left, Len(TileTypes[queue'.type].sites))
    BY <1>3, <1>4, <2>0, <2>1
  <2>. QED
    BY <1>1, <1>4, <2>4, <2>5, <2>6, <2>7 DEF TileRows
<1>8. Switches'
  BY <1>1, <1>2, SwitchesKeep DEF Importing
<1>9. Types'
  BY <1>1, <1>2, TypesKeep DEF Importing
<1>10. NodeRows'
  BY <1>1 DEF NodeRows
<1>11. Muxes'
  BY <1>1, <1>2, NoMuxes DEF Importing
<1>12. Importing'
  BY <1>1, <1>2, <1>3, <1>6, <1>7, <1>8, <1>9, <1>10, <1>11, LaterIsEmpty DEF Importing, OnlyChanges, Stages
<1>. QED
  BY <1>1, <1>12, Onwards

LEMMA SiteInstanceImport ==
  ASSUME TargetsInv, NodesInv, ImportSiteInstance
  PROVE  TargetsInv'
<1> DEFINE n == Len(memory.phy_tile)
           ty == queue.type
           i == Head(queue.left)
           masked == <<ty, i>> \notin memory.site
           old == memory.site_instance
           rows == IF masked THEN old ELSE Append(old, [tile |-> n, site |-> i, prohibited |-> FALSE])
           lastrowid == IF masked THEN queue.lastrowid ELSE Len(rows)
           new == [r \in DOMAIN rows |->
                     [rows[r] EXCEPT !.prohibited = IF r = lastrowid THEN i \in device.tiles[n].prohibited ELSE @]]
           S == Instances(n)
<1>1. /\ program = "form_channels" /\ stage = "instances" /\ Importing /\ queue.left # <<>>
      /\ memory' = [memory EXCEPT !.site_instance = new]
      /\ queue' = Loop(ty, Tail(queue.left), lastrowid)
      /\ stage' = "instances" /\ left' = {} /\ UNCHANGED <<device, file, program, built, pip_cache>>
  BY DEF ImportSiteInstance, Proceeds, Runs, TargetsInv
<1>2. /\ OnlyChanges({"site_instance"}) /\ memory'.later = memory.later /\ memory'.site_pin = memory.site_pin
      /\ memory'.site = memory.site /\ memory'.phy_tile = memory.phy_tile
      /\ memory'.site_instance = new
  BY <1>1 DEF OnlyChanges, Importing, IsTables, NoTables
<1>3. queue'.type = ty /\ queue'.left = Tail(queue.left) /\ DOMAIN queue' = DOMAIN Idle
  BY <1>1 DEF Loop, Idle
<1>4. /\ n \in Nat /\ n \in 1 .. Len(device.tiles) /\ ty = device.tiles[n].type
      /\ Rest(queue.left, Len(TileTypes[ty].sites)) /\ old \in Seq(S) /\ RowsMade
  BY <1>1 DEF Importing, TileRows
<1>5. ty \in TypesOfTiles /\ ty \in DOMAIN TileTypes /\ UNCHANGED TypesOfTiles
  <2>1. device.tiles \in Seq(Range(device.tiles))
    BY DevicesAssumption DEF NodesInv, GoodTables
  <2>2. n \in DOMAIN device.tiles
    BY <1>4, <2>1, LenProperties
  <2>. QED
    BY <1>1, <1>4, <2>2, TypesAreKnown, DeviceIsRigid DEF TypesOfTiles
<1>6. /\ i \in Sites(ty) /\ i \in Nat /\ Rest(Tail(queue.left), Len(TileTypes[ty].sites))
      /\ 1 .. Len(TileTypes[ty].sites) - Len(queue'.left) = Seen(ty) \union {i} /\ i \notin Seen(ty)
  <2>1. /\ i \in Sites(ty) /\ Rest(Tail(queue.left), Len(TileTypes[ty].sites))
        /\ 1 .. Len(TileTypes[ty].sites) - Len(queue'.left) = Seen(ty) \union {i} /\ i \notin Seen(ty)
    BY <1>1, <1>3, <1>4, <1>5, SeenGrows DEF Seen
  <2>2. Len(TileTypes[ty].sites) \in Nat /\ Sites(ty) = 1 .. Len(TileTypes[ty].sites)
    BY <1>5, SitesAreCountable
  <2> HIDE DEF ty, i
  <2>3. i \in Nat
    BY <2>1, <2>2
  <2>. QED
    BY <2>1, <2>3
<1>7. \A k \in Emitted(ty) : <<ty, k>> \in memory.site
  BY <1>1, <1>5 DEF Importing, SiteRows
<1>8. SiteRows'
  BY <1>1, <1>2, <1>5 DEF Importing, SiteRows
<1> HIDE DEF n, ty, i, S, old
<1>9. /\ rows \in Seq(S) /\ DOMAIN old \subseteq DOMAIN rows
      /\ masked => rows = old
      /\ ~masked => /\ Len(old) + 1 \in DOMAIN rows /\ rows[Len(old) + 1].tile = n /\ rows[Len(old) + 1].site = i
                    /\ DOMAIN rows = DOMAIN old \union {Len(old) + 1} /\ Len(old) + 1 \notin DOMAIN old
                    /\ \A r \in DOMAIN old : rows[r] = old[r]
  <2>1. CASE masked
    BY <1>4, <2>1
  <2>2. CASE ~masked
    <3> DEFINE x == [tile |-> n, site |-> i, prohibited |-> FALSE]
    <3>1. x \in S
      BY <1>4, <1>6 DEF S, Instances
    <3>2. x.tile = n /\ x.site = i
      OBVIOUS
    <3>3. rows = Append(old, x)
      BY <2>2
    <3> HIDE DEF x, rows
    <3>4. /\ Append(old, x) \in Seq(S) /\ Len(old) \in Nat /\ DOMAIN old = 1 .. Len(old)
          /\ Len(Append(old, x)) = Len(old) + 1
          /\ Append(old, x)[Len(old) + 1] = x /\ \A r \in 1 .. Len(old) : Append(old, x)[r] = old[r]
      BY <1>4, <3>1
    <3>5. DOMAIN rows = 1 .. Len(old) + 1
      BY <3>3, <3>4, LenProperties
    <3>6. DOMAIN rows = DOMAIN old \union {Len(old) + 1} /\ Len(old) + 1 \notin DOMAIN old
      BY <3>4, <3>5
    <3>7. rows[Len(old) + 1] = x /\ \A r \in DOMAIN old : rows[r] = old[r]
      BY <3>3, <3>4
    <3>8. rows[Len(old) + 1].tile = n /\ rows[Len(old) + 1].site = i
      BY <3>2, <3>7
    <3>9. rows \in Seq(S)
      BY <3>3, <3>4
    <3> HIDE DEF masked
    <3>. QED
      BY <2>2, <3>6, <3>7, <3>8, <3>9
  <2>. QED
    BY <2>1, <2>2
<1> HIDE DEF masked, rows, lastrowid
<1>10. /\ new \in Seq(S) /\ DOMAIN new = DOMAIN rows
       /\ \A r \in DOMAIN rows : new[r].tile = rows[r].tile /\ new[r].site = rows[r].site
  <2>1. ASSUME NEW r \in DOMAIN rows
        PROVE  new[r] \in S /\ new[r].tile = rows[r].tile /\ new[r].site = rows[r].site
    <3>1. rows[r] \in S
      BY <1>9, LenProperties
    <3> DEFINE b == IF r = lastrowid THEN i \in device.tiles[n].prohibited ELSE rows[r].prohibited
    <3>2. b \in BOOLEAN
      <4>1. rows[r].prohibited \in BOOLEAN
        BY <3>1 DEF S, Instances
      <4>2. CASE r = lastrowid
        <5>1. b = (i \in device.tiles[n].prohibited)
          BY <4>2
        <5>2. (i \in device.tiles[n].prohibited) \in BOOLEAN
          OBVIOUS
        <5> HIDE DEF b
        <5>. QED
          BY <5>1, <5>2
      <4>3. CASE r # lastrowid
        BY <4>1, <4>3
      <4>. QED
        BY <4>2, <4>3
    <3>3. new[r] = [rows[r] EXCEPT !.prohibited = b]
      OBVIOUS
    <3> HIDE DEF b, new
    <3>. QED
      BY <3>1, <3>2, <3>3 DEF S, Instances
  <2>2. DOMAIN rows = 1 .. Len(rows) /\ Len(rows) \in Nat
    BY <1>9, LenProperties
  <2>3. DOMAIN new = DOMAIN rows /\ new = [r \in DOMAIN new |-> new[r]]
    OBVIOUS
  <2> HIDE DEF new
  <2>4. new \in [1 .. Len(rows) -> S]
    BY <2>1, <2>2, <2>3
  <2>. QED
    BY <2>1, <2>2, <2>3, <2>4, SeqDef
<1> HIDE DEF new
<1>11. ASSUME NEW k, NEW j
       PROVE  RowsFor(memory', k, j) = IF masked \/ k # n \/ j # i THEN RowsFor(memory, k, j)
                                       ELSE RowsFor(memory, k, j) \union {Len(old) + 1}
  <2>1. RowsFor(memory', k, j) = {r \in DOMAIN rows : rows[r].tile = k /\ rows[r].site = j}
    BY <1>2, <1>10 DEF RowsFor
  <2>2. RowsFor(memory, k, j) = {r \in DOMAIN old : old[r].tile = k /\ old[r].site = j}
    BY DEF RowsFor, old
  <2>3. CASE masked
    BY <1>9, <2>1, <2>2, <2>3
  <2>4. CASE ~masked
    BY <1>9, <2>1, <2>2, <2>4
  <2>. QED
    BY <2>3, <2>4
<1>12. RowsMade'
  <2>1. ASSUME NEW k, NEW j PROVE /\ Ahead(k, j) <=> k = n /\ j \notin Seen(ty)
                                  /\ Ahead(k, j)' <=> k = n /\ j \notin Seen(ty) \union {i}
    <3>1. n = Len(memory.phy_tile) /\ n = Len(memory'.phy_tile) /\ ty = queue.type
      BY <1>2 DEF n, ty
    <3>2. Ahead(k, j) <=> k = n /\ j \notin Seen(ty)
      BY <1>1, <3>1 DEF Ahead
    <3>3. Ahead(k, j)' <=> k = n /\ j \notin Seen(ty) \union {i}
      <4>1. Ahead(k, j)' <=> k = n /\ j \notin 1 .. Len(TileTypes[queue'.type].sites) - Len(queue'.left)
        BY <1>1, <3>1 DEF Ahead, Seen
      <4>. QED
        BY <1>3, <1>6, <4>1
    <3>. QED
      BY <3>2, <3>3
  <2>3. ASSUME NEW k \in 1 .. n, NEW j \in Emitted(device.tiles[k].type)
        PROVE  /\ Ahead(k, j)' => RowsFor(memory', k, j) = {}
               /\ ~Ahead(k, j)' => \E r \in DOMAIN memory'.site_instance : RowsFor(memory', k, j) = {r}
    <3>1. /\ Ahead(k, j) => RowsFor(memory, k, j) = {}
          /\ ~Ahead(k, j) => \E r \in DOMAIN memory.site_instance : RowsFor(memory, k, j) = {r}
      BY <1>4 DEF RowsMade, n
    <3>2. DOMAIN memory.site_instance \subseteq DOMAIN memory'.site_instance
      BY <1>2, <1>9, <1>10 DEF old
    <3>3. CASE k = n /\ j = i
      <4>1. Ahead(k, j) /\ ~Ahead(k, j)' /\ RowsFor(memory, k, j) = {}
        BY <1>6, <2>1, <3>1, <3>3
      <4>2. ~masked
        BY <1>4, <1>7, <3>3 DEF masked
      <4>3. RowsFor(memory', k, j) = {Len(old) + 1}
        BY <1>11, <3>3, <4>1, <4>2
      <4>4. Len(old) + 1 \in DOMAIN memory'.site_instance
        BY <1>2, <1>9, <1>10, <4>2
      <4>. QED
        BY <4>1, <4>3, <4>4
    <3>4. CASE ~(k = n /\ j = i)
      <4>1. RowsFor(memory', k, j) = RowsFor(memory, k, j)
        BY <1>11, <3>4
      <4>2. Ahead(k, j)' <=> Ahead(k, j)
        BY <2>1, <3>4
      <4>. QED
        BY <3>1, <3>2, <4>1, <4>2
    <3>. QED
      BY <3>3, <3>4
  <2>4. UNCHANGED device /\ Len(memory'.phy_tile) = n
    BY <1>1, <1>2 DEF n
  <2>. QED
    BY <2>3, <2>4 DEF RowsMade, Emitted, Sites
<1>13. TileRows'
  <2>1. /\ Len(memory.phy_tile) = n /\ memory.phy_tile = [k \in 1 .. n |-> device.tiles[k].name]
        /\ n \in 0 .. Len(device.tiles) /\ n # 0
    BY <1>1, <1>4 DEF Importing, TileRows, n
  <2>2. memory'.site_instance \in Seq(Instances(n))
    BY <1>2, <1>10 DEF S
  <2>3. queue'.type = device.tiles[n].type /\ Rest(queue'.left, Len(TileTypes[queue'.type].sites))
    BY <1>3, <1>4, <1>6
  <2>. QED
    BY <1>1, <1>2, <1>12, <2>1, <2>2, <2>3 DEF TileRows
<1>14. Switches'
  BY <1>1, <1>2, SwitchesKeep DEF Importing
<1>15. Types'
  BY <1>1, <1>2, TypesKeep DEF Importing
<1>16. NodeRows'
  BY <1>1 DEF NodeRows
<1>17. Muxes'
  BY <1>1, <1>2, NoMuxes DEF Importing
<1>18. Importing'
  BY <1>1, <1>2, <1>3, <1>8, <1>13, <1>14, <1>15, <1>16, <1>17 DEF Importing, OnlyChanges
<1>. QED
  BY <1>1, <1>18, Onwards

LEMMA TileEnds ==
  ASSUME TargetsInv, NodesInv, EndTile
  PROVE  TargetsInv'
<1>1. /\ program = "form_channels" /\ stage = "instances" /\ Importing /\ queue.left = <<>>
      /\ stage' = "sites" /\ left' = {} /\ UNCHANGED <<device, memory, file, program, built, pip_cache>>
  BY DEF EndTile, Proceeds, Runs, TargetsInv
<1>2. OnlyChanges({})
  BY <1>1 DEF OnlyChanges, Importing
<1>3. /\ Len(memory.phy_tile) \in 1 .. Len(device.tiles) /\ queue.type = device.tiles[Len(memory.phy_tile)].type
      /\ Rest(queue.left, Len(TileTypes[queue.type].sites)) /\ RowsMade
  BY <1>1 DEF Importing, TileRows
<1>4. queue.type \in DOMAIN TileTypes /\ UNCHANGED TypesOfTiles
  <2>1. device.tiles \in Seq(Range(device.tiles))
    BY DevicesAssumption DEF NodesInv, GoodTables
  <2>2. Len(memory.phy_tile) \in DOMAIN device.tiles
    BY <1>3, <2>1, LenProperties
  <2>. QED
    BY <1>1, <1>3, <2>2, TypesAreKnown, DeviceIsRigid DEF TypesOfTiles
<1>5. SiteRows'
  BY <1>1, <1>4 DEF Importing, SiteRows
<1>6. TileRows'
  <2>1. ASSUME NEW n \in 1 .. Len(memory.phy_tile), NEW i \in Emitted(device.tiles[n].type)
        PROVE  ~Ahead(n, i) /\ ~Ahead(n, i)'
    <3>1. Emitted(queue.type) \subseteq Seen(queue.type)
      BY <1>1, <1>3, <1>4, AllSeen DEF Seen
    <3>. QED
      BY <1>1, <1>3, <3>1 DEF Ahead
  <2>2. \A n \in 1 .. Len(memory.phy_tile) : \A i \in Emitted(device.tiles[n].type) :
          \E r \in DOMAIN memory.site_instance : RowsFor(memory, n, i) = {r}
    BY <1>3, <2>1 DEF RowsMade
  <2>3. RowsMade'
    <3>1. \A n, i : RowsFor(memory', n, i) = RowsFor(memory, n, i)
      BY <1>1 DEF RowsFor
    <3>. QED
      BY <1>1, <2>1, <2>2, <3>1 DEF RowsMade, Emitted, Sites
  <2>. QED
    BY <1>1, <2>3 DEF Importing, TileRows
<1>7. Switches'
  BY <1>1, <1>2, SwitchesKeep DEF Importing
<1>8. Types'
  BY <1>1, <1>2, TypesKeep DEF Importing
<1>9. NodeRows'
  BY <1>1 DEF NodeRows
<1>10. Muxes'
  BY <1>1, <1>2, NoMuxes DEF Importing
<1>11. Importing'
  BY <1>1, <1>2, <1>5, <1>6, <1>7, <1>8, <1>9, <1>10, LaterIsEmpty DEF Importing, OnlyChanges, Stages
<1>. QED
  BY <1>1, <1>11, Onwards

LEMMA GridCommit ==
  ASSUME TargetsInv, NodesInv, CommitGrid
  PROVE  TargetsInv'
<1>1. /\ program = "form_channels" /\ stage = "sites" /\ Importing /\ Len(memory.phy_tile) = Len(device.tiles)
      /\ stage' = "wires" /\ UNCHANGED <<device, memory, file, program, built, pip_cache>>
  BY DEF CommitGrid, Proceeds, Runs, inner, TargetsInv
<1>2. OnlyChanges({})
  BY <1>1 DEF OnlyChanges, Importing
<1>3. Switches'
  BY <1>1, <1>2, SwitchesKeep DEF Importing
<1>4. Types'
  BY <1>1, <1>2, TypesKeep DEF Importing
<1>5. SiteRows' /\ NodeRows'
  BY <1>1 DEF SiteRows, NodeRows
<1>6. TileRows'
  BY <1>1, <1>2, TileRowsKeep DEF Importing
<1>7. Muxes'
  BY <1>1, <1>2, NoMuxes DEF Importing
<1>8. Importing'
  BY <1>1, <1>2, <1>3, <1>4, <1>5, <1>6, <1>7, LaterIsEmpty DEF Importing, OnlyChanges, Stages
<1>. QED
  BY <1>1, <1>8, Onwards

(* The wires of tiles that are in wire_in_tile are those of the device:    *)
(* the name of a tile tells its type.                                      *)
LEMMA WiresOfDevice ==
  ASSUME NodesInv
  PROVE  LET all == UNION {{<<t.name, w>> : w \in TileTypes[t.type].wires} : t \in Range(device.tiles)}
         IN  {w \in all : WireInTile(w) \in WiresOf(TypesOfTiles)} = DeviceWires
<1> DEFINE all == UNION {{<<t.name, w>> : w \in TileTypes[t.type].wires} : t \in Range(device.tiles)}
<1>1. ASSUME NEW t \in Range(device.tiles) PROVE TypeOf(t.name) = t.type /\ t.type \in TypesOfTiles
  <2>1. \A u \in Range(device.tiles) : u.name = t.name => u = t
    BY DevicesAssumption DEF NodesInv, GoodTables
  <2>2. (CHOOSE u \in Range(device.tiles) : u.name = t.name) = t
    BY <2>1
  <2>. QED
    BY <2>2 DEF TypeOf, TypesOfTiles, Range
<1>2. ASSUME NEW t \in Range(device.tiles), NEW x
      PROVE  WireInTile(<<t.name, x>>) = <<t.type, x>>
  BY <1>1 DEF WireInTile
<1>3. ASSUME NEW t \in Range(device.tiles), NEW x
      PROVE  <<t.type, x>> \in WiresOf(TypesOfTiles) <=> x \in TileTypes[t.type].wires \ MaskedWires(t.type)
  BY <1>1 DEF WiresOf
<1>4. ASSUME NEW w \in all, WireInTile(w) \in WiresOf(TypesOfTiles) PROVE w \in DeviceWires
  <2>0. PICK t \in Range(device.tiles) : w \in {<<t.name, x>> : x \in TileTypes[t.type].wires}
    BY <1>4
  <2>1. PICK x \in TileTypes[t.type].wires : w = <<t.name, x>>
    BY <2>0
  <2>2. x \in TileTypes[t.type].wires \ MaskedWires(t.type)
    BY <1>2, <1>3, <1>4, <2>1
  <2>. QED
    BY <2>1, <2>2 DEF DeviceWires
<1>5. ASSUME NEW w \in DeviceWires PROVE w \in all /\ WireInTile(w) \in WiresOf(TypesOfTiles)
  <2>0. PICK t \in Range(device.tiles) : w \in {<<t.name, x>> : x \in TileTypes[t.type].wires \ MaskedWires(t.type)}
    BY DEF DeviceWires
  <2>1. PICK x \in TileTypes[t.type].wires \ MaskedWires(t.type) : w = <<t.name, x>>
    BY <2>0
  <2>2. WireInTile(w) \in WiresOf(TypesOfTiles)
    BY <1>2, <1>3, <2>1
  <2>. QED
    BY <2>1, <2>2
<1> HIDE DEF all
<1>6. {w \in all : WireInTile(w) \in WiresOf(TypesOfTiles)} = DeviceWires
  BY <1>4, <1>5
<1>. QED
  BY <1>6 DEF all

LEMMA WiresImport ==
  ASSUME TargetsInv, NodesInv, InsertWires
  PROVE  TargetsInv'
<1>1. program = "form_channels" /\ stage = "wires" /\ Importing
  BY DEF InsertWires, Runs, TargetsInv
<1>2. memory.wire_in_tile = WiresOf(TypesOfTiles)
  BY <1>1 DEF Importing, Types
<1>3. memory' = [memory EXCEPT !.wire = DeviceWires]
  BY <1>2, WiresOfDevice DEF InsertWires
<1>4. /\ wires' = [w \in memory'.wire |-> {}] /\ stage' = "connect"
      /\ UNCHANGED <<device, file, program, built, pip_cache>>
  BY DEF InsertWires, Proceeds, inner
<1>5. /\ OnlyChanges({"wire"}) /\ memory'.later = memory.later /\ memory'.site_pin = memory.site_pin
      /\ memory'.wire = DeviceWires
  BY <1>1, <1>3, <1>4 DEF OnlyChanges, Importing, IsTables, NoTables
<1>6. Switches'
  BY <1>1, <1>4, <1>5, SwitchesKeep DEF Importing
<1>7. Types'
  BY <1>1, <1>4, <1>5, TypesKeep DEF Importing
<1>8. SiteRows'
  BY <1>4 DEF SiteRows
<1>9. NodeRows'
  BY <1>4, <1>5, DeviceIsRigid DEF NodeRows
<1>10. TileRows'
  BY <1>1, <1>4, <1>5, TileRowsKeep DEF Importing
<1>11. Muxes'
  BY <1>1, <1>4, <1>5, NoMuxes DEF Importing
<1>12. Importing'
  BY <1>1, <1>4, <1>5, <1>6, <1>7, <1>8, <1>9, <1>10, <1>11, LaterIsEmpty DEF Importing, OnlyChanges, Stages
<1>. QED
  BY <1>1, <1>4, <1>12, Onwards

LEMMA ConnectionImport ==
  ASSUME TargetsInv, NodesInv, NEW c \in left, Connect(c)
  PROVE  TargetsInv'
<1>1. program = "form_channels" /\ stage = "connect" /\ Importing /\ UNCHANGED device
  BY DEF Connect, Runs, TargetsInv
<1>2. CASE Raised
  BY <1>1, <1>2, RaisedStops DEF Raised
<1>3. CASE ~Raised
  <2>1. /\ wires' = Merged(c[1], c[2]) /\ stage' = "connect"
        /\ UNCHANGED <<memory, file, program, built, pip_cache>>
    BY <1>3 DEF Connect, Proceeds, inner
  <2>2. OnlyChanges({}) /\ DOMAIN wires' = DOMAIN wires
    BY <1>1, <2>1 DEF OnlyChanges, Importing, Merged
  <2>3. Switches'
    BY <1>1, <2>1, <2>2, SwitchesKeep DEF Importing
  <2>4. Types'
    BY <1>1, <2>1, <2>2, TypesKeep DEF Importing
  <2>5. SiteRows'
    BY <2>1 DEF SiteRows
  <2>6. NodeRows'
    BY <1>1, <2>1, <2>2, DeviceIsRigid DEF Importing, NodeRows
  <2>7. TileRows'
    BY <1>1, <2>1, <2>2, TileRowsKeep DEF Importing
  <2>8. Muxes'
    BY <1>1, <2>1, <2>2, NoMuxes DEF Importing
  <2>9. Importing'
    BY <1>1, <2>1, <2>2, <2>3, <2>4, <2>5, <2>6, <2>7, <2>8, LaterIsEmpty DEF Importing, OnlyChanges, Stages
  <2>. QED
    BY <1>1, <2>1, <2>9, Onwards
<1>. QED
  BY <1>2, <1>3

LEMMA NodesImport ==
  ASSUME TargetsInv, NodesInv, InsertNodes
  PROVE  TargetsInv'
<1>1. program = "form_channels" /\ stage = "connect" /\ Importing
  BY DEF InsertNodes, Runs, TargetsInv
<1>2. /\ memory' = [memory EXCEPT !.node = [w \in DOMAIN wires |-> NodeOf(w)]] /\ stage' = "count"
      /\ UNCHANGED <<device, file, program, built, pip_cache>>
  BY DEF InsertNodes, Proceeds, inner
<1>3. /\ OnlyChanges({"node"}) /\ memory'.later = memory.later /\ memory'.site_pin = memory.site_pin
      /\ memory'.wire = memory.wire /\ DOMAIN memory'.node = DOMAIN wires
  BY <1>1, <1>2 DEF OnlyChanges, Importing, IsTables, NoTables
<1>4. Switches'
  BY <1>1, <1>2, <1>3, SwitchesKeep DEF Importing
<1>5. Types'
  BY <1>1, <1>2, <1>3, TypesKeep DEF Importing
<1>6. SiteRows'
  BY <1>2 DEF SiteRows
<1>7. NodeRows'
  BY <1>1, <1>2, <1>3, DeviceIsRigid DEF Importing, NodeRows
<1>8. TileRows'
  BY <1>1, <1>2, <1>3, TileRowsKeep DEF Importing
<1>9. Muxes'
  BY <1>1, <1>2, <1>3, NoMuxes DEF Importing
<1>10. Importing'
  BY <1>1, <1>2, <1>3, <1>4, <1>5, <1>6, <1>7, <1>8, <1>9, LaterIsEmpty DEF Importing, OnlyChanges, Stages
<1>. QED
  BY <1>1, <1>2, <1>10, Onwards

(* The wire that count_sites_and_pips_on_nodes takes for the site of a     *)
(* node has a pin.                                                         *)
LEMMA SitesCount ==
  ASSUME TargetsInv, NodesInv, CountSitesAndPipsOnNodes
  PROVE  TargetsInv'
<1> DEFINE on == [n \in {m \in Nodes(memory) : PinsOf(memory, m) # {}} |-> CHOOSE w \in PinsOf(memory, n) : TRUE]
           number == [n \in Nodes(memory) |-> Cardinality(PipsOn(memory, n))]
<1>1. program = "form_channels" /\ stage = "count" /\ Importing /\ UNCHANGED device
  BY DEF CountSitesAndPipsOnNodes, Runs, TargetsInv
<1>2. CASE Raised
  BY <1>1, <1>2, RaisedStops DEF Raised
<1>3. CASE ~Raised
  <2>1. /\ memory' = [memory EXCEPT !.site_wire = on, !.number_pips = number]
        /\ stage' = "classify" /\ UNCHANGED <<file, program, built, pip_cache>>
    BY <1>3 DEF CountSitesAndPipsOnNodes, Proceeds, inner
  <2>2. \A n \in DOMAIN on : WireInTile(on[n]) \in DOMAIN memory.site_pin
    BY DEF PinsOf
  <2> HIDE DEF on, number
  <2>3. /\ OnlyChanges({"site_wire", "number_pips"}) /\ memory'.later = memory.later
        /\ memory'.site_pin = memory.site_pin /\ memory'.site_wire = on
        /\ memory'.edge_with_mux = memory.edge_with_mux
    BY <1>1, <2>1 DEF OnlyChanges, Importing, IsTables, NoTables
  <2>4. Switches'
    BY <1>1, <2>1, <2>3, SwitchesKeep DEF Importing
  <2>5. Types'
    BY <1>1, <2>1, <2>3, TypesKeep DEF Importing
  <2>6. SiteRows'
    BY <2>1 DEF SiteRows
  <2>7. NodeRows'
    BY <1>1, <2>1, <2>3, NodeRowsKeep DEF Importing
  <2>8. TileRows'
    BY <1>1, <2>1, <2>3, TileRowsKeep DEF Importing
  <2>9. Muxes'
    <3>1. memory'.edge_with_mux = <<>> /\ DOMAIN memory'.edge_with_mux = {}
      <4>1. memory.edge_with_mux = <<>>
        BY <1>1 DEF Importing, Muxes
      <4>. QED
        BY <2>3, <4>1
    <3>2. \A w : UNCHANGED WireInTile(w)
      BY <1>1, DeviceIsRigid
    <3>3. \A n \in DOMAIN memory'.site_wire : WireInTile(memory.site_wire[n])' \in DOMAIN memory'.site_pin
      BY <2>2, <2>3, <3>2
    <3>. QED
      BY <2>1, <3>1, <3>3 DEF Muxes
  <2>10. Importing'
    BY <1>1, <2>1, <2>3, <2>4, <2>5, <2>6, <2>7, <2>8, <2>9, LaterIsEmpty DEF Importing, OnlyChanges, Stages
  <2>. QED
    BY <1>1, <2>1, <2>10, Onwards
<1>. QED
  BY <1>2, <1>3

(* An edge with mux is of two site pins and a pip, all with a switch.      *)
HasPins(t, x) ==
  /\ WireInTile(x.src) \in DOMAIN t.site_pin /\ WireInTile(x.dest) \in DOMAIN t.site_pin
  /\ x.pip \in t.pip_in_tile

LEMMA EdgesHavePins ==
  ASSUME Muxes, NEW x \in EdgesWithMux(memory)
  PROVE  HasPins(memory, x)
<1> DEFINE alone == {n \in DOMAIN memory.site_wire : memory.number_pips[n] = 1}
           Mux(e) == [src |-> memory.site_wire[e[1]], dest |-> memory.site_wire[e[2]], pip |-> e[3]]
<1>1. PICK e \in alone \X alone \X memory.pip_in_tile : x = Mux(e)
  BY DEF EdgesWithMux
<1>2. e[1] \in DOMAIN memory.site_wire /\ e[2] \in DOMAIN memory.site_wire /\ e[3] \in memory.pip_in_tile
  BY <1>1
<1>3. x.src = memory.site_wire[e[1]] /\ x.dest = memory.site_wire[e[2]] /\ x.pip = e[3]
  BY <1>1
<1>. QED
  BY <1>2, <1>3 DEF Muxes, HasPins

(* What Lumped takes of it are numbers, and more switches do not change    *)
(* them.                                                                   *)
LEMMA ChainOfSwitches ==
  ASSUME NEW t, PipsTimed(t), PinsTimed(t), NEW x, HasPins(t, x)
  PROVE  LET c == Chain(t, x)
         IN  /\ c[1] \in Timings /\ c[2] \in Nat /\ c[3].timing \in Timings
             /\ c[4] \in Nat /\ c[5] \in Timings
<1>1. ASSUME NEW w, WireInTile(w) \in DOMAIN t.site_pin
      PROVE  t.switch[t.site_pin[WireInTile(w)].switch].timing \in Timings /\ Capacitance(w) \in Nat
  <2>1. WireInTile(w)[1] = TypeOf(w[1]) /\ WireInTile(w)[2] = w[2]
    BY DEF WireInTile
  <2> DEFINE ty == TypeOf(w[1])
             i == t.site_pin[WireInTile(w)].site
             k == t.site_pin[WireInTile(w)].switch
  <2>2. /\ ty \in DOMAIN TileTypes /\ w[2] \in TileTypes[ty].wires /\ i \in DOMAIN TileTypes[ty].sites
        /\ HasRow(t, k, SwitchOfPin(TileTypes[ty].sites[i].timing))
    BY <1>1, <2>1 DEF PinsTimed
  <2> HIDE DEF ty, i, k
  <2>3. TileTypes[ty].capacitance[w[2]] \in Nat
    BY <2>2, TileTypesAssumption
  <2>4. TileTypes[ty].sites[i].timing \subseteq Timings
    <3>1. TileTypes[ty].sites[i] \in Range(TileTypes[ty].sites)
      BY <2>2 DEF Range
    <3>. QED
      BY <2>2, <3>1, TileTypesAssumption
  <2>5. \A set : set \subseteq Timings => SwitchOfPin(set).timing \in Timings
    <3>1. Timing(Tiny, 0, 0) \in Timings
      BY DEF Timing, Tiny, Timings
    <3>2. \A set : set \subseteq Timings /\ set # {} => (CHOOSE y \in set : TRUE) \in Timings
      OBVIOUS
    <3>. QED
      BY <3>1, <3>2 DEF SwitchOfPin, Row
  <2>6. t.switch[k].timing \in Timings
    BY <2>2, <2>4, <2>5 DEF HasRow
  <2>. QED
    BY <2>3, <2>6 DEF Capacitance, ty, k
<1>2. t.switch[t.pip_switch[x.pip][1]].timing \in Timings
  <2> DEFINE p == x.pip
             k == t.pip_switch[x.pip][1]
  <2>1. /\ p[1] \in DOMAIN TileTypes /\ p[2] \in Range(TileTypes[p[1]].pips)
        /\ HasRow(t, k, SwitchOfPip(p[2], p[2].timing))
    BY DEF HasPins, PipsTimed
  <2> HIDE DEF p, k
  <2>2. p[2].timing \subseteq Timings
    BY <2>1, TileTypesAssumption
  <2>3. \A pip, set : set \subseteq Timings => SwitchOfPip(pip, set).timing \in Timings
    <3>1. NoTiming \in Timings
      BY DEF NoTiming, Timing, Timings
    <3>2. \A set : set \subseteq Timings /\ set # {} => (CHOOSE y \in set : TRUE) \in Timings
      OBVIOUS
    <3>. QED
      BY <3>1, <3>2 DEF SwitchOfPip, Row
  <2>4. t.switch[k].timing \in Timings
    BY <2>1, <2>2, <2>3 DEF HasRow
  <2>. QED
    BY <2>4 DEF k
<1>. QED
  BY <1>1, <1>2 DEF Chain, HasPins

LEMMA ChainStays ==
  ASSUME NEW t, PipsTimed(t), PinsTimed(t), NEW u,
         u.site_pin = t.site_pin, u.pip_switch = t.pip_switch,
         \A k \in DOMAIN t.switch : HasRow(u, k, t.switch[k]),
         NEW x, HasPins(t, x)
  PROVE  Chain(u, x) = Chain(t, x)
<1>1. /\ t.site_pin[WireInTile(x.src)].switch \in DOMAIN t.switch
      /\ t.site_pin[WireInTile(x.dest)].switch \in DOMAIN t.switch
      /\ t.pip_switch[x.pip][1] \in DOMAIN t.switch
  BY DEF HasPins, PinsTimed, PipsTimed, HasRow
<1>. QED
  BY <1>1 DEF Chain, HasRow

LEMMA SameEdges ==
  ASSUME NEW t, NEW u, u.site_wire = t.site_wire, u.number_pips = t.number_pips, u.pip_in_tile = t.pip_in_tile
  PROVE  EdgesWithMux(u) = EdgesWithMux(t)
BY DEF EdgesWithMux

(* The switch that a new edge with mux gets has the delay of its chain.    *)
LEMMA LumpedIsTimed ==
  ASSUME PipsTimed(memory), PinsTimed(memory), NEW x, HasPins(memory, x), CheckEdgeWithMuxTiming(memory, x)
  PROVE  LET c == Chain(memory, x)
             row == LumpedSwitch(c)
         IN  /\ ~row.pass /\ row.timing.r = 0 /\ row.timing.c = 0
             /\ c[3].pass \/ row.timing.delay = ElmoreDelay(c[1], c[2], c[3], c[4], c[5])
<1> DEFINE c == Chain(memory, x)
<1>1. c[1] \in Timings /\ c[2] \in Nat /\ c[3].timing \in Timings /\ c[4] \in Nat /\ c[5] \in Timings
  BY ChainOfSwitches
<1>2. CanBeLumped(c[1], c[2], c[3], c[4], c[5])
  BY DEF CheckEdgeWithMuxTiming
<1> HIDE DEF c
<1>3. c[3].pass \/ Lumped(c[1], c[2], c[3], c[4], c[5]) = ElmoreDelay(c[1], c[2], c[3], c[4], c[5])
  BY <1>1, <1>2, LumpedIsElmore
<1>. QED
  BY <1>3 DEF LumpedSwitch, Row, Timing, c

LEMMA EdgeStays ==
  ASSUME NEW t, PipsTimed(t), PinsTimed(t), NEW u,
         u.site_pin = t.site_pin, u.pip_switch = t.pip_switch,
         \A k \in DOMAIN t.switch : HasRow(u, k, t.switch[k]),
         NEW y, HasPins(t, y), u.edge_with_mux[y] = t.edge_with_mux[y], EdgeTimed(t, y)
  PROVE  EdgeTimed(u, y)
<1>1. Chain(u, y) = Chain(t, y)
  BY ChainStays
<1>2. t.edge_with_mux[y] \in DOMAIN t.switch
  BY DEF EdgeTimed
<1>3. /\ t.edge_with_mux[y] \in DOMAIN u.switch
      /\ u.switch[t.edge_with_mux[y]] = t.switch[t.edge_with_mux[y]]
  BY <1>2 DEF HasRow
<1>. QED
  BY <1>1, <1>3 DEF EdgeTimed

(* Muxes, for the tables u that memory gets.                               *)
LEMMA MuxesFollow ==
  ASSUME UNCHANGED device, NEW u, u = memory', Muxes,
         u.site_wire = memory.site_wire, u.number_pips = memory.number_pips,
         u.pip_in_tile = memory.pip_in_tile, u.site_pin = memory.site_pin,
         stage' \in {"muxes", "grid", "tracks", "flush"},
         stage' = "muxes" => left' \subseteq EdgesWithMux(memory),
         DOMAIN u.edge_with_mux = IF stage' = "muxes" THEN EdgesWithMux(memory) \ left' ELSE EdgesWithMux(memory),
         \A x \in DOMAIN u.edge_with_mux : EdgeTimed(u, x)
  PROVE  Muxes'
<1>1. EdgesWithMux(memory)' = EdgesWithMux(memory)
  <2>1. EdgesWithMux(u) = EdgesWithMux(memory)
    BY SameEdges
  <2>2. EdgesWithMux(u)' = EdgesWithMux(u)
    BY DeviceIsRigid
  <2>. QED
    BY <2>1, <2>2
<1>2. \A x : EdgeTimed(u, x)' <=> EdgeTimed(u, x)
  <2>1. \A x : Chain(u, x)' = Chain(u, x)
    BY DeviceIsRigid
  <2>. QED
    BY <2>1 DEF EdgeTimed
<1>3. \A x \in DOMAIN memory'.edge_with_mux : EdgeTimed(memory, x)'
  BY <1>2
<1>4. \A n \in DOMAIN memory'.site_wire : WireInTile(memory.site_wire[n])' \in DOMAIN memory'.site_pin
  <2>1. \A w : UNCHANGED WireInTile(w)
    BY DeviceIsRigid
  <2>. QED
    BY <2>1 DEF Muxes
<1>. QED
  BY <1>1, <1>3, <1>4 DEF Muxes

LEMMA MuxesBegin ==
  ASSUME TargetsInv, NodesInv, ClassifyNodes
  PROVE  TargetsInv'
<1>1. /\ program = "form_channels" /\ stage = "classify" /\ Importing
      /\ stage' = "muxes" /\ left' = EdgesWithMux(memory)
      /\ UNCHANGED <<device, memory, file, program, built, pip_cache>>
  BY DEF ClassifyNodes, Proceeds, inner, Runs, TargetsInv
<1>2. OnlyChanges({})
  BY <1>1 DEF OnlyChanges, Importing
<1>3. Switches'
  BY <1>1, <1>2, SwitchesKeep DEF Importing
<1>4. Types'
  BY <1>1, <1>2, TypesKeep DEF Importing
<1>5. SiteRows'
  BY <1>1 DEF SiteRows
<1>6. NodeRows'
  BY <1>1, <1>2, NodeRowsKeep DEF Importing
<1>7. TileRows'
  BY <1>1, <1>2, TileRowsKeep DEF Importing
<1>8. Muxes'
  <2>1. PICK u : u = memory'
    OBVIOUS
  <2>2. Muxes /\ memory.edge_with_mux = <<>>
    BY <1>1 DEF Importing, Muxes
  <2>3. DOMAIN u.edge_with_mux = {}
    BY <1>1, <2>1, <2>2
  <2>. QED
    BY <1>1, <2>1, <2>2, <2>3, MuxesFollow
<1>9. Importing'
  BY <1>1, <1>2, <1>3, <1>4, <1>5, <1>6, <1>7, <1>8, LaterIsEmpty DEF Importing, OnlyChanges, Stages
<1>. QED
  BY <1>1, <1>9, Onwards

LEMMA MuxImport ==
  ASSUME TargetsInv, NodesInv, NEW x \in left, InsertEdgeWithMux(x)
  PROVE  TargetsInv'
<1> DEFINE row == LumpedSwitch(Chain(memory, x))
           s == GetSwitchTiming(Now, row)
<1>1. program = "form_channels" /\ stage = "muxes" /\ Importing /\ UNCHANGED device
  BY DEF InsertEdgeWithMux, Runs, TargetsInv
<1>2. CASE ~CheckEdgeWithMuxTiming(memory, x)
  BY <1>1, <1>2, RaisedStops DEF InsertEdgeWithMux, Raised
<1>3. CASE CheckEdgeWithMuxTiming(memory, x)
  <2>1. /\ memory' = [s.memory EXCEPT !.edge_with_mux =
               [y \in DOMAIN @ \union {x} |-> IF y = x THEN s.cache[row] ELSE @[y]]]
        /\ pip_cache' = s.cache
        /\ stage' = "muxes" /\ left' = left \ {x} /\ UNCHANGED <<file, program, built>>
    BY <1>3 DEF InsertEdgeWithMux, Proceeds
  <2>2. /\ CacheKnows(memory, pip_cache) /\ PipsTimed(memory) /\ PinsTimed(memory) /\ Muxes
        /\ left \subseteq EdgesWithMux(memory) /\ DOMAIN memory.edge_with_mux = EdgesWithMux(memory) \ left
        /\ \A y \in DOMAIN memory.edge_with_mux : EdgeTimed(memory, y)
    BY <1>1 DEF Importing, Switches, Muxes
  <2>3. /\ Extends(memory, s.memory) /\ CacheKnows(s.memory, s.cache) /\ HasRow(s.memory, s.cache[row], row)
    <3> HIDE DEF row
    <3>1. Now.memory = memory /\ Now.cache = pip_cache /\ IsTables(memory)
      BY <1>1 DEF Now, Importing
    <3>. QED
      BY <2>2, <3>1, SwitchIsKnown
  <2>4. PipsTimed(s.memory) /\ PinsTimed(s.memory)
    BY <2>2, <2>3, ExtendsTimed
  <2> HIDE DEF row, s
  <2>5. /\ OnlyChanges({"switch", "edge_with_mux"}) /\ memory'.switch = s.memory.switch
        /\ memory'.edge_with_mux = [y \in DOMAIN memory.edge_with_mux \union {x} |->
                                      IF y = x THEN s.cache[row] ELSE memory.edge_with_mux[y]]
    BY <1>1, <2>1, <2>3 DEF OnlyChanges, Extends, IsTables, NoTables
  <2>6. /\ memory'.site_wire = memory.site_wire /\ memory'.number_pips = memory.number_pips
        /\ memory'.pip_in_tile = memory.pip_in_tile /\ memory'.site_pin = memory.site_pin
        /\ memory'.pip_switch = memory.pip_switch /\ memory'.later = memory.later
    BY <2>5 DEF OnlyChanges, NoTables
  <2>7. \A k, r : HasRow(memory', k, r) <=> HasRow(s.memory, k, r)
    BY <2>5 DEF HasRow
  <2>8. Switches'
    <3>1. CacheKnows(memory', pip_cache')
      BY <2>1, <2>3, <2>5, <2>7 DEF CacheKnows
    <3>2. /\ s.memory.pip_in_tile = memory.pip_in_tile /\ s.memory.pip_switch = memory.pip_switch
          /\ s.memory.site_pin = memory.site_pin
      BY <2>3 DEF Extends, NoTables
    <3>3. PipsTimed(memory') /\ PinsTimed(memory')
      BY <2>4, <2>6, <2>7, <3>2 DEF PipsTimed, PinsTimed
    <3>. QED
      BY <2>1, <3>1, <3>3 DEF Switches
  <2>9. Muxes'
    <3>1. PICK u : u = memory'
      OBVIOUS
    <3>2. \A k \in DOMAIN memory.switch : HasRow(u, k, memory.switch[k])
      BY <2>3, <2>7, <3>1 DEF Extends
    <3>3. ASSUME NEW y \in DOMAIN u.edge_with_mux PROVE EdgeTimed(u, y)
      <4>1. y \in EdgesWithMux(memory)
        BY <2>2, <2>5, <3>1
      <4>2. HasPins(memory, y)
        BY <2>2, <4>1, EdgesHavePins
      <4>3. CASE y = x
        <5>1. Chain(u, x) = Chain(memory, x)
          BY <2>2, <2>6, <3>1, <3>2, <4>2, <4>3, ChainStays
        <5>2. u.edge_with_mux[x] = s.cache[row] /\ HasRow(u, s.cache[row], row)
          BY <2>3, <2>5, <2>7, <3>1
        <5>3. LET c == Chain(memory, x)
              IN  /\ ~row.pass /\ row.timing.r = 0 /\ row.timing.c = 0
                  /\ c[3].pass \/ row.timing.delay = ElmoreDelay(c[1], c[2], c[3], c[4], c[5])
          BY <1>3, <2>2, <4>2, <4>3, LumpedIsTimed DEF row
        <5>. QED
          BY <4>3, <5>1, <5>2, <5>3 DEF EdgeTimed, HasRow
      <4>4. CASE y # x
        <5>1. y \in DOMAIN memory.edge_with_mux /\ u.edge_with_mux[y] = memory.edge_with_mux[y]
          BY <2>5, <3>1, <4>4
        <5>2. EdgeTimed(memory, y)
          BY <2>2, <5>1
        <5>. QED
          BY <2>2, <2>6, <3>1, <3>2, <4>2, <5>1, <5>2, EdgeStays
      <4>. QED
        BY <4>3, <4>4
    <3>4. DOMAIN u.edge_with_mux = EdgesWithMux(memory) \ left' /\ left' \subseteq EdgesWithMux(memory)
      BY <2>1, <2>2, <2>5, <3>1
    <3>. QED
      BY <1>1, <2>1, <2>2, <2>6, <3>1, <3>3, <3>4, MuxesFollow
  <2>10. Types'
    BY <1>1, <2>1, <2>5, TypesKeep DEF Importing
  <2>11. SiteRows'
    BY <2>1 DEF SiteRows
  <2>12. NodeRows'
    BY <1>1, <2>1, <2>5, NodeRowsKeep DEF Importing
  <2>13. TileRows'
    BY <1>1, <2>1, <2>5, TileRowsKeep DEF Importing
  <2>14. Importing'
    BY <1>1, <2>1, <2>5, <2>6, <2>8, <2>9, <2>10, <2>11, <2>12, <2>13 DEF Importing, OnlyChanges
  <2>. QED
    BY <1>1, <2>1, <2>14, Onwards
<1>. QED
  BY <1>2, <1>3

(* The stages after the import, which have modules of their own.           *)
LEMMA ImportContinues ==
  ASSUME TargetsInv, NodesInv, program = "form_channels", NEW s, NEW next,
         \/ stage = "muxes" /\ left = {} /\ s = "classify" /\ next = "grid"
         \/ stage = "grid" /\ s = "grid" /\ next = "tracks"
         \/ stage = "tracks" /\ s = "tracks" /\ next = "flush",
         memory' = Done(memory, s), stage' = next, UNCHANGED <<device, file, program, built, pip_cache>>
  PROVE  TargetsInv'
<1>1. Importing
  BY DEF TargetsInv
<1>2. OnlyChanges({"later"}) /\ memory'.later = Append(memory.later, s)
  BY <1>1 DEF OnlyChanges, Importing, Done, IsTables, NoTables
<1>3. memory'.later = Before[next]
  <2>1. memory.later = Before[stage] /\ stage \in Stages /\ next \in Stages
    BY <1>1 DEF Importing, Stages
  <2>2. CASE stage = "muxes"
    BY <1>2, <2>1, <2>2 DEF Before
  <2>3. CASE stage = "grid"
    BY <1>2, <2>1, <2>3 DEF Before
  <2>4. CASE stage = "tracks"
    <3>1. Before["flush"] = Append(Before["tracks"], "tracks")
      BY DEF Before, Stages
    <3>. QED
      BY <1>2, <2>1, <2>4, <3>1
  <2>. QED
    BY <2>2, <2>3, <2>4
<1>4. Switches'
  BY <1>1, <1>2, SwitchesKeep DEF Importing
<1>5. Types'
  BY <1>1, <1>2, TypesKeep DEF Importing
<1>6. SiteRows'
  BY DEF SiteRows
<1>7. NodeRows'
  BY <1>1, <1>2, NodeRowsKeep DEF Importing
<1>8. TileRows'
  BY <1>1, <1>2, TileRowsKeep DEF Importing
<1>9. Muxes'
  <2>1. PICK u : u = memory'
    OBVIOUS
  <2>2. /\ u.site_wire = memory.site_wire /\ u.number_pips = memory.number_pips
        /\ u.pip_in_tile = memory.pip_in_tile /\ u.site_pin = memory.site_pin
        /\ u.pip_switch = memory.pip_switch /\ u.switch = memory.switch /\ u.edge_with_mux = memory.edge_with_mux
    BY <1>2, <2>1 DEF OnlyChanges, NoTables
  <2>3. Muxes /\ DOMAIN memory.edge_with_mux = EdgesWithMux(memory)
    BY <1>1 DEF Importing, Muxes
  <2>4. \A x \in DOMAIN u.edge_with_mux : EdgeTimed(u, x)
    <3>1. \A x : Chain(u, x) = Chain(memory, x)
      BY <2>2 DEF Chain
    <3>. QED
      BY <2>2, <2>3, <3>1 DEF Muxes, EdgeTimed
  <2>. QED
    BY <2>1, <2>2, <2>3, <2>4, MuxesFollow
<1>10. Importing'
  BY <1>1, <1>2, <1>3, <1>4, <1>5, <1>6, <1>7, <1>8, <1>9 DEF Importing, OnlyChanges, Stages
<1>. QED
  BY <1>10, Onwards

LEMMA StageRuns ==
  ASSUME TargetsInv, NodesInv, EndClassify \/ RunStage
  PROVE  TargetsInv'
<1>1. CASE EndClassify
  <2>1. /\ program = "form_channels" /\ stage = "muxes" /\ left = {}
        /\ memory' = Done(memory, "classify") /\ stage' = "grid"
        /\ UNCHANGED <<device, file, program, built, pip_cache>>
    BY <1>1 DEF EndClassify, Proceeds, inner, Runs
  <2>. QED
    BY <2>1, ImportContinues
<1>2. CASE RunStage /\ Raised
  BY <1>2, RaisedStops DEF RunStage, Raised
<1>3. CASE RunStage /\ ~Raised
  <2>1. /\ program # "none" /\ stage \in {"grid", "tracks", "edges"}
        /\ memory' = Done(memory, stage) /\ stage' = Following[stage]
        /\ UNCHANGED <<device, file, program, built, pip_cache>>
    BY <1>3 DEF RunStage, Proceeds, inner, Following
  <2>2. program \in {"form_channels", "create_edges"}
    BY <2>1 DEF TargetsInv
  <2>3. CASE program = "form_channels"
    <3>1. stage \in {"grid", "tracks"}
      BY <2>1, <2>3 DEF TargetsInv, Importing, Stages
    <3>2. Following["grid"] = "tracks" /\ Following["tracks"] = "flush"
      BY DEF Following
    <3>. QED
      BY <2>1, <2>3, <3>1, <3>2, ImportContinues
  <2>4. CASE program = "create_edges"
    <3>1. /\ Creating /\ stage = "edges" /\ stage' = "flush"
      BY <2>1, <2>4 DEF TargetsInv, Creating, EdgeStages, Following
    <3>2. Whole(memory) /\ IsTables(memory) /\ memory.later = EdgesBefore["edges"] /\ "form_channels" \in built
      BY <3>1 DEF Creating
    <3>3. PICK t : t = Done(memory, "edges")
      OBVIOUS
    <3>4. Whole(t) /\ IsTables(t) /\ t.later = Append(EdgesBefore["edges"], "edges")
      BY <3>2, <3>3, DoneIsWhole
    <3>5. EdgesBefore["flush"] = Append(EdgesBefore["edges"], "edges")
      BY DEF EdgesBefore, EdgeStages
    <3>6. Whole(t)' /\ memory' = t
      BY <2>1, <3>1, <3>3, <3>4, WholeIsRigid
    <3>7. Creating'
      BY <2>1, <3>1, <3>2, <3>4, <3>5, <3>6 DEF Creating, EdgeStages
    <3>8. KeepsTargets
      BY <2>1 DEF KeepsTargets
    <3>. QED
      BY <2>1, <2>4, <3>7, <3>8, TargetsStay DEF TargetsInv
  <2>. QED
    BY <2>2, <2>3, <2>4
<1>. QED
  BY <1>1, <1>2, <1>3

LEMMA NothingHappens ==
  ASSUME TargetsInv, NodesInv, UNCHANGED vars
  PROVE  TargetsInv'
<1>1. UNCHANGED <<device, file, memory, program, stage, left, queue, pip_cache, wires, built>>
  BY DEF vars
<1>2. KeepsTargets
  BY <1>1 DEF KeepsTargets
<1>3. CASE program = "form_channels"
  <2>1. Importing
    BY <1>3 DEF TargetsInv
  <2>2. UNCHANGED TypesOfTiles /\ UNCHANGED DeviceWires /\ \A w : UNCHANGED WireInTile(w)
    BY <1>1, DeviceIsRigid
  <2>3. Switches' /\ Types'
    BY <1>1, <2>1, <2>2 DEF Importing, Switches, Types
  <2>4. SiteRows' /\ TileRows' /\ NodeRows'
    BY <1>1, <2>1, <2>2 DEF Importing, SiteRows, TileRows, NodeRows, RowsMade, Ahead, Seen
  <2>5. Muxes'
    <3>1. OnlyChanges({})
      BY <1>1, <2>1 DEF OnlyChanges, Importing
    <3>2. CASE stage \notin {"muxes", "grid", "tracks", "flush"}
      BY <1>1, <2>1, <3>1, <3>2, NoMuxes DEF Importing
    <3>3. CASE stage \in {"muxes", "grid", "tracks", "flush"}
      <4>1. PICK u : u = memory'
        OBVIOUS
      <4>2. /\ Muxes /\ \A x \in DOMAIN memory.edge_with_mux : EdgeTimed(memory, x)
            /\ stage = "muxes" => left \subseteq EdgesWithMux(memory)
            /\ DOMAIN memory.edge_with_mux = IF stage = "muxes" THEN EdgesWithMux(memory) \ left
                                             ELSE EdgesWithMux(memory)
        BY <2>1, <3>3 DEF Importing, Muxes
      <4>. QED
        BY <1>1, <3>3, <4>1, <4>2, MuxesFollow
    <3>. QED
      BY <3>2, <3>3
  <2>6. Importing'
    BY <1>1, <2>1, <2>3, <2>4, <2>5 DEF Importing
  <2>. QED
    BY <1>1, <1>3, <2>6, Onwards
<1>4. CASE program = "create_edges"
  <2>1. Creating
    BY <1>4 DEF TargetsInv
  <2>2. PICK t : t = IF stage \in {"edges", "flush"} THEN memory ELSE file["create_edges"]
    OBVIOUS
  <2>3. Whole(t) /\ IsTables(t) /\ t.later = EdgesBefore[stage]
    BY <2>1, <2>2 DEF Creating
  <2>4. Whole(t)'
    BY <1>1, <2>3, WholeIsRigid
  <2>5. Creating'
    BY <1>1, <2>1, <2>2, <2>3, <2>4 DEF Creating
  <2>. QED
    BY <1>1, <1>2, <1>4, <2>5, TargetsStay DEF TargetsInv
<1>5. CASE program = "none"
  BY <1>1, <1>2, <1>5, TargetsStay DEF TargetsInv
<1>. QED
  BY <1>3, <1>4, <1>5 DEF TargetsInv

LEMMA TargetsStep == TargetsInv /\ NodesInv /\ [Next]_vars => TargetsInv'
<1> SUFFICES ASSUME TargetsInv, NodesInv, [Next]_vars PROVE TargetsInv'
  OBVIOUS
<1>1. CASE Work
  BY <1>1, TablesImport, TileTypeImport, PipImport, SiteTypesImport, TileTypesCommit,
     RelationBegins, SiteImport, RelationEnds, TileImport, SiteInstanceImport, TileEnds, GridCommit,
     WiresImport, ConnectionImport, NodesImport, SitesCount, MuxesBegin, MuxImport, StageRuns, TargetPrograms
     DEF Work
<1>2. CASE Fail
  BY <1>2, TargetPrograms
<1>3. CASE UNCHANGED vars
  BY <1>3, NothingHappens
<1>. QED
  BY <1>1, <1>2, <1>3 DEF Next

(* Every file that the build takes for made holds the whole device, once,  *)
(* with the timing of every switch, however often and wherever programs    *)
(* failed before.                                                          *)
THEOREM TargetsHoldTheDevice == Spec => []TargetsAreWhole
<1>1. TargetsInv => TargetsAreWhole
  BY DEF TargetsInv
<1>2. Spec => []NodesInv
  BY NodesInit, NodesStep, PTL DEF Spec
<1>. QED
  BY <1>1, <1>2, InitTargets, TargetsStep, PTL DEF Spec
=============================================================================
