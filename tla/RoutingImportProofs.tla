------------------------ MODULE RoutingImportProofs ------------------------
(***************************************************************************)
(* Proofs about RoutingImport, for any number of tiles, pins, tracks and   *)
(* pips.  First PinDirections within it: the sides that are chosen for a   *)
(* pin suit every tile of the type, and stay as they are while the graph   *)
(* is made.  Then the import as GraphExport: a sequence is a list of its   *)
(* rows, no two rows speak for an edge but those of a site pin (RowsInv),  *)
(* nodes have one id each (GraphInv, IdsApart), and the loop that counts   *)
(* edges agrees with the one that yields them (WriteInv).  Then the clock  *)
(* lines: a pip turns on the line it drives, and the edges into a line are *)
(* of pips that drive it (ClockInv).  Then the curve that orders the       *)
(* nodes: none is beyond the channels (TracksInv, CurveInv).  Last the     *)
(* routes: rows are those of segments, pips, crossings and muxes, and of   *)
(* no other (LinksInv), what they pass through is alive (AliveInv), and    *)
(* nodes of pins and pads have their place, class and edges (PlacedInv);   *)
(* so the written graph leads just where the device does (RoutesInv), and  *)
(* no pip drives what a pad drives already (PadRowsInv).                   *)
(***************************************************************************)
EXTENDS RoutingImport, Reachability, SequenceTheorems

(* What is asserted of the sides of a pin once they are chosen; while they *)
(* are being reduced, there may be some that nothing needs.                *)
Chosen(k) ==
  /\ Suits(final[k], k)
  /\ Cardinality(final[k]) > 1 => Common(k) = {}
  /\ k \in reducing => Common(k) = {}
  /\ k \notin reducing /\ Cardinality(final[k]) > 2 =>
       \A d \in final[k] : ~Suits(final[k] \ {d}, k)

(* What every tile asks for is known before the first pin is decided, and  *)
(* nothing is asked for afterwards: a decision is never overtaken.         *)
SidesInv ==
  /\ DOMAIN final = Keys
  /\ reducing \subseteq Keys \ todo
  /\ \A j, k \in reducing : j = k
  /\ stage \in {"direct", "reasons", "channels"} => todo = Keys
  /\ stage = "process" \/ todo # Keys =>
       \A k \in Keys : Asked(k) \subseteq edge_assignments[k]
  /\ \A k \in Keys \ todo : Chosen(k)

-----------------------------------------------------------------------------
(* At first nothing is decided, and nothing is asked of a pin.             *)
LEMMA InitSides == Init => SidesInv
BY DEF Init, DirectionsInit, SidesInv

(* Nothing of the choice changes but what a step about the pin k changes.  *)
LEMMA SameSides ==
  ASSUME SidesInv, UNCHANGED <<segments, pips, muxes, edge_assignments, final, todo, reducing>>,
         stage' = stage \/ stage' \notin {"direct", "reasons", "channels", "process"}
  PROVE  SidesInv'
<1>1. \A k \in Keys : Available(k)' = Available(k) /\ Asked(k)' = Asked(k)
  BY DEF Available, Asked, Facing
<1>2. \A k \in Keys : Common(k)' = Common(k)
  BY <1>1 DEF Common
<1>3. ASSUME NEW k \in Keys, Chosen(k)
      PROVE  Chosen(k)'
  BY <1>1, <1>2, <1>3 DEF Chosen, Suits
<1>4. stage' = "process" => stage = "process"
  OBVIOUS
<1>5. stage' \in {"direct", "reasons", "channels"} => stage' = stage
  OBVIOUS
<1>. QED
  BY <1>1, <1>3, <1>4, <1>5 DEF SidesInv

(* Of a set of sides that is not empty, one may be taken.                  *)
LEMMA OneSide ==
  ASSUME NEW d
  PROVE  Cardinality({d}) = 1
BY FS_Singleton

(* A pin is decided once: by what its tiles have in common, or else by all *)
(* that they have.                                                         *)
LEMMA DecideSides ==
  ASSUME SidesInv, NEW k \in Keys, Decide(k)
  PROVE  SidesInv'
<1>1. /\ stage = "process" /\ reducing = {} /\ k \in todo /\ todo' = todo \ {k}
      /\ UNCHANGED <<device, edge_assignments, stage>>
  BY DEF Decide
<1>2. \A j \in Keys : Available(j)' = Available(j) /\ Common(j)' = Common(j) /\ Asked(j)' = Asked(j)
  BY <1>1 DEF Available, Common, Asked, Facing, device
<1>3. \A pins, j : Suits(pins, j)' <=> \A available \in Available(j)' : pins \intersect available # {}
  BY DEF Suits
<1>4. reducing' \subseteq {k} /\ DOMAIN final' = Keys /\ \A j \in Keys \ {k} : final'[j] = final[j]
  BY DEF Decide, SidesInv
<1>5. Chosen(k)'
  <2>1. CASE Available(k) = {}
    <3>1. final'[k] = {"RIGHT"}
      BY <2>1 DEF Decide, SidesInv
    <3>2. Cardinality(final'[k]) = 1 /\ reducing' = {}
      BY <1>1, <2>1, <3>1, OneSide DEF Decide
    <3>. QED
      BY <2>1, <3>1, <3>2, <1>2 DEF Chosen, Suits
  <2>2. CASE Available(k) # {} /\ Common(k) # {}
    <3>1. PICK d \in Common(k) : final'[k] = {d}
      BY <2>2 DEF Decide, SidesInv
    <3>2. \A available \in Available(k) : {d} \intersect available # {}
      BY <3>1 DEF Common
    <3>3. Cardinality(final'[k]) = 1 /\ reducing' = {}
      BY <1>1, <2>2, <3>1, OneSide DEF Decide
    <3>. QED
      BY <3>1, <3>2, <3>3, <1>2 DEF Chosen, Suits
  <2>3. CASE Available(k) # {} /\ Common(k) = {}
    <3>1. final'[k] = UNION Available(k) /\ reducing' = {k}
      BY <2>3 DEF Decide, SidesInv
    <3>2. ASSUME NEW available \in Available(k)
          PROVE  (UNION Available(k)) \intersect available # {}
      <4>1. PICK d \in available : TRUE
        BY DEF Available
      <4>2. d \in UNION Available(k)
        BY <4>1
      <4>. QED
        BY <4>1, <4>2
    <3>. QED
      BY <2>3, <3>1, <3>2, <1>2 DEF Chosen, Suits
  <2>. QED
    BY <2>1, <2>2, <2>3
<1>6. ASSUME NEW j \in Keys \ todo, j # k
      PROVE  Chosen(j)'
  <2>1. Chosen(j)
    BY <1>6 DEF SidesInv
  <2>. QED
    BY <2>1, <1>1, <1>2, <1>3, <1>4, <1>6 DEF Chosen, Suits
<1>. QED
  BY <1>1, <1>2, <1>4, <1>5, <1>6 DEF SidesInv

(* A side is dropped only while the others suit every tile.                *)
LEMMA ReduceSides ==
  ASSUME SidesInv, NEW k \in Keys, Reduce(k)
  PROVE  SidesInv'
<1>1. /\ stage = "process" /\ k \in reducing
      /\ UNCHANGED <<device, edge_assignments, todo, stage>>
  BY DEF Reduce
<1>2. \A j \in Keys : Available(j)' = Available(j) /\ Common(j)' = Common(j) /\ Asked(j)' = Asked(j)
  BY <1>1 DEF Available, Common, Asked, Facing, device
<1>3. reducing' \subseteq reducing /\ k \in Keys \ todo
  BY <1>1 DEF Reduce, SidesInv
<1>4. Suits(final[k], k) /\ Common(k) = {}
  BY <1>1, <1>3 DEF SidesInv, Chosen
<1>5. Chosen(k)'
  <2>1. CASE Needless(k) = {}
    <3>1. reducing' = {} /\ final' = final
      BY <2>1 DEF Reduce
    <3>2. Cardinality(final[k]) > 2 => \A d \in final[k] : ~Suits(final[k] \ {d}, k)
      BY <2>1 DEF Needless
    <3>. QED
      BY <3>1, <3>2, <1>2, <1>4 DEF Chosen, Suits
  <2>2. CASE Needless(k) # {}
    <3>1. reducing' = reducing /\ DOMAIN final' = Keys
      BY <2>2 DEF Reduce, SidesInv
    <3>2. PICK d \in Needless(k) : final'[k] = final[k] \ {d}
      BY <2>2 DEF Reduce, SidesInv
    <3>3. Suits(final[k] \ {d}, k)
      BY <3>2 DEF Needless
    <3>. QED
      BY <3>1, <3>2, <3>3, <1>1, <1>2, <1>4 DEF Chosen, Suits
  <2>. QED
    BY <2>1, <2>2
<1>6. DOMAIN final' = Keys /\ \A j \in Keys \ {k} : final'[j] = final[j]
  BY DEF Reduce, SidesInv
<1>7. ASSUME NEW j \in Keys \ todo, j # k
      PROVE  Chosen(j)'
  <2>1. Chosen(j) /\ j \notin reducing
    BY <1>1, <1>7 DEF SidesInv
  <2>. QED
    BY <2>1, <1>2, <1>3, <1>6, <1>7 DEF Chosen, Suits
<1>. QED
  BY <1>1, <1>2, <1>3, <1>5, <1>6, <1>7 DEF SidesInv

(* The stages before a pin is decided.                                     *)
LEMMA EarlySides ==
  ASSUME SidesInv, HandleDirectionConnections \/ CheckReasons \/ HandleEdgesToChannels
  PROVE  SidesInv'
<1>1. /\ stage \in {"direct", "reasons", "channels"} /\ todo = Keys
      /\ UNCHANGED <<device, final, todo, reducing>>
  BY DEF HandleDirectionConnections, CheckReasons, HandleEdgesToChannels, SidesInv
<1>2. stage' = "process" => HandleEdgesToChannels
  BY DEF HandleDirectionConnections, CheckReasons, HandleEdgesToChannels
<1>3. ASSUME HandleEdgesToChannels, NEW k \in Keys
      PROVE  Asked(k)' \subseteq edge_assignments'[k]
  <2>1. edge_assignments'[k] = edge_assignments[k] \union Asked(k)
    BY <1>3 DEF HandleEdgesToChannels
  <2>2. Asked(k)' = Asked(k)
    BY <1>1 DEF Asked, Facing, device
  <2>. QED
    BY <2>1, <2>2
<1>. QED
  BY <1>1, <1>2, <1>3 DEF SidesInv

(* The last assertions change no side.                                     *)
LEMMA CheckSides ==
  ASSUME SidesInv, CheckAssignments
  PROVE  SidesInv'
BY SameSides DEF CheckAssignments, device

(* The stages of the edges and of the graph only read the sides.           *)
LEMMA EdgeSides ==
  ASSUME NEW e, ConnectTrack(e) \/ ConnectTracks(e) \/ ConnectPins(e)
  PROVE  UNCHANGED directions /\ (stage' = stage \/ stage' = "raised")
BY DEF ConnectTrack, ConnectTracks, ConnectPins

(* Channels leave the sides alone.                                         *)
LEMMA ChannelSides ==
  ASSUME MarkTrackLiveness \/ BuildChannels \/ VerifyChannels
  PROVE  UNCHANGED directions /\ stage' \in {"raised", "marked", "built", "network"}
BY DEF MarkTrackLiveness, BuildChannels, VerifyChannels

(* So does the import of nodes, tracks and edges.                          *)
LEMMA ImportSides ==
  ASSUME \/ FindConstantNetwork \/ AddSwitches \/ ImportGraphNodes \/ ImportTracks
         \/ AddSyntheticEdges \/ CreateNodeRemap \/ GetNumberGraphEdges \/ WriteNodes
  PROVE  /\ UNCHANGED directions
         /\ stage' \in {"raised", "switches", "pins", "tracks", "synthetic", "connected",
                        "counting", "serialize", "writing"}
BY DEF FindConstantNetwork, AddSwitches, ImportGraphNodes, ImportTracks,
       AddSyntheticEdges, CreateNodeRemap, GetNumberGraphEdges, WriteNodes

(* So does the writing of the graph.                                       *)
LEMMA WriteSides ==
  ASSUME WriteEdge \/ WriteFiles
  PROVE  UNCHANGED directions /\ (stage' = stage \/ stage' \in {"raised", "written"})
BY DEF WriteEdge, WriteFiles, Yielded

(* SidesInv is inductive, one case for each action.                        *)
LEMMA NextSides == SidesInv /\ [Next]_vars => SidesInv'
<1> SUFFICES ASSUME SidesInv, [Next]_vars PROVE SidesInv'
  OBVIOUS
<1>1. CASE Assign
  <2>1. DirectionsNext
    BY <1>1 DEF Assign
  <2>. QED
    BY <2>1, EarlySides, DecideSides, ReduceSides, CheckSides DEF DirectionsNext
<1>2. CASE /\ UNCHANGED directions
           /\ \/ stage' = stage
              \/ stage' \notin {"direct", "reasons", "channels", "process"}
  BY <1>2, SameSides DEF directions, device
<1>3. CASE UNCHANGED vars
  BY <1>3, <1>2 DEF vars, pinvars, directions, rest
<1>4. CASE \E e \in left : ConnectTrack(e) \/ ConnectTracks(e) \/ ConnectPins(e)
  BY <1>2, <1>4, EdgeSides
<1>5. CASE MarkTrackLiveness \/ BuildChannels \/ VerifyChannels
  BY <1>2, <1>5, ChannelSides
<1>6. CASE \/ FindConstantNetwork \/ AddSwitches \/ ImportGraphNodes \/ ImportTracks
           \/ AddSyntheticEdges \/ CreateNodeRemap \/ GetNumberGraphEdges \/ WriteNodes
  BY <1>2, <1>6, ImportSides
<1>7. CASE WriteEdge \/ WriteFiles
  BY <1>2, <1>7, WriteSides
<1>. QED
  BY <1>1, <1>3, <1>4, <1>5, <1>6, <1>7 DEF Next

(* The sides of a pin are right in every state.                            *)
LEMMA SidesAlways == Spec => []SidesInv
<1>1. Init => SidesInv
  BY InitSides
<1>2. SidesInv /\ [Next]_vars => SidesInv'
  BY NextSides
<1>. QED
  BY <1>1, <1>2, PTL DEF Spec

(* When every pin has its sides, they suit every tile of the type, however *)
(* many there are and wherever the tracks run: no pip finds its track on a *)
(* side the pin is not on, and no side is there that no tile needs.        *)
THEOREM SidesAreSuitable == Spec => []SidesSuitEveryTile
<1>1. SidesInv => SidesSuitEveryTile
  <2> SUFFICES ASSUME SidesInv, todo = {}, reducing = {}, NEW k \in Keys
               PROVE  /\ \A p \in {q \in pips : q.pin = k} :
                           Facing(p.track, Place[p.tile]) # {} =>
                             final[k] \intersect Facing(p.track, Place[p.tile]) # {}
                      /\ Cardinality(final[k]) > 2 => \A d \in final[k] : ~Suits(final[k] \ {d}, k)
                      /\ Cardinality(final[k]) > 1 => Common(k) = {}
    BY DEF SidesSuitEveryTile
  <2>1. Chosen(k) /\ Asked(k) \subseteq edge_assignments[k]
    BY DEF SidesInv
  <2>2. ASSUME NEW p \in {q \in pips : q.pin = k}, Facing(p.track, Place[p.tile]) # {}
        PROVE  final[k] \intersect Facing(p.track, Place[p.tile]) # {}
    <3>1. Facing(p.track, Place[p.tile]) \in Asked(k)
      BY DEF Asked
    <3>. QED
      BY <2>1, <2>2, <3>1 DEF Chosen, Suits, Available
  <2>. QED
    BY <2>1, <2>2 DEF Chosen
<1>2. Spec => []SidesInv
  BY SidesAlways
<1>. QED
  BY <1>1, <1>2, PTL

(* The assertion before pin_assignments.json is written never fails.       *)
THEOREM AssertionHolds == Spec => [][CheckAssignments => stage' = "assigned"]_vars
<1>1. SidesInv /\ CheckAssignments => stage' = "assigned"
  BY DEF SidesInv, CheckAssignments, Chosen
<1>2. Spec => []SidesInv
  BY SidesAlways
<1>. QED
  BY <1>1, <1>2, PTL DEF Spec

-----------------------------------------------------------------------------
(* The sequence s has the members of S, each once.                         *)
Lists(s, S) ==
  /\ s \in Seq(S) /\ ToSet(s) = S
  /\ \A i, j \in DOMAIN s : s[i] = s[j] => i = j

(* A sequence after another has the members of both.                       *)
LEMMA ToSetConcat ==
  ASSUME NEW S, NEW T, NEW s, NEW t, Lists(s, S), Lists(t, T)
  PROVE  ToSet(s \o t) = S \union T
<1>1. s \in Seq(S \union T) /\ t \in Seq(S \union T)
  BY DEF Lists
<1>2. /\ Len(s) \in Nat /\ DOMAIN s = 1 .. Len(s) /\ Len(t) \in Nat /\ DOMAIN t = 1 .. Len(t)
      /\ DOMAIN (s \o t) = 1 .. Len(s) + Len(t)
      /\ \A i \in 1 .. Len(s) + Len(t) : (s \o t)[i] = IF i <= Len(s) THEN s[i] ELSE t[i - Len(s)]
  BY <1>1, ConcatProperties
<1>3. \A i \in DOMAIN s : (s \o t)[i] = s[i] /\ i \in DOMAIN (s \o t)
  BY <1>2
<1>4. \A i \in DOMAIN t : (s \o t)[Len(s) + i] = t[i] /\ Len(s) + i \in DOMAIN (s \o t)
  BY <1>2
<1>5. \A i \in DOMAIN (s \o t) : i \in DOMAIN s \/ (i - Len(s) \in DOMAIN t /\ i = Len(s) + (i - Len(s)))
  BY <1>2
<1>6. ToSet(s \o t) \subseteq S \union T
  BY <1>3, <1>4, <1>5 DEF Lists, ToSet
<1>7. S \union T \subseteq ToSet(s \o t)
  <2>1. \A x \in S : \E i \in DOMAIN s : s[i] = x
    BY DEF Lists, ToSet
  <2>2. \A x \in T : \E i \in DOMAIN t : t[i] = x
    BY DEF Lists, ToSet
  <2>. QED
    BY <1>3, <1>4, <2>1, <2>2 DEF ToSet
<1>. QED
  BY <1>6, <1>7

(* The empty sequence, two sequences after another, and one more member.   *)
LEMMA ListsEmpty == Lists(<<>>, {})
BY EmptySeq DEF Lists, ToSet

(* Lists of two sets that share nothing make a list of both.               *)
LEMMA ListsConcat ==
  ASSUME NEW S, NEW T, NEW s, NEW t, Lists(s, S), Lists(t, T), S \intersect T = {}
  PROVE  Lists(s \o t, S \union T)
<1> DEFINE U == S \union T
<1>1. s \in Seq(U) /\ t \in Seq(U)
  BY DEF Lists
<1>2. /\ s \o t \in Seq(U) /\ Len(s \o t) = Len(s) + Len(t)
      /\ \A i \in 1 .. Len(s) + Len(t) : (s \o t)[i] = IF i <= Len(s) THEN s[i] ELSE t[i - Len(s)]
  BY <1>1, ConcatProperties
<1>3. /\ DOMAIN s = 1 .. Len(s) /\ DOMAIN t = 1 .. Len(t) /\ Len(s) \in Nat /\ Len(t) \in Nat
      /\ DOMAIN (s \o t) = 1 .. Len(s) + Len(t)
  BY <1>1, <1>2
<1>4. \A i \in DOMAIN s : (s \o t)[i] = s[i] /\ s[i] \in S /\ i \in DOMAIN (s \o t)
  BY <1>2, <1>3 DEF Lists
<1>5. \A i \in DOMAIN t : (s \o t)[Len(s) + i] = t[i] /\ t[i] \in T /\ Len(s) + i \in DOMAIN (s \o t)
  BY <1>2, <1>3 DEF Lists
<1>6. \A i \in DOMAIN (s \o t) : i \in DOMAIN s \/ (i - Len(s) \in DOMAIN t /\ i = Len(s) + (i - Len(s)))
  BY <1>3
<1>7. ToSet(s \o t) = U
  BY ToSetConcat
<1>8. ASSUME NEW i \in DOMAIN (s \o t), NEW j \in DOMAIN (s \o t), (s \o t)[i] = (s \o t)[j]
      PROVE  i = j
  <2>1. CASE i \in DOMAIN s /\ j \in DOMAIN s
    BY <1>4, <1>8, <2>1 DEF Lists
  <2>2. CASE i - Len(s) \in DOMAIN t /\ j - Len(s) \in DOMAIN t
    <3>1. t[i - Len(s)] = t[j - Len(s)]
      BY <1>3, <1>5, <1>6, <1>8, <2>2
    <3>2. i - Len(s) = j - Len(s)
      BY <2>2, <3>1 DEF Lists
    <3>. QED
      BY <1>3, <3>2
  <2>3. CASE i \in DOMAIN s /\ j - Len(s) \in DOMAIN t
    BY <1>3, <1>4, <1>5, <1>6, <1>8, <2>3
  <2>4. CASE j \in DOMAIN s /\ i - Len(s) \in DOMAIN t
    BY <1>3, <1>4, <1>5, <1>6, <1>8, <2>4
  <2>. QED
    BY <1>6, <2>1, <2>2, <2>3, <2>4
<1>. QED
  BY <1>2, <1>7, <1>8 DEF Lists

(* A list takes one more, if it is not of it yet.                          *)
LEMMA ListsAppend ==
  ASSUME NEW S, NEW s, Lists(s, S), NEW x, x \notin S
  PROVE  Lists(Append(s, x), S \union {x})
<1>1. Lists(<<x>>, {x})
  BY DEF Lists, ToSet
<1>2. s \in Seq(S \union {x})
  BY DEF Lists
<1>3. Append(s, x) = s \o <<x>>
  BY <1>2, AppendIsConcat
<1>. QED
  BY <1>1, <1>3, ListsConcat

(* FoldSet takes the members of a set away one by one; the function it     *)
(* does that with exists when the set is finite.                           *)
First(s) == CHOOSE x \in s : TRUE
Taken(g, s) == IF s = {} THEN <<>> ELSE Append(g[s \ {First(s)}], First(s))

LEMMA TakenExists ==
  ASSUME NEW S, IsFiniteSet(S)
  PROVE  \E g : g = [s \in SUBSET S |-> Taken(g, s)]
<1> DEFINE Small(n) == {s \in SUBSET S : Cardinality(s) <= n}
           N == {n \in Nat : \E g : g = [s \in Small(n) |-> Taken(g, s)]}
<1>1. \A s \in SUBSET S : IsFiniteSet(s) /\ Cardinality(s) \in Nat
  BY FS_Subset, FS_CardinalityType
<1>2. \A s \in SUBSET S : s # {} => /\ First(s) \in s /\ s \ {First(s)} \in SUBSET S
                                    /\ Cardinality(s \ {First(s)}) = Cardinality(s) - 1
  BY <1>1, FS_RemoveElement DEF First
<1>3. 0 \in N
  <2>1. \A s \in Small(0) : s = {}
    BY <1>1, FS_EmptySet
  <2> DEFINE g == [s \in Small(0) |-> <<>>]
  <2>2. g = [s \in Small(0) |-> Taken(g, s)]
    BY <2>1 DEF Taken
  <2>. QED
    BY <2>2
<1>4. ASSUME NEW n \in Nat, n \in N
      PROVE  n + 1 \in N
  <2>1. PICK g : g = [s \in Small(n) |-> Taken(g, s)]
    BY <1>4
  <2> DEFINE h == [s \in Small(n + 1) |-> IF s \in Small(n) THEN g[s] ELSE Taken(g, s)]
  <2>2. ASSUME NEW s \in Small(n + 1)
        PROVE  Taken(h, s) = Taken(g, s)
    <3>1. CASE s = {}
      BY <3>1 DEF Taken
    <3>2. CASE s # {}
      <4>1. s \ {First(s)} \in Small(n) /\ s \ {First(s)} \in Small(n + 1)
        BY <1>1, <1>2, <3>2
      <4>2. h[s \ {First(s)}] = g[s \ {First(s)}]
        BY <4>1
      <4>. QED
        BY <4>2 DEF Taken
    <3>. QED
      BY <3>1, <3>2
  <2>3. \A s \in Small(n) : g[s] = Taken(g, s)
    BY <2>1
  <2>4. h = [s \in Small(n + 1) |-> Taken(h, s)]
    BY <2>2, <2>3, Zenon
  <2>5. n + 1 \in Nat
    OBVIOUS
  <2> HIDE DEF h
  <2>. QED
    BY <2>4, <2>5
<1>5. Nat \subseteq N
  <2> HIDE DEF N
  <2>. QED
    BY <1>3, <1>4, EveryNatural
<1>6. Cardinality(S) \in N
  BY <1>5, FS_CardinalityType
<1>7. Small(Cardinality(S)) = SUBSET S
  BY FS_Subset
<1>. QED
  BY <1>6, <1>7

(* What is taken away from a finite set lists it.                          *)
LEMMA TakenLists ==
  ASSUME NEW S, IsFiniteSet(S), NEW g, g = [s \in SUBSET S |-> Taken(g, s)]
  PROVE  Lists(g[S], S)
<1> DEFINE N == {n \in Nat : \A s \in SUBSET S : Cardinality(s) = n => Lists(g[s], s)}
<1>1. \A s \in SUBSET S : IsFiniteSet(s) /\ Cardinality(s) \in Nat /\ g[s] = Taken(g, s)
  BY FS_Subset, FS_CardinalityType
<1>2. 0 \in N
  <2>1. ASSUME NEW s \in SUBSET S, Cardinality(s) = 0
        PROVE  Lists(g[s], s)
    <3>1. s = {}
      BY <1>1, <2>1, FS_EmptySet
    <3>2. g[s] = <<>>
      BY <1>1, <3>1 DEF Taken
    <3>. QED
      BY <3>1, <3>2, ListsEmpty
  <2>. QED
    BY <2>1
<1>3. ASSUME NEW n \in Nat, n \in N
      PROVE  n + 1 \in N
  <2>1. ASSUME NEW s \in SUBSET S, Cardinality(s) = n + 1
        PROVE  Lists(g[s], s)
    <3> DEFINE x == First(s)
               r == s \ {x}
    <3>1. s # {}
      <4>1. Cardinality({}) = 0
        BY FS_EmptySet
      <4>. QED
        BY <2>1, <4>1
    <3>2. x \in s /\ r \in SUBSET S
      BY <3>1 DEF First
    <3>7. Cardinality(r) = n
      <4>1. Cardinality(r) = Cardinality(s) - 1
        <5> HIDE DEF x
        <5>. QED
          BY <1>1, <3>2, FS_RemoveElement
      <4>. QED
        BY <2>1, <4>1
    <3>3. Lists(g[r], r)
      BY <1>3, <3>2, <3>7
    <3>4. g[s] = Append(g[r], x)
      BY <1>1, <3>1 DEF Taken
    <3>5. Lists(Append(g[r], x), r \union {x})
      <4> HIDE DEF x
      <4>. QED
        BY <3>3, ListsAppend
    <3>6. r \union {x} = s
      BY <3>2
    <3>. QED
      BY <3>4, <3>5, <3>6
  <2>2. n + 1 \in Nat
    OBVIOUS
  <2>. QED
    BY <2>1, <2>2
<1>4. Nat \subseteq N
  <2> HIDE DEF N
  <2>. QED
    BY <1>2, <1>3, EveryNatural
<1>. QED
  BY <1>4, FS_CardinalityType

(* Listed, whatever the order it takes, has each member once.              *)
LEMMA ListedOnce ==
  ASSUME NEW S, IsFiniteSet(S)
  PROVE  Lists(Listed(S), S)
<1> DEFINE g == CHOOSE iter : iter = [s \in SUBSET S |-> Taken(iter, s)]
<1>1. g = [s \in SUBSET S |-> Taken(g, s)]
  BY TakenExists
<1>2. Listed(S) = g[S]
  BY DEF Listed, FoldSet, MapThenFoldSet, Taken, First
<1> HIDE DEF g
<1>. QED
  BY <1>1, <1>2, TakenLists

-----------------------------------------------------------------------------
(* A segment, as insert_tracks places it.                                  *)
SegmentType == [dir : {"X", "Y"}, at : Int, low : Int, high : Int]

(* The device is one of Devices, of which only this is used.               *)
DeviceTyped ==
  /\ \A w \in Tracks : segments[w] \in Seq(SegmentType)
  /\ \A p \in pips : p.track \in Tracks
  /\ pips \union muxes \union crossings \subseteq DOMAIN switch
  /\ \A s \in crossings : s.backward \in BOOLEAN /\ fabric.name[s].from # fabric.name[s].to
  /\ IsFiniteSet(region.pins) /\ IsFiniteSet(grid)
  /\ \A b \in grid : b.place \in Nat \X Nat /\ b.inpads \in Nat /\ b.outpads \in Nat

(* The row of a pip that is no longer left: with the switch of its way,    *)
(* and not from a pin to a track.                                          *)
OfPip(e, p) ==
  /\ e.pip = {p} /\ (e.src[1] = "pin" <=> e.dst[1] = "pin")
  /\ e.switch = IF e.backward THEN switch[p].backward ELSE switch[p].forward

(* The row between two segments of a track.                                *)
IsShort(e) == e.pip = {} /\ e.switch = Short /\ e.src[1] = "track" /\ e.dst[1] = "track"

(* The row between a pin and its wire.                                     *)
IsSitePin(e) ==
  /\ e.pip = {} /\ e.switch = SitePin
  /\ \/ e.src[1] = "pin" /\ e.dst[1] = "wire"
     \/ e.src[1] = "wire" /\ e.dst[1] = "pin"

(* Two rows do not speak for the same edge, but for those of a pin and its *)
(* wire, of which there is one for each pip of the pin.                    *)
Apart(e, f) ==
  \/ e.pip # f.pip
  \/ /\ e.pip = {} /\ f.pip = {}
     /\ e.switch # f.switch \/ e.src # f.src \/ e.dst # f.dst \/ IsSitePin(e)

(* Rows are of one of these kinds, and apart.                              *)
RowsOf(s, open) ==
  /\ s \in Seq(Range(s))
  /\ \A i \in DOMAIN s : \/ IsShort(s[i]) \/ IsSitePin(s[i])
                         \/ \E p \in DOMAIN switch \ open : OfPip(s[i], p)
  /\ \A i, j \in DOMAIN s : i # j => Apart(s[i], s[j])

(* A wire node is copied from a segment.                                   *)
WiresTyped ==
  /\ IsFiniteSet(DOMAIN wire_node)
  /\ \A g \in DOMAIN wire_node : g[1] = "wire" /\ wire_node[g] \in SegmentType

(* What holds of the rows at any stage.                                    *)
RowsInv ==
  /\ DeviceTyped
  /\ left \subseteq DOMAIN switch
  /\ RowsOf(graph_edge, left)
  /\ WiresTyped

-----------------------------------------------------------------------------
(* Append, where the range is all that is known of the members.            *)
LEMMA Appended ==
  ASSUME NEW s, s \in Seq(Range(s)), NEW x
  PROVE  /\ Append(s, x) \in Seq(Range(Append(s, x)))
         /\ Len(s) \in Nat /\ DOMAIN s = 1 .. Len(s)
         /\ DOMAIN Append(s, x) = 1 .. Len(s) + 1 /\ Len(Append(s, x)) = Len(s) + 1
         /\ \A i \in DOMAIN s : Append(s, x)[i] = s[i]
         /\ Append(s, x)[Len(s) + 1] = x
<1> DEFINE S == Range(s) \union {x}
<1>1. s \in Seq(S)
  OBVIOUS
<1>2. /\ Append(s, x) \in Seq(S) /\ Len(Append(s, x)) = Len(s) + 1
      /\ \A i \in 1 .. Len(s) : Append(s, x)[i] = s[i]
      /\ Append(s, x)[Len(s) + 1] = x
  BY <1>1, AppendProperties
<1>3. Len(s) \in Nat /\ DOMAIN s = 1 .. Len(s) /\ DOMAIN Append(s, x) = 1 .. Len(s) + 1
  BY <1>1, <1>2
<1>4. Append(s, x) \in Seq(Range(Append(s, x)))
  <2>1. \A i \in 1 .. Len(Append(s, x)) : Append(s, x)[i] \in Range(Append(s, x))
    BY <1>2, <1>3 DEF Range
  <2>. QED
    BY <1>2, <1>3, <2>1
<1>. QED
  BY <1>2, <1>3, <1>4

(* A row is added for a pip that had none.                                 *)
LEMMA AddRow ==
  ASSUME NEW s, NEW open, RowsOf(s, open), NEW p \in open \intersect DOMAIN switch,
         NEW e, OfPip(e, p)
  PROVE  RowsOf(Append(s, e), open \ {p})
<1> DEFINE t == Append(s, e)
<1>1. s \in Seq(Range(s))
  BY DEF RowsOf
<1>2. /\ t \in Seq(Range(t)) /\ DOMAIN s = 1 .. Len(s) /\ DOMAIN t = 1 .. Len(s) + 1 /\ Len(s) \in Nat
      /\ \A i \in DOMAIN s : t[i] = s[i]
      /\ t[Len(s) + 1] = e
  BY <1>1, Appended
<1> HIDE DEF t
<1>3. \A i \in DOMAIN t : i \in DOMAIN s \/ i = Len(s) + 1
  BY <1>2
<1>4. \A i \in DOMAIN t : \/ IsShort(t[i]) \/ IsSitePin(t[i])
                          \/ \E q \in DOMAIN switch \ (open \ {p}) : OfPip(t[i], q)
  BY <1>2, <1>3 DEF RowsOf
<1>5. \A i \in DOMAIN s : s[i].pip # e.pip
  BY DEF RowsOf, OfPip, IsShort, IsSitePin
<1>6. \A i, j \in DOMAIN t : i # j => Apart(t[i], t[j])
  <2> SUFFICES ASSUME NEW i \in DOMAIN t, NEW j \in DOMAIN t, i # j PROVE Apart(t[i], t[j])
    OBVIOUS
  <2>1. CASE i \in DOMAIN s /\ j \in DOMAIN s
    BY <1>2, <2>1 DEF RowsOf
  <2>2. CASE i = Len(s) + 1 /\ j \in DOMAIN s
    BY <1>2, <1>5, <2>2 DEF Apart
  <2>3. CASE j = Len(s) + 1 /\ i \in DOMAIN s
    BY <1>2, <1>5, <2>3 DEF Apart
  <2>. QED
    BY <1>3, <2>1, <2>2, <2>3
<1>. QED
  BY <1>2, <1>4, <1>6 DEF RowsOf, t

(* A row for a pin and its wire may be added at any time.                  *)
LEMMA AddSitePin ==
  ASSUME NEW s, NEW open, RowsOf(s, open), NEW e, IsSitePin(e)
  PROVE  RowsOf(Append(s, e), open)
<1> DEFINE t == Append(s, e)
<1>1. s \in Seq(Range(s))
  BY DEF RowsOf
<1>2. /\ t \in Seq(Range(t)) /\ DOMAIN s = 1 .. Len(s) /\ DOMAIN t = 1 .. Len(s) + 1 /\ Len(s) \in Nat
      /\ \A i \in DOMAIN s : t[i] = s[i]
      /\ t[Len(s) + 1] = e
  BY <1>1, Appended
<1> HIDE DEF t
<1>3. \A i \in DOMAIN t : i \in DOMAIN s \/ i = Len(s) + 1
  BY <1>2
<1>4. \A i \in DOMAIN t : \/ IsShort(t[i]) \/ IsSitePin(t[i])
                          \/ \E q \in DOMAIN switch \ open : OfPip(t[i], q)
  BY <1>2, <1>3 DEF RowsOf
<1>5. Short # SitePin
  BY DEF Short, SitePin
<1>6. ASSUME NEW i \in DOMAIN s
      PROVE  Apart(s[i], e) /\ Apart(e, s[i])
  <2>1. e.pip = {} /\ e.switch = SitePin
    BY DEF IsSitePin
  <2>2. CASE \E q \in DOMAIN switch \ open : OfPip(s[i], q)
    BY <2>1, <2>2 DEF OfPip, Apart
  <2>3. CASE IsShort(s[i])
    BY <1>5, <2>1, <2>3 DEF IsShort, Apart
  <2>4. CASE IsSitePin(s[i])
    BY <2>4 DEF IsSitePin, Apart
  <2>. QED
    BY <2>2, <2>3, <2>4 DEF RowsOf
<1>7. \A i, j \in DOMAIN t : i # j => Apart(t[i], t[j])
  <2> SUFFICES ASSUME NEW i \in DOMAIN t, NEW j \in DOMAIN t, i # j PROVE Apart(t[i], t[j])
    OBVIOUS
  <2>1. CASE i \in DOMAIN s /\ j \in DOMAIN s
    BY <1>2, <2>1 DEF RowsOf
  <2>2. CASE i = Len(s) + 1 /\ j \in DOMAIN s
    BY <1>2, <1>6, <2>2
  <2>3. CASE j = Len(s) + 1 /\ i \in DOMAIN s
    BY <1>2, <1>6, <2>3
  <2>. QED
    BY <1>3, <2>1, <2>2, <2>3
<1>. QED
  BY <1>2, <1>4, <1>7 DEF RowsOf, t

(* ConnectTrack adds both, in either order.                                *)
LEMMA AddBoth ==
  ASSUME NEW s, s \in Seq(Range(s)), NEW a, NEW b
  PROVE  s \o <<a, b>> = Append(Append(s, a), b)
<1> DEFINE S == Range(s) \union {a, b}
<1>1. s \in Seq(S)
  OBVIOUS
<1>2. Append(s, a) \in Seq(S)
  BY <1>1
<1>. QED
  BY <1>1, <1>2

(* What a function has on a finite set is finite.                          *)
LEMMA ImageFinite ==
  ASSUME NEW S, IsFiniteSet(S), NEW f, S \subseteq DOMAIN f
  PROVE  IsFiniteSet({f[x] : x \in S})
<1> DEFINE T == {f[x] : x \in S}
           h == [x \in S |-> f[x]]
<1>1. h \in Surjection(S, T)
  BY DEF Surjection
<1>. QED
  BY <1>1, FS_Surjection

(* One of Devices is what is assumed of them.                              *)
LEMMA InitDevice == Init => DeviceTyped
<1> SUFFICES ASSUME Init PROVE DeviceTyped
  OBVIOUS
<1>1. PICK v \in Devices :
        /\ DirectionsInit(v)
        /\ crossings = v.crossings /\ fabric = v.fabric
        /\ switch = v.switch /\ region = v.region /\ grid = v.grid
  BY DEF Init
<1>2. segments = v.segments /\ pips = v.pips /\ muxes = v.muxes
  BY <1>1 DEF DirectionsInit
<1>. QED
  BY <1>1, <1>2, RoutingAssumption, DeviceAssumption DEF DeviceTyped, SegmentType

(* There are finitely many segments to join.                               *)
LEMMA ShortsFinite ==
  ASSUME DeviceTyped
  PROVE  IsFiniteSet(Shorts)
<1> DEFINE J(w) == {e \in (DOMAIN segments[w]) \X (DOMAIN segments[w]) :
                     /\ segments[w][e[1]].dir # segments[w][e[2]].dir
                     /\ OnePerSide(segments[w], e[1]) \/ OnePerSide(segments[w], e[2])}
           R(w) == {Row(<<"track", w, e[1]>>, <<"track", w, e[2]>>, Short) : e \in J(w)}
           F == [w \in Tracks |-> R(w)]
           All == {F[w] : w \in Tracks}
<1>1. Shorts = UNION All
  BY DEF Shorts
<1>2. ASSUME NEW w \in Tracks
      PROVE  IsFiniteSet(R(w))
  <2>1. IsFiniteSet(DOMAIN segments[w])
    <3>1. Len(segments[w]) \in Nat /\ DOMAIN segments[w] = 1 .. Len(segments[w])
      BY DEF DeviceTyped
    <3>2. IsFiniteSet(1 .. Len(segments[w]))
      BY <3>1, FS_Interval
    <3>. QED
      BY <3>1, <3>2
  <2>2. IsFiniteSet((DOMAIN segments[w]) \X (DOMAIN segments[w]))
    BY <2>1, FS_Product
  <2>3. IsFiniteSet(J(w))
    BY <2>2, FS_Subset
  <2> DEFINE f == [e \in J(w) |-> Row(<<"track", w, e[1]>>, <<"track", w, e[2]>>, Short)]
  <2>4. R(w) = {f[e] : e \in J(w)}
    OBVIOUS
  <2> HIDE DEF J
  <2>5. DOMAIN f = J(w)
    OBVIOUS
  <2> HIDE DEF f, R
  <2>. QED
    BY <2>3, <2>4, <2>5, ImageFinite
<1>3. IsFiniteSet(All)
  <2>1. DOMAIN F = Tracks
    OBVIOUS
  <2> HIDE DEF F
  <2>. QED
    BY <2>1, ImageFinite, RoutingAssumption
<1>4. \A T \in All : IsFiniteSet(T)
  <2> HIDE DEF R
  <2>. QED
    BY <1>2
<1>. QED
  <2> HIDE DEF All
  <2>. QED
    BY <1>1, <1>3, <1>4, FS_UNION

(* The rows of joined segments come first, each once.                      *)
LEMMA InitRows == Init => RowsInv
<1> SUFFICES ASSUME Init PROVE RowsInv
  OBVIOUS
<1>1. DeviceTyped
  BY InitDevice
<1>2. left \subseteq DOMAIN switch
  BY <1>1 DEF Init, DeviceTyped
<1>3. Lists(graph_edge, Shorts)
  BY <1>1, ShortsFinite, ListedOnce DEF Init
<1>4. RowsOf(graph_edge, left)
  <2>1. \A r \in Shorts : \E a, b : r = Row(a, b, Short) /\ a[1] = "track" /\ b[1] = "track"
    <3> SUFFICES ASSUME NEW r \in Shorts
                 PROVE  \E a, b : r = Row(a, b, Short) /\ a[1] = "track" /\ b[1] = "track"
      OBVIOUS
    <3>1. PICK w \in Tracks :
            \E e \in (DOMAIN segments[w]) \X (DOMAIN segments[w]) :
              r = Row(<<"track", w, e[1]>>, <<"track", w, e[2]>>, Short)
      BY DEF Shorts
    <3>3. PICK e : r = Row(<<"track", w, e[1]>>, <<"track", w, e[2]>>, Short)
      BY <3>1
    <3>2. <<"track", w, e[1]>>[1] = "track" /\ <<"track", w, e[2]>>[1] = "track"
      OBVIOUS
    <3>. QED
      BY <3>2, <3>3
  <2>2. \A i \in DOMAIN graph_edge : graph_edge[i] \in Shorts
    BY <1>3 DEF Lists, ToSet
  <2>3. \A r \in Shorts : IsShort(r) /\ r = Row(r.src, r.dst, Short)
    BY <2>1 DEF IsShort, Row
  <2>4. \A i, j \in DOMAIN graph_edge : i # j => Apart(graph_edge[i], graph_edge[j])
    <3> SUFFICES ASSUME NEW i \in DOMAIN graph_edge, NEW j \in DOMAIN graph_edge, i # j
                 PROVE  Apart(graph_edge[i], graph_edge[j])
      OBVIOUS
    <3>1. graph_edge[i] # graph_edge[j]
      BY <1>3 DEF Lists
    <3>2. graph_edge[i].src # graph_edge[j].src \/ graph_edge[i].dst # graph_edge[j].dst
      BY <2>2, <2>3, <3>1
    <3>. QED
      BY <2>2, <2>3, <3>2 DEF Apart, IsShort
  <2>5. graph_edge \in Seq(Range(graph_edge))
    BY <1>3 DEF Lists, ToSet, Range
  <2>. QED
    BY <2>2, <2>3, <2>4, <2>5 DEF RowsOf
<1>5. WiresTyped
  BY FS_EmptySet DEF Init, WiresTyped
<1>. QED
  BY <1>1, <1>2, <1>4, <1>5 DEF RowsInv

(* The device stays as it is.                                              *)
LEMMA SameDevice ==
  ASSUME DeviceTyped, UNCHANGED <<device, rest>>
  PROVE  /\ DeviceTyped' /\ switch' = switch
         /\ \A s, open : RowsOf(s, open)' <=> RowsOf(s, open)
BY DEF DeviceTyped, device, rest, RowsOf, OfPip

(* So do rows, if nothing they are made of changes.                        *)
LEMMA SameRows ==
  ASSUME RowsInv, UNCHANGED <<device, rest, left, graph_edge, wire_node>>
  PROVE  RowsInv'
<1>1. DeviceTyped' /\ switch' = switch
  BY SameDevice DEF RowsInv
<1>2. RowsOf(graph_edge, left)'
  BY <1>1 DEF RowsInv, RowsOf, OfPip
<1>. QED
  BY <1>1, <1>2 DEF RowsInv, WiresTyped

(* The row that a pip is put in is of that pip.                            *)
LEMMA ViaIsOfPip ==
  ASSUME NEW src, NEW dst, NEW p, src[1] # "pin", dst[1] # "pin"
  PROVE  OfPip(Via(src, dst, p), p)
BY DEF Via, Row, GetPipSwitch, OfPip

(* A finite set of integers has a greatest one.                            *)
LEMMA GreatestOfFinite ==
  ASSUME NEW S \in SUBSET Int, IsFiniteSet(S), S # {}
  PROVE  Max(S) \in S /\ \A x \in S : x <= Max(S)
BY GreatestInteger DEF Max

(* The segment that is taken of some of a track is one of them.            *)
LEMMA JoinedSegment ==
  ASSUME DeviceTyped, NEW w \in Tracks, NEW place, NEW S \in SUBSET DOMAIN segments[w], S # {}
  PROVE  Joins(w, place, S) \in S /\ segments[w][Joins(w, place, S)] \in SegmentType
<1> DEFINE side(n) == SideOf(segments[w][n], place)
           T == {n \in S : side(n) = side(Min(S))}
<1>1. segments[w] \in Seq(SegmentType)
  BY DEF DeviceTyped
<1>2. S \in SUBSET Nat /\ IsFiniteSet(DOMAIN segments[w])
  <2>1. DOMAIN segments[w] = 1 .. Len(segments[w]) /\ Len(segments[w]) \in Nat
    BY <1>1
  <2>. QED
    BY <2>1, FS_Interval
<1>3. Min(S) \in S
  BY <1>2, LeastNatural DEF Min
<1>4. Min(S) \in T /\ T \subseteq S
  BY <1>3
<1> HIDE DEF T, side
<1>5. T \in SUBSET Int /\ IsFiniteSet(T) /\ T # {}
  <2>1. T \subseteq DOMAIN segments[w] /\ T \in SUBSET Int /\ T # {}
    BY <1>2, <1>4
  <2>. QED
    BY <1>2, <2>1, FS_Subset
<1>6. Max(T) \in S
  BY <1>4, <1>5, GreatestOfFinite
<1>7. Joins(w, place, S) = Max(T)
  BY DEF Joins, T, side
<1>. QED
  BY <1>1, <1>6, <1>7

(* The two rows of a pin, its wire and a track.                            *)
LEMMA TrackRows ==
  ASSUME RowsInv, NEW p, ConnectTrack(p)
  PROVE  RowsInv'
<1> DEFINE n == Joins(p.track, Place[p.tile], Meets(p))
           track == <<"track", p.track, n>>
           wire == <<"wire", p.pin, p.tile>>
           pin == <<"pin", p.pin, p.tile, SideOf(segments[p.track][n], Place[p.tile])>>
           via == IF p.pin \in Outputs THEN Via(wire, track, p) ELSE Via(track, wire, p)
           own == IF p.pin \in Outputs THEN Row(pin, wire, SitePin) ELSE Row(wire, pin, SitePin)
<1>1. p \in left \intersect pips /\ left' = left \ {p} /\ UNCHANGED <<device, rest>>
  BY DEF ConnectTrack, directions
<1>2. DeviceTyped' /\ switch' = switch /\ \A s, open : RowsOf(s, open)' <=> RowsOf(s, open)
  BY <1>1, SameDevice DEF RowsInv
<1>3. p \in left \intersect DOMAIN switch /\ RowsOf(graph_edge, left) /\ p.track \in Tracks
  BY <1>1 DEF RowsInv, DeviceTyped
<1>4. OfPip(via, p)
  <2>1. track[1] # "pin" /\ wire[1] # "pin"
    OBVIOUS
  <2> HIDE DEF track, wire
  <2>. QED
    BY <2>1, ViaIsOfPip
<1>5. IsSitePin(own)
  BY DEF IsSitePin, Row
<1>6. graph_edge \in Seq(Range(graph_edge))
  BY <1>3 DEF RowsOf
<1>7. graph_edge' = graph_edge \/ graph_edge' = Append(Append(graph_edge, own), via)
                               \/ graph_edge' = Append(Append(graph_edge, via), own)
  <2>1. graph_edge' = graph_edge \/ graph_edge' = graph_edge \o <<own, via>>
                                 \/ graph_edge' = graph_edge \o <<via, own>>
    BY DEF ConnectTrack
  <2> HIDE DEF own, via
  <2>. QED
    BY <1>6, <2>1, AddBoth
<1> HIDE DEF via, own
<1>8. RowsOf(graph_edge', left')
  <2>1. RowsOf(graph_edge, left \ {p})
    BY <1>3 DEF RowsOf
  <2>2. RowsOf(Append(Append(graph_edge, own), via), left \ {p})
    BY <1>3, <1>4, <1>5, AddRow, AddSitePin
  <2>3. RowsOf(Append(Append(graph_edge, via), own), left \ {p})
    BY <1>3, <1>4, <1>5, AddRow, AddSitePin
  <2>. QED
    BY <1>1, <1>7, <2>1, <2>2, <2>3
<1>9. WiresTyped'
  <2>1. CASE wire_node' = wire_node
    BY <2>1 DEF RowsInv, WiresTyped
  <2>2. CASE wire_node' # wire_node
    <3>1. /\ Meets(p) # {} /\ wire \notin DOMAIN wire_node
          /\ wire_node' = [g \in DOMAIN wire_node \union {wire} |->
                             IF g = wire THEN segments[p.track][n] ELSE wire_node[g]]
      BY <2>2 DEF ConnectTrack
    <3>2. segments[p.track][n] \in SegmentType
      BY <1>3, <3>1, JoinedSegment DEF Meets, RowsInv
    <3>3. wire[1] = "wire"
      OBVIOUS
    <3> HIDE DEF wire, n
    <3>4. IsFiniteSet(DOMAIN wire_node \union {wire})
      BY FS_AddElement DEF RowsInv, WiresTyped
    <3>. QED
      BY <3>1, <3>2, <3>3, <3>4 DEF RowsInv, WiresTyped
  <2>. QED
    BY <2>1, <2>2
<1>10. left' \subseteq DOMAIN switch'
  BY <1>1, <1>2 DEF RowsInv
<1>. QED
  BY <1>2, <1>8, <1>9, <1>10 DEF RowsInv

(* The row of a crossing, or of a mux between two pins.                    *)
LEMMA CrossingRows ==
  ASSUME RowsInv, NEW s, ConnectTracks(s) \/ ConnectPins(s)
  PROVE  RowsInv'
<1>1. s \in left /\ left' = left \ {s} /\ UNCHANGED <<device, rest, wire_node>>
  BY DEF ConnectTracks, ConnectPins, directions
<1>2. DeviceTyped' /\ switch' = switch /\ \A q, open : RowsOf(q, open)' <=> RowsOf(q, open)
  BY <1>1, SameDevice DEF RowsInv
<1>3. s \in left \intersect DOMAIN switch /\ RowsOf(graph_edge, left)
  BY <1>1 DEF RowsInv
<1>4. graph_edge' = graph_edge \/ \E e : OfPip(e, s) /\ graph_edge' = Append(graph_edge, e)
  <2>1. CASE ConnectTracks(s) /\ graph_edge' # graph_edge
    <3>1. PICK a, b :
            graph_edge' = Append(graph_edge,
              [Row(<<"track", s.from, a>>, <<"track", s.to, b>>,
                   GetPipSwitch(s, IF s.backward THEN fabric.name[s].to ELSE fabric.name[s].from))
                 EXCEPT !.pip = {s}, !.backward = s.backward])
      BY <2>1 DEF ConnectTracks
    <3>2. s.backward \in BOOLEAN /\ fabric.name[s].from # fabric.name[s].to
      BY <2>1 DEF ConnectTracks, RowsInv, DeviceTyped
    <3>3. OfPip([Row(<<"track", s.from, a>>, <<"track", s.to, b>>,
                   GetPipSwitch(s, IF s.backward THEN fabric.name[s].to ELSE fabric.name[s].from))
                 EXCEPT !.pip = {s}, !.backward = s.backward], s)
      BY <3>2 DEF OfPip, Row, GetPipSwitch
    <3>. QED
      BY <3>1, <3>3
  <2>2. CASE ConnectPins(s) /\ graph_edge' # graph_edge
    <3>1. PICK a, b :
            graph_edge' = Append(graph_edge,
              [Row(<<"pin", s.from, s.src, a>>, <<"pin", s.to, s.dst, b>>, MuxSwitch(s)) EXCEPT !.pip = {s}])
      BY <2>2 DEF ConnectPins
    <3>2. OfPip([Row(<<"pin", s.from, s.src, a>>, <<"pin", s.to, s.dst, b>>, MuxSwitch(s)) EXCEPT !.pip = {s}], s)
      BY DEF OfPip, Row, MuxSwitch
    <3>. QED
      BY <3>1, <3>2
  <2>. QED
    BY <2>1, <2>2
<1>5. RowsOf(graph_edge', left')
  <2>1. RowsOf(graph_edge, left \ {s})
    BY <1>3 DEF RowsOf
  <2>2. \A e : OfPip(e, s) => RowsOf(Append(graph_edge, e), left \ {s})
    BY <1>3, AddRow
  <2>. QED
    BY <1>1, <1>4, <2>1, <2>2
<1>6. WiresTyped' /\ left' \subseteq DOMAIN switch'
  BY <1>1, <1>2 DEF RowsInv, WiresTyped
<1>. QED
  BY <1>2, <1>5, <1>6 DEF RowsInv

(* No step adds a second row for an edge, but for those of site pins.      *)
LEMMA NextRows == RowsInv /\ [Next]_vars => RowsInv'
<1> SUFFICES ASSUME RowsInv, [Next]_vars PROVE RowsInv'
  OBVIOUS
<1>1. CASE \E e \in left : ConnectTrack(e) \/ ConnectTracks(e) \/ ConnectPins(e)
  BY <1>1, TrackRows, CrossingRows
<1>2. CASE UNCHANGED <<device, rest, left, graph_edge, wire_node>>
  BY <1>2, SameRows
<1>3. CASE Assign
  <2>1. UNCHANGED device
    BY <1>3 DEF Assign, DirectionsNext, HandleDirectionConnections, CheckReasons, HandleEdgesToChannels,
            Decide, Reduce, CheckAssignments
  <2>. QED
    BY <1>2, <1>3, <2>1 DEF Assign, database
<1>4. CASE UNCHANGED vars
  BY <1>2, <1>4 DEF vars, pinvars, database
<1>5. CASE MarkTrackLiveness \/ BuildChannels \/ VerifyChannels
  BY <1>2, <1>5 DEF MarkTrackLiveness, BuildChannels, VerifyChannels, directions, database
<1>6. CASE FindConstantNetwork \/ AddSwitches \/ ImportGraphNodes \/ ImportTracks
  BY <1>2, <1>6 DEF FindConstantNetwork, AddSwitches, ImportGraphNodes, ImportTracks, directions, database
<1>7. CASE AddSyntheticEdges \/ CreateNodeRemap \/ GetNumberGraphEdges \/ WriteNodes
  BY <1>2, <1>7 DEF AddSyntheticEdges, CreateNodeRemap, GetNumberGraphEdges, WriteNodes, directions, database
<1>8. CASE WriteEdge \/ WriteFiles
  BY <1>2, <1>8 DEF WriteEdge, WriteFiles, directions, database
<1>. QED
  BY <1>1, <1>3, <1>4, <1>5, <1>6, <1>7, <1>8 DEF Next

-----------------------------------------------------------------------------
(* The stages at which nodes are there.                                    *)
Imported == {"tracks", "synthetic", "connected", "counting", "serialize", "writing", "written"}

(* Graph nodes have nodes of their kind, and those of tracks and wires one *)
(* of their own.                                                           *)
NodesMapped ==
  /\ nodes \in Seq(Range(nodes))
  /\ \A i \in DOMAIN nodes : nodes[i].x_low \in Int /\ nodes[i].y_low \in Int
  /\ \A g \in DOMAIN node_mapping :
       /\ node_mapping[g] \in DOMAIN nodes
       /\ nodes[node_mapping[g]].type \in IF g[1] = "pin" THEN PinTypes ELSE TrackTypes
  /\ \A g, h \in DOMAIN node_mapping : g[1] # "pin" /\ node_mapping[g] = node_mapping[h] => g = h

(* The edges that are not of the database are there once; those of VPR's   *)
(* graph have no track.                                                    *)
EdgesListed ==
  /\ Lists(edges, ToSet(edges))
  /\ \A e \in ToSet(edges) : e \in (DOMAIN nodes) \X (DOMAIN nodes)
  /\ stage \in {"tracks", "synthetic"} =>
       \A e \in ToSet(edges) : nodes[e[1]].type \notin TrackTypes /\ nodes[e[2]].type \notin TrackTypes

(* What holds of the graph while it is made.                               *)
GraphInv ==
  /\ stage \in Imported => NodesMapped /\ EdgesListed
  /\ stage = "tracks" => \A g \in DOMAIN node_mapping : g[1] = "pin"
  /\ stage \in {"switches", "pins"} \union Imported => IsFiniteSet(synth_tiles)
  /\ stage \in {"pins"} \union Imported => SwitchTable \subseteq graph_switches

-----------------------------------------------------------------------------
(* Concatenation, where ranges are all that is known of the members.       *)
LEMMA Concatenated ==
  ASSUME NEW s, s \in Seq(Range(s)), NEW t, t \in Seq(Range(t))
  PROVE  /\ s \o t \in Seq(Range(s \o t))
         /\ Len(s) \in Nat /\ DOMAIN s = 1 .. Len(s) /\ Len(t) \in Nat /\ DOMAIN t = 1 .. Len(t)
         /\ DOMAIN (s \o t) = 1 .. Len(s) + Len(t)
         /\ \A i \in DOMAIN s : (s \o t)[i] = s[i]
         /\ \A i \in DOMAIN t : (s \o t)[Len(s) + i] = t[i]
<1> DEFINE S == Range(s) \union Range(t)
<1>1. s \in Seq(S) /\ t \in Seq(S)
  OBVIOUS
<1>2. /\ s \o t \in Seq(S) /\ Len(s \o t) = Len(s) + Len(t)
      /\ \A i \in 1 .. Len(s) + Len(t) : (s \o t)[i] = IF i <= Len(s) THEN s[i] ELSE t[i - Len(s)]
  BY <1>1, ConcatProperties
<1>3. /\ Len(s) \in Nat /\ DOMAIN s = 1 .. Len(s) /\ Len(t) \in Nat /\ DOMAIN t = 1 .. Len(t)
      /\ DOMAIN (s \o t) = 1 .. Len(s) + Len(t)
  BY <1>1, <1>2
<1>4. s \o t \in Seq(Range(s \o t))
  BY <1>2, SeqOfRange
<1>. QED
  BY <1>2, <1>3, <1>4

(* A pin of VPR's graph.                                                   *)
IsVprPin(n) ==
  \E type \in PinTypes, place \in Nat \X Nat : \E k : n = VprNode(type, place, k)

(* VPR has finitely many pins, at places of the grid.                      *)
LEMMA PinsOfVpr ==
  ASSUME DeviceTyped
  PROVE  /\ IsFiniteSet(VprPins)
         /\ \A n \in VprPins : IsVprPin(n)
<1> DEFINE P(k, t) == VprNode(IF k \in Outputs THEN "OPIN" ELSE "IPIN", Place[t], <<k, 0>>)
           A == {P(k, t) : k \in Keys, t \in Tiles}
           V == {c \in grid : c.type = "SYN-VCC"}
           B == {VprNode("OPIN", b.place, <<"VCC", 0>>) : b \in V}
           I(b) == {VprNode("OPIN", b.place, <<"inpad", z>>) : z \in 0 .. b.inpads - 1}
           O(b) == {VprNode("IPIN", b.place, <<"outpad", z>>) : z \in 0 .. b.outpads - 1}
           F == [b \in grid |-> I(b) \union O(b)]
           C == UNION {F[b] : b \in grid}
<1>1. VprPins = A \union B \union C
  BY DEF VprPins
<1>2. IsFiniteSet(A) /\ \A n \in A : IsVprPin(n)
  <2> DEFINE f == [e \in Keys \X Tiles |->
                     VprNode(IF e[1] \in Outputs THEN "OPIN" ELSE "IPIN", Place[e[2]], <<e[1], 0>>)]
  <2>1. IsFiniteSet(Keys \X Tiles)
    BY FS_Product, DeviceAssumption, RoutingAssumption
  <2>2. ASSUME NEW k \in Keys, NEW t \in Tiles
        PROVE  VprNode(IF k \in Outputs THEN "OPIN" ELSE "IPIN", Place[t], <<k, 0>>) = f[<<k, t>>]
    OBVIOUS
  <2>3. DOMAIN f = Keys \X Tiles
    OBVIOUS
  <2>4. IsFiniteSet({f[e] : e \in Keys \X Tiles})
    <3> HIDE DEF f
    <3>. QED
      BY <2>1, <2>3, ImageFinite
  <2>8. \A n \in A : \E k \in Keys, t \in Tiles : n = P(k, t)
    <3> HIDE DEF P
    <3>. QED
      OBVIOUS
  <2>5. A \subseteq {f[e] : e \in Keys \X Tiles}
    <3> HIDE DEF f, A
    <3>1. \A k \in Keys, t \in Tiles : f[<<k, t>>] \in {f[e] : e \in Keys \X Tiles}
      OBVIOUS
    <3>. QED
      BY <2>2, <2>8, <3>1
  <2>6. IsFiniteSet(A)
    <3> HIDE DEF f, A
    <3>. QED
      BY <2>4, <2>5, FS_Subset
  <2>7. ASSUME NEW k \in Keys, NEW t \in Tiles
        PROVE  IsVprPin(VprNode(IF k \in Outputs THEN "OPIN" ELSE "IPIN", Place[t], <<k, 0>>))
    <3>1. Place[t] \in Nat \X Nat
      BY DeviceAssumption
    <3>2. (IF k \in Outputs THEN "OPIN" ELSE "IPIN") \in PinTypes
      BY DEF PinTypes
    <3>. QED
      BY <3>1, <3>2 DEF IsVprPin
  <2> HIDE DEF A
  <2>. QED
    BY <2>6, <2>7, <2>8
<1>3. IsFiniteSet(B) /\ \A n \in B : IsVprPin(n)
  <2> DEFINE f == [b \in V |-> VprNode("OPIN", b.place, <<"VCC", 0>>)]
  <2>1. IsFiniteSet(V)
    BY FS_Subset DEF DeviceTyped
  <2>2. B = {f[b] : b \in V}
    OBVIOUS
  <2>3. DOMAIN f = V
    OBVIOUS
  <2>4. IsFiniteSet({f[b] : b \in V})
    <3> HIDE DEF f
    <3>. QED
      BY <2>1, <2>3, ImageFinite
  <2>5. \A n \in B : IsVprPin(n)
    BY DEF IsVprPin, PinTypes, DeviceTyped
  <2>. QED
    BY <2>2, <2>4, <2>5
<1>4. IsFiniteSet(C) /\ \A n \in C : IsVprPin(n)
  <2>1. ASSUME NEW b \in grid
        PROVE  IsFiniteSet(F[b]) /\ \A n \in F[b] : IsVprPin(n)
    <3> DEFINE i == [z \in 0 .. b.inpads - 1 |-> VprNode("OPIN", b.place, <<"inpad", z>>)]
               o == [z \in 0 .. b.outpads - 1 |-> VprNode("IPIN", b.place, <<"outpad", z>>)]
    <3>1. b.place \in Nat \X Nat /\ b.inpads \in Nat /\ b.outpads \in Nat
      BY DEF DeviceTyped
    <3>2. IsFiniteSet(0 .. b.inpads - 1) /\ IsFiniteSet(0 .. b.outpads - 1)
      <4>1. b.inpads - 1 \in Int /\ b.outpads - 1 \in Int
        BY <3>1
      <4>. QED
        BY <4>1, FS_Interval
    <3>3. /\ I(b) = {i[z] : z \in 0 .. b.inpads - 1} /\ DOMAIN i = 0 .. b.inpads - 1
          /\ O(b) = {o[z] : z \in 0 .. b.outpads - 1} /\ DOMAIN o = 0 .. b.outpads - 1
      OBVIOUS
    <3>4. IsFiniteSet({i[z] : z \in 0 .. b.inpads - 1}) /\ IsFiniteSet({o[z] : z \in 0 .. b.outpads - 1})
      <4> DEFINE M == 0 .. b.inpads - 1
                 N == 0 .. b.outpads - 1
      <4>1. M \subseteq DOMAIN i /\ N \subseteq DOMAIN o /\ IsFiniteSet(M) /\ IsFiniteSet(N)
        BY <3>2
      <4> HIDE DEF i, o, M, N
      <4>2. IsFiniteSet({i[z] : z \in M}) /\ IsFiniteSet({o[z] : z \in N})
        BY <4>1, ImageFinite
      <4>. QED
        BY <4>2 DEF M, N
    <3>5. IsFiniteSet(I(b) \union O(b))
      <4> HIDE DEF i, o, I, O
      <4>. QED
        BY <3>3, <3>4, FS_Union
    <3>6. \A n \in I(b) \union O(b) : IsVprPin(n)
      BY <3>1 DEF IsVprPin, PinTypes
    <3>. QED
      BY <3>5, <3>6
  <2> DEFINE G == {F[b] : b \in grid}
  <2>2. IsFiniteSet(G)
    <3>1. DOMAIN F = grid /\ IsFiniteSet(grid)
      BY DEF DeviceTyped
    <3> HIDE DEF F
    <3>. QED
      BY <3>1, ImageFinite
  <2>3. IsFiniteSet(UNION G)
    <3> HIDE DEF F
    <3>1. \A T \in G : IsFiniteSet(T)
      BY <2>1
    <3> HIDE DEF G
    <3>. QED
      BY <2>2, <3>1, FS_UNION
  <2>. QED
    <3> HIDE DEF F
    <3>. QED
      BY <2>1, <2>3
<1>. QED
  <2> HIDE DEF A, B, C
  <2>1. IsFiniteSet(A \union B) /\ IsFiniteSet((A \union B) \union C)
    BY <1>2, <1>3, <1>4, FS_Union
  <2>. QED
    BY <1>1, <1>2, <1>3, <1>4, <2>1

(* Finitely many graph nodes are alive.                                    *)
LEMMA AliveNodesFinite ==
  ASSUME RowsInv
  PROVE  /\ IsFiniteSet(AliveNodes)
         /\ \A g \in AliveNodes : g[1] \in {"track", "wire"} /\ Segment(g) \in SegmentType
<1> DEFINE N(w) == {<<"track", w, n>> : n \in DOMAIN segments[w]}
           F == [w \in Tracks |-> N(w)]
           G == {F[w] : w \in Tracks}
<1>1. TrackNodes = DOMAIN wire_node \union UNION G
  BY DEF TrackNodes
<1>2. ASSUME NEW w \in Tracks
      PROVE  IsFiniteSet(N(w)) /\ \A g \in N(w) : g[1] = "track" /\ Segment(g) \in SegmentType
  <2> DEFINE f == [n \in DOMAIN segments[w] |-> <<"track", w, n>>]
  <2>1. segments[w] \in Seq(SegmentType)
    BY DEF RowsInv, DeviceTyped
  <2>2. IsFiniteSet(DOMAIN segments[w])
    <3>1. Len(segments[w]) \in Nat /\ DOMAIN segments[w] = 1 .. Len(segments[w])
      BY <2>1
    <3>2. IsFiniteSet(1 .. Len(segments[w]))
      BY <3>1, FS_Interval
    <3>. QED
      BY <3>1, <3>2
  <2>3. N(w) = {f[n] : n \in DOMAIN segments[w]} /\ DOMAIN f = DOMAIN segments[w]
    OBVIOUS
  <2>4. IsFiniteSet({f[n] : n \in DOMAIN segments[w]})
    <3> HIDE DEF f
    <3>. QED
      BY <2>2, <2>3, ImageFinite
  <2>5. \A n \in DOMAIN segments[w] : segments[w][n] \in SegmentType
    BY <2>1
  <2>6. \A g \in N(w) : g[1] = "track" /\ Segment(g) \in SegmentType
    BY <2>5 DEF Segment
  <2>. QED
    BY <2>3, <2>4, <2>6
<1>3. IsFiniteSet(G)
  <2>1. DOMAIN F = Tracks
    OBVIOUS
  <2> HIDE DEF F
  <2>. QED
    BY <2>1, ImageFinite, RoutingAssumption
<1>4. IsFiniteSet(UNION G)
  <2> HIDE DEF N
  <2>1. \A T \in G : IsFiniteSet(T)
    BY <1>2
  <2> HIDE DEF G
  <2>. QED
    BY <1>3, <2>1, FS_UNION
<1>5. IsFiniteSet(TrackNodes)
  <2> HIDE DEF G
  <2>. QED
    BY <1>1, <1>4, FS_Union DEF RowsInv, WiresTyped
<1>6. \A g \in DOMAIN wire_node : g[1] = "wire" /\ Segment(g) \in SegmentType
  BY DEF RowsInv, WiresTyped, Segment
<1>7. AliveNodes \subseteq TrackNodes
  BY DEF AliveNodes
<1>8. \A g \in TrackNodes : g[1] \in {"track", "wire"} /\ Segment(g) \in SegmentType
  <2> HIDE DEF N
  <2>1. \A g \in UNION G : g[1] = "track" /\ Segment(g) \in SegmentType
    BY <1>2
  <2> HIDE DEF G
  <2>. QED
    BY <1>1, <1>6, <2>1
<1>. QED
  BY <1>5, <1>7, <1>8, FS_Subset

(* The nodes of VPR's graph are matched with those of pins.                *)
LEMMA ImportNodesGraph ==
  ASSUME RowsInv, GraphInv, ImportGraphNodes
  PROVE  GraphInv'
<1> DEFINE All == VprPins \union {Class(n) : n \in VprPins}
           ns == Listed(All)
           At(n) == CHOOSE i \in DOMAIN ns : ns[i] = n
           id(k, t) == CHOOSE i \in DOMAIN ns :
                         ns[i].type \in PinTypes /\ ns[i].ptc = <<k, 0>> /\ <<ns[i].x_low, ns[i].y_low>> = Place[t]
           Link(n) == IF n.type = "OPIN" THEN <<At(Class(n)), At(n)>> ELSE <<At(n), At(Class(n))>>
           Links == {Link(n) : n \in VprPins}
<1>1. /\ nodes' = ns /\ edges' = Listed(Links)
      /\ node_mapping' = [g \in PinNodes |-> id(g[2], g[3])]
      /\ stage' = "tracks" /\ stage = "pins"
      /\ UNCHANGED <<synth_tiles, graph_switches, directions>>
  BY DEF ImportGraphNodes
<1>2. IsFiniteSet(VprPins) /\ \A n \in VprPins : IsVprPin(n)
  BY PinsOfVpr DEF RowsInv
<1>3. \A n \in VprPins : /\ n.type \in PinTypes /\ n.x_low \in Int /\ n.y_low \in Int
                         /\ Class(n).type \in {"SOURCE", "SINK"}
                         /\ Class(n).x_low \in Int /\ Class(n).y_low \in Int
  <2> SUFFICES ASSUME NEW n \in VprPins
               PROVE  /\ n.type \in PinTypes /\ n.x_low \in Int /\ n.y_low \in Int
                      /\ Class(n).type \in {"SOURCE", "SINK"}
                      /\ Class(n).x_low \in Int /\ Class(n).y_low \in Int
    OBVIOUS
  <2>1. PICK type \in PinTypes, place \in Nat \X Nat : \E k : n = VprNode(type, place, k)
    BY <1>2 DEF IsVprPin
  <2>2. PICK k : n = VprNode(type, place, k)
    BY <2>1
  <2>. QED
    BY <2>2 DEF VprNode, Class
<1>4. IsFiniteSet(All)
  <2> DEFINE f == [n \in VprPins |-> Class(n)]
  <2>1. {Class(n) : n \in VprPins} = {f[n] : n \in VprPins} /\ DOMAIN f = VprPins
    OBVIOUS
  <2> HIDE DEF f
  <2>2. IsFiniteSet({f[n] : n \in VprPins})
    BY <1>2, <2>1, ImageFinite
  <2>. QED
    BY <1>2, <2>1, <2>2, FS_Union
<1>5. Lists(ns, All)
  <2> HIDE DEF All
  <2>. QED
    BY <1>4, ListedOnce
<1> HIDE DEF ns
<1>6. /\ ns \in Seq(Range(ns)) /\ \A i \in DOMAIN ns : ns[i] \in All
      /\ \A n \in All : \E i \in DOMAIN ns : ns[i] = n
  <2> HIDE DEF All
  <2>. QED
    BY <1>5 DEF Lists, ToSet, Range
<1>7. \A i \in DOMAIN ns : ns[i].x_low \in Int /\ ns[i].y_low \in Int
  BY <1>3, <1>6
<1>8. \A n \in All : At(n) \in DOMAIN ns /\ ns[At(n)] = n
  <2> HIDE DEF All
  <2>. QED
    BY <1>6
<1>9. ASSUME NEW k \in Keys, NEW t \in Tiles
      PROVE  id(k, t) \in DOMAIN ns /\ ns[id(k, t)].type \in PinTypes
  <2> DEFINE type == IF k \in Outputs THEN "OPIN" ELSE "IPIN"
             n == VprNode(type, Place[t], <<k, 0>>)
  <2>1. n \in VprPins
    BY DEF VprPins
  <2>2. PICK i \in DOMAIN ns : ns[i] = n
    BY <1>6, <2>1
  <2>3. Place[t] \in Nat \X Nat
    BY DeviceAssumption
  <2>4. n.type \in PinTypes /\ n.ptc = <<k, 0>> /\ <<n.x_low, n.y_low>> = Place[t]
    BY <2>3 DEF VprNode, PinTypes
  <2> HIDE DEF n
  <2>. QED
    BY <2>2, <2>4
<1>10. \A n \in VprPins : Link(n) \in (DOMAIN ns) \X (DOMAIN ns) /\ ns[Link(n)[1]].type \notin TrackTypes
                                                                /\ ns[Link(n)[2]].type \notin TrackTypes
  <2> SUFFICES ASSUME NEW n \in VprPins
               PROVE  Link(n) \in (DOMAIN ns) \X (DOMAIN ns) /\ ns[Link(n)[1]].type \notin TrackTypes
                                                             /\ ns[Link(n)[2]].type \notin TrackTypes
    OBVIOUS
  <2>1. n \in All /\ Class(n) \in All
    OBVIOUS
  <2> HIDE DEF All
  <2>2. At(n) \in DOMAIN ns /\ ns[At(n)] = n /\ At(Class(n)) \in DOMAIN ns /\ ns[At(Class(n))] = Class(n)
    BY <1>8, <2>1
  <2>3. n.type \notin TrackTypes /\ Class(n).type \notin TrackTypes
    BY <1>3 DEF PinTypes, TrackTypes
  <2> HIDE DEF At
  <2>. QED
    BY <2>2, <2>3
<1>11. IsFiniteSet(Links)
  <2> DEFINE f == [n \in VprPins |-> Link(n)]
  <2>1. Links = {f[n] : n \in VprPins} /\ DOMAIN f = VprPins
    OBVIOUS
  <2> HIDE DEF f
  <2>2. IsFiniteSet({f[n] : n \in VprPins})
    BY <1>2, <2>1, ImageFinite
  <2>. QED
    BY <2>1, <2>2
<1>12. Lists(edges', Links)
  <2> HIDE DEF Links
  <2>. QED
    BY <1>1, <1>11, ListedOnce
<1>13. \A e \in Links : e \in (DOMAIN ns) \X (DOMAIN ns) /\ ns[e[1]].type \notin TrackTypes
                                                         /\ ns[e[2]].type \notin TrackTypes
  <2> HIDE DEF Link
  <2>. QED
    BY <1>10
<1>14. EdgesListed'
  <2> HIDE DEF Links
  <2>1. ToSet(edges') = Links
    BY <1>12 DEF Lists
  <2>. QED
    BY <1>1, <1>12, <1>13, <2>1 DEF EdgesListed
<1>15. \A g \in PinNodes : g[1] = "pin" /\ g[2] \in Keys /\ g[3] \in Tiles
  BY DEF PinNodes
<1> HIDE DEF id
<1>16. NodesMapped'
  <2>1. \A g \in DOMAIN node_mapping' :
          /\ g[1] = "pin" /\ node_mapping'[g] \in DOMAIN ns
          /\ ns[node_mapping'[g]].type \in PinTypes
    BY <1>1, <1>9, <1>15
  <2>. QED
    BY <1>1, <1>6, <1>7, <2>1 DEF NodesMapped
<1>17. /\ DOMAIN node_mapping' = PinNodes /\ (SwitchTable \subseteq graph_switches)'
       /\ IsFiniteSet(synth_tiles)'
  BY <1>1 DEF GraphInv, SwitchTable, directions, rest
<1>. QED
  BY <1>1, <1>14, <1>15, <1>16, <1>17 DEF GraphInv, Imported

(* The tracks that are alive get nodes behind those.                       *)
LEMMA ImportTracksGraph ==
  ASSUME RowsInv, GraphInv, ImportTracks
  PROVE  GraphInv'
<1> DEFINE new == Listed(AliveNodes)
           from1(n) == IF n > 1 THEN n ELSE 1
           Node(g) ==
             LET s == Segment(g)
             IN  IF s.dir = "X"
                 THEN [type |-> "CHANX", x_low |-> from1(s.low), x_high |-> s.high,
                       y_low |-> s.at, y_high |-> s.at, ptc |-> ptc[g]]
                 ELSE [type |-> "CHANY", x_low |-> s.at, x_high |-> s.at,
                       y_low |-> from1(s.low), y_high |-> s.high, ptc |-> ptc[g]]
           added == [n \in DOMAIN new |-> Node(new[n])]
           Pos(g) == CHOOSE n \in DOMAIN new : new[n] = g
<1>1. /\ nodes' = nodes \o added
      /\ node_mapping' = [g \in DOMAIN node_mapping \union AliveNodes |->
                            IF g \in AliveNodes THEN Len(nodes) + Pos(g) ELSE node_mapping[g]]
      /\ stage = "tracks" /\ stage' = "synthetic"
      /\ UNCHANGED <<synth_tiles, graph_switches, edges, directions>>
  BY DEF ImportTracks
<1>2. IsFiniteSet(AliveNodes) /\ \A g \in AliveNodes : g[1] \in {"track", "wire"} /\ Segment(g) \in SegmentType
  BY AliveNodesFinite
<1>3. Lists(new, AliveNodes)
  BY <1>2, ListedOnce
<1>4. NodesMapped /\ EdgesListed /\ \A g \in DOMAIN node_mapping : g[1] = "pin"
  BY <1>1 DEF GraphInv, Imported
<1> HIDE DEF new
<1>5. \A g \in AliveNodes : Pos(g) \in DOMAIN new /\ new[Pos(g)] = g
  BY <1>3 DEF Lists, ToSet
<1>6. Len(new) \in Nat /\ DOMAIN new = 1 .. Len(new) /\ \A n \in DOMAIN new : new[n] \in AliveNodes
  BY <1>3 DEF Lists, ToSet
<1>7. \A g \in AliveNodes : Node(g).type \in TrackTypes /\ Node(g).x_low \in Int /\ Node(g).y_low \in Int
  <2> SUFFICES ASSUME NEW g \in AliveNodes
               PROVE  Node(g).type \in TrackTypes /\ Node(g).x_low \in Int /\ Node(g).y_low \in Int
    OBVIOUS
  <2>1. Segment(g).low \in Int /\ Segment(g).at \in Int
    BY <1>2 DEF SegmentType
  <2>2. from1(Segment(g).low) \in Int
    BY <2>1
  <2> HIDE DEF from1
  <2>. QED
    BY <2>1, <2>2 DEF TrackTypes
<1> HIDE DEF Node, Pos
<1>8. added \in Seq(Range(added)) /\ DOMAIN added = 1 .. Len(new)
  <2>1. \A n \in 1 .. Len(new) : added[n] \in Range(added)
    BY <1>6 DEF Range
  <2>2. added \in [1 .. Len(new) -> Range(added)]
    BY <1>6, <2>1
  <2> HIDE DEF added
  <2>. QED
    BY <1>6, <2>2
<1>9. \A n \in DOMAIN added : added[n] = Node(new[n])
  BY <1>6, <1>8
<1> HIDE DEF added
<1>10. /\ nodes' \in Seq(Range(nodes')) /\ Len(nodes) \in Nat /\ DOMAIN nodes = 1 .. Len(nodes)
       /\ Len(added) \in Nat /\ DOMAIN added = 1 .. Len(added)
       /\ DOMAIN nodes' = 1 .. Len(nodes) + Len(added)
       /\ \A i \in DOMAIN nodes : nodes'[i] = nodes[i]
       /\ \A i \in DOMAIN added : nodes'[Len(nodes) + i] = added[i]
  BY <1>1, <1>4, <1>8, Concatenated DEF NodesMapped
<1>11. \A i \in DOMAIN nodes' : nodes'[i].x_low \in Int /\ nodes'[i].y_low \in Int
  <2> SUFFICES ASSUME NEW i \in DOMAIN nodes' PROVE nodes'[i].x_low \in Int /\ nodes'[i].y_low \in Int
    OBVIOUS
  <2>1. CASE i \in DOMAIN nodes
    BY <1>4, <1>10, <2>1 DEF NodesMapped
  <2>2. CASE i \notin DOMAIN nodes
    <3>1. i - Len(nodes) \in DOMAIN added /\ i = Len(nodes) + (i - Len(nodes))
      BY <1>10, <2>2
    <3>2. nodes'[i] = Node(new[i - Len(nodes)])
      BY <1>9, <1>10, <3>1
    <3>. QED
      BY <1>6, <1>7, <1>8, <3>1, <3>2
  <2>. QED
    BY <2>1, <2>2
<1>12. \A g \in AliveNodes : /\ node_mapping'[g] = Len(nodes) + Pos(g) /\ Pos(g) \in DOMAIN added
                             /\ node_mapping'[g] \in DOMAIN nodes' \ DOMAIN nodes
                             /\ nodes'[node_mapping'[g]].type \in TrackTypes
  <2> SUFFICES ASSUME NEW g \in AliveNodes
               PROVE  /\ node_mapping'[g] = Len(nodes) + Pos(g) /\ Pos(g) \in DOMAIN added
                      /\ node_mapping'[g] \in DOMAIN nodes' \ DOMAIN nodes
                      /\ nodes'[node_mapping'[g]].type \in TrackTypes
    OBVIOUS
  <2>1. node_mapping'[g] = Len(nodes) + Pos(g) /\ Pos(g) \in DOMAIN added
    BY <1>1, <1>5, <1>6, <1>8
  <2>2. nodes'[Len(nodes) + Pos(g)] = Node(g)
    BY <1>5, <1>9, <1>10, <2>1
  <2>3. Len(nodes) + Pos(g) \in DOMAIN nodes' \ DOMAIN nodes
    BY <1>10, <2>1
  <2>. QED
    BY <1>7, <2>1, <2>2, <2>3
<1>13. \A g \in DOMAIN node_mapping : /\ g \notin AliveNodes /\ node_mapping'[g] = node_mapping[g]
                                      /\ node_mapping[g] \in DOMAIN nodes
                                      /\ node_mapping[g] \in DOMAIN nodes'
                                      /\ nodes'[node_mapping[g]].type \in PinTypes
  <2>1. \A g \in DOMAIN node_mapping : g \notin AliveNodes
    BY <1>2, <1>4
  <2>2. \A g \in DOMAIN node_mapping : node_mapping'[g] = node_mapping[g]
    BY <1>1, <2>1
  <2>3. \A g \in DOMAIN node_mapping : node_mapping[g] \in DOMAIN nodes /\ nodes[node_mapping[g]].type \in PinTypes
    BY <1>4 DEF NodesMapped
  <2>. QED
    BY <1>10, <2>1, <2>2, <2>3
<1>14. NodesMapped'
  <2>1. \A g \in DOMAIN node_mapping' : g \in AliveNodes \/ g \in DOMAIN node_mapping
    BY <1>1
  <2>2. \A g \in DOMAIN node_mapping' :
          /\ node_mapping'[g] \in DOMAIN nodes'
          /\ nodes'[node_mapping'[g]].type \in IF g[1] = "pin" THEN PinTypes ELSE TrackTypes
    BY <1>2, <1>4, <1>12, <1>13, <2>1
  <2>3. ASSUME NEW g \in DOMAIN node_mapping', NEW h \in DOMAIN node_mapping', g[1] # "pin",
               node_mapping'[g] = node_mapping'[h]
        PROVE  g = h
    <3>1. g \in AliveNodes
      BY <1>4, <2>1, <2>3
    <3>2. h \in AliveNodes
      BY <1>12, <1>13, <2>1, <2>3, <3>1
    <3>3. Pos(g) = Pos(h)
      BY <1>10, <1>12, <2>3, <3>1, <3>2
    <3>. QED
      BY <1>5, <3>1, <3>2, <3>3
  <2>. QED
    BY <1>10, <1>11, <2>2, <2>3 DEF NodesMapped
<1>15. EdgesListed'
  <2>1. \A e \in ToSet(edges) : /\ e \in (DOMAIN nodes) \X (DOMAIN nodes)
                                /\ nodes[e[1]].type \notin TrackTypes /\ nodes[e[2]].type \notin TrackTypes
    BY <1>1, <1>4 DEF EdgesListed
  <2>2. \A e \in ToSet(edges) : /\ e \in (DOMAIN nodes') \X (DOMAIN nodes')
                                /\ nodes'[e[1]].type \notin TrackTypes /\ nodes'[e[2]].type \notin TrackTypes
    BY <1>10, <2>1
  <2>. QED
    BY <1>1, <1>4, <2>2 DEF EdgesListed
<1>16. (SwitchTable \subseteq graph_switches)' /\ IsFiniteSet(synth_tiles)'
  BY <1>1 DEF GraphInv, SwitchTable, directions, rest, Imported
<1>. QED
  BY <1>1, <1>14, <1>15, <1>16 DEF GraphInv, Imported

(* Edges of synthetic pins are apart, and from those of VPR.               *)
LEMMA SyntheticGraph ==
  ASSUME RowsInv, GraphInv, AddSyntheticEdges
  PROVE  GraphInv'
<1> DEFINE option(p) == Alongside(p.track, p.loc)
           track(p) == <<"track", p.track, Joins(p.track, p.loc, option(p))>>
           pin(p) == CHOOSE i \in PadNodes(p) : TRUE
           Synthetic(p) ==
             IF p.port = "input" THEN <<node_mapping[track(p)], pin(p)>> ELSE <<pin(p), node_mapping[track(p)]>>
           New1 == {Synthetic(p) : p \in synth_tiles}
<1>1. /\ stage = "synthetic" /\ stage' \in {"raised", "connected"}
      /\ UNCHANGED <<synth_tiles, graph_switches, nodes, node_mapping, directions>>
      /\ stage' = "connected" =>
           /\ edges' = edges \o Listed(New1)
           /\ \A p \in synth_tiles : track(p) \in DOMAIN node_mapping /\ PadNodes(p) # {}
  BY DEF AddSyntheticEdges
<1>2. NodesMapped /\ EdgesListed /\ IsFiniteSet(synth_tiles) /\ SwitchTable \subseteq graph_switches
  BY <1>1 DEF GraphInv, Imported
<1>3. ASSUME stage' = "connected"
      PROVE  EdgesListed'
  <2>1. \A p \in synth_tiles : track(p) \in DOMAIN node_mapping /\ track(p)[1] = "track" /\ pin(p) \in PadNodes(p)
    BY <1>1, <1>3
  <2>2. \A p \in synth_tiles : pin(p) \in DOMAIN nodes
    BY <2>1 DEF PadNodes
  <2> HIDE DEF track, pin
  <2>3. \A p \in synth_tiles : /\ node_mapping[track(p)] \in DOMAIN nodes
                               /\ nodes[node_mapping[track(p)]].type \in TrackTypes
    BY <1>2, <2>1 DEF NodesMapped
  <2>4. \A p \in synth_tiles : /\ Synthetic(p) \in (DOMAIN nodes) \X (DOMAIN nodes)
                               /\ \/ nodes[Synthetic(p)[1]].type \in TrackTypes
                                  \/ nodes[Synthetic(p)[2]].type \in TrackTypes
    BY <2>2, <2>3
  <2> HIDE DEF Synthetic
  <2>5. \A e \in New1 : /\ e \in (DOMAIN nodes) \X (DOMAIN nodes)
                        /\ nodes[e[1]].type \in TrackTypes \/ nodes[e[2]].type \in TrackTypes
    BY <2>4
  <2>6. IsFiniteSet(New1)
    <3> DEFINE f == [p \in synth_tiles |-> Synthetic(p)]
    <3>1. New1 = {f[p] : p \in synth_tiles} /\ DOMAIN f = synth_tiles
      OBVIOUS
    <3> HIDE DEF f
    <3>. QED
      BY <1>2, <3>1, ImageFinite
  <2> HIDE DEF New1
  <2>7. Lists(Listed(New1), New1)
    BY <2>6, ListedOnce
  <2>8. ToSet(edges) \intersect New1 = {}
    BY <1>1, <1>2, <2>5 DEF EdgesListed
  <2>9. Lists(edges', ToSet(edges) \union New1)
    <3>1. Lists(edges, ToSet(edges))
      BY <1>2 DEF EdgesListed
    <3>2. Lists(edges \o Listed(New1), ToSet(edges) \union New1)
      BY <2>7, <2>8, <3>1, ListsConcat
    <3>3. edges' = edges \o Listed(New1)
      BY <1>1, <1>3
    <3>. QED
      BY <3>2, <3>3
  <2>10. ToSet(edges') = ToSet(edges) \union New1
    BY <2>9 DEF Lists
  <2>. QED
    BY <1>1, <1>2, <1>3, <2>5, <2>9, <2>10 DEF EdgesListed
<1>4. NodesMapped'
  BY <1>1, <1>2 DEF NodesMapped
<1>5. (SwitchTable \subseteq graph_switches)' /\ IsFiniteSet(synth_tiles)'
  BY <1>1, <1>2 DEF SwitchTable, directions, rest
<1>. QED
  BY <1>1, <1>3, <1>4, <1>5 DEF GraphInv, Imported

(* Before the nodes: the synthetic pins and the switches.                  *)
LEMMA NetworkGraph ==
  ASSUME RowsInv, GraphInv, FindConstantNetwork \/ AddSwitches
  PROVE  GraphInv'
<1>1. CASE FindConstantNetwork
  <2>1. /\ stage' \in {"raised", "switches"}
        /\ stage' = "switches" =>
             \E S \in SUBSET {[port |-> "VCC", tile |-> "VCC", track |-> ConstantTrack, loc |-> b.place, z |-> 0] :
                                b \in {c \in grid : c.type = "SYN-VCC"}} :
               synth_tiles' = region.pins \union S
    BY <1>1 DEF FindConstantNetwork
  <2> DEFINE V == {c \in grid : c.type = "SYN-VCC"}
             f == [b \in V |-> [port |-> "VCC", tile |-> "VCC", track |-> ConstantTrack, loc |-> b.place, z |-> 0]]
             T == {f[b] : b \in V}
  <2>2. T = {[port |-> "VCC", tile |-> "VCC", track |-> ConstantTrack, loc |-> b.place, z |-> 0] : b \in V}
    OBVIOUS
  <2>3. IsFiniteSet(V) /\ DOMAIN f = V
    BY FS_Subset DEF RowsInv, DeviceTyped
  <2>4. IsFiniteSet(T)
    <3> HIDE DEF f, V
    <3>. QED
      BY <2>3, ImageFinite
  <2>5. stage' = "switches" => IsFiniteSet(synth_tiles')
    <3> SUFFICES ASSUME stage' = "switches" PROVE IsFiniteSet(synth_tiles')
      OBVIOUS
    <3>1. PICK S \in SUBSET T : synth_tiles' = region.pins \union S
      BY <2>1, <2>2
    <3> HIDE DEF T
    <3>2. IsFiniteSet(S)
      BY <2>4, FS_Subset
    <3>. QED
      BY <3>1, <3>2, FS_Union DEF RowsInv, DeviceTyped
  <2>. QED
    BY <2>1, <2>5 DEF GraphInv, Imported
<1>2. CASE AddSwitches
  <2>1. /\ stage = "switches" /\ stage' = "pins" /\ graph_switches' = graph_switches \union SwitchTable
        /\ UNCHANGED <<synth_tiles, directions>>
    BY <1>2 DEF AddSwitches
  <2>2. SwitchTable' = SwitchTable
    BY <2>1 DEF SwitchTable, directions, rest
  <2>. QED
    BY <2>1, <2>2 DEF GraphInv, Imported
<1>. QED
  BY <1>1, <1>2

(* Every step keeps nodes mapped and edges apart.                          *)
LEMMA NextGraph == RowsInv /\ GraphInv /\ [Next]_vars => GraphInv'
<1> SUFFICES ASSUME RowsInv, GraphInv, [Next]_vars PROVE GraphInv'
  OBVIOUS
<1> DEFINE Late == {"switches", "pins"} \union Imported
<1>1. CASE stage' \notin Late
  BY <1>1 DEF GraphInv, Imported
<1>2. CASE UNCHANGED <<directions, stage, synth_tiles, graph_switches, nodes, edges, node_mapping>>
  BY <1>2 DEF GraphInv, NodesMapped, EdgesListed, SwitchTable, directions, rest
<1>3. CASE /\ stage \in Imported \ {"tracks", "synthetic"} /\ stage' \in Imported \ {"tracks", "synthetic"}
           /\ UNCHANGED <<directions, synth_tiles, graph_switches, nodes, edges, node_mapping>>
  BY <1>3 DEF GraphInv, NodesMapped, EdgesListed, SwitchTable, directions, rest
<1>4. CASE Assign
  <2>1. stage' \notin Late
    BY <1>4 DEF Assign, DirectionsNext, HandleDirectionConnections, CheckReasons, HandleEdgesToChannels,
            Decide, Reduce, CheckAssignments, Imported
  <2>. QED
    BY <1>1, <2>1
<1>5. CASE \E e \in left : ConnectTrack(e) \/ ConnectTracks(e) \/ ConnectPins(e)
  <2> PICK e \in left : ConnectTrack(e) \/ ConnectTracks(e) \/ ConnectPins(e)
    BY <1>5
  <2>1. stage' \in {"assigned", "raised"}
    BY DEF ConnectTrack, ConnectTracks, ConnectPins
  <2>2. stage' \notin Late
    BY <2>1 DEF Imported
  <2>. QED
    BY <1>1, <2>2
<1>6. CASE MarkTrackLiveness \/ BuildChannels \/ VerifyChannels
  <2>1. stage' \notin Late
    BY <1>6 DEF MarkTrackLiveness, BuildChannels, VerifyChannels, Imported
  <2>. QED
    BY <1>1, <2>1
<1>7. CASE FindConstantNetwork \/ AddSwitches \/ ImportGraphNodes \/ ImportTracks \/ AddSyntheticEdges
  BY <1>7, NetworkGraph, ImportNodesGraph, ImportTracksGraph, SyntheticGraph
<1>8. CASE CreateNodeRemap \/ GetNumberGraphEdges \/ WriteNodes
  <2>1. /\ stage \in Imported \ {"tracks", "synthetic"}
        /\ stage' = "raised" \/ stage' \in Imported \ {"tracks", "synthetic"}
        /\ UNCHANGED <<directions, synth_tiles, graph_switches, nodes, edges, node_mapping>>
    BY <1>8 DEF CreateNodeRemap, GetNumberGraphEdges, WriteNodes, Imported, vprgraph
  <2>2. "raised" \notin Late
    BY DEF Imported
  <2>. QED
    BY <1>1, <1>3, <2>1, <2>2
<1>9. CASE WriteEdge \/ WriteFiles
  <2>1. /\ stage = "writing" /\ stage' \in {"writing", "written", "raised"}
        /\ UNCHANGED <<directions, synth_tiles, graph_switches, nodes, edges, node_mapping>>
    BY <1>9 DEF WriteEdge, WriteFiles, Yielded, vprgraph
  <2>2. "raised" \notin Late /\ {"writing", "written"} \subseteq Imported \ {"tracks", "synthetic"}
    BY DEF Imported
  <2>. QED
    BY <1>1, <1>3, <2>1, <2>2
<1>10. CASE UNCHANGED vars
  BY <1>2, <1>10 DEF vars, pinvars, vprgraph, directions
<1>. QED
  BY <1>4, <1>5, <1>6, <1>7, <1>8, <1>9, <1>10 DEF Next

-----------------------------------------------------------------------------
(* New ids do not fall together, and when edges are written every node has *)
(* one.                                                                    *)
IdsApart ==
  stage \in {"counting", "serialize", "writing", "written"} =>
    /\ DOMAIN id_map \subseteq DOMAIN nodes
    /\ \A i, j \in DOMAIN id_map : id_map[i] = id_map[j] => i = j
    /\ stage \in {"writing", "written"} => DOMAIN nodes \subseteq DOMAIN id_map

(* The nodes of which the new ids are not above that of i.                 *)
UpTo(i) ==
  {j \in DOMAIN nodes : /\ OnCurve(nodes[j])
                        /\ \/ Before(nodes[j], nodes[i])
                           \/ SamePoint(nodes[j], nodes[i]) /\ j <= i}

(* A node that is later on the curve has a greater id.                     *)
LEMMA LaterIdIsGreater ==
  ASSUME NodesMapped, NEW i \in DOMAIN nodes, NEW j \in DOMAIN nodes, OnCurve(nodes[j]),
         Before(nodes[i], nodes[j]) \/ (SamePoint(nodes[i], nodes[j]) /\ i < j)
  PROVE  NewId(i) # NewId(j)
<1>1. /\ \A k \in DOMAIN nodes : nodes[k].x_low \in Int /\ nodes[k].y_low \in Int
      /\ DOMAIN nodes = 1 .. Len(nodes) /\ Len(nodes) \in Nat
  BY DEF NodesMapped
<1>2. IsFiniteSet(UpTo(i)) /\ IsFiniteSet(UpTo(j))
  <2>1. IsFiniteSet(DOMAIN nodes)
    BY <1>1, FS_Interval
  <2>. QED
    BY <2>1, FS_Subset DEF UpTo
<1>3. j \in UpTo(j) /\ j \notin UpTo(i)
  BY <1>1 DEF UpTo, Before, SamePoint
<1>4. UpTo(i) \subseteq UpTo(j)
  BY <1>1 DEF UpTo, Before, SamePoint
<1>5. Cardinality(UpTo(i)) # Cardinality(UpTo(j))
  BY <1>2, <1>3, <1>4, FS_Subset
<1>. QED
  BY <1>5 DEF NewId, UpTo

(* No two nodes have the same id.                                          *)
LEMMA NewIdsApart ==
  ASSUME NodesMapped, NEW i \in DOMAIN nodes, NEW j \in DOMAIN nodes,
         OnCurve(nodes[i]), OnCurve(nodes[j]), NewId(i) = NewId(j)
  PROVE  i = j
<1>1. /\ nodes[i].x_low \in Int /\ nodes[i].y_low \in Int /\ i \in Nat
      /\ nodes[j].x_low \in Int /\ nodes[j].y_low \in Int /\ j \in Nat
  BY DEF NodesMapped
<1>2. \/ Before(nodes[i], nodes[j]) \/ Before(nodes[j], nodes[i])
      \/ SamePoint(nodes[i], nodes[j]) /\ SamePoint(nodes[j], nodes[i])
  BY <1>1 DEF Before, SamePoint
<1>3. i < j \/ j < i \/ i = j
  BY <1>1
<1>. QED
  BY <1>2, <1>3, LaterIdIsGreater

(* Nothing gives a node another id later.                                  *)
LEMMA NextIds == GraphInv /\ IdsApart /\ [Next]_vars => IdsApart'
<1> SUFFICES ASSUME GraphInv, IdsApart, [Next]_vars PROVE IdsApart'
  OBVIOUS
<1> DEFINE Late == {"counting", "serialize", "writing", "written"}
<1>1. CASE stage' \notin Late
  BY <1>1 DEF IdsApart
<1>2. CASE UNCHANGED <<nodes, id_map>> /\ stage \in Late /\ stage' \in {"counting", "serialize"}
  BY <1>2 DEF IdsApart
<1>3. CASE UNCHANGED <<nodes, id_map>> /\ stage \in {"writing", "written"}
  BY <1>3 DEF IdsApart
<1>4. CASE Assign
  <2>1. stage' \notin Late
    BY <1>4 DEF Assign, DirectionsNext, HandleDirectionConnections, CheckReasons, HandleEdgesToChannels,
            Decide, Reduce, CheckAssignments
  <2>. QED
    BY <1>1, <2>1
<1>5. CASE \E e \in left : ConnectTrack(e) \/ ConnectTracks(e) \/ ConnectPins(e)
  <2>1. stage' \notin Late
    BY <1>5 DEF ConnectTrack, ConnectTracks, ConnectPins
  <2>. QED
    BY <1>1, <2>1
<1>6. CASE MarkTrackLiveness \/ BuildChannels \/ VerifyChannels \/ FindConstantNetwork \/ AddSwitches
  <2>1. stage' \notin Late
    BY <1>6 DEF MarkTrackLiveness, BuildChannels, VerifyChannels, FindConstantNetwork, AddSwitches
  <2>. QED
    BY <1>1, <2>1
<1>7. CASE ImportGraphNodes \/ ImportTracks \/ AddSyntheticEdges
  <2>1. stage' \notin Late
    BY <1>7 DEF ImportGraphNodes, ImportTracks, AddSyntheticEdges
  <2>. QED
    BY <1>1, <2>1
<1>8. CASE CreateNodeRemap
  <2>1. /\ stage = "connected" /\ stage' = "counting" /\ nodes' = nodes
        /\ id_map' = [i \in {j \in DOMAIN nodes : OnCurve(nodes[j])} |-> NewId(i)]
    BY <1>8 DEF CreateNodeRemap
  <2>2. NodesMapped
    BY <2>1 DEF GraphInv, Imported
  <2>3. \A i, j \in DOMAIN id_map' : id_map'[i] = id_map'[j] => i = j
    BY <2>1, <2>2, NewIdsApart
  <2>. QED
    BY <2>1, <2>3 DEF IdsApart
<1>9. CASE GetNumberGraphEdges
  BY <1>2, <1>9 DEF GetNumberGraphEdges
<1>10. CASE WriteNodes
  <2>1. /\ stage = "serialize" /\ UNCHANGED <<nodes, id_map>>
        /\ stage' = IF \E i \in DOMAIN nodes : i \notin DOMAIN id_map THEN "raised" ELSE "writing"
    BY <1>10 DEF WriteNodes, vprgraph
  <2>. QED
    BY <1>1, <2>1 DEF IdsApart
<1>11. CASE WriteEdge \/ WriteFiles
  BY <1>3, <1>11 DEF WriteEdge, WriteFiles, vprgraph
<1>12. CASE UNCHANGED vars
  BY <1>12 DEF IdsApart, vars, pinvars, vprgraph
<1>. QED
  BY <1>4, <1>5, <1>6, <1>7, <1>8, <1>9, <1>10, <1>11, <1>12 DEF Next

-----------------------------------------------------------------------------
(* A row as it is sent, but for the features.                              *)
Bare(e) == [Between(Pair(e)) EXCEPT !.pip = e.pip, !.switch = Way(e)]

(* The rows before a place that get_number_graph_edges counts.             *)
CountedBefore(k) == {n \in DOMAIN graph_edge : n < k /\ Counted(n)}

(* By their places: an edge of VPR's graph as it is sent, a row as it is   *)
(* sent, its pair of ids, and whether it is kept among the pairs.          *)
OwnAt(r) == Between(edges[r])
BareAt(n) == Bare(graph_edge[n])
PairAt(n) == Pair(graph_edge[n])
Remembered(n) == Mapped(graph_edge[n]) /\ PinAndTrack(graph_edge[n])

(* What was yielded before the place row: each edge of VPR's graph, and    *)
(* the rows that are counted.                                              *)
Writing ==
  /\ row \in 1 .. Len(edges) + Len(graph_edge) + 1
  /\ written \in Seq(Range(written))
  /\ Len(written) = IF row <= Len(edges) THEN row - 1
                    ELSE Len(edges) + Cardinality(CountedBefore(row - Len(edges)))
  /\ nodes_set = {PairAt(n) : n \in {m \in DOMAIN graph_edge : m < row - Len(edges) /\ Remembered(m)}}
  /\ ToSet(Sent) = {OwnAt(r) : r \in {q \in DOMAIN edges : q < row}} \union
                   {BareAt(n) : n \in CountedBefore(row - Len(edges))}

(* The count is right, and the writer follows it.                          *)
WriteInv ==
  /\ stage \in {"serialize", "writing", "written"} =>
       num_edges = Len(edges) + Cardinality({n \in DOMAIN graph_edge : Counted(n)})
  /\ stage \notin {"writing", "written"} => row = 1 /\ written = <<>> /\ nodes_set = {}
  /\ stage \in {"writing", "written"} => Writing
  /\ stage = "written" => row > Len(edges) + Len(graph_edge)

(* The invariant of the import.                                            *)
ExportInv == RowsInv /\ GraphInv /\ IdsApart /\ WriteInv

-----------------------------------------------------------------------------
(* The switch of a row is in the table, and is that of its way.            *)
LEMMA SwitchOfRow ==
  ASSUME RowsInv, NEW i \in DOMAIN graph_edge
  PROVE  Way(graph_edge[i]) = graph_edge[i].switch /\ graph_edge[i].switch \in SwitchTable
<1> DEFINE e == graph_edge[i]
<1>1. IsShort(e) \/ IsSitePin(e) \/ \E p \in DOMAIN switch \ left : OfPip(e, p)
  BY DEF RowsInv, RowsOf
<1> HIDE DEF e
<1>2. CASE IsShort(e) \/ IsSitePin(e)
  BY <1>2 DEF IsShort, IsSitePin, Way, SwitchTable, e
<1>3. CASE \E p \in DOMAIN switch \ left : OfPip(e, p)
  <2>1. PICK p \in DOMAIN switch : OfPip(e, p)
    BY <1>3
  <2>2. (CHOOSE q \in e.pip : TRUE) = p /\ e.pip # {}
    BY <2>1 DEF OfPip
  <2>3. e.switch \in {switch[p].forward, switch[p].backward}
    BY <2>1 DEF OfPip
  <2>4. e.switch \in SwitchTable
    BY <2>3 DEF SwitchTable
  <2>5. Way(e) = e.switch
    BY <2>1, <2>2 DEF Way, OfPip
  <2>. QED
    BY <2>4, <2>5 DEF e
<1>. QED
  BY <1>1, <1>2, <1>3

(* The rows of a pin and a track are those of the pins and their wires.    *)
LEMMA SitePinRows ==
  ASSUME RowsInv, NodesMapped, NEW i \in DOMAIN graph_edge, Mapped(graph_edge[i])
  PROVE  /\ Pair(graph_edge[i]) \in (DOMAIN nodes) \X (DOMAIN nodes)
         /\ PinAndTrack(graph_edge[i]) <=> IsSitePin(graph_edge[i])
<1> DEFINE e == graph_edge[i]
<1>1. IsShort(e) \/ IsSitePin(e) \/ \E p \in DOMAIN switch \ left : OfPip(e, p)
  BY DEF RowsInv, RowsOf
<1>2. e.src \in DOMAIN node_mapping /\ e.dst \in DOMAIN node_mapping
  BY DEF Mapped
<1>3. \A g \in DOMAIN node_mapping : node_mapping[g] \in DOMAIN nodes /\ (IsPin(node_mapping[g]) <=> g[1] = "pin")
  BY DEF NodesMapped, IsPin, PinTypes, TrackTypes
<1> HIDE DEF e
<1>4. PinAndTrack(e) <=> ((e.src[1] = "pin" /\ e.dst[1] # "pin") \/ (e.src[1] # "pin" /\ e.dst[1] = "pin"))
  <2>1. /\ IsPin(Pair(e)[1]) <=> e.src[1] = "pin"
        /\ IsPin(Pair(e)[2]) <=> e.dst[1] = "pin"
    BY <1>2, <1>3 DEF Pair
  <2>2. PinAndTrack(e) <=> ~(IsPin(Pair(e)[1]) <=> IsPin(Pair(e)[2]))
    <3> DEFINE a == IsPin(Pair(e)[1])
               b == IsPin(Pair(e)[2])
    <3>1. a \in BOOLEAN /\ b \in BOOLEAN
      BY DEF IsPin
    <3>2. PinAndTrack(e) <=> a # b
      BY DEF PinAndTrack
    <3> HIDE DEF a, b
    <3>3. (a # b) <=> ~(a <=> b)
      BY <3>1
    <3>4. PinAndTrack(e) <=> ~(a <=> b)
      BY <3>2, <3>3
    <3>. QED
      BY <3>4 DEF a, b
  <2>. QED
    BY <2>1, <2>2
<1>5. Short # SitePin
  BY DEF Short, SitePin
<1>6. PinAndTrack(e) <=> IsSitePin(e)
  BY <1>1, <1>4, <1>5 DEF IsShort, IsSitePin, OfPip
<1>. QED
  BY <1>2, <1>3, <1>6 DEF Pair, e

(* Two rows that are sent alike are of a pin and its wire.                 *)
LEMMA BareApart ==
  ASSUME RowsInv, NodesMapped, IdsApart, stage \in {"writing", "written"},
         NEW i \in DOMAIN graph_edge, NEW j \in DOMAIN graph_edge, i # j,
         Mapped(graph_edge[i]), Mapped(graph_edge[j]), Bare(graph_edge[i]) = Bare(graph_edge[j])
  PROVE  PinAndTrack(graph_edge[i]) /\ Pair(graph_edge[i]) = Pair(graph_edge[j])
<1> DEFINE e == graph_edge[i]
           f == graph_edge[j]
<1>1. /\ Pair(e) \in (DOMAIN nodes) \X (DOMAIN nodes) /\ Pair(f) \in (DOMAIN nodes) \X (DOMAIN nodes)
      /\ PinAndTrack(e) <=> IsSitePin(e)
  BY SitePinRows
<1>2. Way(e) = e.switch /\ Way(f) = f.switch
  BY SwitchOfRow
<1>3. Apart(e, f) /\ (IsShort(e) \/ IsSitePin(e) \/ \E p \in DOMAIN switch \ left : OfPip(e, p))
  BY DEF RowsInv, RowsOf
<1>4. IsShort(f) \/ IsSitePin(f) \/ \E p \in DOMAIN switch \ left : OfPip(f, p)
  BY DEF RowsInv, RowsOf
<1>5. /\ e.src \in DOMAIN node_mapping /\ e.dst \in DOMAIN node_mapping
      /\ f.src \in DOMAIN node_mapping /\ f.dst \in DOMAIN node_mapping
  BY DEF Mapped
<1>6. Bare(e) = Bare(f)
  OBVIOUS
<1> HIDE DEF e, f
<1>7. /\ id_map[Pair(e)[1]] = id_map[Pair(f)[1]] /\ id_map[Pair(e)[2]] = id_map[Pair(f)[2]]
      /\ e.pip = f.pip /\ e.switch = f.switch
  BY <1>2, <1>6 DEF Bare, Between
<1>8. Pair(e)[1] = Pair(f)[1] /\ Pair(e)[2] = Pair(f)[2]
  BY <1>1, <1>7 DEF IdsApart
<1>9. Pair(e) = Pair(f)
  BY <1>8 DEF Pair
<1>10. IsSitePin(e)
  <2> SUFFICES ASSUME ~IsSitePin(e) PROVE FALSE
    OBVIOUS
  <2>1. e.pip = {} /\ f.pip = {} /\ (e.src # f.src \/ e.dst # f.dst)
    BY <1>3, <1>7 DEF Apart
  <2>2. IsShort(e)
    BY <1>3, <2>1 DEF OfPip
  <2>3. IsShort(f)
    BY <1>4, <1>7, <2>1, <2>2 DEF OfPip, IsShort, IsSitePin, Short, SitePin
  <2>4. node_mapping[e.src] = node_mapping[f.src] /\ node_mapping[e.dst] = node_mapping[f.dst]
    BY <1>8 DEF Pair
  <2>5. e.src = f.src /\ e.dst = f.dst
    BY <1>5, <2>2, <2>4 DEF NodesMapped, IsShort
  <2>. QED
    BY <2>1, <2>5
<1>. QED
  BY <1>1, <1>9, <1>10 DEF e, f

(* A row is not sent like an edge of VPR's graph.                          *)
LEMMA BareIsOfTheDatabase ==
  ASSUME RowsInv, NEW i \in DOMAIN graph_edge, NEW ids
  PROVE  Bare(graph_edge[i]) # Between(ids)
<1> DEFINE e == graph_edge[i]
<1>1. IsShort(e) \/ IsSitePin(e) \/ \E p \in DOMAIN switch \ left : OfPip(e, p)
  BY DEF RowsInv, RowsOf
<1>2. Way(e) = e.switch
  BY SwitchOfRow
<1> HIDE DEF e
<1>3. Bare(e).pip = e.pip /\ Bare(e).switch = e.switch
  BY <1>2 DEF Bare, Between
<1>4. Between(ids).pip = {} /\ Between(ids).switch = Delayless
  BY DEF Between
<1>5. Bare(e) # Between(ids)
  BY <1>1, <1>3, <1>4 DEF IsShort, IsSitePin, OfPip, Short, SitePin, Delayless
<1>. QED
  BY <1>5 DEF e

(* Two edges of VPR's graph are not sent alike.                            *)
LEMMA BetweenApart ==
  ASSUME EdgesListed, IdsApart, stage \in {"writing", "written"},
         NEW q \in DOMAIN edges, NEW r \in DOMAIN edges, Between(edges[q]) = Between(edges[r])
  PROVE  q = r
<1>1. edges[q] \in (DOMAIN nodes) \X (DOMAIN nodes) /\ edges[r] \in (DOMAIN nodes) \X (DOMAIN nodes)
  BY DEF EdgesListed, ToSet
<1>2. id_map[edges[q][1]] = id_map[edges[r][1]] /\ id_map[edges[q][2]] = id_map[edges[r][2]]
  BY DEF Between
<1>3. edges[q] = edges[r]
  BY <1>1, <1>2 DEF IdsApart
<1>. QED
  BY <1>3 DEF EdgesListed, Lists

(* An edge that is yielded is sent, without its features, after the rest.  *)
LEMMA SentAppended ==
  ASSUME written \in Seq(Range(written)), NEW x, written' = Append(written, x)
  PROVE  /\ Sent' = Append(Sent, [x EXCEPT !.features = {}])
         /\ ToSet(Sent)' = ToSet(Sent) \union {[x EXCEPT !.features = {}]}
         /\ written' \in Seq(Range(written')) /\ Len(written') = Len(written) + 1 /\ Len(written) \in Nat
<1> DEFINE y == [x EXCEPT !.features = {}]
           L == Len(written)
<1>1. /\ written' \in Seq(Range(written')) /\ L \in Nat /\ DOMAIN written = 1 .. L
      /\ DOMAIN written' = 1 .. L + 1 /\ Len(written') = L + 1
      /\ \A i \in DOMAIN written : written'[i] = written[i]
      /\ written'[L + 1] = x
  BY Appended
<1>2. DOMAIN Sent = 1 .. L /\ Sent \in [1 .. L -> Range(Sent)]
  BY <1>1 DEF Sent, Range
<1> HIDE DEF y, L
<1>3. Sent \in Seq(Range(Sent)) /\ Len(Sent) = L
  BY <1>1, <1>2
<1>4. /\ Append(Sent, y) \in Seq(Range(Append(Sent, y)))
      /\ DOMAIN Append(Sent, y) = 1 .. L + 1 /\ Len(Append(Sent, y)) = L + 1
      /\ \A i \in DOMAIN Sent : Append(Sent, y)[i] = Sent[i]
      /\ Append(Sent, y)[L + 1] = y
  BY <1>3, Appended
<1>5. /\ \A i \in 1 .. L : Sent'[i] = Sent[i]
      /\ Sent'[L + 1] = y
  <2>1. \A i \in 1 .. L + 1 : Sent'[i] = [written'[i] EXCEPT !.features = {}]
    BY <1>1 DEF Sent
  <2>2. \A i \in 1 .. L : Sent[i] = [written[i] EXCEPT !.features = {}]
    BY <1>1 DEF Sent
  <2>3. 1 .. L \subseteq 1 .. L + 1 /\ L + 1 \in 1 .. L + 1
    BY <1>1
  <2>4. \A i \in 1 .. L : Sent'[i] = Sent[i]
    <3> SUFFICES ASSUME NEW i \in 1 .. L PROVE Sent'[i] = Sent[i]
      OBVIOUS
    <3>1. written'[i] = written[i] /\ i \in 1 .. L + 1
      BY <1>1, <2>3
    <3>2. Sent'[i] = [written'[i] EXCEPT !.features = {}]
      BY <2>1, <3>1, Zenon
    <3>3. Sent[i] = [written[i] EXCEPT !.features = {}]
      BY <2>2, Zenon
    <3>. QED
      BY <3>1, <3>2, <3>3, Zenon
  <2>5. Sent'[L + 1] = [written'[L + 1] EXCEPT !.features = {}]
    BY <2>1, <2>3, Zenon
  <2>6. Sent'[L + 1] = y
    BY <1>1, <2>5, Zenon DEF y
  <2>. QED
    BY <2>4, <2>6
<1>6. DOMAIN Sent' = 1 .. L + 1 /\ Sent' = [i \in 1 .. L + 1 |-> Sent'[i]]
  BY <1>1 DEF Sent
<1>7. Append(Sent, y) = [i \in 1 .. L + 1 |-> Append(Sent, y)[i]]
  <2>1. ASSUME NEW S, NEW s \in Seq(S), Len(s) = L + 1
        PROVE  s = [i \in 1 .. L + 1 |-> s[i]]
    BY <2>1
  <2>. QED
    BY <1>4, <2>1
<1>8. \A i \in 1 .. L + 1 : i \in 1 .. L \/ i = L + 1
  BY <1>1
<1>9. \A i \in 1 .. L + 1 : Sent'[i] = Append(Sent, y)[i]
  BY <1>1, <1>2, <1>4, <1>5, <1>8
<1>10. Sent' = Append(Sent, y)
  BY <1>6, <1>7, <1>9
<1>11. ToSet(Sent)' = ToSet(Sent) \union {y}
  <2>1. L + 1 \in 1 .. L + 1 /\ 1 .. L \subseteq 1 .. L + 1 /\ L + 1 \notin 1 .. L
    BY <1>1
  <2>2. ToSet(Sent)' = {Sent'[i] : i \in 1 .. L + 1} /\ ToSet(Sent) = {Sent[i] : i \in 1 .. L}
    BY <1>2, <1>6 DEF ToSet
  <2>. QED
    BY <1>5, <1>8, <2>1, <2>2
<1>. QED
  BY <1>1, <1>10, <1>11 DEF y, L

-----------------------------------------------------------------------------
(* All the rows it counts.                                                 *)
AllCounted == {n \in DOMAIN graph_edge : Counted(n)}

(* The rows counted before a place grow by those that count.               *)
LEMMA CountedGrow ==
  ASSUME RowsInv
  PROVE  /\ Len(graph_edge) \in Nat /\ DOMAIN graph_edge = 1 .. Len(graph_edge)
         /\ IsFiniteSet(AllCounted) /\ Cardinality(AllCounted) \in Nat
         /\ \A k \in Int : k <= 1 => CountedBefore(k) = {} /\ Cardinality(CountedBefore(k)) = 0
         /\ CountedBefore(Len(graph_edge) + 1) = AllCounted
         /\ \A n \in DOMAIN graph_edge :
              /\ Cardinality(CountedBefore(n)) \in Nat
              /\ ~Counted(n) => CountedBefore(n + 1) = CountedBefore(n)
              /\ Counted(n) => /\ CountedBefore(n + 1) = CountedBefore(n) \union {n}
                               /\ Cardinality(CountedBefore(n + 1)) = Cardinality(CountedBefore(n)) + 1
                               /\ Cardinality(CountedBefore(n)) < Cardinality(AllCounted)
<1>1. Len(graph_edge) \in Nat /\ DOMAIN graph_edge = 1 .. Len(graph_edge)
  BY DEF RowsInv, RowsOf
<1>2. IsFiniteSet(DOMAIN graph_edge)
  BY <1>1, FS_Interval
<1>3. IsFiniteSet(AllCounted) /\ Cardinality(AllCounted) \in Nat
  BY <1>2, FS_Subset, FS_CardinalityType DEF AllCounted
<1>4. \A k \in Int : k <= 1 => CountedBefore(k) = {}
  BY <1>1 DEF CountedBefore
<1>5. CountedBefore(Len(graph_edge) + 1) = AllCounted
  BY <1>1 DEF CountedBefore, AllCounted
<1>6. ASSUME NEW n \in DOMAIN graph_edge
      PROVE  /\ Cardinality(CountedBefore(n)) \in Nat
             /\ ~Counted(n) => CountedBefore(n + 1) = CountedBefore(n)
             /\ Counted(n) => /\ CountedBefore(n + 1) = CountedBefore(n) \union {n}
                              /\ Cardinality(CountedBefore(n + 1)) = Cardinality(CountedBefore(n)) + 1
                              /\ Cardinality(CountedBefore(n)) < Cardinality(AllCounted)
  <2>1. n \in Int /\ \A m \in DOMAIN graph_edge : m \in Int
    BY <1>1
  <2>2. CountedBefore(n) \subseteq AllCounted /\ n \notin CountedBefore(n)
    BY <2>1 DEF CountedBefore, AllCounted
  <2>3. IsFiniteSet(CountedBefore(n)) /\ Cardinality(CountedBefore(n)) \in Nat
    BY <1>3, <2>2, FS_Subset, FS_CardinalityType
  <2>4. ~Counted(n) => CountedBefore(n + 1) = CountedBefore(n)
    BY <2>1 DEF CountedBefore
  <2>5. ASSUME Counted(n)
        PROVE  /\ CountedBefore(n + 1) = CountedBefore(n) \union {n}
               /\ Cardinality(CountedBefore(n + 1)) = Cardinality(CountedBefore(n)) + 1
               /\ Cardinality(CountedBefore(n)) < Cardinality(AllCounted)
    <3>1. CountedBefore(n + 1) = CountedBefore(n) \union {n}
      BY <2>1, <2>5 DEF CountedBefore
    <3>2. Cardinality(CountedBefore(n) \union {n}) = Cardinality(CountedBefore(n)) + 1
      BY <2>2, <2>3, FS_AddElement
    <3>3. n \in AllCounted
      BY <2>5 DEF AllCounted
    <3>4. Cardinality(CountedBefore(n)) < Cardinality(AllCounted)
      BY <1>3, <2>2, <2>3, <3>3, FS_Subset
    <3>. QED
      BY <3>1, <3>2, <3>4
  <2>. QED
    BY <2>3, <2>4, <2>5
<1>7. \A k \in Int : k <= 1 => Cardinality(CountedBefore(k)) = 0
  BY <1>4, FS_EmptySet
<1>. QED
  BY <1>1, <1>3, <1>4, <1>5, <1>6, <1>7

(* The two loops over the table agree on each row.                         *)
LEMMA SkippedIsNotCounted ==
  ASSUME RowsInv, Writing, NEW n \in DOMAIN graph_edge, n = row - Len(edges)
  PROVE  Skipped(graph_edge[n]) <=> ~Counted(n)
<1>1. DOMAIN graph_edge = 1 .. Len(graph_edge) /\ Len(graph_edge) \in Nat
  BY CountedGrow
<1>2. \A x : x \in nodes_set <=>
        \E m \in DOMAIN graph_edge : /\ m < n /\ Mapped(graph_edge[m]) /\ PinAndTrack(graph_edge[m])
                                    /\ x = Pair(graph_edge[m])
  BY DEF Writing, PairAt, Remembered
<1>3. \A m \in DOMAIN graph_edge : m < n <=> m \in 1 .. n - 1
  BY <1>1
<1>4. 1 .. n - 1 \subseteq DOMAIN graph_edge
  BY <1>1
<1>5. \A m \in DOMAIN graph_edge :
        Pair(graph_edge[m]) = Pair(graph_edge[n]) =>
          (PinAndTrack(graph_edge[m]) <=> PinAndTrack(graph_edge[n]))
  BY Zenon DEF PinAndTrack, IsPin
<1>. QED
  BY <1>2, <1>3, <1>4, <1>5 DEF Skipped, Counted

(* A step that yields an edge, or skips a row, raises nothing.             *)
LEMMA WriteStep ==
  ASSUME ExportInv, WriteEdge
  PROVE  /\ stage = "writing" /\ stage' = "writing"
         /\ row <= Len(edges) + Len(graph_edge) /\ row' = row + 1
         /\ UNCHANGED <<directions, database, vprgraph, node_map>>
         /\ \/ /\ row <= Len(edges) /\ row \in DOMAIN edges
               /\ written' = Append(written, Between(edges[row])) /\ UNCHANGED nodes_set
            \/ /\ row > Len(edges) /\ row - Len(edges) \in DOMAIN graph_edge
               /\ ~Counted(row - Len(edges)) /\ Skipped(graph_edge[row - Len(edges)])
               /\ UNCHANGED <<written, nodes_set>>
            \/ /\ row > Len(edges) /\ row - Len(edges) \in DOMAIN graph_edge
               /\ Counted(row - Len(edges))
               /\ written' = Append(written, New(graph_edge[row - Len(edges)]))
               /\ nodes_set' = nodes_set \union
                    (IF PinAndTrack(graph_edge[row - Len(edges)])
                     THEN {Pair(graph_edge[row - Len(edges)])} ELSE {})
<1>1. /\ stage = "writing" /\ row' = row + 1 /\ row <= Len(edges) + Len(graph_edge)
      /\ UNCHANGED <<directions, database, vprgraph, node_map>>
  BY DEF WriteEdge
<1>2. RowsInv /\ Writing /\ NodesMapped /\ EdgesListed /\ SwitchTable \subseteq graph_switches
  BY <1>1 DEF ExportInv, WriteInv, GraphInv, Imported
<1>3. /\ Len(graph_edge) \in Nat /\ DOMAIN graph_edge = 1 .. Len(graph_edge)
      /\ Cardinality(AllCounted) \in Nat
      /\ \A n \in DOMAIN graph_edge :
           Counted(n) => /\ Cardinality(CountedBefore(n)) \in Nat
                         /\ Cardinality(CountedBefore(n)) < Cardinality(AllCounted)
  BY <1>2, CountedGrow
<1>4. Len(edges) \in Nat /\ DOMAIN edges = 1 .. Len(edges)
  BY <1>2 DEF EdgesListed, Lists
<1>5. row \in Nat /\ row >= 1
  BY <1>2, <1>3, <1>4 DEF Writing
<1>6. num_edges = Len(edges) + Cardinality(AllCounted)
  BY <1>1 DEF ExportInv, WriteInv, AllCounted
<1>7. Len(written) = IF row <= Len(edges) THEN row - 1
                     ELSE Len(edges) + Cardinality(CountedBefore(row - Len(edges)))
  BY <1>2 DEF Writing
<1>8. CASE row <= Len(edges)
  <2>1. Len(written) # num_edges
    BY <1>3, <1>4, <1>5, <1>6, <1>7, <1>8
  <2>2. Yielded(Between(edges[row])) /\ UNCHANGED nodes_set
    BY <1>4, <1>5, <1>8 DEF WriteEdge
  <2>. QED
    BY <1>1, <1>4, <1>5, <1>8, <2>1, <2>2 DEF Yielded
<1>9. CASE row > Len(edges)
  <2> DEFINE n == row - Len(edges)
  <2>1. n \in DOMAIN graph_edge
    BY <1>1, <1>3, <1>4, <1>5, <1>9
  <2>2. Skipped(graph_edge[n]) <=> ~Counted(n)
    BY <1>2, <2>1, SkippedIsNotCounted
  <2>3. HasSwitch(graph_edge[n])
    BY <1>2, <2>1, SwitchOfRow DEF HasSwitch
  <2>4. Counted(n) => Len(written) # num_edges
    <3>1. Len(written) = Len(edges) + Cardinality(CountedBefore(n))
      BY <1>4, <1>5, <1>7, <1>9
    <3> HIDE DEF n
    <3>. QED
      BY <1>3, <1>4, <1>6, <2>1, <3>1
  <2>5. IF Skipped(graph_edge[n])
        THEN UNCHANGED <<written, nodes_set, stage>>
        ELSE IF ~HasSwitch(graph_edge[n])
        THEN stage' = "raised" /\ UNCHANGED <<written, nodes_set>>
        ELSE /\ Yielded(New(graph_edge[n]))
             /\ nodes_set' = nodes_set \union (IF PinAndTrack(graph_edge[n]) THEN {Pair(graph_edge[n])} ELSE {})
    BY <1>4, <1>5, <1>9 DEF WriteEdge
  <2>6. CASE Counted(n)
    <3>1. Yielded(New(graph_edge[n]))
      BY <2>2, <2>3, <2>5, <2>6
    <3>2. written' = Append(written, New(graph_edge[n])) /\ UNCHANGED stage
      BY <2>4, <2>6, <3>1 DEF Yielded
    <3>. QED
      BY <1>1, <1>9, <2>1, <2>2, <2>3, <2>5, <2>6, <3>2
  <2>7. CASE ~Counted(n)
    BY <1>1, <1>9, <2>1, <2>2, <2>5, <2>7
  <2>. QED
    BY <2>6, <2>7
<1>. QED
  BY <1>4, <1>5, <1>8, <1>9

(* A row without its features is as it is wanted.                          *)
LEMMA Stripped ==
  ASSUME RowsInv
  PROVE  /\ \A ids : [Between(ids) EXCEPT !.features = {}] = Between(ids)
         /\ \A n \in DOMAIN graph_edge : [New(graph_edge[n]) EXCEPT !.features = {}] = Bare(graph_edge[n])
<1>1. \A ids : [Between(ids) EXCEPT !.features = {}] = Between(ids)
  BY DEF Between
<1>2. ASSUME NEW n \in DOMAIN graph_edge
      PROVE  [New(graph_edge[n]) EXCEPT !.features = {}] = Bare(graph_edge[n])
  <2> DEFINE e == graph_edge[n]
             b == Between(Pair(e))
             fs == UNION {CheckFeature(PipName(p, e.backward)) : p \in e.pip}
             As(x) == [src |-> id_map[Pair(e)[1]], dst |-> id_map[Pair(e)[2]], pip |-> e.pip,
                       switch |-> e.switch, features |-> x]
  <2>1. Way(e) = e.switch
    BY SwitchOfRow
  <2>2. New(e) = [b EXCEPT !.pip = e.pip, !.switch = e.switch, !.features = fs]
    BY Zenon DEF New
  <2>3. Bare(e) = [b EXCEPT !.pip = e.pip, !.switch = e.switch]
    BY <2>1, Zenon DEF Bare
  <2> HIDE DEF fs, e
  <2>4. New(e) = As(fs) /\ Bare(e) = As({})
    BY <2>2, <2>3 DEF Between
  <2>. QED
    BY <2>4 DEF e
<1>. QED
  BY <1>1, <1>2

(* Nothing that is to be sent changes while edges are written.             *)
LEMMA SameToSend ==
  ASSUME UNCHANGED <<switch, graph_edge, nodes, edges, node_mapping, id_map>>
  PROVE  /\ \A n : /\ Counted(n)' <=> Counted(n)
                   /\ Remembered(n)' <=> Remembered(n)
                   /\ PairAt(n)' = PairAt(n) /\ BareAt(n)' = BareAt(n) /\ OwnAt(n)' = OwnAt(n)
         /\ Len(edges') = Len(edges) /\ Len(graph_edge') = Len(graph_edge)
<1>1. \A n : PairAt(n)' = PairAt(n) /\ BareAt(n)' = BareAt(n) /\ OwnAt(n)' = OwnAt(n)
  BY DEF PairAt, BareAt, OwnAt, Bare, Between, Pair, Way
<1>2. \A n : Remembered(n)' <=> Remembered(n)
  BY Zenon DEF Remembered, Mapped, PinAndTrack, Pair, IsPin
<1>3. \A n : Counted(n)' <=> Counted(n)
  BY Zenon DEF Counted, Mapped, PinAndTrack, Pair, IsPin
<1>. QED
  BY <1>1, <1>2, <1>3

(* A step of the writer yields what is counted.                            *)
LEMMA WriteEdgeWriting ==
  ASSUME ExportInv, WriteEdge
  PROVE  Writing'
<1> DEFINE n == row - Len(edges)
<1>1. /\ stage = "writing" /\ row <= Len(edges) + Len(graph_edge) /\ row' = row + 1
      /\ UNCHANGED <<directions, database, vprgraph>>
  BY WriteStep
<1>2. RowsInv /\ Writing /\ EdgesListed
  BY <1>1 DEF ExportInv, WriteInv, GraphInv, Imported
<1>3. UNCHANGED <<switch, graph_edge, nodes, edges, node_mapping, id_map>>
  BY <1>1 DEF directions, rest, database, vprgraph
<1>4. Len(edges) \in Nat /\ DOMAIN edges = 1 .. Len(edges)
  BY <1>2 DEF EdgesListed, Lists
<1>5. Len(graph_edge) \in Nat /\ DOMAIN graph_edge = 1 .. Len(graph_edge)
  BY <1>2, CountedGrow
<1>6. row \in Nat /\ row >= 1 /\ row' \in 1 .. Len(edges) + Len(graph_edge) + 1
  BY <1>1, <1>2, <1>4, <1>5 DEF Writing
<1>7. n \in Int /\ row' - Len(edges) = n + 1
  BY <1>1, <1>4, <1>6
<1>8. /\ written \in Seq(Range(written))
      /\ Len(written) = IF row <= Len(edges) THEN row - 1 ELSE Len(edges) + Cardinality(CountedBefore(n))
      /\ nodes_set = {Pair(graph_edge[k]) : k \in {m \in DOMAIN graph_edge :
                        m < n /\ Mapped(graph_edge[m]) /\ PinAndTrack(graph_edge[m])}}
      /\ ToSet(Sent) = {Between(edges[r]) : r \in {q \in DOMAIN edges : q < row}} \union
                       {Bare(graph_edge[k]) : k \in CountedBefore(n)}
  BY <1>2 DEF Writing, PairAt, Remembered, OwnAt, BareAt
<1>9. (CountedBefore(row - Len(edges)))' = CountedBefore(n + 1)
  BY <1>1, <1>3, <1>7, SameToSend DEF CountedBefore
<1> DEFINE Goal(w, l, ps, sent) ==
             /\ w \in Seq(Range(w))
             /\ l = IF row + 1 <= Len(edges) THEN row ELSE Len(edges) + Cardinality(CountedBefore(n + 1))
             /\ ps = {Pair(graph_edge[k]) : k \in {m \in DOMAIN graph_edge :
                        m < n + 1 /\ Mapped(graph_edge[m]) /\ PinAndTrack(graph_edge[m])}}
             /\ sent = {Between(edges[r]) : r \in {q \in DOMAIN edges : q < row + 1}} \union
                       {Bare(graph_edge[k]) : k \in CountedBefore(n + 1)}
<1>10. Goal(written', Len(written'), nodes_set', ToSet(Sent)')
  <2>1. CASE row <= Len(edges) /\ row \in DOMAIN edges
             /\ written' = Append(written, Between(edges[row])) /\ UNCHANGED nodes_set
    <3>1. /\ ToSet(Sent)' = ToSet(Sent) \union {Between(edges[row])}
          /\ written' \in Seq(Range(written')) /\ Len(written') = Len(written) + 1 /\ Len(written) \in Nat
      BY <1>2, <1>8, <2>1, SentAppended, Stripped
    <3>2. n <= 0 /\ n + 1 <= 1
      BY <1>4, <1>6, <2>1
    <3>3. CountedBefore(n) = {} /\ CountedBefore(n + 1) = {} /\ Cardinality(CountedBefore(n + 1)) = 0
      BY <1>2, <1>7, <3>2, CountedGrow
    <3>4. \A m \in DOMAIN graph_edge : ~(m < n) /\ ~(m < n + 1)
      BY <1>5, <1>7, <3>2
    <3>5. {q \in DOMAIN edges : q < row + 1} = {q \in DOMAIN edges : q < row} \union {row}
      BY <1>4, <1>6, <2>1
    <3>6. Len(written') = IF row + 1 <= Len(edges) THEN row ELSE Len(edges) + Cardinality(CountedBefore(n + 1))
      <4>1. Len(written) = row - 1
        BY <1>8, <2>1
      <4>2. row + 1 <= Len(edges) \/ row = Len(edges)
        <5>1. \A a, b \in Nat : a <= b => a + 1 <= b \/ a = b
          OBVIOUS
        <5>. QED
          BY <1>4, <1>6, <2>1, <5>1
      <4>3. Len(written') = row
        BY <1>6, <3>1, <4>1
      <4>4. ~(Len(edges) + 1 <= Len(edges)) /\ Len(edges) + 0 = Len(edges)
        BY <1>4
      <4> HIDE DEF n
      <4>5. CASE row + 1 <= Len(edges)
        BY <4>3, <4>5
      <4>6. CASE row = Len(edges)
        BY <3>3, <4>3, <4>4, <4>6
      <4>. QED
        BY <4>2, <4>5, <4>6
    <3> HIDE DEF n
    <3>7. ToSet(Sent)' = {Between(edges[r]) : r \in {q \in DOMAIN edges : q < row + 1}} \union
                         {Bare(graph_edge[k]) : k \in CountedBefore(n + 1)}
      BY <1>8, <3>1, <3>3, <3>5
    <3>. QED
      BY <1>8, <2>1, <3>1, <3>4, <3>6, <3>7
  <2>2. CASE row > Len(edges) /\ n \in DOMAIN graph_edge
    <3> DEFINE e == graph_edge[n]
    <3>1. {q \in DOMAIN edges : q < row + 1} = {q \in DOMAIN edges : q < row}
      BY <1>4, <1>6, <2>2
    <3>2. {m \in DOMAIN graph_edge : m < n + 1 /\ Mapped(graph_edge[m]) /\ PinAndTrack(graph_edge[m])}
            = {m \in DOMAIN graph_edge : m < n /\ Mapped(graph_edge[m]) /\ PinAndTrack(graph_edge[m])}
              \union {m \in {n} : Mapped(e) /\ PinAndTrack(e)}
      <4> HIDE DEF n
      <4>. QED
        BY <1>5, <1>7, <2>2
    <3>3. ~(row + 1 <= Len(edges)) /\ ~(row <= Len(edges))
      BY <1>4, <1>6, <2>2
    <3>4. CASE ~Counted(n) /\ Skipped(e) /\ UNCHANGED <<written, nodes_set>>
      <4>1. CountedBefore(n + 1) = CountedBefore(n)
        BY <1>2, <2>2, <3>4, CountedGrow
      <4>2. Sent' = Sent
        BY <3>4 DEF Sent
      <4>3. Mapped(e) /\ PinAndTrack(e) => Pair(e) \in nodes_set
        BY <3>4 DEF Skipped
      <4> HIDE DEF n, e
      <4>4. nodes_set = {Pair(graph_edge[k]) : k \in {m \in DOMAIN graph_edge :
                          m < n + 1 /\ Mapped(graph_edge[m]) /\ PinAndTrack(graph_edge[m])}}
        BY <1>8, <3>2, <4>3 DEF e
      <4>5. ToSet(Sent)' = ToSet(Sent)
        BY <4>2 DEF ToSet
      <4>. QED
        BY <1>8, <3>1, <3>3, <3>4, <4>1, <4>4, <4>5
    <3>5. CASE /\ Counted(n) /\ written' = Append(written, New(e))
               /\ nodes_set' = nodes_set \union (IF PinAndTrack(e) THEN {Pair(e)} ELSE {})
      <4>1. /\ ToSet(Sent)' = ToSet(Sent) \union {Bare(e)}
            /\ written' \in Seq(Range(written')) /\ Len(written') = Len(written) + 1 /\ Len(written) \in Nat
        BY <1>2, <1>8, <2>2, <3>5, SentAppended, Stripped
      <4>2. /\ CountedBefore(n + 1) = CountedBefore(n) \union {n}
            /\ Cardinality(CountedBefore(n + 1)) = Cardinality(CountedBefore(n)) + 1
            /\ Cardinality(CountedBefore(n)) \in Nat
        BY <1>2, <2>2, <3>5, CountedGrow
      <4>3. Mapped(e)
        BY <3>5 DEF Counted
      <4> HIDE DEF n
      <4>4. nodes_set' = {Pair(graph_edge[k]) : k \in {m \in DOMAIN graph_edge :
                          m < n + 1 /\ Mapped(graph_edge[m]) /\ PinAndTrack(graph_edge[m])}}
        <5>1. nodes_set' = nodes_set \union {Pair(graph_edge[k]) : k \in {m \in {n} : Mapped(e) /\ PinAndTrack(e)}}
          BY <3>5, <4>3
        <5> HIDE DEF e
        <5>. QED
          BY <1>8, <3>2, <5>1
      <4>5. ToSet(Sent)' = {Between(edges[r]) : r \in {q \in DOMAIN edges : q < row + 1}} \union
                           {Bare(graph_edge[k]) : k \in CountedBefore(n + 1)}
        BY <1>8, <3>1, <4>1, <4>2
      <4>6. Len(written') = Len(edges) + Cardinality(CountedBefore(n + 1))
        BY <1>4, <1>8, <3>3, <4>1, <4>2
      <4>. QED
        BY <3>3, <4>1, <4>4, <4>5, <4>6
    <3>. QED
      BY <2>2, <3>4, <3>5, WriteStep
  <2>. QED
    BY <2>1, <2>2, WriteStep
<1>11. nodes_set' = {PairAt(k) : k \in {m \in DOMAIN graph_edge : m < n + 1 /\ Remembered(m)}}
  BY <1>10 DEF PairAt, Remembered
<1>12. ToSet(Sent)' = {OwnAt(r) : r \in {q \in DOMAIN edges : q < row + 1}} \union
                      {BareAt(k) : k \in CountedBefore(n + 1)}
  BY <1>10 DEF OwnAt, BareAt
<1>13. /\ nodes_set' = {PairAt(k)' : k \in {m \in DOMAIN graph_edge' : m < row' - Len(edges') /\ Remembered(m)'}}
       /\ ToSet(Sent)' = {OwnAt(r)' : r \in {q \in DOMAIN edges' : q < row'}} \union
                         {BareAt(k)' : k \in (CountedBefore(row - Len(edges)))'}
  <2>1. /\ {m \in DOMAIN graph_edge' : m < row' - Len(edges') /\ Remembered(m)'}
             = {m \in DOMAIN graph_edge : m < n + 1 /\ Remembered(m)}
        /\ {q \in DOMAIN edges' : q < row'} = {q \in DOMAIN edges : q < row + 1}
    BY <1>1, <1>3, <1>7, SameToSend
  <2>. QED
    BY <1>3, <1>9, <1>11, <1>12, <2>1, SameToSend
<1>14. Len(written') = IF row' <= Len(edges') THEN row' - 1
                    ELSE Len(edges') + Cardinality((CountedBefore(row - Len(edges)))')
  <2>1. row' - 1 = row
    BY <1>1, <1>6
  <2>. QED
    BY <1>1, <1>3, <1>9, <1>10, <2>1
<1>. QED
  BY <1>3, <1>6, <1>10, <1>13, <1>14 DEF Writing

(* What was yielded stays, if nothing of it changes.                       *)
LEMMA SameWriting ==
  ASSUME Writing, UNCHANGED <<switch, graph_edge, nodes, edges, node_mapping, id_map, row, nodes_set, written>>
  PROVE  Writing'
<1>1. /\ row' \in 1 .. Len(edges') + Len(graph_edge') + 1
      /\ written' \in Seq(Range(written'))
  BY DEF Writing
<1>2. (CountedBefore(row - Len(edges)))' = CountedBefore(row - Len(edges))
  BY SameToSend DEF CountedBefore
<1>3. Len(written') = IF row' <= Len(edges') THEN row' - 1
                      ELSE Len(edges') + Cardinality((CountedBefore(row - Len(edges)))')
  BY <1>2 DEF Writing
<1>4. /\ {m \in DOMAIN graph_edge' : m < row' - Len(edges') /\ Remembered(m)'}
           = {m \in DOMAIN graph_edge : m < row - Len(edges) /\ Remembered(m)}
      /\ {q \in DOMAIN edges' : q < row'} = {q \in DOMAIN edges : q < row}
  BY SameToSend
<1>5. ToSet(Sent)' = ToSet(Sent)
  BY DEF Sent, ToSet
<1>6. nodes_set = {PairAt(n) : n \in {m \in DOMAIN graph_edge : m < row - Len(edges) /\ Remembered(m)}}
  BY DEF Writing
<1>7. ToSet(Sent) = {OwnAt(r) : r \in {q \in DOMAIN edges : q < row}} \union
                    {BareAt(n) : n \in CountedBefore(row - Len(edges))}
  BY DEF Writing
<1>8. nodes_set' = {PairAt(n)' : n \in {m \in DOMAIN graph_edge' : m < row' - Len(edges') /\ Remembered(m)'}}
  BY <1>4, <1>6, SameToSend
<1>9. ToSet(Sent)' = {OwnAt(r)' : r \in {q \in DOMAIN edges' : q < row'}} \union
                     {BareAt(n)' : n \in (CountedBefore(row - Len(edges)))'}
  BY <1>2, <1>4, <1>5, <1>7, SameToSend
<1>. QED
  BY <1>1, <1>3, <1>8, <1>9 DEF Writing

(* Before the first edge, and after the last.                              *)
LEMMA WritingBegins ==
  ASSUME RowsInv, EdgesListed, row = 1, written = <<>>, nodes_set = {}
  PROVE  Writing
<1>1. Len(edges) \in Nat /\ DOMAIN edges = 1 .. Len(edges)
  BY DEF EdgesListed, Lists
<1>2. Len(graph_edge) \in Nat /\ DOMAIN graph_edge = 1 .. Len(graph_edge)
  BY CountedGrow
<1>3. /\ row - Len(edges) \in Int /\ row - Len(edges) <= 1
      /\ row \in 1 .. Len(edges) + Len(graph_edge) + 1
  BY <1>1, <1>2
<1>4. CountedBefore(row - Len(edges)) = {} /\ Cardinality(CountedBefore(row - Len(edges))) = 0
  BY <1>3, CountedGrow
<1>5. Len(written) = 0 /\ written \in Seq(Range(written)) /\ DOMAIN written = {}
  <2>1. \A S : <<>> \in Seq(S) /\ Len(<<>>) = 0
    BY EmptySeq
  <2>2. DOMAIN written = 1 .. 0
    BY <2>1
  <2>. QED
    BY <2>1, <2>2
<1>6. ToSet(Sent) = {}
  BY <1>5 DEF ToSet, Sent
<1>7. /\ {m \in DOMAIN graph_edge : m < row - Len(edges) /\ Remembered(m)} = {}
      /\ {q \in DOMAIN edges : q < row} = {}
  BY <1>1, <1>2, <1>3
<1>8. Len(written) = IF row <= Len(edges) THEN row - 1
                    ELSE Len(edges) + Cardinality(CountedBefore(row - Len(edges)))
  <2>1. CASE row <= Len(edges)
    BY <1>5, <2>1
  <2>2. CASE ~(row <= Len(edges))
    <3>1. Len(edges) = 0
      BY <1>1, <2>2
    <3>. QED
      BY <1>4, <1>5, <2>2, <3>1
  <2>. QED
    BY <2>1, <2>2
<1>. QED
  BY <1>3, <1>4, <1>5, <1>6, <1>7, <1>8 DEF Writing

(* After the last row, as many edges were yielded as were counted.         *)
LEMMA WritingEnds ==
  ASSUME RowsInv, EdgesListed, Writing, row > Len(edges) + Len(graph_edge)
  PROVE  /\ Len(written) = Len(edges) + Cardinality(AllCounted)
         /\ {q \in DOMAIN edges : q < row} = DOMAIN edges
         /\ CountedBefore(row - Len(edges)) = AllCounted
<1>1. Len(edges) \in Nat /\ DOMAIN edges = 1 .. Len(edges)
  BY DEF EdgesListed, Lists
<1>2. /\ Len(graph_edge) \in Nat /\ DOMAIN graph_edge = 1 .. Len(graph_edge)
      /\ CountedBefore(Len(graph_edge) + 1) = AllCounted
  BY CountedGrow
<1>3. row \in 1 .. Len(edges) + Len(graph_edge) + 1
  BY DEF Writing
<1>4. row - Len(edges) = Len(graph_edge) + 1 /\ ~(row <= Len(edges))
  BY <1>1, <1>2, <1>3
<1>5. {q \in DOMAIN edges : q < row} = DOMAIN edges
  BY <1>1, <1>3, <1>4
<1>6. Len(written) = Len(edges) + Cardinality(CountedBefore(row - Len(edges)))
  BY <1>4 DEF Writing
<1>. QED
  BY <1>2, <1>4, <1>5, <1>6

(* Every step keeps the two loops together.                                *)
LEMMA NextWrite == ExportInv /\ [Next]_vars => WriteInv'
<1> SUFFICES ASSUME ExportInv, [Next]_vars PROVE WriteInv'
  OBVIOUS
<1> DEFINE Late == {"serialize", "writing", "written"}
<1>1. RowsInv /\ GraphInv /\ WriteInv
  BY DEF ExportInv
<1>2. CASE stage \notin {"writing", "written"} /\ stage' \notin Late /\ UNCHANGED <<row, written, nodes_set>>
  BY <1>1, <1>2 DEF WriteInv
<1>3. CASE Assign
  <2>1. stage \notin {"writing", "written"} /\ stage' \notin Late
    BY <1>3 DEF Assign, DirectionsNext, HandleDirectionConnections, CheckReasons, HandleEdgesToChannels,
            Decide, Reduce, CheckAssignments
  <2>. QED
    BY <1>2, <1>3, <2>1 DEF Assign, writer
<1>4. CASE \E e \in left : ConnectTrack(e) \/ ConnectTracks(e) \/ ConnectPins(e)
  <2>1. stage \notin {"writing", "written"} /\ stage' \notin Late
    BY <1>4 DEF ConnectTrack, ConnectTracks, ConnectPins
  <2>2. UNCHANGED <<row, written, nodes_set>>
    BY <1>4 DEF ConnectTrack, ConnectTracks, ConnectPins, writer
  <2>. QED
    BY <1>2, <2>1, <2>2
<1>5. CASE MarkTrackLiveness \/ BuildChannels \/ VerifyChannels \/ FindConstantNetwork \/ AddSwitches
  <2>1. stage \notin {"writing", "written"} /\ stage' \notin Late
    BY <1>5 DEF MarkTrackLiveness, BuildChannels, VerifyChannels, FindConstantNetwork, AddSwitches
  <2>2. UNCHANGED <<row, written, nodes_set>>
    BY <1>5 DEF MarkTrackLiveness, BuildChannels, VerifyChannels, FindConstantNetwork, AddSwitches, writer
  <2>. QED
    BY <1>2, <2>1, <2>2
<1>6. CASE ImportGraphNodes \/ ImportTracks \/ AddSyntheticEdges \/ CreateNodeRemap
  <2>1. stage \notin {"writing", "written"} /\ stage' \notin Late
    BY <1>6 DEF ImportGraphNodes, ImportTracks, AddSyntheticEdges, CreateNodeRemap
  <2>2. UNCHANGED <<row, written, nodes_set>>
    BY <1>6 DEF ImportGraphNodes, ImportTracks, AddSyntheticEdges, CreateNodeRemap, writer
  <2>. QED
    BY <1>2, <2>1, <2>2
<1>7. CASE GetNumberGraphEdges
  <2>1. /\ stage = "counting" /\ stage' = "serialize"
        /\ num_edges' = Len(edges) + Cardinality(AllCounted)
        /\ UNCHANGED <<switch, graph_edge, nodes, edges, node_mapping, id_map, row, written, nodes_set>>
    BY <1>7 DEF GetNumberGraphEdges, AllCounted, directions, rest, database, writer
  <2>2. {n \in DOMAIN graph_edge' : Counted(n)'} = AllCounted
    BY <2>1, SameToSend DEF AllCounted
  <2>. QED
    BY <1>1, <2>1, <2>2 DEF WriteInv
<1>8. CASE WriteNodes \/ WriteEdge \/ WriteFiles \/ UNCHANGED vars
  <2>1. UNCHANGED <<switch, graph_edge, nodes, edges, node_mapping, id_map, num_edges>>
    BY <1>8 DEF WriteNodes, WriteEdge, WriteFiles, vars, directions, rest, database, vprgraph
  <2>2. {n \in DOMAIN graph_edge' : Counted(n)'} = AllCounted
    BY <2>1, SameToSend DEF AllCounted
  <2>3. stage \in Late => num_edges' = Len(edges') + Cardinality({n \in DOMAIN graph_edge' : Counted(n)'})
    BY <1>1, <2>1, <2>2 DEF WriteInv, AllCounted
  <2>4. CASE WriteNodes
    <3>1. stage = "serialize" /\ stage' \in {"raised", "writing"} /\ UNCHANGED <<row, written, nodes_set>>
      BY <2>4 DEF WriteNodes, writer
    <3>2. EdgesListed /\ row = 1 /\ written = <<>> /\ nodes_set = {}
      BY <1>1, <3>1 DEF GraphInv, WriteInv, Imported
    <3>3. Writing'
      BY <1>1, <2>1, <3>1, <3>2, WritingBegins, SameWriting
    <3>. QED
      BY <2>3, <3>1, <3>2, <3>3 DEF WriteInv
  <2>5. CASE WriteEdge
    <3>1. stage = "writing" /\ stage' = "writing" /\ Writing'
      BY <2>5, WriteStep, WriteEdgeWriting
    <3>. QED
      BY <2>3, <3>1 DEF WriteInv
  <2>6. CASE WriteFiles
    <3>1. /\ stage = "writing" /\ row > Len(edges) + Len(graph_edge)
          /\ UNCHANGED <<row, written, nodes_set>>
      BY <2>6 DEF WriteFiles
    <3>2. EdgesListed /\ Writing /\ num_edges = Len(edges) + Cardinality(AllCounted)
      BY <1>1, <3>1 DEF GraphInv, WriteInv, Imported, AllCounted
    <3>3. Len(written) = num_edges
      BY <1>1, <3>1, <3>2, WritingEnds
    <3>4. stage' = "written"
      BY <2>6, <3>3 DEF WriteFiles
    <3>5. Writing' /\ row' > Len(edges') + Len(graph_edge')
      BY <2>1, <3>1, <3>2, SameWriting
    <3>. QED
      BY <2>3, <3>1, <3>4, <3>5 DEF WriteInv
  <2>7. CASE UNCHANGED vars
    <3>1. UNCHANGED <<stage, row, written, nodes_set>>
      BY <2>7 DEF vars, pinvars, writer
    <3>2. Writing => Writing'
      BY <2>1, <3>1, SameWriting
    <3>. QED
      BY <1>1, <2>1, <2>3, <3>1, <3>2 DEF WriteInv
  <2>. QED
    BY <1>8, <2>4, <2>5, <2>6, <2>7
<1>. QED
  BY <1>3, <1>4, <1>5, <1>6, <1>7, <1>8 DEF Next

(* The parts of the invariant hold at first, and are kept.                 *)
LEMMA InitExport == Init => ExportInv
<1> SUFFICES ASSUME Init PROVE ExportInv
  OBVIOUS
<1>1. stage \notin {"switches", "pins", "counting", "serialize", "writing", "written"} \union Imported
  BY DEF Init, DirectionsInit, Imported
<1>2. row = 1 /\ written = <<>> /\ nodes_set = {}
  BY DEF Init
<1>3. RowsInv
  BY InitRows
<1>4. GraphInv
  BY <1>1 DEF GraphInv, Imported
<1>5. IdsApart
  BY <1>1 DEF IdsApart
<1>6. WriteInv
  BY <1>1, <1>2 DEF WriteInv
<1>. QED
  BY <1>3, <1>4, <1>5, <1>6 DEF ExportInv

(* ExportInv is inductive.                                                 *)
LEMMA NextExport == ExportInv /\ [Next]_vars => ExportInv'
BY NextRows, NextGraph, NextIds, NextWrite DEF ExportInv

(* The graph, its rows and its file agree in every state.                  *)
LEMMA ExportAlways == Spec => []ExportInv
BY InitExport, NextExport, PTL DEF Spec

-----------------------------------------------------------------------------
(* A row that is mapped is sent like the first that speaks for its edge.   *)
LEMMA CountedForAll ==
  ASSUME RowsInv, NodesMapped, NEW n \in DOMAIN graph_edge, Mapped(graph_edge[n])
  PROVE  \E k \in AllCounted : BareAt(k) = BareAt(n)
<1>1. DOMAIN graph_edge = 1 .. Len(graph_edge) /\ Len(graph_edge) \in Nat
  BY CountedGrow
<1>2. CASE Counted(n)
  BY <1>2 DEF AllCounted
<1>3. CASE ~Counted(n)
  <2> DEFINE S == {m \in 1 .. n : Mapped(graph_edge[m]) /\ Pair(graph_edge[m]) = Pair(graph_edge[n])}
  <2>1. S \subseteq Nat /\ n \in S
    BY <1>1
  <2>2. PICK m \in S : \A j \in S : m <= j
    <3> HIDE DEF S
    <3>. QED
      BY <2>1, LeastNatural
  <2>3. /\ m \in DOMAIN graph_edge /\ m \in 1 .. n /\ Mapped(graph_edge[m])
        /\ Pair(graph_edge[m]) = Pair(graph_edge[n])
    BY <1>1
  <2>4. Counted(m)
    <3>1. \A j \in 1 .. m - 1 : j \in 1 .. n /\ ~(m <= j)
      BY <1>1, <2>3
    <3>2. \A j \in 1 .. m - 1 : Mapped(graph_edge[j]) => Pair(graph_edge[j]) # Pair(graph_edge[m])
      BY <2>2, <2>3, <3>1
    <3>. QED
      BY <2>3, <3>2 DEF Counted
  <2>5. PinAndTrack(graph_edge[n])
    BY <1>3 DEF Counted
  <2>6. PinAndTrack(graph_edge[m])
    BY <2>3, <2>5 DEF PinAndTrack
  <2>7. IsSitePin(graph_edge[n]) /\ IsSitePin(graph_edge[m])
    BY <2>3, <2>5, <2>6, SitePinRows
  <2>8. Way(graph_edge[n]) = SitePin /\ Way(graph_edge[m]) = SitePin
    BY <2>7 DEF IsSitePin, Way
  <2>9. BareAt(m) = BareAt(n)
    <3>1. graph_edge[n].pip = {} /\ graph_edge[m].pip = {}
      BY <2>7 DEF IsSitePin
    <3>. QED
      BY <2>3, <2>8, <3>1 DEF BareAt, Bare
  <2>. QED
    BY <2>3, <2>4, <2>9 DEF AllCounted
<1>. QED
  BY <1>2, <1>3

(* What is wanted, by the places of edges and rows.                        *)
LEMMA WantedByPlace ==
  ASSUME Serializing, RowsInv, EdgesListed
  PROVE  Wanted = {OwnAt(r) : r \in DOMAIN edges} \union
                  {BareAt(n) : n \in {m \in DOMAIN graph_edge : Mapped(graph_edge[m])}}
<1>1. Wanted = {Between(e) : e \in ToSet(edges)} \union
               {Bare(e) : e \in {r \in ToSet(graph_edge) : Mapped(r)}}
  BY DEF Wanted, Bare
<1>2. {Between(e) : e \in ToSet(edges)} = {OwnAt(r) : r \in DOMAIN edges}
  BY DEF OwnAt, ToSet
<1>3. {Bare(e) : e \in {r \in ToSet(graph_edge) : Mapped(r)}}
        = {BareAt(n) : n \in {m \in DOMAIN graph_edge : Mapped(graph_edge[m])}}
  BY DEF BareAt, ToSet
<1>. QED
  BY <1>1, <1>2, <1>3

(* An edge that is yielded is wanted, and was not sent.                    *)
LEMMA SendsOnce ==
  ASSUME ExportInv, WriteEdge
  PROVE  Sent' = Sent \/ \E x \in Wanted \ ToSet(Sent) : Sent' = Append(Sent, x)
<1>1. stage = "writing"
  BY WriteStep
<1>2. RowsInv /\ NodesMapped /\ EdgesListed /\ IdsApart /\ Writing
  BY <1>1 DEF ExportInv, WriteInv, GraphInv, Imported
<1>3. Wanted = {OwnAt(r) : r \in DOMAIN edges} \union
               {BareAt(n) : n \in {m \in DOMAIN graph_edge : Mapped(graph_edge[m])}}
  BY <1>1, <1>2, WantedByPlace DEF Serializing
<1>4. ToSet(Sent) = {OwnAt(r) : r \in {q \in DOMAIN edges : q < row}} \union
                    {BareAt(n) : n \in CountedBefore(row - Len(edges))}
  BY <1>2 DEF Writing
<1>5. /\ \A r \in DOMAIN edges, n \in DOMAIN graph_edge : OwnAt(r) # BareAt(n)
      /\ \A q, r \in DOMAIN edges : OwnAt(q) = OwnAt(r) => q = r
  BY <1>1, <1>2, BareIsOfTheDatabase, BetweenApart DEF OwnAt, BareAt
<1>6. DOMAIN graph_edge = 1 .. Len(graph_edge) /\ DOMAIN edges = 1 .. Len(edges)
      /\ Len(graph_edge) \in Nat /\ Len(edges) \in Nat /\ row \in Nat
  BY <1>2, CountedGrow DEF EdgesListed, Lists, Writing
<1>7. written \in Seq(Range(written))
  BY <1>2 DEF Writing
<1>8. CASE row \in DOMAIN edges /\ written' = Append(written, Between(edges[row]))
  <2>1. Sent' = Append(Sent, OwnAt(row))
    BY <1>2, <1>7, <1>8, SentAppended, Stripped DEF OwnAt
  <2>2. OwnAt(row) \in Wanted
    BY <1>3, <1>8
  <2>3. OwnAt(row) \notin ToSet(Sent)
    <3>1. ~(row < row)
      BY <1>6
    <3>2. CountedBefore(row - Len(edges)) \subseteq DOMAIN graph_edge
      BY DEF CountedBefore
    <3>. QED
      BY <1>4, <1>5, <1>8, <3>1, <3>2
  <2>. QED
    BY <2>1, <2>2, <2>3
<1>9. CASE UNCHANGED written
  BY <1>9 DEF Sent
<1>10. ASSUME NEW n \in DOMAIN graph_edge, n = row - Len(edges), Counted(n),
              written' = Append(written, New(graph_edge[n]))
       PROVE  \E x \in Wanted \ ToSet(Sent) : Sent' = Append(Sent, x)
  <2>1. Sent' = Append(Sent, BareAt(n))
    BY <1>2, <1>7, <1>10, SentAppended, Stripped DEF BareAt
  <2>2. Mapped(graph_edge[n])
    BY <1>10 DEF Counted
  <2>3. BareAt(n) \in Wanted
    BY <1>3, <2>2
  <2>4. ASSUME NEW k \in CountedBefore(n), BareAt(k) = BareAt(n)
        PROVE  FALSE
    <3>1. k \in DOMAIN graph_edge /\ k < n /\ k # n /\ Mapped(graph_edge[k]) /\ k \in 1 .. n - 1
      BY <1>6 DEF CountedBefore, Counted
    <3>2. PinAndTrack(graph_edge[n]) /\ Pair(graph_edge[n]) = Pair(graph_edge[k])
      BY <1>1, <1>2, <2>2, <2>4, <3>1, BareApart DEF BareAt
    <3>. QED
      BY <1>10, <3>1, <3>2 DEF Counted
  <2>5. BareAt(n) \notin ToSet(Sent)
    BY <1>4, <1>5, <1>10, <2>4
  <2>. QED
    BY <2>1, <2>3, <2>5
<1>. QED
  BY <1>8, <1>9, <1>10, WriteStep

(* What is wanted stays, if nothing of it changes.                         *)
LEMMA SameWanted ==
  ASSUME UNCHANGED <<switch, graph_edge, nodes, edges, node_mapping, id_map>>, Serializing, Serializing'
  PROVE  Wanted' = Wanted
<1>1. UNCHANGED <<ToSet(edges), ToSet(graph_edge)>>
  BY DEF ToSet
<1>. QED
  BY <1>1 DEF Wanted, Between, Mapped, Pair, Way

(* Each step of the import sends one edge that is wanted and was not sent, *)
(* collects what is wanted, or is no step of the export.                   *)
LEMMA ExportStep == ExportInv /\ [Next]_vars => [Export!Next]_<<Wanted, Sent>>
<1> SUFFICES ASSUME ExportInv, [Next]_vars PROVE Export!Next \/ UNCHANGED <<Wanted, Sent>>
  OBVIOUS
<1>1. CASE WriteEdge
  <2>1. UNCHANGED <<switch, graph_edge, nodes, edges, node_mapping, id_map>> /\ Serializing /\ Serializing'
    BY <1>1, WriteStep DEF directions, rest, database, vprgraph, Serializing
  <2>2. Wanted' = Wanted
    BY <2>1, SameWanted
  <2>. QED
    BY <1>1, <2>2, SendsOnce DEF Export!Next, Export!Send, Export!ToSet, ToSet
<1>2. CASE WriteFiles \/ UNCHANGED vars
  <2>1. UNCHANGED <<switch, graph_edge, nodes, edges, node_mapping, id_map, written>>
    BY <1>2 DEF WriteFiles, vars, directions, rest, database, vprgraph, writer
  <2>2. Serializing <=> Serializing'
    <3>1. CASE WriteFiles
      <4>1. stage = "writing" /\ row > Len(edges) + Len(graph_edge)
        BY <3>1 DEF WriteFiles
      <4>2. Len(written) = num_edges
        BY <4>1, WritingEnds DEF ExportInv, GraphInv, WriteInv, Imported, AllCounted
      <4>. QED
        BY <3>1, <4>1, <4>2 DEF WriteFiles, Serializing
    <3>2. CASE UNCHANGED vars
      BY <3>2 DEF vars, pinvars, Serializing
    <3>. QED
      BY <1>2, <3>1, <3>2
  <2>3. Wanted' = Wanted
    <3>1. CASE Serializing
      BY <2>1, <2>2, <3>1, SameWanted
    <3>2. CASE ~Serializing
      BY <2>2, <3>2 DEF Wanted
    <3>. QED
      BY <3>1, <3>2
  <2>. QED
    BY <2>1, <2>3 DEF Sent
<1>3. CASE ~Serializing /\ UNCHANGED written
  <2>1. Wanted = {} /\ Sent' = Sent
    BY <1>3 DEF Wanted, Sent
  <2>2. Sent = <<>>
    <3>1. written = <<>>
      BY <1>3 DEF ExportInv, WriteInv, Serializing
    <3>. QED
      BY <3>1 DEF Sent
  <2>. QED
    BY <2>1, <2>2 DEF Export!Next, Export!Collect
<1>4. CASE Assign \/ \E e \in left : ConnectTrack(e) \/ ConnectTracks(e) \/ ConnectPins(e)
  <2>1. stage \notin {"writing", "written"} /\ UNCHANGED written
    BY <1>4 DEF Assign, DirectionsNext, HandleDirectionConnections, CheckReasons, HandleEdgesToChannels,
            Decide, Reduce, CheckAssignments, ConnectTrack, ConnectTracks, ConnectPins, writer
  <2>. QED
    BY <1>3, <2>1 DEF Serializing
<1>5. CASE MarkTrackLiveness \/ BuildChannels \/ VerifyChannels \/ FindConstantNetwork \/ AddSwitches
  <2>1. stage \notin {"writing", "written"} /\ UNCHANGED written
    BY <1>5 DEF MarkTrackLiveness, BuildChannels, VerifyChannels, FindConstantNetwork, AddSwitches, writer
  <2>. QED
    BY <1>3, <2>1 DEF Serializing
<1>6. CASE ImportGraphNodes \/ ImportTracks \/ AddSyntheticEdges \/ CreateNodeRemap \/ GetNumberGraphEdges \/ WriteNodes
  <2>1. stage \notin {"writing", "written"} /\ UNCHANGED written
    BY <1>6 DEF ImportGraphNodes, ImportTracks, AddSyntheticEdges, CreateNodeRemap, GetNumberGraphEdges,
            WriteNodes, writer
  <2>. QED
    BY <1>3, <2>1 DEF Serializing
<1>. QED
  BY <1>1, <1>2, <1>4, <1>5, <1>6 DEF Next

(* The import implements the export: each edge that is wanted is sent at   *)
(* most once, and nothing else is.                                         *)
THEOREM ExportsOnce == Spec => Export!Init /\ [][Export!Next]_<<Wanted, Sent>>
<1>1. Init => Export!Init
  <2> SUFFICES ASSUME Init PROVE Export!Init
    OBVIOUS
  <2>1. stage \notin {"writing", "written"} /\ written = <<>>
    BY DEF Init, DirectionsInit
  <2>. QED
    BY <2>1 DEF Export!Init, Wanted, Sent, Serializing
<1>2. ExportInv /\ [Next]_vars => [Export!Next]_<<Wanted, Sent>>
  BY ExportStep
<1>. QED
  BY <1>1, <1>2, ExportAlways, PTL DEF Spec

(* Once the nodes are written nothing stops the edges: each has a switch,  *)
(* and there are as many as were counted.                                  *)
THEOREM WritingNeverRaises == Spec => [][stage = "writing" => stage' # "raised"]_vars
<1>1. ExportInv /\ [Next]_vars => [stage = "writing" => stage' # "raised"]_vars
  <2> SUFFICES ASSUME ExportInv, Next, stage = "writing" PROVE stage' # "raised"
    OBVIOUS
  <2>1. CASE WriteEdge
    BY <2>1, WriteStep
  <2>2. CASE WriteFiles
    <3>1. row > Len(edges) + Len(graph_edge)
      BY <2>2 DEF WriteFiles
    <3>2. Len(written) = num_edges
      BY <3>1, WritingEnds DEF ExportInv, GraphInv, WriteInv, Imported, AllCounted
    <3>. QED
      BY <2>2, <3>2 DEF WriteFiles
  <2>3. ~Assign /\ ~(\E e \in left : ConnectTrack(e) \/ ConnectTracks(e) \/ ConnectPins(e))
    BY DEF Assign, DirectionsNext, HandleDirectionConnections, CheckReasons, HandleEdgesToChannels,
            Decide, Reduce, CheckAssignments, ConnectTrack, ConnectTracks, ConnectPins
  <2>4. ~MarkTrackLiveness /\ ~BuildChannels /\ ~VerifyChannels /\ ~FindConstantNetwork /\ ~AddSwitches
    BY DEF MarkTrackLiveness, BuildChannels, VerifyChannels, FindConstantNetwork, AddSwitches
  <2>5. ~ImportGraphNodes /\ ~ImportTracks /\ ~AddSyntheticEdges /\ ~CreateNodeRemap /\ ~GetNumberGraphEdges /\ ~WriteNodes
    BY DEF ImportGraphNodes, ImportTracks, AddSyntheticEdges, CreateNodeRemap, GetNumberGraphEdges, WriteNodes
  <2>. QED
    BY <2>1, <2>2, <2>3, <2>4, <2>5 DEF Next
<1>. QED
  BY <1>1, ExportAlways, PTL DEF Spec

-----------------------------------------------------------------------------
(* The last row is passed.                                                 *)
Passed == Serializing /\ row > Len(edges) + Len(graph_edge)

(* All that is wanted was sent when the last row is passed.                *)
LEMMA PassedIsSent == ExportInv /\ Passed => ToSet(Sent) = Wanted
<1> SUFFICES ASSUME ExportInv, Passed PROVE ToSet(Sent) = Wanted
  OBVIOUS
<1>1. RowsInv /\ NodesMapped /\ EdgesListed /\ Writing /\ row > Len(edges) + Len(graph_edge)
  BY DEF ExportInv, WriteInv, GraphInv, Imported, Passed, Serializing
<1>2. ToSet(Sent) = {OwnAt(r) : r \in DOMAIN edges} \union {BareAt(n) : n \in AllCounted}
  BY <1>1, WritingEnds DEF Writing
<1>3. Wanted = {OwnAt(r) : r \in DOMAIN edges} \union
               {BareAt(n) : n \in {m \in DOMAIN graph_edge : Mapped(graph_edge[m])}}
  BY <1>1, WantedByPlace DEF Passed
<1>4. AllCounted \subseteq {m \in DOMAIN graph_edge : Mapped(graph_edge[m])}
  BY DEF AllCounted, Counted
<1>5. \A n \in {m \in DOMAIN graph_edge : Mapped(graph_edge[m])} : \E k \in AllCounted : BareAt(k) = BareAt(n)
  BY <1>1, CountedForAll
<1>. QED
  BY <1>2, <1>3, <1>4, <1>5

(* When the file is there, all that was wanted is in it.                   *)
THEOREM AllAreSent == Spec => [](stage = "written" => ToSet(Sent) = Wanted)
<1>1. ExportInv => (stage = "written" => ToSet(Sent) = Wanted)
  BY PassedIsSent DEF ExportInv, WriteInv, Passed, Serializing
<1>. QED
  BY <1>1, ExportAlways, PTL

(* What is left of the refinement is that the loop over the rows ends:     *)
(* then every edge that is wanted is sent, as GraphExport promises.        *)
THEOREM ExportIsImplemented == Spec /\ (stage = "writing" ~> Passed) => ImplementsExport
<1>1. ExportInv /\ Wanted # {} => stage = "writing" \/ Passed
  BY DEF Wanted, Serializing, Passed, ExportInv, WriteInv
<1>2. ExportInv /\ Passed => Wanted = Export!ToSet(Sent)
  BY PassedIsSent DEF ToSet, Export!ToSet
<1>. QED
  BY <1>1, <1>2, ExportsOnce, ExportAlways, PTL DEF ImplementsExport, Export!Spec

-----------------------------------------------------------------------------
(* What is assumed of the clock lines of the device.                       *)
ClocksTyped ==
  /\ HasClockLines(fabric)
  /\ \A p \in pips : p.track \in Tracks /\ (p.pin \in Outputs => Drives(fabric, p, FALSE, p.track))
  /\ \A s \in crossings : s.to \in Tracks /\ Drives(fabric, s, s.backward, s.to)

(* A device of Devices has them.                                           *)
LEMMA InitClocks == Init => ClocksTyped
<1> SUFFICES ASSUME Init PROVE ClocksTyped
  OBVIOUS
<1>1. PICK v \in Devices : pips = v.pips /\ crossings = v.crossings /\ fabric = v.fabric
  BY DEF Init, DirectionsInit
<1>. QED
  BY <1>1, ClockAssumption, DeviceAssumption DEF ClocksTyped

-----------------------------------------------------------------------------
(* The row or rows next to a buffer hold the row of the line.              *)
LEMMA RowIsBeside ==
  ASSUME ClocksTyped, NEW w \in Tracks, NEW u \in fabric.wires[w], u[2].name = RowWire
  PROVE  \E r \in fabric.wires[w] :
           /\ r[2].name \in RebufWires
           /\ \E h \in Beside(r[1], r[2].name) :
                u = <<fabric.column[h].tile, W(RowWire, r[2].args)>>
<1>1. PICK r \in fabric.wires[w], x \in DOMAIN fabric.column :
         /\ u = <<fabric.column[x].tile, W(RowWire, r[2].args)>>
         /\ fabric.column[x].type = "CLK_HROW"
         /\ NextTo(fabric, x, r)
  BY DEF ClocksTyped, HasClockLines
<1> DEFINE buffer == IF r[2].name = "REBUF_TOP" THEN x - 1 ELSE x + 1
           at == CHOOSE n \in DOMAIN fabric.column : fabric.column[n].tile = r[1]
<1>2. buffer \in DOMAIN fabric.column /\ fabric.column[buffer].tile = r[1]
  BY <1>1 DEF NextTo
<1>3. at = buffer
  BY <1>2 DEF ClocksTyped, HasClockLines
<1>4. DOMAIN fabric.column \subseteq Int
  BY DEF ClocksTyped, HasClockLines
<1> HIDE DEF at
<1>5. x = IF r[2].name = "REBUF_TOP" THEN at + 1 ELSE at - 1
  BY <1>1, <1>3, <1>4
<1>6. x \in Beside(r[1], r[2].name)
  BY <1>1, <1>5 DEF Beside, at
<1>. QED
  BY <1>1, <1>6 DEF NextTo

(* The features of a pip that leads to a clock line.                       *)
LEMMA FirstRule ==
  ASSUME NEW pip, Leads(pip, RebufWires) # {},
         pip.tile \notin DOMAIN fabric.sing, pip.src.name \notin PadWires
  PROVE  UNION {Rebufs(n) : n \in Leads(pip, RebufWires)} \subseteq CheckFeature(pip)
<1>1. Renumbered(pip) = pip
  BY DEF Renumbered
<1>2. <<pip.src.name, pip.dst.name>> # <<"IOB_DIFFO_OUT0", "IOB_DIFFO_IN1">>
  BY DEF PadWires
<1>3. <<pip.src.name, pip.dst.name>> \notin HardWires
  BY DEF PadWires, HardWires
<1> DEFINE rules == Rules(pip)
<1>4. DOMAIN rules = 1 .. 9
  BY DEF Rules
<1>5. /\ rules[1].when
      /\ rules[1].what = UNION {Rebufs(n) : n \in Leads(pip, RebufWires)}
  BY DEF Rules
<1> HIDE DEF rules
<1>6. Min({n \in DOMAIN rules : rules[n].when}) = 1
  <2> DEFINE S == {n \in DOMAIN rules : rules[n].when}
  <2>1. 1 \in S /\ \A n \in S : n \in Int /\ 1 <= n
    <3>1. 1 \in DOMAIN rules /\ \A n \in DOMAIN rules : n \in Int /\ 1 <= n
      BY <1>4
    <3>. QED
      BY <1>5, <3>1, Zenon
  <2> HIDE DEF S
  <2>2. \A m \in S : (\A n \in S : m <= n) => m = 1
    BY <2>1
  <2>3. Min(S) = 1
    BY <2>1, <2>2 DEF Min
  <2>. QED
    BY <2>3 DEF S
<1>7. CheckFeature(pip) = {<<pip.tile, pip.dst, pip.src>>} \union rules[Min({n \in DOMAIN rules : rules[n].when})].what
  BY <1>1, <1>2, <1>3 DEF CheckFeature, rules
<1>. QED
  BY <1>5, <1>6, <1>7

(* What an edge into a clock line has to turn on, of each wire of it.      *)
TurnsOn(features, ws) ==
  \A v \in ws :
    LET On(part, wire) == <<v[1], part, wire>> \in features
    IN  /\ v[2].name = "REBUF_TOP" => On(W("ENABLE_BELOW", v[2].args), Whole)
        /\ v[2].name = "REBUF_BOT" => On(W("ENABLE_ABOVE", v[2].args), Whole)
        /\ v[2].name = RowWire => On(W("ACTIVE", <<>>), v[2])

(* The features of a pip that drives a line turn all of it on.             *)
LEMMA PipTurnsOn ==
  ASSUME ClocksTyped, NEW w \in Tracks, NEW p, NEW b \in BOOLEAN, Drives(fabric, p, b, w)
  PROVE  TurnsOn(CheckFeature(PipName(p, b)), fabric.wires[w])
<1> DEFINE pip == PipName(p, b)
           clock == {u \in fabric.wires[w] : u[2].name \in RebufWires \union {RowWire}}
<1>1. CASE clock = {}
  BY <1>1 DEF TurnsOn, RebufWires
<1>2. CASE clock # {}
  <2>1. /\ <<pip.tile, pip.dst>> \in fabric.wires[w]
        /\ pip.tile \notin DOMAIN fabric.sing /\ pip.src.name \notin PadWires
    BY <1>2 DEF Drives, PipName
  <2>2. \E u \in fabric.wires[w] : u[2].name \in RebufWires
    BY <1>2, RowIsBeside
  <2>3. w \in Leads(pip, RebufWires)
    BY <2>1, <2>2 DEF Leads, Nodes, ClocksTyped, HasClockLines
  <2> HIDE DEF pip
  <2>4. Rebufs(w) \subseteq CheckFeature(pip)
    BY <2>1, <2>3, FirstRule
  <2>5. ASSUME NEW r \in fabric.wires[w], r[2].name \in RebufWires
        PROVE  /\ <<r[1], W(Enable(r[2].name), r[2].args), Whole>> \in Rebufs(w)
               /\ \A h \in Beside(r[1], r[2].name) :
                    <<fabric.column[h].tile, W("ACTIVE", <<>>), W(RowWire, r[2].args)>> \in Rebufs(w)
    <3> DEFINE Of(v) == {<<v[1], W(Enable(v[2].name), v[2].args), Whole>>}
                        \union {<<fabric.column[h].tile, W("ACTIVE", <<>>), W(RowWire, v[2].args)>> :
                                  h \in Beside(v[1], v[2].name)}
    <3>1. Rebufs(w) = UNION {Of(v) : v \in {u \in fabric.wires[w] : u[2].name \in RebufWires}}
      BY DEF Rebufs, RowWire
    <3>2. Of(r) \subseteq Rebufs(w)
      <4> HIDE DEF Of
      <4>. QED
        BY <2>5, <3>1
    <3>. QED
      BY <3>2
  <2>6. ASSUME NEW v \in fabric.wires[w], v[2].name = "REBUF_TOP"
        PROVE  <<v[1], W("ENABLE_BELOW", v[2].args), Whole>> \in Rebufs(w)
    <3>1. Enable(v[2].name) = "ENABLE_BELOW" /\ v[2].name \in RebufWires
      BY <2>6 DEF Enable, RebufWires
    <3>. QED
      BY <2>5, <3>1
  <2>7. ASSUME NEW v \in fabric.wires[w], v[2].name = "REBUF_BOT"
        PROVE  <<v[1], W("ENABLE_ABOVE", v[2].args), Whole>> \in Rebufs(w)
    <3>1. Enable(v[2].name) = "ENABLE_ABOVE" /\ v[2].name \in RebufWires
      BY <2>7 DEF Enable, RebufWires
    <3>. QED
      BY <2>5, <3>1
  <2>8. ASSUME NEW v \in fabric.wires[w], v[2].name = RowWire
        PROVE  <<v[1], W("ACTIVE", <<>>), v[2]>> \in Rebufs(w)
    <3>1. PICK r \in fabric.wires[w] :
            /\ r[2].name \in RebufWires
            /\ \E h \in Beside(r[1], r[2].name) :
                 v = <<fabric.column[h].tile, W(RowWire, r[2].args)>>
      BY <2>8, RowIsBeside
    <3>2. PICK h \in Beside(r[1], r[2].name) :
            v = <<fabric.column[h].tile, W(RowWire, r[2].args)>>
      BY <3>1
    <3>3. <<fabric.column[h].tile, W("ACTIVE", <<>>), W(RowWire, r[2].args)>> \in Rebufs(w)
      BY <2>5, <3>1
    <3>4. v[1] = fabric.column[h].tile /\ v[2] = W(RowWire, r[2].args)
      BY <3>2
    <3>. QED
      BY <3>3, <3>4
  <2>. QED
    BY <2>4, <2>6, <2>7, <2>8 DEF TurnsOn, pip
<1>. QED
  BY <1>1, <1>2

-----------------------------------------------------------------------------
(* The pip of a row that leads to a track drives that track.               *)
DrivesTrack(r) ==
  r.pip # {} /\ r.dst[1] = "track" =>
    r.dst[2] \in Tracks /\ \E p : r.pip = {p} /\ Drives(fabric, p, r.backward, r.dst[2])

(* Rows that are so.                                                       *)
GoodRow(r) == r.backward \in BOOLEAN /\ DrivesTrack(r)
GoodRows(s) == \A n \in DOMAIN s : GoodRow(s[n])

(* An edge with a pip is of a row, and turns on the line the row leads to. *)
OfRow(e, r) ==
  /\ Mapped(r) /\ e.pip = r.pip
  /\ e.src = id_map[node_mapping[r.src]] /\ e.dst = id_map[node_mapping[r.dst]]
  /\ r.dst[1] = "track" => TurnsOn(e.features, fabric.wires[r.dst[2]])

(* Every edge with a pip that was written is of a row.                     *)
Followed ==
  \A n \in DOMAIN written :
    written[n].pip # {} => \E m \in DOMAIN graph_edge : OfRow(written[n], graph_edge[m])

(* What holds of rows, edges and the node map, on the way to clock lines.  *)
ClockInv ==
  /\ ClocksTyped
  /\ GoodRows(graph_edge)
  /\ Followed
  /\ stage = "written" => node_map = [g \in DOMAIN node_mapping |-> id_map[node_mapping[g]]]

(* An edge that ends at the node of a track is of a row that leads to it.  *)
LEMMA ClockLinesOfInv ==
  ASSUME ExportInv, ClockInv
  PROVE  ClockLinesAreOn
<1> SUFFICES ASSUME stage = "written", NEW e \in ToSet(written), NEW w \in Tracks, e.pip # {},
                    NEW n \in DOMAIN segments[w], <<"track", w, n>> \in DOMAIN node_map,
                    node_map[<<"track", w, n>>] = e.dst
             PROVE  TurnsOn(e.features, fabric.wires[w])
  BY DEF ClockLinesAreOn, TurnsOn, RowWire
<1> DEFINE g == <<"track", w, n>>
<1>1. PICK m \in DOMAIN graph_edge : OfRow(e, graph_edge[m])
  BY DEF ClockInv, Followed, ToSet
<1> DEFINE h == graph_edge[m].dst
<1>2. NodesMapped
  BY DEF ExportInv, GraphInv, Imported
<1>3. g \in DOMAIN node_mapping /\ node_map[g] = id_map[node_mapping[g]]
  BY DEF ClockInv
<1>4. h \in DOMAIN node_mapping /\ e.dst = id_map[node_mapping[h]]
  BY <1>1 DEF OfRow, Mapped
<1>5. node_mapping[g] \in DOMAIN id_map /\ node_mapping[h] \in DOMAIN id_map
  BY <1>2, <1>3, <1>4 DEF ExportInv, IdsApart, NodesMapped
<1>6. node_mapping[g] = node_mapping[h]
  BY <1>3, <1>4, <1>5 DEF ExportInv, IdsApart
<1>7. g[1] # "pin" /\ g[1] = "track" /\ g[2] = w
  OBVIOUS
<1>8. g = h
  <2> HIDE DEF g, h
  <2>. QED
    BY <1>2, <1>3, <1>4, <1>6, <1>7 DEF NodesMapped
<1>. QED
  BY <1>1, <1>7, <1>8 DEF OfRow

-----------------------------------------------------------------------------
(* A row drives what it drives as long as the device is the same.          *)
LEMMA SameClocks ==
  ASSUME ClocksTyped, UNCHANGED <<device, rest>>
  PROVE  ClocksTyped' /\ fabric' = fabric /\ \A r : DrivesTrack(r)' <=> DrivesTrack(r)
<1>1. pips' = pips /\ crossings' = crossings /\ fabric' = fabric
  BY DEF device, rest
<1>. QED
  BY <1>1 DEF ClocksTyped, DrivesTrack

(* Another such row.                                                       *)
LEMMA GoodAppend ==
  ASSUME NEW s, s \in Seq(Range(s)), GoodRows(s), NEW r, GoodRow(r)
  PROVE  GoodRows(Append(s, r))
<1>1. /\ DOMAIN s = 1 .. Len(s) /\ Len(s) \in Nat
      /\ DOMAIN Append(s, r) = 1 .. Len(s) + 1
      /\ \A i \in DOMAIN s : Append(s, r)[i] = s[i]
      /\ Append(s, r)[Len(s) + 1] = r
  BY Appended
<1>2. \A i \in DOMAIN Append(s, r) : i \in DOMAIN s \/ i = Len(s) + 1
  BY <1>1
<1>. QED
  BY <1>1, <1>2 DEF GoodRows

(* The first rows have no pip.                                             *)
LEMMA InitGood == Init => GoodRows(graph_edge)
<1> SUFFICES ASSUME Init PROVE GoodRows(graph_edge)
  OBVIOUS
<1>1. DeviceTyped
  BY InitDevice
<1>2. Lists(graph_edge, Shorts)
  BY <1>1, ShortsFinite, ListedOnce DEF Init
<1>3. \A r \in Shorts : r.pip = {} /\ r.backward = FALSE
  <2> SUFFICES ASSUME NEW r \in Shorts PROVE r.pip = {} /\ r.backward = FALSE
    OBVIOUS
  <2>1. PICK w \in Tracks :
          \E e \in (DOMAIN segments[w]) \X (DOMAIN segments[w]) :
            r = Row(<<"track", w, e[1]>>, <<"track", w, e[2]>>, Short)
    BY DEF Shorts
  <2>. QED
    BY <2>1 DEF Row
<1>4. \A n \in DOMAIN graph_edge : graph_edge[n] \in Shorts
  BY <1>2 DEF Lists, ToSet
<1>. QED
  BY <1>3, <1>4 DEF GoodRows, GoodRow, DrivesTrack

(* The rows of a pip between a pin and a track: the pip drives the track   *)
(* where the pin is an output, and leads to the wire of the pin otherwise. *)
LEMMA GoodTrack ==
  ASSUME RowsInv, ClocksTyped, GoodRows(graph_edge), NEW p, ConnectTrack(p)
  PROVE  GoodRows(graph_edge')
<1> DEFINE n == Joins(p.track, Place[p.tile], Meets(p))
           track == <<"track", p.track, n>>
           wire == <<"wire", p.pin, p.tile>>
           pin == <<"pin", p.pin, p.tile, SideOf(segments[p.track][n], Place[p.tile])>>
           via == IF p.pin \in Outputs THEN Via(wire, track, p) ELSE Via(track, wire, p)
           own == IF p.pin \in Outputs THEN Row(pin, wire, SitePin) ELSE Row(wire, pin, SitePin)
<1>1. p \in pips
  BY DEF ConnectTrack
<1>2. p.track \in Tracks /\ (p.pin \in Outputs => Drives(fabric, p, FALSE, p.track))
  BY <1>1 DEF ClocksTyped
<1>3. GoodRow(own)
  BY DEF GoodRow, DrivesTrack, Row
<1>4. GoodRow(via)
  <2>1. track[1] = "track" /\ track[2] = p.track /\ wire[1] = "wire"
    OBVIOUS
  <2> HIDE DEF track, wire
  <2>2. \A a, b : Via(a, b, p).pip = {p} /\ Via(a, b, p).backward = FALSE /\ Via(a, b, p).dst = b
    BY DEF Via, Row
  <2>3. /\ p.pin \in Outputs => via = Via(wire, track, p)
        /\ p.pin \notin Outputs => via = Via(track, wire, p)
    OBVIOUS
  <2> HIDE DEF via
  <2>4. via.pip = {p} /\ via.backward = FALSE
    BY <2>2, <2>3
  <2>5. CASE p.pin \in Outputs
    <3>1. via.dst[1] = "track" /\ via.dst[2] = p.track
      BY <2>1, <2>2, <2>3, <2>5
    <3>. QED
      BY <1>2, <2>4, <2>5, <3>1 DEF GoodRow, DrivesTrack
  <2>6. CASE p.pin \notin Outputs
    <3>1. via.dst[1] = "wire"
      BY <2>1, <2>2, <2>3, <2>6
    <3>. QED
      BY <2>4, <3>1 DEF GoodRow, DrivesTrack
  <2>. QED
    BY <2>5, <2>6
<1>5. graph_edge \in Seq(Range(graph_edge))
  BY DEF RowsInv, RowsOf
<1>6. graph_edge' = graph_edge \/ graph_edge' = Append(Append(graph_edge, own), via)
                               \/ graph_edge' = Append(Append(graph_edge, via), own)
  <2>1. graph_edge' = graph_edge \/ graph_edge' = graph_edge \o <<own, via>>
                                 \/ graph_edge' = graph_edge \o <<via, own>>
    BY DEF ConnectTrack
  <2> HIDE DEF own, via
  <2>. QED
    BY <1>5, <2>1, AddBoth
<1> HIDE DEF own, via
<1>7. GoodRows(Append(Append(graph_edge, own), via))
  BY <1>3, <1>4, <1>5, GoodAppend, Appended
<1>8. GoodRows(Append(Append(graph_edge, via), own))
  BY <1>3, <1>4, <1>5, GoodAppend, Appended
<1>. QED
  BY <1>6, <1>7, <1>8

(* The row of a crossing leads to its end, one of a mux to a pin.          *)
LEMMA GoodCrossing ==
  ASSUME RowsInv, ClocksTyped, GoodRows(graph_edge), NEW s, ConnectTracks(s) \/ ConnectPins(s)
  PROVE  GoodRows(graph_edge')
<1>1. graph_edge \in Seq(Range(graph_edge))
  BY DEF RowsInv, RowsOf
<1>2. graph_edge' = graph_edge \/ \E r : GoodRow(r) /\ graph_edge' = Append(graph_edge, r)
  <2>1. CASE ConnectTracks(s) /\ graph_edge' # graph_edge
    <3>1. PICK a, b, sw :
            graph_edge' = Append(graph_edge, [Row(<<"track", s.from, a>>, <<"track", s.to, b>>, sw)
                                                EXCEPT !.pip = {s}, !.backward = s.backward])
      BY <2>1 DEF ConnectTracks
    <3> DEFINE r == [Row(<<"track", s.from, a>>, <<"track", s.to, b>>, sw)
                       EXCEPT !.pip = {s}, !.backward = s.backward]
    <3>2. s \in crossings /\ s.backward \in BOOLEAN
      BY <2>1 DEF ConnectTracks, RowsInv, DeviceTyped
    <3>3. r.pip = {s} /\ r.backward = s.backward /\ r.dst[1] = "track" /\ r.dst[2] = s.to
      BY DEF Row
    <3>4. s.to \in Tracks /\ Drives(fabric, s, s.backward, s.to)
      BY <3>2 DEF ClocksTyped
    <3> HIDE DEF r
    <3>5. GoodRow(r)
      BY <3>2, <3>3, <3>4 DEF GoodRow, DrivesTrack
    <3>. QED
      BY <3>1, <3>5 DEF r
  <2>2. CASE ConnectPins(s) /\ graph_edge' # graph_edge
    <3>1. PICK a, b :
            graph_edge' = Append(graph_edge,
              [Row(<<"pin", s.from, s.src, a>>, <<"pin", s.to, s.dst, b>>, MuxSwitch(s)) EXCEPT !.pip = {s}])
      BY <2>2 DEF ConnectPins
    <3>2. GoodRow([Row(<<"pin", s.from, s.src, a>>, <<"pin", s.to, s.dst, b>>, MuxSwitch(s)) EXCEPT !.pip = {s}])
      BY DEF GoodRow, DrivesTrack, Row
    <3>. QED
      BY <3>1, <3>2
  <2>. QED
    BY <2>1, <2>2
<1>. QED
  BY <1>1, <1>2, GoodAppend

-----------------------------------------------------------------------------
(* The edge of a row with a pip turns on the line that the row leads to.   *)
LEMMA NewTurnsOn ==
  ASSUME ClocksTyped, NEW r, GoodRow(r), Mapped(r), r.pip # {}
  PROVE  OfRow(New(r), r)
<1> DEFINE fs == UNION {CheckFeature(PipName(p, r.backward)) : p \in r.pip}
           b == Between(Pair(r))
<1>1. New(r) = [b EXCEPT !.pip = r.pip, !.switch = r.switch, !.features = fs]
  BY Zenon DEF New
<1> HIDE DEF fs
<1>2. /\ New(r).src = id_map[node_mapping[r.src]] /\ New(r).dst = id_map[node_mapping[r.dst]]
      /\ New(r).features = fs /\ New(r).pip = r.pip
  BY <1>1 DEF Between, Pair
<1>3. ASSUME r.dst[1] = "track"
      PROVE  TurnsOn(fs, fabric.wires[r.dst[2]])
  <2>1. PICK p : r.pip = {p} /\ Drives(fabric, p, r.backward, r.dst[2])
    BY <1>3 DEF GoodRow, DrivesTrack
  <2>2. r.dst[2] \in Tracks /\ r.backward \in BOOLEAN
    BY <1>3 DEF GoodRow, DrivesTrack
  <2>3. fs = CheckFeature(PipName(p, r.backward))
    BY <2>1 DEF fs
  <2>. QED
    BY <2>1, <2>2, <2>3, PipTurnsOn
<1>. QED
  BY <1>2, <1>3 DEF OfRow

(* It stays so while ids and rows are the same.                            *)
LEMMA SameFollowed ==
  ASSUME Followed, UNCHANGED <<fabric, graph_edge, node_mapping, id_map, written>>
  PROVE  Followed'
<1>1. \A e, r : OfRow(e, r)' <=> OfRow(e, r)
  BY DEF OfRow, Mapped
<1>. QED
  BY <1>1 DEF Followed

(* An edge that is yielded is one of VPR, or of a row.                     *)
LEMMA WriteFollows ==
  ASSUME ExportInv, ClockInv, WriteEdge
  PROVE  Followed'
<1>1. UNCHANGED <<fabric, graph_edge, node_mapping, id_map>>
  BY DEF WriteEdge, directions, rest, database, vprgraph
<1>2. \A e, r : OfRow(e, r)' <=> OfRow(e, r)
  BY <1>1 DEF OfRow, Mapped
<1>3. Followed /\ written \in Seq(Range(written)) /\ stage = "writing"
  BY DEF ExportInv, WriteInv, Writing, ClockInv, Followed, WriteEdge
<1>4. \/ written' = written
      \/ \E ids : written' = Append(written, Between(ids))
      \/ \E m \in DOMAIN graph_edge :
           Mapped(graph_edge[m]) /\ written' = Append(written, New(graph_edge[m]))
  <2>1. \A m : Counted(m) => Mapped(graph_edge[m])
    BY DEF Counted
  <2>. QED
    BY <2>1, WriteStep
<1>5. ASSUME NEW e, written' = Append(written, e),
             e.pip # {} => \E m \in DOMAIN graph_edge : OfRow(e, graph_edge[m])
      PROVE  Followed'
  <2>1. /\ DOMAIN written = 1 .. Len(written) /\ Len(written) \in Nat
        /\ DOMAIN written' = 1 .. Len(written) + 1
        /\ \A i \in DOMAIN written : written'[i] = written[i]
        /\ written'[Len(written) + 1] = e
    BY <1>3, <1>5, Appended
  <2>2. \A i \in DOMAIN written' : i \in DOMAIN written \/ i = Len(written) + 1
    BY <2>1
  <2>3. \A i \in DOMAIN written' :
          written'[i].pip # {} => \E m \in DOMAIN graph_edge : OfRow(written'[i], graph_edge[m])
    BY <1>3, <1>5, <2>1, <2>2 DEF Followed
  <2>. QED
    BY <1>1, <1>2, <2>3 DEF Followed
<1>6. CASE written' = written
  BY <1>1, <1>3, <1>6, SameFollowed
<1>7. ASSUME NEW ids, written' = Append(written, Between(ids))
      PROVE  Followed'
  BY <1>5, <1>7 DEF Between
<1>8. ASSUME NEW m \in DOMAIN graph_edge, Mapped(graph_edge[m]), written' = Append(written, New(graph_edge[m]))
      PROVE  Followed'
  <2>1. GoodRow(graph_edge[m]) /\ ClocksTyped
    BY DEF ClockInv, GoodRows
  <2>2. CASE graph_edge[m].pip # {}
    BY <1>5, <1>8, <2>1, <2>2, NewTurnsOn
  <2>3. CASE graph_edge[m].pip = {}
    <3>1. New(graph_edge[m]).pip = {}
      BY <2>3 DEF New, Between
    <3>. QED
      BY <1>5, <1>8, <3>1
  <2>. QED
    BY <2>2, <2>3
<1>. QED
  BY <1>4, <1>6, <1>7, <1>8

(* Steps that only bring the import further.                               *)
LEMMA OnwardClocks ==
  ASSUME ClockInv, UNCHANGED <<device, rest, graph_edge, written>>, written = <<>>, stage' # "written"
  PROVE  ClockInv'
<1>1. ClocksTyped' /\ \A r : DrivesTrack(r)' <=> DrivesTrack(r)
  BY SameClocks DEF ClockInv
<1>2. GoodRows(graph_edge)'
  BY <1>1 DEF ClockInv, GoodRows, GoodRow
<1>3. Followed'
  BY DEF Followed
<1>. QED
  BY <1>1, <1>2, <1>3 DEF ClockInv

(* No step adds an edge into a clock line that leaves it off.              *)
LEMMA NextClocks == ExportInv /\ ClockInv /\ [Next]_vars => ClockInv'
<1> SUFFICES ASSUME ExportInv, ClockInv, [Next]_vars PROVE ClockInv'
  OBVIOUS
<1>1. stage \notin {"writing", "written"} => written = <<>>
  BY DEF ExportInv, WriteInv
<1>2. CASE Assign
  <2>1. stage \notin {"writing", "written"} /\ stage' # "written" /\ UNCHANGED device
    BY <1>2 DEF Assign, DirectionsNext, HandleDirectionConnections, CheckReasons, HandleEdgesToChannels,
            Decide, Reduce, CheckAssignments
  <2>. QED
    BY <1>1, <1>2, <2>1, OnwardClocks DEF Assign, database, writer
<1>3. CASE \E e \in left : ConnectTrack(e) \/ ConnectTracks(e) \/ ConnectPins(e)
  <2>1. /\ stage = "assigned" /\ stage' # "written" /\ UNCHANGED <<device, rest, written>>
    BY <1>3 DEF ConnectTrack, ConnectTracks, ConnectPins, directions, writer
  <2>2. GoodRows(graph_edge')
    BY <1>3, GoodTrack, GoodCrossing DEF ExportInv, ClockInv
  <2>3. ClocksTyped' /\ \A r : DrivesTrack(r)' <=> DrivesTrack(r)
    BY <2>1, SameClocks DEF ClockInv
  <2>4. GoodRows(graph_edge)'
    BY <2>2, <2>3 DEF GoodRows, GoodRow
  <2>5. Followed'
    BY <1>1, <2>1 DEF Followed
  <2>. QED
    BY <2>1, <2>3, <2>4, <2>5 DEF ClockInv
<1>4. CASE MarkTrackLiveness \/ BuildChannels \/ VerifyChannels \/ FindConstantNetwork \/ AddSwitches
  <2>1. /\ stage \notin {"writing", "written"} /\ stage' # "written"
        /\ UNCHANGED <<device, rest, graph_edge, written>>
    BY <1>4 DEF MarkTrackLiveness, BuildChannels, VerifyChannels, FindConstantNetwork, AddSwitches,
            directions, database, writer
  <2>. QED
    BY <1>1, <2>1, OnwardClocks
<1>5. CASE ImportGraphNodes \/ ImportTracks \/ AddSyntheticEdges \/ CreateNodeRemap
             \/ GetNumberGraphEdges \/ WriteNodes
  <2>1. /\ stage \notin {"writing", "written"} /\ stage' # "written"
        /\ UNCHANGED <<device, rest, graph_edge, written>>
    BY <1>5 DEF ImportGraphNodes, ImportTracks, AddSyntheticEdges, CreateNodeRemap,
            GetNumberGraphEdges, WriteNodes, directions, database, writer
  <2>. QED
    BY <1>1, <2>1, OnwardClocks
<1>6. CASE WriteEdge \/ WriteFiles \/ UNCHANGED vars
  <2>1. UNCHANGED <<device, rest, graph_edge, node_mapping, id_map>>
    BY <1>6 DEF WriteEdge, WriteFiles, vars, pinvars, directions, database, vprgraph
  <2>2. ClocksTyped' /\ fabric' = fabric /\ \A r : DrivesTrack(r)' <=> DrivesTrack(r)
    BY <2>1, SameClocks DEF ClockInv
  <2>3. GoodRows(graph_edge)'
    BY <2>1, <2>2 DEF ClockInv, GoodRows, GoodRow
  <2>4. Followed'
    <3>1. CASE WriteEdge
      BY <3>1, WriteFollows
    <3>2. CASE WriteFiles \/ UNCHANGED vars
      <4>1. written' = written
        BY <3>2 DEF WriteFiles, vars, writer
      <4>. QED
        BY <2>1, <2>2, <4>1, SameFollowed DEF ClockInv
    <3>. QED
      BY <1>6, <3>1, <3>2
  <2>5. stage' = "written" => node_map' = [g \in DOMAIN node_mapping |-> id_map[node_mapping[g]]]
    <3>1. CASE WriteEdge
      BY <3>1, WriteStep
    <3>2. CASE WriteFiles
      BY <3>2 DEF WriteFiles
    <3>3. CASE UNCHANGED vars
      BY <3>3 DEF vars, pinvars, writer, ClockInv
    <3>. QED
      BY <1>6, <3>1, <3>2, <3>3
  <2>. QED
    BY <2>1, <2>2, <2>3, <2>4, <2>5 DEF ClockInv
<1>. QED
  BY <1>2, <1>3, <1>4, <1>5, <1>6 DEF Next

(* At first nothing is written.                                            *)
LEMMA InitClockInv == Init => ClockInv
<1> SUFFICES ASSUME Init PROVE ClockInv
  OBVIOUS
<1>1. stage # "written" /\ written = <<>>
  BY DEF Init, DirectionsInit
<1>2. Followed
  BY <1>1 DEF Followed
<1>. QED
  BY <1>1, <1>2, InitClocks, InitGood DEF ClockInv

(* Whichever pip drives a clock line, and from which end, the edge into it *)
(* turns on the buffers of the line and the rows it crosses (check_feature *)
(* and REBUF_NODES of prjxray_routing_import.py).                          *)
THEOREM LinesAreTurnedOn == Spec => []ClockLinesAreOn
<1>1. Init => ClockInv
  BY InitClockInv
<1>2. ExportInv /\ ClockInv /\ [Next]_vars => ClockInv'
  BY NextClocks
<1>3. ExportInv /\ ClockInv => ClockLinesAreOn
  BY ClockLinesOfInv
<1>4. Spec => []ExportInv
  BY ExportAlways
<1>. QED
  BY <1>1, <1>2, <1>3, <1>4, PTL DEF Spec

-----------------------------------------------------------------------------
(* Powers of two are beyond their exponents.                               *)
LEMMA PowerIsBeyond ==
  ASSUME NEW n \in Nat
  PROVE  2 ^ n \in Nat /\ n <= 2 ^ n
<1> DEFINE I == 1 .. n
           f == [i \in I |-> {i}]
<1>1. IsFiniteSet(I) /\ Cardinality(I) = n
  BY FS_Interval
<1>2. IsFiniteSet(SUBSET I) /\ Cardinality(SUBSET I) = 2 ^ n
  BY <1>1, FS_SUBSET
<1>3. f \in Injection(I, SUBSET I)
  <2>1. f \in [I -> SUBSET I] /\ \A i, j \in I : f[i] = f[j] => i = j
    OBVIOUS
  <2> HIDE DEF f
  <2>. QED
    BY <2>1 DEF Injection, IsInjective
<1>4. Cardinality(I) <= Cardinality(SUBSET I)
  BY <1>2, <1>3, FS_Injection
<1>5. Cardinality(SUBSET I) \in Nat
  BY <1>2, FS_CardinalityType
<1>. QED
  BY <1>1, <1>2, <1>4, <1>5

(* The greater side of the channels, and the curve, which covers it.       *)
Side == Max({channel.x_max, channel.y_max})

(* Its order is the least that covers the greater side.                    *)
LEMMA CurveCovers ==
  ASSUME Side \in Nat
  PROVE  Order \in 0 .. Side /\ 2 ^ Order \in Nat /\ Side <= 2 ^ Order
<1> DEFINE S == {p \in 0 .. Side : 2 ^ p >= Side}
<1>1. Side \in S /\ S \in SUBSET Nat
  BY PowerIsBeyond
<1>2. Order = Min(S)
  BY DEF Order, Side
<1> HIDE DEF S
<1>3. Min(S) \in S
  BY <1>1, LeastNatural DEF Min
<1>4. Order \in 0 .. Side /\ 2 ^ Order >= Side
  BY <1>2, <1>3 DEF S
<1>. QED
  BY <1>4, PowerIsBeyond

(* A node beyond the curve is at a side that is a power of two.            *)
LEMMA BeyondTheCurve ==
  ASSUME Side \in Nat, NEW n, n.x_low \in Int, n.y_low \in Int, n.x_low <= Side, n.y_low <= Side,
         ~OnCurve(n)
  PROVE  \E p \in 0 .. Order : 2 ^ p = Side
<1>1. Order \in 0 .. Side /\ 2 ^ Order \in Nat /\ Side <= 2 ^ Order
  BY CurveCovers
<1> DEFINE q == 2 ^ Order
<1>2. q \in Nat /\ Side <= q /\ ~(n.x_low < q /\ n.y_low < q)
  BY <1>1 DEF OnCurve
<1> HIDE DEF q
<1>3. q = Side
  BY <1>2
<1>. QED
  BY <1>1, <1>3 DEF q

-----------------------------------------------------------------------------
(* A place that is not beyond the rows and columns of the constant track.  *)
InReach(place) ==
  LET constant == segments[ConstantTrack]
  IN  /\ \E n \in DOMAIN constant : constant[n].dir = "X" /\ place[1] <= constant[n].high
      /\ \E n \in DOMAIN constant : constant[n].dir = "Y" /\ place[2] <= constant[n].high

(* What is assumed of the tracks of the device.                            *)
LayoutTyped ==
  /\ \A w \in Tracks : \A n \in DOMAIN segments[w] :
       /\ segments[w][n].low <= segments[w][n].high /\ 1 <= segments[w][n].high
       /\ DOMAIN segments[w] # {n} =>
            \E m \in DOMAIN segments[w] : segments[w][m].dir # segments[w][n].dir
  /\ \A t \in Tiles : InReach(Place[t])
  /\ \A b \in grid : InReach(b.place)
  /\ \E i, j \in DOMAIN segments[ConstantTrack] :
       i # j /\ segments[ConstantTrack][i].dir = segments[ConstantTrack][j].dir

(* A device is one of those assumed.                                       *)
LEMMA InitLayout == Init => LayoutTyped
<1> SUFFICES ASSUME Init PROVE LayoutTyped
  OBVIOUS
<1>1. PICK v \in Devices : segments = v.segments /\ grid = v.grid
  BY DEF Init, DirectionsInit
<1>. QED
  BY <1>1, LayoutAssumption DEF LayoutTyped, InReach

-----------------------------------------------------------------------------
(* The first segment of a direction is joined to those of the other.       *)
LEMMA FirstIsJoined ==
  ASSUME NEW w \in Tracks, NEW i \in DOMAIN segments[w], NEW k \in DOMAIN segments[w],
         segments[w][i].dir # segments[w][k].dir, OnePerSide(segments[w], k)
  PROVE  /\ Row(<<"track", w, k>>, <<"track", w, i>>, Short) \in Shorts
         /\ Row(<<"track", w, i>>, <<"track", w, k>>, Short) \in Shorts
<1> DEFINE J(v) == {e \in (DOMAIN segments[v]) \X (DOMAIN segments[v]) :
                     /\ segments[v][e[1]].dir # segments[v][e[2]].dir
                     /\ OnePerSide(segments[v], e[1]) \/ OnePerSide(segments[v], e[2])}
           S(v) == {Row(<<"track", v, e[1]>>, <<"track", v, e[2]>>, Short) : e \in J(v)}
           Joined == J(w)
           R(e) == Row(<<"track", w, e[1]>>, <<"track", w, e[2]>>, Short)
<1>1. {R(e) : e \in Joined} \subseteq Shorts
  <2>1. Shorts = UNION {S(v) : v \in Tracks}
    BY DEF Shorts
  <2>2. {R(e) : e \in Joined} = S(w)
    OBVIOUS
  <2> HIDE DEF S, R, Joined
  <2>. QED
    BY <2>1, <2>2
<1>2. <<k, i>> \in Joined /\ <<i, k>> \in Joined
  OBVIOUS
<1>3. R(<<k, i>>) \in Shorts /\ R(<<i, k>>) \in Shorts
  <2> HIDE DEF R, Joined
  <2>. QED
    BY <1>1, <1>2
<1>. QED
  BY <1>3

(* A finite set of two members has more than one.                          *)
LEMMA TwoMembers ==
  ASSUME NEW U, IsFiniteSet(U), NEW a \in U, NEW b \in U, a # b
  PROVE  Cardinality(U) > 1
<1>1. IsFiniteSet(U \ {a}) /\ Cardinality(U \ {a}) = Cardinality(U) - 1
  BY FS_RemoveElement
<1>2. Cardinality((U \ {a}) \ {b}) = Cardinality(U \ {a}) - 1 /\ IsFiniteSet((U \ {a}) \ {b})
  BY <1>1, FS_RemoveElement
<1>3. Cardinality((U \ {a}) \ {b}) \in Nat /\ Cardinality(U) \in Nat /\ Cardinality(U \ {a}) \in Nat
  BY <1>1, <1>2, FS_CardinalityType
<1>. QED
  BY <1>1, <1>2, <1>3

(* The constant track is alive, because of a segment that joins two.       *)
LEMMA ConstantIsAlive ==
  ASSUME RowsInv, LayoutTyped, Shorts \subseteq ToSet(graph_edge), MarkTrackLiveness
  PROVE  <<"track", ConstantTrack>> \in alive'
<1> DEFINE w == ConstantTrack
           D == DOMAIN segments[w]
           rows == ToSet(graph_edge)
           From(g) == {e.src : e \in {r \in rows : r.dst = g}}
           To(g) == {e.dst : e \in {r \in rows : r.src = g}}
           Lives(g) == \/ g[1] = "track" /\ g[2] \in InputOnly \union OutputOnly
                       \/ From(g) # {} /\ To(g) # {} /\ Cardinality(From(g) \union To(g)) > 1
<1>1. alive' = {TrackOf(g) : g \in {h \in TrackNodes : Lives(h)}}
  BY DEF MarkTrackLiveness
<1>2. w \in Tracks /\ segments[w] \in Seq(SegmentType)
  BY ConstantAssumption DEF RowsInv, DeviceTyped
<1>3. PICK i \in D, j \in D, k0 \in D :
         i # j /\ segments[w][i].dir = segments[w][j].dir /\ segments[w][k0].dir # segments[w][i].dir
  <2>1. PICK i \in D, j \in D : i # j /\ segments[w][i].dir = segments[w][j].dir
    BY DEF LayoutTyped
  <2>2. D # {i}
    BY <2>1
  <2>. QED
    BY <1>2, <2>1, <2>2 DEF LayoutTyped
<1>4. PICK k \in D : segments[w][k].dir = segments[w][k0].dir /\ OnePerSide(segments[w], k)
  <2> DEFINE K == {m \in D : segments[w][m].dir = segments[w][k0].dir}
  <2>1. K \in SUBSET Nat /\ k0 \in K
    BY <1>2
  <2>2. PICK k \in K : \A m \in K : k <= m
    BY <2>1, LeastNatural
  <2>. QED
    BY <2>2 DEF OnePerSide
<1> DEFINE g == <<"track", w, k>>
           a == <<"track", w, i>>
           b == <<"track", w, j>>
<1>5. {Row(g, a, Short), Row(a, g, Short), Row(g, b, Short), Row(b, g, Short)} \subseteq rows
  BY <1>2, <1>3, <1>4, FirstIsJoined
<1>6. a # b
  BY <1>3
<1>7. g \in TrackNodes /\ TrackOf(g) = <<"track", w>>
  BY <1>2, <1>4 DEF TrackNodes, TrackOf
<1>8. IsFiniteSet(From(g) \union To(g))
  <2> DEFINE n == Len(graph_edge)
             src == [m \in 1 .. n |-> graph_edge[m].src]
             dst == [m \in 1 .. n |-> graph_edge[m].dst]
             A == {src[m] : m \in 1 .. n}
             B == {dst[m] : m \in 1 .. n}
  <2>1. n \in Nat /\ DOMAIN graph_edge = 1 .. n
    BY DEF RowsInv, RowsOf
  <2>2. IsFiniteSet(1 .. n)
    BY <2>1, FS_Interval
  <2>3. IsFiniteSet(A) /\ IsFiniteSet(B)
    <3>1. DOMAIN src = 1 .. n /\ DOMAIN dst = 1 .. n
      OBVIOUS
    <3> HIDE DEF src, dst, n
    <3>. QED
      BY <2>2, <3>1, ImageFinite
  <2>4. From(g) \subseteq A /\ To(g) \subseteq B
    <3>1. \A r \in rows : \E m \in 1 .. n : r = graph_edge[m]
      BY <2>1 DEF ToSet
    <3>. QED
      BY <3>1
  <2> HIDE DEF A, B, From, To
  <2>. QED
    BY <2>3, <2>4, FS_Union, FS_Subset
<1>9. a \in From(g) /\ b \in From(g) /\ a \in To(g)
  <2> HIDE DEF g, a, b, rows
  <2>1. Row(a, g, Short) \in {r \in rows : r.dst = g} /\ Row(b, g, Short) \in {r \in rows : r.dst = g}
    BY <1>5 DEF Row
  <2>2. Row(g, a, Short) \in {r \in rows : r.src = g}
    BY <1>5 DEF Row
  <2>3. Row(a, g, Short).src = a /\ Row(b, g, Short).src = b /\ Row(g, a, Short).dst = a
    BY DEF Row
  <2>. QED
    BY <2>1, <2>2, <2>3
<1>10. Cardinality(From(g) \union To(g)) > 1
  <2> DEFINE U == From(g) \union To(g)
  <2>1. a \in U /\ b \in U
    BY <1>9
  <2> HIDE DEF U, a, b
  <2>. QED
    BY <1>6, <1>8, <2>1, TwoMembers DEF U
<1>11. Lives(g)
  <2> HIDE DEF From, To, g
  <2>. QED
    BY <1>9, <1>10
<1>. QED
  <2> HIDE DEF Lives, g
  <2>. QED
    BY <1>1, <1>7, <1>11

-----------------------------------------------------------------------------
(* A segment beyond 0, as those of tracks and wire nodes are.              *)
Long(s) == s.low <= s.high /\ 1 <= s.high
WiresLong == \A g \in DOMAIN wire_node : Long(wire_node[g])

(* The channels are as wide as what is alive.                              *)
Measured ==
  /\ Side \in Nat
  /\ \A g \in AliveNodes : Segment(g).high <= Side /\ Segment(g).at <= Side

(* The constant track is alive.                                            *)
ConstantAlive == <<"track", ConstantTrack>> \in alive
(* No node is beyond the channels.                                         *)
NodesInside == \A i \in DOMAIN nodes : nodes[i].x_low <= Side /\ nodes[i].y_low <= Side

(* Every node that is alive is such a segment.                             *)
LEMMA AliveIsLong ==
  ASSUME RowsInv, LayoutTyped, WiresLong, NEW g \in AliveNodes
  PROVE  Long(Segment(g))
<1>1. g \in TrackNodes
  BY DEF AliveNodes
<1>2. CASE g \in DOMAIN wire_node
  BY <1>2 DEF WiresLong, Segment, RowsInv, WiresTyped
<1>3. CASE \E w \in Tracks : \E n \in DOMAIN segments[w] : g = <<"track", w, n>>
  BY <1>3 DEF LayoutTyped, Long, Segment
<1>. QED
  BY <1>1, <1>2, <1>3 DEF TrackNodes

(* build_channels measures the nodes that are alive.                       *)
LEMMA ChannelsMeasure ==
  ASSUME RowsInv, LayoutTyped, WiresLong, BuildChannels, stage' = "built"
  PROVE  Measured'
<1> DEFINE xs == Highs("X")
           ys == Highs("Y")
<1>1. /\ AliveNodes # {} /\ UNCHANGED <<segments, alive, wire_node>>
      /\ channel'.x_max = Max(xs) /\ channel'.y_max = Max(ys)
  BY DEF BuildChannels, directions, device
<1>2. AliveNodes' = AliveNodes /\ \A g : Segment(g)' = Segment(g)
  BY <1>1 DEF AliveNodes, TrackNodes, TrackOf, Segment
<1>3. /\ IsFiniteSet(AliveNodes)
      /\ \A g \in AliveNodes : Segment(g) \in SegmentType /\ Long(Segment(g))
  BY AliveNodesFinite, AliveIsLong
<1>4. ASSUME NEW d \in {"X", "Y"}
      PROVE  /\ Highs(d) \in SUBSET Int /\ Highs(d) # {} /\ IsFiniteSet(Highs(d))
             /\ \A g \in AliveNodes :
                  (IF Segment(g).dir = d THEN Segment(g).high ELSE Segment(g).at) \in Highs(d)
  <2> DEFINE f == [g \in AliveNodes |-> IF Segment(g).dir = d THEN Segment(g).high ELSE Segment(g).at]
  <2>1. Highs(d) = {f[g] : g \in AliveNodes} /\ DOMAIN f = AliveNodes
    BY DEF Highs
  <2>2. \A g \in AliveNodes : f[g] \in Int /\ f[g] = IF Segment(g).dir = d THEN Segment(g).high ELSE Segment(g).at
    BY <1>3 DEF SegmentType
  <2> HIDE DEF f
  <2>3. IsFiniteSet({f[g] : g \in AliveNodes})
    BY <1>3, <2>1, ImageFinite
  <2>. QED
    BY <1>1, <2>1, <2>2, <2>3
<1>5. /\ Max(xs) \in Int /\ \A x \in xs : x <= Max(xs)
      /\ Max(ys) \in Int /\ \A y \in ys : y <= Max(ys)
  BY <1>4, GreatestOfFinite
<1> DEFINE M == {Max(xs), Max(ys)}
<1>6. Max(M) \in Int /\ Max(xs) <= Max(M) /\ Max(ys) <= Max(M)
  <2>1. IsFiniteSet(M)
    <3>1. IsFiniteSet({Max(xs)})
      BY FS_Singleton
    <3>2. IsFiniteSet({Max(xs)} \union {Max(ys)})
      BY <3>1, FS_AddElement
    <3>. QED
      BY <3>2
  <2>2. M \in SUBSET Int /\ M # {}
    BY <1>5
  <2>. QED
    BY <2>1, <2>2, GreatestOfFinite
<1>7. Side' = Max(M)
  BY <1>1 DEF Side
<1>8. ASSUME NEW g \in AliveNodes
      PROVE  Segment(g).high <= Max(M) /\ Segment(g).at <= Max(M) /\ 1 <= Segment(g).high
             /\ Segment(g).high \in Int
  <2>1. Segment(g).dir \in {"X", "Y"} /\ Segment(g).high \in Int /\ Segment(g).at \in Int /\ 1 <= Segment(g).high
    BY <1>3 DEF SegmentType, Long
  <2>2. CASE Segment(g).dir = "X"
    <3>1. Segment(g).high \in xs /\ Segment(g).at \in ys
      BY <1>4, <2>2
    <3> HIDE DEF xs, ys, M
    <3>. QED
      BY <1>5, <1>6, <2>1, <3>1
  <2>3. CASE Segment(g).dir = "Y"
    <3>1. Segment(g).high \in ys /\ Segment(g).at \in xs
      BY <1>4, <2>3
    <3> HIDE DEF xs, ys, M
    <3>. QED
      BY <1>5, <1>6, <2>1, <3>1
  <2>. QED
    BY <2>1, <2>2, <2>3
<1>9. Max(M) \in Nat
  <2>1. PICK g \in AliveNodes : TRUE
    BY <1>1
  <2> HIDE DEF M
  <2>. QED
    BY <1>6, <1>8
<1>. QED
  BY <1>2, <1>7, <1>8, <1>9 DEF Measured

(* A place of the constant track is within the channels.                   *)
LEMMA PlaceInside ==
  ASSUME RowsInv, Measured, ConstantAlive, NEW place \in Nat \X Nat, InReach(place)
  PROVE  place[1] <= Side /\ place[2] <= Side
<1>1. ASSUME NEW n \in DOMAIN segments[ConstantTrack]
      PROVE  segments[ConstantTrack][n].high \in Int /\ segments[ConstantTrack][n].high <= Side
  <2> DEFINE g == <<"track", ConstantTrack, n>>
  <2>1. g \in TrackNodes /\ TrackOf(g) = <<"track", ConstantTrack>> /\ Segment(g) = segments[ConstantTrack][n]
    BY ConstantAssumption DEF TrackNodes, TrackOf, Segment
  <2>2. g \in AliveNodes
    BY <2>1 DEF AliveNodes, ConstantAlive
  <2>3. Segment(g).high <= Side /\ Segment(g) \in SegmentType
    BY <2>2, AliveNodesFinite DEF Measured
  <2>. QED
    BY <2>1, <2>3 DEF SegmentType
<1>2. Side \in Nat
  BY DEF Measured
<1>3. \E n \in DOMAIN segments[ConstantTrack] : place[1] <= segments[ConstantTrack][n].high
  BY DEF InReach
<1>4. \E n \in DOMAIN segments[ConstantTrack] : place[2] <= segments[ConstantTrack][n].high
  BY DEF InReach
<1>. QED
  BY <1>1, <1>2, <1>3, <1>4

(* Nodes that VPR made are at places of tiles and blocks.                  *)
LEMMA VprPinsInside ==
  ASSUME RowsInv, LayoutTyped, Measured, ConstantAlive
  PROVE  \A n \in VprPins : n.x_low <= Side /\ n.y_low <= Side
<1>1. \A t \in Tiles : Place[t][1] <= Side /\ Place[t][2] <= Side
  BY PlaceInside, DeviceAssumption DEF LayoutTyped
<1>2. \A b \in grid : b.place[1] <= Side /\ b.place[2] <= Side
  BY PlaceInside DEF LayoutTyped, RowsInv, DeviceTyped
<1> DEFINE A == {VprNode(IF k \in Outputs THEN "OPIN" ELSE "IPIN", Place[t], <<k, 0>>) : k \in Keys, t \in Tiles}
           B == {VprNode("OPIN", b.place, <<"VCC", 0>>) : b \in {c \in grid : c.type = "SYN-VCC"}}
           I(b) == {VprNode("OPIN", b.place, <<"inpad", z>>) : z \in 0 .. b.inpads - 1}
           O(b) == {VprNode("IPIN", b.place, <<"outpad", z>>) : z \in 0 .. b.outpads - 1}
           C == UNION {I(b) \union O(b) : b \in grid}
           In(n) == n.x_low <= Side /\ n.y_low <= Side
<1>3. \A type, place, k : VprNode(type, place, k).x_low = place[1] /\ VprNode(type, place, k).y_low = place[2]
  BY DEF VprNode
<1>4. \A n \in A : In(n)
  <2> DEFINE At(k, t) == VprNode(IF k \in Outputs THEN "OPIN" ELSE "IPIN", Place[t], <<k, 0>>)
  <2>1. \A k \in Keys, t \in Tiles : In(At(k, t))
    BY <1>1, <1>3
  <2>2. A = {At(k, t) : k \in Keys, t \in Tiles}
    OBVIOUS
  <2> HIDE DEF At, In, A
  <2>. QED
    BY <2>1, <2>2
<1>5. \A n \in B : In(n)
  BY <1>2, <1>3
<1>6. \A b \in grid : \A n \in I(b) \union O(b) : In(n)
  <2> SUFFICES ASSUME NEW b \in grid, NEW n \in I(b) \union O(b)
               PROVE  In(n)
    OBVIOUS
  <2>1. \E type, k : n = VprNode(type, b.place, k)
    BY Zenon
  <2>2. n.x_low = b.place[1] /\ n.y_low = b.place[2]
    BY <1>3, <2>1
  <2>. QED
    BY <1>2, <2>2
<1>7. \A n \in C : In(n)
  <2> HIDE DEF I, O, In
  <2>. QED
    BY <1>6
<1>8. VprPins = A \union B \union C
  BY DEF VprPins
<1>. QED
  <2> HIDE DEF A, B, C
  <2>. QED
    BY <1>4, <1>5, <1>7, <1>8

(* The nodes that VPR made, and their classes, are within the channels.    *)
LEMMA ImportNodesInside ==
  ASSUME RowsInv, LayoutTyped, Measured, ConstantAlive, ImportGraphNodes
  PROVE  NodesInside'
<1> DEFINE f == [n \in VprPins |-> Class(n)]
           C == {f[n] : n \in VprPins}
           All == VprPins \union C
           ns == Listed(All)
<1>1. nodes' = ns /\ Side' = Side
  <2>1. C = {Class(n) : n \in VprPins}
    OBVIOUS
  <2> HIDE DEF C
  <2>2. nodes' = ns /\ channel' = channel
    BY <2>1 DEF ImportGraphNodes, database
  <2>. QED
    BY <2>2 DEF Side
<1>2. IsFiniteSet(VprPins) /\ \A n \in VprPins : IsVprPin(n)
  BY PinsOfVpr DEF RowsInv
<1>3. Lists(ns, All)
  <2>1. IsFiniteSet(C)
    <3>1. DOMAIN f = VprPins
      OBVIOUS
    <3> HIDE DEF f
    <3>. QED
      BY <1>2, <3>1, ImageFinite
  <2>2. IsFiniteSet(All)
    BY <1>2, <2>1, FS_Union
  <2> HIDE DEF All
  <2>. QED
    BY <2>2, ListedOnce
<1>4. \A n \in VprPins : Class(n).x_low = n.x_low /\ Class(n).y_low = n.y_low
  BY <1>2 DEF IsVprPin, VprNode, Class
<1>5. \A n \in VprPins : n.x_low <= Side /\ n.y_low <= Side
  BY VprPinsInside
<1>6. \A n \in All : n.x_low <= Side /\ n.y_low <= Side
  BY <1>4, <1>5
<1>7. \A i \in DOMAIN ns : ns[i] \in All
  <2> HIDE DEF ns, All
  <2>. QED
    BY <1>3 DEF Lists, ToSet
<1>. QED
  <2> HIDE DEF ns, All
  <2>. QED
    BY <1>1, <1>6, <1>7 DEF NodesInside

(* So are the nodes of tracks, which do not begin before 1.                *)
LEMMA ImportTracksInside ==
  ASSUME RowsInv, GraphInv, LayoutTyped, WiresLong, Measured, NodesInside, ImportTracks
  PROVE  NodesInside'
<1> DEFINE new == Listed(AliveNodes)
           from1(n) == IF n > 1 THEN n ELSE 1
           Node(g) ==
             LET s == Segment(g)
             IN  IF s.dir = "X"
                 THEN [type |-> "CHANX", x_low |-> from1(s.low), x_high |-> s.high,
                       y_low |-> s.at, y_high |-> s.at, ptc |-> ptc[g]]
                 ELSE [type |-> "CHANY", x_low |-> s.at, x_high |-> s.at,
                       y_low |-> from1(s.low), y_high |-> s.high, ptc |-> ptc[g]]
           added == [n \in DOMAIN new |-> Node(new[n])]
<1>1. nodes' = nodes \o added /\ stage = "tracks" /\ Side' = Side
  <2>1. nodes' = nodes \o added /\ stage = "tracks" /\ channel' = channel
    BY DEF ImportTracks, database
  <2>. QED
    BY <2>1 DEF Side
<1>2. IsFiniteSet(AliveNodes) /\ \A g \in AliveNodes : Segment(g) \in SegmentType
  BY AliveNodesFinite
<1>3. Lists(new, AliveNodes)
  BY <1>2, ListedOnce
<1> HIDE DEF new
<1>4. Len(new) \in Nat /\ DOMAIN new = 1 .. Len(new) /\ \A n \in DOMAIN new : new[n] \in AliveNodes
  BY <1>3 DEF Lists, ToSet
<1>5. ASSUME NEW g \in AliveNodes
      PROVE  Node(g).x_low <= Side /\ Node(g).y_low <= Side
  <2>1. Segment(g).low \in Int /\ Segment(g).high \in Int /\ Segment(g).low <= Segment(g).high
        /\ 1 <= Segment(g).high
    BY <1>2, AliveIsLong DEF SegmentType, Long
  <2>2. Segment(g).high <= Side /\ Segment(g).at <= Side /\ Side \in Nat
    BY DEF Measured
  <2>3. from1(Segment(g).low) <= Side
    BY <2>1, <2>2
  <2> HIDE DEF from1
  <2>. QED
    BY <2>2, <2>3
<1> HIDE DEF Node
<1>6. added \in Seq(Range(added)) /\ DOMAIN added = 1 .. Len(new)
  <2>1. \A n \in 1 .. Len(new) : added[n] \in Range(added)
    BY <1>4 DEF Range
  <2>2. added \in [1 .. Len(new) -> Range(added)]
    BY <1>4, <2>1
  <2> HIDE DEF added
  <2>. QED
    BY <1>4, <2>2
<1>7. \A n \in DOMAIN added : added[n].x_low <= Side /\ added[n].y_low <= Side
  BY <1>4, <1>5, <1>6
<1> HIDE DEF added
<1>8. nodes \in Seq(Range(nodes))
  BY <1>1 DEF GraphInv, NodesMapped, Imported
<1>9. /\ Len(nodes) \in Nat /\ DOMAIN nodes = 1 .. Len(nodes)
      /\ Len(added) \in Nat /\ DOMAIN added = 1 .. Len(added)
      /\ DOMAIN nodes' = 1 .. Len(nodes) + Len(added)
      /\ \A i \in DOMAIN nodes : nodes'[i] = nodes[i]
      /\ \A i \in DOMAIN added : nodes'[Len(nodes) + i] = added[i]
  BY <1>1, <1>6, <1>8, Concatenated
<1>10. ASSUME NEW i \in DOMAIN nodes'
       PROVE  nodes'[i].x_low <= Side /\ nodes'[i].y_low <= Side
  <2>1. CASE i \in DOMAIN nodes
    BY <1>9, <2>1 DEF NodesInside
  <2>2. CASE i \notin DOMAIN nodes
    <3>1. i - Len(nodes) \in DOMAIN added /\ Len(nodes) + (i - Len(nodes)) = i
      BY <1>9, <2>2
    <3>. QED
      BY <1>7, <1>9, <3>1
  <2>. QED
    BY <2>1, <2>2
<1>. QED
  BY <1>1, <1>10 DEF NodesInside

-----------------------------------------------------------------------------
(* From the stage at which tracks are marked on.                           *)
Marked == {"marked", "built", "network", "switches", "pins"} \union Imported

(* What holds of the tracks, and then of the channels.                     *)
TracksInv ==
  /\ LayoutTyped /\ WiresLong
  /\ Shorts \subseteq ToSet(graph_edge)
  /\ stage \in Marked => ConstantAlive
  /\ stage \in Marked \ {"marked"} => Measured

(* At first the rows are those of the tracks.                              *)
LEMMA InitTracks == Init => TracksInv
<1> SUFFICES ASSUME Init PROVE TracksInv
  OBVIOUS
<1>1. stage \notin Marked /\ wire_node = <<>> /\ graph_edge = Listed(Shorts)
  BY DEF Init, DirectionsInit, Marked, Imported
<1>2. Lists(graph_edge, Shorts)
  BY <1>1, InitDevice, ShortsFinite, ListedOnce
<1>3. WiresLong
  BY <1>1 DEF WiresLong
<1>. QED
  BY <1>1, <1>2, <1>3, InitLayout DEF TracksInv, Lists

(* It depends on the device, rows, wire nodes and channels.                *)
LEMMA SameTracks ==
  ASSUME UNCHANGED <<device, rest, graph_edge, wire_node, alive, channel>>
  PROVE  /\ LayoutTyped' <=> LayoutTyped
         /\ WiresLong' <=> WiresLong
         /\ Shorts' = Shorts
         /\ ConstantAlive' <=> ConstantAlive
         /\ Measured' <=> Measured
<1>1. UNCHANGED <<segments, grid>>
  BY DEF device, rest
<1>2. Side' = Side /\ AliveNodes' = AliveNodes /\ \A g : Segment(g)' = Segment(g)
  BY <1>1 DEF Side, AliveNodes, TrackNodes, TrackOf, Segment
<1>3. Shorts' = Shorts
  BY <1>1 DEF Shorts, OnePerSide
<1>. QED
  BY <1>1, <1>2, <1>3 DEF LayoutTyped, InReach, WiresLong, ConstantAlive, Measured

(* Rows are only added, and wire nodes are copies of segments.             *)
LEMMA ConnectTracksInv ==
  ASSUME RowsInv, TracksInv, NEW e, ConnectTrack(e) \/ ConnectTracks(e) \/ ConnectPins(e)
  PROVE  TracksInv'
<1>1. /\ stage = "assigned" /\ stage' \in {"assigned", "raised"} /\ UNCHANGED <<segments, grid>>
      /\ \/ graph_edge' = graph_edge
         \/ \E a : graph_edge' = Append(graph_edge, a)
         \/ \E a, b : graph_edge' = graph_edge \o <<a, b>>
  BY DEF ConnectTrack, ConnectTracks, ConnectPins, directions, device, rest
<1>2. LayoutTyped' /\ Shorts' = Shorts /\ stage' \notin Marked
  BY <1>1 DEF TracksInv, LayoutTyped, InReach, Shorts, OnePerSide, Marked, Imported
<1>3. ToSet(graph_edge) \subseteq ToSet(graph_edge')
  <2>1. graph_edge \in Seq(Range(graph_edge))
    BY DEF RowsInv, RowsOf
  <2>2. ASSUME NEW s, s \in Seq(Range(s)), NEW x
        PROVE  ToSet(s) \subseteq ToSet(Append(s, x)) /\ Append(s, x) \in Seq(Range(Append(s, x)))
    BY <2>2, Appended DEF ToSet
  <2>3. CASE \E a : graph_edge' = Append(graph_edge, a)
    BY <2>1, <2>2, <2>3
  <2>4. CASE \E a, b : graph_edge' = graph_edge \o <<a, b>>
    <3>1. PICK a, b : graph_edge' = graph_edge \o <<a, b>>
      BY <2>4
    <3>2. graph_edge' = Append(Append(graph_edge, a), b)
      BY <2>1, <3>1, AddBoth
    <3>. QED
      BY <2>1, <2>2, <3>2
  <2>. QED
    BY <1>1, <2>3, <2>4
<1>4. WiresLong'
  <2>1. CASE wire_node' = wire_node
    BY <2>1 DEF TracksInv, WiresLong
  <2>2. CASE wire_node' # wire_node
    <3> DEFINE n == Joins(e.track, Place[e.tile], Meets(e))
               wire == <<"wire", e.pin, e.tile>>
    <3>1. /\ Meets(e) # {} /\ e \in pips
          /\ wire_node' = [g \in DOMAIN wire_node \union {wire} |->
                             IF g = wire THEN segments[e.track][n] ELSE wire_node[g]]
      BY <2>2 DEF ConnectTrack, ConnectTracks, ConnectPins
    <3>2. e.track \in Tracks /\ Meets(e) \in SUBSET DOMAIN segments[e.track]
      BY <3>1 DEF RowsInv, DeviceTyped, Meets
    <3>3. n \in DOMAIN segments[e.track]
      BY <3>1, <3>2, JoinedSegment DEF RowsInv
    <3>4. Long(segments[e.track][n])
      BY <3>2, <3>3 DEF TracksInv, LayoutTyped, Long
    <3> HIDE DEF n, wire
    <3>. QED
      BY <3>1, <3>4 DEF TracksInv, WiresLong, Long
  <2>. QED
    BY <2>1, <2>2
<1>. QED
  BY <1>2, <1>3, <1>4 DEF TracksInv

(* Every step keeps tracks and channels so.                                *)
LEMMA NextTracks == RowsInv /\ TracksInv /\ [Next]_vars => TracksInv'
<1> SUFFICES ASSUME RowsInv, TracksInv, [Next]_vars PROVE TracksInv'
  OBVIOUS
<1>1. CASE \E e \in left : ConnectTrack(e) \/ ConnectTracks(e) \/ ConnectPins(e)
  BY <1>1, ConnectTracksInv
<1>2. CASE Assign
  <2>1. stage' \notin Marked /\ UNCHANGED <<device, rest, graph_edge, wire_node, alive, channel>>
    BY <1>2 DEF Assign, DirectionsNext, HandleDirectionConnections, CheckReasons, HandleEdgesToChannels,
            Decide, Reduce, CheckAssignments, Marked, Imported, database
  <2>. QED
    BY <2>1, SameTracks DEF TracksInv
<1>3. CASE MarkTrackLiveness
  <2>1. /\ stage' = "marked" /\ "marked" \in Marked
        /\ UNCHANGED <<directions, graph_edge, wire_node>>
    BY <1>3 DEF MarkTrackLiveness, Marked
  <2>2. ConstantAlive'
    BY <1>3, ConstantIsAlive DEF TracksInv, ConstantAlive
  <2>3. LayoutTyped' /\ WiresLong' /\ Shorts' = Shorts
    BY <2>1 DEF TracksInv, LayoutTyped, InReach, WiresLong, Shorts, OnePerSide, directions, device, rest
  <2>. QED
    BY <2>1, <2>2, <2>3 DEF TracksInv
<1>4. CASE BuildChannels
  <2>1. /\ stage = "marked" /\ stage' \in {"raised", "built"}
        /\ UNCHANGED <<directions, graph_edge, wire_node, alive>>
    BY <1>4 DEF BuildChannels
  <2>2. stage' = "built" => Measured'
    BY <1>4, ChannelsMeasure DEF TracksInv
  <2>3. LayoutTyped' /\ WiresLong' /\ Shorts' = Shorts /\ (ConstantAlive' <=> ConstantAlive)
    BY <2>1 DEF TracksInv, LayoutTyped, InReach, WiresLong, Shorts, OnePerSide, directions, device, rest, ConstantAlive
  <2>4. "marked" \in Marked /\ "raised" \notin Marked
    BY DEF Marked, Imported
  <2>. QED
    BY <2>1, <2>2, <2>3, <2>4 DEF TracksInv
<1>5. CASE \/ VerifyChannels \/ FindConstantNetwork \/ AddSwitches \/ ImportGraphNodes \/ ImportTracks
           \/ AddSyntheticEdges \/ CreateNodeRemap \/ GetNumberGraphEdges \/ WriteNodes
           \/ WriteEdge \/ WriteFiles \/ UNCHANGED vars
  <2>1. /\ stage' \in Marked => stage \in Marked
        /\ stage' \in Marked \ {"marked"} => stage \in Marked \ {"marked"}
        /\ UNCHANGED <<device, rest, graph_edge, wire_node, alive, channel>>
    <3>1. CASE VerifyChannels \/ FindConstantNetwork \/ AddSwitches
      BY <3>1 DEF VerifyChannels, FindConstantNetwork, AddSwitches, Marked, directions, database
    <3>2. CASE ImportGraphNodes \/ ImportTracks \/ AddSyntheticEdges
      BY <3>2 DEF ImportGraphNodes, ImportTracks, AddSyntheticEdges, Marked, Imported, directions, database
    <3>3. CASE CreateNodeRemap \/ GetNumberGraphEdges \/ WriteNodes
      BY <3>3 DEF CreateNodeRemap, GetNumberGraphEdges, WriteNodes, Marked, Imported, directions, database
    <3>4. CASE WriteEdge \/ WriteFiles
      BY <3>4 DEF WriteEdge, WriteFiles, Marked, Imported, directions, database
    <3>5. CASE UNCHANGED vars
      BY <3>5 DEF vars, pinvars, directions, database
    <3>. QED
      BY <1>5, <3>1, <3>2, <3>3, <3>4, <3>5
  <2>. QED
    BY <2>1, SameTracks DEF TracksInv
<1>. QED
  BY <1>1, <1>2, <1>3, <1>4, <1>5 DEF Next

-----------------------------------------------------------------------------
(* From create_node_remap on, until an error.                              *)
Remapped == {"counting", "serialize", "writing", "written"}

(* Nodes are within the channels, and those on the curve have new ids.     *)
CurveInv ==
  /\ stage \in Imported => NodesInside
  /\ stage \in Remapped => DOMAIN id_map = {i \in DOMAIN nodes : OnCurve(nodes[i])}
  /\ stage \notin Remapped \union {"raised"} => id_map = <<>>
  /\ OnlyTheCurveStops

(* Until then an error leaves no new ids.                                  *)
LEMMA EarlyCurve ==
  ASSUME CurveInv, stage \notin Remapped \union {"raised"}, id_map' = id_map,
         stage' \in Imported => UNCHANGED <<nodes, channel>> /\ stage \in Imported,
         stage' \notin Remapped
  PROVE  CurveInv'
<1>1. id_map = <<>> /\ id_map' = <<>>
  BY DEF CurveInv
<1>2. stage' \in Imported => NodesInside'
  BY DEF CurveInv, NodesInside, Side
<1>. QED
  BY <1>1, <1>2 DEF CurveInv, OnlyTheCurveStops

(* A node that has no new id is beyond the curve.                          *)
LEMMA OnlyBeyond ==
  ASSUME GraphInv, TracksInv, CurveInv, stage = "serialize",
         NEW i \in DOMAIN nodes, i \notin DOMAIN id_map
  PROVE  \E p \in 0 .. Order : 2 ^ p = Side
<1>1. NodesInside /\ NodesMapped /\ Measured /\ DOMAIN id_map = {j \in DOMAIN nodes : OnCurve(nodes[j])}
  BY DEF GraphInv, TracksInv, CurveInv, Marked, Imported, Remapped
<1> DEFINE n == nodes[i]
<1>2. /\ n.x_low \in Int /\ n.y_low \in Int /\ n.x_low <= Side /\ n.y_low <= Side
      /\ ~OnCurve(n) /\ Side \in Nat
  BY <1>1 DEF NodesInside, NodesMapped, Measured
<1> HIDE DEF n
<1>. QED
  BY <1>2, BeyondTheCurve

(* Every step keeps nodes within the channels, and errors to the curve.    *)
LEMMA NextCurve == ExportInv /\ TracksInv /\ CurveInv /\ [Next]_vars => CurveInv'
<1> SUFFICES ASSUME ExportInv, TracksInv, CurveInv, [Next]_vars PROVE CurveInv'
  OBVIOUS
<1>1. RowsInv /\ GraphInv
  BY DEF ExportInv
<1>2. CASE Assign
  <2>1. /\ stage \notin Remapped \union {"raised"} /\ stage' \notin Imported \union Remapped
        /\ id_map' = id_map
    BY <1>2 DEF Assign, DirectionsNext, HandleDirectionConnections, CheckReasons, HandleEdgesToChannels,
            Decide, Reduce, CheckAssignments, Imported, Remapped, vprgraph
  <2>. QED
    BY <2>1, EarlyCurve
<1>3. CASE \E e \in left : ConnectTrack(e) \/ ConnectTracks(e) \/ ConnectPins(e)
  <2>1. /\ stage \notin Remapped \union {"raised"} /\ stage' \notin Imported \union Remapped
        /\ id_map' = id_map
    BY <1>3 DEF ConnectTrack, ConnectTracks, ConnectPins, Imported, Remapped, vprgraph
  <2>. QED
    BY <2>1, EarlyCurve
<1>4. CASE MarkTrackLiveness \/ BuildChannels \/ VerifyChannels \/ FindConstantNetwork \/ AddSwitches
  <2>1. /\ stage \notin Remapped \union {"raised"} /\ stage' \notin Imported \union Remapped
        /\ id_map' = id_map
    BY <1>4 DEF MarkTrackLiveness, BuildChannels, VerifyChannels, FindConstantNetwork, AddSwitches,
            Imported, Remapped, vprgraph
  <2>. QED
    BY <2>1, EarlyCurve
<1>5. CASE ImportGraphNodes \/ ImportTracks
  <2>1. /\ stage \in {"pins", "tracks"} /\ stage' \in {"tracks", "synthetic"} /\ id_map' = id_map
        /\ stage = "pins" => ImportGraphNodes
        /\ stage = "tracks" => ImportTracks
    BY <1>5 DEF ImportGraphNodes, ImportTracks
  <2>2. LayoutTyped /\ WiresLong /\ Measured /\ ConstantAlive
    BY <2>1 DEF TracksInv, Marked, Imported
  <2>3. stage = "tracks" => NodesInside
    BY DEF CurveInv, Imported
  <2>4. NodesInside'
    BY <1>1, <2>1, <2>2, <2>3, ImportNodesInside, ImportTracksInside
  <2>5. id_map' = <<>> /\ stage' # "raised" /\ stage' \notin Remapped
    BY <2>1 DEF CurveInv, Remapped
  <2>. QED
    BY <2>4, <2>5 DEF CurveInv, OnlyTheCurveStops
<1>6. CASE AddSyntheticEdges
  <2>1. /\ stage \notin Remapped \union {"raised"} /\ stage \in Imported /\ stage' \notin Remapped
        /\ UNCHANGED <<nodes, channel, id_map>>
    BY <1>6 DEF AddSyntheticEdges, Imported, Remapped, database
  <2>. QED
    BY <2>1, EarlyCurve
<1>7. CASE CreateNodeRemap
  <2>1. /\ stage = "connected" /\ stage' = "counting" /\ UNCHANGED <<nodes, channel>>
        /\ id_map' = [i \in {j \in DOMAIN nodes : OnCurve(nodes[j])} |-> NewId(i)]
    BY <1>7 DEF CreateNodeRemap, database
  <2>2. NodesInside' /\ \A i : OnCurve(nodes[i])' <=> OnCurve(nodes[i])
    BY <2>1 DEF CurveInv, NodesInside, Side, Imported, OnCurve, Order
  <2>3. DOMAIN id_map' = {j \in DOMAIN nodes' : OnCurve(nodes[j])'}
    BY <2>1, <2>2
  <2>. QED
    BY <2>1, <2>2, <2>3 DEF CurveInv, OnlyTheCurveStops, Remapped
<1>8. CASE GetNumberGraphEdges \/ WriteNodes \/ WriteEdge \/ WriteFiles \/ UNCHANGED vars
  <2>1. UNCHANGED <<nodes, channel, id_map>>
    BY <1>8 DEF GetNumberGraphEdges, WriteNodes, WriteEdge, WriteFiles, vars, database, vprgraph
  <2>2. /\ NodesInside' <=> NodesInside
        /\ \A i : OnCurve(nodes[i])' <=> OnCurve(nodes[i])
        /\ Side' = Side /\ Order' = Order
    BY <2>1 DEF NodesInside, Side, OnCurve, Order
  <2>3. \/ stage \in Remapped /\ stage' \in Remapped
        \/ stage' = stage
        \/ stage = "serialize" /\ stage' = "raised" /\ \E i \in DOMAIN nodes : i \notin DOMAIN id_map
    <3>1. CASE WriteEdge
      BY <3>1, WriteStep
    <3>2. CASE WriteFiles
      <4>1. row > Len(edges) + Len(graph_edge) /\ stage = "writing"
        BY <3>2 DEF WriteFiles
      <4>2. Len(written) = num_edges
        BY <4>1, WritingEnds DEF ExportInv, GraphInv, WriteInv, Imported, AllCounted
      <4>. QED
        BY <3>2, <4>2 DEF WriteFiles, Remapped
    <3>3. CASE GetNumberGraphEdges \/ WriteNodes
      BY <3>3 DEF GetNumberGraphEdges, WriteNodes, Remapped
    <3>4. CASE UNCHANGED vars
      BY <3>4 DEF vars, pinvars
    <3>. QED
      BY <1>8, <3>1, <3>2, <3>3, <3>4
  <2>4. CASE stage \in Remapped /\ stage' \in Remapped
    BY <2>1, <2>2, <2>4 DEF CurveInv, Remapped, Imported, OnlyTheCurveStops
  <2>5. CASE stage' = stage
    BY <2>1, <2>2, <2>5 DEF CurveInv, OnlyTheCurveStops
  <2>6. CASE stage = "serialize" /\ stage' = "raised" /\ \E i \in DOMAIN nodes : i \notin DOMAIN id_map
    <3>1. \E p \in 0 .. Order : 2 ^ p = Side
      BY <1>1, <2>6, OnlyBeyond
    <3>2. OnlyTheCurveStops'
      BY <2>2, <3>1 DEF OnlyTheCurveStops, Side
    <3>3. stage' \notin Imported /\ stage' \notin Remapped
      BY <2>6 DEF Imported, Remapped
    <3>. QED
      BY <2>6, <3>2, <3>3 DEF CurveInv
  <2>. QED
    BY <2>3, <2>4, <2>5, <2>6
<1>. QED
  BY <1>2, <1>3, <1>4, <1>5, <1>6, <1>7, <1>8 DEF Next

(* Once nodes are renumbered, only a grid whose side is a power of two     *)
(* keeps its graph from being written (create_node_remap of                *)
(* lib/rr_graph_capnp/graph2.py): every node is within the channels.       *)
THEOREM CurveStopsOnly == Spec => []OnlyTheCurveStops
<1>1. Init => TracksInv /\ CurveInv
  <2>1. Init => CurveInv
    BY DEF Init, DirectionsInit, CurveInv, OnlyTheCurveStops, Imported, Remapped
  <2>. QED
    BY <2>1, InitTracks
<1>2. ExportInv /\ TracksInv /\ CurveInv /\ [Next]_vars => TracksInv' /\ CurveInv'
  BY NextTracks, NextCurve DEF ExportInv
<1>3. CurveInv => OnlyTheCurveStops
  BY DEF CurveInv
<1>4. Spec => []ExportInv
  BY ExportAlways
<1>. QED
  BY <1>1, <1>2, <1>3, <1>4, PTL DEF Spec
-----------------------------------------------------------------------------
(* Reached is the least set with the start that links do not lead out of.  *)
LEMMA ReachedIsClosure ==
  ASSUME NEW links, IsFiniteSet(links), NEW from
  PROVE  /\ from \in Reached(links, from)
         /\ \A l \in links : l[1] \in Reached(links, from) => l[2] \in Reached(links, from)
         /\ \A C : from \in C /\ (\A l \in links : l[1] \in C => l[2] \in C)
                   => Reached(links, from) \subseteq C
<1> DEFINE Step(is) == is \union {l[2] : l \in {m \in links : m[1] \in is}}
           N == Cardinality(links)
           In == [l \in links |-> {l[1]}]
           Out == [l \in links |-> {l[2]}]
           R == CHOOSE r : r = [n \in 0 .. N |-> IF n = 0 THEN {from} ELSE Step(r[n - 1])]
<1>1. \A is : Grown(is, links, In, Out) = Step(is)
  BY DEF Grown
<1>2. N \in Nat
  BY FS_CardinalityType
<1>3. Grows(R, N, {from}, links, In, Out)
  <2>1. PICK r : Grows(r, N, {from}, links, In, Out)
    <3> HIDE DEF In, Out, N
    <3>. QED
      BY <1>2, GrowthExists
  <2> HIDE DEF In, Out, N
  <2>2. r = [n \in 0 .. N |-> IF n = 0 THEN {from} ELSE Step(r[n - 1])]
    BY <1>1, <2>1 DEF Grows
  <2> HIDE DEF Step
  <2>3. R = [n \in 0 .. N |-> IF n = 0 THEN {from} ELSE Step(R[n - 1])]
    BY <2>2
  <2> HIDE DEF R
  <2>. QED
    BY <1>1, <2>3 DEF Grows, Step
<1>4. Reached(links, from) = R[N]
  BY DEF Reached
<1>5. \A C : IsClosed(C, links, In, Out) <=> \A l \in links : l[1] \in C => l[2] \in C
  BY DEF IsClosed
<1> HIDE DEF R, In, Out
<1>6. /\ {from} \subseteq R[N] /\ IsClosed(R[N], links, In, Out)
      /\ \A C : {from} \subseteq C /\ IsClosed(C, links, In, Out) => R[N] \subseteq C
  BY <1>3, GrowthIsClosure
<1>. QED
  BY <1>4, <1>5, <1>6

(* Nodes keep what they reach when they get other names.                   *)
LEMMA ReachedRenamed ==
  ASSUME NEW L, IsFiniteSet(L), NEW K, IsFiniteSet(K), NEW f, NEW D,
         \A i, j \in D : f[i] = f[j] => i = j,
         \A l \in L : l[1] \in D /\ l[2] \in D,
         K = {<<f[l[1]], f[l[2]]>> : l \in L},
         NEW i \in D, NEW j \in D
  PROVE  f[j] \in Reached(K, f[i]) <=> j \in Reached(L, i)
<1> DEFINE A == {f[k] : k \in D \intersect Reached(L, i)}
           B == {k \in D : f[k] \in Reached(K, f[i])}
<1>1. Reached(K, f[i]) \subseteq A
  <2>1. f[i] \in A
    BY ReachedIsClosure
  <2>2. ASSUME NEW k \in K, k[1] \in A PROVE k[2] \in A
    <3>1. PICK l \in L : k = <<f[l[1]], f[l[2]]>>
      OBVIOUS
    <3>2. PICK n \in D \intersect Reached(L, i) : k[1] = f[n]
      BY <2>2
    <3>3. l[1] = n
      BY <3>1, <3>2
    <3>4. l[2] \in D \intersect Reached(L, i)
      BY <3>2, <3>3, ReachedIsClosure
    <3>. QED
      BY <3>1, <3>4
  <2> HIDE DEF A
  <2>3. \A C : f[i] \in C /\ (\A k \in K : k[1] \in C => k[2] \in C) => Reached(K, f[i]) \subseteq C
    BY ReachedIsClosure
  <2>. QED
    BY <2>1, <2>2, <2>3
<1>2. Reached(L, i) \subseteq B
  <2>1. i \in B
    BY ReachedIsClosure
  <2>2. ASSUME NEW l \in L, l[1] \in B PROVE l[2] \in B
    <3>1. <<f[l[1]], f[l[2]]>> \in K
      OBVIOUS
    <3>2. l[2] \in D /\ f[l[1]] \in Reached(K, f[i])
      BY <2>2
    <3>3. \A k \in D : f[k] \in Reached(K, f[i]) => k \in B
      OBVIOUS
    <3> HIDE DEF B
    <3>4. \A k \in K : k[1] \in Reached(K, f[i]) => k[2] \in Reached(K, f[i])
      BY ReachedIsClosure
    <3>5. f[l[2]] \in Reached(K, f[i])
      BY <3>1, <3>2, <3>4
    <3>. QED
      BY <3>2, <3>3, <3>5
  <2> HIDE DEF B
  <2>3. \A C : i \in C /\ (\A l \in L : l[1] \in C => l[2] \in C) => Reached(L, i) \subseteq C
    BY ReachedIsClosure
  <2>. QED
    BY <2>1, <2>2, <2>3
<1>. QED
  BY <1>1, <1>2

-----------------------------------------------------------------------------
(* What is assumed of pins, pips, muxes, crossings and synthetic pins.     *)
PinsTyped ==
  /\ pips \subseteq [pin : Keys, tile : Tiles, track : Tracks]
  /\ muxes \subseteq [from : Outputs, to : Keys \ Outputs, src : Tiles, dst : Tiles]
  /\ crossings \subseteq [from : Tracks, to : Tracks, at : Nat \X Nat, backward : BOOLEAN]
  /\ \A p \in region.pins : p.track \in Tracks /\ p.port \in {"input", "output", "VCC"} /\ p.z \in Nat
  /\ \A p, q \in {r \in region.pins : r.port # "VCC"} :
       /\ p.loc = q.loc => p.tile = q.tile
       /\ p.tile = q.tile /\ p.port = q.port /\ p.z = q.z => p = q

(* A device is one of those assumed.                                       *)
LEMMA InitPins == Init => PinsTyped
<1> SUFFICES ASSUME Init PROVE PinsTyped
  OBVIOUS
<1>1. PICK v \in Devices : /\ pips = v.pips /\ muxes = v.muxes
                           /\ crossings = v.crossings /\ region = v.region
  BY DEF Init, DirectionsInit
<1>. QED
  BY <1>1, PinAssumption DEF PinsTyped

(* Pips, muxes and crossings are told apart.                               *)
LEMMA KindsApart ==
  ASSUME PinsTyped
  PROVE  pips \intersect muxes = {} /\ pips \intersect crossings = {} /\ muxes \intersect crossings = {}
<1>1. \A p \in pips : DOMAIN p = {"pin", "tile", "track"}
  BY DEF PinsTyped
<1>2. \A m \in muxes : DOMAIN m = {"from", "to", "src", "dst"}
  BY DEF PinsTyped
<1>3. \A s \in crossings : DOMAIN s = {"from", "to", "at", "backward"}
  BY DEF PinsTyped
<1>. QED
  BY <1>1, <1>2, <1>3

-----------------------------------------------------------------------------
(* The links of rows, and of the graph.                                    *)
LinksOf(s) == {<<r.src, r.dst>> : r \in ToSet(s)}

(* A graph node for the wire of a pip, the segment of its track that joins *)
(* the pin, and the side of the pin there.                                 *)
WireOf(p) == <<"wire", p.pin, p.tile>>
TrackAt(p) == <<"track", p.track, Joins(p.track, Place[p.tile], Meets(p))>>
PinAt(p) == <<"pin", p.pin, p.tile, SideOf(segments[p.track][Joins(p.track, Place[p.tile], Meets(p))], Place[p.tile])>>
PipLinks(p) ==
  IF p.pin \in Outputs THEN {<<PinAt(p), WireOf(p)>>, <<WireOf(p), TrackAt(p)>>}
                       ELSE {<<TrackAt(p), WireOf(p)>>, <<WireOf(p), PinAt(p)>>}

(* The link of a crossing.                                                 *)
CrossLink(s) ==
  <<<<"track", s.from, Joins(s.from, s.at, Alongside(s.from, s.at))>>,
    <<"track", s.to, Joins(s.to, s.at, Alongside(s.to, s.at))>>>>

IsMuxLink(l, m) ==
  \E d \in final[m.from], e \in final[m.to] : l = <<<<"pin", m.from, m.src, d>>, <<"pin", m.to, m.dst, e>>>>

ShortLinks == {<<r.src, r.dst>> : r \in Shorts}

(* What a link is of, when some pips and muxes are still open.             *)
Explained(l, open) ==
  \/ l \in ShortLinks
  \/ \E p \in pips \ open : ~Reserved(p) /\ Meets(p) # {} /\ l \in PipLinks(p)
  \/ \E s \in crossings \ open : ~Reserved(s) /\ l = CrossLink(s)
  \/ \E m \in muxes \ open : IsMuxLink(l, m)

(* Links are those of segments and of what is no longer open, and wires    *)
(* have a segment.                                                         *)
LinksRight(links, open, wires) ==
  /\ \A l \in links : Explained(l, open)
  /\ ShortLinks \subseteq links
  /\ \A p \in pips \ open : ~Reserved(p) =>
       Meets(p) # {} /\ PipLinks(p) \subseteq links /\ WireOf(p) \in wires
  /\ \A s \in crossings \ open : ~Reserved(s) =>
       /\ Alongside(s.from, s.at) # {} /\ Alongside(s.to, s.at) # {}
       /\ CrossLink(s) \in links
  /\ \A m \in muxes \ open : \E l \in links : IsMuxLink(l, m)

Early == {"direct", "reasons", "channels", "process"}

(* At every stage, until an error: first nothing is made, and then all is. *)
LinksInv ==
  /\ PinsTyped
  /\ \A k \in Keys \ todo : final[k] # {}
  /\ stage \notin Early \union {"raised"} => todo = {}
  /\ stage \in Early => pips \union muxes \union crossings \subseteq left
  /\ stage \in Marked => left = {}
  /\ stage # "raised" => LinksRight(LinksOf(graph_edge), left, DOMAIN wire_node)

-----------------------------------------------------------------------------
(* Links of a longer sequence.                                             *)
LEMMA LinksAppended ==
  ASSUME NEW s, s \in Seq(Range(s)), NEW r
  PROVE  LinksOf(Append(s, r)) = LinksOf(s) \union {<<r.src, r.dst>>}
<1>1. ToSet(Append(s, r)) = ToSet(s) \union {r}
  <2>1. /\ Len(s) \in Nat /\ DOMAIN s = 1 .. Len(s) /\ DOMAIN Append(s, r) = 1 .. Len(s) + 1
        /\ \A i \in DOMAIN s : Append(s, r)[i] = s[i]
        /\ Append(s, r)[Len(s) + 1] = r
    BY Appended
  <2>2. ToSet(Append(s, r)) \subseteq ToSet(s) \union {r}
    BY <2>1 DEF ToSet
  <2>3. ToSet(s) \subseteq ToSet(Append(s, r))
    <3>1. \A i \in DOMAIN s : i \in DOMAIN Append(s, r)
      BY <2>1
    <3>. QED
      BY <2>1, <3>1 DEF ToSet
  <2>4. r \in ToSet(Append(s, r))
    BY <2>1 DEF ToSet
  <2>. QED
    BY <2>2, <2>3, <2>4
<1>. QED
  BY <1>1 DEF LinksOf

(* A pip gets its links.                                                   *)
LEMMA PipLinked ==
  ASSUME PinsTyped, NEW links, NEW open, NEW wires, LinksRight(links, open, wires),
         NEW p \in pips, Meets(p) # {}, ~Reserved(p)
  PROVE  LinksRight(links \union PipLinks(p), open \ {p}, wires \union {WireOf(p)})
<1>1. p \notin muxes /\ p \notin crossings
  BY KindsApart
<1>2. /\ pips \ (open \ {p}) = (pips \ open) \union {p}
      /\ muxes \ (open \ {p}) = muxes \ open
      /\ crossings \ (open \ {p}) = crossings \ open
  BY <1>1
<1>3. \A l \in links \union PipLinks(p) : Explained(l, open \ {p})
  BY <1>2 DEF LinksRight, Explained
<1>. QED
  BY <1>2, <1>3 DEF LinksRight

(* So does a crossing.                                                     *)
LEMMA CrossingLinked ==
  ASSUME PinsTyped, NEW links, NEW open, NEW wires, LinksRight(links, open, wires),
         NEW s \in crossings, Alongside(s.from, s.at) # {}, Alongside(s.to, s.at) # {}, ~Reserved(s)
  PROVE  LinksRight(links \union {CrossLink(s)}, open \ {s}, wires)
<1>1. s \notin muxes /\ s \notin pips
  BY KindsApart
<1>2. /\ pips \ (open \ {s}) = pips \ open
      /\ muxes \ (open \ {s}) = muxes \ open
      /\ crossings \ (open \ {s}) = (crossings \ open) \union {s}
  BY <1>1
<1>3. \A l \in links \union {CrossLink(s)} : Explained(l, open \ {s})
  BY <1>2 DEF LinksRight, Explained
<1>. QED
  BY <1>2, <1>3 DEF LinksRight

(* And a mux, one link for some of its sides.                              *)
LEMMA MuxLinked ==
  ASSUME PinsTyped, NEW links, NEW open, NEW wires, LinksRight(links, open, wires),
         NEW m \in muxes, NEW l, IsMuxLink(l, m)
  PROVE  LinksRight(links \union {l}, open \ {m}, wires)
<1>1. m \notin crossings /\ m \notin pips
  BY KindsApart
<1>2. /\ pips \ (open \ {m}) = pips \ open
      /\ muxes \ (open \ {m}) = (muxes \ open) \union {m}
      /\ crossings \ (open \ {m}) = crossings \ open
  BY <1>1
<1>3. \A k \in links \union {l} : Explained(k, open \ {m})
  BY <1>2 DEF LinksRight, Explained
<1>. QED
  BY <1>2, <1>3 DEF LinksRight

(* A reserved pip has none.                                                *)
LEMMA ReservedUnlinked ==
  ASSUME PinsTyped, NEW links, NEW open, NEW wires, LinksRight(links, open, wires),
         NEW p \in pips \union crossings, Reserved(p)
  PROVE  LinksRight(links, open \ {p}, wires)
<1>1. p \notin muxes
  BY KindsApart
<1>2. /\ pips \ (open \ {p}) \subseteq (pips \ open) \union {p}
      /\ muxes \ (open \ {p}) = muxes \ open
      /\ crossings \ (open \ {p}) \subseteq (crossings \ open) \union {p}
  BY <1>1
<1>3. \A l \in links : Explained(l, open \ {p})
  BY <1>2 DEF LinksRight, Explained
<1>. QED
  BY <1>2, <1>3 DEF LinksRight

-----------------------------------------------------------------------------
(* Nothing that links are explained by changes after the sides are chosen. *)
LEMMA SameLinks ==
  ASSUME UNCHANGED <<device, rest, final>>
  PROVE  \A links, open, wires : LinksRight(links, open, wires)' <=> LinksRight(links, open, wires)
<1>1. UNCHANGED <<segments, pips, muxes, crossings, region, final>>
  BY DEF device, rest
<1>2. \A p : Reserved(p)' <=> Reserved(p)
  BY <1>1 DEF Reserved, InputOnly, OutputOnly, TracksFor
<1>3. \A p : Meets(p)' = Meets(p)
  BY <1>1 DEF Meets
<1>4. \A p : PipLinks(p)' = PipLinks(p) /\ WireOf(p)' = WireOf(p)
  <2>1. \A p : Joins(p.track, Place[p.tile], Meets(p))' = Joins(p.track, Place[p.tile], Meets(p))
    BY <1>1, <1>3 DEF Joins
  <2>. QED
    BY <1>1, <2>1 DEF PipLinks, PinAt, WireOf, TrackAt
<1>5. \A w, place : Alongside(w, place)' = Alongside(w, place)
  BY <1>1 DEF Alongside
<1>6. \A s : CrossLink(s)' = CrossLink(s)
  <2>1. \A w, place : Joins(w, place, Alongside(w, place))' = Joins(w, place, Alongside(w, place))
    BY <1>1, <1>5 DEF Joins
  <2>. QED
    BY <2>1 DEF CrossLink
<1>7. \A l, m : IsMuxLink(l, m)' <=> IsMuxLink(l, m)
  BY <1>1 DEF IsMuxLink
<1>8. ShortLinks' = ShortLinks
  BY <1>1 DEF ShortLinks, Shorts, OnePerSide
<1>9. \A l, open : Explained(l, open)' <=> Explained(l, open)
  BY <1>1, <1>2, <1>3, <1>4, <1>6, <1>7, <1>8 DEF Explained
<1>. QED
  BY <1>1, <1>2, <1>3, <1>4, <1>5, <1>6, <1>7, <1>8, <1>9 DEF LinksRight

(* While all is open the links are those of segments.                      *)
LEMMA OpenLinks ==
  ASSUME NEW open, pips \union muxes \union crossings \subseteq open, NEW links, NEW wires
  PROVE  LinksRight(links, open, wires) <=> links = ShortLinks
<1>1. pips \ open = {} /\ muxes \ open = {} /\ crossings \ open = {}
  OBVIOUS
<1>2. \A l : Explained(l, open) <=> l \in ShortLinks
  BY <1>1 DEF Explained
<1>. QED
  BY <1>1, <1>2 DEF LinksRight

(* The device stays.                                                       *)
LEMMA SamePins ==
  ASSUME PinsTyped, UNCHANGED <<device, rest>>
  PROVE  PinsTyped'
BY DEF PinsTyped, device, rest

(* At first there are the rows of tracks.                                  *)
LEMMA InitLinks == Init => LinksInv
<1> SUFFICES ASSUME Init PROVE LinksInv
  OBVIOUS
<1>1. /\ left = pips \union muxes \union crossings /\ graph_edge = Listed(Shorts)
      /\ todo = Keys /\ stage = "direct"
  BY DEF Init, DirectionsInit
<1>2. ToSet(graph_edge) = Shorts
  BY <1>1, ShortsFinite, ListedOnce, InitDevice DEF Lists
<1>3. LinksOf(graph_edge) = ShortLinks
  BY <1>2 DEF LinksOf, ShortLinks
<1>4. LinksRight(LinksOf(graph_edge), left, DOMAIN wire_node)
  BY <1>1, <1>3, OpenLinks
<1>. QED
  BY <1>1, <1>4, InitPins DEF LinksInv, Early, Marked, Imported

(* While the sides are chosen nothing is made.                             *)
LEMMA AssignLinks ==
  ASSUME SidesInv, LinksInv, Assign
  PROVE  LinksInv'
<1>1. /\ UNCHANGED <<device, rest, left, graph_edge, wire_node>>
      /\ stage \in Early /\ stage' \in Early \union {"assigned", "raised"}
      /\ stage' = "assigned" => todo' = {}
  BY DEF Assign, DirectionsNext, HandleDirectionConnections, CheckReasons, HandleEdgesToChannels,
         Decide, Reduce, CheckAssignments, Early, database
<1>2. pips \union muxes \union crossings \subseteq left
  BY <1>1 DEF LinksInv
<1>3. PinsTyped' /\ (pips \union muxes \union crossings \subseteq left)'
  BY <1>1, <1>2, SamePins DEF LinksInv, device, rest
<1>4. LinksRight(LinksOf(graph_edge), left, DOMAIN wire_node)'
  <2>1. stage # "raised"
    BY <1>1 DEF Early
  <2>2. LinksOf(graph_edge) = ShortLinks
    BY <1>2, <2>1, OpenLinks DEF LinksInv
  <2>3. ShortLinks' = ShortLinks /\ LinksOf(graph_edge)' = LinksOf(graph_edge)
    BY <1>1 DEF ShortLinks, Shorts, OnePerSide, LinksOf, device
  <2>4. pips' = pips /\ muxes' = muxes /\ crossings' = crossings /\ left' = left
    BY <1>1 DEF device, rest
  <2>5. pips' \ left' = {} /\ muxes' \ left' = {} /\ crossings' \ left' = {}
    BY <1>2, <2>4
  <2>. QED
    BY <2>2, <2>3, <2>5 DEF LinksRight, Explained
<1>5. \A k \in Keys \ todo' : final'[k] # {}
  <2>1. CASE UNCHANGED <<final, todo>>
    BY <2>1 DEF LinksInv
  <2>2. CASE \E k \in Keys : Decide(k)
    <3>1. PICK k \in Keys : Decide(k)
      BY <2>2
    <3>2. todo' = todo \ {k} /\ \E D : D # {} /\ final' = [final EXCEPT ![k] = D]
      <4>1. CASE Available(k) = {} /\ final' = [final EXCEPT ![k] = {"RIGHT"}]
        BY <3>1, <4>1 DEF Decide
      <4>2. CASE \E d \in Common(k) : final' = [final EXCEPT ![k] = {d}]
        BY <3>1, <4>2 DEF Decide
      <4>3. CASE Available(k) # {} /\ Common(k) = {} /\ final' = [final EXCEPT ![k] = UNION Available(k)]
        <5>1. UNION Available(k) # {}
          BY <4>3 DEF Available
        <5>. QED
          BY <3>1, <4>3, <5>1 DEF Decide
      <4>. QED
        BY <3>1, <4>1, <4>2, <4>3 DEF Decide
    <3>3. PICK D : D # {} /\ final' = [final EXCEPT ![k] = D]
      BY <3>2
    <3>. QED
      BY <3>2, <3>3 DEF LinksInv, SidesInv
  <2>3. CASE \E k \in Keys : Reduce(k)
    <3>1. PICK k \in Keys : Reduce(k)
      BY <2>3
    <3>2. todo' = todo /\ (final' = final \/ \E d \in Needless(k) : final' = [final EXCEPT ![k] = @ \ {d}])
      BY <3>1 DEF Reduce
    <3>3. ASSUME NEW d \in Needless(k), final' = [final EXCEPT ![k] = @ \ {d}]
          PROVE  final[k] \ {d} # {}
      <4>1. Cardinality(final[k]) > 2 /\ d \in final[k]
        BY DEF Needless
      <4>2. ASSUME final[k] = {d} PROVE FALSE
        <5>1. Cardinality(final[k]) = 1
          BY <4>2, OneSide
        <5>. QED
          BY <4>1, <5>1
      <4>. QED
        BY <4>1, <4>2
    <3>4. ASSUME NEW j \in Keys \ todo PROVE final'[j] # {}
      <4>1. final[j] # {}
        BY DEF LinksInv
      <4>2. CASE final' = final
        BY <4>1, <4>2
      <4>3. CASE \E d \in Needless(k) : final' = [final EXCEPT ![k] = @ \ {d}]
        BY <3>3, <4>1, <4>3 DEF SidesInv
      <4>. QED
        BY <3>2, <4>2, <4>3
    <3>. QED
      BY <3>2, <3>4
  <2>. QED
    BY <2>1, <2>2, <2>3
    DEF Assign, DirectionsNext, HandleDirectionConnections, CheckReasons, HandleEdgesToChannels, CheckAssignments
<1>6. stage' \notin Marked
  BY <1>1 DEF Early, Marked, Imported
<1>. QED
  BY <1>1, <1>3, <1>4, <1>5, <1>6 DEF LinksInv

-----------------------------------------------------------------------------
(* The ends of rows.                                                       *)
LEMMA EndsOfRows ==
  /\ \A src, dst, sw : Row(src, dst, sw).src = src /\ Row(src, dst, sw).dst = dst
  /\ \A src, dst, p : Via(src, dst, p).src = src /\ Via(src, dst, p).dst = dst
BY DEF Row, Via

(* A pip of a pin is linked.                                               *)
LEMMA TrackLinks ==
  ASSUME RowsInv, LinksInv, NEW p, ConnectTrack(p)
  PROVE  LinksInv'
<1> DEFINE track == TrackAt(p)
           wire == WireOf(p)
           pin == PinAt(p)
           a == IF p.pin \in Outputs THEN Row(pin, wire, SitePin) ELSE Via(track, wire, p)
           b == IF p.pin \in Outputs THEN Via(wire, track, p) ELSE Row(wire, pin, SitePin)
<1>1. /\ stage = "assigned" /\ p \in left \intersect pips /\ left' = left \ {p}
      /\ UNCHANGED directions
      /\ Reserved(p) => UNCHANGED <<stage, graph_edge, wire_node>>
      /\ ~Reserved(p) /\ Meets(p) = {} => stage' = "raised"
      /\ ~Reserved(p) /\ Meets(p) # {} =>
           /\ graph_edge' = graph_edge \o <<a, b>>
           /\ DOMAIN wire_node' = DOMAIN wire_node \union {wire}
           /\ UNCHANGED stage
  BY DEF ConnectTrack, TrackAt, WireOf, PinAt
<1>2. UNCHANGED <<device, rest, final, todo>>
  BY <1>1 DEF directions
<1>3. PinsTyped /\ PinsTyped'
  BY <1>2, SamePins DEF LinksInv
<1>4. LinksRight(LinksOf(graph_edge), left, DOMAIN wire_node)
  BY <1>1 DEF LinksInv
<1>5. CASE Reserved(p)
  <2>1. LinksRight(LinksOf(graph_edge), left \ {p}, DOMAIN wire_node)
    BY <1>1, <1>3, <1>4, <1>5, ReservedUnlinked
  <2>2. LinksOf(graph_edge)' = LinksOf(graph_edge)
    BY <1>1, <1>5 DEF LinksOf
  <2>3. LinksRight(LinksOf(graph_edge), left, DOMAIN wire_node)'
    BY <1>1, <1>2, <1>5, <2>1, <2>2, SameLinks
  <2>. QED
    BY <1>1, <1>2, <1>3, <1>5, <2>3 DEF LinksInv, Early, Marked, Imported
<1>6. CASE ~Reserved(p) /\ Meets(p) = {}
  BY <1>1, <1>2, <1>3, <1>6 DEF LinksInv, Early, Marked, Imported
<1>7. CASE ~Reserved(p) /\ Meets(p) # {}
  <2>1. LinksRight(LinksOf(graph_edge) \union PipLinks(p), left \ {p}, DOMAIN wire_node \union {wire})
    BY <1>1, <1>3, <1>4, <1>7, PipLinked
  <2>2. graph_edge \in Seq(Range(graph_edge))
    BY DEF RowsInv, RowsOf
  <2>3. graph_edge' = Append(Append(graph_edge, a), b)
    BY <1>1, <1>7, <2>2, AddBoth
  <2>4. {<<a.src, a.dst>>, <<b.src, b.dst>>} = PipLinks(p)
    <3>1. CASE p.pin \in Outputs
      <4>1. a.src = pin /\ a.dst = wire /\ b.src = wire /\ b.dst = track
        BY <3>1, EndsOfRows
      <4> HIDE DEF a, b
      <4>. QED
        BY <3>1, <4>1 DEF PipLinks
    <3>2. CASE p.pin \notin Outputs
      <4>1. a.src = track /\ a.dst = wire /\ b.src = wire /\ b.dst = pin
        BY <3>2, EndsOfRows
      <4> HIDE DEF a, b
      <4>. QED
        BY <3>2, <4>1 DEF PipLinks
    <3>. QED
      BY <3>1, <3>2
  <2> HIDE DEF a, b
  <2>5. LinksOf(graph_edge') = LinksOf(graph_edge) \union PipLinks(p)
    <3>1. LinksOf(Append(graph_edge, a)) = LinksOf(graph_edge) \union {<<a.src, a.dst>>}
      BY <2>2, LinksAppended
    <3>2. Append(graph_edge, a) \in Seq(Range(Append(graph_edge, a)))
      BY <2>2, Appended
    <3>3. LinksOf(Append(Append(graph_edge, a), b)) = LinksOf(Append(graph_edge, a)) \union {<<b.src, b.dst>>}
      BY <3>2, LinksAppended
    <3>. QED
      BY <2>3, <2>4, <3>1, <3>3
  <2>6. LinksOf(graph_edge)' = LinksOf(graph_edge')
    BY DEF LinksOf
  <2>7. LinksRight(LinksOf(graph_edge), left, DOMAIN wire_node)'
    BY <1>1, <1>2, <1>7, <2>1, <2>5, <2>6, SameLinks
  <2>. QED
    BY <1>1, <1>2, <1>3, <1>7, <2>7 DEF LinksInv, Early, Marked, Imported
<1>. QED
  BY <1>5, <1>6, <1>7

(* A crossing is.                                                          *)
LEMMA CrossingLinks ==
  ASSUME RowsInv, LinksInv, NEW s, ConnectTracks(s)
  PROVE  LinksInv'
<1> DEFINE r(e) == [Row(CrossLink(s)[1], CrossLink(s)[2], e) EXCEPT !.pip = {s}, !.backward = s.backward]
<1>1. /\ stage = "assigned" /\ s \in left \intersect crossings /\ left' = left \ {s}
      /\ UNCHANGED <<directions, wire_node>>
      /\ Reserved(s) => UNCHANGED <<stage, graph_edge>>
      /\ ~Reserved(s) /\ (Alongside(s.from, s.at) = {} \/ Alongside(s.to, s.at) = {}) => stage' = "raised"
      /\ ~Reserved(s) /\ Alongside(s.from, s.at) # {} /\ Alongside(s.to, s.at) # {} =>
           (\E e : graph_edge' = Append(graph_edge, r(e))) /\ UNCHANGED stage
  BY DEF ConnectTracks, Alongside, CrossLink
<1>2. UNCHANGED <<device, rest, final, todo>>
  BY <1>1 DEF directions
<1>3. PinsTyped /\ PinsTyped'
  BY <1>2, SamePins DEF LinksInv
<1>4. LinksRight(LinksOf(graph_edge), left, DOMAIN wire_node)
  BY <1>1 DEF LinksInv
<1>5. CASE Reserved(s)
  <2>1. LinksRight(LinksOf(graph_edge), left \ {s}, DOMAIN wire_node)
    BY <1>1, <1>3, <1>4, <1>5, ReservedUnlinked
  <2>2. LinksOf(graph_edge)' = LinksOf(graph_edge)
    BY <1>1, <1>5 DEF LinksOf
  <2>3. LinksRight(LinksOf(graph_edge), left, DOMAIN wire_node)'
    BY <1>1, <1>2, <1>5, <2>1, <2>2, SameLinks
  <2>. QED
    BY <1>1, <1>2, <1>3, <1>5, <2>3 DEF LinksInv, Early, Marked, Imported
<1>6. CASE ~Reserved(s) /\ (Alongside(s.from, s.at) = {} \/ Alongside(s.to, s.at) = {})
  BY <1>1, <1>2, <1>3, <1>6 DEF LinksInv, Early, Marked, Imported
<1>7. CASE ~Reserved(s) /\ Alongside(s.from, s.at) # {} /\ Alongside(s.to, s.at) # {}
  <2>1. LinksRight(LinksOf(graph_edge) \union {CrossLink(s)}, left \ {s}, DOMAIN wire_node)
    BY <1>1, <1>3, <1>4, <1>7, CrossingLinked
  <2>2. PICK e : graph_edge' = Append(graph_edge, r(e))
    BY <1>1, <1>7
  <2>3. <<r(e).src, r(e).dst>> = CrossLink(s)
    BY DEF Row, CrossLink
  <2> HIDE DEF r
  <2>4. graph_edge \in Seq(Range(graph_edge))
    BY DEF RowsInv, RowsOf
  <2>5. LinksOf(graph_edge)' = LinksOf(graph_edge) \union {CrossLink(s)}
    <3>1. LinksOf(graph_edge)' = LinksOf(graph_edge')
      BY DEF LinksOf
    <3>. QED
      BY <2>2, <2>3, <2>4, <3>1, LinksAppended
  <2>6. LinksRight(LinksOf(graph_edge), left, DOMAIN wire_node)'
    BY <1>1, <1>2, <2>1, <2>5, SameLinks
  <2>. QED
    BY <1>1, <1>2, <1>3, <1>7, <2>6 DEF LinksInv, Early, Marked, Imported
<1>. QED
  BY <1>5, <1>6, <1>7

(* And a mux.                                                              *)
LEMMA MuxLinks ==
  ASSUME RowsInv, LinksInv, NEW m, ConnectPins(m)
  PROVE  LinksInv'
<1> DEFINE l(e) == <<<<"pin", m.from, m.src, e[1]>>, <<"pin", m.to, m.dst, e[2]>>>>
           r(e) == [Row(l(e)[1], l(e)[2], MuxSwitch(m)) EXCEPT !.pip = {m}]
<1>1. /\ stage = "assigned" /\ m \in left \intersect muxes /\ left' = left \ {m}
      /\ UNCHANGED <<directions, wire_node>>
      /\ \/ stage' = "raised"
         \/ (\E e \in final[m.from] \X final[m.to] : graph_edge' = Append(graph_edge, r(e))) /\ UNCHANGED stage
  BY DEF ConnectPins
<1>2. UNCHANGED <<device, rest, final, todo>>
  BY <1>1 DEF directions
<1>3. PinsTyped /\ PinsTyped'
  BY <1>2, SamePins DEF LinksInv
<1>4. LinksRight(LinksOf(graph_edge), left, DOMAIN wire_node)
  BY <1>1 DEF LinksInv
<1>5. CASE stage' = "raised"
  BY <1>1, <1>2, <1>3, <1>5 DEF LinksInv, Early, Marked, Imported
<1>6. CASE UNCHANGED stage /\ \E e \in final[m.from] \X final[m.to] : graph_edge' = Append(graph_edge, r(e))
  <2>1. PICK e \in final[m.from] \X final[m.to] : graph_edge' = Append(graph_edge, r(e))
    BY <1>6
  <2>2. IsMuxLink(l(e), m)
    BY DEF IsMuxLink
  <2>3. <<r(e).src, r(e).dst>> = l(e)
    BY DEF Row
  <2> HIDE DEF r, l
  <2>4. LinksRight(LinksOf(graph_edge) \union {l(e)}, left \ {m}, DOMAIN wire_node)
    BY <1>1, <1>3, <1>4, <2>2, MuxLinked
  <2>5. graph_edge \in Seq(Range(graph_edge))
    BY DEF RowsInv, RowsOf
  <2>6. LinksOf(graph_edge)' = LinksOf(graph_edge) \union {l(e)}
    <3>1. LinksOf(graph_edge)' = LinksOf(graph_edge')
      BY DEF LinksOf
    <3>. QED
      BY <2>1, <2>3, <2>5, <3>1, LinksAppended
  <2>7. LinksRight(LinksOf(graph_edge), left, DOMAIN wire_node)'
    BY <1>1, <1>2, <2>4, <2>6, SameLinks
  <2>. QED
    BY <1>1, <1>2, <1>3, <1>6, <2>7 DEF LinksInv, Early, Marked, Imported
<1>. QED
  BY <1>1, <1>5, <1>6

(* Then links stay as they are.                                            *)
LEMMA NextLinks == RowsInv /\ SidesInv /\ LinksInv /\ [Next]_vars => LinksInv'
<1> SUFFICES ASSUME RowsInv, SidesInv, LinksInv, [Next]_vars PROVE LinksInv'
  OBVIOUS
<1>1. CASE \E e \in left : ConnectTrack(e) \/ ConnectTracks(e) \/ ConnectPins(e)
  BY <1>1, TrackLinks, CrossingLinks, MuxLinks
<1>2. CASE Assign
  BY <1>2, AssignLinks
<1>3. CASE \/ MarkTrackLiveness \/ BuildChannels \/ VerifyChannels
           \/ FindConstantNetwork \/ AddSwitches \/ ImportGraphNodes \/ ImportTracks
           \/ AddSyntheticEdges \/ CreateNodeRemap \/ GetNumberGraphEdges \/ WriteNodes
           \/ WriteEdge \/ WriteFiles \/ UNCHANGED vars
  <2>1. /\ UNCHANGED <<device, rest, final, todo, left, graph_edge, wire_node>>
        /\ \/ stage' = stage \/ stage' = "raised"
           \/ /\ stage \notin Early \union {"raised"} /\ stage' \notin Early \union {"raised"}
              /\ left = {}
    <3>1. CASE MarkTrackLiveness
      BY <3>1 DEF MarkTrackLiveness, Early, directions
    <3>2. CASE BuildChannels \/ VerifyChannels
      BY <3>2 DEF BuildChannels, VerifyChannels, LinksInv, Early, Marked, directions, database
    <3>3. CASE FindConstantNetwork \/ AddSwitches
      BY <3>3 DEF FindConstantNetwork, AddSwitches, LinksInv, Early, Marked, directions, database
    <3>4. CASE ImportGraphNodes \/ ImportTracks \/ AddSyntheticEdges
      BY <3>4 DEF ImportGraphNodes, ImportTracks, AddSyntheticEdges, LinksInv, Early, Marked, Imported, directions, database
    <3>5. CASE CreateNodeRemap \/ GetNumberGraphEdges \/ WriteNodes
      BY <3>5 DEF CreateNodeRemap, GetNumberGraphEdges, WriteNodes, LinksInv, Early, Marked, Imported, directions, database
    <3>6. CASE WriteEdge
      BY <3>6 DEF WriteEdge, Yielded, directions, database
    <3>7. CASE WriteFiles
      BY <3>7 DEF WriteFiles, LinksInv, Early, Marked, Imported, directions, database
    <3>8. CASE UNCHANGED vars
      BY <3>8 DEF vars, pinvars, directions, database
    <3>. QED
      BY <1>3, <3>1, <3>2, <3>3, <3>4, <3>5, <3>6, <3>7, <3>8
  <2>2. PinsTyped'
    BY <2>1, SamePins DEF LinksInv
  <2>3. LinksOf(graph_edge)' = LinksOf(graph_edge)
    BY <2>1 DEF LinksOf
  <2>4. stage' # "raised" => LinksRight(LinksOf(graph_edge), left, DOMAIN wire_node)'
    BY <2>1, <2>3, SameLinks DEF LinksInv
  <2>5. UNCHANGED <<pips, muxes, crossings>>
    BY <2>1 DEF device, rest
  <2>. QED
    BY <2>1, <2>2, <2>4, <2>5 DEF LinksInv, Early, Marked, Imported
<1>. QED
  BY <1>1, <1>2, <1>3 DEF Next

-----------------------------------------------------------------------------
(* A pip is left out just when it may not be used.                         *)
LEMMA UsableIsOpen ==
  ASSUME PinsTyped, NEW p \in pips \union crossings
  PROVE  Usable(p) <=> ~Reserved(p)
<1>1. \A w : /\ HasPad("output", w) <=> w \in OutputOnly
             /\ HasPad("input", w) <=> w \in InputOnly
  BY DEF HasPad, OutputOnly, InputOnly, TracksFor
<1>2. CASE p \in crossings
  <2>1. p.from \in Tracks /\ p.to \in Tracks
    BY <1>2 DEF PinsTyped
  <2>. QED
    BY <1>1, <1>2, <2>1 DEF Usable, LeadsInto, LeadsOutOf, Reserved
<1>3. CASE p \notin crossings
  <2>1. p.track \in Tracks
    BY <1>3 DEF PinsTyped
  <2>. QED
    BY <1>1, <1>3, <2>1 DEF Usable, LeadsInto, LeadsOutOf, Reserved
<1>. QED
  BY <1>2, <1>3

(* So the tracks of a pin are those of its pips that were not left out.    *)
LEMMA TracksAreOpen ==
  ASSUME PinsTyped, NEW k, NEW t
  PROVE  TracksOf(k, t) = {p.track : p \in {q \in pips : q.pin = k /\ q.tile = t /\ ~Reserved(q)}}
BY UsableIsOpen DEF TracksOf

(* A row leads neither into a track that a pad drives, nor out of one that *)
(* a pad drains, unless its pip is turned round.                           *)
KeepsPads(r) ==
  \/ r.pip = {} \/ \E p \in r.pip : p \in crossings /\ p.backward
  \/ /\ r.dst[1] = "track" => ~HasPad("output", r.dst[2])
     /\ r.src[1] = "track" => ~HasPad("input", r.src[2])

PadRowsInv == \A r \in ToSet(graph_edge) : KeepsPads(r)

(* At first no row has a pip.                                              *)
LEMMA InitPadRows == Init => PadRowsInv
<1> SUFFICES ASSUME Init, NEW r \in ToSet(graph_edge) PROVE r.pip = {}
  BY DEF PadRowsInv, KeepsPads
<1>1. Lists(graph_edge, Shorts)
  BY InitDevice, ShortsFinite, ListedOnce DEF Init
<1>2. r \in Shorts
  BY <1>1 DEF Lists
<1>3. PICK w \in Tracks :
        \E e \in (DOMAIN segments[w]) \X (DOMAIN segments[w]) :
          r = Row(<<"track", w, e[1]>>, <<"track", w, e[2]>>, Short)
  BY <1>2 DEF Shorts
<1>. QED
  BY <1>3 DEF Row

(* The set of a longer sequence.                                           *)
LEMMA SetAppended ==
  ASSUME NEW s, s \in Seq(Range(s)), NEW r
  PROVE  ToSet(Append(s, r)) \subseteq ToSet(s) \union {r}
<1>1. /\ DOMAIN s = 1 .. Len(s) /\ DOMAIN Append(s, r) = 1 .. Len(s) + 1 /\ Len(s) \in Nat
      /\ \A i \in DOMAIN s : Append(s, r)[i] = s[i]
      /\ Append(s, r)[Len(s) + 1] = r
  BY Appended
<1>. QED
  BY <1>1 DEF ToSet

(* The rows of a pip that is not left out keep pads as they are.           *)
LEMMA TrackKeepsPads ==
  ASSUME RowsInv, PinsTyped, PadRowsInv, NEW p, ConnectTrack(p)
  PROVE  \A r \in ToSet(graph_edge') : KeepsPads(r)
<1> DEFINE n == Joins(p.track, Place[p.tile], Meets(p))
           track == <<"track", p.track, n>>
           wire == <<"wire", p.pin, p.tile>>
           pin == <<"pin", p.pin, p.tile, SideOf(segments[p.track][n], Place[p.tile])>>
           a == IF p.pin \in Outputs THEN Row(pin, wire, SitePin) ELSE Via(track, wire, p)
           b == IF p.pin \in Outputs THEN Via(wire, track, p) ELSE Row(wire, pin, SitePin)
<1>1. /\ p \in pips /\ graph_edge \in Seq(Range(graph_edge))
      /\ graph_edge' = graph_edge \/ (~Reserved(p) /\ graph_edge' = graph_edge \o <<a, b>>)
  BY DEF ConnectTrack, RowsInv, RowsOf
<1>2. CASE graph_edge' = graph_edge
  BY <1>2 DEF PadRowsInv
<1>3. CASE ~Reserved(p) /\ graph_edge' = graph_edge \o <<a, b>>
  <2>1. graph_edge' = Append(Append(graph_edge, a), b)
    <3> HIDE DEF a, b
    <3>. QED
      BY <1>1, <1>3, AddBoth
  <2>2. Usable(p) /\ p \notin crossings /\ p.track \in Tracks
    BY <1>1, <1>3, UsableIsOpen, KindsApart DEF PinsTyped
  <2>3. KeepsPads(a) /\ KeepsPads(b)
    <3>1. \A x, y : /\ Row(x, y, SitePin).pip = {}
                    /\ Via(x, y, p).src = x /\ Via(x, y, p).dst = y
      BY DEF Row, Via
    <3>2. wire[1] = "wire" /\ track[1] = "track" /\ track[2] = p.track
      OBVIOUS
    <3> HIDE DEF wire, track, pin
    <3>3. CASE p.pin \in Outputs
      <4>1. a.pip = {} /\ b.src = wire /\ b.dst = track
        BY <3>1, <3>3
      <4>2. ~HasPad("output", p.track)
        BY <2>2, <3>3 DEF Usable, LeadsInto
      <4> HIDE DEF a, b
      <4>. QED
        BY <3>2, <4>1, <4>2 DEF KeepsPads
    <3>4. CASE p.pin \notin Outputs
      <4>1. b.pip = {} /\ a.src = track /\ a.dst = wire
        BY <3>1, <3>4
      <4>2. ~HasPad("input", p.track)
        BY <2>2, <3>4 DEF Usable, LeadsOutOf
      <4> HIDE DEF a, b
      <4>. QED
        BY <3>2, <4>1, <4>2 DEF KeepsPads
    <3>. QED
      BY <3>3, <3>4
  <2> HIDE DEF a, b
  <2>4. ToSet(graph_edge') \subseteq ToSet(graph_edge) \union {a, b}
    <3>1. Append(graph_edge, a) \in Seq(Range(Append(graph_edge, a)))
      BY <1>1, Appended
    <3>. QED
      BY <1>1, <2>1, <3>1, SetAppended
  <2>. QED
    BY <2>3, <2>4 DEF PadRowsInv
<1>. QED
  BY <1>1, <1>2, <1>3

(* So does the row of a crossing, which is turned or leads as it does in   *)
(* the database; and the row of a mux, which is between pins.              *)
LEMMA CrossingKeepsPads ==
  ASSUME RowsInv, PinsTyped, PadRowsInv, NEW s, ConnectTracks(s) \/ ConnectPins(s)
  PROVE  \A r \in ToSet(graph_edge') : KeepsPads(r)
<1>1. graph_edge \in Seq(Range(graph_edge))
  BY DEF RowsInv, RowsOf
<1>2. graph_edge' = graph_edge \/ \E r : KeepsPads(r) /\ graph_edge' = Append(graph_edge, r)
  <2>1. CASE ConnectTracks(s) /\ graph_edge' # graph_edge
    <3>1. PICK a, b, sw :
            graph_edge' = Append(graph_edge, [Row(<<"track", s.from, a>>, <<"track", s.to, b>>, sw)
                                                EXCEPT !.pip = {s}, !.backward = s.backward])
      BY <2>1 DEF ConnectTracks
    <3> DEFINE r == [Row(<<"track", s.from, a>>, <<"track", s.to, b>>, sw)
                       EXCEPT !.pip = {s}, !.backward = s.backward]
    <3>2. s \in crossings /\ ~Reserved(s)
      BY <2>1 DEF ConnectTracks
    <3>3. Usable(s) /\ s.from \in Tracks /\ s.to \in Tracks
      BY <3>2, UsableIsOpen DEF PinsTyped
    <3>4. r.pip = {s} /\ r.dst[2] = s.to /\ r.src[2] = s.from
      BY DEF Row
    <3> HIDE DEF r
    <3>5. ~s.backward => ~HasPad("output", s.to) /\ ~HasPad("input", s.from)
      BY <3>2, <3>3 DEF Usable, LeadsInto, LeadsOutOf
    <3>6. KeepsPads(r)
      BY <3>2, <3>4, <3>5 DEF KeepsPads
    <3>. QED
      BY <3>1, <3>6 DEF r
  <2>2. CASE ConnectPins(s) /\ graph_edge' # graph_edge
    <3>1. PICK a, b :
            graph_edge' = Append(graph_edge,
              [Row(<<"pin", s.from, s.src, a>>, <<"pin", s.to, s.dst, b>>, MuxSwitch(s)) EXCEPT !.pip = {s}])
      BY <2>2 DEF ConnectPins
    <3>2. KeepsPads([Row(<<"pin", s.from, s.src, a>>, <<"pin", s.to, s.dst, b>>, MuxSwitch(s)) EXCEPT !.pip = {s}])
      BY DEF KeepsPads, Row
    <3>. QED
      BY <3>1, <3>2
  <2>. QED
    BY <2>1, <2>2
<1>3. CASE graph_edge' = graph_edge
  BY <1>3 DEF PadRowsInv
<1>4. CASE \E r : KeepsPads(r) /\ graph_edge' = Append(graph_edge, r)
  <2>1. PICK r : KeepsPads(r) /\ graph_edge' = Append(graph_edge, r)
    BY <1>4
  <2>2. ToSet(graph_edge') \subseteq ToSet(graph_edge) \union {r}
    BY <1>1, <2>1, SetAppended
  <2>. QED
    BY <2>1, <2>2 DEF PadRowsInv
<1>. QED
  BY <1>2, <1>3, <1>4

(* Other steps make no rows.                                               *)
LEMMA NextPadRows == RowsInv /\ PinsTyped /\ PadRowsInv /\ [Next]_vars => PadRowsInv'
<1> SUFFICES ASSUME RowsInv, PinsTyped, PadRowsInv, [Next]_vars PROVE PadRowsInv'
  OBVIOUS
<1>1. UNCHANGED <<crossings, region>>
  BY DEF Next, Assign, ConnectTrack, ConnectTracks, ConnectPins, MarkTrackLiveness, BuildChannels, VerifyChannels,
         FindConstantNetwork, AddSwitches, ImportGraphNodes, ImportTracks, AddSyntheticEdges, CreateNodeRemap,
         GetNumberGraphEdges, WriteNodes, WriteEdge, WriteFiles, vars, directions, rest
<1>2. \A r : KeepsPads(r)' <=> KeepsPads(r)
  BY <1>1 DEF KeepsPads, HasPad
<1>3. \A r \in ToSet(graph_edge') : KeepsPads(r)
  <2>1. CASE \E e \in left : ConnectTrack(e) \/ ConnectTracks(e) \/ ConnectPins(e)
    BY <2>1, TrackKeepsPads, CrossingKeepsPads
  <2>2. CASE ~\E e \in left : ConnectTrack(e) \/ ConnectTracks(e) \/ ConnectPins(e)
    <3>1. graph_edge' = graph_edge
      BY <2>2 DEF Next, Assign, MarkTrackLiveness, BuildChannels, VerifyChannels,
         FindConstantNetwork, AddSwitches, ImportGraphNodes, ImportTracks, AddSyntheticEdges, CreateNodeRemap,
         GetNumberGraphEdges, WriteNodes, WriteEdge, WriteFiles, vars, database
    <3>. QED
      BY <3>1 DEF PadRowsInv
  <2>. QED
    BY <2>1, <2>2
<1>. QED
  BY <1>2, <1>3 DEF PadRowsInv, ToSet

-----------------------------------------------------------------------------
(* What leads into a graph node, and where it leads.                       *)
Into(links, g) == {l[1] : l \in {k \in links : k[2] = g}}
OutOf(links, g) == {l[2] : l \in {k \in links : k[1] = g}}

LivesBy(links, g) ==
  \/ g[1] = "track" /\ g[2] \in InputOnly \union OutputOnly
  \/ /\ Into(links, g) # {} /\ OutOf(links, g) # {}
     /\ Cardinality(Into(links, g) \union OutOf(links, g)) > 1

(* The track of a graph node that lives is alive.                          *)
AliveInv ==
  stage \in Marked => \A g \in TrackNodes : LivesBy(LinksOf(graph_edge), g) => TrackOf(g) \in alive

(* mark_track_liveness looks at rows, which is as well as links.           *)
LEMMA MarksLiving ==
  ASSUME MarkTrackLiveness
  PROVE  AliveInv'
<1> DEFINE rows == ToSet(graph_edge)
           From(g) == {e.src : e \in {r \in rows : r.dst = g}}
           To(g) == {e.dst : e \in {r \in rows : r.src = g}}
           Lives(g) == \/ g[1] = "track" /\ g[2] \in InputOnly \union OutputOnly
                       \/ From(g) # {} /\ To(g) # {} /\ Cardinality(From(g) \union To(g)) > 1
           links == LinksOf(graph_edge)
<1>1. alive' = {TrackOf(g) : g \in {h \in TrackNodes : Lives(h)}}
  BY DEF MarkTrackLiveness
<1>2. \A g : From(g) = Into(links, g) /\ To(g) = OutOf(links, g)
  <2> HIDE DEF rows
  <2>1. links = {<<r.src, r.dst>> : r \in rows}
    BY DEF LinksOf, rows
  <2> HIDE DEF links
  <2>2. ASSUME NEW g PROVE From(g) \subseteq Into(links, g) /\ To(g) \subseteq OutOf(links, g)
    <3>1. ASSUME NEW r \in rows, r.dst = g PROVE r.src \in Into(links, g)
      <4>1. <<r.src, r.dst>> \in links
        BY <2>1
      <4>. QED
        BY <3>1, <4>1 DEF Into
    <3>2. ASSUME NEW r \in rows, r.src = g PROVE r.dst \in OutOf(links, g)
      <4>1. <<r.src, r.dst>> \in links
        BY <2>1
      <4>. QED
        BY <3>2, <4>1 DEF OutOf
    <3>. QED
      BY <3>1, <3>2
  <2>3. ASSUME NEW g PROVE Into(links, g) \subseteq From(g) /\ OutOf(links, g) \subseteq To(g)
    BY <2>1 DEF Into, OutOf
  <2>. QED
    BY <2>2, <2>3
<1>3. \A g : Lives(g) <=> LivesBy(links, g)
  <2> HIDE DEF From, To, links
  <2>. QED
    BY <1>2 DEF LivesBy
<1>4. \A g \in TrackNodes : LivesBy(links, g) => TrackOf(g) \in alive'
  <2> HIDE DEF Lives, links
  <2>. QED
    BY <1>1, <1>3
<1>5. UNCHANGED <<segments, region, graph_edge, wire_node>>
  BY DEF MarkTrackLiveness, directions, device, rest
<1>6. TrackNodes' = TrackNodes /\ \A g : TrackOf(g)' = TrackOf(g)
  BY <1>5 DEF TrackNodes, TrackOf
<1>7. links' = links
  BY <1>5 DEF LinksOf
<1>8. \A g : LivesBy(links, g)' <=> LivesBy(links, g)
  <2>1. InputOnly' = InputOnly /\ OutputOnly' = OutputOnly
    BY <1>5 DEF InputOnly, OutputOnly, TracksFor
  <2> HIDE DEF links
  <2>. QED
    BY <2>1, <1>7 DEF LivesBy, Into, OutOf
<1>. QED
  <2> HIDE DEF links
  <2>. QED
    BY <1>4, <1>6, <1>8 DEF AliveInv, links

(* Marked tracks stay as they are, with all they are made of.              *)
LEMMA MarkedStays ==
  ASSUME [Next]_vars, ~MarkTrackLiveness
  PROVE  stage' \in Marked =>
           stage \in Marked /\ UNCHANGED <<directions, left, graph_edge, wire_node, alive>>
<1>1. CASE \E e \in left : ConnectTrack(e) \/ ConnectTracks(e) \/ ConnectPins(e)
  <2>1. PICK e \in left : ConnectTrack(e) \/ ConnectTracks(e) \/ ConnectPins(e)
    BY <1>1
  <2>2. stage' = "assigned" \/ stage' = "raised"
    <3>1. CASE ConnectTrack(e)
      BY <3>1 DEF ConnectTrack
    <3>2. CASE ConnectTracks(e)
      BY <3>2 DEF ConnectTracks
    <3>3. CASE ConnectPins(e)
      BY <3>3 DEF ConnectPins
    <3>. QED
      BY <2>1, <3>1, <3>2, <3>3
  <2>. QED
    BY <2>2 DEF Marked, Imported
<1>2. CASE Assign
  BY <1>2 DEF Assign, DirectionsNext, HandleDirectionConnections, CheckReasons, HandleEdgesToChannels,
              Decide, Reduce, CheckAssignments, Marked, Imported
<1>3. CASE BuildChannels \/ VerifyChannels \/ FindConstantNetwork \/ AddSwitches
  BY <1>3 DEF BuildChannels, VerifyChannels, FindConstantNetwork, AddSwitches, Marked, database
<1>4. CASE ImportGraphNodes \/ ImportTracks \/ AddSyntheticEdges
  BY <1>4 DEF ImportGraphNodes, ImportTracks, AddSyntheticEdges, Marked, Imported, database
<1>5. CASE CreateNodeRemap \/ GetNumberGraphEdges \/ WriteNodes
  BY <1>5 DEF CreateNodeRemap, GetNumberGraphEdges, WriteNodes, Marked, Imported, database
<1>6. CASE WriteEdge \/ WriteFiles
  BY <1>6 DEF WriteEdge, WriteFiles, Marked, Imported, database
<1>7. CASE UNCHANGED vars
  BY <1>7 DEF vars, pinvars, directions, database
<1>. QED
  BY <1>1, <1>2, <1>3, <1>4, <1>5, <1>6, <1>7 DEF Next

(* Every step keeps them alive.                                            *)
LEMMA NextAlive == AliveInv /\ [Next]_vars => AliveInv'
<1> SUFFICES ASSUME AliveInv, [Next]_vars PROVE AliveInv'
  OBVIOUS
<1>1. CASE MarkTrackLiveness
  BY <1>1, MarksLiving
<1>2. CASE ~MarkTrackLiveness
  <2> SUFFICES ASSUME stage' \in Marked PROVE AliveInv'
    BY DEF AliveInv
  <2>1. stage \in Marked /\ UNCHANGED <<segments, region, graph_edge, wire_node, alive>>
    BY <1>2, MarkedStays DEF directions, device, rest
  <2>2. TrackNodes' = TrackNodes /\ \A g : TrackOf(g)' = TrackOf(g)
    BY <2>1 DEF TrackNodes, TrackOf
  <2>3. InputOnly' = InputOnly /\ OutputOnly' = OutputOnly
    BY <2>1 DEF InputOnly, OutputOnly, TracksFor
  <2>4. LinksOf(graph_edge)' = LinksOf(graph_edge)
    BY <2>1 DEF LinksOf
  <2>5. \A g : LivesBy(LinksOf(graph_edge), g)' <=> LivesBy(LinksOf(graph_edge), g)
    BY <2>3, <2>4 DEF LivesBy, Into, OutOf
  <2>. QED
    BY <2>1, <2>2, <2>5 DEF AliveInv
<1>. QED
  BY <1>1, <1>2

-----------------------------------------------------------------------------
(* The pin of VPR's graph for a pin of a tile.                             *)
PinOf(k, t) == VprNode(IF k \in Outputs THEN "OPIN" ELSE "IPIN", Place[t], <<k, 0>>)

(* The others are of pads and of the constant network.                     *)
LEMMA PinsAreOf ==
  ASSUME NEW n \in VprPins
  PROVE  \/ \E k \in Keys, t \in Tiles : n = PinOf(k, t)
         \/ \E place : n = VprNode("OPIN", place, <<"VCC", 0>>)
         \/ \E place, z : n = VprNode("OPIN", place, <<"inpad", z>>)
         \/ \E place, z : n = VprNode("IPIN", place, <<"outpad", z>>)
<1> DEFINE A == {PinOf(k, t) : k \in Keys, t \in Tiles}
           B == {VprNode("OPIN", b.place, <<"VCC", 0>>) : b \in {c \in grid : c.type = "SYN-VCC"}}
           I(b) == {VprNode("OPIN", b.place, <<"inpad", z>>) : z \in 0 .. b.inpads - 1}
           O(b) == {VprNode("IPIN", b.place, <<"outpad", z>>) : z \in 0 .. b.outpads - 1}
           C == UNION {I(b) \union O(b) : b \in grid}
<1>1. VprPins = A \union B \union C
  BY DEF VprPins, PinOf
<1>2. CASE n \in A
  <2>1. \E k \in Keys, t \in Tiles : n = PinOf(k, t)
    <3> HIDE DEF B, C
    <3>. QED
      BY <1>2, SMT
  <2>. QED
    BY <2>1
<1>3. CASE n \in B
  BY <1>3, Zenon
<1>4. CASE n \in C
  <2>1. PICK b \in grid : n \in I(b) \union O(b)
    <3> HIDE DEF I, O
    <3>. QED
      BY <1>4
  <2>. QED
    BY <2>1, Zenon
<1>. QED
  <2> HIDE DEF A, B, C
  <2>. QED
    BY <1>1, <1>2, <1>3, <1>4

(* Fields of a pin.                                                        *)
LEMMA FieldsOfPin ==
  /\ \A type, place, k : /\ VprNode(type, place, k).type = type
                         /\ VprNode(type, place, k).ptc = k
                         /\ VprNode(type, place, k).x_low = place[1]
                         /\ VprNode(type, place, k).y_low = place[2]
  /\ \A k \in Keys : k \notin {"VCC", "inpad", "outpad"}
BY PinAssumption DEF VprNode

(* By its name a pin is told from others of its place, and its type.       *)
LEMMA PinIsNamed ==
  ASSUME NEW n \in VprPins
  PROVE  /\ \A k \in Keys, t \in Tiles :
              n.ptc = <<k, 0>> /\ <<n.x_low, n.y_low>> = Place[t] => n = PinOf(k, t)
         /\ n.type \in PinTypes
         /\ n.ptc[1] \in {"VCC", "inpad"} => n.type = "OPIN"
         /\ n.ptc[1] = "outpad" => n.type = "IPIN"
<1>1. CASE \E k \in Keys, t \in Tiles : n = PinOf(k, t)
  <2>1. PICK k \in Keys, t \in Tiles : n = PinOf(k, t)
    BY <1>1
  <2>2. n.ptc = <<k, 0>> /\ n.x_low = Place[t][1] /\ n.y_low = Place[t][2] /\ n.type \in PinTypes
    BY <2>1, FieldsOfPin DEF PinOf, PinTypes
  <2>3. n.ptc[1] \notin {"VCC", "inpad", "outpad"}
    BY <2>2, FieldsOfPin
  <2>4. ASSUME NEW j \in Keys, NEW u \in Tiles, n.ptc = <<j, 0>>, <<n.x_low, n.y_low>> = Place[u]
        PROVE  j = k /\ t = u
    <3>1. j = k
      BY <2>2, <2>4
    <3>2. Place[t] \in Nat \X Nat
      BY DeviceAssumption
    <3>3. Place[t] = Place[u]
      BY <2>2, <2>4, <3>2
    <3>. QED
      BY <3>1, <3>3, PinAssumption
  <2>. QED
    BY <2>1, <2>2, <2>3, <2>4
<1>2. CASE \E place : n = VprNode("OPIN", place, <<"VCC", 0>>)
  BY <1>2, FieldsOfPin DEF PinTypes
<1>3. CASE \E place, z : n = VprNode("OPIN", place, <<"inpad", z>>)
  BY <1>3, FieldsOfPin DEF PinTypes
<1>4. CASE \E place, z : n = VprNode("IPIN", place, <<"outpad", z>>)
  BY <1>4, FieldsOfPin DEF PinTypes
<1>. QED
  BY <1>1, <1>2, <1>3, <1>4, PinsAreOf

(* The graph nodes of pins.                                                *)
LEMMA SidesAreNodes ==
  \A g : g \in PinNodes <=> \E k \in Keys, t \in Tiles : \E d \in final[k] : g = <<"pin", k, t, d>>
<1> DEFINE S(k, t) == {<<"pin", k, t, d>> : d \in final[k]}
<1>1. PinNodes = UNION {S(k, t) : k \in Keys, t \in Tiles}
  BY DEF PinNodes, Sides
<1>2. \A k, t, g : g \in S(k, t) <=> \E d \in final[k] : g = <<"pin", k, t, d>>
  OBVIOUS
<1> HIDE DEF S
<1>3. ASSUME NEW g, g \in UNION {S(k, t) : k \in Keys, t \in Tiles}
      PROVE  \E k \in Keys, t \in Tiles : g \in S(k, t)
  <2>1. PICK T : T \in {S(k, t) : k \in Keys, t \in Tiles} /\ g \in T
    BY <1>3
  <2>2. \E k \in Keys, t \in Tiles : T = S(k, t)
    BY <2>1, SMT
  <2>. QED
    BY <2>1, <2>2
<1>4. ASSUME NEW g, NEW k \in Keys, NEW t \in Tiles, g \in S(k, t)
      PROVE  g \in UNION {S(j, u) : j \in Keys, u \in Tiles}
  <2>1. S(k, t) \in {S(j, u) : j \in Keys, u \in Tiles}
    BY SMT
  <2>. QED
    BY <1>4, <2>1
<1>. QED
  BY <1>1, <1>2, <1>3, <1>4

-----------------------------------------------------------------------------
(* Every node is one of VPR's, or of a track; the node of a side of a pin  *)
(* is the pin.                                                             *)
NodesRight ==
  /\ \A i \in DOMAIN nodes : nodes[i] \in VprPins \/ nodes[i].type \in {"SOURCE", "SINK"} \union TrackTypes
  /\ \A k \in Keys, t \in Tiles : \A d \in final[k] :
       /\ <<"pin", k, t, d>> \in DOMAIN node_mapping
       /\ nodes[node_mapping[<<"pin", k, t, d>>]] = PinOf(k, t)
       /\ \A e \in final[k] : node_mapping[<<"pin", k, t, e>>] = node_mapping[<<"pin", k, t, d>>]
  /\ DOMAIN node_mapping \subseteq PinNodes \union AliveNodes
  /\ stage # "tracks" => AliveNodes \subseteq DOMAIN node_mapping

(* The edge that AddSyntheticEdges makes for a pad.                        *)
PadTrack(p) == <<"track", p.track, Joins(p.track, p.loc, Alongside(p.track, p.loc))>>
PadId(p) == CHOOSE i \in PadNodes(p) : TRUE
PadEdge(p) ==
  IF p.port = "input" THEN <<node_mapping[PadTrack(p)], PadId(p)>> ELSE <<PadId(p), node_mapping[PadTrack(p)]>>

(* An edge of a class.                                                     *)
IsClassEdge(e) == nodes[e[1]].type = "SOURCE" \/ nodes[e[2]].type = "SINK"

(* Edges are of classes, and of pads when these are joined.                *)
EdgesRight ==
  LET joined == stage \notin {"tracks", "synthetic"}
  IN  /\ \A e \in ToSet(edges) : IsClassEdge(e) \/ (joined /\ \E p \in synth_tiles : e = PadEdge(p))
      /\ joined => \A p \in synth_tiles :
           /\ PadNodes(p) # {} /\ Alongside(p.track, p.loc) # {} /\ PadTrack(p) \in DOMAIN node_mapping
           /\ PadEdge(p) \in ToSet(edges)

PadsTyped == \A p \in synth_tiles : p \in region.pins \/ (p.port = "VCC" /\ p.track = ConstantTrack)

PlacedInv ==
  /\ stage \in {"switches", "pins"} \union Imported => PadsTyped
  /\ stage \in Imported => NodesRight /\ EdgesRight

-----------------------------------------------------------------------------
(* Nodes of VPR are made for pins.                                         *)
LEMMA ImportNodesRight ==
  ASSUME RowsInv, PlacedInv, ImportGraphNodes
  PROVE  PlacedInv'
<1> DEFINE All == VprPins \union {Class(n) : n \in VprPins}
           ns == Listed(All)
           At(n) == CHOOSE i \in DOMAIN ns : ns[i] = n
           id(k, t) == CHOOSE i \in DOMAIN ns :
                         ns[i].type \in PinTypes /\ ns[i].ptc = <<k, 0>> /\ <<ns[i].x_low, ns[i].y_low>> = Place[t]
           Link(n) == IF n.type = "OPIN" THEN <<At(Class(n)), At(n)>> ELSE <<At(n), At(Class(n))>>
           Links == {Link(n) : n \in VprPins}
<1>1. /\ nodes' = ns /\ edges' = Listed(Links)
      /\ node_mapping' = [g \in PinNodes |-> id(g[2], g[3])]
      /\ stage' = "tracks" /\ stage = "pins"
      /\ UNCHANGED <<synth_tiles, directions>>
  BY DEF ImportGraphNodes
<1>2. IsFiniteSet(VprPins)
  BY PinsOfVpr DEF RowsInv
<1>3. \A n \in VprPins : /\ n.type \in PinTypes
                         /\ n.type = "OPIN" => Class(n).type = "SOURCE"
                         /\ n.type # "OPIN" => Class(n).type = "SINK"
  <2> SUFFICES ASSUME NEW n \in VprPins
               PROVE  /\ n.type \in PinTypes
                      /\ n.type = "OPIN" => Class(n).type = "SOURCE"
                      /\ n.type # "OPIN" => Class(n).type = "SINK"
    OBVIOUS
  <2>1. PICK type, place, k : n = VprNode(type, place, k)
    BY PinsOfVpr DEF RowsInv, IsVprPin
  <2>. QED
    BY <2>1, PinIsNamed DEF VprNode, Class
<1>4. IsFiniteSet(All)
  <2> DEFINE f == [n \in VprPins |-> Class(n)]
  <2>1. {Class(n) : n \in VprPins} = {f[n] : n \in VprPins} /\ DOMAIN f = VprPins
    OBVIOUS
  <2> HIDE DEF f
  <2>2. IsFiniteSet({f[n] : n \in VprPins})
    BY <1>2, <2>1, ImageFinite
  <2>. QED
    BY <1>2, <2>1, <2>2, FS_Union
<1>5. Lists(ns, All)
  <2> HIDE DEF All
  <2>. QED
    BY <1>4, ListedOnce
<1> HIDE DEF ns
<1>6. /\ \A i \in DOMAIN ns : ns[i] \in All
      /\ \A n \in All : \E i \in DOMAIN ns : ns[i] = n
  <2> HIDE DEF All
  <2>. QED
    BY <1>5 DEF Lists, ToSet
<1>7. \A n \in All : At(n) \in DOMAIN ns /\ ns[At(n)] = n
  <2> HIDE DEF All
  <2>. QED
    BY <1>6
<1>8. \A i \in DOMAIN ns : ns[i] \in VprPins \/ ns[i].type \in {"SOURCE", "SINK"}
  BY <1>3, <1>6
<1>9. ASSUME NEW k \in Keys, NEW t \in Tiles
      PROVE  id(k, t) \in DOMAIN ns /\ ns[id(k, t)] = PinOf(k, t)
  <2>1. PinOf(k, t) \in VprPins
    BY DEF VprPins, PinOf
  <2>2. PICK i \in DOMAIN ns : ns[i] = PinOf(k, t)
    BY <1>6, <2>1
  <2>3. Place[t] \in Nat \X Nat
    BY DeviceAssumption
  <2>4. /\ ns[i].type \in PinTypes /\ ns[i].ptc = <<k, 0>>
        /\ <<ns[i].x_low, ns[i].y_low>> = Place[t]
    BY <2>2, <2>3, FieldsOfPin DEF PinOf, PinTypes
  <2>5. /\ id(k, t) \in DOMAIN ns /\ ns[id(k, t)].type \in PinTypes /\ ns[id(k, t)].ptc = <<k, 0>>
        /\ <<ns[id(k, t)].x_low, ns[id(k, t)].y_low>> = Place[t]
    BY <2>4
  <2> HIDE DEF id
  <2>6. ns[id(k, t)] \in VprPins
    BY <1>8, <2>5 DEF PinTypes
  <2>. QED
    BY <2>5, <2>6, PinIsNamed
<1>10. IsFiniteSet(Links)
  <2> DEFINE f == [n \in VprPins |-> Link(n)]
  <2>1. Links = {f[n] : n \in VprPins} /\ DOMAIN f = VprPins
    OBVIOUS
  <2> HIDE DEF f
  <2>2. IsFiniteSet({f[n] : n \in VprPins})
    BY <1>2, <2>1, ImageFinite
  <2>. QED
    BY <2>1, <2>2
<1>11. ToSet(edges') = Links
  <2> HIDE DEF Links
  <2>. QED
    BY <1>1, <1>10, ListedOnce DEF Lists
<1>12. \A e \in Links : ns[e[1]].type = "SOURCE" \/ ns[e[2]].type = "SINK"
  <2>1. ASSUME NEW n \in VprPins
        PROVE  ns[Link(n)[1]].type = "SOURCE" \/ ns[Link(n)[2]].type = "SINK"
    <3>1. Class(n) \in All
      OBVIOUS
    <3>2. ns[At(Class(n))] = Class(n)
      <4> HIDE DEF All, At
      <4>. QED
        BY <1>7, <3>1
    <3> HIDE DEF At
    <3>. QED
      BY <1>3, <3>2
  <2> HIDE DEF Link
  <2>. QED
    BY <2>1
<1> HIDE DEF id, Links
<1>13. EdgesRight'
  BY <1>1, <1>11, <1>12 DEF EdgesRight, IsClassEdge
<1>14. UNCHANGED <<grid, final, region>>
  BY <1>1 DEF directions, rest
<1>15. NodesRight'
  <2>1. VprPins' = VprPins
    BY <1>14 DEF VprPins
  <2>2. \A i \in DOMAIN nodes' : nodes'[i] \in VprPins' \/ nodes'[i].type \in {"SOURCE", "SINK"} \union TrackTypes
    BY <1>1, <1>8, <2>1
  <2>3. PinNodes' = PinNodes
    BY <1>14 DEF PinNodes, Sides
  <2>4. DOMAIN node_mapping' = PinNodes
    BY <1>1
  <2>5. ASSUME NEW k \in Keys, NEW t \in Tiles, NEW d \in final[k]
        PROVE  <<"pin", k, t, d>> \in PinNodes /\ node_mapping'[<<"pin", k, t, d>>] = id(k, t)
    <3>1. <<"pin", k, t, d>> \in PinNodes
      BY SidesAreNodes
    <3>. QED
      BY <1>1, <3>1
  <2>6. \A k \in Keys, t \in Tiles : PinOf(k, t)' = PinOf(k, t)
    BY DEF PinOf
  <2>7. \A k \in Keys, t \in Tiles : \A d \in final'[k] :
          /\ <<"pin", k, t, d>> \in DOMAIN node_mapping'
          /\ nodes'[node_mapping'[<<"pin", k, t, d>>]] = PinOf(k, t)
          /\ \A e \in final'[k] : node_mapping'[<<"pin", k, t, e>>] = node_mapping'[<<"pin", k, t, d>>]
    BY <1>1, <1>9, <1>14, <2>4, <2>5
  <2>. QED
    BY <1>1, <2>2, <2>3, <2>4, <2>6, <2>7 DEF NodesRight
<1>16. PadsTyped'
  BY <1>1, <1>14 DEF PlacedInv, PadsTyped
<1>. QED
  BY <1>1, <1>13, <1>15, <1>16 DEF PlacedInv

-----------------------------------------------------------------------------
(* What the nodes are right about stays with the device and the tracks.    *)
LEMMA SameNodesRight ==
  ASSUME NodesRight, UNCHANGED <<directions, nodes, node_mapping, wire_node, alive>>,
         stage' # "tracks" => stage # "tracks"
  PROVE  NodesRight'
<1>1. VprPins' = VprPins
  BY DEF VprPins, directions, rest
<1>2. PinNodes' = PinNodes
  BY DEF PinNodes, Sides, directions
<1>3. AliveNodes' = AliveNodes
  BY DEF AliveNodes, TrackNodes, TrackOf, directions, device
<1>4. \A k, t : PinOf(k, t)' = PinOf(k, t)
  BY DEF PinOf
<1>5. final' = final
  BY DEF directions
<1>. QED
  BY <1>1, <1>2, <1>3, <1>4, <1>5 DEF NodesRight

(* Tracks are added.                                                       *)
LEMMA ImportTracksRight ==
  ASSUME RowsInv, GraphInv, PlacedInv, ImportTracks
  PROVE  PlacedInv'
<1> DEFINE new == Listed(AliveNodes)
           from1(n) == IF n > 1 THEN n ELSE 1
           Node(g) ==
             LET s == Segment(g)
             IN  IF s.dir = "X"
                 THEN [type |-> "CHANX", x_low |-> from1(s.low), x_high |-> s.high,
                       y_low |-> s.at, y_high |-> s.at, ptc |-> ptc[g]]
                 ELSE [type |-> "CHANY", x_low |-> s.at, x_high |-> s.at,
                       y_low |-> from1(s.low), y_high |-> s.high, ptc |-> ptc[g]]
           added == [n \in DOMAIN new |-> Node(new[n])]
           Pos(g) == CHOOSE n \in DOMAIN new : new[n] = g
<1>1. /\ nodes' = nodes \o added
      /\ node_mapping' = [g \in DOMAIN node_mapping \union AliveNodes |->
                            IF g \in AliveNodes THEN Len(nodes) + Pos(g) ELSE node_mapping[g]]
      /\ stage = "tracks" /\ stage' = "synthetic"
      /\ UNCHANGED <<synth_tiles, edges, directions, wire_node, alive>>
  BY DEF ImportTracks, database
<1>2. IsFiniteSet(AliveNodes) /\ \A g \in AliveNodes : g[1] \in {"track", "wire"}
  BY AliveNodesFinite
<1>3. Lists(new, AliveNodes)
  BY <1>2, ListedOnce
<1>4. /\ NodesMapped /\ EdgesListed /\ \A g \in DOMAIN node_mapping : g[1] = "pin"
      /\ NodesRight /\ EdgesRight /\ PadsTyped
  BY <1>1 DEF GraphInv, PlacedInv, Imported
<1> HIDE DEF new
<1>5. Len(new) \in Nat /\ DOMAIN new = 1 .. Len(new)
  BY <1>3 DEF Lists, ToSet
<1>6. \A g : Node(g).type \in TrackTypes
  BY DEF TrackTypes
<1> HIDE DEF Node, Pos
<1>7. added \in Seq(Range(added)) /\ DOMAIN added = 1 .. Len(new)
  <2>1. \A n \in 1 .. Len(new) : added[n] \in Range(added)
    BY <1>5 DEF Range
  <2>2. added \in [1 .. Len(new) -> Range(added)]
    BY <1>5, <2>1
  <2> HIDE DEF added
  <2>. QED
    BY <1>5, <2>2
<1>8. \A n \in DOMAIN added : added[n].type \in TrackTypes
  BY <1>5, <1>6, <1>7
<1> HIDE DEF added
<1>9. /\ Len(nodes) \in Nat /\ DOMAIN nodes = 1 .. Len(nodes)
      /\ Len(added) \in Nat /\ DOMAIN added = 1 .. Len(added)
      /\ DOMAIN nodes' = 1 .. Len(nodes) + Len(added)
      /\ \A i \in DOMAIN nodes : nodes'[i] = nodes[i]
      /\ \A i \in DOMAIN added : nodes'[Len(nodes) + i] = added[i]
  BY <1>1, <1>4, <1>7, Concatenated DEF NodesMapped
<1>10. \A i \in DOMAIN nodes' : \/ i \in DOMAIN nodes /\ nodes'[i] = nodes[i]
                                \/ nodes'[i].type \in TrackTypes
  <2> SUFFICES ASSUME NEW i \in DOMAIN nodes', i \notin DOMAIN nodes PROVE nodes'[i].type \in TrackTypes
    BY <1>9
  <2>1. i - Len(nodes) \in DOMAIN added /\ i = Len(nodes) + (i - Len(nodes))
    BY <1>9
  <2>. QED
    BY <1>8, <1>9, <2>1
<1>11. /\ VprPins' = VprPins /\ PinNodes' = PinNodes /\ AliveNodes' = AliveNodes /\ final' = final
       /\ \A k, t : PinOf(k, t)' = PinOf(k, t)
  BY <1>1 DEF VprPins, PinNodes, Sides, AliveNodes, TrackNodes, TrackOf, directions, device, rest, PinOf
<1>12. \A g \in DOMAIN node_mapping : /\ node_mapping'[g] = node_mapping[g] /\ node_mapping[g] \in DOMAIN nodes
                                      /\ nodes'[node_mapping[g]] = nodes[node_mapping[g]]
                                      /\ g \in DOMAIN node_mapping'
  <2>1. \A g \in DOMAIN node_mapping : g \notin AliveNodes
    BY <1>2, <1>4
  <2>2. \A g \in DOMAIN node_mapping : node_mapping[g] \in DOMAIN nodes
    BY <1>4 DEF NodesMapped
  <2>. QED
    BY <1>1, <1>9, <2>1, <2>2
<1>13. NodesRight'
  <2>1. \A i \in DOMAIN nodes' : nodes'[i] \in VprPins' \/ nodes'[i].type \in {"SOURCE", "SINK"} \union TrackTypes
    BY <1>4, <1>10, <1>11 DEF NodesRight
  <2>2. \A k \in Keys, t \in Tiles : \A d \in final'[k] :
          /\ <<"pin", k, t, d>> \in DOMAIN node_mapping'
          /\ nodes'[node_mapping'[<<"pin", k, t, d>>]] = PinOf(k, t)
          /\ \A e \in final'[k] : node_mapping'[<<"pin", k, t, e>>] = node_mapping'[<<"pin", k, t, d>>]
    <3> SUFFICES ASSUME NEW k \in Keys, NEW t \in Tiles, NEW d \in final[k], NEW e \in final[k]
                 PROVE  /\ <<"pin", k, t, d>> \in DOMAIN node_mapping'
                        /\ nodes'[node_mapping'[<<"pin", k, t, d>>]] = PinOf(k, t)
                        /\ node_mapping'[<<"pin", k, t, e>>] = node_mapping'[<<"pin", k, t, d>>]
      BY <1>11
    <3> DEFINE g == <<"pin", k, t, d>>
               h == <<"pin", k, t, e>>
    <3>1. /\ g \in DOMAIN node_mapping /\ h \in DOMAIN node_mapping
          /\ nodes[node_mapping[g]] = PinOf(k, t) /\ node_mapping[h] = node_mapping[g]
      BY <1>4 DEF NodesRight
    <3> HIDE DEF g, h
    <3>2. /\ g \in DOMAIN node_mapping' /\ nodes'[node_mapping'[g]] = PinOf(k, t)
          /\ node_mapping'[h] = node_mapping'[g]
      BY <1>12, <3>1
    <3>. QED
      BY <3>2 DEF g, h
  <2>3. DOMAIN node_mapping' = DOMAIN node_mapping \union AliveNodes
    BY <1>1
  <2>4. DOMAIN node_mapping' \subseteq PinNodes' \union AliveNodes' /\ AliveNodes' \subseteq DOMAIN node_mapping'
    BY <1>4, <1>11, <2>3 DEF NodesRight
  <2>. QED
    BY <1>11, <2>1, <2>2, <2>4 DEF NodesRight
<1>14. EdgesRight'
  <2>1. \A e \in ToSet(edges) : e[1] \in DOMAIN nodes /\ e[2] \in DOMAIN nodes
    BY <1>4 DEF EdgesListed
  <2>2. \A e \in ToSet(edges) : nodes[e[1]].type = "SOURCE" \/ nodes[e[2]].type = "SINK"
    BY <1>1, <1>4 DEF EdgesRight, IsClassEdge
  <2>3. \A e \in ToSet(edges) : nodes'[e[1]].type = "SOURCE" \/ nodes'[e[2]].type = "SINK"
    BY <1>9, <2>1, <2>2
  <2>. QED
    BY <1>1, <2>3 DEF EdgesRight, IsClassEdge
<1>15. PadsTyped'
  BY <1>1, <1>4 DEF PadsTyped, directions, rest
<1>. QED
  BY <1>13, <1>14, <1>15 DEF PlacedInv

(* Pads are joined.                                                        *)
LEMMA SyntheticRight ==
  ASSUME RowsInv, GraphInv, PlacedInv, AddSyntheticEdges
  PROVE  PlacedInv'
<1> DEFINE option(p) == Alongside(p.track, p.loc)
           track(p) == <<"track", p.track, Joins(p.track, p.loc, option(p))>>
           pin(p) == CHOOSE i \in PadNodes(p) : TRUE
           Synthetic(p) ==
             IF p.port = "input" THEN <<node_mapping[track(p)], pin(p)>> ELSE <<pin(p), node_mapping[track(p)]>>
           New1 == {PadEdge(p) : p \in synth_tiles}
<1>1. /\ stage = "synthetic" /\ stage' \in {"raised", "connected"}
      /\ UNCHANGED <<synth_tiles, nodes, node_mapping, directions, wire_node, alive>>
      /\ stage' = "connected" =>
           /\ edges' = edges \o Listed({Synthetic(p) : p \in synth_tiles})
           /\ \A p \in synth_tiles : option(p) # {} /\ track(p) \in DOMAIN node_mapping /\ PadNodes(p) # {}
  BY DEF AddSyntheticEdges, database
<1>2. \A p : option(p) = Alongside(p.track, p.loc) /\ track(p) = PadTrack(p) /\ Synthetic(p) = PadEdge(p)
  BY DEF Alongside, PadTrack, PadEdge, PadId
<1>3. {Synthetic(p) : p \in synth_tiles} = New1
  BY <1>2
<1> HIDE DEF option, track, pin, Synthetic
<1>4. NodesMapped /\ EdgesListed /\ IsFiniteSet(synth_tiles) /\ NodesRight /\ EdgesRight /\ PadsTyped
  BY <1>1 DEF GraphInv, PlacedInv, Imported
<1>5. CASE stage' = "connected"
  <2>1. ToSet(edges') = ToSet(edges) \union New1
    <3>1. IsFiniteSet(New1)
      <4> DEFINE f == [p \in synth_tiles |-> PadEdge(p)]
      <4>1. New1 = {f[p] : p \in synth_tiles} /\ DOMAIN f = synth_tiles
        OBVIOUS
      <4> HIDE DEF f, New1
      <4>2. IsFiniteSet({f[p] : p \in synth_tiles})
        BY <1>4, <4>1, ImageFinite
      <4>. QED
        BY <4>1, <4>2
    <3> HIDE DEF New1
    <3>2. Lists(Listed(New1), New1)
      BY <3>1, ListedOnce
    <3>3. Lists(edges, ToSet(edges))
      BY <1>4 DEF EdgesListed
    <3>4. edges' = edges \o Listed(New1)
      BY <1>1, <1>3, <1>5
    <3>. QED
      BY <3>2, <3>3, <3>4, ToSetConcat
  <2>2. /\ \A p : PadNodes(p)' = PadNodes(p) /\ Alongside(p.track, p.loc)' = Alongside(p.track, p.loc)
        /\ \A p : PadTrack(p)' = PadTrack(p)
    BY <1>1 DEF PadNodes, IsPin, PadName, Alongside, Joins, PadTrack, directions, device
  <2>3. \A p : PadEdge(p)' = PadEdge(p)
    <3>1. \A p : PadId(p)' = PadId(p)
      BY <1>1, <2>2 DEF PadId
    <3>. QED
      BY <1>1, <2>2, <3>1 DEF PadEdge
  <2>4. \A e : IsClassEdge(e)' <=> IsClassEdge(e)
    BY <1>1 DEF IsClassEdge
  <2>5. \A e \in ToSet(edges') : IsClassEdge(e)' \/ \E p \in synth_tiles' : e = PadEdge(p)'
    BY <1>1, <1>4, <2>1, <2>3, <2>4 DEF EdgesRight
  <2>6. \A p \in synth_tiles' :
           /\ PadNodes(p)' # {} /\ Alongside(p.track, p.loc)' # {} /\ PadTrack(p)' \in DOMAIN node_mapping'
           /\ PadEdge(p)' \in ToSet(edges')
    BY <1>1, <1>2, <1>5, <2>1, <2>2, <2>3
  <2>7. EdgesRight'
    BY <1>5, <2>5, <2>6 DEF EdgesRight
  <2>8. NodesRight'
    BY <1>1, <1>4, <1>5, SameNodesRight
  <2>9. PadsTyped'
    BY <1>1, <1>4 DEF PadsTyped, directions, rest
  <2>. QED
    BY <2>7, <2>8, <2>9 DEF PlacedInv
<1>. QED
  BY <1>1, <1>5 DEF PlacedInv, Imported

(* The pads of the constant network are there.                             *)
LEMMA NetworkRight ==
  ASSUME FindConstantNetwork
  PROVE  PlacedInv'
<1> DEFINE vcc == {[port |-> "VCC", tile |-> "VCC", track |-> ConstantTrack, loc |-> b.place, z |-> 0] :
                     b \in {c \in grid : c.type = "SYN-VCC"}}
<1>1. /\ stage' \in {"raised", "switches"}
      /\ stage' = "switches" => synth_tiles' \subseteq region.pins \union vcc
      /\ region' = region
  BY DEF FindConstantNetwork, directions, rest
<1>2. \A p \in vcc : p.port = "VCC" /\ p.track = ConstantTrack
  OBVIOUS
<1> HIDE DEF vcc
<1>. QED
  BY <1>1, <1>2 DEF PlacedInv, PadsTyped, Imported

(* Every step keeps nodes and edges right.                                 *)
LEMMA NextPlaced == RowsInv /\ GraphInv /\ PlacedInv /\ [Next]_vars => PlacedInv'
<1> SUFFICES ASSUME RowsInv, GraphInv, PlacedInv, [Next]_vars PROVE PlacedInv'
  OBVIOUS
<1> DEFINE Late == {"switches", "pins"} \union Imported
<1>1. CASE stage' \notin Late
  BY <1>1 DEF PlacedInv, Imported
<1>2. ASSUME UNCHANGED <<directions, synth_tiles, nodes, edges, node_mapping, wire_node, alive>>,
             \/ UNCHANGED stage
             \/ /\ stage \in Imported \ {"tracks", "synthetic"}
                /\ stage' \in Imported \ {"tracks", "synthetic"}
      PROVE  PlacedInv'
  <2>1. stage' \in Late => stage \in Late
    BY <1>2
  <2>2. stage' \in Imported => stage \in Imported
    BY <1>2 DEF Imported
  <2>3. stage' \in {"tracks", "synthetic"} <=> stage \in {"tracks", "synthetic"}
    BY <1>2
  <2>4. stage' # "tracks" => stage # "tracks"
    BY <1>2
  <2>5. PadsTyped => PadsTyped'
    BY <1>2 DEF PadsTyped, directions, rest
  <2>6. /\ \A p : PadNodes(p)' = PadNodes(p) /\ Alongside(p.track, p.loc)' = Alongside(p.track, p.loc)
        /\ \A p : PadTrack(p)' = PadTrack(p)
    BY <1>2 DEF PadNodes, IsPin, PadName, Alongside, Joins, PadTrack, directions, device
  <2>7. \A p : PadEdge(p)' = PadEdge(p)
    <3>1. \A p : PadId(p)' = PadId(p)
      BY <1>2, <2>6 DEF PadId
    <3>. QED
      BY <1>2, <2>6, <3>1 DEF PadEdge
  <2>8. \A e : IsClassEdge(e)' <=> IsClassEdge(e)
    BY <1>2 DEF IsClassEdge
  <2>9. EdgesRight => EdgesRight'
    BY <1>2, <2>3, <2>6, <2>7, <2>8 DEF EdgesRight
  <2>10. NodesRight => NodesRight'
    BY <1>2, <2>4, SameNodesRight
  <2>11. stage' \in Late => PadsTyped'
    BY <2>1, <2>5 DEF PlacedInv
  <2>12. stage' \in Imported => NodesRight' /\ EdgesRight'
    BY <2>2, <2>9, <2>10 DEF PlacedInv
  <2>. QED
    BY <2>11, <2>12 DEF PlacedInv
<1>4. CASE Assign
  <2>1. stage' \notin Late
    BY <1>4 DEF Assign, DirectionsNext, HandleDirectionConnections, CheckReasons, HandleEdgesToChannels,
            Decide, Reduce, CheckAssignments, Imported
  <2>. QED
    BY <1>1, <2>1
<1>5. CASE \E e \in left : ConnectTrack(e) \/ ConnectTracks(e) \/ ConnectPins(e)
  <2> PICK e \in left : ConnectTrack(e) \/ ConnectTracks(e) \/ ConnectPins(e)
    BY <1>5
  <2>1. stage' \in {"assigned", "raised"}
    BY DEF ConnectTrack, ConnectTracks, ConnectPins
  <2>2. stage' \notin Late
    BY <2>1 DEF Imported
  <2>. QED
    BY <1>1, <2>2
<1>6. CASE MarkTrackLiveness \/ BuildChannels \/ VerifyChannels
  <2>1. stage' \notin Late
    BY <1>6 DEF MarkTrackLiveness, BuildChannels, VerifyChannels, Imported
  <2>. QED
    BY <1>1, <2>1
<1>7. CASE AddSwitches
  BY <1>7 DEF AddSwitches, PlacedInv, PadsTyped, directions, rest, Imported
<1>8. CASE FindConstantNetwork \/ ImportGraphNodes \/ ImportTracks \/ AddSyntheticEdges
  BY <1>8, NetworkRight, ImportNodesRight, ImportTracksRight, SyntheticRight
<1>9. CASE CreateNodeRemap \/ GetNumberGraphEdges \/ WriteNodes
  <2>1. /\ stage \in Imported \ {"tracks", "synthetic"}
        /\ stage' = "raised" \/ stage' \in Imported \ {"tracks", "synthetic"}
        /\ UNCHANGED <<directions, synth_tiles, nodes, edges, node_mapping, wire_node, alive>>
    BY <1>9 DEF CreateNodeRemap, GetNumberGraphEdges, WriteNodes, Imported, vprgraph, database
  <2>2. "raised" \notin Late
    BY DEF Imported
  <2>. QED
    BY <1>1, <1>2, <2>1, <2>2
<1>10. CASE WriteEdge \/ WriteFiles
  <2>1. /\ stage = "writing" /\ stage' \in {"writing", "written", "raised"}
        /\ UNCHANGED <<directions, synth_tiles, nodes, edges, node_mapping, wire_node, alive>>
    BY <1>10 DEF WriteEdge, WriteFiles, Yielded, vprgraph, database
  <2>2. "raised" \notin Late /\ {"writing", "written"} \subseteq Imported \ {"tracks", "synthetic"}
    BY DEF Imported
  <2>. QED
    BY <1>1, <1>2, <2>1, <2>2
<1>11. CASE UNCHANGED vars
  BY <1>2, <1>11 DEF vars, pinvars, vprgraph, directions, database
<1>. QED
  BY <1>4, <1>5, <1>6, <1>7, <1>8, <1>9, <1>10, <1>11 DEF Next

-----------------------------------------------------------------------------
(* Once everything is linked and has its nodes.                            *)
Routed ==
  /\ stage = "written"
  /\ RowsInv /\ LayoutTyped /\ PinsTyped /\ PadsTyped /\ IsFiniteSet(synth_tiles)
  /\ NodesMapped /\ NodesRight /\ EdgesRight
  /\ \A k \in Keys : final[k] # {}
  /\ LinksRight(LinksOf(graph_edge), {}, DOMAIN wire_node)
  /\ \A g \in TrackNodes : LivesBy(LinksOf(graph_edge), g) => TrackOf(g) \in alive

(* A graph node is linked with finitely many.                              *)
LEMMA LinksFinite ==
  ASSUME RowsInv
  PROVE  /\ IsFiniteSet(LinksOf(graph_edge))
         /\ \A g : IsFiniteSet(Into(LinksOf(graph_edge), g) \union OutOf(LinksOf(graph_edge), g))
<1> DEFINE n == Len(graph_edge)
           link == [m \in 1 .. n |-> <<graph_edge[m].src, graph_edge[m].dst>>]
           links == LinksOf(graph_edge)
           from == [l \in links |-> l[1]]
           to == [l \in links |-> l[2]]
           A == {from[l] : l \in links}
           B == {to[l] : l \in links}
<1>1. n \in Nat /\ DOMAIN graph_edge = 1 .. n
  BY DEF RowsInv, RowsOf
<1>2. IsFiniteSet(links)
  <2>1. links = {link[m] : m \in 1 .. n}
    <3>1. ToSet(graph_edge) = {graph_edge[m] : m \in 1 .. n}
      BY <1>1 DEF ToSet
    <3>. QED
      BY <3>1 DEF LinksOf
  <2>2. IsFiniteSet(1 .. n) /\ DOMAIN link = 1 .. n
    BY <1>1, FS_Interval
  <2> HIDE DEF link, n, links
  <2>. QED
    BY <2>1, <2>2, ImageFinite
<1> HIDE DEF links
<1>3. IsFiniteSet(A) /\ IsFiniteSet(B)
  <2>1. DOMAIN from = links /\ DOMAIN to = links
    OBVIOUS
  <2> HIDE DEF from, to
  <2>. QED
    BY <1>2, <2>1, ImageFinite
<1>4. ASSUME NEW g PROVE Into(links, g) \union OutOf(links, g) \subseteq A \union B
  <2>1. \A l \in links : l[1] \in A /\ l[2] \in B
    OBVIOUS
  <2> HIDE DEF A, B
  <2>. QED
    BY <2>1 DEF Into, OutOf
<1> HIDE DEF A, B
<1>5. IsFiniteSet(A \union B)
  BY <1>3, FS_Union
<1>6. \A g : IsFiniteSet(Into(links, g) \union OutOf(links, g))
  BY <1>4, <1>5, FS_Subset
<1>. QED
  BY <1>2, <1>6 DEF links

(* Between two others a track is alive.                                    *)
LEMMA BetweenTwo ==
  ASSUME Routed, NEW g \in TrackNodes, NEW x, NEW y, x # y,
         <<x, g>> \in LinksOf(graph_edge), <<g, y>> \in LinksOf(graph_edge)
  PROVE  TrackOf(g) \in alive
<1> DEFINE links == LinksOf(graph_edge)
           U == Into(links, g) \union OutOf(links, g)
<1>1. IsFiniteSet(U)
  BY LinksFinite DEF Routed
<1> HIDE DEF links
<1>2. <<x, g>> \in links /\ <<g, y>> \in links
  BY DEF links
<1>3. x \in Into(links, g) /\ y \in OutOf(links, g)
  BY <1>2 DEF Into, OutOf
<1>4. x \in U /\ y \in U
  BY <1>3
<1>5. Cardinality(U) > 1
  <2> HIDE DEF U
  <2>. QED
    BY <1>1, <1>4, TwoMembers
<1>6. LivesBy(links, g)
  BY <1>3, <1>5 DEF LivesBy
<1>. QED
  BY <1>6 DEF Routed, links

(* Segments are graph nodes, and have a node when they are alive.          *)
LEMMA SegmentNodes ==
  /\ \A w \in Tracks : \A n \in DOMAIN segments[w] : <<"track", w, n>> \in TrackNodes
  /\ \A w, n : TrackOf(<<"track", w, n>>) = <<"track", w>>
<1> DEFINE S(w) == {<<"track", w, n>> : n \in DOMAIN segments[w]}
<1>1. \A w \in Tracks : \A n \in DOMAIN segments[w] : <<"track", w, n>> \in S(w)
  OBVIOUS
<1>2. TrackNodes = DOMAIN wire_node \union UNION {S(w) : w \in Tracks}
  BY DEF TrackNodes
<1>3. \A w, n : TrackOf(<<"track", w, n>>) = <<"track", w>>
  BY DEF TrackOf
<1> HIDE DEF S
<1>. QED
  BY <1>1, <1>2, <1>3

(* A track, or a segment of one, has nodes just if it is alive.            *)
LEMMA MappedIfAlive ==
  ASSUME Routed
  PROVE  /\ \A g \in TrackNodes : g \in DOMAIN node_mapping <=> TrackOf(g) \in alive
         /\ \A w \in Tracks : \A n \in DOMAIN segments[w] :
              <<"track", w, n>> \in DOMAIN node_mapping <=> <<"track", w>> \in alive
<1>1. \A g \in TrackNodes : g \notin PinNodes
  <2>1. ASSUME NEW g \in TrackNodes, g \in PinNodes PROVE FALSE
    <3>1. g[1] = "pin"
      BY <2>1, SidesAreNodes
    <3> DEFINE S(w) == {<<"track", w, n>> : n \in DOMAIN segments[w]}
    <3>2. \A w \in Tracks : \A h \in S(w) : h[1] = "track"
      OBVIOUS
    <3>3. TrackNodes = DOMAIN wire_node \union UNION {S(w) : w \in Tracks}
      BY DEF TrackNodes
    <3> HIDE DEF S
    <3>4. g[1] # "pin"
      BY <3>2, <3>3 DEF Routed, RowsInv, WiresTyped
    <3>. QED
      BY <3>1, <3>4
  <2>. QED
    BY <2>1
<1>2. \A g \in TrackNodes : g \in DOMAIN node_mapping <=> TrackOf(g) \in alive
  <2>1. DOMAIN node_mapping \subseteq PinNodes \union AliveNodes /\ AliveNodes \subseteq DOMAIN node_mapping
    BY DEF Routed, NodesRight
  <2>. QED
    BY <1>1, <2>1 DEF AliveNodes
<1>. QED
  BY <1>2, SegmentNodes

-----------------------------------------------------------------------------
(* The ends of the links of a pip: its wire is alive, whatever its track.  *)
LEMMA PipEnds ==
  ASSUME Routed, NEW p \in pips, ~Reserved(p)
  PROVE  /\ p.pin \in Keys /\ p.tile \in Tiles /\ p.track \in Tracks
         /\ Joins(p.track, Place[p.tile], Meets(p)) \in DOMAIN segments[p.track]
         /\ \E d \in final[p.pin] : PinAt(p) = <<"pin", p.pin, p.tile, d>>
         /\ PinAt(p) \in DOMAIN node_mapping /\ WireOf(p) \in DOMAIN node_mapping
         /\ PipLinks(p) \subseteq LinksOf(graph_edge)
<1>1. p.pin \in Keys /\ p.tile \in Tiles /\ p.track \in Tracks
  BY DEF Routed, PinsTyped
<1>2. Meets(p) # {} /\ PipLinks(p) \subseteq LinksOf(graph_edge) /\ WireOf(p) \in DOMAIN wire_node
  <2>1. p \in pips \ {}
    OBVIOUS
  <2>. QED
    BY <2>1 DEF Routed, LinksRight
<1>3. Meets(p) \subseteq DOMAIN segments[p.track]
  BY DEF Meets
<1>4. Joins(p.track, Place[p.tile], Meets(p)) \in Meets(p)
  BY <1>1, <1>2, <1>3, JoinedSegment DEF Routed, RowsInv
<1>5. \E d \in final[p.pin] : PinAt(p) = <<"pin", p.pin, p.tile, d>>
  BY <1>4 DEF Meets, PinAt
<1>6. PinAt(p) \in DOMAIN node_mapping
  BY <1>1, <1>5 DEF Routed, NodesRight
<1>7. WireOf(p) \in TrackNodes /\ TrackOf(WireOf(p)) = WireOf(p)
  BY <1>2 DEF TrackNodes, TrackOf, WireOf
<1>8. PinAt(p) # TrackAt(p)
  BY DEF PinAt, TrackAt
<1>9. \/ <<PinAt(p), WireOf(p)>> \in LinksOf(graph_edge) /\ <<WireOf(p), TrackAt(p)>> \in LinksOf(graph_edge)
      \/ <<TrackAt(p), WireOf(p)>> \in LinksOf(graph_edge) /\ <<WireOf(p), PinAt(p)>> \in LinksOf(graph_edge)
  BY <1>2 DEF PipLinks
<1>10. WireOf(p) \in alive
  BY <1>7, <1>8, <1>9, BetweenTwo
<1>. QED
  BY <1>1, <1>2, <1>3, <1>4, <1>5, <1>6, <1>7, <1>10, MappedIfAlive

(* The first segment of a direction that there is.                         *)
LEMMA FirstOfDirection ==
  ASSUME Routed, NEW w \in Tracks, NEW n \in DOMAIN segments[w]
  PROVE  \E k \in DOMAIN segments[w] : segments[w][k].dir = segments[w][n].dir /\ OnePerSide(segments[w], k)
<1> DEFINE K == {m \in DOMAIN segments[w] : segments[w][m].dir = segments[w][n].dir}
<1>1. segments[w] \in Seq(SegmentType)
  BY DEF Routed, RowsInv, DeviceTyped
<1>2. K \in SUBSET Nat /\ n \in K
  BY <1>1
<1>3. PICK k \in K : \A m \in K : k <= m
  BY <1>2, LeastNatural
<1>. QED
  BY <1>3 DEF OnePerSide

(* It is linked with those of the other direction.                         *)
LEMMA FirstIsLinked ==
  ASSUME Routed, NEW w \in Tracks, NEW i \in DOMAIN segments[w], NEW k \in DOMAIN segments[w],
         segments[w][i].dir # segments[w][k].dir, OnePerSide(segments[w], k)
  PROVE  /\ <<<<"track", w, k>>, <<"track", w, i>>>> \in LinksOf(graph_edge)
         /\ <<<<"track", w, i>>, <<"track", w, k>>>> \in LinksOf(graph_edge)
<1>1. \A src, dst : Row(src, dst, Short) \in Shorts => <<src, dst>> \in ShortLinks
  <2> SUFFICES ASSUME NEW src, NEW dst, Row(src, dst, Short) \in Shorts PROVE <<src, dst>> \in ShortLinks
    OBVIOUS
  <2>1. <<Row(src, dst, Short).src, Row(src, dst, Short).dst>> \in ShortLinks
    BY DEF ShortLinks
  <2>. QED
    BY <2>1, EndsOfRows
<1>2. ShortLinks \subseteq LinksOf(graph_edge)
  BY DEF Routed, LinksRight
<1>. QED
  BY <1>1, <1>2, FirstIsJoined

(* A track of several segments is alive, and one that is entered and not   *)
(* alive leads back only.                                                  *)
LEMMA EnteredLeadsBack ==
  ASSUME Routed, NEW w \in Tracks, NEW n \in DOMAIN segments[w], NEW x,
         \A m : x # <<"track", w, m>>,
         <<x, <<"track", w, n>>>> \in LinksOf(graph_edge), <<"track", w>> \notin alive
  PROVE  /\ DOMAIN segments[w] = {n}
         /\ \A y : <<<<"track", w, n>>, y>> \in LinksOf(graph_edge) => y = x
<1>1. \A y : <<<<"track", w, n>>, y>> \in LinksOf(graph_edge) => y = x
  BY SegmentNodes, BetweenTwo
<1>2. ASSUME DOMAIN segments[w] # {n} PROVE FALSE
  <2>1. PICK m \in DOMAIN segments[w] : segments[w][m].dir # segments[w][n].dir
    BY <1>2 DEF Routed, LayoutTyped
  <2>2. PICK k \in DOMAIN segments[w] : segments[w][k].dir = segments[w][m].dir /\ OnePerSide(segments[w], k)
    BY FirstOfDirection
  <2>3. <<<<"track", w, n>>, <<"track", w, k>>>> \in LinksOf(graph_edge)
    BY <2>1, <2>2, FirstIsLinked
  <2>. QED
    BY <1>1, <2>3
<1>. QED
  BY <1>1, <1>2

-----------------------------------------------------------------------------
(* Rows that have nodes do not lead out of a set.                          *)
Closed(C) ==
  \A x, y \in DOMAIN node_mapping :
    <<x, y>> \in LinksOf(graph_edge) /\ node_mapping[x] \in C => node_mapping[y] \in C

(* From a segment of a track all of it is reached.                         *)
LEMMA TrackSpreads ==
  ASSUME Routed, NEW C, Closed(C), NEW w \in Tracks, <<"track", w>> \in alive,
         NEW n \in DOMAIN segments[w], node_mapping[<<"track", w, n>>] \in C
  PROVE  \A m \in DOMAIN segments[w] : node_mapping[<<"track", w, m>>] \in C
<1> DEFINE D == DOMAIN segments[w]
           In(m) == node_mapping[<<"track", w, m>>] \in C
<1>1. \A i, j \in D : <<<<"track", w, i>>, <<"track", w, j>>>> \in LinksOf(graph_edge) /\ In(i) => In(j)
  BY MappedIfAlive DEF Closed
<1>2. \A i, k \in D : segments[w][i].dir # segments[w][k].dir /\ OnePerSide(segments[w], k) =>
        /\ In(i) => In(k)
        /\ In(k) => In(i)
  <2> SUFFICES ASSUME NEW i \in D, NEW k \in D, segments[w][i].dir # segments[w][k].dir,
                      OnePerSide(segments[w], k)
               PROVE  (In(i) => In(k)) /\ (In(k) => In(i))
    OBVIOUS
  <2>1. /\ <<<<"track", w, k>>, <<"track", w, i>>>> \in LinksOf(graph_edge)
        /\ <<<<"track", w, i>>, <<"track", w, k>>>> \in LinksOf(graph_edge)
    BY FirstIsLinked
  <2> HIDE DEF In
  <2>. QED
    BY <1>1, <2>1
<1> SUFFICES ASSUME NEW m \in D, m # n PROVE In(m)
  OBVIOUS
<1>3. \A i \in D : segments[w][i].dir \in {"X", "Y"}
  <2>1. segments[w] \in Seq(SegmentType)
    BY DEF Routed, RowsInv, DeviceTyped
  <2>2. \A i \in D : segments[w][i] \in SegmentType
    BY <2>1
  <2>. QED
    BY <2>2 DEF SegmentType
<1>4. PICK k \in D : segments[w][k].dir # segments[w][n].dir /\ OnePerSide(segments[w], k)
  <2>1. PICK i \in D : segments[w][i].dir # segments[w][n].dir
    BY DEF Routed, LayoutTyped
  <2>. QED
    BY <2>1, FirstOfDirection
<1>5. PICK j \in D : segments[w][j].dir = segments[w][n].dir /\ OnePerSide(segments[w], j)
  BY FirstOfDirection
<1>6. In(k)
  BY <1>2, <1>4
<1>7. CASE segments[w][m].dir = segments[w][n].dir
  BY <1>2, <1>4, <1>6, <1>7
<1>8. CASE segments[w][m].dir # segments[w][n].dir
  <2>1. In(j)
    BY <1>2, <1>4, <1>5, <1>6
  <2>. QED
    BY <1>2, <1>5, <1>8, <2>1
<1>. QED
  BY <1>7, <1>8

-----------------------------------------------------------------------------
(* The pips between tracks, and the old id of a pin.                       *)
Crossed == {<<s.from, s.to>> : s \in {r \in crossings : ~Reserved(r)}}
OldPin(k, t) == node_mapping[<<"pin", k, t, CHOOSE d \in final[k] : TRUE>>]

(* The old id and the tracks of an end of a route.                         *)
IsSource(old, ts) ==
  \/ \E o \in Outputs, t \in Tiles : old = OldPin(o, t) /\ ts = TracksOf(o, t)
  \/ \E p \in synth_tiles : p.port = "output" /\ old = PadId(p) /\ ts = {p.track}

IsSink(old, ts) ==
  \/ \E i \in Keys \ Outputs, t \in Tiles : old = OldPin(i, t) /\ ts = TracksOf(i, t)
  \/ \E p \in synth_tiles : p.port = "input" /\ old = PadId(p) /\ ts = {p.track}

(* All of a track is reached, or it is not alive and leads nowhere else.   *)
InAll(w, C) ==
  <<"track", w>> \in alive /\ \A m \in DOMAIN segments[w] : node_mapping[<<"track", w, m>>] \in C

DeadEnd(w, C) ==
  /\ <<"track", w>> \notin alive
  /\ \A p \in pips : p.track = w /\ ~Reserved(p) => p.pin \in Outputs
  /\ \A s \in crossings : s.from = w /\ ~Reserved(s) => InAll(s.to, C)

(* A pin is one node, from whichever side.                                 *)
LEMMA PinIsOne ==
  ASSUME Routed, NEW k \in Keys, NEW t \in Tiles
  PROVE  /\ OldPin(k, t) \in DOMAIN nodes /\ nodes[OldPin(k, t)] = PinOf(k, t)
         /\ \A d \in final[k] : /\ <<"pin", k, t, d>> \in DOMAIN node_mapping
                                /\ node_mapping[<<"pin", k, t, d>>] = OldPin(k, t)
<1> DEFINE c == CHOOSE d \in final[k] : TRUE
<1>1. c \in final[k]
  BY DEF Routed
<1> HIDE DEF c
<1>2. \A d \in final[k] :
        /\ <<"pin", k, t, d>> \in DOMAIN node_mapping
        /\ nodes[node_mapping[<<"pin", k, t, d>>]] = PinOf(k, t)
        /\ \A e \in final[k] : node_mapping[<<"pin", k, t, e>>] = node_mapping[<<"pin", k, t, d>>]
  BY DEF Routed, NodesRight
<1>3. \A d \in final[k] : node_mapping[<<"pin", k, t, d>>] \in DOMAIN nodes
  BY <1>2 DEF Routed, NodesMapped
<1>4. OldPin(k, t) = node_mapping[<<"pin", k, t, c>>]
  BY DEF OldPin, c
<1>. QED
  BY <1>1, <1>2, <1>3, <1>4

(* The ends of the link of a crossing.                                     *)
LEMMA CrossingEnds ==
  ASSUME Routed, NEW s \in crossings, ~Reserved(s)
  PROVE  /\ s.from \in Tracks /\ s.to \in Tracks
         /\ Joins(s.from, s.at, Alongside(s.from, s.at)) \in DOMAIN segments[s.from]
         /\ Joins(s.to, s.at, Alongside(s.to, s.at)) \in DOMAIN segments[s.to]
         /\ CrossLink(s) \in LinksOf(graph_edge)
<1>1. s.from \in Tracks /\ s.to \in Tracks
  BY DEF Routed, PinsTyped
<1>2. /\ Alongside(s.from, s.at) # {} /\ Alongside(s.to, s.at) # {}
      /\ CrossLink(s) \in LinksOf(graph_edge)
  <2>1. s \in crossings \ {}
    OBVIOUS
  <2>. QED
    BY <2>1 DEF Routed, LinksRight
<1>3. \A w : Alongside(w, s.at) \subseteq DOMAIN segments[w]
  BY DEF Alongside
<1>. QED
  BY <1>1, <1>2, <1>3, JoinedSegment DEF Routed, RowsInv

(* So of a pad.                                                            *)
LEMMA PadEnds ==
  ASSUME Routed, NEW p \in synth_tiles
  PROVE  /\ p.track \in Tracks /\ <<"track", p.track>> \in alive
         /\ Joins(p.track, p.loc, Alongside(p.track, p.loc)) \in DOMAIN segments[p.track]
         /\ PadTrack(p) \in DOMAIN node_mapping
         /\ PadId(p) \in PadNodes(p) /\ PadEdge(p) \in ToSet(edges)
<1>1. p.track \in Tracks
  BY ConstantAssumption DEF Routed, PadsTyped, PinsTyped
<1>2. /\ PadNodes(p) # {} /\ Alongside(p.track, p.loc) # {} /\ PadTrack(p) \in DOMAIN node_mapping
      /\ PadEdge(p) \in ToSet(edges)
  BY DEF Routed, EdgesRight
<1>3. Alongside(p.track, p.loc) \subseteq DOMAIN segments[p.track]
  BY DEF Alongside
<1>4. Joins(p.track, p.loc, Alongside(p.track, p.loc)) \in DOMAIN segments[p.track]
  BY <1>1, <1>2, <1>3, JoinedSegment DEF Routed, RowsInv
<1>5. <<"track", p.track>> \in alive
  BY <1>1, <1>2, <1>4, MappedIfAlive DEF PadTrack
<1>6. PadId(p) \in PadNodes(p)
  BY <1>2 DEF PadId
<1>. QED
  BY <1>1, <1>2, <1>4, <1>5, <1>6

-----------------------------------------------------------------------------
(* The track that an output pin drives.                                    *)
LEMMA PipEnters ==
  ASSUME Routed, NEW C, Closed(C), NEW p \in pips, ~Reserved(p), p.pin \in Outputs,
         OldPin(p.pin, p.tile) \in C
  PROVE  InAll(p.track, C) \/ DeadEnd(p.track, C)
<1> DEFINE n == Joins(p.track, Place[p.tile], Meets(p))
           w == p.track
<1>1. /\ p.pin \in Keys /\ p.tile \in Tiles /\ w \in Tracks /\ n \in DOMAIN segments[w]
      /\ PinAt(p) \in DOMAIN node_mapping /\ WireOf(p) \in DOMAIN node_mapping
      /\ PipLinks(p) \subseteq LinksOf(graph_edge)
  BY PipEnds
<1>2. TrackAt(p) = <<"track", w, n>>
  BY DEF TrackAt
<1>3. <<PinAt(p), WireOf(p)>> \in LinksOf(graph_edge) /\ <<WireOf(p), <<"track", w, n>>>> \in LinksOf(graph_edge)
  BY <1>1, <1>2 DEF PipLinks
<1>4. node_mapping[PinAt(p)] \in C
  BY <1>1, PipEnds, PinIsOne
<1>5. node_mapping[WireOf(p)] \in C
  BY <1>1, <1>3, <1>4 DEF Closed
<1>6. CASE <<"track", w>> \in alive
  <2>1. <<"track", w, n>> \in DOMAIN node_mapping
    BY <1>1, <1>6, MappedIfAlive
  <2>2. node_mapping[<<"track", w, n>>] \in C
    BY <1>1, <1>3, <1>5, <2>1 DEF Closed
  <2>. QED
    BY <1>1, <1>6, <2>2, TrackSpreads DEF InAll
<1>7. CASE <<"track", w>> \notin alive
  <2>1. \A m : WireOf(p) # <<"track", w, m>>
    BY DEF WireOf
  <2>2. /\ DOMAIN segments[w] = {n}
        /\ \A y : <<<<"track", w, n>>, y>> \in LinksOf(graph_edge) => y = WireOf(p)
    BY <1>1, <1>3, <1>7, <2>1, EnteredLeadsBack
  <2>3. ASSUME NEW q \in pips, q.track = w, ~Reserved(q), q.pin \notin Outputs PROVE FALSE
    <3>1. TrackAt(q) = <<"track", w, n>> /\ PipLinks(q) \subseteq LinksOf(graph_edge)
      BY <2>2, <2>3, PipEnds DEF TrackAt
    <3>2. <<TrackAt(q), WireOf(q)>> \in LinksOf(graph_edge)
      BY <2>3, <3>1 DEF PipLinks
    <3>3. WireOf(q) = WireOf(p)
      BY <2>2, <3>1, <3>2
    <3>. QED
      BY <2>3, <3>3 DEF WireOf
  <2>4. ASSUME NEW s \in crossings, s.from = w, ~Reserved(s) PROVE FALSE
    <3>1. /\ Joins(s.from, s.at, Alongside(s.from, s.at)) = n /\ CrossLink(s) \in LinksOf(graph_edge)
      BY <2>2, <2>4, CrossingEnds
    <3>2. <<"track", s.to, Joins(s.to, s.at, Alongside(s.to, s.at))>> = WireOf(p)
      BY <2>2, <2>4, <3>1 DEF CrossLink
    <3>. QED
      BY <3>2 DEF WireOf
  <2>. QED
    BY <1>7, <2>3, <2>4 DEF DeadEnd
<1>. QED
  BY <1>6, <1>7

(* The track that a crossing leads to.                                     *)
LEMMA CrossingEnters ==
  ASSUME Routed, NEW C, Closed(C), NEW s \in crossings, ~Reserved(s), InAll(s.from, C)
  PROVE  InAll(s.to, C) \/ DeadEnd(s.to, C)
<1> DEFINE n == Joins(s.from, s.at, Alongside(s.from, s.at))
           m == Joins(s.to, s.at, Alongside(s.to, s.at))
           v == s.from
           w == s.to
           x == <<"track", v, n>>
<1>1. /\ v \in Tracks /\ w \in Tracks /\ n \in DOMAIN segments[v] /\ m \in DOMAIN segments[w]
      /\ <<x, <<"track", w, m>>>> \in LinksOf(graph_edge)
  BY CrossingEnds DEF CrossLink
<1>2. node_mapping[x] \in C /\ x \in DOMAIN node_mapping
  BY <1>1, MappedIfAlive DEF InAll
<1> HIDE DEF n, m
<1>3. CASE <<"track", w>> \in alive
  <2>1. <<"track", w, m>> \in DOMAIN node_mapping
    BY <1>1, <1>3, MappedIfAlive
  <2>2. node_mapping[<<"track", w, m>>] \in C
    BY <1>1, <1>2, <2>1 DEF Closed
  <2>. QED
    BY <1>1, <1>3, <2>2, TrackSpreads DEF InAll
<1>4. CASE <<"track", w>> \notin alive
  <2>1. \A k : x # <<"track", w, k>>
    BY <1>4 DEF InAll
  <2>2. /\ DOMAIN segments[w] = {m}
        /\ \A y : <<<<"track", w, m>>, y>> \in LinksOf(graph_edge) => y = x
    BY <1>1, <1>4, <2>1, EnteredLeadsBack
  <2>3. ASSUME NEW q \in pips, q.track = w, ~Reserved(q), q.pin \notin Outputs PROVE FALSE
    <3>1. TrackAt(q) = <<"track", w, m>> /\ PipLinks(q) \subseteq LinksOf(graph_edge)
      BY <2>2, <2>3, PipEnds DEF TrackAt
    <3>2. <<TrackAt(q), WireOf(q)>> \in LinksOf(graph_edge)
      BY <2>3, <3>1 DEF PipLinks
    <3>3. WireOf(q) = x
      BY <2>2, <3>1, <3>2
    <3>. QED
      BY <3>3 DEF WireOf
  <2>4. ASSUME NEW r \in crossings, r.from = w, ~Reserved(r) PROVE InAll(r.to, C)
    <3>1. /\ Joins(r.from, r.at, Alongside(r.from, r.at)) = m /\ CrossLink(r) \in LinksOf(graph_edge)
      BY <2>2, <2>4, CrossingEnds
    <3>2. <<"track", r.to, Joins(r.to, r.at, Alongside(r.to, r.at))>> = x
      BY <2>2, <2>4, <3>1 DEF CrossLink
    <3>3. r.to = v
      BY <3>2
    <3>. QED
      BY <3>3
  <2>. QED
    BY <1>4, <2>3, <2>4 DEF DeadEnd
<1>. QED
  BY <1>3, <1>4

(* There are finitely many.                                                *)
LEMMA CrossedFinite ==
  ASSUME Routed
  PROVE  IsFiniteSet(Crossed) /\ Crossed \subseteq Tracks \X Tracks
<1>1. Crossed \subseteq Tracks \X Tracks
  BY DEF Crossed, Routed, PinsTyped
<1>2. IsFiniteSet(Tracks \X Tracks)
  BY RoutingAssumption, FS_Product
<1>. QED
  BY <1>1, <1>2, FS_Subset

(* All the tracks that pips lead on to are reached, but for dead ends.     *)
LEMMA CrossingsSpread ==
  ASSUME Routed, NEW C, Closed(C), NEW w, InAll(w, C) \/ DeadEnd(w, C),
         NEW v \in Reached(Crossed, w)
  PROVE  InAll(v, C) \/ DeadEnd(v, C)
<1> DEFINE D == {w} \union {u \in Tracks : InAll(u, C) \/ DeadEnd(u, C)}
<1>1. ASSUME NEW l \in Crossed, l[1] \in D PROVE l[2] \in D
  <2>1. PICK s \in crossings : ~Reserved(s) /\ l = <<s.from, s.to>>
    BY DEF Crossed
  <2>2. s.to \in Tracks
    BY <2>1, CrossingEnds
  <2>3. InAll(s.from, C) \/ DeadEnd(s.from, C)
    BY <1>1, <2>1
  <2>4. InAll(s.to, C) \/ DeadEnd(s.to, C)
    BY <2>1, <2>3, CrossingEnters DEF DeadEnd
  <2>. QED
    BY <2>1, <2>2, <2>4
<1>2. w \in D
  OBVIOUS
<1>3. Reached(Crossed, w) \subseteq D
  <2> HIDE DEF D
  <2>. QED
    BY <1>1, <1>2, CrossedFinite, ReachedIsClosure
<1>. QED
  BY <1>3

(* What the device connects is reached.                                    *)
LEMMA DeviceIsReached ==
  ASSUME Routed, NEW C, Closed(C), \A e \in ToSet(edges) : e[1] \in C => e[2] \in C,
         NEW a, NEW ts, IsSource(a, ts), a \in C, NEW b, NEW us, IsSink(b, us),
         NEW w \in ts, NEW v \in us, v \in Reached(Crossed, w)
  PROVE  b \in C
<1>1. InAll(w, C) \/ DeadEnd(w, C)
  <2>1. CASE \E o \in Outputs, t \in Tiles : a = OldPin(o, t) /\ ts = TracksOf(o, t)
    <3>1. PICK o \in Outputs, t \in Tiles : a = OldPin(o, t) /\ ts = TracksOf(o, t)
      BY <2>1
    <3>2. w \in {p.track : p \in {q \in pips : q.pin = o /\ q.tile = t /\ ~Reserved(q)}}
      BY <3>1, TracksAreOpen DEF Routed
    <3>3. PICK p \in pips : p.pin = o /\ p.tile = t /\ ~Reserved(p) /\ p.track = w
      BY <3>2
    <3>. QED
      BY <3>1, <3>3, PipEnters
  <2>2. CASE \E p \in synth_tiles : p.port = "output" /\ a = PadId(p) /\ ts = {p.track}
    <3>1. PICK p \in synth_tiles : p.port = "output" /\ a = PadId(p) /\ p.track = w
      BY <2>2
    <3>2. PadEdge(p) = <<a, node_mapping[PadTrack(p)]>>
      BY <3>1 DEF PadEdge
    <3>3. <<a, node_mapping[PadTrack(p)]>> \in ToSet(edges)
      BY <3>2, PadEnds
    <3>4. node_mapping[PadTrack(p)] \in C
      BY <3>3
    <3>. QED
      BY <3>1, <3>4, PadEnds, TrackSpreads DEF PadTrack, InAll
  <2>. QED
    BY <2>1, <2>2 DEF IsSource
<1>2. InAll(v, C) \/ DeadEnd(v, C)
  BY <1>1, CrossingsSpread
<1>3. CASE \E i \in Keys \ Outputs, t \in Tiles : b = OldPin(i, t) /\ us = TracksOf(i, t)
  <2>1. PICK p \in pips : p.pin \notin Outputs /\ b = OldPin(p.pin, p.tile) /\ ~Reserved(p) /\ p.track = v
    <3>1. PICK i \in Keys \ Outputs, t \in Tiles : b = OldPin(i, t) /\ us = TracksOf(i, t)
      BY <1>3
    <3>2. PICK p \in pips : p.pin = i /\ p.tile = t /\ ~Reserved(p) /\ p.track = v
      BY <3>1, TracksAreOpen DEF Routed
    <3>. QED
      BY <3>1, <3>2
  <2>2. InAll(v, C)
    BY <1>2, <2>1 DEF DeadEnd
  <2>3. /\ p.pin \in Keys /\ p.tile \in Tiles /\ v \in Tracks /\ Joins(p.track, Place[p.tile], Meets(p)) \in DOMAIN segments[v]
        /\ PinAt(p) \in DOMAIN node_mapping /\ WireOf(p) \in DOMAIN node_mapping
        /\ PipLinks(p) \subseteq LinksOf(graph_edge)
    BY <2>1, PipEnds
  <2>4. TrackAt(p) = <<"track", v, Joins(p.track, Place[p.tile], Meets(p))>>
    BY <2>1 DEF TrackAt
  <2>5. TrackAt(p) \in DOMAIN node_mapping /\ node_mapping[TrackAt(p)] \in C
    BY <2>2, <2>3, <2>4, MappedIfAlive DEF InAll
  <2>6. <<TrackAt(p), WireOf(p)>> \in LinksOf(graph_edge) /\ <<WireOf(p), PinAt(p)>> \in LinksOf(graph_edge)
    BY <2>1, <2>3 DEF PipLinks
  <2>7. node_mapping[PinAt(p)] \in C
    BY <2>3, <2>5, <2>6 DEF Closed
  <2>. QED
    BY <2>1, <2>3, <2>7, PipEnds, PinIsOne
<1>4. CASE \E p \in synth_tiles : p.port = "input" /\ b = PadId(p) /\ us = {p.track}
  <2>1. PICK p \in synth_tiles : p.port = "input" /\ b = PadId(p) /\ p.track = v
    BY <1>4
  <2>2. PadEdge(p) = <<node_mapping[PadTrack(p)], b>>
    BY <2>1 DEF PadEdge
  <2>3. InAll(v, C)
    BY <1>2, <2>1, PadEnds DEF DeadEnd
  <2>4. node_mapping[PadTrack(p)] \in C
    BY <2>1, <2>3, PadEnds DEF InAll, PadTrack
  <2>5. <<node_mapping[PadTrack(p)], b>> \in ToSet(edges)
    BY <2>2, PadEnds
  <2>. QED
    BY <2>4, <2>5
<1>. QED
  BY <1>3, <1>4 DEF IsSink

(* And so is a pin that a mux joins to it.                                 *)
LEMMA MuxIsReached ==
  ASSUME Routed, NEW C, Closed(C), NEW m \in muxes, OldPin(m.from, m.src) \in C
  PROVE  OldPin(m.to, m.dst) \in C
<1>1. m.from \in Keys /\ m.to \in Keys /\ m.src \in Tiles /\ m.dst \in Tiles
  BY DeviceAssumption DEF Routed, PinsTyped
<1>2. PICK l \in LinksOf(graph_edge) : IsMuxLink(l, m)
  <2>1. m \in muxes \ {}
    OBVIOUS
  <2>. QED
    BY <2>1 DEF Routed, LinksRight
<1>3. PICK d \in final[m.from], e \in final[m.to] :
         l = <<<<"pin", m.from, m.src, d>>, <<"pin", m.to, m.dst, e>>>>
  BY <1>2 DEF IsMuxLink
<1>. QED
  BY <1>1, <1>3, PinIsOne DEF Closed

-----------------------------------------------------------------------------
(* The node of a pin is of no other.                                       *)
LEMMA PinOfIsOne ==
  ASSUME NEW k \in Keys, NEW t \in Tiles, NEW j \in Keys, NEW u \in Tiles, PinOf(k, t) = PinOf(j, u)
  PROVE  k = j /\ t = u
<1>1. <<k, 0>> = <<j, 0>> /\ Place[t][1] = Place[u][1] /\ Place[t][2] = Place[u][2]
  BY FieldsOfPin DEF PinOf
<1>2. Place[t] \in Nat \X Nat /\ Place[u] \in Nat \X Nat
  BY DeviceAssumption
<1>3. Place[t] = Place[u]
  BY <1>1, <1>2
<1>. QED
  BY <1>1, <1>3, PinAssumption

(* Neither is the node of a pad.                                           *)
LEMMA PadIsNamed ==
  ASSUME Routed, NEW p \in synth_tiles
  PROVE  /\ PadId(p) \in DOMAIN nodes /\ nodes[PadId(p)].ptc = PadName(p)
         /\ <<nodes[PadId(p)].x_low, nodes[PadId(p)].y_low>> = p.loc
         /\ p.port \in {"input", "output", "VCC"}
         /\ p.port = "input" => PadName(p)[1] = "outpad" /\ nodes[PadId(p)].type = "IPIN"
         /\ p.port = "output" => PadName(p)[1] = "inpad" /\ nodes[PadId(p)].type = "OPIN"
         /\ p.port = "VCC" => PadName(p)[1] = "VCC" /\ nodes[PadId(p)].type = "OPIN"
<1>1. PadId(p) \in PadNodes(p)
  BY PadEnds
<1>2. /\ PadId(p) \in DOMAIN nodes /\ IsPin(PadId(p)) /\ nodes[PadId(p)].ptc = PadName(p)
      /\ <<nodes[PadId(p)].x_low, nodes[PadId(p)].y_low>> = p.loc
  BY <1>1 DEF PadNodes
<1>3. p.port \in {"input", "output", "VCC"}
  BY DEF Routed, PadsTyped, PinsTyped
<1>4. nodes[PadId(p)] \in VprPins
  BY <1>2 DEF Routed, NodesRight, IsPin, PinTypes, TrackTypes
<1>5. /\ p.port = "input" => PadName(p)[1] = "outpad"
      /\ p.port = "output" => PadName(p)[1] = "inpad"
      /\ p.port = "VCC" => PadName(p)[1] = "VCC"
  BY DEF PadName
<1>6. LET n == nodes[PadId(p)]
      IN  /\ n.ptc[1] \in {"VCC", "inpad"} => n.type = "OPIN"
          /\ n.ptc[1] = "outpad" => n.type = "IPIN"
  BY <1>4, PinIsNamed
<1>. QED
  BY <1>2, <1>3, <1>5, <1>6

(* A pad and a pin never have one node.                                    *)
LEMMA PadIsNoPin ==
  ASSUME Routed, NEW p \in synth_tiles, NEW k \in Keys, NEW t \in Tiles
  PROVE  PadId(p) # OldPin(k, t)
<1>1. nodes[OldPin(k, t)].ptc = <<k, 0>>
  <2>1. nodes[OldPin(k, t)] = PinOf(k, t)
    BY PinIsOne
  <2>2. PinOf(k, t).ptc = <<k, 0>>
    BY FieldsOfPin DEF PinOf
  <2>. QED
    BY <2>1, <2>2
<1>2. k \notin {"VCC", "inpad", "outpad"}
  BY FieldsOfPin
<1>3. nodes[PadId(p)].ptc[1] \in {"VCC", "inpad", "outpad"}
  BY PadIsNamed
<1>. QED
  BY <1>1, <1>2, <1>3

(* Pads of one direction have nodes of their own: on a tile of several     *)
(* they are numbered by their z.                                           *)
LEMMA PadsApart ==
  ASSUME Routed, NEW p \in synth_tiles, NEW q \in synth_tiles, p.port = q.port, p.port # "VCC",
         PadId(p) = PadId(q)
  PROVE  p = q
<1>1. PadName(p) = PadName(q) /\ p.loc = q.loc
  BY PadIsNamed
<1>2. /\ p \in region.pins /\ q \in region.pins /\ p.port \in {"input", "output"}
      /\ p.z \in Nat /\ q.z \in Nat
  BY DEF Routed, PadsTyped, PinsTyped
<1>3. p.tile = q.tile /\ (p.z = q.z => p = q)
  BY <1>1, <1>2 DEF Routed, PinsTyped
<1> DEFINE Pads(port) == {r \in synth_tiles : r.tile = p.tile /\ r.port = port}
           c == Cardinality(Pads(p.port))
           d == Cardinality(Pads("output"))
<1>4. IsFiniteSet(Pads(p.port)) /\ IsFiniteSet(Pads("output"))
  BY FS_Subset DEF Routed
<1>5. c \in Nat /\ d \in Nat
  BY <1>4, FS_CardinalityType
<1>6. p \in Pads(p.port) /\ q \in Pads(p.port)
  BY <1>3
<1>7. CASE c > 1
  <2>1. {r \in synth_tiles : r.tile = q.tile /\ r.port = q.port} = Pads(p.port)
    BY <1>3
  <2>2. {r \in synth_tiles : r.tile = q.tile /\ r.port = "output"} = Pads("output")
    BY <1>3
  <2>3. PadName(p) = IF p.port = "output" THEN <<"inpad", p.z - 0>> ELSE <<"outpad", p.z - d>>
    BY <1>2, <1>7 DEF PadName
  <2>4. PadName(q) = IF p.port = "output" THEN <<"inpad", q.z - 0>> ELSE <<"outpad", q.z - d>>
    BY <1>2, <1>7, <2>1, <2>2 DEF PadName
  <2> HIDE DEF d
  <2>5. p.z - 0 = q.z - 0 \/ p.z - d = q.z - d
    <3>1. PadName(p)[2] = PadName(q)[2]
      BY <1>1
    <3>2. CASE p.port = "output"
      <4>1. PadName(p)[2] = p.z - 0 /\ PadName(q)[2] = q.z - 0
        BY <2>3, <2>4, <3>2
      <4>. QED
        BY <3>1, <4>1
    <3>3. CASE p.port # "output"
      <4>1. PadName(p)[2] = p.z - d /\ PadName(q)[2] = q.z - d
        BY <2>3, <2>4, <3>3
      <4>. QED
        BY <3>1, <4>1
    <3>. QED
      BY <3>2, <3>3
  <2>. QED
    BY <1>2, <1>3, <1>5, <2>5
<1>8. CASE ~(c > 1)
  <2> HIDE DEF Pads
  <2>. QED
    BY <1>4, <1>6, <1>8, TwoMembers
<1>. QED
  BY <1>7, <1>8

-----------------------------------------------------------------------------
(* The tracks that some tracks lead on to, and the graph nodes that are    *)
(* reached from a source because of the device.                            *)
Onward(ts) == UNION {Reached(Crossed, w) : w \in ts}

MeetsOnward(k, t, ts) == k \notin Outputs /\ TracksOf(k, t) \intersect Onward(ts) # {}

IsReached(g, a, ts) ==
  \/ g[1] = "track" /\ g[2] \in Onward(ts)
  \/ g[1] \in {"wire", "pin"} /\ (MeetsOnward(g[2], g[3], ts) \/ OldPin(g[2], g[3]) = a)
  \/ g[1] = "pin" /\ \E m \in muxes : m.to = g[2] /\ m.dst = g[3] /\ OldPin(m.from, m.src) = a

(* The start is there, and pips lead on.                                   *)
LEMMA OnwardIsClosed ==
  ASSUME Routed, NEW ts
  PROVE  ts \subseteq Onward(ts) /\ \A l \in Crossed : l[1] \in Onward(ts) => l[2] \in Onward(ts)
<1>1. \A w : /\ w \in Reached(Crossed, w)
             /\ \A l \in Crossed : l[1] \in Reached(Crossed, w) => l[2] \in Reached(Crossed, w)
  BY CrossedFinite, ReachedIsClosure
<1>. QED
  BY <1>1 DEF Onward

(* The source is an output pin, with the tracks it drives, or a pad.       *)
LEMMA SourceIsOne ==
  ASSUME Routed, NEW a, NEW ts, IsSource(a, ts), NEW k \in Keys, NEW t \in Tiles, OldPin(k, t) = a
  PROVE  k \in Outputs /\ ts = TracksOf(k, t)
<1>1. PICK o \in Outputs, u \in Tiles : a = OldPin(o, u) /\ ts = TracksOf(o, u)
  BY PadIsNoPin DEF IsSource
<1>2. o \in Keys
  BY DeviceAssumption
<1>3. PinOf(k, t) = PinOf(o, u)
  BY <1>1, <1>2, PinIsOne
<1>. QED
  BY <1>1, <1>2, <1>3, PinOfIsOne

(* Rows lead on to what is reached.                                        *)
LEMMA RowsLeadOnward ==
  ASSUME Routed, NEW a, NEW ts, IsSource(a, ts), NEW l \in LinksOf(graph_edge), IsReached(l[1], a, ts)
  PROVE  IsReached(l[2], a, ts)
<1>1. Explained(l, {})
  BY DEF Routed, LinksRight
<1>2. CASE l \in ShortLinks
  <2>1. \E w, i, j : l = <<<<"track", w, i>>, <<"track", w, j>>>>
    <3>1. PICK r \in Shorts : l = <<r.src, r.dst>>
      BY <1>2 DEF ShortLinks
    <3> DEFINE J(w) == {e \in (DOMAIN segments[w]) \X (DOMAIN segments[w]) :
                          /\ segments[w][e[1]].dir # segments[w][e[2]].dir
                          /\ OnePerSide(segments[w], e[1]) \/ OnePerSide(segments[w], e[2])}
               S(w) == {Row(<<"track", w, e[1]>>, <<"track", w, e[2]>>, Short) : e \in J(w)}
    <3>2. ASSUME NEW w, NEW s \in S(w)
          PROVE  \E i, j : s = Row(<<"track", w, i>>, <<"track", w, j>>, Short)
      <4>1. PICK e \in J(w) : s = Row(<<"track", w, e[1]>>, <<"track", w, e[2]>>, Short)
        OBVIOUS
      <4>. QED
        BY <4>1
    <3>3. Shorts = UNION {S(w) : w \in Tracks}
      BY DEF Shorts
    <3> HIDE DEF S
    <3>4. PICK w \in Tracks : r \in S(w)
      BY <3>3
    <3>5. PICK i, j : r = Row(<<"track", w, i>>, <<"track", w, j>>, Short)
      BY <3>2, <3>4
    <3>. QED
      BY <3>1, <3>5, EndsOfRows
  <2>. QED
    BY <2>1 DEF IsReached
<1>3. ASSUME NEW p \in pips, ~Reserved(p), l \in PipLinks(p)
      PROVE  IsReached(l[2], a, ts)
  <2>1. /\ p.pin \in Keys /\ p.tile \in Tiles
        /\ \E d \in final[p.pin] : PinAt(p) = <<"pin", p.pin, p.tile, d>>
    BY <1>3, PipEnds
  <2>2. p.track \in TracksOf(p.pin, p.tile)
    BY <1>3, TracksAreOpen DEF Routed
  <2>3. ts \subseteq Onward(ts)
    BY OnwardIsClosed
  <2>4. /\ WireOf(p) = <<"wire", p.pin, p.tile>> /\ PinAt(p)[1] = "pin" /\ PinAt(p)[2] = p.pin
        /\ PinAt(p)[3] = p.tile /\ TrackAt(p)[1] = "track" /\ TrackAt(p)[2] = p.track
    BY DEF WireOf, PinAt, TrackAt
  <2>5. CASE p.pin \in Outputs
    <3>1. l = <<PinAt(p), WireOf(p)>> \/ l = <<WireOf(p), TrackAt(p)>>
      BY <1>3, <2>5 DEF PipLinks
    <3>2. OldPin(p.pin, p.tile) = a
      <4>1. ~MeetsOnward(p.pin, p.tile, ts)
        BY <2>5 DEF MeetsOnward
      <4>2. ~\E m \in muxes : m.to = p.pin
        BY <2>5 DEF Routed, PinsTyped
      <4>. QED
        BY <2>4, <3>1, <4>1, <4>2 DEF IsReached
    <3>3. p.track \in Onward(ts)
      BY <2>1, <2>2, <2>3, <3>2, SourceIsOne
    <3>. QED
      BY <2>4, <3>1, <3>2, <3>3 DEF IsReached
  <2>6. CASE p.pin \notin Outputs
    <3>1. l = <<TrackAt(p), WireOf(p)>> \/ l = <<WireOf(p), PinAt(p)>>
      BY <1>3, <2>6 DEF PipLinks
    <3>2. MeetsOnward(p.pin, p.tile, ts) \/ OldPin(p.pin, p.tile) = a
      BY <2>2, <2>4, <2>6, <3>1 DEF IsReached, MeetsOnward
    <3>. QED
      BY <2>4, <3>1, <3>2 DEF IsReached
  <2>. QED
    BY <2>5, <2>6
<1>4. ASSUME NEW s \in crossings, ~Reserved(s), l = CrossLink(s)
      PROVE  IsReached(l[2], a, ts)
  <2>1. <<s.from, s.to>> \in Crossed
    BY <1>4 DEF Crossed
  <2>2. s.from \in Onward(ts)
    BY <1>4 DEF IsReached, CrossLink
  <2>3. s.to \in Onward(ts)
    BY <2>1, <2>2, OnwardIsClosed
  <2>. QED
    BY <1>4, <2>3 DEF IsReached, CrossLink
<1>5. ASSUME NEW m \in muxes, IsMuxLink(l, m)
      PROVE  IsReached(l[2], a, ts)
  <2>1. PICK d, e : l = <<<<"pin", m.from, m.src, d>>, <<"pin", m.to, m.dst, e>>>>
    BY <1>5 DEF IsMuxLink
  <2>2. m.from \in Outputs /\ \A n \in muxes : n.to \notin Outputs
    BY DEF Routed, PinsTyped
  <2>3. OldPin(m.from, m.src) = a
    BY <2>1, <2>2 DEF IsReached, MeetsOnward
  <2>. QED
    BY <2>1, <2>3 DEF IsReached
<1>. QED
  BY <1>1, <1>2, <1>3, <1>4, <1>5 DEF Explained

-----------------------------------------------------------------------------
(* The ids of what is reached.                                             *)
ReachedIds(a, ts) ==
  {i \in DOMAIN nodes :
     \/ i = a
     \/ nodes[i].type = "SINK"
     \/ \E g \in DOMAIN node_mapping : node_mapping[g] = i /\ IsReached(g, a, ts)
     \/ \E q \in synth_tiles : q.port = "input" /\ q.track \in Onward(ts) /\ i = PadId(q)}

(* The source is a node of VPR's that drives.                              *)
LEMMA SourceDrives ==
  ASSUME Routed, NEW a, NEW ts, IsSource(a, ts)
  PROVE  a \in DOMAIN nodes /\ nodes[a].type = "OPIN"
<1>1. CASE \E o \in Outputs, t \in Tiles : a = OldPin(o, t) /\ ts = TracksOf(o, t)
  <2>1. PICK o \in Outputs, t \in Tiles : a = OldPin(o, t)
    BY <1>1
  <2>2. o \in Keys
    BY DeviceAssumption
  <2>3. a \in DOMAIN nodes /\ nodes[a] = PinOf(o, t)
    BY <2>1, <2>2, PinIsOne
  <2>. QED
    BY <2>3, FieldsOfPin DEF PinOf
<1>2. CASE \E p \in synth_tiles : p.port = "output" /\ a = PadId(p) /\ ts = {p.track}
  BY <1>2, PadIsNamed
<1>. QED
  BY <1>1, <1>2 DEF IsSource

(* A graph node of a pin is one of its sides.                              *)
LEMMA SideOfPin ==
  ASSUME Routed, NEW g \in DOMAIN node_mapping, g[1] = "pin"
  PROVE  \E k \in Keys, t \in Tiles : \E d \in final[k] : g = <<"pin", k, t, d>>
<1>1. DOMAIN node_mapping \subseteq PinNodes \union AliveNodes
  BY DEF Routed, NodesRight
<1>2. g \in PinNodes
  BY <1>1, AliveNodesFinite DEF Routed
<1>. QED
  BY <1>2, SidesAreNodes

(* A graph node whose id is there is reached.                              *)
LEMMA ReachedById ==
  ASSUME Routed, NEW a, NEW ts, IsSource(a, ts), NEW g \in DOMAIN node_mapping,
         node_mapping[g] \in ReachedIds(a, ts)
  PROVE  IsReached(g, a, ts)
<1> DEFINE i == node_mapping[g]
<1>1. /\ i \in DOMAIN nodes
      /\ \A h \in DOMAIN node_mapping :
           nodes[node_mapping[h]].type \in IF h[1] = "pin" THEN PinTypes ELSE TrackTypes
  BY DEF Routed, NodesMapped
<1>2. /\ PinTypes \intersect TrackTypes = {} /\ "SINK" \notin PinTypes \union TrackTypes
      /\ "OPIN" \in PinTypes /\ "IPIN" \in PinTypes
  BY DEF PinTypes, TrackTypes
<1>3. /\ nodes[a].type = "OPIN"
      /\ \A q \in synth_tiles : q.port = "input" => nodes[PadId(q)].type = "IPIN"
  BY SourceDrives, PadIsNamed
<1>4. CASE g[1] # "pin"
  <2>1. nodes[i].type \in TrackTypes
    BY <1>1, <1>4
  <2>2. nodes[i].type \notin {"OPIN", "IPIN", "SINK"}
    BY <1>2, <2>1
  <2> HIDE DEF i
  <2>3. i \in ReachedIds(a, ts)
    BY DEF i
  <2>4. PICK h \in DOMAIN node_mapping : node_mapping[h] = i /\ IsReached(h, a, ts)
    BY <1>3, <2>2, <2>3 DEF ReachedIds
  <2>5. node_mapping[g] = node_mapping[h]
    BY <2>4 DEF i
  <2>6. g = h
    BY <1>4, <2>5 DEF Routed, NodesMapped
  <2>. QED
    BY <2>4, <2>6
<1>5. CASE g[1] = "pin"
  <2>1. PICK k \in Keys, t \in Tiles : \E d \in final[k] : g = <<"pin", k, t, d>>
    BY <1>5, SideOfPin
  <2>2. i = OldPin(k, t) /\ nodes[i] = PinOf(k, t)
    BY <2>1, PinIsOne
  <2>3. CASE i = a
    <3>1. g[2] = k /\ g[3] = t
      BY <2>1
    <3>2. OldPin(g[2], g[3]) = a
      BY <2>2, <2>3, <3>1
    <3>. QED
      BY <1>5, <3>2 DEF IsReached
  <2>4. ASSUME NEW h \in DOMAIN node_mapping, node_mapping[h] = i, IsReached(h, a, ts)
        PROVE  IsReached(g, a, ts)
    <3>1. h[1] = "pin"
      BY <1>1, <1>2, <1>5, <2>4
    <3>3. PICK j \in Keys, u \in Tiles : \E e \in final[j] : h = <<"pin", j, u, e>>
      BY <3>1, SideOfPin
    <3>4. PinOf(j, u) = PinOf(k, t)
      BY <2>2, <2>4, <3>3, PinIsOne
    <3>5. j = k /\ u = t
      BY <3>4, PinOfIsOne
    <3>. QED
      BY <2>1, <2>4, <3>3, <3>5 DEF IsReached
  <2>5. \A q \in synth_tiles : i # PadId(q)
    BY <2>2, PadIsNoPin
  <2>6. nodes[i].type # "SINK"
    BY <1>1, <1>2, <1>5
  <2>. QED
    BY <2>3, <2>4, <2>5, <2>6 DEF ReachedIds
<1>. QED
  BY <1>4, <1>5

(* Nothing leads out of it.                                                *)
LEMMA RowsStayInside ==
  ASSUME Routed, NEW a, NEW ts, IsSource(a, ts)
  PROVE  Closed(ReachedIds(a, ts))
<1> SUFFICES ASSUME NEW x \in DOMAIN node_mapping, NEW y \in DOMAIN node_mapping,
                    <<x, y>> \in LinksOf(graph_edge), node_mapping[x] \in ReachedIds(a, ts)
             PROVE  node_mapping[y] \in ReachedIds(a, ts)
  BY DEF Closed
<1>1. IsReached(x, a, ts)
  BY ReachedById
<1>2. IsReached(y, a, ts)
  BY <1>1, RowsLeadOnward
<1>3. node_mapping[y] \in DOMAIN nodes
  BY DEF Routed, NodesMapped
<1>. QED
  BY <1>2, <1>3 DEF ReachedIds

(* Nor do the edges of the graph: those of classes and of pads lead back   *)
(* to it too.                                                              *)
LEMMA EdgesStayInside ==
  ASSUME Routed, \A e \in ToSet(edges) : e \in (DOMAIN nodes) \X (DOMAIN nodes),
         NEW a, NEW ts, IsSource(a, ts), NEW e \in ToSet(edges), e[1] \in ReachedIds(a, ts)
  PROVE  e[2] \in ReachedIds(a, ts)
<1>1. IsClassEdge(e) \/ \E p \in synth_tiles : e = PadEdge(p)
  BY DEF Routed, EdgesRight
<1>2. e[1] \in DOMAIN nodes /\ e[2] \in DOMAIN nodes
  OBVIOUS
<1>3. CASE IsClassEdge(e)
  <2>1. CASE nodes[e[2]].type = "SINK"
    BY <1>2, <2>1 DEF ReachedIds
  <2>2. CASE nodes[e[1]].type = "SOURCE"
    <3>1. e[1] # a
      BY <2>2, SourceDrives
    <3>2. \A g \in DOMAIN node_mapping : nodes[node_mapping[g]].type # "SOURCE"
      BY DEF Routed, NodesMapped, PinTypes, TrackTypes
    <3>3. \A q \in synth_tiles : q.port = "input" => nodes[PadId(q)].type = "IPIN"
      BY PadIsNamed
    <3>. QED
      BY <2>2, <3>1, <3>2, <3>3 DEF ReachedIds
  <2>. QED
    BY <1>3, <2>1, <2>2 DEF IsClassEdge
<1>4. ASSUME NEW p \in synth_tiles, e = PadEdge(p), p.port = "input"
      PROVE  e[2] \in ReachedIds(a, ts)
  <2>1. e[1] = node_mapping[PadTrack(p)] /\ e[2] = PadId(p)
    BY <1>4 DEF PadEdge
  <2>2. IsReached(PadTrack(p), a, ts)
    BY <2>1, PadEnds, ReachedById
  <2>3. p.track \in Onward(ts)
    BY <2>2 DEF IsReached, PadTrack
  <2>. QED
    BY <1>2, <1>4, <2>1, <2>3 DEF ReachedIds
<1>5. ASSUME NEW p \in synth_tiles, e = PadEdge(p), p.port # "input"
      PROVE  e[2] \in ReachedIds(a, ts)
  <2>1. e[1] = PadId(p) /\ e[2] = node_mapping[PadTrack(p)]
    BY <1>5 DEF PadEdge
  <2>2. nodes[PadId(p)].type = "OPIN" /\ nodes[PadId(p)].ptc[1] \in {"VCC", "inpad"}
    BY <1>5, PadIsNamed
  <2>3. \A q \in synth_tiles : q.port = "input" => nodes[PadId(q)].type = "IPIN"
    BY PadIsNamed
  <2>4. \A g \in DOMAIN node_mapping : node_mapping[g] # PadId(p)
    <3> SUFFICES ASSUME NEW g \in DOMAIN node_mapping, node_mapping[g] = PadId(p) PROVE FALSE
      OBVIOUS
    <3>1. g[1] = "pin"
      BY <2>2 DEF Routed, NodesMapped, TrackTypes
    <3>3. PICK k \in Keys, t \in Tiles : \E d \in final[k] : g = <<"pin", k, t, d>>
      BY <3>1, SideOfPin
    <3>. QED
      BY <3>3, PinIsOne, PadIsNoPin
  <2>5. PadId(p) = a
    BY <2>1, <2>2, <2>3, <2>4 DEF ReachedIds
  <2>6. PICK q \in synth_tiles : q.port = "output" /\ a = PadId(q) /\ ts = {q.track}
    <3>1. ~\E o \in Outputs, t \in Tiles : a = OldPin(o, t) /\ ts = TracksOf(o, t)
      BY <2>5, PadIsNoPin, DeviceAssumption
    <3>. QED
      BY <3>1 DEF IsSource
  <2>7. p.port = "output"
    BY <1>5, <2>5, <2>6, PadIsNamed
  <2>8. p = q
    BY <2>5, <2>6, <2>7, PadsApart
  <2>9. p.track \in Onward(ts)
    BY <2>6, <2>8, OnwardIsClosed
  <2>10. IsReached(PadTrack(p), a, ts) /\ PadTrack(p) \in DOMAIN node_mapping
    BY <2>9, PadEnds DEF IsReached, PadTrack
  <2>. QED
    BY <1>2, <2>1, <2>10 DEF ReachedIds
<1>. QED
  BY <1>1, <1>3, <1>4, <1>5

(* What is there is what the device connects.                              *)
LEMMA ReachedIsOfTheDevice ==
  ASSUME Routed, NEW a, NEW ts, IsSource(a, ts), NEW b, NEW us, IsSink(b, us), b \in ReachedIds(a, ts)
  PROVE  \/ \E w \in ts : Reached(Crossed, w) \intersect us # {}
         \/ \E m \in muxes : OldPin(m.from, m.src) = a /\ OldPin(m.to, m.dst) = b
<1>1. CASE \E i \in Keys \ Outputs, t \in Tiles : b = OldPin(i, t) /\ us = TracksOf(i, t)
  <2>1. PICK i \in Keys \ Outputs, t \in Tiles : b = OldPin(i, t) /\ us = TracksOf(i, t)
    BY <1>1
  <2> DEFINE d == CHOOSE e \in final[i] : TRUE
             g == <<"pin", i, t, d>>
  <2>2. d \in final[i]
    BY DEF Routed
  <2>3. g \in DOMAIN node_mapping /\ node_mapping[g] = b
    BY <2>1, <2>2, PinIsOne
  <2>4. IsReached(g, a, ts)
    <3> HIDE DEF g
    <3>. QED
      BY <2>3, ReachedById
  <2>5. OldPin(i, t) # a
    BY SourceIsOne
  <2>6. MeetsOnward(i, t, ts) \/ \E m \in muxes : m.to = i /\ m.dst = t /\ OldPin(m.from, m.src) = a
    BY <2>4, <2>5 DEF IsReached
  <2>. QED
    BY <2>1, <2>6 DEF MeetsOnward, Onward
<1>2. CASE \E p \in synth_tiles : p.port = "input" /\ b = PadId(p) /\ us = {p.track}
  <2>1. PICK p \in synth_tiles : p.port = "input" /\ b = PadId(p) /\ us = {p.track}
    BY <1>2
  <2>2. nodes[b].type = "IPIN" /\ nodes[b].ptc[1] = "outpad"
    BY <2>1, PadIsNamed
  <2>3. b # a
    BY <2>2, SourceDrives
  <2>4. \A g \in DOMAIN node_mapping : node_mapping[g] # b
    <3> SUFFICES ASSUME NEW g \in DOMAIN node_mapping, node_mapping[g] = b PROVE FALSE
      OBVIOUS
    <3>1. g[1] = "pin"
      BY <2>2 DEF Routed, NodesMapped, TrackTypes
    <3>3. PICK k \in Keys, t \in Tiles : \E d \in final[k] : g = <<"pin", k, t, d>>
      BY <3>1, SideOfPin
    <3>. QED
      BY <2>1, <3>3, PinIsOne, PadIsNoPin
  <2>5. PICK q \in synth_tiles : q.port = "input" /\ q.track \in Onward(ts) /\ b = PadId(q)
    BY <2>2, <2>3, <2>4 DEF ReachedIds
  <2>6. p = q
    BY <2>1, <2>5, PadsApart
  <2>7. p.track \in Onward(ts)
    BY <2>5, <2>6
  <2>. QED
    BY <2>1, <2>7 DEF Onward
<1>. QED
  BY <1>1, <1>2 DEF IsSink

-----------------------------------------------------------------------------
(* The links of the graph by old ids.                                      *)
MappedLinks == {l \in LinksOf(graph_edge) : l[1] \in DOMAIN node_mapping /\ l[2] \in DOMAIN node_mapping}
OldLinks == ToSet(edges) \union {<<node_mapping[l[1]], node_mapping[l[2]]>> : l \in MappedLinks}

(* The pair of a row that has its nodes is one of them.                    *)
LEMMA RowsHaveLinks ==
  /\ \A r \in ToSet(graph_edge) : Mapped(r) => Pair(r) \in OldLinks
  /\ \A l \in OldLinks : l \in ToSet(edges) \/ \E r \in ToSet(graph_edge) : Mapped(r) /\ l = Pair(r)
<1>1. ASSUME NEW r \in ToSet(graph_edge), Mapped(r) PROVE Pair(r) \in OldLinks
  <2>1. <<r.src, r.dst>> \in MappedLinks
    BY <1>1 DEF MappedLinks, LinksOf, Mapped
  <2>. QED
    BY <2>1 DEF OldLinks, Pair
<1>2. ASSUME NEW l \in OldLinks, l \notin ToSet(edges)
      PROVE  \E r \in ToSet(graph_edge) : Mapped(r) /\ l = Pair(r)
  <2>1. PICK k \in MappedLinks : l = <<node_mapping[k[1]], node_mapping[k[2]]>>
    BY <1>2 DEF OldLinks
  <2>2. PICK r \in ToSet(graph_edge) : k = <<r.src, r.dst>>
    BY DEF MappedLinks, LinksOf
  <2>3. k[1] = r.src /\ k[2] = r.dst
    BY <2>2
  <2>. QED
    BY <2>1, <2>2, <2>3 DEF MappedLinks, Mapped, Pair
<1>. QED
  BY <1>1, <1>2

(* What is sent of them has their new ids.                                 *)
LEMMA EndsSent ==
  /\ \A ids : /\ Between(ids).src = id_map[ids[1]] /\ Between(ids).dst = id_map[ids[2]]
              /\ "src" \in DOMAIN Between(ids) /\ "dst" \in DOMAIN Between(ids)
  /\ \A r : /\ Bare(r).src = id_map[Pair(r)[1]] /\ Bare(r).dst = id_map[Pair(r)[2]]
            /\ "src" \in DOMAIN Bare(r) /\ "dst" \in DOMAIN Bare(r)
BY DEF Between, Bare

(* The written graph is the graph by old ids with other names.             *)
LEMMA WrittenLinks ==
  ASSUME ExportInv, stage = "written"
  PROVE  {<<e.src, e.dst>> : e \in ToSet(written)} = {<<id_map[l[1]], id_map[l[2]]>> : l \in OldLinks}
<1> DEFINE A == {<<e.src, e.dst>> : e \in ToSet(written)}
           B == {<<id_map[l[1]], id_map[l[2]]>> : l \in OldLinks}
<1>1. ToSet(Sent) = Wanted
  BY PassedIsSent DEF ExportInv, WriteInv, Passed, Serializing
<1>2. Wanted = {Between(e) : e \in ToSet(edges)} \union {Bare(r) : r \in {q \in ToSet(graph_edge) : Mapped(q)}}
  BY DEF Wanted, Serializing, Bare
<1>3. \A x \in Wanted : \E l \in OldLinks : /\ x.src = id_map[l[1]] /\ x.dst = id_map[l[2]]
                                            /\ "src" \in DOMAIN x /\ "dst" \in DOMAIN x
  BY <1>2, EndsSent, RowsHaveLinks DEF OldLinks
<1>4. \A l \in OldLinks : \E x \in Wanted : x.src = id_map[l[1]] /\ x.dst = id_map[l[2]]
  BY <1>2, EndsSent, RowsHaveLinks
<1>5. \A n \in DOMAIN written : /\ Sent[n] \in Wanted
                                /\ Sent[n].src = written[n].src /\ Sent[n].dst = written[n].dst
  <2> SUFFICES ASSUME NEW n \in DOMAIN written
               PROVE  /\ Sent[n] \in Wanted
                      /\ Sent[n].src = written[n].src /\ Sent[n].dst = written[n].dst
    OBVIOUS
  <2>1. DOMAIN Sent = DOMAIN written /\ Sent[n] = [written[n] EXCEPT !.features = {}]
    BY DEF Sent
  <2>2. Sent[n] \in Wanted
    BY <1>1, <2>1 DEF ToSet
  <2>3. "src" \in DOMAIN Sent[n] /\ "dst" \in DOMAIN Sent[n]
    BY <1>3, <2>2
  <2>. QED
    BY <2>1, <2>2, <2>3
<1>6. \A x \in Wanted : \E n \in DOMAIN written : x = Sent[n]
  <2>1. DOMAIN Sent = DOMAIN written
    BY DEF Sent
  <2>. QED
    BY <1>1, <2>1 DEF ToSet
<1>7. A \subseteq B
  <2>1. \A e \in ToSet(written) : \E l \in OldLinks : e.src = id_map[l[1]] /\ e.dst = id_map[l[2]]
    BY <1>3, <1>5 DEF ToSet
  <2>. QED
    BY <2>1
<1>8. B \subseteq A
  <2>1. \A l \in OldLinks : \E e \in ToSet(written) : e.src = id_map[l[1]] /\ e.dst = id_map[l[2]]
    BY <1>4, <1>5, <1>6 DEF ToSet
  <2>. QED
    BY <2>1
<1>. QED
  BY <1>7, <1>8

(* They are finitely many.                                                 *)
LEMMA OldLinksFinite ==
  ASSUME NodesMapped, EdgesListed
  PROVE  IsFiniteSet(OldLinks) /\ OldLinks \subseteq (DOMAIN nodes) \X (DOMAIN nodes)
<1>1. \A l \in MappedLinks : node_mapping[l[1]] \in DOMAIN nodes /\ node_mapping[l[2]] \in DOMAIN nodes
  BY DEF MappedLinks, NodesMapped
<1>2. OldLinks \subseteq (DOMAIN nodes) \X (DOMAIN nodes)
  BY <1>1 DEF OldLinks, EdgesListed
<1>3. Len(nodes) \in Nat /\ DOMAIN nodes = 1 .. Len(nodes)
  BY DEF NodesMapped
<1>4. IsFiniteSet(DOMAIN nodes)
  BY <1>3, FS_Interval
<1>5. IsFiniteSet((DOMAIN nodes) \X (DOMAIN nodes))
  BY <1>4, FS_Product
<1>. QED
  BY <1>2, <1>5, FS_Subset

-----------------------------------------------------------------------------
(* By old ids, what a source reaches is what the device connects to it.    *)
LEMMA OldRoutes ==
  ASSUME Routed, EdgesListed, NEW a, NEW ts, IsSource(a, ts), NEW b, NEW us, IsSink(b, us)
  PROVE  b \in Reached(OldLinks, a) <=>
           \/ \E w \in ts : Reached(Crossed, w) \intersect us # {}
           \/ \E m \in muxes : OldPin(m.from, m.src) = a /\ OldPin(m.to, m.dst) = b
<1> DEFINE C == Reached(OldLinks, a)
<1>1. /\ a \in C
      /\ \A l \in OldLinks : l[1] \in C => l[2] \in C
      /\ \A D : a \in D /\ (\A l \in OldLinks : l[1] \in D => l[2] \in D) => C \subseteq D
  BY OldLinksFinite, ReachedIsClosure DEF Routed
<1> HIDE DEF C
<1>2. C \subseteq ReachedIds(a, ts)
  <2> DEFINE D == ReachedIds(a, ts)
  <2>1. a \in D
    BY SourceDrives DEF ReachedIds
  <2>2. ASSUME NEW l \in OldLinks, l[1] \in D PROVE l[2] \in D
    <3>1. CASE l \in ToSet(edges)
      BY <2>2, <3>1, EdgesStayInside DEF EdgesListed
    <3>2. CASE l \notin ToSet(edges)
      <4>1. PICK k \in MappedLinks : l = <<node_mapping[k[1]], node_mapping[k[2]]>>
        BY <3>2 DEF OldLinks
      <4>2. k \in LinksOf(graph_edge) /\ k[1] \in DOMAIN node_mapping /\ k[2] \in DOMAIN node_mapping
        BY DEF MappedLinks
      <4>3. k = <<k[1], k[2]>>
        BY <4>2 DEF LinksOf
      <4>. QED
        BY <2>2, <4>1, <4>2, <4>3, RowsStayInside DEF Closed
    <3>. QED
      BY <3>1, <3>2
  <2> HIDE DEF D
  <2>3. C \subseteq D
    BY <1>1, <2>1, <2>2
  <2>. QED
    BY <2>3 DEF D
<1>3. Closed(C) /\ \A e \in ToSet(edges) : e[1] \in C => e[2] \in C
  <2>1. \A e \in ToSet(edges) : e[1] \in C => e[2] \in C
    BY <1>1 DEF OldLinks
  <2>2. ASSUME NEW x \in DOMAIN node_mapping, NEW y \in DOMAIN node_mapping,
               <<x, y>> \in LinksOf(graph_edge), node_mapping[x] \in C
        PROVE  node_mapping[y] \in C
    <3>1. <<x, y>> \in MappedLinks
      BY <2>2 DEF MappedLinks
    <3>2. <<node_mapping[x], node_mapping[y]>> \in OldLinks
      BY <3>1 DEF OldLinks
    <3>. QED
      BY <1>1, <2>2, <3>2
  <2>. QED
    BY <2>1, <2>2 DEF Closed
<1>4. b \in C => \/ \E w \in ts : Reached(Crossed, w) \intersect us # {}
                 \/ \E m \in muxes : OldPin(m.from, m.src) = a /\ OldPin(m.to, m.dst) = b
  BY <1>2, ReachedIsOfTheDevice
<1>5. ASSUME NEW w \in ts, Reached(Crossed, w) \intersect us # {} PROVE b \in C
  <2>1. PICK v \in us : v \in Reached(Crossed, w)
    BY <1>5
  <2>. QED
    BY <1>1, <1>3, <2>1, DeviceIsReached
<1>6. ASSUME NEW m \in muxes, OldPin(m.from, m.src) = a, OldPin(m.to, m.dst) = b PROVE b \in C
  BY <1>1, <1>3, <1>6, MuxIsReached
<1>. QED
  BY <1>4, <1>5, <1>6 DEF C

(* All that the invariants say together.                                   *)
RoutesInv == ExportInv /\ LayoutTyped /\ SidesInv /\ LinksInv /\ AliveInv /\ PlacedInv

(* Once the graph is written, the invariant says all that the routes rest  *)
(* on.                                                                     *)
LEMMA WrittenIsRouted == RoutesInv /\ stage = "written" => Routed /\ EdgesListed
<1> SUFFICES ASSUME RoutesInv, stage = "written" PROVE Routed /\ EdgesListed
  OBVIOUS
<1>1. stage \in Imported /\ stage \in Marked /\ stage \notin Early \union {"raised"}
  BY DEF Imported, Marked, Early
<1>2. todo = {} /\ left = {}
  BY <1>1 DEF RoutesInv, LinksInv
<1>3. RowsInv /\ NodesMapped /\ EdgesListed /\ IsFiniteSet(synth_tiles)
  BY <1>1 DEF RoutesInv, ExportInv, GraphInv
<1>4. PadsTyped /\ NodesRight /\ EdgesRight
  BY <1>1 DEF RoutesInv, PlacedInv
<1>5. /\ PinsTyped /\ \A k \in Keys : final[k] # {}
      /\ LinksRight(LinksOf(graph_edge), {}, DOMAIN wire_node)
  BY <1>1, <1>2 DEF RoutesInv, LinksInv
<1>6. \A g \in TrackNodes : LivesBy(LinksOf(graph_edge), g) => TrackOf(g) \in alive
  BY <1>1 DEF RoutesInv, AliveInv
<1>. QED
  BY <1>3, <1>4, <1>5, <1>6 DEF Routed, RoutesInv

(* Sources and sinks by their new ids.                                     *)
LEMMA PinNodeIsNew ==
  ASSUME Routed, ClockInv, NEW k \in Keys, NEW t \in Tiles
  PROVE  PinNode(k, t) = id_map[OldPin(k, t)]
<1> DEFINE d == CHOOSE e \in final[k] : TRUE
           g == <<"pin", k, t, d>>
<1>1. d \in final[k]
  BY DEF Routed
<1>2. g \in DOMAIN node_mapping /\ node_mapping[g] = OldPin(k, t)
  BY <1>1, PinIsOne
<1>3. node_map = [h \in DOMAIN node_mapping |-> id_map[node_mapping[h]]]
  BY DEF ClockInv, Routed
<1>4. PinNode(k, t) = node_map[g]
  BY DEF PinNode
<1> HIDE DEF g
<1>. QED
  BY <1>2, <1>3, <1>4

(* The ends of a route, under the ids the file gives them.                 *)
LEMMA EndsAreNew ==
  ASSUME Routed, ClockInv
  PROVE  /\ \A a \in Sources : \E old \in DOMAIN nodes : a.node = id_map[old] /\ IsSource(old, a.tracks)
         /\ \A b \in Sinks : \E old \in DOMAIN nodes : b.node = id_map[old] /\ IsSink(old, b.tracks)
<1>1. ASSUME NEW port, NEW a \in RegionPads(port)
      PROVE  \E p \in synth_tiles : /\ p.port = port /\ a.node = id_map[PadId(p)] /\ a.tracks = {p.track}
                                    /\ PadId(p) \in DOMAIN nodes
  <2>1. PICK p \in synth_tiles : p.port = port /\ a = [node |-> id_map[PadId(p)], tracks |-> {p.track}]
    BY DEF RegionPads, PadId
  <2>. QED
    BY <2>1, PadIsNamed
<1>2. ASSUME NEW ks \in SUBSET Keys, NEW a \in {[node |-> PinNode(k, t), tracks |-> TracksOf(k, t)] : k \in ks, t \in Tiles}
      PROVE  \E k \in ks, t \in Tiles : /\ a.node = id_map[OldPin(k, t)] /\ a.tracks = TracksOf(k, t)
                                        /\ OldPin(k, t) \in DOMAIN nodes
  <2>1. PICK k \in ks, t \in Tiles : a = [node |-> PinNode(k, t), tracks |-> TracksOf(k, t)]
    BY SMT
  <2>. QED
    BY <2>1, PinNodeIsNew, PinIsOne
<1>3. ASSUME NEW a \in Sources
      PROVE  \E old \in DOMAIN nodes : a.node = id_map[old] /\ IsSource(old, a.tracks)
  <2>1. CASE a \in RegionPads("output")
    BY <1>1, <2>1 DEF IsSource
  <2>2. CASE a \notin RegionPads("output")
    <3>1. Outputs \in SUBSET Keys
      BY DeviceAssumption
    <3>2. a \in {[node |-> PinNode(k, t), tracks |-> TracksOf(k, t)] : k \in Outputs, t \in Tiles}
      BY <2>2 DEF Sources
    <3>3. PICK o \in Outputs, t \in Tiles : /\ a.node = id_map[OldPin(o, t)] /\ a.tracks = TracksOf(o, t)
                                            /\ OldPin(o, t) \in DOMAIN nodes
      BY <1>2, <3>1, <3>2
    <3>. QED
      BY <3>3 DEF IsSource
  <2>. QED
    BY <2>1, <2>2
<1>4. ASSUME NEW b \in Sinks
      PROVE  \E old \in DOMAIN nodes : b.node = id_map[old] /\ IsSink(old, b.tracks)
  <2>1. CASE b \in RegionPads("input")
    BY <1>1, <2>1 DEF IsSink
  <2>2. CASE b \notin RegionPads("input")
    <3> DEFINE inputs == Keys \ Outputs
    <3>1. inputs \in SUBSET Keys
      OBVIOUS
    <3>2. b \in {[node |-> PinNode(k, t), tracks |-> TracksOf(k, t)] : k \in inputs, t \in Tiles}
      BY <2>2 DEF Sinks
    <3> HIDE DEF inputs
    <3>3. PICK i \in inputs, t \in Tiles : /\ b.node = id_map[OldPin(i, t)] /\ b.tracks = TracksOf(i, t)
                                           /\ OldPin(i, t) \in DOMAIN nodes
      BY <1>2, <3>1, <3>2
    <3>. QED
      BY <3>3 DEF IsSink, inputs
  <2>. QED
    BY <2>1, <2>2
<1>. QED
  BY <1>3, <1>4

(* An edge with a pip is of a row, and what it joins the row joins.        *)
LEMMA PadsOfInv ==
  ASSUME ExportInv, ClockInv, PadRowsInv, stage = "written"
  PROVE  PadsAreAlone
<1> SUFFICES ASSUME NEW e \in ToSet(written), NEW w \in Tracks, NEW n \in DOMAIN segments[w],
                    e.pip # {}, <<"track", w, n>> \in DOMAIN node_map,
                    ~\E p \in e.pip : p \in crossings /\ p.backward
             PROVE  /\ e.dst = node_map[<<"track", w, n>>] => ~HasPad("output", w)
                    /\ e.src = node_map[<<"track", w, n>>] => ~HasPad("input", w)
  BY DEF PadsAreAlone
<1> DEFINE g == <<"track", w, n>>
<1>1. PICK m \in DOMAIN graph_edge : OfRow(e, graph_edge[m])
  BY DEF ClockInv, Followed, ToSet
<1> DEFINE r == graph_edge[m]
<1>2. NodesMapped
  BY DEF ExportInv, GraphInv, Imported
<1>3. g \in DOMAIN node_mapping /\ node_map[g] = id_map[node_mapping[g]]
  BY DEF ClockInv
<1>4. /\ r.src \in DOMAIN node_mapping /\ r.dst \in DOMAIN node_mapping /\ r.pip = e.pip
      /\ e.src = id_map[node_mapping[r.src]] /\ e.dst = id_map[node_mapping[r.dst]]
  BY <1>1 DEF OfRow, Mapped
<1>5. KeepsPads(r)
  BY DEF PadRowsInv, ToSet
<1>6. g[1] # "pin" /\ g[1] = "track" /\ g[2] = w
  OBVIOUS
<1> HIDE DEF g, r
<1>7. ASSUME NEW h \in DOMAIN node_mapping, id_map[node_mapping[h]] = node_map[g]
      PROVE  h = g
  <2>1. node_mapping[g] \in DOMAIN id_map /\ node_mapping[h] \in DOMAIN id_map
    BY <1>2, <1>3 DEF ExportInv, IdsApart, NodesMapped
  <2>2. node_mapping[g] = node_mapping[h]
    BY <1>3, <1>7, <2>1 DEF ExportInv, IdsApart
  <2>. QED
    BY <1>2, <1>3, <1>6, <2>2 DEF NodesMapped
<1>8. e.dst = node_map[g] => ~HasPad("output", w)
  BY <1>4, <1>5, <1>6, <1>7 DEF KeepsPads
<1>9. e.src = node_map[g] => ~HasPad("input", w)
  BY <1>4, <1>5, <1>6, <1>7 DEF KeepsPads
<1>. QED
  BY <1>8, <1>9 DEF g

(* The routes of the written graph are those by old ids.                   *)
LEMMA RoutesOfInv == RoutesInv /\ ClockInv /\ PadRowsInv => RoutesAreTheDevices
<1> SUFFICES ASSUME RoutesInv, ClockInv, PadRowsInv, stage = "written" PROVE RoutesAreTheDevices
  BY DEF RoutesAreTheDevices
<1> DEFINE links == {<<e.src, e.dst>> : e \in ToSet(written)}
<1>1. Routed /\ EdgesListed /\ NodesMapped
  BY WrittenIsRouted DEF Routed
<1>2. links = {<<id_map[l[1]], id_map[l[2]]>> : l \in OldLinks}
  BY WrittenLinks DEF RoutesInv
<1>3. IsFiniteSet(OldLinks) /\ OldLinks \subseteq (DOMAIN nodes) \X (DOMAIN nodes)
  BY <1>1, OldLinksFinite
<1>4. IsFiniteSet(links)
  <2> DEFINE f == [l \in OldLinks |-> <<id_map[l[1]], id_map[l[2]]>>]
  <2>1. links = {f[l] : l \in OldLinks} /\ DOMAIN f = OldLinks
    BY <1>2
  <2> HIDE DEF f, links
  <2>. QED
    BY <1>3, <2>1, ImageFinite
<1>5. \A i, j \in DOMAIN nodes : id_map[i] = id_map[j] => i = j
  BY DEF RoutesInv, ExportInv, IdsApart
<1> HIDE DEF links
<1>6. \A i, j \in DOMAIN nodes : id_map[j] \in Reached(links, id_map[i]) <=> j \in Reached(OldLinks, i)
  <2>1. \A l \in OldLinks : l[1] \in DOMAIN nodes /\ l[2] \in DOMAIN nodes
    BY <1>3
  <2>. QED
    BY <1>2, <1>3, <1>4, <1>5, <2>1, ReachedRenamed
<1>7. ASSUME NEW a \in Sources, NEW b \in Sinks
      PROVE  b.node \in Reached(links, a.node) <=>
               \/ \E w \in a.tracks : Reached(Crossed, w) \intersect b.tracks # {}
               \/ \E m \in muxes : PinNode(m.from, m.src) = a.node /\ PinNode(m.to, m.dst) = b.node
  <2>1. PICK i \in DOMAIN nodes : a.node = id_map[i] /\ IsSource(i, a.tracks)
    BY <1>1, EndsAreNew
  <2>2. PICK j \in DOMAIN nodes : b.node = id_map[j] /\ IsSink(j, b.tracks)
    BY <1>1, EndsAreNew
  <2>3. j \in Reached(OldLinks, i) <=>
          \/ \E w \in a.tracks : Reached(Crossed, w) \intersect b.tracks # {}
          \/ \E m \in muxes : OldPin(m.from, m.src) = i /\ OldPin(m.to, m.dst) = j
    BY <1>1, <2>1, <2>2, OldRoutes
  <2>4. b.node \in Reached(links, a.node) <=> j \in Reached(OldLinks, i)
    BY <1>6, <2>1, <2>2
  <2>5. \A m \in muxes : /\ OldPin(m.from, m.src) = i <=> PinNode(m.from, m.src) = a.node
                         /\ OldPin(m.to, m.dst) = j <=> PinNode(m.to, m.dst) = b.node
    <3> SUFFICES ASSUME NEW m \in muxes
                 PROVE  /\ OldPin(m.from, m.src) = i <=> PinNode(m.from, m.src) = a.node
                        /\ OldPin(m.to, m.dst) = j <=> PinNode(m.to, m.dst) = b.node
      OBVIOUS
    <3>1. m.from \in Keys /\ m.to \in Keys /\ m.src \in Tiles /\ m.dst \in Tiles
      BY <1>1, DeviceAssumption DEF Routed, PinsTyped
    <3>2. /\ PinNode(m.from, m.src) = id_map[OldPin(m.from, m.src)] /\ OldPin(m.from, m.src) \in DOMAIN nodes
          /\ PinNode(m.to, m.dst) = id_map[OldPin(m.to, m.dst)] /\ OldPin(m.to, m.dst) \in DOMAIN nodes
      BY <1>1, <3>1, PinNodeIsNew, PinIsOne
    <3>. QED
      BY <1>5, <2>1, <2>2, <3>2
  <2>. QED
    BY <2>3, <2>4, <2>5
<1>8. PadsAreAlone
  BY PadsOfInv DEF RoutesInv
<1>9. {<<s.from, s.to>> : s \in {r \in crossings : Usable(r)}} = Crossed
  BY <1>1, UsableIsOpen DEF Crossed, Routed
<1>. QED
  BY <1>7, <1>8, <1>9 DEF RoutesAreTheDevices, links

(* Routes of the written graph lead from outputs to inputs just where pips *)
(* of the device do, whatever it is: no pip, mux, pad or segment is lost   *)
(* or made up on the way from create_edges to serialize_to_capnp.          *)
THEOREM RoutesAreWritten == Spec => []RoutesAreTheDevices
<1>1. Init => RoutesInv /\ ClockInv /\ TracksInv /\ PadRowsInv
  <2>1. Init => AliveInv /\ PlacedInv
    BY DEF Init, DirectionsInit, AliveInv, PlacedInv, Marked, Imported
  <2>. QED
    BY <2>1, InitExport, InitLayout, InitSides, InitLinks, InitClockInv, InitTracks, InitPadRows DEF RoutesInv
<1>2. RoutesInv /\ ClockInv /\ TracksInv /\ PadRowsInv /\ [Next]_vars
        => RoutesInv' /\ ClockInv' /\ TracksInv' /\ PadRowsInv'
  <2> SUFFICES ASSUME RoutesInv, ClockInv, TracksInv, PadRowsInv, [Next]_vars
               PROVE  RoutesInv' /\ ClockInv' /\ TracksInv' /\ PadRowsInv'
    OBVIOUS
  <2>1. ExportInv /\ RowsInv /\ GraphInv /\ SidesInv /\ LinksInv /\ AliveInv /\ PlacedInv
    BY DEF RoutesInv, ExportInv
  <2>2. ExportInv' /\ SidesInv' /\ LinksInv' /\ AliveInv' /\ PlacedInv'
    BY <2>1, NextExport, NextSides, NextLinks, NextAlive, NextPlaced
  <2>3. TracksInv' /\ ClockInv'
    BY <2>1, NextTracks, NextClocks
  <2>4. PadRowsInv'
    BY <2>1, NextPadRows DEF LinksInv
  <2>. QED
    BY <2>2, <2>3, <2>4 DEF RoutesInv, TracksInv
<1>3. RoutesInv /\ ClockInv /\ PadRowsInv => RoutesAreTheDevices
  BY RoutesOfInv
<1>. QED
  BY <1>1, <1>2, <1>3, PTL DEF Spec
=============================================================================
