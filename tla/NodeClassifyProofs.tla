-------------------------- MODULE NodeClassifyProofs --------------------------
(***************************************************************************)
(* The tracks of a node, for every grid and every set of places: each      *)
(* place is beside one of them, and they are one wire.  All that has to be *)
(* kept is that every point is on a track and that tracks which run alike  *)
(* have one that crosses them.                                             *)
(***************************************************************************)
EXTENDS NodeClassify, Reachability

Typed ==
  /\ points \subseteq Locs
  /\ tracks \subseteq Directions \X (0 .. XMax + YMax)

Covered == phase # "idle" => \A p \in points : \E t \in tracks : p \in On(t)

Crossed ==
  phase # "idle" =>
    \A s, t \in tracks : s # t /\ s[1] = t[1] => \E u \in tracks : u[1] # t[1]

(* No track starts before all points or ends after them.                   *)
Between ==
  phase # "idle" =>
    \A t \in tracks :
      IF t[1] = "x" THEN \E p, q \in points : p[1] - 1 <= t[2] /\ t[2] <= q[1]
                    ELSE \E p, q \in points : p[2] - 1 <= t[2] /\ t[2] <= q[2]

FormInv == Typed /\ Covered /\ Crossed /\ Between
-----------------------------------------------------------------------------
LEMMA TracksFinite == ASSUME Typed PROVE IsFiniteSet(tracks)
<1>1. IsFiniteSet(0 .. XMax + YMax)
  BY GridAssumption, FS_Interval
<1>2. IsFiniteSet(Directions)
  <2>1. IsFiniteSet({"x"})
    BY FS_Singleton
  <2>2. IsFiniteSet({"x"} \union {"y"})
    BY <2>1, FS_AddElement
  <2>3. Directions = {"x"} \union {"y"}
    BY DEF Directions
  <2>. QED
    BY <2>2, <2>3
<1>3. IsFiniteSet(Directions \X (0 .. XMax + YMax))
  BY <1>1, <1>2, FS_Product
<1>. QED
  BY <1>3, FS_Subset DEF Typed

(* Of more than one thing there is another; of at most one there is none.  *)
LEMMA AnotherThing ==
  ASSUME NEW S, IsFiniteSet(S), Cardinality(S) > 1, NEW t
  PROVE  \E s \in S : s # t
<1>1. SUFFICES ASSUME S \subseteq {t} PROVE FALSE
  OBVIOUS
<1>2. IsFiniteSet({t}) /\ Cardinality({t}) = 1
  BY FS_Singleton
<1>3. Cardinality(S) <= 1
  BY <1>1, <1>2, FS_Subset
<1>4. Cardinality(S) \in Nat
  BY FS_CardinalityType
<1>. QED
  BY <1>3, <1>4

LEMMA OneThing ==
  ASSUME NEW S, IsFiniteSet(S), Cardinality(S) <= 1, NEW s \in S, NEW t \in S
  PROVE  s = t
<1>1. SUFFICES ASSUME s # t PROVE FALSE
  OBVIOUS
<1>2. IsFiniteSet({s}) /\ Cardinality({s}) = 1
  BY FS_Singleton
<1>3. Cardinality({s} \union {t}) = 2
  <2>1. t \notin {s}
    BY <1>1
  <2>2. Cardinality({s} \union {t}) = Cardinality({s}) + 1
    BY <1>2, <2>1, FS_AddElement, Zenon
  <2>. QED
    BY <1>2, <2>2
<1>4. Cardinality({s} \union {t}) <= Cardinality(S)
  BY FS_Subset
<1>5. Cardinality(S) \in Nat
  BY FS_CardinalityType
<1>. QED
  BY <1>3, <1>4, <1>5

(* What try_remove_track lets go was not needed.                           *)
LEMMA RemovalKeeps ==
  ASSUME FormInv, NEW t, Removable(t), tracks' = tracks \ {t}, points' = points,
         phase # "idle"
  PROVE  FormInv'
<1>1. CASE t \notin tracks
  <2>1. tracks' = tracks
    BY <1>1
  <2>2. \A s : On(s)' = On(s)
    BY DEF On
  <2>. QED
    BY <2>1, <2>2 DEF FormInv, Typed, Covered, Crossed, Between
<1>2. CASE t \in tracks
  <2>1. Typed'
    BY DEF FormInv, Typed
  <2>2. IsFiniteSet(tracks)
    BY TracksFinite DEF FormInv
  <2>3. Covered'
    <3>1. SUFFICES ASSUME NEW p \in points PROVE \E s \in tracks \ {t} : p \in On(s)
      BY DEF Covered, On
    <3>2. PICK s \in tracks : p \in On(s)
      BY DEF FormInv, Covered
    <3>3. CASE s # t
      BY <3>2, <3>3
    <3>4. CASE s = t
      <4> DEFINE S == {r \in tracks : p \in On(r)}
      <4>1. Cardinality(S) > 1
        BY <3>2, <3>4 DEF Removable
      <4>2. IsFiniteSet(S)
        BY <2>2, FS_Subset
      <4>3. PICK r \in S : r # t
        <5> HIDE DEF S
        <5>. QED
          BY <4>1, <4>2, AnotherThing
      <4>. QED
        BY <4>3
    <3>. QED
      BY <3>3, <3>4
  <2>4. Crossed'
    <3>1. SUFFICES ASSUME NEW r \in tracks \ {t}, NEW s \in tracks \ {t}, r # s, r[1] = s[1]
                   PROVE  \E u \in tracks \ {t} : u[1] # s[1]
      BY DEF Crossed
    <3>2. PICK u \in tracks : u[1] # s[1]
      BY <3>1 DEF FormInv, Crossed
    <3>3. CASE u # t
      BY <3>2, <3>3
    <3>4. CASE u = t
      <4>1. Cardinality(Of(t[1])) > 1
        <5>1. SUFFICES ASSUME Cardinality(Of(Other(t[1]))) <= 1 PROVE FALSE
          BY DEF Removable
        <5>2. r \in Of(Other(t[1])) /\ s \in Of(Other(t[1]))
          BY <3>1, <3>2, <3>4 DEF Of, Other, FormInv, Typed, Directions
        <5>3. IsFiniteSet(Of(Other(t[1])))
          BY <2>2, FS_Subset DEF Of
        <5>. QED
          BY <3>1, <5>1, <5>2, <5>3, OneThing
      <4>2. IsFiniteSet(Of(t[1]))
        BY <2>2, FS_Subset DEF Of
      <4>3. PICK v \in Of(t[1]) : v # t
        BY <4>1, <4>2, AnotherThing
      <4>. QED
        BY <3>2, <3>4, <4>3 DEF Of
    <3>. QED
      BY <3>3, <3>4
  <2>5. Between'
    BY DEF FormInv, Between
  <2>. QED
    BY <2>1, <2>3, <2>4, <2>5 DEF FormInv
<1>. QED
  BY <1>1, <1>2

(* At first every column and row beside a point is a track.                *)
LEMMA BeginMakes ==
  ASSUME NEW ps, ps \subseteq Locs, ps # {}, Begin(ps)
  PROVE  FormInv'
<1> USE GridAssumption
<1> DEFINE C(d) == {p[d] : p \in ps}
<1>1. ASSUME NEW d \in {1, 2}, NEW k \in Span(C(d))
      PROVE  /\ k \in 0 .. XMax + YMax
             /\ \E p, q \in ps : p[d] - 1 <= k /\ k <= q[d]
  <2>1. PICK i \in C(d), j \in C(d) : i - 1 <= k /\ k <= j
    BY DEF Span
  <2>2. PICK p \in ps, q \in ps : i = p[d] /\ j = q[d]
    OBVIOUS
  <2>. QED
    BY <2>1, <2>2 DEF Span
<1>2. ASSUME NEW p \in ps, NEW d \in {1, 2} PROVE p[d] \in Span(C(d))
  <2>1. p[d] \in 0 .. XMax + YMax
    BY DEF Locs
  <2>2. p[d] \in C(d)
    OBVIOUS
  <2> HIDE DEF C
  <2>. QED
    BY <2>1, <2>2 DEF Span
<1>3. tracks' = {<<"x", x>> : x \in Span(C(1))} \union {<<"y", y>> : y \in Span(C(2))}
  BY DEF Begin
<1>4. points' = ps
  BY DEF Begin
<1> HIDE DEF C
<1>5. Typed'
  BY <1>1, <1>3, <1>4 DEF Typed, Directions
<1>6. Covered'
  <2>1. SUFFICES ASSUME NEW p \in ps PROVE \E t \in tracks' : p \in On(t)'
    BY <1>4 DEF Covered
  <2>2. p[1] \in Nat /\ p[2] \in Nat /\ (p[1] > 0 \/ p[2] > 0)
    BY DEF Locs
  <2>3. <<"x", p[1]>> \in tracks' /\ <<"y", p[2]>> \in tracks'
    BY <1>2, <1>3
  <2>4. p[2] > 0 => p \in On(<<"x", p[1]>>)'
    BY <1>4 DEF On
  <2>5. p[1] > 0 => p \in On(<<"y", p[2]>>)'
    BY <1>4 DEF On
  <2>. QED
    BY <2>2, <2>3, <2>4, <2>5
<1>7. Crossed'
  <2>1. PICK p \in ps : TRUE
    OBVIOUS
  <2>2. <<"x", p[1]>> \in tracks' /\ <<"y", p[2]>> \in tracks'
    BY <1>2, <1>3
  <2>. QED
    BY <2>2 DEF Crossed
<1>8. Between'
  BY <1>1, <1>3, <1>4 DEF Between
<1>. QED
  BY <1>5, <1>6, <1>7, <1>8 DEF FormInv

LEMMA FormInvInit == TrackInit => FormInv
BY DEF TrackInit, FormInv, Typed, Covered, Crossed, Between

LEMMA FormInvStep == FormInv /\ [TrackNext]_trackvars => FormInv'
<1> SUFFICES ASSUME FormInv, [TrackNext]_trackvars PROVE FormInv'
  OBVIOUS
<1>1. ASSUME UNCHANGED <<points, tracks>>, phase' # "idle" => phase # "idle" PROVE FormInv'
  <2>1. \A t : On(t)' = On(t)
    BY <1>1 DEF On
  <2>. QED
    BY <1>1, <2>1 DEF FormInv, Typed, Covered, Crossed, Between
<1>2. ASSUME NEW ps \in (SUBSET Locs) \ {{}}, Begin(ps) PROVE FormInv'
  BY <1>2, BeginMakes
<1>3. CASE RemoveSmaller
  <2>1. UNCHANGED points /\ phase = "both"
    BY <1>3 DEF RemoveSmaller
  <2>2. \/ UNCHANGED tracks
        \/ \E t : Removable(t) /\ tracks' = tracks \ {t}
    BY <1>3 DEF RemoveSmaller
  <2>. QED
    BY <1>1, <2>1, <2>2, RemovalKeeps
<1>4. CASE EndBoth
  BY <1>1, <1>4 DEF EndBoth
<1>5. ASSUME NEW d \in Directions, RemoveSmallest(d) PROVE FormInv'
  BY <1>5, RemovalKeeps DEF RemoveSmallest, Directions
<1>6. ASSUME NEW d \in Directions, EndDimension(d) PROVE FormInv'
  BY <1>1, <1>6 DEF EndDimension, Directions
<1>7. ASSUME NEW d \in Directions, TryAny(d) PROVE FormInv'
  <2>1. UNCHANGED <<points, phase>> /\ phase # "idle"
    BY <1>7 DEF TryAny, Rest
  <2>2. \/ UNCHANGED tracks
        \/ \E t : Removable(t) /\ tracks' = tracks \ {t}
    BY <1>7 DEF TryAny
  <2>. QED
    BY <1>1, <2>1, <2>2, RemovalKeeps
<1>8. ASSUME NEW d \in Directions, EndAny(d) PROVE FormInv'
  BY <1>1, <1>8 DEF EndAny, Rest
<1>9. CASE Return \/ UNCHANGED trackvars
  BY <1>1, <1>9 DEF Return, trackvars
<1>. QED
  BY <1>2, <1>3, <1>4, <1>5, <1>6, <1>7, <1>8, <1>9 DEF TrackNext, Form

LEMMA FormInvariant == TrackSpec => []FormInv
BY FormInvInit, FormInvStep, PTL DEF TrackSpec

(* Every place that a node has to reach is beside one of its tracks, as    *)
(* insert_tracks asserts, from the first moment of the decomposition on.   *)
THEOREM PointsReached == TrackSpec => []PointsMeetATrack
<1>1. FormInv => PointsMeetATrack
  <2>1. SUFFICES ASSUME FormInv, phase # "idle", NEW p \in points
                 PROVE  \E t \in tracks : Adjacent(points, t, p)
    BY DEF PointsMeetATrack
  <2>2. PICK t \in tracks : p \in On(t)
    BY <2>1 DEF FormInv, Covered
  <2>3. p[1] \in Nat /\ p[2] \in Nat
    BY <2>1 DEF FormInv, Typed, Locs
  <2>4. Adjacent(points, t, p)
    BY <2>2, <2>3 DEF On, Adjacent
  <2>. QED
    BY <2>4
<1>. QED
  BY <1>1, FormInvariant, PTL

(* Of tracks that run alike there is a first one.                          *)
LEMMA FirstTrack ==
  ASSUME FormInv, NEW d \in Directions, NEW s \in Of(d)
  PROVE  \E t \in Of(d) : Least(Of(d), t)
<1> USE GridAssumption
<1> DEFINE N == XMax + YMax
           Below == {0 .. t[2] : t \in Of(d)}
<1>1. \A t \in Of(d) : t[2] \in 0 .. N
  BY DEF FormInv, Typed, Of
<1>2. Below \subseteq FiniteSubsetsOf(0 .. N)
  <2>1. ASSUME NEW t \in Of(d) PROVE 0 .. t[2] \in FiniteSubsetsOf(0 .. N)
    <3>1. IsFiniteSet(0 .. t[2])
      BY <1>1, FS_Interval
    <3>2. 0 .. t[2] \subseteq 0 .. N
      BY <1>1
    <3>. QED
      BY <3>1, <3>2 DEF FiniteSubsetsOf
  <2>. QED
    BY <2>1
<1>3. PICK B \in Below : \A A \in Below : <<A, B>> \notin StrictSubsetOrdering(0 .. N)
  <2>1. Below # {}
    OBVIOUS
  <2> HIDE DEF Below, N
  <2>. QED
    BY <1>2, <2>1, FS_StrictSubsetOrderingWellFounded, WFMin
<1>4. PICK t \in Of(d) : B = 0 .. t[2]
  BY <1>3
<1>5. ASSUME NEW r \in Of(d), r[2] < t[2] PROVE FALSE
  <2>1. 0 .. r[2] \subseteq 0 .. N /\ 0 .. t[2] \subseteq 0 .. N
    BY <1>1
  <2>2. 0 .. r[2] \subseteq 0 .. t[2] /\ 0 .. r[2] # 0 .. t[2]
    <3>1. t[2] \in 0 .. t[2] /\ t[2] \notin 0 .. r[2]
      BY <1>1, <1>5
    <3>2. 0 .. r[2] \subseteq 0 .. t[2]
      BY <1>1, <1>5
    <3>. QED
      BY <3>1, <3>2
  <2>3. <<0 .. r[2], 0 .. t[2]>> \in StrictSubsetOrdering(0 .. N)
    BY <2>1, <2>2 DEF StrictSubsetOrdering
  <2>4. 0 .. r[2] \in Below
    OBVIOUS
  <2>. QED
    BY <1>3, <1>4, <2>3, <2>4
<1>6. \A r \in Of(d) : t[2] <= r[2]
  <2>1. \A r \in Of(d) : r[2] \in Nat
    BY <1>1
  <2>. QED
    BY <1>5, <2>1
<1>7. Least(Of(d), t)
  BY <1>6 DEF Least
<1>. QED
  BY <1>7

(* The tracks of a node are one wire, and joined tracks touch.             *)
THEOREM OneWire == TrackSpec => []TracksAreOneWire
<1> DEFINE Joins(s, t) == Joined(s, t) \/ Joined(t, s)
<1>1. FormInv => TracksAreOneWire
  <2> SUFFICES ASSUME FormInv, phase = "formed" PROVE TracksAreOneWire
    BY DEF TracksAreOneWire
  <2>1. ASSUME NEW s \in tracks, NEW t \in tracks, s # t, ~Joins(s, t)
        PROVE  \E u, v \in tracks : Joins(s, u) /\ Joins(v, t) /\ (u = v \/ Joins(u, v))
    <3>1. s[1] \in Directions /\ t[1] \in Directions
      BY DEF FormInv, Typed
    <3>2. \E r \in tracks : r[1] # s[1]
      BY <2>1 DEF FormInv, Crossed
    <3>3. Of("x") # {} /\ Of("y") # {}
      BY <3>1, <3>2 DEF FormInv, Typed, Of, Directions
    <3>4. PICK u \in Of("x") : Least(Of("x"), u)
      BY <3>3, FirstTrack DEF Directions
    <3>5. PICK v \in Of("y") : Least(Of("y"), v)
      BY <3>3, FirstTrack DEF Directions
    <3>6. u \in tracks /\ v \in tracks /\ u[1] = "x" /\ v[1] = "y" /\ Joined(v, u)
      BY <3>4, <3>5 DEF Of, Joined
    <3>7. \A r \in tracks : (r[1] = "x" => Joined(v, r)) /\ (r[1] = "y" => Joined(r, u))
      BY <3>4, <3>5, <3>6 DEF Joined
    <3>. QED
      BY <3>1, <3>6, <3>7 DEF Directions
  <2>2. ASSUME NEW s \in tracks, NEW t \in tracks, Joined(s, t) PROVE Touch(s, t)
    BY <2>2 DEF Joined, FormInv, Between, Touch
  <2>. QED
    BY <2>1, <2>2 DEF TracksAreOneWire
<1>. QED
  BY <1>1, FormInvariant, PTL
-----------------------------------------------------------------------------
(* The places that form_tracks asks for, for every device.                 *)

IsDevice == \E v \in Devices : wires = v.wires /\ site = v.site /\ pips = v.pips

SitesKnown ==
  /\ todo \subseteq Nodes
  /\ \A n \in Nodes : classification[n] = "EDGES_TO_CHANNEL" => HasPin(n)

LEMMA PlacesOnTheGrid ==
  ASSUME IsDevice, SitesKnown, NEW n \in Nodes
  PROVE  UniquePos(n) \in (SUBSET Locs) \ {{}}
<1>1. \A m \in Nodes : \A t \in DOMAIN wires[m] : wires[m][t] \in Locs
  BY DeviceAssumption DEF IsDevice
<1>2. \A p \in pips : /\ p.from \in Nodes /\ p.to \in Nodes
                      /\ p.tile \in DOMAIN wires[p.from] /\ p.tile \in DOMAIN wires[p.to]
  BY DeviceAssumption DEF IsDevice
<1>3. \A m \in Nodes : HasPin(m) => site[m] \in DOMAIN wires[m]
  BY DeviceAssumption DEF IsDevice, HasPin
<1>4. \A p \in PipsOf(n) : Across(n, p) \in Nodes /\ p.tile \in DOMAIN wires[Across(n, p)]
  BY <1>2 DEF PipsOf, Across
<1>5. DOMAIN wires[n] # {}
  BY DeviceAssumption DEF IsDevice
<1> DEFINE A == {wires[n][t] : t \in DOMAIN wires[n]}
           B == {wires[Across(n, p)][p.tile] : p \in PipsOf(n)}
           K == {k \in {Across(n, p) : p \in PipsOf(n)} : classification[k] = "EDGES_TO_CHANNEL"}
           C == {SitePlace(m) : m \in K}
<1>6. A \subseteq Locs /\ A # {}
  BY <1>1, <1>5
<1>7. B \subseteq Locs
  BY <1>1, <1>4
<1>8. C \subseteq Locs
  <2>1. K \subseteq Nodes
    BY <1>4
  <2>2. \A m \in K : HasPin(m)
    BY <2>1 DEF SitesKnown
  <2>. QED
    BY <1>1, <1>3, <2>1, <2>2 DEF SitePlace
<1>9. UniquePos(n) = (A \union B) \union C
  BY DEF UniquePos
<1>. QED
  BY <1>6, <1>7, <1>8, <1>9

LEMMA KnownInit == NodeInit => IsDevice /\ SitesKnown
BY DEF NodeInit, IsDevice, SitesKnown

LEMMA KnownStep ==
  IsDevice /\ SitesKnown /\ [NodeNext]_<<trackvars, nodevars>> => IsDevice' /\ SitesKnown'
<1> SUFFICES ASSUME IsDevice, SitesKnown, [NodeNext]_<<trackvars, nodevars>>
             PROVE  IsDevice' /\ SitesKnown'
  OBVIOUS
<1>1. UNCHANGED device
  BY DEF NodeNext, nodevars, CountSitesAndPips, ClassifyNodes, FormTrack, CreateConstantTracks, InsertTracks
<1>2. IsDevice'
  BY <1>1 DEF IsDevice, device
<1>3. \A n : HasPin(n)' = HasPin(n)
  BY <1>1 DEF HasPin, device
<1>4. CASE ClassifyNodes
  <2>1. \A n \in Nodes : Classified(n) = "EDGES_TO_CHANNEL" => HasPin(n)
    <3>1. SUFFICES ASSUME NEW n \in Nodes, Classified(n) = "EDGES_TO_CHANNEL" PROVE HasPin(n)
      OBVIOUS
    <3>2. n \in EdgesToChannel \/ Alone(n) = "EDGES_TO_CHANNEL"
      BY <3>1 DEF Classified
    <3>3. CASE n \in EdgesToChannel
      BY <3>3 DEF EdgesToChannel, OnePip
    <3>4. CASE Alone(n) = "EDGES_TO_CHANNEL"
      BY <3>4 DEF Alone
    <3>. QED
      BY <3>2, <3>3, <3>4
  <2>2. classification' = [n \in Nodes |-> Classified(n)] /\ todo' \subseteq Nodes
    BY <1>4 DEF ClassifyNodes
  <2>. QED
    BY <1>2, <1>3, <2>1, <2>2 DEF SitesKnown
<1>5. CASE ~ClassifyNodes
  <2>1. UNCHANGED classification /\ todo' \subseteq todo
    BY <1>5 DEF NodeNext, nodevars, CountSitesAndPips, FormTrack, CreateConstantTracks, InsertTracks
  <2>. QED
    BY <1>2, <1>3, <2>1 DEF SitesKnown
<1>. QED
  BY <1>4, <1>5

(* The program calls create_track with points only, at least one and never *)
(* the corner, so what is proved of the tracks holds of every node.        *)
THEOREM FormingIsKept == NodeSpec => TrackSpec
<1>1. NodeInit => TrackInit
  BY DEF NodeInit
<1>2. IsDevice /\ SitesKnown /\ [NodeNext]_<<trackvars, nodevars>> => [TrackNext]_trackvars
  <2> SUFFICES ASSUME IsDevice, SitesKnown, [NodeNext]_<<trackvars, nodevars>>
               PROVE  [TrackNext]_trackvars
    OBVIOUS
  <2>1. ASSUME NEW n \in todo, FormTrack(n) PROVE TrackNext
    BY <2>1, PlacesOnTheGrid DEF FormTrack, TrackNext, SitesKnown
  <2>2. CASE CreateConstantTracks
    <3>1. <<1, 1>> \in {p \in Locs : p[1] > 0 /\ p[2] > 0}
      BY GridAssumption DEF Locs
    <3>. QED
      BY <2>2, <3>1 DEF CreateConstantTracks, TrackNext
  <2>3. CASE Form
    BY <2>3 DEF TrackNext
  <2>4. CASE InsertTracks
    BY <2>4 DEF InsertTracks, TrackNext
  <2>5. CASE CountSitesAndPips \/ ClassifyNodes \/ UNCHANGED <<trackvars, nodevars>>
    BY <2>5 DEF CountSitesAndPips, ClassifyNodes
  <2>. QED
    BY <2>1, <2>2, <2>3, <2>4, <2>5 DEF NodeNext
<1>. QED
  BY <1>1, <1>2, KnownInit, KnownStep, PTL DEF NodeSpec, TrackSpec
-----------------------------------------------------------------------------
(* What the columns of node say of the pips, for every device.             *)

RealPips(n) == {p \in PipsOf(n) : Real(p)}

Counted ==
  stage # "nodes" => number_pips = [n \in Nodes |-> Cardinality(RealPips(n))]

ClassesKnown ==
  stage \notin {"nodes", "counted"} =>
    /\ classification = [n \in Nodes |-> Classified(n)]
    /\ edge_with_mux = {ThePip(n) : n \in {m \in OnePip : ToPin(m)}}

(* The pip that a node with one pip has.                                   *)
LEMMA OnlyPip ==
  ASSUME IsDevice, Counted, stage # "nodes", NEW n \in Nodes, number_pips[n] <= 1,
         NEW p \in RealPips(n)
  PROVE  number_pips[n] = 1 /\ RealPips(n) = {p} /\ ThePip(n) = p
<1>1. IsFiniteSet(pips)
  BY DeviceAssumption DEF IsDevice
<1>2. IsFiniteSet(RealPips(n)) /\ Cardinality(RealPips(n)) <= 1
  <2>1. RealPips(n) \subseteq pips
    BY DEF RealPips, PipsOf
  <2>. QED
    BY <1>1, <2>1, FS_Subset DEF Counted
<1>3. RealPips(n) = {p}
  BY <1>2, OneThing
<1>4. number_pips[n] = 1
  BY <1>3, FS_Singleton DEF Counted
<1>5. \A q \in PipsOf(n) : Real(q) <=> q = p
  BY <1>3 DEF RealPips
<1>6. ThePip(n) = p
  BY <1>5 DEF ThePip, RealPips
<1>. QED
  BY <1>3, <1>4, <1>6

(* The pip of a node with one pip, and the node beyond it.                 *)
LEMMA OnePipNode ==
  ASSUME IsDevice, Counted, stage # "nodes", NEW n \in OnePip
  PROVE  /\ ThePip(n) \in pips /\ RealPips(n) = {ThePip(n)}
         /\ Beyond(n) \in Nodes /\ Beyond(n) # n
         /\ {ThePip(n).from, ThePip(n).to} = {n, Beyond(n)}
<1>1. n \in Nodes /\ number_pips[n] = 1
  BY DEF OnePip
<1>2. PICK p : p \in RealPips(n)
  <2>1. RealPips(n) # {}
    BY <1>1, FS_EmptySet DEF Counted
  <2>. QED
    BY <2>1
<1>3. RealPips(n) = {p} /\ ThePip(n) = p
  BY <1>1, <1>2, OnlyPip
<1>4. p \in pips /\ n \in {p.from, p.to} /\ p.from # p.to /\ p.from \in Nodes /\ p.to \in Nodes
  BY <1>2, DeviceAssumption DEF RealPips, PipsOf, IsDevice
<1>5. Beyond(n) \in {p.from, p.to} /\ Beyond(n) # n
  BY <1>3, <1>4 DEF Beyond
<1>. QED
  BY <1>3, <1>4, <1>5

LEMMA ClassesInit == NodeInit => Counted /\ ClassesKnown
BY DEF NodeInit, Counted, ClassesKnown

LEMMA ClassesStep ==
  Counted /\ ClassesKnown /\ [NodeNext]_<<trackvars, nodevars>> => Counted' /\ ClassesKnown'
<1> SUFFICES ASSUME Counted, ClassesKnown, [NodeNext]_<<trackvars, nodevars>>
             PROVE  Counted' /\ ClassesKnown'
  OBVIOUS
<1>1. UNCHANGED <<wires, site, pips>>
  BY DEF NodeNext, nodevars, device, CountSitesAndPips, ClassifyNodes, FormTrack, CreateConstantTracks,
         InsertTracks
<1>2. \A n : RealPips(n)' = RealPips(n) /\ (HasPin(n)' <=> HasPin(n))
  BY <1>1 DEF RealPips, PipsOf, Real, HasPin
<1>3. CASE CountSitesAndPips
  <2>1. number_pips' = [n \in Nodes |-> Cardinality(RealPips(n))] /\ stage' = "counted"
    BY <1>3 DEF CountSitesAndPips, RealPips
  <2>. QED
    BY <1>2, <2>1 DEF Counted, ClassesKnown
<1>4. ASSUME UNCHANGED number_pips
      PROVE  /\ \A n : Classified(n)' = Classified(n)
             /\ {ThePip(n) : n \in {m \in OnePip : ToPin(m)}}'
                  = {ThePip(n) : n \in {m \in OnePip : ToPin(m)}}
  <2>1. OnePip' = OnePip
    BY <1>1, <1>4 DEF OnePip, HasPin
  <2>2. \A n : ThePip(n)' = ThePip(n)
    BY <1>1 DEF ThePip, PipsOf, Real
  <2>3. \A n : Beyond(n)' = Beyond(n)
    BY <2>2 DEF Beyond
  <2>4. \A n : (ToPin(n)' <=> ToPin(n)) /\ (Dangling(n)' <=> Dangling(n))
    BY <1>2, <1>4, <2>2, <2>3 DEF ToPin, Dangling
  <2>5. MuxNodes' = MuxNodes /\ NullNodes' = NullNodes /\ EdgesToChannel' = EdgesToChannel
    BY <2>1, <2>3, <2>4 DEF MuxNodes, NullNodes, EdgesToChannel
  <2>6. \A n : Alone(n)' = Alone(n)
    BY <1>1, <1>4 DEF Alone, HasPin
  <2>. QED
    BY <2>1, <2>2, <2>4, <2>5, <2>6 DEF Classified
<1>5. CASE ClassifyNodes
  <2>1. UNCHANGED number_pips /\ stage = "counted" /\ stage' = "tracks"
        /\ classification' = [n \in Nodes |-> Classified(n)]
        /\ edge_with_mux' = {ThePip(n) : n \in {m \in OnePip : ToPin(m)}}
    BY <1>5 DEF ClassifyNodes
  <2>. QED
    BY <1>2, <1>4, <2>1 DEF Counted, ClassesKnown
<1>6. CASE ~CountSitesAndPips /\ ~ClassifyNodes
  <2>1. UNCHANGED <<number_pips, classification, edge_with_mux>>
        /\ (stage' # "nodes" => stage # "nodes")
        /\ (stage' \notin {"nodes", "counted"} => stage \notin {"nodes", "counted"})
    BY <1>6 DEF NodeNext, nodevars, FormTrack, CreateConstantTracks, InsertTracks
  <2>. QED
    BY <1>2, <1>4, <2>1 DEF Counted, ClassesKnown
<1>. QED
  BY <1>3, <1>5, <1>6

(* Only a pin has the classes of pins.                                     *)
LEMMA ClassOf ==
  ASSUME IsDevice, Counted, ClassesKnown, stage \notin {"nodes", "counted"}, NEW n \in Nodes
  PROVE  /\ classification[n] = "CHANNEL" => ~HasPin(n) /\ n \notin MuxNodes
         /\ classification[n] \in {"EDGES_TO_CHANNEL", "EDGE_WITH_MUX"} => HasPin(n)
         /\ classification[n] = "EDGE_WITH_MUX" => n \in MuxNodes
         /\ classification[n] = "NULL" =>
              \/ ~HasPin(n) /\ number_pips[n] <= 1
              \/ HasPin(n) /\ number_pips[n] = 0
              \/ n \in NullNodes
         /\ classification[n] \in {"CHANNEL", "EDGES_TO_CHANNEL", "EDGE_WITH_MUX", "NULL", "none"}
<1>1. classification[n] = Classified(n)
  BY DEF ClassesKnown
<1>2. \A m \in MuxNodes : HasPin(m)
  BY DEF MuxNodes, OnePip, ToPin
<1>3. \A m \in EdgesToChannel : HasPin(m)
  BY DEF EdgesToChannel, OnePip
<1>4. Alone(n) = "CHANNEL" => ~HasPin(n)
  BY DEF Alone
<1>5. Alone(n) = "EDGES_TO_CHANNEL" => HasPin(n)
  BY DEF Alone
<1>6. Alone(n) = "NULL" => \/ ~HasPin(n) /\ number_pips[n] <= 1
                           \/ HasPin(n) /\ number_pips[n] = 0
  BY DEF Alone
<1>7. Alone(n) \in {"CHANNEL", "EDGES_TO_CHANNEL", "NULL", "none"}
  BY DEF Alone
<1>. QED
  BY <1>1, <1>2, <1>3, <1>4, <1>5, <1>6, <1>7 DEF Classified
(* A node with a pip has a class.                                          *)
LEMMA SomeClass ==
  ASSUME IsDevice, Counted, ClassesKnown, stage \notin {"nodes", "counted"}, NEW n \in Nodes,
         NEW p \in RealPips(n)
  PROVE  classification[n] # "none"
<1>1. classification[n] = Classified(n)
  BY DEF ClassesKnown
<1>2. number_pips[n] \in Nat /\ number_pips[n] # 0
  <2>1. IsFiniteSet(pips) /\ RealPips(n) \subseteq pips
    BY DeviceAssumption DEF IsDevice, RealPips, PipsOf
  <2>2. IsFiniteSet(RealPips(n))
    BY <2>1, FS_Subset
  <2>. QED
    BY <2>2, FS_CardinalityType, FS_EmptySet DEF Counted
<1>3. CASE number_pips[n] > 1 \/ ~HasPin(n)
  <2>1. Alone(n) # "none"
    BY <1>2, <1>3 DEF Alone
  <2>. QED
    BY <1>1, <2>1 DEF Classified
<1>4. CASE number_pips[n] = 1 /\ HasPin(n)
  <2>1. n \in OnePip
    BY <1>4 DEF OnePip
  <2>2. n \in NullNodes \union EdgesToChannel \union MuxNodes
    BY <2>1 DEF NullNodes, EdgesToChannel, MuxNodes
  <2>. QED
    BY <1>1, <2>2 DEF Classified
<1>. QED
  BY <1>2, <1>3, <1>4

-----------------------------------------------------------------------------
(* ReachedBy is the least set with n that no pip leads out of.             *)
LEMMA ReachedIsClosure ==
  ASSUME NEW n, NEW ps, IsFiniteSet(ps)
  PROVE  /\ n \in ReachedBy(n, ps)
         /\ \A p \in ps : {p.from, p.to} \intersect ReachedBy(n, ps) # {} =>
              {p.from, p.to} \subseteq ReachedBy(n, ps)
         /\ \A ns : /\ n \in ns
                    /\ \A p \in ps : {p.from, p.to} \intersect ns # {} => {p.from, p.to} \subseteq ns
                    => ReachedBy(n, ps) \subseteq ns
<1> DEFINE Step(ns) ==
             ns \union UNION {{p.from, p.to} : p \in {q \in ps : {q.from, q.to} \intersect ns # {}}}
           N == Cardinality(ps)
           Ends == [p \in ps |-> {p.from, p.to}]
           R == CHOOSE r : r = [k \in 0 .. N |-> IF k = 0 THEN {n} ELSE Step(r[k - 1])]
<1>1. \A ns : Grown(ns, ps, Ends, Ends) = Step(ns)
  BY DEF Grown
<1>2. N \in Nat
  BY FS_CardinalityType
<1>3. Grows(R, N, {n}, ps, Ends, Ends)
  <2>1. PICK r : Grows(r, N, {n}, ps, Ends, Ends)
    <3> HIDE DEF Ends, N
    <3>. QED
      BY <1>2, GrowthExists
  <2> HIDE DEF Ends, N, Step
  <2>2. r = [k \in 0 .. N |-> IF k = 0 THEN {n} ELSE Step(r[k - 1])]
    BY <1>1, <2>1 DEF Grows
  <2>3. R = [k \in 0 .. N |-> IF k = 0 THEN {n} ELSE Step(R[k - 1])]
    BY <2>2
  <2> HIDE DEF R
  <2>. QED
    BY <1>1, <2>3 DEF Grows, Step
<1>4. ReachedBy(n, ps) = R[N]
  BY DEF ReachedBy
<1>5. \A ns : IsClosed(ns, ps, Ends, Ends) <=>
              \A p \in ps : {p.from, p.to} \intersect ns # {} => {p.from, p.to} \subseteq ns
  BY DEF IsClosed
<1>6. /\ {n} \subseteq R[N] /\ IsClosed(R[N], ps, Ends, Ends)
      /\ \A ns : {n} \subseteq ns /\ IsClosed(ns, ps, Ends, Ends) => R[N] \subseteq ns
  <2> HIDE DEF R, Ends
  <2>. QED
    BY <1>3, GrowthIsClosure
<1> HIDE DEF R, Ends
<1>. QED
  BY <1>4, <1>5, <1>6

(* A real pip that is not imported is the only one of a node at one of its *)
(* ends: of a wire, or of a pin and of the wire it leads to.               *)
LEMMA NotImported ==
  ASSUME IsDevice, Counted, ClassesKnown, stage \notin {"nodes", "counted"},
         NEW p \in pips, p.kind \in {"plain", "pad"}, ~Imported(p)
  PROVE  \E u, w \in Nodes :
           /\ {p.from, p.to} = {u, w}
           /\ RealPips(u) = {p}
           /\ ~HasPin(u) \/ (~HasPin(w) /\ RealPips(w) = {p})
<1>1. p.from \in Nodes /\ p.to \in Nodes /\ Real(p)
  BY DeviceAssumption DEF IsDevice, Real
<1>2. PICK u \in {p.from, p.to} : classification[u] = "NULL"
  BY DEF Imported
<1>3. u \in Nodes /\ p \in RealPips(u)
  BY <1>1, <1>2 DEF RealPips, PipsOf
<1>4. PICK w \in Nodes : {p.from, p.to} = {u, w}
  BY <1>1, <1>2
<1>5. CASE number_pips[u] <= 1 /\ ~HasPin(u)
  BY <1>3, <1>4, <1>5, OnlyPip
<1>6. CASE HasPin(u) /\ number_pips[u] = 0
  <2>1. number_pips[u] = 1
    BY <1>3, <1>6, OnlyPip
  <2>. QED
    BY <1>6, <2>1
<1>7. CASE u \in NullNodes
  <2>1. PICK n \in OnePip : ~ToPin(n) /\ Dangling(n) /\ u \in {n, Beyond(n)}
    BY <1>7 DEF NullNodes
  <2> DEFINE m == Beyond(n)
  <2>2. /\ n \in Nodes /\ m \in Nodes /\ ThePip(n) \in pips /\ RealPips(n) = {ThePip(n)}
        /\ {ThePip(n).from, ThePip(n).to} = {n, m}
    BY OnePipNode DEF OnePip
  <2>3. ~HasPin(m) /\ number_pips[m] = 1
    BY <2>1 DEF Dangling
  <2>4. ThePip(n) \in RealPips(m)
    BY <2>2 DEF RealPips, PipsOf
  <2>5. RealPips(m) = {ThePip(n)}
    <3> HIDE DEF m
    <3>. QED
      BY <2>2, <2>3, <2>4, OnlyPip
  <2>6. ThePip(n) = p
    BY <1>3, <2>1, <2>2, <2>5
  <2>. QED
    BY <2>2, <2>3, <2>5, <2>6
<1>. QED
  BY <1>2, <1>3, <1>5, <1>6, <1>7, ClassOf

(* Nodes that are classified NULL are on no way between two pins, for      *)
(* every device: beside what imported pips connect, the others only lead   *)
(* to wires that nothing else leads on from.                               *)
THEOREM NullNodesAreDeadEnds == NodeSpec => []NullNodesCutNoRoute
<1>1. IsDevice /\ Counted /\ ClassesKnown => NullNodesCutNoRoute
  <2> DEFINE all == {p \in pips : p.kind \in {"plain", "pad"}}
             imported == {p \in all : Imported(p)}
  <2> SUFFICES ASSUME IsDevice, Counted, ClassesKnown, stage = "done",
                      NEW n \in Nodes, HasPin(n), NEW m \in Nodes, HasPin(m),
                      m \in ReachedBy(n, all)
               PROVE  m \in ReachedBy(n, imported)
    BY DEF NullNodesCutNoRoute
  <2>1. IsFiniteSet(all) /\ IsFiniteSet(imported)
    <3>1. IsFiniteSet(pips)
      BY DeviceAssumption DEF IsDevice
    <3>. QED
      BY <3>1, FS_Subset
  <2> DEFINE reached == ReachedBy(n, imported)
             ends == {u \in Nodes : ~HasPin(u) /\ \E p \in all : \E w \in reached :
                        RealPips(u) = {p} /\ {p.from, p.to} = {u, w}}
  <2>2. /\ n \in reached
        /\ \A p \in imported : {p.from, p.to} \intersect reached # {} => {p.from, p.to} \subseteq reached
    <3> HIDE DEF imported
    <3>. QED
      BY <2>1, ReachedIsClosure
  <2>3. ASSUME NEW u \in reached, u # n
        PROVE  \E p \in imported : u \in {p.from, p.to}
    <3> DEFINE ns == {v \in reached : v = n \/ \E p \in imported : v \in {p.from, p.to}}
    <3>1. \A p \in imported : {p.from, p.to} \intersect ns # {} => {p.from, p.to} \subseteq ns
      BY <2>2
    <3>2. n \in ns
      BY <2>2
    <3>3. reached \subseteq ns
      <4>1. \A s : /\ n \in s
                   /\ \A p \in imported : {p.from, p.to} \intersect s # {} => {p.from, p.to} \subseteq s
                   => ReachedBy(n, imported) \subseteq s
        <5> HIDE DEF imported
        <5>. QED
          BY <2>1, ReachedIsClosure
      <4> HIDE DEF ns, imported
      <4>. QED
        BY <3>1, <3>2, <4>1
    <3>. QED
      BY <2>3, <3>3
  <2>4. ASSUME NEW p \in all, {p.from, p.to} \intersect (reached \union ends) # {}
        PROVE  {p.from, p.to} \subseteq reached \union ends
    <3>1. \A u : u \in {p.from, p.to} => p \in RealPips(u)
      BY DEF RealPips, PipsOf, Real
    <3>2. CASE {p.from, p.to} \intersect ends # {}
      <4>1. PICK u \in ends : u \in {p.from, p.to}
        BY <3>2
      <4>2. PICK q \in all, w \in reached : RealPips(u) = {q} /\ {q.from, q.to} = {u, w}
        BY <4>1
      <4>3. q = p
        BY <3>1, <4>1, <4>2
      <4>. QED
        BY <4>1, <4>2, <4>3
    <3>3. CASE {p.from, p.to} \intersect reached # {} /\ p \in imported
      BY <2>2, <3>3
    <3>4. CASE {p.from, p.to} \intersect reached # {} /\ p \notin imported
      <4>1. ~Imported(p) /\ p \in pips /\ p.kind \in {"plain", "pad"}
        BY <3>4
      <4>2. PICK u \in Nodes, w \in Nodes :
              /\ {p.from, p.to} = {u, w}
              /\ RealPips(u) = {p}
              /\ ~HasPin(u) \/ (~HasPin(w) /\ RealPips(w) = {p})
        BY <4>1, NotImported
      <4>3. \A v \in reached : RealPips(v) = {p} => v = n
        <5>1. SUFFICES ASSUME NEW v \in reached, RealPips(v) = {p}, v # n PROVE FALSE
          OBVIOUS
        <5>2. PICK q \in imported : v \in {q.from, q.to}
          BY <2>3, <5>1
        <5>3. q \in RealPips(v)
          BY <5>2 DEF RealPips, PipsOf, Real
        <5>4. q = p
          BY <5>1, <5>3
        <5>. QED
          BY <3>4, <5>4
      <4>4. CASE w \in reached /\ ~HasPin(u)
        BY <4>2, <4>4
      <4>5. CASE w \in reached /\ HasPin(u)
        <5>1. w = n
          BY <4>2, <4>3, <4>5
        <5>. QED
          BY <4>2, <4>5, <5>1
      <4>6. CASE u \in reached
        <5>1. u = n
          BY <4>2, <4>3, <4>6
        <5>2. ~HasPin(w) /\ RealPips(w) = {p}
          BY <4>2, <5>1
        <5>3. {p.from, p.to} = {w, u} /\ p \in all
          BY <4>2
        <5>4. w \in ends
          BY <4>2, <4>6, <5>2, <5>3
        <5>. QED
          BY <4>6, <5>3, <5>4
      <4>. QED
        BY <3>4, <4>2, <4>4, <4>5, <4>6
    <3>. QED
      BY <2>4, <3>2, <3>3, <3>4
  <2>5. ReachedBy(n, all) \subseteq reached \union ends
    <3>1. \A s : /\ n \in s
                 /\ \A p \in all : {p.from, p.to} \intersect s # {} => {p.from, p.to} \subseteq s
                 => ReachedBy(n, all) \subseteq s
      <4> HIDE DEF all
      <4>. QED
        BY <2>1, ReachedIsClosure
    <3>2. n \in reached \union ends
      BY <2>2
    <3> HIDE DEF all, reached, ends
    <3>. QED
      BY <2>4, <3>1, <3>2
  <2>. QED
    BY <2>5
<1>. QED
  BY <1>1, KnownInit, KnownStep, ClassesInit, ClassesStep, PTL DEF NodeSpec
-----------------------------------------------------------------------------
(* What form_tracks asked for stays true of the tracks it inserted.        *)

Placed(n, ps, ts) == \A p \in UniquePos(n) : \E t \in ts : Adjacent(ps, t, p)

Stages == {"nodes", "counted", "tracks", "constants", "done"}

Progress ==
  /\ stage \in Stages
  /\ phase = "idle" => forming = {}
  /\ stage \in {"nodes", "counted"} => todo = {} /\ forming = {}
  /\ stage \in {"constants", "done"} => todo = {} /\ forming \intersect Nodes = {}
  /\ todo \subseteq Nodes /\ forming \subseteq Nodes \union Constants
  /\ \A n \in forming \intersect Nodes : points = UniquePos(n)

Inserted ==
  /\ track \in [Nodes \union Constants -> [points : SUBSET Locs,
                                           tracks : SUBSET (Directions \X (0 .. XMax + YMax))]]
  /\ stage \notin {"nodes", "counted"} =>
       \A n \in Nodes : IsChannel(n) /\ n \notin todo \union forming =>
         Placed(n, track[n].points, track[n].tracks)

LEMMA InsertedInit == NodeInit => Progress /\ Inserted
<1> SUFFICES ASSUME NodeInit PROVE Progress /\ Inserted
  OBVIOUS
<1>1. Progress
  BY DEF NodeInit, TrackInit, Progress, Stages
<1>2. Inserted
  BY DEF NodeInit, Inserted
<1>. QED
  BY <1>1, <1>2

LEMMA InsertedStep ==
  /\ IsDevice /\ FormInv /\ Progress /\ Inserted
  /\ [NodeNext]_<<trackvars, nodevars>>
  => Progress' /\ Inserted'
<1> SUFFICES ASSUME IsDevice, FormInv, Progress, Inserted, [NodeNext]_<<trackvars, nodevars>>
             PROVE  Progress' /\ Inserted'
  OBVIOUS
<1>1. UNCHANGED <<wires, site, pips>>
  BY DEF NodeNext, nodevars, device, CountSitesAndPips, ClassifyNodes, FormTrack, CreateConstantTracks,
         InsertTracks
<1>2. ASSUME UNCHANGED classification
      PROVE  /\ \A n : UniquePos(n)' = UniquePos(n) /\ (IsChannel(n)' <=> IsChannel(n))
             /\ \A n, ps, ts : Placed(n, ps, ts)' <=> Placed(n, ps, ts)
  <2>1. \A n : UniquePos(n)' = UniquePos(n)
    BY <1>1, <1>2 DEF UniquePos, PipsOf, Across, SitePlace
  <2>. QED
    BY <1>2, <2>1 DEF IsChannel, Placed
<1>3. CASE CountSitesAndPips
  <2>1. UNCHANGED <<points, phase, classification, todo, forming, track>> /\ stage = "nodes" /\ stage' = "counted"
    BY <1>3 DEF CountSitesAndPips, trackvars
  <2>. QED
    BY <1>2, <2>1 DEF Progress, Inserted, Stages
<1>4. CASE ClassifyNodes
  <2>1. /\ UNCHANGED <<points, phase, forming, track>> /\ stage = "counted" /\ stage' = "tracks"
        /\ classification' = [n \in Nodes |-> Classified(n)]
        /\ todo' = {n \in Nodes : Classified(n) = "CHANNEL"}
    BY <1>4 DEF ClassifyNodes, trackvars
  <2>2. forming = {}
    BY <2>1 DEF Progress
  <2>3. \A n \in Nodes : IsChannel(n)' => n \in todo'
    BY <2>1 DEF IsChannel
  <2>4. Progress'
    BY <2>1, <2>2 DEF Progress, Stages
  <2>5. Inserted'
    BY <2>1, <2>3 DEF Inserted
  <2>. QED
    BY <2>4, <2>5
<1>5. ASSUME NEW n \in todo, FormTrack(n) PROVE Progress' /\ Inserted'
  <2>1. /\ UNCHANGED <<classification, stage, track>> /\ stage = "tracks" /\ phase = "idle"
        /\ forming' = {n} /\ todo' = todo \ {n} /\ points' = UniquePos(n) /\ phase' = "both"
    BY <1>5 DEF FormTrack, Begin
  <2>2. n \in Nodes /\ todo' \union forming' = todo \union forming
    BY <2>1 DEF Progress
  <2>3. Progress'
    BY <1>2, <2>1, <2>2 DEF Progress, Stages
  <2>. QED
    BY <1>2, <2>1, <2>2, <2>3 DEF Inserted
<1>6. CASE CreateConstantTracks
  <2>1. /\ UNCHANGED <<classification, todo, track>> /\ stage = "tracks" /\ phase = "idle"
        /\ todo = {} /\ stage' = "constants" /\ forming' = Constants /\ phase' = "both"
    BY <1>6 DEF CreateConstantTracks, Begin
  <2>2. Constants \intersect Nodes = {}
    BY DeviceAssumption
  <2>3. Progress'
    BY <1>2, <2>1, <2>2 DEF Progress, Stages
  <2>4. \A n \in Nodes : n \notin todo' \union forming' => n \notin todo \union forming
    BY <2>1 DEF Progress
  <2>. QED
    BY <1>2, <2>1, <2>3, <2>4 DEF Inserted
<1>7. CASE Form /\ UNCHANGED nodevars
  <2>1. UNCHANGED <<classification, todo, track, stage, forming>>
    BY <1>7 DEF nodevars
  <2>2. UNCHANGED points /\ phase # "idle" /\ phase' # "idle"
    BY <1>7 DEF Form, RemoveSmaller, EndBoth, RemoveSmallest, EndDimension, TryAny, EndAny, Rest, Directions
  <2>. QED
    BY <1>2, <2>1, <2>2 DEF Progress, Inserted
<1>8. CASE InsertTracks
  <2>1. /\ UNCHANGED <<classification, todo, points>> /\ phase = "formed" /\ forming' = {}
        /\ track' = [n \in DOMAIN track |->
                       IF n \in forming THEN [points |-> points, tracks |-> tracks] ELSE track[n]]
        /\ stage' = IF stage = "constants" THEN "done" ELSE stage
    BY <1>8 DEF InsertTracks, Return
  <2>2. Progress'
    BY <1>2, <2>1 DEF Progress, Stages
  <2>3. /\ DOMAIN track = Nodes \union Constants
        /\ track' \in [Nodes \union Constants -> [points : SUBSET Locs,
                                                  tracks : SUBSET (Directions \X (0 .. XMax + YMax))]]
    BY <2>1 DEF Inserted, FormInv, Typed
  <2>4. ASSUME NEW n \in Nodes, n \in forming
        PROVE  Placed(n, track'[n].points, track'[n].tracks)
    <3>1. points = UniquePos(n)
      BY <2>4 DEF Progress
    <3>2. track'[n] = [points |-> points, tracks |-> tracks]
      BY <2>1, <2>3, <2>4
    <3>3. \A p \in points : \E t \in tracks : Adjacent(points, t, p)
      <4>1. SUFFICES ASSUME NEW p \in points PROVE \E t \in tracks : Adjacent(points, t, p)
        OBVIOUS
      <4>2. PICK t \in tracks : p \in On(t)
        BY <2>1 DEF FormInv, Covered
      <4>3. p[1] \in Nat /\ p[2] \in Nat
        BY DEF FormInv, Typed, Locs
      <4>4. Adjacent(points, t, p)
        BY <4>2, <4>3 DEF On, Adjacent
      <4>. QED
        BY <4>4
    <3>. QED
      BY <3>1, <3>2, <3>3 DEF Placed
  <2>5. ASSUME NEW n \in Nodes, n \notin forming PROVE track'[n] = track[n]
    BY <2>1, <2>3, <2>5
  <2>6. stage' \notin {"nodes", "counted"} => stage \notin {"nodes", "counted"}
    BY <2>1
  <2>7. ASSUME stage' \notin {"nodes", "counted"}, NEW n \in Nodes, IsChannel(n), n \notin todo
        PROVE  Placed(n, track'[n].points, track'[n].tracks)
    BY <2>4, <2>5, <2>6, <2>7 DEF Inserted
  <2>. QED
    BY <1>2, <2>1, <2>2, <2>3, <2>7 DEF Inserted
<1>9. CASE UNCHANGED <<trackvars, nodevars>>
  <2>1. UNCHANGED <<points, phase, classification, stage, todo, forming, track>>
    BY <1>9 DEF trackvars, nodevars
  <2>. QED
    BY <1>2, <2>1 DEF Progress, Inserted
<1>. QED
  BY <1>3, <1>4, <1>5, <1>6, <1>7, <1>8, <1>9 DEF NodeNext

(* A pin whose pip to a wire is imported is asked for where its site is:   *)
(* of the pins that EDGE_WITH_MUX overrules none has such a pip.           *)
LEMMA PinsBesideChannels ==
  ASSUME IsDevice, Counted, ClassesKnown, stage \notin {"nodes", "counted"},
         NEW p \in pips, Imported(p), NEW n \in {p.from, p.to}, IsChannel(n), ~IsChannel(Across(n, p))
  PROVE  classification[Across(n, p)] = "EDGES_TO_CHANNEL"
<1> DEFINE m == Across(n, p)
<1>1. /\ p.from \in Nodes /\ p.to \in Nodes /\ p.from # p.to /\ Real(p)
      /\ {p.from, p.to} = {n, m} /\ m \in Nodes /\ n \in Nodes
  BY DeviceAssumption DEF IsDevice, Imported, Real, Across
<1>2. p \in RealPips(m) /\ p \in RealPips(n)
  BY <1>1 DEF RealPips, PipsOf
<1>3. ~HasPin(n) /\ n \notin MuxNodes
  BY <1>1, ClassOf DEF IsChannel
<1>4. ASSUME m \in MuxNodes PROVE FALSE
  <2>1. PICK k \in OnePip : ToPin(k) /\ m \in {k, Beyond(k)}
    BY <1>4 DEF MuxNodes
  <2> DEFINE q == ThePip(k)
  <2>2. /\ q \in pips /\ RealPips(k) = {q} /\ Beyond(k) \in Nodes /\ {q.from, q.to} = {k, Beyond(k)}
        /\ HasPin(Beyond(k)) /\ HasPin(k)
    BY <2>1, OnePipNode DEF ToPin, OnePip
  <2>3. p # q
    BY <1>1, <1>3, <2>2
  <2>4. m = Beyond(k)
    BY <1>2, <2>1, <2>2, <2>3
  <2>5. q \in RealPips(m)
    <3>1. q \in RealPips(k)
      BY <2>2
    <3>. QED
      BY <2>2, <2>4, <3>1 DEF RealPips, PipsOf
  <2>6. q.kind = "pad"
    <3>1. CASE number_pips[m] = 1
      <4>1. RealPips(m) = {p} /\ RealPips(m) = {q}
        <5> HIDE DEF m, q
        <5>. QED
          BY <1>1, <1>2, <2>5, <3>1, OnlyPip DEF Counted
      <4>. QED
        BY <2>3, <4>1
    <3>. QED
      BY <2>1, <2>4, <3>1 DEF ToPin
  <2>7. PinsAsInDevices([wires |-> wires, site |-> site, pips |-> pips])
    <3>1. PICK v \in Devices : wires = v.wires /\ site = v.site /\ pips = v.pips
      BY DEF IsDevice
    <3>2. PinsAsInDevices(v)
      BY DeviceAssumption
    <3>. QED
      BY <3>1, <3>2 DEF PinsAsInDevices
  <2>8. m \in {q.from, q.to} /\ m \in {p.from, p.to} /\ site[q.from] # 0 /\ site[q.to] # 0
    BY <1>1, <2>2, <2>4 DEF HasPin
  <2>9. p.kind \in {"pseudo", "padout"}
    <3> HIDE DEF m, q
    <3>. QED
      BY <2>2, <2>3, <2>6, <2>7, <2>8 DEF PinsAsInDevices
  <2>. QED
    BY <2>9 DEF Imported
<1>5. classification[m] \notin {"NULL", "CHANNEL", "EDGE_WITH_MUX"}
  BY <1>1, <1>4, ClassOf DEF Imported, IsChannel
<1>6. classification[m] # "none"
  BY <1>1, <1>2, SomeClass
<1>. QED
  BY <1>1, <1>5, <1>6, ClassOf

(* Two pins that an imported pip joins have their row of edge_with_mux.    *)
LEMMA PinsHaveTheirRow ==
  ASSUME IsDevice, Counted, ClassesKnown, stage \notin {"nodes", "counted"},
         NEW p \in pips, Imported(p), ~IsChannel(p.from), ~IsChannel(p.to)
  PROVE  p \in edge_with_mux
<1> DEFINE s == p.from
           d == p.to
<1>1. s \in Nodes /\ d \in Nodes /\ s # d /\ Real(p) /\ p.kind \in {"plain", "pad"}
  BY DeviceAssumption DEF IsDevice, Imported, Real
<1>2. p \in RealPips(s) /\ p \in RealPips(d)
  BY <1>1 DEF RealPips, PipsOf
<1>3. HasPin(s) /\ HasPin(d)
  <2>1. \A n \in {s, d} : classification[n] \in {"EDGES_TO_CHANNEL", "EDGE_WITH_MUX"}
    BY <1>1, <1>2, ClassOf, SomeClass DEF Imported, IsChannel
  <2>. QED
    BY <1>1, <2>1, ClassOf
<1>4. PinsAsInDevices([wires |-> wires, site |-> site, pips |-> pips])
  <2>1. PICK v \in Devices : wires = v.wires /\ site = v.site /\ pips = v.pips
    BY DEF IsDevice
  <2>2. PinsAsInDevices(v)
    BY DeviceAssumption
  <2>. QED
    BY <2>1, <2>2 DEF PinsAsInDevices
<1>5. \A q \in pips : Real(q) /\ q # p =>
        /\ d \notin {q.from, q.to}
        /\ p.kind = "plain" => s \notin {q.from, q.to}
  BY <1>1, <1>3, <1>4 DEF PinsAsInDevices, HasPin, Real
<1>6. RealPips(d) = {p} /\ (p.kind = "plain" => RealPips(s) = {p})
  BY <1>2, <1>5 DEF RealPips, PipsOf
<1>7. number_pips[d] = 1 /\ (p.kind = "plain" => number_pips[s] = 1)
  BY <1>1, <1>6, FS_Singleton DEF Counted
<1>8. d \in OnePip
  BY <1>1, <1>3, <1>7 DEF OnePip
<1>9. ThePip(d) = p /\ Beyond(d) = s
  BY <1>1, <1>6, <1>8, OnePipNode
<1>10. ToPin(d)
  BY <1>1, <1>3, <1>7, <1>9 DEF ToPin
<1>. QED
  BY <1>8, <1>9, <1>10 DEF ClassesKnown

(* What the edge import relies on of every pip that it takes, for every    *)
(* grid and every device: two tracks meet where the wire of the pip is, a  *)
(* track meets the pin where its site is, and two pins have their row.     *)
THEOREM PipsMeetTheirTracks == NodeSpec => []PipsFindTheirTracks
<1>1. IsDevice /\ Counted /\ ClassesKnown /\ Progress /\ Inserted => PipsFindTheirTracks
  <2> SUFFICES ASSUME IsDevice, Counted, ClassesKnown, Progress, Inserted, stage = "done",
                      NEW p \in pips, Imported(p)
               PROVE  /\ IsChannel(p.from) /\ IsChannel(p.to) =>
                           \A n \in {p.from, p.to} : Meets(n, wires[p.from][p.tile])
                      /\ \A n \in {p.from, p.to} :
                           IsChannel(n) /\ ~IsChannel(Across(n, p)) => Meets(n, SitePlace(Across(n, p)))
                      /\ ~IsChannel(p.from) /\ ~IsChannel(p.to) => p \in edge_with_mux
    BY DEF PipsFindTheirTracks
  <2>1. p.from \in Nodes /\ p.to \in Nodes /\ p.tile \in DOMAIN wires[p.from]
    BY DeviceAssumption DEF IsDevice
  <2>2. ASSUME NEW n \in Nodes, IsChannel(n), NEW place \in UniquePos(n) PROVE Meets(n, place)
    BY <2>2 DEF Inserted, Progress, Placed, Meets
  <2>3. ASSUME NEW n \in {p.from, p.to} PROVE wires[p.from][p.tile] \in UniquePos(n)
    <3>1. CASE n = p.from
      BY <2>1, <3>1 DEF UniquePos
    <3>2. CASE n # p.from
      <4>1. p \in PipsOf(n) /\ Across(n, p) = p.from
        BY <2>3, <3>2 DEF PipsOf, Across
      <4>. QED
        BY <4>1 DEF UniquePos
    <3>. QED
      BY <3>1, <3>2
  <2>4. ASSUME NEW n \in {p.from, p.to}, classification[Across(n, p)] = "EDGES_TO_CHANNEL"
        PROVE  SitePlace(Across(n, p)) \in UniquePos(n)
    <3>1. p \in PipsOf(n)
      BY DEF PipsOf
    <3>. QED
      BY <2>4, <3>1 DEF UniquePos
  <2>. QED
    BY <2>1, <2>2, <2>3, <2>4, PinsBesideChannels, PinsHaveTheirRow
<1>. QED
  BY <1>1, KnownInit, KnownStep, ClassesInit, ClassesStep, InsertedInit, InsertedStep, FormInvariant,
     FormingIsKept, PTL DEF NodeSpec
=============================================================================
