--------------------------- MODULE ChannelProofs ---------------------------
(***************************************************************************)
(* Proofs about ChannelPack, for any number of tracks and any grid size,   *)
(* and about ChannelGraph, for any grid, any number of tracks and any      *)
(* order in which the workers of the pool answer: no two nodes that meet   *)
(* share a ptc, the channels that create_channels returns are full, and    *)
(* the answers that ChannelGraph takes from its workers are those that     *)
(* ChannelPack gives.                                                      *)
(***************************************************************************)
EXTENDS ChannelPack, ChannelGraph, Reachability, SequenceTheorems

-----------------------------------------------------------------------------
(* Packing the tracks of one channel: ChannelPack                            *)

(* While a tree is being filled, it is the last one, track_high is the end *)
(* of its last track, and nothing in it reaches further.                   *)
OpenTree ==
  track_high # None =>
    /\ trees # << >>
    /\ \A k \in trees[Len(trees)] : High(k) <= track_high
    /\ Covers(trees[Len(trees)], track_high)

(* A track still in by_low starts under a track of every tree; only the    *)
(* tree being filled may instead have ended before it.                     *)
LeftIsCovered ==
  \A k \in by_low : \A i \in DOMAIN trees :
    \/ Covers(trees[i], Low(k))
    \/ i = Len(trees) /\ track_high # None /\ track_high < Low(k)

LowsBelowHigh == \A k \in Keys : Low(k) <= high

NoTreeIsEmpty == \A i \in DOMAIN trees : trees[i] # {}

PackInv ==
  /\ PackTypeOK
  /\ LowsBelowHigh
  /\ TracksOfATreeAreDisjoint
  /\ EveryTrackInOnePlace
  /\ OpenTree
  /\ LeftIsCovered
  /\ TreesAreNeeded
  /\ NoTreeIsEmpty
-----------------------------------------------------------------------------
LEMMA InitIInv == PackInit => PackInv
BY DEF PackInit, PackInv, PackTypeOK, LowsBelowHigh, TracksOfATreeAreDisjoint,
       EveryTrackInOnePlace, OpenTree, LeftIsCovered, TreesAreNeeded, NoTreeIsEmpty,
       Low, High, None

(* What appending a one-track tree does to the sequence of trees.          *)
LEMMA AppendTree ==
  ASSUME NEW k \in Keys, trees \in Seq(SUBSET Keys), trees' = Append(trees, {k})
  PROVE  /\ trees' \in Seq(SUBSET Keys)
         /\ Len(trees) \in Nat
         /\ Len(trees') = Len(trees) + 1
         /\ DOMAIN trees = 1 .. Len(trees)
         /\ DOMAIN trees' = 1 .. Len(trees) + 1
         /\ \A i \in DOMAIN trees : trees'[i] = trees[i]
         /\ trees'[Len(trees) + 1] = {k}
OBVIOUS

(* What adding a track to the last tree does to the sequence of trees.     *)
LEMMA GrowLastTree ==
  ASSUME NEW k \in Keys, trees \in Seq(SUBSET Keys), trees # << >>,
         trees' = [trees EXCEPT ![Len(trees)] = @ \union {k}]
  PROVE  /\ trees' \in Seq(SUBSET Keys)
         /\ Len(trees) \in Nat
         /\ Len(trees') = Len(trees)
         /\ DOMAIN trees = 1 .. Len(trees)
         /\ DOMAIN trees' = 1 .. Len(trees)
         /\ Len(trees) \in DOMAIN trees
         /\ \A i \in DOMAIN trees : i # Len(trees) => trees'[i] = trees[i]
         /\ trees'[Len(trees)] = trees[Len(trees)] \union {k}
OBVIOUS

LEMMA StartTreeIInv == PackInv /\ StartTree => PackInv'
<1> SUFFICES ASSUME PackInv, StartTree PROVE PackInv'
  OBVIOUS
<1> PICK k \in by_low : /\ PopFirst(by_low, k)
                        /\ by_low' = by_low \ {k}
                        /\ trees' = Append(trees, {k})
                        /\ track_high' = High(k)
  BY DEF StartTree
<1> DEFINE n == Len(trees) + 1
<1>1. tracks' = tracks /\ high' = high /\ track_high = None
  BY DEF StartTree
<1>2. /\ k \in Keys
      /\ trees \in Seq(SUBSET Keys)
      /\ by_low \in SUBSET Keys
      /\ tracks \in [Keys -> Span]
      /\ \A j \in Keys : Low(j) \in Nat /\ High(j) \in Nat /\ Low(j) <= High(j)
  BY DEF PackInv, PackTypeOK, Span, Coord, Low, High
<1>3. /\ trees' \in Seq(SUBSET Keys)
      /\ Len(trees) \in Nat
      /\ Len(trees') = n
      /\ DOMAIN trees = 1 .. Len(trees)
      /\ DOMAIN trees' = 1 .. n
      /\ \A i \in DOMAIN trees : trees'[i] = trees[i]
      /\ trees'[n] = {k}
  BY <1>2, AppendTree
<1>4. \A j : Low(j)' = Low(j) /\ High(j)' = High(j)
  BY <1>1 DEF Low, High
<1>5. PackTypeOK' /\ LowsBelowHigh'
  <2>1. High(k) \in Coord
    BY <1>2 DEF High, Span
  <2>. QED
    BY <1>1, <1>2, <1>3, <1>4, <2>1 DEF PackInv, PackTypeOK, LowsBelowHigh
<1>6. TracksOfATreeAreDisjoint'
  BY <1>1, <1>3 DEF PackInv, TracksOfATreeAreDisjoint, Overlap
<1>7. EveryTrackInOnePlace'
  <2>1. \A j \in Keys : j \in by_low' \/ \E i \in DOMAIN trees' : j \in trees'[i]
    BY <1>3 DEF PackInv, EveryTrackInOnePlace
  <2>2. \A i \in DOMAIN trees : trees[i] \intersect by_low = {}
    BY DEF PackInv, EveryTrackInOnePlace
  <2>3. \A i \in DOMAIN trees' : trees'[i] \intersect by_low' = {}
    BY <1>3, <2>2
  <2>4. \A i, j \in DOMAIN trees' : i # j => trees'[i] \intersect trees'[j] = {}
    <3> SUFFICES ASSUME NEW i \in DOMAIN trees', NEW j \in DOMAIN trees', i # j
                 PROVE  trees'[i] \intersect trees'[j] = {}
      OBVIOUS
    <3>1. CASE i \in DOMAIN trees /\ j \in DOMAIN trees
      BY <3>1, <1>3 DEF PackInv, EveryTrackInOnePlace
    <3>2. CASE i = n
      BY <3>2, <1>3, <2>2
    <3>3. CASE j = n
      BY <3>3, <1>3, <2>2
    <3>. QED
      BY <1>3, <3>1, <3>2, <3>3
  <2>. QED
    BY <2>1, <2>3, <2>4 DEF EveryTrackInOnePlace
<1>8. OpenTree'
  <2>1. trees' # << >>
    BY <1>3
  <2>2. \A j \in trees'[Len(trees')] : High(j)' <= track_high'
    BY <1>2, <1>3, <1>4
  <2>3. Covers(trees[Len(trees)], track_high)'
    BY <1>2, <1>3, <1>4 DEF Covers
  <2>. QED
    BY <2>1, <2>2, <2>3 DEF OpenTree
<1>9. \A i \in DOMAIN trees : \A j \in by_low : Covers(trees[i], Low(j))
  BY <1>1, <1>2 DEF PackInv, LeftIsCovered
<1>10. \A i \in DOMAIN trees : \A j \in by_low : Covers(trees[i], Low(j))'
  BY <1>3, <1>4, <1>9 DEF Covers
<1>11. LeftIsCovered'
  <2> SUFFICES ASSUME NEW j \in by_low', NEW i \in DOMAIN trees'
               PROVE  \/ Covers(trees[i], Low(j))'
                      \/ i = n /\ track_high' # None /\ track_high' < Low(j)'
    BY <1>3 DEF LeftIsCovered
  <2>1. CASE i = n
    <3>1. Low(k) <= Low(j)
      BY <1>2 DEF PopFirst
    <3>. QED
      BY <1>2, <1>3, <1>4, <2>1, <3>1 DEF Covers, None
  <2>2. CASE i # n
    BY <1>3, <1>10, <2>2
  <2>. QED
    BY <2>1, <2>2
<1>12. TreesAreNeeded'
  <2> SUFFICES ASSUME NEW i \in DOMAIN trees', NEW j \in DOMAIN trees', i < j,
                      NEW t \in trees'[j]
               PROVE  Covers(trees[i], Low(t))'
    BY DEF TreesAreNeeded
  <2>1. CASE j = n
    BY <1>3, <1>4, <1>9, <2>1 DEF Covers
  <2>2. CASE j # n
    <3>1. Covers(trees[i], Low(t))
      BY <1>3, <2>2 DEF PackInv, TreesAreNeeded
    <3>. QED
      BY <1>3, <1>4, <2>2, <3>1 DEF Covers
  <2>. QED
    BY <2>1, <2>2
<1>13. NoTreeIsEmpty'
  BY <1>3 DEF PackInv, NoTreeIsEmpty
<1>. QED
  BY <1>5, <1>6, <1>7, <1>8, <1>11, <1>12, <1>13 DEF PackInv

LEMMA AddTrackIInv == PackInv /\ AddTrackToTree => PackInv'
<1> SUFFICES ASSUME PackInv, AddTrackToTree PROVE PackInv'
  OBVIOUS
<1> PICK k \in by_low : /\ PopFirst(Following, k)
                        /\ by_low' = by_low \ {k}
                        /\ trees' = [trees EXCEPT ![Len(trees)] = @ \union {k}]
                        /\ track_high' = High(k)
  BY DEF AddTrackToTree
<1> DEFINE n == Len(trees)
<1>1. tracks' = tracks /\ high' = high /\ track_high # None
  BY DEF AddTrackToTree
<1>2. /\ k \in Keys
      /\ trees \in Seq(SUBSET Keys)
      /\ by_low \in SUBSET Keys
      /\ tracks \in [Keys -> Span]
      /\ high \in Nat
      /\ track_high \in Nat
      /\ \A j \in Keys : Low(j) \in Nat /\ High(j) \in Nat /\ Low(j) <= High(j)
  BY <1>1 DEF PackInv, PackTypeOK, Span, Coord, Low, High
<1>3. /\ trees' \in Seq(SUBSET Keys)
      /\ n \in Nat
      /\ Len(trees') = n
      /\ DOMAIN trees = 1 .. n
      /\ DOMAIN trees' = 1 .. n
      /\ n \in DOMAIN trees
      /\ \A i \in DOMAIN trees : i # n => trees'[i] = trees[i]
      /\ trees'[n] = trees[n] \union {k}
  BY <1>1, <1>2, GrowLastTree DEF PackInv, OpenTree
<1>4. \A j : Low(j)' = Low(j) /\ High(j)' = High(j)
  BY <1>1 DEF Low, High
<1>5. /\ \A j \in trees[n] : j \in Keys /\ High(j) <= track_high
      /\ Covers(trees[n], track_high)
  BY <1>1, <1>2, <1>3 DEF PackInv, OpenTree
<1>6. track_high < Low(k)
  BY <1>2 DEF PopFirst, Following
\* The next track starts lowest among those that start after the tree ends.
<1>7. \A j \in by_low : track_high < Low(j) => Low(k) <= Low(j)
  <2> SUFFICES ASSUME NEW j \in by_low, track_high < Low(j)
               PROVE  Low(k) <= Low(j)
    OBVIOUS
  <2>1. j \in Following
    BY <1>2 DEF Following, PackInv, LowsBelowHigh
  <2>. QED
    BY <1>2, <2>1 DEF PopFirst
<1>8. PackTypeOK' /\ LowsBelowHigh'
  <2>1. High(k) \in Coord
    BY <1>2 DEF High, Span
  <2>. QED
    BY <1>1, <1>2, <1>3, <1>4, <2>1 DEF PackInv, PackTypeOK, LowsBelowHigh
<1>9. TracksOfATreeAreDisjoint'
  <2> SUFFICES ASSUME NEW i \in DOMAIN trees', NEW j \in trees'[i],
                      NEW l \in trees'[i], j # l
               PROVE  ~Overlap(tracks[j], tracks[l])
    BY <1>1 DEF TracksOfATreeAreDisjoint, Overlap
  <2>1. CASE i # n \/ (j # k /\ l # k)
    BY <1>3, <2>1 DEF PackInv, TracksOfATreeAreDisjoint
  <2>2. CASE i = n /\ (j = k \/ l = k)
    BY <1>2, <1>3, <1>5, <1>6, <2>2 DEF Overlap, Low, High
  <2>. QED
    BY <2>1, <2>2
<1>10. EveryTrackInOnePlace'
  <2>1. \A j \in Keys : j \in by_low' \/ \E i \in DOMAIN trees' : j \in trees'[i]
    BY <1>3 DEF PackInv, EveryTrackInOnePlace
  <2>2. \A i \in DOMAIN trees : k \notin trees[i]
    BY DEF PackInv, EveryTrackInOnePlace
  <2>3. \A i \in DOMAIN trees' : trees'[i] \intersect by_low' = {}
    <3> SUFFICES ASSUME NEW i \in DOMAIN trees'
                 PROVE  trees'[i] \intersect by_low' = {}
      OBVIOUS
    <3>1. trees[i] \intersect by_low = {}
      BY <1>3 DEF PackInv, EveryTrackInOnePlace
    <3>. QED
      BY <1>3, <3>1
  <2>4. \A i, j \in DOMAIN trees' : i # j => trees'[i] \intersect trees'[j] = {}
    <3> SUFFICES ASSUME NEW i \in DOMAIN trees', NEW j \in DOMAIN trees', i # j
                 PROVE  trees'[i] \intersect trees'[j] = {}
      OBVIOUS
    <3>1. trees[i] \intersect trees[j] = {}
      BY <1>3 DEF PackInv, EveryTrackInOnePlace
    <3>. QED
      BY <1>3, <2>2, <3>1
  <2>. QED
    BY <2>1, <2>3, <2>4 DEF EveryTrackInOnePlace
<1>11. OpenTree'
  <2>1. trees' # << >>
    BY <1>3
  <2>2. \A j \in trees'[Len(trees')] : High(j)' <= track_high'
    BY <1>2, <1>3, <1>4, <1>5, <1>6
  <2>3. Covers(trees[Len(trees)], track_high)'
    BY <1>2, <1>3, <1>4 DEF Covers
  <2>. QED
    BY <2>1, <2>2, <2>3 DEF OpenTree
\* What a tree covered it still covers.
<1>12. \A i \in DOMAIN trees : \A x : Covers(trees[i], x) =>
          \E j \in trees'[i] : Low(j)' <= x /\ x <= High(j)'
  BY <1>3, <1>4 DEF Covers
<1>13. LeftIsCovered'
  <2> SUFFICES ASSUME NEW j \in by_low', NEW i \in DOMAIN trees'
               PROVE  \/ Covers(trees[i], Low(j))'
                      \/ i = n /\ track_high' # None /\ track_high' < Low(j)'
    BY <1>3 DEF LeftIsCovered
  <2>1. CASE Covers(trees[i], Low(j))
    BY <1>3, <1>4, <1>12, <2>1 DEF Covers
  <2>2. CASE i = n /\ track_high < Low(j)
    <3>1. Low(k) <= Low(j)
      BY <1>7, <2>2
    <3>. QED
      BY <1>2, <1>3, <1>4, <2>2, <3>1 DEF Covers, None
  <2>. QED
    BY <1>3, <2>1, <2>2 DEF PackInv, LeftIsCovered
<1>14. TreesAreNeeded'
  <2> SUFFICES ASSUME NEW i \in DOMAIN trees', NEW j \in DOMAIN trees', i < j,
                      NEW t \in trees'[j]
               PROVE  Covers(trees[i], Low(t))'
    BY DEF TreesAreNeeded
  <2>1. Covers(trees[i], Low(t))
    <3>1. CASE t \in trees[j]
      BY <1>3, <3>1 DEF PackInv, TreesAreNeeded
    <3>2. CASE t \notin trees[j]
      <4>1. t = k /\ j = n /\ i # n
        BY <1>3, <3>2
      <4>. QED
        BY <1>3, <4>1 DEF PackInv, LeftIsCovered
    <3>. QED
      BY <3>1, <3>2
  <2>. QED
    BY <1>3, <1>4, <1>12, <2>1 DEF Covers
<1>15. NoTreeIsEmpty'
  BY <1>3 DEF PackInv, NoTreeIsEmpty
<1>. QED
  BY <1>8, <1>9, <1>10, <1>11, <1>13, <1>14, <1>15 DEF PackInv

LEMMA EndTreeIInv == PackInv /\ EndTree => PackInv'
<1> SUFFICES ASSUME PackInv, EndTree PROVE PackInv'
  OBVIOUS
<1>1. /\ UNCHANGED <<tracks, by_low, high, trees>>
      /\ track_high # None
      /\ track_high' = None
      /\ Following = {}
  BY DEF EndTree
<1>2. \A k : Low(k)' = Low(k) /\ High(k)' = High(k)
  BY <1>1 DEF Low, High
<1>3. \A k \in by_low : ~(track_high < Low(k))
  BY <1>1 DEF Following, PackInv, LowsBelowHigh, PackTypeOK, Coord, Span, Low
<1>4. LeftIsCovered'
  BY <1>1, <1>2, <1>3 DEF PackInv, LeftIsCovered, Covers
<1>5. OpenTree'
  BY <1>1 DEF OpenTree
<1>6. PackTypeOK' /\ LowsBelowHigh'
  BY <1>1, <1>2 DEF PackInv, PackTypeOK, LowsBelowHigh
<1>7. TracksOfATreeAreDisjoint' /\ EveryTrackInOnePlace'
  BY <1>1 DEF PackInv, TracksOfATreeAreDisjoint, EveryTrackInOnePlace, Overlap
<1>8. TreesAreNeeded' /\ NoTreeIsEmpty'
  BY <1>1, <1>2 DEF PackInv, TreesAreNeeded, Covers, NoTreeIsEmpty
<1>. QED
  BY <1>4, <1>5, <1>6, <1>7, <1>8 DEF PackInv

LEMMA StutterIInv == PackInv /\ UNCHANGED packVars => PackInv'
BY DEF packVars, PackInv, PackTypeOK, LowsBelowHigh, TracksOfATreeAreDisjoint,
       EveryTrackInOnePlace, OpenTree, LeftIsCovered, TreesAreNeeded, NoTreeIsEmpty,
       Covers, Low, High, Overlap

(* The strengthening is inductive.                                         *)
THEOREM Inductive == PackSpec => []PackInv
<1>1. PackInv /\ [PackNext]_packVars => PackInv'
  BY StartTreeIInv, AddTrackIInv, EndTreeIInv, StutterIInv DEF PackNext
<1>. QED
  BY InitIInv, <1>1, PTL DEF PackSpec

(* Type correctness of pack_tracks.                                        *)
THEOREM TypeCorrect == PackSpec => []PackTypeOK
BY Inductive, PTL DEF PackInv

(* Tracks that share a ptc number share no grid coordinate.                *)
THEOREM Disjoint == PackSpec => []TracksOfATreeAreDisjoint
BY Inductive, PTL DEF PackInv

(* No track is lost between by_low and the trees, and none is in two.      *)
THEOREM Conserved == PackSpec => []EveryTrackInOnePlace
BY Inductive, PTL DEF PackInv

(* Every tree but the last is occupied wherever a later tree has a start.  *)
THEOREM Needed == PackSpec => []TreesAreNeeded
BY Inductive, PTL DEF PackInv

LEMMA WidthFromInvariant == PackInv => WidthIsDensity
<1> SUFFICES ASSUME PackInv, Packed, Keys # {}
             PROVE  \E k \in Keys : \A i \in DOMAIN trees : Covers(trees[i], Low(k))
  BY DEF WidthIsDensity
<1> DEFINE n == Len(trees)
<1>1. /\ trees \in Seq(SUBSET Keys)
      /\ n \in Nat
      /\ DOMAIN trees = 1 .. n
  BY DEF PackInv, PackTypeOK
<1>2. n \in DOMAIN trees
  BY <1>1 DEF PackInv, EveryTrackInOnePlace, Packed
<1>3. PICK k \in trees[n] : TRUE
  BY <1>2 DEF PackInv, NoTreeIsEmpty
<1>4. k \in Keys /\ Low(k) \in Nat /\ High(k) \in Nat /\ Low(k) <= High(k)
  BY <1>1, <1>2, <1>3 DEF PackInv, PackTypeOK, Span, Coord, Low, High
<1>5. Covers(trees[n], Low(k))
  BY <1>3, <1>4 DEF Covers
<1>6. \A i \in DOMAIN trees : i # n => Covers(trees[i], Low(k))
  BY <1>1, <1>2, <1>3 DEF PackInv, TreesAreNeeded
<1>. QED
  BY <1>4, <1>5, <1>6

(* A packed channel is as wide as its most crowded coordinate: all trees   *)
(* have a track over the start of some track of the last one.              *)
THEOREM Optimal == PackSpec => []WidthIsDensity
BY Inductive, WidthFromInvariant, PTL
-----------------------------------------------------------------------------
(* The refinement: popping a track into a tree assigns it a free number,   *)
(* and the end of a tree is a stuttering step.                             *)

(* A track has at most one tree, so CHOOSE finds the one it is in.         *)
LEMMA PtcOfTree ==
  ASSUME PackInv, NEW k \in Keys, NEW i \in DOMAIN trees, k \in trees[i]
  PROVE  ptc[k] = i - 1
<1>1. \A j \in DOMAIN trees : k \in trees[j] => j = i
  BY DEF PackInv, EveryTrackInOnePlace
<1>2. (CHOOSE j \in DOMAIN trees : k \in trees[j]) = i
  BY <1>1
<1>. QED
  BY <1>2 DEF ptc

LEMMA PtcOfUnpacked ==
  ASSUME PackInv, NEW k \in by_low
  PROVE  ptc[k] = -1
BY DEF PackInv, PackTypeOK, EveryTrackInOnePlace, ptc

LEMMA PtcOfTreeAfter ==
  ASSUME PackInv', NEW k \in Keys, NEW i \in DOMAIN trees', k \in trees'[i]
  PROVE  ptc'[k] = i - 1
<1>1. \A j \in DOMAIN trees' : k \in trees'[j] => j = i
  BY DEF PackInv, EveryTrackInOnePlace
<1>2. (CHOOSE j \in DOMAIN trees' : k \in trees'[j]) = i
  BY <1>1
<1>. QED
  BY <1>2 DEF ptc

(* A step that moves one key from by_low to a tree it fits in, and leaves  *)
(* the other keys in the trees they are in, is an Assign step.             *)
LEMMA PackIsAssign ==
  ASSUME PackInv, PackInv', UNCHANGED tracks, NEW k \in by_low,
         NEW n \in DOMAIN trees', k \in trees'[n], by_low' = by_low \ {k},
         \A i \in DOMAIN trees : i \in DOMAIN trees' /\ trees[i] \subseteq trees'[i]
  PROVE  Assignment!Next
<1>1. k \in Keys /\ ptc[k] = -1
  BY PtcOfUnpacked DEF PackInv, PackTypeOK
<1>2. ptc'[k] = n - 1
  BY <1>1, PtcOfTreeAfter
<1>3. n \in Nat /\ n >= 1
  BY DEF PackInv, PackTypeOK
<1>4. \A j \in Keys \ {k} : ptc'[j] = ptc[j]
  <2> SUFFICES ASSUME NEW j \in Keys \ {k} PROVE ptc'[j] = ptc[j]
    OBVIOUS
  <2>1. CASE j \in by_low
    <3>1. j \in by_low'
      BY <2>1
    <3>2. ~ \E i \in DOMAIN trees' : j \in trees'[i]
      BY <3>1 DEF PackInv, EveryTrackInOnePlace
    <3>. QED
      BY <2>1, <3>2, PtcOfUnpacked DEF ptc
  <2>2. CASE j \notin by_low
    <3>1. PICK i \in DOMAIN trees : j \in trees[i]
      BY <2>2 DEF PackInv, EveryTrackInOnePlace
    <3>. QED
      BY <3>1, PtcOfTree, PtcOfTreeAfter
  <2>. QED
    BY <2>1, <2>2
<1>5. ptc' = [ptc EXCEPT ![k] = ptc'[k]]
  <2>1. ptc = [j \in Keys |-> ptc[j]]
    BY Zenon DEF ptc
  <2>2. ptc' = [j \in Keys |-> ptc'[j]]
    BY Zenon DEF ptc
  <2>. QED
    BY <1>1, <1>4, <2>1, <2>2
<1>6. \A j \in Keys : ptc[j] = ptc'[k] => ~Assignment!Meet(tracks[j], tracks[k])
  <2> SUFFICES ASSUME NEW j \in Keys, ptc[j] = n - 1
               PROVE  ~Overlap(tracks[j], tracks[k])
    BY <1>2 DEF Assignment!Meet, Overlap
  <2>1. j # k /\ j \notin by_low
    BY <1>1, <1>3, PtcOfUnpacked
  <2>2. PICK i \in DOMAIN trees : j \in trees[i]
    BY <2>1 DEF PackInv, EveryTrackInOnePlace
  <2>3. i - 1 = n - 1
    BY <2>2, PtcOfTree
  <2>4. i \in Nat /\ i = n
    BY <1>3, <2>3 DEF PackInv, PackTypeOK
  <2>. QED
    BY <2>1, <2>2, <2>4 DEF PackInv, TracksOfATreeAreDisjoint, Overlap
<1>7. Assignment!Assign(k)
  BY <1>1, <1>2, <1>3, <1>5, <1>6 DEF Assignment!Assign, Assignment!Unassigned
<1>. QED
  BY <1>1, <1>7 DEF Assignment!Next

LEMMA StepRefines == PackInv /\ PackInv' /\ [PackNext]_packVars => [Assignment!Next]_Assignment!vars
<1> SUFFICES ASSUME PackInv, PackInv', [PackNext]_packVars
             PROVE  [Assignment!Next]_Assignment!vars
  OBVIOUS
<1>1. CASE StartTree
  <2> PICK k \in by_low : /\ by_low' = by_low \ {k}
                          /\ trees' = Append(trees, {k})
    BY <1>1 DEF StartTree
  <2>1. k \in Keys /\ trees \in Seq(SUBSET Keys) /\ UNCHANGED tracks
    BY <1>1 DEF StartTree, PackInv, PackTypeOK
  <2>2. /\ Len(trees) + 1 \in DOMAIN trees'
        /\ k \in trees'[Len(trees) + 1]
        /\ \A i \in DOMAIN trees : i \in DOMAIN trees' /\ trees[i] \subseteq trees'[i]
    BY <2>1, AppendTree
  <2>. QED
    BY <2>1, <2>2, PackIsAssign
<1>2. CASE AddTrackToTree
  <2> PICK k \in by_low : /\ by_low' = by_low \ {k}
                          /\ trees' = [trees EXCEPT ![Len(trees)] = @ \union {k}]
    BY <1>2 DEF AddTrackToTree
  <2>1. /\ k \in Keys /\ trees \in Seq(SUBSET Keys) /\ UNCHANGED tracks
        /\ trees # << >>
    BY <1>2 DEF AddTrackToTree, PackInv, PackTypeOK, OpenTree
  <2>2. /\ Len(trees) \in DOMAIN trees'
        /\ k \in trees'[Len(trees)]
        /\ \A i \in DOMAIN trees : i \in DOMAIN trees' /\ trees[i] \subseteq trees'[i]
    BY <2>1, GrowLastTree
  <2>. QED
    BY <2>1, <2>2, PackIsAssign
<1>3. CASE EndTree \/ UNCHANGED packVars
  BY <1>3 DEF EndTree, packVars, ptc, Assignment!vars
<1>. QED
  BY <1>1, <1>2, <1>3 DEF PackNext

LEMMA InitRefines == PackInit => Assignment!Init
BY DEF PackInit, ptc, Assignment!Init, Assignment!Interval, Assignment!Coord,
       Assignment!Unassigned, Span, Coord

(* pack_tracks implements the ptc assignment that VPR relies on.           *)
THEOREM Refinement == PackSpec => ImplementsAssignment
BY Inductive, InitRefines, StepRefines, PTL
   DEF PackSpec, ImplementsAssignment, Assignment!Spec

-----------------------------------------------------------------------------
(* The channels of the routing graph: ChannelGraph                           *)

Dirs == {"CHANX", "CHANY"}

Node == [chan : Chan, low : Nat, high : Nat, ptc : Nat \union {NoPtc}, capacity : {0, 1}]

NodesTyped ==
  /\ nodes \in Seq(Node)
  /\ \A i \in DOMAIN nodes :
       LET n == nodes[i]
       IN  n.low \in Along(n.chan[1]) /\ n.high \in Along(n.chan[1]) /\ n.low <= n.high

(* The channels that the loops have been through.                          *)
Collected(c) == c[2] < Len(list[c[1]])

(* Until the padding, a node has the ptc of the packing that its channel's *)
(* job answered with if that was collected, and none otherwise.            *)
JobsArePackings ==
  \A c \in Chan : /\ jobs[c][1] \in {"idle", "in flight", "done"}
                  /\ jobs[c][1] = "done" => jobs[c][2] \in Packings(TracksOf(c))

PtcsAreCollected ==
  \A i \in DOMAIN nodes :
    IF Collected(nodes[i].chan)
    THEN jobs[nodes[i].chan][1] = "done" /\ nodes[i].ptc = jobs[nodes[i].chan][2][i]
    ELSE nodes[i].ptc = NoPtc

WidthsAreCollected ==
  \A c \in Chan : Collected(c) /\ TracksOf(c) # {} => list[c[1]][c[2] + 1] = Width(jobs[c][2])

Collecting ==
  /\ DOMAIN jobs = Chan /\ DOMAIN list = Dirs
  /\ \A d \in Dirs : list[d] \in Seq(Nat)
  /\ JobsArePackings
  /\ PtcsAreCollected
  /\ WidthsAreCollected
  /\ pc = "submit" => \A c \in Chan : ~Collected(c)
  /\ pc \in {"CHANY", "pad"} => \A k \in Used("CHANX") : k < Len(list["CHANX"])
  /\ pc = "pad" => \A k \in Used("CHANY") : k < Len(list["CHANY"])

Inv ==
  /\ NodesTyped
  /\ pc \in {"submit", "CHANX", "CHANY", "pad", "returned", "raised"}
  /\ pc # "returned" => Collecting
  /\ pc = "returned" => NoDuplicatePtc /\ ChannelsAreFull
-----------------------------------------------------------------------------
LEMMA ChannelTypes ==
  ASSUME NEW c \in Chan
  PROVE  c[1] \in Dirs /\ c[2] \in Nat /\ c = <<c[1], c[2]>>
BY BoundsAssumption DEF Chan, Dirs

LEMMA NodeFields ==
  ASSUME NodesTyped, NEW i \in DOMAIN nodes
  PROVE  /\ nodes[i] \in Node /\ nodes[i].chan \in Chan /\ nodes[i].ptc \in Nat \union {NoPtc}
         /\ nodes[i].low \in Nat /\ nodes[i].high \in Nat /\ nodes[i].low <= nodes[i].high
<1>1. nodes[i] \in Node
  BY DEF NodesTyped
<1>. QED
  BY <1>1 DEF Node, NodesTyped

LEMMA InitInv == Init => Inv
<1> SUFFICES ASSUME Init PROVE Inv
  OBVIOUS
<1> USE BoundsAssumption
<1>1. nodes \in [1 .. NumTracks -> UNION {{Track(c, n, NoPtc, 1) : n \in Interval(c[1])} : c \in Chan}]
  BY DEF Init
<1>2. ASSUME NEW i \in 1 .. NumTracks
      PROVE  \E c \in Chan : \E n \in Interval(c[1]) : nodes[i] = Track(c, n, NoPtc, 1)
  <2>1. nodes[i] \in UNION {{Track(c, n, NoPtc, 1) : n \in Interval(c[1])} : c \in Chan}
    BY <1>1
  <2>. QED
    BY <2>1
<1>3. ASSUME NEW i \in 1 .. NumTracks
      PROVE  /\ nodes[i] \in [chan : Chan, low : Nat, high : Nat, ptc : {NoPtc}, capacity : {0, 1}]
             /\ nodes[i].low \in Along(nodes[i].chan[1]) /\ nodes[i].high \in Along(nodes[i].chan[1])
             /\ nodes[i].low <= nodes[i].high
  <2>1. PICK c \in Chan : \E n \in Interval(c[1]) : nodes[i] = Track(c, n, NoPtc, 1)
    BY <1>2
  <2>2. PICK n \in Interval(c[1]) : nodes[i] = Track(c, n, NoPtc, 1)
    BY <2>1
  <2>3. n.low \in Along(c[1]) /\ n.high \in Along(c[1]) /\ n.low <= n.high /\ Along(c[1]) \subseteq Nat
    BY DEF Interval, Along
  <2>. QED
    BY <2>2, <2>3 DEF Track
<1>4. DOMAIN nodes = 1 .. NumTracks
  BY <1>1
<1>5. NodesTyped
  <2>1. \A i \in 1 .. NumTracks : nodes[i] \in Node
    BY <1>3 DEF Node
  <2>2. nodes \in Seq(Node)
    BY <1>1, <2>1
  <2>. QED
    BY <1>3, <1>4, <2>2 DEF NodesTyped
<1>6. Collecting
  <2>1. \A c \in Chan : c[1] \in Dirs /\ c[2] \in Nat
    BY ChannelTypes
  <2>2. \A d \in Dirs : list[d] = << >>
    BY DEF Init, Dirs
  <2>3. \A c \in Chan : ~Collected(c)
    BY <2>1, <2>2 DEF Collected
  <2>4. \A i \in DOMAIN nodes : nodes[i].chan \in Chan /\ nodes[i].ptc = NoPtc
    BY <1>3, <1>4
  <2>5. DOMAIN jobs = Chan /\ DOMAIN list = Dirs /\ \A c \in Chan : jobs[c][1] = "idle"
    BY DEF Init, Dirs
  <2>6. pc = "submit" /\ \A d \in Dirs : list[d] \in Seq(Nat)
    <3>1. << >> \in Seq(Nat)
      OBVIOUS
    <3>. QED
      BY <2>2, <3>1 DEF Init
  <2>. QED
    BY <2>3, <2>4, <2>5, <2>6 DEF Collecting, JobsArePackings, PtcsAreCollected, WidthsAreCollected
<1>. QED
  BY <1>5, <1>6 DEF Inv, Init

(* The packing of a channel depends on the place of the tracks only.       *)
LEMMA SamePlaces ==
  ASSUME DOMAIN nodes' = DOMAIN nodes,
         \A i \in DOMAIN nodes : /\ nodes'[i].chan = nodes[i].chan
                                 /\ nodes'[i].low = nodes[i].low /\ nodes'[i].high = nodes[i].high
  PROVE  /\ \A c : TracksOf(c)' = TracksOf(c)
         /\ \A d : Used(d)' = Used(d)
         /\ \A c : Packings(TracksOf(c))' = Packings(TracksOf(c))
<1>1. \A c : TracksOf(c)' = TracksOf(c) /\ TracksOf(c) \subseteq DOMAIN nodes
  BY DEF TracksOf
<1>2. \A d : Used(d)' = Used(d)
  BY DEF Used
<1>3. ASSUME NEW c PROVE Packings(TracksOf(c))' = Packings(TracksOf(c))
  BY <1>1 DEF Packings, Meet
<1>. QED
  BY <1>1, <1>2, <1>3

LEMMA UsedChannels ==
  ASSUME NodesTyped, NEW d
  PROVE  /\ \A k \in Used(d) : <<d, k>> \in Chan /\ k \in Nat /\ TracksOf(<<d, k>>) # {}
         /\ \A i \in DOMAIN nodes : nodes[i].chan[1] = d => nodes[i].chan[2] \in Used(d)
<1>1. \A i \in DOMAIN nodes : nodes[i].chan \in Chan
  BY NodeFields
<1>2. ASSUME NEW k \in Used(d)
      PROVE  <<d, k>> \in Chan /\ k \in Nat /\ TracksOf(<<d, k>>) # {}
  <2>1. PICK i \in DOMAIN nodes : nodes[i].chan[1] = d /\ k = nodes[i].chan[2]
    BY DEF Used
  <2>2. nodes[i].chan = <<d, k>>
    BY <1>1, <2>1, ChannelTypes
  <2>. QED
    BY <1>1, <2>2, ChannelTypes DEF TracksOf
<1>3. \A i \in DOMAIN nodes : nodes[i].chan[1] = d => nodes[i].chan[2] \in Used(d)
  BY DEF Used
<1>. QED
  BY <1>2, <1>3

(* Two tracks that have their ptc have it from one packing.                *)
LEMMA CollectingNoDuplicates == NodesTyped /\ Collecting => NoDuplicatePtc
<1> SUFFICES ASSUME NodesTyped, Collecting, NEW i \in DOMAIN nodes, NEW j \in DOMAIN nodes, i # j,
                    nodes[i].chan = nodes[j].chan, nodes[i].ptc = nodes[j].ptc, nodes[i].ptc # NoPtc
             PROVE  ~Meet(nodes[i], nodes[j])
  BY DEF NoDuplicatePtc
<1> DEFINE c == nodes[i].chan
<1>1. c \in Chan /\ jobs[c][1] = "done" /\ nodes[i].ptc = jobs[c][2][i] /\ nodes[j].ptc = jobs[c][2][j]
  BY NodeFields DEF Collecting, PtcsAreCollected
<1>2. jobs[c][2] \in Packings(TracksOf(c)) /\ i \in TracksOf(c) /\ j \in TracksOf(c)
  BY <1>1 DEF Collecting, JobsArePackings, TracksOf
<1>. QED
  BY <1>1, <1>2 DEF Packings

(* A step that changes neither the nodes nor the lists.                    *)
LEMMA SameFull ==
  ASSUME UNCHANGED <<nodes, list, pc>>, ChannelsAreFull
  PROVE  ChannelsAreFull'
<1>1. ASSUME NEW d PROVE Reached(d)' = Reached(d)
  BY DEF Reached
<1>2. ASSUME NEW d PROVE FillLow(d)' = FillLow(d)
  <2>1. Reached(d)' = Reached(d)
    BY <1>1
  <2>. QED
    BY <2>1 DEF FillLow
<1>3. ASSUME NEW d PROVE FillHigh(d)' = FillHigh(d)
  <2>1. Reached(d)' = Reached(d)
    BY <1>1
  <2>. QED
    BY <2>1 DEF FillHigh
<1>4. \A b : TracksOf(b)' = TracksOf(b)
  BY DEF TracksOf
<1> SUFFICES ASSUME pc = "returned", NEW b \in Chan, TracksOf(b) # {}
             PROVE  LET w == list[b[1]][b[2] + 1]
                    IN  /\ \A i \in TracksOf(b) : nodes[i].ptc \in 0 .. w - 1
                        /\ \A p \in 0 .. w - 1, x \in FillLow(b[1])' .. FillHigh(b[1])' :
                             \E i \in TracksOf(b) :
                               nodes[i].ptc = p /\ x \in nodes[i].low .. nodes[i].high
  BY <1>4 DEF ChannelsAreFull
<1>. QED
  BY <1>2, <1>3 DEF ChannelsAreFull

(* The steps before the padding keep the nodes in their place.             *)
LEMMA SubmitStep ==
  ASSUME Inv, Submit
  PROVE  Inv'
<1>1. UNCHANGED <<nodes, list>> /\ pc = "submit" /\ pc' = "CHANX" /\ Collecting /\ NodesTyped
  BY DEF Submit, Inv
<1>2. /\ DOMAIN jobs' = Chan
      /\ \A c \in Chan : jobs'[c][1] \in {"idle", "in flight"}
  BY DEF Submit
<1>3. /\ \A c : TracksOf(c)' = TracksOf(c)
      /\ \A c : Collected(c)' = Collected(c)
  BY <1>1 DEF TracksOf, Collected
<1>4. JobsArePackings'
  BY <1>2 DEF JobsArePackings
<1>5. \A c \in Chan : ~Collected(c)
  BY <1>1 DEF Collecting
<1>6. PtcsAreCollected'
  <2>1. \A i \in DOMAIN nodes : nodes[i].chan \in Chan /\ ~Collected(nodes[i].chan)
    BY <1>1, <1>5, NodeFields
  <2>2. \A i \in DOMAIN nodes : nodes[i].ptc = NoPtc
    BY <1>1, <2>1 DEF Collecting, PtcsAreCollected
  <2>. QED
    BY <1>1, <1>3, <2>1, <2>2 DEF PtcsAreCollected
<1>7. WidthsAreCollected'
  BY <1>3, <1>5 DEF WidthsAreCollected
<1>8. Collecting'
  BY <1>1, <1>2, <1>4, <1>6, <1>7 DEF Collecting
<1>9. NodesTyped'
  BY <1>1 DEF NodesTyped
<1>. QED
  BY <1>1, <1>8, <1>9 DEF Inv

LEMMA ProcessTrackStep ==
  ASSUME Inv, NEW c \in Chan, ProcessTrack(c)
  PROVE  Inv'
<1>1. UNCHANGED <<nodes, list, pc>> /\ jobs[c] = <<"in flight">>
  BY DEF ProcessTrack
<1>2. NodesTyped /\ NodesTyped'
  BY <1>1 DEF Inv, NodesTyped
<1>3. /\ \A b : TracksOf(b)' = TracksOf(b)
      /\ \A b : Packings(TracksOf(b))' = Packings(TracksOf(b))
      /\ \A d : Used(d)' = Used(d)
  BY <1>1, SamePlaces
<1>4. \A b : Collected(b)' = Collected(b)
  BY <1>1 DEF Collected
<1>5. ASSUME pc = "returned" PROVE NoDuplicatePtc' /\ ChannelsAreFull'
  <2>1. NoDuplicatePtc /\ ChannelsAreFull
    BY <1>5 DEF Inv
  <2>2. NoDuplicatePtc'
    BY <1>1, <2>1 DEF NoDuplicatePtc, Meet
  <2>3. ChannelsAreFull'
    BY <1>1, <2>1, SameFull
  <2>. QED
    BY <2>2, <2>3
<1>6. ASSUME pc # "returned" PROVE Collecting'
  <2>1. PICK f \in Packings(TracksOf(c)) : jobs' = [jobs EXCEPT ![c] = <<"done", f>>]
    BY DEF ProcessTrack
  <2>2. Collecting
    BY <1>6 DEF Inv
  <2>3. DOMAIN jobs' = Chan /\ jobs'[c] = <<"done", f>> /\ \A b \in Chan \ {c} : jobs'[b] = jobs[b]
    BY <2>1, <2>2 DEF Collecting
  <2>4. jobs[c][1] # "done"
    <3>1. <<"in flight">>[1] = "in flight"
      OBVIOUS
    <3>. QED
      BY <1>1, <3>1
  <2>5. ASSUME NEW i \in TracksOf(c) PROVE ~Collected(c)
    <3>1. i \in DOMAIN nodes /\ nodes[i].chan = c
      BY <2>5 DEF TracksOf
    <3>. QED
      BY <2>2, <2>4, <3>1 DEF Collecting, PtcsAreCollected
  <2>6. PtcsAreCollected'
    <3> SUFFICES ASSUME NEW i \in DOMAIN nodes
                 PROVE  IF Collected(nodes[i].chan)
                        THEN jobs'[nodes[i].chan][1] = "done" /\ nodes[i].ptc = jobs'[nodes[i].chan][2][i]
                        ELSE nodes[i].ptc = NoPtc
      BY <1>1, <1>4 DEF PtcsAreCollected
    <3>1. nodes[i].chan \in Chan /\ i \in TracksOf(nodes[i].chan)
      BY <1>2, NodeFields DEF TracksOf
    <3>2. Collected(nodes[i].chan) => nodes[i].chan # c
      BY <2>5, <3>1
    <3>3. Collected(nodes[i].chan) => jobs'[nodes[i].chan] = jobs[nodes[i].chan]
      BY <2>3, <3>1, <3>2
    <3>. QED
      BY <2>2, <3>3 DEF Collecting, PtcsAreCollected
  <2>7. JobsArePackings'
    <3> SUFFICES ASSUME NEW b \in Chan
                 PROVE  /\ jobs'[b][1] \in {"idle", "in flight", "done"}
                        /\ jobs'[b][1] = "done" => jobs'[b][2] \in Packings(TracksOf(b))
      BY <1>3 DEF JobsArePackings
    <3>1. CASE b = c
      <4>1. <<"done", f>>[1] = "done" /\ <<"done", f>>[2] = f
        OBVIOUS
      <4>. QED
        BY <2>3, <3>1, <4>1
    <3>2. CASE b # c
      BY <2>2, <2>3, <3>2 DEF Collecting, JobsArePackings
    <3>. QED
      BY <3>1, <3>2
  <2>8. WidthsAreCollected'
    <3> SUFFICES ASSUME NEW b \in Chan, Collected(b), TracksOf(b) # {}
                 PROVE  list[b[1]][b[2] + 1] = Width(jobs'[b][2])
      BY <1>1, <1>3, <1>4 DEF WidthsAreCollected
    <3>1. jobs'[b] = jobs[b]
      BY <2>3, <2>5
    <3>. QED
      BY <2>2, <3>1 DEF Collecting, WidthsAreCollected
  <2>. QED
    BY <1>1, <1>3, <1>4, <2>2, <2>3, <2>6, <2>7, <2>8 DEF Collecting
<1>. QED
  BY <1>1, <1>2, <1>5, <1>6 DEF Inv

LEMMA CollectStep ==
  ASSUME Inv, NEW d \in Dirs, Collect(d)
  PROVE  Inv'
<1>1. PICK c : c = <<d, Len(list[d])>>
  OBVIOUS
<1>2. pc = d /\ UNCHANGED <<pc, jobs>> /\ NodesTyped /\ Collecting
  BY DEF Collect, Inv, Dirs
<1>3. c \in Chan /\ c[1] = d /\ c[2] = Len(list[d])
  <2>1. PICK k \in Used(d) : c[2] <= k
    BY <1>1 DEF Collect
  <2>2. <<d, k>> \in Chan /\ k \in Nat
    BY <1>2, <2>1, UsedChannels
  <2>3. Len(list[d]) \in Nat /\ Len(list[d]) <= k
    <3>1. list[d] \in Seq(Nat)
      BY <1>2 DEF Collecting
    <3>2. c[2] = Len(list[d])
      BY <1>1
    <3>. QED
      BY <2>1, <3>1, <3>2
  <2>. QED
    BY <1>1, <2>2, <2>3, BoundsAssumption DEF Chan, Dirs
<1> DEFINE width == IF TracksOf(c) = {} THEN 0 ELSE Width(jobs[c][2])
<1>4. list' = [list EXCEPT ![d] = Append(@, width)]
  BY <1>1 DEF Collect
<1>5. TracksOf(c) # {} => jobs[c][1] = "done" /\ jobs[c][2] \in Packings(TracksOf(c))
  <2>1. TracksOf(c) # {} => jobs[c][1] = "done"
    BY <1>1 DEF Collect
  <2>. QED
    BY <1>2, <1>3, <2>1 DEF Collecting, JobsArePackings
<1>6. /\ DOMAIN nodes' = DOMAIN nodes
      /\ \A i \in TracksOf(c) : nodes'[i] = [nodes[i] EXCEPT !.ptc = jobs[c][2][i]]
      /\ \A i \in DOMAIN nodes \ TracksOf(c) : nodes'[i] = nodes[i]
  <2>1. CASE TracksOf(c) = {}
    BY <1>1, <2>1 DEF Collect
  <2>2. CASE TracksOf(c) # {}
    <3>1. nodes' = [i \in DOMAIN nodes |-> IF i \in TracksOf(c)
                                           THEN [nodes[i] EXCEPT !.ptc = jobs[c][2][i]]
                                           ELSE nodes[i]]
      BY <1>1, <2>2 DEF Collect
    <3>2. TracksOf(c) \subseteq DOMAIN nodes
      BY DEF TracksOf
    <3>. QED
      BY <3>1, <3>2
  <2>. QED
    BY <2>1, <2>2
<1> HIDE DEF width
<1>7. \A i \in TracksOf(c) : jobs[c][2][i] \in Nat
  <2>1. ASSUME NEW i \in TracksOf(c)
        PROVE  jobs[c][2] \in [TracksOf(c) -> 0 .. Cardinality(TracksOf(c)) - 1]
    BY <1>5, <2>1 DEF Packings
  <2>. QED
    BY <2>1
<1>8. \A i \in DOMAIN nodes : /\ nodes'[i] \in Node /\ nodes'[i].chan = nodes[i].chan
                              /\ nodes'[i].low = nodes[i].low /\ nodes'[i].high = nodes[i].high
                              /\ i \in TracksOf(c) => nodes'[i].ptc = jobs[c][2][i]
  <2> SUFFICES ASSUME NEW i \in DOMAIN nodes
               PROVE  /\ nodes'[i] \in Node /\ nodes'[i].chan = nodes[i].chan
                      /\ nodes'[i].low = nodes[i].low /\ nodes'[i].high = nodes[i].high
                      /\ i \in TracksOf(c) => nodes'[i].ptc = jobs[c][2][i]
    OBVIOUS
  <2>1. nodes[i] \in Node
    BY <1>2, NodeFields
  <2>2. CASE i \in TracksOf(c)
    <3>1. nodes'[i] = [nodes[i] EXCEPT !.ptc = jobs[c][2][i]] /\ jobs[c][2][i] \in Nat
      BY <1>6, <1>7, <2>2
    <3>. QED
      BY <2>1, <3>1 DEF Node
  <2>3. CASE i \notin TracksOf(c)
    BY <1>6, <2>1, <2>3
  <2>. QED
    BY <2>2, <2>3
<1>9. /\ \A b : TracksOf(b)' = TracksOf(b)
      /\ \A e : Used(e)' = Used(e)
      /\ \A b : Packings(TracksOf(b))' = Packings(TracksOf(b))
  BY <1>6, <1>8, SamePlaces
<1>10. NodesTyped'
  <2>1. nodes' \in Seq(Node)
    <3>1. nodes \in Seq(Node) /\ DOMAIN nodes = 1 .. Len(nodes) /\ Len(nodes) \in Nat
      BY <1>2 DEF NodesTyped
    <3>2. nodes' \in [1 .. Len(nodes) -> Node]
      <4>1. CASE nodes' = nodes
        BY <3>1, <4>1
      <4>2. CASE nodes' = [i \in DOMAIN nodes |-> IF i \in TracksOf(c)
                                                  THEN [nodes[i] EXCEPT !.ptc = jobs[c][2][i]]
                                                  ELSE nodes[i]]
        <5>1. nodes' = [i \in DOMAIN nodes |-> nodes'[i]]
          BY <4>2
        <5>. QED
          BY <1>8, <3>1, <5>1
      <4>. QED
        BY <1>1, <4>1, <4>2 DEF Collect
    <3>. QED
      BY <3>1, <3>2
  <2>. QED
    BY <1>2, <1>6, <1>8, <2>1 DEF NodesTyped
<1>11. /\ \A e \in Dirs : list'[e] \in Seq(Nat)
       /\ Len(list'[d]) = Len(list[d]) + 1 /\ list'[d][Len(list[d]) + 1] = width
       /\ \A k \in 1 .. Len(list[d]) : list'[d][k] = list[d][k]
       /\ \A e \in Dirs \ {d} : list'[e] = list[e]
  <2>1. width \in Nat
    <3>1. CASE TracksOf(c) = {}
      BY <3>1 DEF width
    <3>2. CASE TracksOf(c) # {}
      <4> DEFINE f == jobs[c][2]
                 R == {f[i] : i \in DOMAIN f}
      <4>1. f \in [TracksOf(c) -> 0 .. Cardinality(TracksOf(c)) - 1]
        BY <1>5, <3>2 DEF Packings
      <4>2. R \subseteq 0 .. Cardinality(TracksOf(c)) - 1
        BY <4>1
      <4>3. Cardinality(TracksOf(c)) \in Nat
        <5>1. IsFiniteSet(1 .. Len(nodes)) /\ TracksOf(c) \subseteq 1 .. Len(nodes)
          BY <1>2, FS_Interval DEF NodesTyped, TracksOf
        <5>. QED
          BY <5>1, FS_Subset, FS_CardinalityType
      <4> HIDE DEF R
      <4>4. IsFiniteSet(0 .. Cardinality(TracksOf(c)) - 1)
        BY <4>3, FS_Interval
      <4>5. Cardinality(R) \in Nat
        BY <4>2, <4>4, FS_Subset, FS_CardinalityType
      <4>. QED
        BY <3>2, <4>5 DEF width, Width, R
    <3>. QED
      BY <3>1, <3>2
  <2>2. \A e \in Dirs : list[e] \in Seq(Nat)
    BY <1>2 DEF Collecting
  <2>3. d \in DOMAIN list /\ DOMAIN list = Dirs
    BY <1>2 DEF Collecting
  <2>. QED
    BY <1>4, <2>1, <2>2, <2>3
<1>12. \A b \in Chan : b # c => Collected(b)' = Collected(b)
  <2> SUFFICES ASSUME NEW b \in Chan, b # c PROVE Collected(b)' = Collected(b)
    OBVIOUS
  <2>1. b[1] \in Dirs /\ b[2] \in Nat /\ b = <<b[1], b[2]>> /\ c = <<d, Len(list[d])>>
    BY <1>1, ChannelTypes
  <2>2. CASE b[1] = d
    <3>1. b[2] # Len(list[d])
      BY <2>1, <2>2
    <3>2. Len(list[d]) \in Nat
      BY <1>2 DEF Collecting
    <3>3. b[2] < Len(list'[d]) <=> b[2] < Len(list[d])
      BY <1>11, <2>1, <3>1, <3>2
    <3>. QED
      BY <2>2, <3>3 DEF Collected
  <2>3. CASE b[1] # d
    BY <1>11, <2>1, <2>3 DEF Collected
  <2>. QED
    BY <2>2, <2>3
<1>13. Collected(c)' /\ ~Collected(c)
  <2>1. Len(list[d]) \in Nat
    BY <1>2 DEF Collecting
  <2>. QED
    BY <1>3, <1>11, <2>1 DEF Collected
<1>14. JobsArePackings'
  BY <1>2, <1>9 DEF Collecting, JobsArePackings
<1>15. PtcsAreCollected'
  <2> SUFFICES ASSUME NEW i \in DOMAIN nodes, NEW b, b = nodes[i].chan
               PROVE  IF Collected(b)' THEN jobs[b][1] = "done" /\ nodes'[i].ptc = jobs[b][2][i]
                                       ELSE nodes'[i].ptc = NoPtc
    BY <1>2, <1>6, <1>8 DEF PtcsAreCollected
  <2>1. b \in Chan /\ i \in TracksOf(b)
    BY <1>2, NodeFields DEF TracksOf
  <2>2. CASE b = c
    BY <1>5, <1>8, <1>13, <2>1, <2>2
  <2>3. CASE b # c
    <3>1. i \notin TracksOf(c)
      BY <2>3 DEF TracksOf
    <3>2. nodes'[i] = nodes[i] /\ Collected(b)' = Collected(b)
      BY <1>6, <1>12, <2>1, <2>3, <3>1
    <3>. QED
      BY <1>2, <3>2 DEF Collecting, PtcsAreCollected
  <2>. QED
    BY <2>2, <2>3
<1>16. WidthsAreCollected'
  <2> SUFFICES ASSUME NEW b \in Chan, Collected(b)', TracksOf(b) # {}
               PROVE  list'[b[1]][b[2] + 1] = Width(jobs[b][2])
    BY <1>2, <1>9 DEF WidthsAreCollected
  <2>1. CASE b = c
    <3>1. width = Width(jobs[c][2])
      BY <2>1 DEF width
    <3>. QED
      BY <1>3, <1>11, <2>1, <3>1
  <2>2. CASE b # c
    <3>1. Collected(b)
      BY <1>12, <2>2
    <3>2. b[1] \in Dirs /\ b[2] \in Nat
      BY ChannelTypes
    <3>3. list'[b[1]][b[2] + 1] = list[b[1]][b[2] + 1]
      <4>1. CASE b[1] = d
        <5>1. Len(list[d]) \in Nat /\ b[2] < Len(list[d])
          BY <1>2, <3>1, <4>1 DEF Collecting, Collected
        <5>2. b[2] + 1 \in 1 .. Len(list[d])
          BY <3>2, <5>1
        <5>. QED
          BY <1>11, <4>1, <5>2
      <4>2. CASE b[1] # d
        BY <1>11, <3>2, <4>2
      <4>. QED
        BY <4>1, <4>2
    <3>. QED
      BY <1>2, <3>1, <3>3 DEF Collecting, WidthsAreCollected
  <2>. QED
    BY <2>1, <2>2
<1>17. pc' \in {"CHANY", "pad"} => \A k \in Used("CHANX")' : k < Len(list'["CHANX"])
  <2> SUFFICES ASSUME pc' \in {"CHANY", "pad"}
               PROVE  \A k \in Used("CHANX") : k < Len(list'["CHANX"])
    BY <1>9
  <2>1. pc = "CHANY" /\ d = "CHANY"
    BY <1>2 DEF Dirs
  <2>2. list'["CHANX"] = list["CHANX"]
    BY <1>11, <2>1 DEF Dirs
  <2>. QED
    BY <1>2, <2>1, <2>2 DEF Collecting
<1>18. Collecting'
  BY <1>2, <1>4, <1>11, <1>14, <1>15, <1>16, <1>17 DEF Collecting, Dirs
<1>. QED
  BY <1>2, <1>10, <1>18 DEF Inv, Dirs

LEMMA RaiseStep ==
  ASSUME Inv, NEW d \in Dirs, Raise(d)
  PROVE  Inv'
<1>1. UNCHANGED <<nodes, jobs, list>> /\ pc = d /\ pc' = "raised" /\ NodesTyped /\ Collecting
  BY DEF Raise, Inv, Dirs
<1>2. /\ \A c : TracksOf(c)' = TracksOf(c)
      /\ \A c : Packings(TracksOf(c))' = Packings(TracksOf(c))
  BY <1>1, SamePlaces
<1>3. \A c : Collected(c)' = Collected(c)
  BY <1>1 DEF Collected
<1>4. JobsArePackings' /\ PtcsAreCollected' /\ WidthsAreCollected'
  BY <1>1, <1>2, <1>3 DEF Collecting, JobsArePackings, PtcsAreCollected, WidthsAreCollected
<1>5. Collecting'
  BY <1>1, <1>4 DEF Collecting
<1>6. NodesTyped'
  BY <1>1 DEF NodesTyped
<1>. QED
  BY <1>1, <1>5, <1>6 DEF Inv

LEMMA EndLoopStep ==
  ASSUME Inv, NEW d \in Dirs, EndLoop(d)
  PROVE  Inv'
<1>1. /\ UNCHANGED <<nodes, jobs, list>> /\ pc = d /\ NodesTyped /\ Collecting
      /\ \A k \in Used(d) : k < Len(list[d])
  BY DEF EndLoop, Inv, Dirs
<1>2. /\ \A c : TracksOf(c)' = TracksOf(c)
      /\ \A c : Packings(TracksOf(c))' = Packings(TracksOf(c))
      /\ \A e : Used(e)' = Used(e)
  BY <1>1, SamePlaces
<1>3. \A c : Collected(c)' = Collected(c)
  BY <1>1 DEF Collected
<1>4. JobsArePackings' /\ PtcsAreCollected' /\ WidthsAreCollected'
  BY <1>1, <1>2, <1>3 DEF Collecting, JobsArePackings, PtcsAreCollected, WidthsAreCollected
<1>5. Collecting' /\ pc' \in {"CHANY", "pad"}
  <2>1. CASE d = "CHANX"
    <3>1. pc' = "CHANY"
      BY <2>1 DEF EndLoop
    <3>. QED
      BY <1>1, <1>2, <1>4, <2>1, <3>1 DEF Collecting
  <2>2. CASE d = "CHANY"
    <3>1. pc' = "pad"
      BY <2>2 DEF EndLoop
    <3>. QED
      BY <1>1, <1>2, <1>4, <2>2, <3>1 DEF Collecting
  <2>. QED
    BY <2>1, <2>2 DEF Dirs
<1>6. NodesTyped'
  BY <1>1 DEF NodesTyped
<1>. QED
  BY <1>5, <1>6 DEF Inv

-----------------------------------------------------------------------------
(* A set of naturals up to N has a least and a greatest element, which are *)
(* the ones that FillLow and FillHigh choose.                              *)
LEMMA Extremes ==
  ASSUME NEW N \in Nat, NEW R \in SUBSET (0 .. N), R # {}
  PROVE  /\ (CHOOSE x \in R : \A y \in R : x <= y) \in R
         /\ \A y \in R : (CHOOSE x \in R : \A z \in R : x <= z) <= y
         /\ (CHOOSE x \in R : \A y \in R : y <= x) \in R
         /\ \A y \in R : y <= (CHOOSE x \in R : \A z \in R : z <= x)
<1>1. \E x \in R : \A y \in R : x <= y
  <2>1. R \in SUBSET Nat
    OBVIOUS
  <2>. QED
    BY <2>1, LeastNatural
<1>2. \E x \in R : \A y \in R : y <= x
  <2> DEFINE B == {n \in Nat : \A y \in R : y <= n}
  <2>1. N \in B /\ B \in SUBSET Nat
    OBVIOUS
  <2>2. PICK n \in B : \A m \in B : n <= m
    <3> HIDE DEF B
    <3>. QED
      BY <2>1, LeastNatural
  <2>3. n \in R
    <3> SUFFICES ASSUME n \notin R PROVE FALSE
      OBVIOUS
    <3>1. \A y \in R : y <= n /\ y # n /\ y \in Nat
      BY <2>2
    <3>2. n - 1 \in Nat
      <4>1. PICK y \in R : y <= n /\ y # n /\ y \in Nat
        BY <3>1
      <4>2. n \in Nat
        BY <2>2
      <4>. QED
        BY <4>1, <4>2
    <3>3. n - 1 \in B
      BY <2>2, <3>1, <3>2
    <3>. QED
      BY <2>2, <3>2, <3>3
  <2>. QED
    BY <2>2, <2>3
<1>3. /\ (CHOOSE x \in R : \A y \in R : x <= y) \in R
      /\ \A y \in R : (CHOOSE x \in R : \A z \in R : x <= z) <= y
  BY <1>1
<1>4. /\ (CHOOSE x \in R : \A y \in R : y <= x) \in R
      /\ \A y \in R : y <= (CHOOSE x \in R : \A z \in R : z <= x)
  BY <1>2
<1>. QED
  BY <1>3, <1>4

(* The numbers of a packing start at 0 and leave none out.                 *)
LEMMA NoneLeftOut ==
  ASSUME NEW N \in Nat, NEW R \in SUBSET (0 .. N), R # {}, \A r \in R : 0 .. r - 1 \subseteq R
  PROVE  R = 0 .. Cardinality(R) - 1
<1>1. PICK m \in R : \A r \in R : r <= m
  BY Extremes
<1>2. R = 0 .. m
  <2>1. m \in Nat /\ R \subseteq 0 .. m
    BY <1>1
  <2>2. 0 .. m - 1 \subseteq R /\ m \in R
    OBVIOUS
  <2>3. \A k \in 0 .. m : k = m \/ k \in 0 .. m - 1
    BY <2>1
  <2>. QED
    BY <2>1, <2>2, <2>3
<1>3. Cardinality(R) = m + 1
  BY <1>1, <1>2, FS_Interval
<1>. QED
  BY <1>1, <1>2, <1>3

(* SetToSeq lists every element of a finite set once.                      *)
LEMMA SetListed ==
  ASSUME NEW S, IsFiniteSet(S)
  PROVE  /\ Cardinality(S) \in Nat
         /\ SetToSeq(S) \in [1 .. Cardinality(S) -> S]
         /\ \A a, b \in 1 .. Cardinality(S) : SetToSeq(S)[a] = SetToSeq(S)[b] => a = b
         /\ \A s \in S : \E a \in 1 .. Cardinality(S) : SetToSeq(S)[a] = s
<1> DEFINE n == Cardinality(S)
           f == SetToSeq(S)
<1>1. n \in Nat /\ ExistsBijection(1 .. n, S)
  BY FS_CardinalityType
<1>2. \E g \in [1 .. n -> S] : IsInjective(g)
  BY <1>1 DEF ExistsBijection, Bijection, Injection
<1>3. f \in [1 .. n -> S] /\ IsInjective(f)
  BY <1>2 DEF SetToSeq
<1> HIDE DEF n, f
<1>4. f \in Injection(1 .. n, S)
  BY <1>3 DEF Injection
<1>5. IsFiniteSet(1 .. n) /\ Cardinality(1 .. n) = n
  BY <1>1, FS_Interval
<1>6. f \in Surjection(1 .. n, S)
  BY <1>4, <1>5, FS_Injection DEF n
<1>7. \A s \in S : \E a \in 1 .. n : f[a] = s
  BY <1>6 DEF Surjection
<1>8. \A a, b \in 1 .. n : f[a] = f[b] => a = b
  BY <1>3 DEF IsInjective
<1>. QED
  BY <1>1, <1>3, <1>7, <1>8 DEF n, f

(* The gaps of a tree meet neither its tracks nor one another.             *)
LEMMA GapsAreApart ==
  ASSUME NodesTyped, NEW c \in Chan, NEW p, NEW lo \in Nat, NEW hi \in Nat,
         NEW g \in Gaps(c, p, lo, hi)
  PROVE  /\ g \in Interval(c[1]) /\ g.low \in lo .. hi /\ g.high \in lo .. hi /\ g.low <= g.high
         /\ \A i \in TracksOf(c) : nodes[i].ptc = p => ~Meet(nodes[i], g) /\ ~Meet(g, nodes[i])
         /\ \A h \in Gaps(c, p, lo, hi) : Meet(g, h) => g = h
<1> DEFINE Free(x) == /\ x \in lo .. hi
                      /\ \A i \in TracksOf(c) :
                           nodes[i].ptc = p => x \notin nodes[i].low .. nodes[i].high
<1>1. ASSUME NEW h \in Gaps(c, p, lo, hi)
      PROVE  /\ h \in Interval(c[1]) /\ h.low \in Nat /\ h.high \in Nat /\ h.low <= h.high
             /\ h \in [low : Along(c[1]), high : Along(c[1])]
             /\ \A x \in h.low .. h.high : Free(x)
             /\ ~Free(h.low - 1) /\ ~Free(h.high + 1)
  <2>1. Along(c[1]) \subseteq Nat
    BY BoundsAssumption DEF Along
  <2>2. /\ h \in Interval(c[1])
        /\ \A x \in h.low .. h.high : Free(x)
        /\ ~Free(h.low - 1) /\ ~Free(h.high + 1)
    BY DEF Gaps
  <2>. QED
    BY <2>1, <2>2 DEF Interval
<1>2. g.low \in g.low .. g.high /\ g.high \in g.low .. g.high
  BY <1>1
<1>3. g.low \in lo .. hi /\ g.high \in lo .. hi
  BY <1>1, <1>2
<1>4. ASSUME NEW i \in TracksOf(c), nodes[i].ptc = p PROVE ~Meet(nodes[i], g) /\ ~Meet(g, nodes[i])
  <2>1. i \in DOMAIN nodes
    BY DEF TracksOf
  <2>2. nodes[i].low \in Nat /\ nodes[i].high \in Nat /\ nodes[i].low <= nodes[i].high
    BY <2>1, NodeFields
  <2>3. \A x \in g.low .. g.high : x \notin nodes[i].low .. nodes[i].high
    BY <1>1, <1>4
  <2>4. g.low \in Nat /\ g.high \in Nat /\ g.low <= g.high
    BY <1>1
  <2> HIDE DEF Free
  <2>5. g.low \notin nodes[i].low .. nodes[i].high
    BY <2>3, <2>4
  <2>6. nodes[i].low \notin g.low .. g.high
    BY <2>2, <2>3
  <2>. QED
    BY <2>2, <2>4, <2>5, <2>6 DEF Meet
<1>5. ASSUME NEW a \in Gaps(c, p, lo, hi), NEW b \in Gaps(c, p, lo, hi), Meet(a, b)
      PROVE  ~(a.low < b.low) /\ ~(b.high < a.high)
  <2>1. /\ a.low \in Nat /\ a.high \in Nat /\ a.low <= a.high
        /\ b.low \in Nat /\ b.high \in Nat /\ b.low <= b.high
    BY <1>1
  <2>2. a.low <= b.high /\ b.low <= a.high
    BY <1>5 DEF Meet
  <2>3. \A x \in a.low .. a.high : Free(x)
    BY <1>1
  <2>4. \A x \in b.low .. b.high : Free(x)
    BY <1>1
  <2>5. ~Free(b.low - 1) /\ ~Free(b.high + 1)
    BY <1>1
  <2> HIDE DEF Free
  <2>6. ASSUME a.low < b.low PROVE FALSE
    <3>1. b.low - 1 \in a.low .. a.high
      BY <2>1, <2>2, <2>6
    <3>. QED
      BY <2>3, <2>5, <3>1
  <2>7. ASSUME b.high < a.high PROVE FALSE
    <3>1. b.high + 1 \in a.low .. a.high
      BY <2>1, <2>2, <2>7
    <3>. QED
      BY <2>3, <2>5, <3>1
  <2>. QED
    BY <2>6, <2>7
<1>6. ASSUME NEW h \in Gaps(c, p, lo, hi), Meet(g, h) PROVE g = h
  <2>1. Meet(h, g)
    BY <1>6 DEF Meet
  <2>2. ~(g.low < h.low) /\ ~(h.low < g.low) /\ ~(g.high < h.high) /\ ~(h.high < g.high)
    BY <1>5, <1>6, <2>1
  <2>3. /\ g.low \in Nat /\ g.high \in Nat /\ h.low \in Nat /\ h.high \in Nat
        /\ g \in [low : Along(c[1]), high : Along(c[1])]
        /\ h \in [low : Along(c[1]), high : Along(c[1])]
    BY <1>1
  <2>4. g.low = h.low /\ g.high = h.high
    BY <2>2, <2>3
  <2>. QED
    BY <2>3, <2>4
<1>. QED
  BY <1>1, <1>3, <1>4, <1>6

(* What no track of the tree is over lies in a gap.                        *)
LEMMA GapsCover ==
  ASSUME NEW c \in Chan, NEW p, NEW lo \in Nat \ {0}, NEW hi \in Along(c[1]), NEW x \in lo .. hi,
         \A i \in TracksOf(c) : nodes[i].ptc = p => x \notin nodes[i].low .. nodes[i].high
  PROVE  \E g \in Gaps(c, p, lo, hi) : x \in g.low .. g.high
<1> DEFINE Free(y) == /\ y \in lo .. hi
                      /\ \A i \in TracksOf(c) :
                           nodes[i].ptc = p => y \notin nodes[i].low .. nodes[i].high
           Starts == {l \in Nat : l <= x /\ \A y \in l .. x : Free(y)}
           Ends == {h \in 0 .. hi : x <= h /\ \A y \in x .. h : Free(y)}
<1>1. hi \in Nat /\ x \in Nat /\ lo <= x /\ x <= hi
  BY BoundsAssumption DEF Along
<1>2. \A y : y \in x .. x <=> y = x
  BY <1>1
<1>3. Free(x) /\ \A y : Free(y) => y \in lo .. hi
  OBVIOUS
<1>4. \A g \in Interval(c[1]) :
        (\A y \in g.low .. g.high : Free(y)) /\ ~Free(g.low - 1) /\ ~Free(g.high + 1)
          => g \in Gaps(c, p, lo, hi)
  BY DEF Gaps
<1> HIDE DEF Free
<1>5. PICK l \in Starts : \A m \in Starts : l <= m
  <2>1. x \in Starts /\ Starts \in SUBSET Nat
    BY <1>1, <1>2, <1>3
  <2> HIDE DEF Starts
  <2>. QED
    BY <2>1, LeastNatural
<1>6. PICK h \in Ends : \A m \in Ends : m <= h
  <2>1. x \in Ends /\ Ends \in SUBSET (0 .. hi)
    BY <1>1, <1>2, <1>3
  <2> HIDE DEF Ends
  <2>2. Ends # {}
    BY <2>1
  <2>. QED
    BY <1>1, <2>1, <2>2, Extremes
<1>7. l \in Nat /\ h \in Nat /\ l <= x /\ x <= h /\ h <= hi
  BY <1>1, <1>5, <1>6
<1>8. \A y \in l .. h : Free(y)
  <2>1. \A y \in l .. h : y \in l .. x \/ y \in x .. h
    BY <1>1, <1>7
  <2>. QED
    BY <1>5, <1>6, <2>1
<1>9. ~Free(l - 1)
  <2> SUFFICES ASSUME Free(l - 1) PROVE FALSE
    OBVIOUS
  <2>1. l - 1 \in lo .. hi
    BY <1>3
  <2>2. l - 1 \in Nat /\ l - 1 <= x
    BY <1>1, <1>7, <2>1
  <2>3. \A y \in l - 1 .. x : y = l - 1 \/ y \in l .. x
    BY <1>1, <1>7
  <2>4. l - 1 \in Starts
    BY <1>5, <2>2, <2>3
  <2>. QED
    BY <1>5, <1>7, <2>4
<1>10. ~Free(h + 1)
  <2> SUFFICES ASSUME Free(h + 1) PROVE FALSE
    OBVIOUS
  <2>1. h + 1 \in lo .. hi
    BY <1>3
  <2>2. h + 1 \in 0 .. hi /\ x <= h + 1
    BY <1>1, <1>7, <2>1
  <2>3. \A y \in x .. h + 1 : y = h + 1 \/ y \in x .. h
    BY <1>1, <1>7
  <2>4. h + 1 \in Ends
    BY <1>6, <2>2, <2>3
  <2>. QED
    BY <1>6, <1>7, <2>4
<1>11. PICK g : g = [low |-> l, high |-> h]
  OBVIOUS
<1>12. g \in Interval(c[1]) /\ g.low = l /\ g.high = h
  <2>1. \A n \in 0 .. hi : n \in Along(c[1])
    BY <1>1, BoundsAssumption DEF Along
  <2>2. l \in 0 .. hi /\ h \in 0 .. hi
    BY <1>1, <1>7
  <2>3. g \in [low : Along(c[1]), high : Along(c[1])] /\ g.low = l /\ g.high = h
    BY <1>11, <2>1, <2>2
  <2>. QED
    BY <1>7, <2>3 DEF Interval
<1>13. g \in Gaps(c, p, lo, hi)
  BY <1>4, <1>8, <1>9, <1>10, <1>12
<1>. QED
  BY <1>1, <1>7, <1>12, <1>13

(* What FillLow and FillHigh choose.                                       *)
LEMMA ReachedBounds ==
  ASSUME NodesTyped, DOMAIN nodes # {}, NEW d \in Dirs
  PROVE  Reached(d) \subseteq Along(d) /\ Reached(d) # {}
<1>1. ASSUME NEW n \in Range(nodes)
      PROVE  /\ n.chan \in Chan /\ n.low \in Along(n.chan[1]) /\ n.high \in Along(n.chan[1])
  <2>1. PICK i \in DOMAIN nodes : n = nodes[i]
    BY DEF Range
  <2>. QED
    BY <2>1, NodeFields DEF NodesTyped
<1>2. ASSUME NEW c \in Chan, c[1] # d PROVE c[2] \in Along(d)
  BY <1>2, BoundsAssumption DEF Chan, Along, Dirs
<1>3. Reached(d) \subseteq Along(d)
  <2> SUFFICES ASSUME NEW y \in Reached(d) PROVE y \in Along(d)
    OBVIOUS
  <2>1. PICK n \in Range(nodes) : y \in IF n.chan[1] = d THEN {n.low, n.high} ELSE {n.chan[2]}
    BY DEF Reached
  <2>. QED
    BY <1>1, <1>2, <2>1
<1>4. Reached(d) # {}
  <2>1. PICK i \in DOMAIN nodes : TRUE
    OBVIOUS
  <2>2. nodes[i] \in Range(nodes)
    BY DEF Range
  <2>3. (IF nodes[i].chan[1] = d THEN {nodes[i].low, nodes[i].high} ELSE {nodes[i].chan[2]}) # {}
    OBVIOUS
  <2>. QED
    BY <2>2, <2>3 DEF Reached
<1>. QED
  BY <1>3, <1>4

Lowest(R) == CHOOSE x \in R : \A y \in R : x <= y
Highest(R) == CHOOSE x \in R : \A y \in R : y <= x
Floor(R) == IF Lowest(R) < 1 THEN 1 ELSE Lowest(R)

LEMMA FillBounds ==
  ASSUME NEW N \in Nat, NEW R \in SUBSET (0 .. N), R # {}
  PROVE  /\ Floor(R) \in Nat \ {0}
         /\ (0 \in R /\ Floor(R) = 1) \/ Floor(R) \in R
         /\ \A y \in R : IF y = 0 THEN Floor(R) = 1 ELSE Floor(R) <= y
         /\ Highest(R) \in R
         /\ \A y \in R : y <= Highest(R)
<1>1. Lowest(R) \in R /\ \A y \in R : Lowest(R) <= y
  BY Extremes DEF Lowest
<1>2. Highest(R) \in R /\ \A y \in R : y <= Highest(R)
  BY Extremes DEF Highest
<1>3. \A y \in R : y \in Nat
  OBVIOUS
<1>4. Floor(R) = IF Lowest(R) < 1 THEN 1 ELSE Lowest(R)
  BY DEF Floor
<1>5. Floor(R) \in Nat \ {0} /\ ((0 \in R /\ Floor(R) = 1) \/ Floor(R) \in R)
  <2>1. Lowest(R) \in R /\ Lowest(R) \in Nat
    BY <1>1, <1>3
  <2>2. CASE Lowest(R) = 0
    BY <1>4, <2>1, <2>2
  <2>3. CASE Lowest(R) # 0
    <3>1. Floor(R) = Lowest(R)
      BY <1>4, <2>1, <2>3
    <3>. QED
      BY <2>1, <2>3, <3>1
  <2>. QED
    BY <2>2, <2>3
<1>6. ASSUME NEW y \in R PROVE IF y = 0 THEN Floor(R) = 1 ELSE Floor(R) <= y
  <2>1. Lowest(R) <= y /\ Lowest(R) \in Nat /\ y \in Nat
    BY <1>1, <1>3
  <2>. QED
    BY <1>4, <2>1
<1>. QED
  BY <1>2, <1>5, <1>6

LEMMA FillIsBounds ==
  ASSUME NEW d
  PROVE  FillLow(d) = Floor(Reached(d)) /\ FillHigh(d) = Highest(Reached(d))
BY DEF FillLow, FillHigh, Floor, Lowest, Highest

(* The padding is finite.                                                  *)
LEMMA PaddingFinite ==
  ASSUME NodesTyped
  PROVE  IsFiniteSet(UNION {PaddingOf(i) : i \in DOMAIN nodes})
<1> DEFINE N == XMax + YMax
           P == UNION {PaddingOf(i) : i \in DOMAIN nodes}
           A == (1 .. Len(nodes)) \X ((0 .. N) \X (0 .. N))
           f == [t \in A |-> Track(nodes[t[1]].chan, [low |-> t[2][1], high |-> t[2][2]],
                                   nodes[t[1]].ptc, 0)]
           T == {f[t] : t \in A}
<1>1. N \in Nat /\ Len(nodes) \in Nat /\ DOMAIN nodes = 1 .. Len(nodes)
  BY BoundsAssumption DEF NodesTyped
<1>2. IsFiniteSet(A)
  <2>1. IsFiniteSet(1 .. Len(nodes)) /\ IsFiniteSet(0 .. N)
    BY <1>1, FS_Interval
  <2>2. IsFiniteSet((0 .. N) \X (0 .. N))
    BY <2>1, FS_Product
  <2>. QED
    BY <2>1, <2>2, FS_Product
<1>3. f \in Surjection(A, T)
  <2> HIDE DEF A
  <2>. QED
    BY DEF Surjection
<1>4. IsFiniteSet(T)
  <2> HIDE DEF A, T, f
  <2>. QED
    BY <1>2, <1>3, FS_Surjection
<1>5. ASSUME NEW i \in DOMAIN nodes, NEW n \in PaddingOf(i) PROVE n \in T
  <2>1. PICK g \in Gaps(nodes[i].chan, nodes[i].ptc, FillLow(nodes[i].chan[1]), FillHigh(nodes[i].chan[1])) :
          n = Track(nodes[i].chan, g, nodes[i].ptc, 0)
    BY DEF PaddingOf
  <2>2. g \in Interval(nodes[i].chan[1])
    BY <2>1 DEF Gaps
  <2>3. g.low \in 0 .. N /\ g.high \in 0 .. N
    BY <2>2, BoundsAssumption DEF Interval, Along
  <2>4. PICK t : t = <<i, <<g.low, g.high>>>>
    OBVIOUS
  <2>5. t \in A /\ t[1] = i /\ t[2][1] = g.low /\ t[2][2] = g.high
    BY <1>1, <2>3, <2>4
  <2>6. n = f[t]
    <3> HIDE DEF A
    <3>. QED
      BY <2>1, <2>5 DEF Track
  <2> HIDE DEF A, f
  <2>. QED
    BY <2>5, <2>6
<1>6. P \subseteq T
  <2> HIDE DEF T
  <2>. QED
    BY <1>5
<1>. QED
  BY <1>4, <1>6, FS_Subset

LEMMA PaddingIsApart ==
  ASSUME NodesTyped, NEW i \in DOMAIN nodes, NEW n \in PaddingOf(i)
  PROVE  /\ n \in Node /\ n.chan = nodes[i].chan /\ n.ptc = nodes[i].ptc
         /\ n.low \in Along(n.chan[1]) /\ n.high \in Along(n.chan[1]) /\ n.low <= n.high
         /\ n.low \in FillLow(n.chan[1]) .. FillHigh(n.chan[1])
         /\ n.high \in FillLow(n.chan[1]) .. FillHigh(n.chan[1])
         /\ \A j \in TracksOf(n.chan) : nodes[j].ptc = n.ptc => ~Meet(nodes[j], n) /\ ~Meet(n, nodes[j])
         /\ \A j \in DOMAIN nodes : \A m \in PaddingOf(j) :
              m.chan = n.chan /\ m.ptc = n.ptc /\ Meet(n, m) => n = m
<1>1. PICK c \in Chan : c = nodes[i].chan
  BY NodeFields
<1>2. PICK p \in Nat \union {NoPtc} : p = nodes[i].ptc
  BY NodeFields
<1>3. c[1] \in Dirs
  BY ChannelTypes
<1> DEFINE lo == FillLow(c[1])
           hi == FillHigh(c[1])
<1>4. lo \in Nat /\ hi \in Nat
  <2>1. Reached(c[1]) \subseteq Along(c[1]) /\ Reached(c[1]) # {}
    BY <1>3, ReachedBounds
  <2>2. PICK N \in Nat : Along(c[1]) = 0 .. N
    BY BoundsAssumption DEF Along
  <2>3. lo \in Nat /\ hi \in Reached(c[1])
    BY <2>1, <2>2, FillBounds, FillIsBounds
  <2>. QED
    BY <2>1, <2>2, <2>3
<1>5. ASSUME NEW j \in DOMAIN nodes, nodes[j].chan = c, nodes[j].ptc = p, NEW m \in PaddingOf(j)
      PROVE  \E g \in Gaps(c, p, lo, hi) : m = Track(c, g, p, 0)
  BY <1>5 DEF PaddingOf
<1> HIDE DEF lo, hi
<1>6. PICK g \in Gaps(c, p, lo, hi) : n = Track(c, g, p, 0)
  BY <1>1, <1>2, <1>5
<1>7. /\ g \in Interval(c[1]) /\ g.low \in lo .. hi /\ g.high \in lo .. hi /\ g.low <= g.high
      /\ \A j \in TracksOf(c) : nodes[j].ptc = p => ~Meet(nodes[j], g) /\ ~Meet(g, nodes[j])
      /\ \A h \in Gaps(c, p, lo, hi) : Meet(g, h) => g = h
  BY <1>4, GapsAreApart
<1>8. g.low \in Along(c[1]) /\ g.high \in Along(c[1]) /\ Along(c[1]) \subseteq Nat
  BY <1>7, BoundsAssumption DEF Interval, Along
<1>9. n = [chan |-> c, low |-> g.low, high |-> g.high, ptc |-> p, capacity |-> 0]
  BY <1>6 DEF Track
<1>10. n \in Node
  BY <1>8, <1>9 DEF Node
<1>11. ASSUME NEW j \in DOMAIN nodes, NEW m \in PaddingOf(j), m.chan = c, m.ptc = p, Meet(n, m)
       PROVE  n = m
  <2>1. nodes[j].chan = c /\ nodes[j].ptc = p
    <3>1. PICK h : m = Track(nodes[j].chan, h, nodes[j].ptc, 0)
      BY DEF PaddingOf
    <3>. QED
      BY <1>11, <3>1 DEF Track
  <2>2. PICK h \in Gaps(c, p, lo, hi) : m = Track(c, h, p, 0)
    BY <1>5, <2>1
  <2>3. m.low = h.low /\ m.high = h.high
    BY <2>2 DEF Track
  <2>4. Meet(g, h)
    BY <1>9, <1>11, <2>3 DEF Meet
  <2>. QED
    BY <1>6, <1>7, <2>2, <2>4
<1>12. \A j \in TracksOf(c) : nodes[j].ptc = p => ~Meet(nodes[j], n) /\ ~Meet(n, nodes[j])
  BY <1>7, <1>9 DEF Meet
<1>13. n.chan = c /\ n.ptc = p /\ n.low = g.low /\ n.high = g.high
  BY <1>9
<1>. QED
  BY <1>1, <1>2, <1>7, <1>8, <1>10, <1>11, <1>12, <1>13 DEF lo, hi

(* Before the padding every number below the width of a channel is taken.  *)
LEMMA NumbersTaken ==
  ASSUME NodesTyped, Collecting, pc = "pad", NEW c \in Chan, TracksOf(c) # {},
         NEW w, w = list[c[1]][c[2] + 1]
  PROVE  /\ \A i \in TracksOf(c) : nodes[i].ptc \in 0 .. w - 1
         /\ \A p \in 0 .. w - 1 : \E i \in TracksOf(c) : nodes[i].ptc = p
<1> DEFINE f == jobs[c][2]
           R == {f[i] : i \in DOMAIN f}
           S == TracksOf(c)
<1>1. Collected(c)
  <2>1. PICK i \in S : TRUE
    OBVIOUS
  <2>2. i \in DOMAIN nodes /\ nodes[i].chan = c
    BY DEF TracksOf
  <2>3. c[2] \in Used(c[1])
    BY <2>2, UsedChannels
  <2>4. c[1] \in Dirs
    BY ChannelTypes
  <2>. QED
    BY <2>3, <2>4 DEF Collecting, Collected, Dirs
<1>2. \A i \in S : jobs[c][1] = "done" /\ nodes[i].ptc = f[i]
  BY <1>1 DEF Collecting, PtcsAreCollected, TracksOf
<1>3. f \in Packings(S) /\ w = Width(f)
  BY <1>1, <1>2 DEF Collecting, JobsArePackings, WidthsAreCollected
<1>4. /\ f \in [S -> 0 .. Cardinality(S) - 1]
      /\ \A i \in S : \A p \in 0 .. f[i] - 1 : \E j \in S : f[j] = p
  BY <1>3 DEF Packings
<1>5. Cardinality(S) \in Nat
  <2>1. Len(nodes) \in Nat /\ DOMAIN nodes = 1 .. Len(nodes)
    BY DEF NodesTyped
  <2>2. IsFiniteSet(1 .. Len(nodes)) /\ S \subseteq 1 .. Len(nodes)
    BY <2>1, FS_Interval DEF TracksOf
  <2>. QED
    BY <2>2, FS_Subset, FS_CardinalityType
<1> HIDE DEF f, S
<1>6. R \in SUBSET (0 .. Cardinality(S)) /\ R # {}
  BY <1>4, <1>5 DEF S
<1>7. \A r \in R : 0 .. r - 1 \subseteq R
  BY <1>4
<1>8. w = Cardinality(R)
  BY <1>3 DEF Width
<1>9. \A r : r \in R <=> \E i \in S : f[i] = r
  BY <1>4
<1> HIDE DEF R
<1>10. R = 0 .. w - 1
  BY <1>5, <1>6, <1>7, <1>8, NoneLeftOut
<1>. QED
  BY <1>2, <1>9, <1>10 DEF S

LEMMA PadStep ==
  ASSUME Inv, Pad
  PROVE  Inv'
<1> DEFINE P == UNION {PaddingOf(i) : i \in DOMAIN nodes}
<1>1. /\ NodesTyped /\ Collecting /\ NoDuplicatePtc
      /\ pc = "pad" /\ pc' = "returned" /\ UNCHANGED <<jobs, list>>
  BY CollectingNoDuplicates DEF Pad, Inv
<1>2. PICK L \in Nat : L = Len(nodes) /\ DOMAIN nodes = 1 .. L
  BY <1>1 DEF NodesTyped
<1>3. IsFiniteSet(P)
  BY <1>1, PaddingFinite
<1>4. PICK K \in Nat : K = Cardinality(P)
  BY <1>3, FS_CardinalityType
<1>5. PICK q \in [1 .. K -> P] :
        /\ q = SetToSeq(P)
        /\ \A a, b \in 1 .. K : q[a] = q[b] => a = b
        /\ \A n \in P : \E a \in 1 .. K : q[a] = n
  <2> HIDE DEF P
  <2>. QED
    BY <1>4, <1>3, SetListed
<1>6. \A n \in P : \E i \in DOMAIN nodes : n \in PaddingOf(i)
  OBVIOUS
<1>7. \A i \in DOMAIN nodes : PaddingOf(i) \subseteq P
  OBVIOUS
<1>8. nodes' = nodes \o q
  BY <1>5 DEF Pad
<1> HIDE DEF P
<1>9. \A i \in 1 .. L : nodes[i] \in Node
  BY <1>1, <1>2, NodeFields
<1>10. ASSUME NEW n \in P
      PROVE  /\ n \in Node /\ n.low \in Along(n.chan[1]) /\ n.high \in Along(n.chan[1]) /\ n.low <= n.high
             /\ n.low \in FillLow(n.chan[1]) .. FillHigh(n.chan[1])
             /\ n.high \in FillLow(n.chan[1]) .. FillHigh(n.chan[1])
             /\ \E i \in TracksOf(n.chan) : nodes[i].ptc = n.ptc
             /\ \A j \in TracksOf(n.chan) : nodes[j].ptc = n.ptc => ~Meet(nodes[j], n) /\ ~Meet(n, nodes[j])
             /\ \A m \in P : m.chan = n.chan /\ m.ptc = n.ptc /\ Meet(n, m) => n = m
  <2>1. PICK i \in DOMAIN nodes : n \in PaddingOf(i)
    BY <1>6
  <2>2. n.chan = nodes[i].chan /\ n.ptc = nodes[i].ptc
    BY <1>1, <2>1, PaddingIsApart
  <2>3. i \in TracksOf(n.chan)
    BY <2>2 DEF TracksOf
  <2>4. \A m \in P : m.chan = n.chan /\ m.ptc = n.ptc /\ Meet(n, m) => n = m
    <3> SUFFICES ASSUME NEW m \in P, m.chan = n.chan, m.ptc = n.ptc, Meet(n, m) PROVE n = m
      OBVIOUS
    <3>1. PICK j \in DOMAIN nodes : m \in PaddingOf(j)
      BY <1>6
    <3>. QED
      BY <1>1, <2>1, <3>1, PaddingIsApart
  <2>. QED
    BY <1>1, <2>1, <2>2, <2>3, <2>4, PaddingIsApart
<1>11. /\ nodes' \in Seq(Node) /\ DOMAIN nodes' = 1 .. L + K
       /\ \A i \in 1 .. L : nodes'[i] = nodes[i]
       /\ \A i \in L + 1 .. L + K : i - L \in 1 .. K /\ nodes'[i] = q[i - L] /\ nodes'[i] \in P
  <2>1. q \in Seq(Node) /\ Len(q) = K
    <3>1. \A a \in 1 .. K : q[a] \in Node
      BY <1>10
    <3>2. q \in [1 .. K -> Node]
      BY <3>1
    <3>. QED
      BY <3>2
  <2>2. nodes \in Seq(Node) /\ Len(nodes) = L
    BY <1>1, <1>2 DEF NodesTyped
  <2>3. nodes' \in Seq(Node) /\ Len(nodes') = L + K
    BY <1>8, <2>1, <2>2, ConcatProperties
  <2>4. \A i \in 1 .. L + K : nodes'[i] = IF i <= L THEN nodes[i] ELSE q[i - L]
    BY <1>8, <2>1, <2>2, ConcatProperties
  <2>5. \A i \in L + 1 .. L + K : i - L \in 1 .. K /\ i \in 1 .. L + K /\ ~(i <= L)
    OBVIOUS
  <2>6. \A i \in 1 .. L : i \in 1 .. L + K /\ i <= L
    OBVIOUS
  <2>7. DOMAIN nodes' = 1 .. L + K
    BY <2>3
  <2>. QED
    BY <2>3, <2>4, <2>5, <2>6, <2>7
<1>12. \A i \in 1 .. L + K : i \in 1 .. L \/ i \in L + 1 .. L + K
  OBVIOUS
<1>13. NodesTyped'
  <2> SUFFICES ASSUME NEW i \in 1 .. L + K
               PROVE  /\ nodes'[i].low \in Along(nodes'[i].chan[1])
                      /\ nodes'[i].high \in Along(nodes'[i].chan[1])
                      /\ nodes'[i].low <= nodes'[i].high
    BY <1>11 DEF NodesTyped
  <2>1. CASE i \in 1 .. L
    BY <1>1, <1>2, <1>11, <2>1 DEF NodesTyped
  <2>2. CASE i \in L + 1 .. L + K
    BY <1>10, <1>11, <2>2
  <2>. QED
    BY <1>12, <2>1, <2>2
<1>14. NoDuplicatePtc'
  <2> SUFFICES ASSUME NEW i \in 1 .. L + K, NEW j \in 1 .. L + K, i # j,
                      nodes'[i].chan = nodes'[j].chan, nodes'[i].ptc = nodes'[j].ptc,
                      nodes'[i].ptc # NoPtc
               PROVE  ~Meet(nodes'[i], nodes'[j])
    BY <1>11 DEF NoDuplicatePtc, Meet
  <2>1. CASE i \in 1 .. L /\ j \in 1 .. L
    BY <1>1, <1>2, <1>11, <2>1 DEF NoDuplicatePtc
  <2>2. CASE i \in 1 .. L /\ j \in L + 1 .. L + K
    <3>1. nodes'[j] \in P /\ i \in TracksOf(nodes'[j].chan) /\ nodes'[i] = nodes[i]
      BY <1>2, <1>11, <2>2 DEF TracksOf
    <3>. QED
      BY <1>10, <3>1
  <2>3. CASE i \in L + 1 .. L + K /\ j \in 1 .. L
    <3>1. nodes'[i] \in P /\ j \in TracksOf(nodes'[i].chan) /\ nodes'[j] = nodes[j]
      BY <1>2, <1>11, <2>3 DEF TracksOf
    <3>. QED
      BY <1>10, <3>1
  <2>4. CASE i \in L + 1 .. L + K /\ j \in L + 1 .. L + K
    <3>1. i - L # j - L
      OBVIOUS
    <3>2. nodes'[i] # nodes'[j]
      BY <1>5, <1>11, <2>4, <3>1
    <3>. QED
      BY <1>10, <1>11, <2>4, <3>2
  <2>. QED
    BY <1>12, <2>1, <2>2, <2>3, <2>4
<1>15. ASSUME NEW c \in Chan, NEW i \in TracksOf(c)'
       PROVE  \E j \in TracksOf(c) : nodes[j].ptc = nodes'[i].ptc
  <2>1. i \in 1 .. L + K /\ nodes'[i].chan = c
    BY <1>11 DEF TracksOf
  <2>2. CASE i \in 1 .. L
    <3>1. i \in TracksOf(c) /\ nodes[i] = nodes'[i]
      BY <1>2, <1>11, <2>1, <2>2 DEF TracksOf
    <3>. QED
      BY <3>1
  <2>3. CASE i \in L + 1 .. L + K
    BY <1>10, <1>11, <2>1, <2>3
  <2>. QED
    BY <1>12, <2>1, <2>2, <2>3
<1>16. ASSUME NEW d \in Dirs, DOMAIN nodes # {}
       PROVE  /\ FillLow(d) <= FillLow(d)' /\ FillHigh(d)' <= FillHigh(d)
              /\ FillLow(d)' \in Nat \ {0} /\ FillLow(d) \in Nat \ {0}
              /\ FillHigh(d)' \in Along(d) /\ FillHigh(d) \in Along(d)
  <2>1. Reached(d) \subseteq Along(d) /\ Reached(d) # {}
    BY <1>1, <1>16, ReachedBounds
  <2>2. PICK N \in Nat : Along(d) = 0 .. N
    BY BoundsAssumption DEF Along
  <2>3. /\ FillLow(d) \in Nat \ {0}
        /\ \A y \in Reached(d) : IF y = 0 THEN FillLow(d) = 1 ELSE FillLow(d) <= y
        /\ FillHigh(d) \in Reached(d)
        /\ \A y \in Reached(d) : y <= FillHigh(d)
    BY <2>1, <2>2, FillBounds, FillIsBounds
  <2>4. \A n : n \in Range(nodes)' => n \in Range(nodes) \/ n \in P
    <3>1. \A n : n \in Range(nodes)' => \E i \in 1 .. L + K : n = nodes'[i]
      BY <1>11 DEF Range
    <3>2. \A i \in 1 .. L : nodes'[i] \in Range(nodes)
      BY <1>2, <1>11 DEF Range
    <3>. QED
      BY <1>11, <1>12, <3>1, <3>2
  <2>5. \A n \in Range(nodes) : n \in Range(nodes)'
    <3>1. \A n \in Range(nodes) : \E i \in 1 .. L : n = nodes'[i]
      BY <1>2, <1>11 DEF Range
    <3>2. \A i \in 1 .. L : i \in 1 .. L + K
      OBVIOUS
    <3>. QED
      BY <1>11, <3>1, <3>2 DEF Range
  <2>6. \A y : y \in Reached(d)' => y \in Reached(d) \/ y \in FillLow(d) .. FillHigh(d)
    <3> SUFFICES ASSUME NEW n \in Range(nodes)',
                        NEW y \in IF n.chan[1] = d THEN {n.low, n.high} ELSE {n.chan[2]}
                 PROVE  y \in Reached(d) \/ y \in FillLow(d) .. FillHigh(d)
      BY DEF Reached
    <3>1. CASE n \in Range(nodes)
      BY <3>1 DEF Reached
    <3>2. CASE n \in P /\ n.chan[1] = d
      BY <1>10, <3>2
    <3>3. CASE n \in P /\ n.chan[1] # d
      <4>1. PICK j \in TracksOf(n.chan) : TRUE
        BY <1>10, <3>3
      <4>2. nodes[j] \in Range(nodes) /\ nodes[j].chan = n.chan
        BY DEF TracksOf, Range
      <4>3. y \in IF nodes[j].chan[1] = d THEN {nodes[j].low, nodes[j].high} ELSE {nodes[j].chan[2]}
        BY <3>3, <4>2
      <4>. QED
        BY <4>2, <4>3 DEF Reached
    <3>. QED
      BY <2>4, <3>1, <3>2, <3>3
  <2>7. \A y \in Reached(d) : y \in Reached(d)'
    <3>1. \A n \in Range(nodes)' :
             (IF n.chan[1] = d THEN {n.low, n.high} ELSE {n.chan[2]}) \subseteq Reached(d)'
      BY DEF Reached
    <3>2. ASSUME NEW y \in Reached(d) PROVE y \in Reached(d)'
      <4>1. PICK n \in Range(nodes) : y \in IF n.chan[1] = d THEN {n.low, n.high} ELSE {n.chan[2]}
        BY <3>2 DEF Reached
      <4>. QED
        BY <2>5, <3>1, <4>1
    <3>. QED
      BY <3>2
  <2>8. \A y \in 0 .. N : y \in Nat
    OBVIOUS
  <2>9. Reached(d)' \in SUBSET (0 .. N) /\ Reached(d)' # {}
    BY <2>1, <2>2, <2>3, <2>6, <2>7, <2>8
  <2>10. /\ FillLow(d)' \in Nat \ {0}
         /\ (0 \in Reached(d)' /\ FillLow(d)' = 1) \/ FillLow(d)' \in Reached(d)'
         /\ \A y \in Reached(d)' : IF y = 0 THEN FillLow(d)' = 1 ELSE FillLow(d)' <= y
         /\ FillHigh(d)' \in Reached(d)'
    <3>1. FillLow(d)' = Floor(Reached(d)') /\ FillHigh(d)' = Highest(Reached(d)')
      BY DEF FillLow, FillHigh, Floor, Lowest, Highest
    <3>2. PICK R \in SUBSET (0 .. N) : R = Reached(d)' /\ R # {}
      BY <2>9
    <3>. QED
      BY <3>1, <3>2, FillBounds
  <2>11. FillHigh(d)' <= FillHigh(d)
    BY <2>3, <2>6, <2>10
  <2>12. FillLow(d) <= FillLow(d)'
    <3> SUFFICES ASSUME NEW y, y = FillLow(d)', y # FillLow(d) PROVE FillLow(d) <= y
      BY <2>3
    <3>1. CASE y \in Reached(d) /\ y # 0
      BY <2>3, <3>1
    <3>2. CASE y \in FillLow(d) .. FillHigh(d)
      BY <3>2
    <3>3. CASE 0 \in Reached(d)' /\ y = 1
      <4>1. 0 \in Reached(d)
        BY <2>3, <2>6, <3>3
      <4>. QED
        BY <2>3, <3>3, <4>1
    <3>. QED
      BY <2>6, <2>10, <3>1, <3>2, <3>3
  <2>. QED
    BY <2>1, <2>2, <2>3, <2>9, <2>10, <2>11, <2>12
<1>17. \A c \in Chan : TracksOf(c) \subseteq TracksOf(c)'
  <2>1. \A i \in 1 .. L : i \in 1 .. L + K
    OBVIOUS
  <2>. QED
    BY <1>2, <1>11, <2>1 DEF TracksOf
<1>18. ASSUME NEW c \in Chan, TracksOf(c)' # {}, NEW w, w = list[c[1]][c[2] + 1]
       PROVE  /\ \A i \in TracksOf(c)' : nodes'[i].ptc \in 0 .. w - 1
              /\ \A p \in 0 .. w - 1 : \A x \in FillLow(c[1])' .. FillHigh(c[1])' :
                   \E i \in TracksOf(c)' :
                     nodes'[i].ptc = p /\ x \in nodes'[i].low .. nodes'[i].high
  <2>1. TracksOf(c) # {}
    BY <1>15, <1>18
  <2>2. c[1] \in Dirs /\ DOMAIN nodes # {}
    BY <2>1, ChannelTypes DEF TracksOf
  <2>3. /\ \A i \in TracksOf(c) : nodes[i].ptc \in 0 .. w - 1
        /\ \A p \in 0 .. w - 1 : \E i \in TracksOf(c) : nodes[i].ptc = p
    BY <1>1, <1>18, <2>1, NumbersTaken
  <2>4. \A i \in TracksOf(c)' : nodes'[i].ptc \in 0 .. w - 1
    BY <1>15, <2>3
  <2>5. ASSUME NEW p \in 0 .. w - 1, NEW x \in FillLow(c[1])' .. FillHigh(c[1])'
        PROVE  \E i \in TracksOf(c)' : nodes'[i].ptc = p /\ x \in nodes'[i].low .. nodes'[i].high
    <3>1. CASE \E i \in TracksOf(c) : nodes[i].ptc = p /\ x \in nodes[i].low .. nodes[i].high
      <4>1. PICK i \in TracksOf(c) : nodes[i].ptc = p /\ x \in nodes[i].low .. nodes[i].high
        BY <3>1
      <4>2. i \in TracksOf(c)' /\ nodes'[i] = nodes[i]
        BY <1>2, <1>11, <1>17 DEF TracksOf
      <4>. QED
        BY <4>1, <4>2
    <3>2. CASE \A i \in TracksOf(c) : nodes[i].ptc = p => x \notin nodes[i].low .. nodes[i].high
      <4>1. PICK lo \in Nat \ {0}, hi \in Along(c[1]) : lo = FillLow(c[1]) /\ hi = FillHigh(c[1])
        BY <1>16, <2>2
      <4>2. hi \in Nat
        BY BoundsAssumption DEF Along
      <4>3. x \in lo .. hi
        <5>1. PICK l \in Nat, h \in Along(c[1]) :
                l = FillLow(c[1])' /\ h = FillHigh(c[1])' /\ lo <= l /\ h <= hi
          BY <1>16, <2>2, <4>1
        <5>2. h \in Nat
          BY BoundsAssumption DEF Along
        <5>. QED
          BY <4>1, <4>2, <5>1, <5>2
      <4>4. PICK g \in Gaps(c, p, lo, hi) : x \in g.low .. g.high
        BY <3>2, <4>3, GapsCover
      <4>5. PICK i \in TracksOf(c) : nodes[i].ptc = p
        BY <2>3
      <4>6. i \in DOMAIN nodes /\ nodes[i].chan = c
        BY DEF TracksOf
      <4>7. PICK n : n = Track(c, g, p, 0)
        OBVIOUS
      <4>8. n \in P
        <5>1. n \in PaddingOf(i)
          BY <4>1, <4>4, <4>5, <4>6, <4>7 DEF PaddingOf
        <5>. QED
          BY <1>7, <4>6, <5>1
      <4>9. PICK k \in 1 .. K : q[k] = n
        BY <1>5, <4>8
      <4>10. L + k \in L + 1 .. L + K /\ L + k \in 1 .. L + K /\ (L + k) - L = k
        OBVIOUS
      <4>11. nodes'[L + k] = n
        BY <1>11, <4>9, <4>10
      <4>12. n.chan = c /\ n.ptc = p /\ n.low = g.low /\ n.high = g.high
        BY <4>7 DEF Track
      <4>13. L + k \in TracksOf(c)'
        BY <1>11, <4>10, <4>11, <4>12 DEF TracksOf
      <4>. QED
        BY <4>4, <4>11, <4>12, <4>13
    <3>. QED
      BY <3>1, <3>2
  <2>. QED
    BY <2>4, <2>5
<1>19. ChannelsAreFull'
  BY <1>1, <1>18 DEF ChannelsAreFull
<1>. QED
  BY <1>1, <1>13, <1>14, <1>19 DEF Inv

LEMMA NextInv == Inv /\ [Next]_vars => Inv'
<1> SUFFICES ASSUME Inv, [Next]_vars PROVE Inv'
  OBVIOUS
<1>1. CASE Submit
  BY <1>1, SubmitStep
<1>2. ASSUME NEW c \in Chan, ProcessTrack(c) PROVE Inv'
  BY <1>2, ProcessTrackStep
<1>3. ASSUME NEW d \in Dirs, Raise(d) PROVE Inv'
  BY <1>3, RaiseStep
<1>4. ASSUME NEW d \in Dirs, Collect(d) PROVE Inv'
  BY <1>4, CollectStep
<1>5. ASSUME NEW d \in Dirs, EndLoop(d) PROVE Inv'
  BY <1>5, EndLoopStep
<1>6. CASE Pad
  BY <1>6, PadStep
<1>7. CASE UNCHANGED vars
  <2>1. UNCHANGED <<nodes, pc, jobs, list>>
    BY <1>7 DEF vars
  <2>2. NodesTyped'
    BY <2>1 DEF Inv, NodesTyped
  <2>3. ASSUME pc = "returned" PROVE NoDuplicatePtc' /\ ChannelsAreFull'
    <3>1. NoDuplicatePtc /\ ChannelsAreFull
      BY <2>3 DEF Inv
    <3>2. NoDuplicatePtc'
      BY <2>1, <3>1 DEF NoDuplicatePtc, Meet
    <3>. QED
      BY <2>1, <3>1, <3>2, SameFull
  <2>4. ASSUME pc # "returned" PROVE Collecting'
    <3>1. Collecting /\ (\A c : Packings(TracksOf(c))' = Packings(TracksOf(c)))
          /\ (\A c : TracksOf(c)' = TracksOf(c)) /\ (\A d : Used(d)' = Used(d))
      BY <2>1, <2>4, SamePlaces DEF Inv
    <3>2. \A c : Collected(c)' = Collected(c)
      BY <2>1 DEF Collected
    <3>3. JobsArePackings' /\ PtcsAreCollected' /\ WidthsAreCollected'
      BY <2>1, <3>1, <3>2 DEF Collecting, JobsArePackings, PtcsAreCollected, WidthsAreCollected
    <3>. QED
      BY <2>1, <3>1, <3>2, <3>3 DEF Collecting
  <2>. QED
    BY <2>1, <2>2, <2>3, <2>4 DEF Inv
<1>. QED
  BY <1>1, <1>2, <1>3, <1>4, <1>5, <1>6, <1>7 DEF Next, Dirs
-----------------------------------------------------------------------------
THEOREM Invariance == Spec => []Inv
<1>1. Init => Inv
  BY InitInv
<1>2. Inv /\ [Next]_vars => Inv'
  BY NextInv
<1>. QED
  BY <1>1, <1>2, PTL DEF Spec

(* However the jobs of the pool are ordered, no two nodes of a channel that *)
(* share a coordinate share a ptc, neither while create_channels collects  *)
(* the packings nor with the padding it adds.                              *)
THEOREM PtcsAreNeverShared == Spec => []NoDuplicatePtc
<1>1. Inv => NoDuplicatePtc
  BY CollectingNoDuplicates DEF Inv
<1>. QED
  BY <1>1, Invariance, PTL

(* When create_channels returns, every ptc below the width of a used       *)
(* channel has a node over every coordinate of the padded range, and no    *)
(* node has a ptc at or above the width: the widths that the writer puts   *)
(* into x_list and y_list are those of the tracks it writes.               *)
THEOREM ReturnedChannelsAreFull == Spec => []ChannelsAreFull
<1>1. Inv => ChannelsAreFull
  BY DEF Inv, ChannelsAreFull
<1>. QED
  BY <1>1, Invariance, PTL

-----------------------------------------------------------------------------
(* A worker packs the tracks of a channel: the answer of ChannelGraph is that *)
(* of ChannelPack                                                            *)

(* What process_track is given: the tracks of the channel, by their node.     *)
PacksTheChannel(c) ==
  /\ nodes \in Seq(Node)
  /\ Keys = TracksOf(c)
  /\ \A i \in Keys : Low(i) = nodes[i].low /\ High(i) = nodes[i].high

(* There are as many trees as tracks at most, as each tree has one.           *)
LEMMA TreesAreFew ==
  ASSUME PackInv, IsFiniteSet(Keys)
  PROVE  Len(trees) \in 0 .. Cardinality(Keys)
<1> DEFINE first == [i \in 1 .. Len(trees) |-> CHOOSE k \in trees[i] : TRUE]
<1>1. Len(trees) \in Nat /\ DOMAIN trees = 1 .. Len(trees)
  BY DEF PackInv, PackTypeOK
<1>2. \A i \in 1 .. Len(trees) : first[i] \in trees[i] /\ first[i] \in Keys
  BY <1>1 DEF PackInv, PackTypeOK, NoTreeIsEmpty
<1>3. first \in Injection(1 .. Len(trees), Keys)
  <2>1. first \in [1 .. Len(trees) -> Keys]
    BY <1>2
  <2>2. ASSUME NEW i \in 1 .. Len(trees), NEW j \in 1 .. Len(trees), first[i] = first[j] PROVE i = j
    <3>1. first[i] \in trees[i] \cap trees[j]
      BY <1>2, <2>2
    <3>. QED
      BY <1>1, <3>1 DEF PackInv, EveryTrackInOnePlace
  <2> HIDE DEF first
  <2>. QED
    BY <2>1, <2>2 DEF Injection, IsInjective
<1> HIDE DEF first
<1>4. Cardinality(1 .. Len(trees)) <= Cardinality(Keys)
  BY <1>3, FS_Injection
<1>5. Cardinality(1 .. Len(trees)) = Len(trees)
  <2>1. 1 \in Int /\ Len(trees) \in Int /\ Len(trees) - 1 + 1 = Len(trees)
    BY <1>1
  <2>2. CASE Len(trees) = 0
    BY <2>2, FS_EmptySet
  <2>3. CASE Len(trees) # 0
    BY <1>1, <2>1, <2>3, FS_Interval
  <2>. QED
    BY <2>2, <2>3
<1>6. Cardinality(Keys) \in Nat
  BY FS_CardinalityType
<1>. QED
  BY <1>1, <1>4, <1>5, <1>6

(* When process_track has packed all the tracks of a channel, the numbers it  *)
(* gave are one of the answers that create_channels is shown to work with:    *)
(* nothing that ChannelGraph assumes about its workers is more than what      *)
(* pack_tracks does.                                                          *)
THEOREM PackingsAreAnswers ==
  ASSUME NEW c \in Chan
  PROVE  PackSpec => [](Packed /\ PacksTheChannel(c) => ptc \in Packings(TracksOf(c)))
<1>1. ASSUME PackInv, Packed, PacksTheChannel(c) PROVE ptc \in Packings(TracksOf(c))
  <2> DEFINE S == TracksOf(c)
  <2>1. IsFiniteSet(Keys) /\ S = Keys
    <3>1. IsFiniteSet(1 .. Len(nodes)) /\ S \subseteq 1 .. Len(nodes)
      BY <1>1, FS_Interval DEF PacksTheChannel, TracksOf
    <3>. QED
      BY <1>1, <3>1, FS_Subset DEF PacksTheChannel
  <2>2. Cardinality(S) \in Nat /\ Len(trees) \in 0 .. Cardinality(S)
    BY <1>1, <2>1, TreesAreFew, FS_CardinalityType
  <2>3. DOMAIN trees = 1 .. Len(trees)
    BY <1>1 DEF PackInv, PackTypeOK
  <2>4. \A k \in Keys : \E i \in DOMAIN trees : k \in trees[i]
    BY <1>1 DEF PackInv, EveryTrackInOnePlace, Packed
  <2>5. \A i \in DOMAIN trees : \A k \in trees[i] : k \in Keys /\ ptc[k] = i - 1
    <3>1. trees \in Seq(SUBSET Keys)
      BY <1>1 DEF PackInv, PackTypeOK
    <3>2. \A i \in DOMAIN trees : trees[i] \subseteq Keys
      BY <3>1
    <3>. QED
      BY <1>1, <3>2, PtcOfTree
  <2>6. ptc \in [S -> 0 .. Cardinality(S) - 1]
    <3>1. ASSUME NEW k \in Keys PROVE ptc[k] \in 0 .. Cardinality(S) - 1
      <4>1. PICK i \in DOMAIN trees : k \in trees[i]
        BY <2>4
      <4>2. ptc[k] = i - 1 /\ i \in 1 .. Len(trees)
        BY <2>3, <2>5, <4>1
      <4> HIDE DEF S
      <4>. QED
        BY <2>2, <4>2
    <3>2. ptc = [k \in Keys |-> ptc[k]]
      BY DEF ptc
    <3> HIDE DEF S
    <3>. QED
      BY <2>1, <3>1, <3>2
  <2>7. ASSUME NEW i \in S, NEW j \in S, i # j, ptc[i] = ptc[j]
        PROVE  ~Meet(nodes[i], nodes[j])
    <3>1. PICK m \in DOMAIN trees : i \in trees[m]
      BY <2>1, <2>4
    <3>2. PICK n \in DOMAIN trees : j \in trees[n]
      BY <2>1, <2>4
    <3>3. m = n
      <4>1. m - 1 = n - 1 /\ m \in Int /\ n \in Int
        BY <2>3, <2>5, <2>7, <3>1, <3>2
      <4>. QED
        BY <4>1
    <3>4. ~Overlap(tracks[i], tracks[j])
      BY <1>1, <2>7, <3>1, <3>2, <3>3 DEF PackInv, TracksOfATreeAreDisjoint
    <3>. QED
      BY <1>1, <2>1, <3>4 DEF Overlap, Meet, PacksTheChannel, Low, High
  <2>8. ASSUME NEW i \in S, NEW p \in 0 .. ptc[i] - 1
        PROVE  \E j \in S : ptc[j] = p /\ nodes[j].low <= nodes[i].low /\ nodes[i].low <= nodes[j].high
    <3>1. PICK m \in DOMAIN trees : i \in trees[m]
      BY <2>1, <2>4
    <3>2. p + 1 \in DOMAIN trees /\ p + 1 < m /\ p \in Int
      BY <2>3, <2>5, <3>1
    <3>3. Covers(trees[p + 1], Low(i))
      BY <1>1, <3>1, <3>2 DEF PackInv, TreesAreNeeded
    <3>4. PICK j \in trees[p + 1] : Low(j) <= Low(i) /\ Low(i) <= High(j)
      BY <3>3 DEF Covers
    <3>5. j \in Keys /\ ptc[j] = p
      BY <2>5, <3>2, <3>4
    <3>. QED
      BY <1>1, <2>1, <3>4, <3>5 DEF PacksTheChannel
  <2>. QED
    BY <2>6, <2>7, <2>8 DEF Packings
<1>2. PackInv => (Packed /\ PacksTheChannel(c) => ptc \in Packings(TracksOf(c)))
  BY <1>1
<1>. QED
  BY <1>2, Inductive, PTL
=============================================================================
