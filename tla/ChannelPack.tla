----------------------------- MODULE ChannelPack -----------------------------
(***************************************************************************)
(* Channel.pack_tracks of utils/lib/rr_graph/channel2.py: the tracks of    *)
(* one routing channel are packed into trees, and the index of its tree is *)
(* the ptc number of a track.  A step is one pop from by_low (the tracks   *)
(* not packed yet, in stacks by starting coordinate, longest on top), or   *)
(* the end of the inner loop.                                              *)
(*                                                                         *)
(* Tracks of equal start and length leave their stack in an order that     *)
(* only depends on the order they were given in, so any of them may be     *)
(* next here.  A tree is the set of its tracks: fill_empty sorts it again, *)
(* and nothing else looks at its order.                                    *)
(***************************************************************************)
EXTENDS Integers, Sequences

CONSTANTS
  Keys,      \* the third member of the track tuples: node ids
  MaxCoord   \* the last grid coordinate along the channel

ASSUME MaxCoordAssumption == MaxCoord \in Nat

VARIABLES
  tracks,      \* self.tracks: (low, high) by key
  by_low,      \* the keys still to be packed
  high,        \* max(by_low) when packing starts
  trees,       \* self.trees; the ptc of trees[i] is i - 1
  track_high   \* end of the track packed last, None between two trees

packVars == <<tracks, by_low, high, trees, track_high>>

None == -1

Coord == 0 .. MaxCoord

Span == [low : Coord, high : Coord]

Low(k) == tracks[k].low

High(k) == tracks[k].high

(* The key that pop(low) returns for the least low of S.                   *)
PopFirst(S, k) ==
  /\ k \in S
  /\ \A j \in S : \/ Low(k) < Low(j)
                  \/ Low(k) = Low(j) /\ High(j) <= High(k)

(* Mutants of Following: the scan starts on the end of the last track, or  *)
(* stops one short of high.                                                *)
Following_Touching == {k \in by_low : Low(k) \in track_high .. high}

Following_Short == {k \in by_low : Low(k) \in track_high + 1 .. high - 1}

(* The unpacked tracks that range(track_high + 1, high + 1) reaches.       *)
Following == {k \in by_low : Low(k) \in track_high + 1 .. high}

PackInit ==
  /\ tracks \in {f \in [Keys -> Span] : \A k \in Keys : f[k].low <= f[k].high}
  /\ by_low = Keys
  /\ high \in Coord
  /\ \A k \in Keys : Low(k) <= high
  /\ Keys # {} => \E k \in Keys : Low(k) = high
  /\ trees = << >>
  /\ track_high = None

(* 3a: the longest of the tracks that start lowest opens a tree.           *)
StartTree ==
  /\ track_high = None
  /\ \E k \in by_low :
       /\ PopFirst(by_low, k)
       /\ by_low' = by_low \ {k}
       /\ trees' = Append(trees, {k})
       /\ track_high' = High(k)
  /\ UNCHANGED <<tracks, high>>

(* 3b: the longest of the tracks that start next after the end of the last *)
(* one joins its tree.                                                     *)
AddTrackToTree ==
  /\ track_high # None
  /\ \E k \in by_low :
       /\ PopFirst(Following, k)
       /\ by_low' = by_low \ {k}
       /\ trees' = [trees EXCEPT ![Len(trees)] = @ \union {k}]
       /\ track_high' = High(k)
  /\ UNCHANGED <<tracks, high>>

(* No track can follow: the inner loop ends.                               *)
EndTree ==
  /\ track_high # None
  /\ Following = {}
  /\ track_high' = None
  /\ UNCHANGED <<tracks, by_low, high, trees>>

PackNext == StartTree \/ AddTrackToTree \/ EndTree

PackSpec == PackInit /\ [][PackNext]_packVars

(* pack_tracks is one sequential loop that nothing can block.              *)
FairPackSpec == PackSpec /\ WF_packVars(PackNext)

Packed == by_low = {} /\ track_high = None

-----------------------------------------------------------------------------
PackTypeOK ==
  /\ tracks \in [Keys -> Span]
  /\ \A k \in Keys : Low(k) <= High(k)
  /\ by_low \in SUBSET Keys
  /\ high \in Coord
  /\ trees \in Seq(SUBSET Keys)
  /\ track_high \in Coord \union {None}

Overlap(a, b) == a.low <= b.high /\ b.low <= a.high

(* Two tracks that share a coordinate never share a tree.  _verify_trees   *)
(* asserts only a[1] <= b[0], which two tracks that touch would pass.      *)
TracksOfATreeAreDisjoint ==
  \A i \in DOMAIN trees : \A j, k \in trees[i] :
    j # k => ~Overlap(tracks[j], tracks[k])

(* Whatever pops have happened, a track is either in exactly one tree or   *)
(* still in by_low: none is dropped with a deleted stack, none is popped   *)
(* twice.                                                                  *)
EveryTrackInOnePlace ==
  /\ \A k \in Keys : k \in by_low \/ \E i \in DOMAIN trees : k \in trees[i]
  /\ \A i \in DOMAIN trees :
       /\ trees[i] \intersect by_low = {}
       /\ \A j \in DOMAIN trees : i # j => trees[i] \intersect trees[j] = {}

(* The tree has a track over coordinate x.                                 *)
Covers(tree, x) == \E k \in tree : Low(k) <= x /\ x <= High(k)

(* A track goes to a new tree only because every earlier tree is occupied  *)
(* where the track starts.                                                 *)
TreesAreNeeded ==
  \A i, j \in DOMAIN trees :
    i < j => \A k \in trees[j] : Covers(trees[i], Low(k))

(* So the channel is exactly as wide as the most crowded coordinate; the   *)
(* module exists because channel.py made channels that were much wider.    *)
WidthIsDensity ==
  Packed /\ Keys # {} =>
    \E k \in Keys : \A i \in DOMAIN trees : Covers(trees[i], Low(k))

(* The tree index is a ptc assignment in the sense of TrackAssignment.     *)
ptc ==
  [k \in Keys |-> IF \E i \in DOMAIN trees : k \in trees[i]
                  THEN (CHOOSE i \in DOMAIN trees : k \in trees[i]) - 1
                  ELSE -1]

Assignment == INSTANCE TrackAssignment

ImplementsAssignment == Assignment!Spec
=============================================================================
