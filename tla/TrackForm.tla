------------------------------ MODULE TrackForm ------------------------------
(***************************************************************************)
(* create_track of prjxray_form_channels.py: the places a routing node has *)
(* to reach become a few straight tracks.  decompose_points_into_tracks of *)
(* utils/lib/rr_graph/points.py starts with every column and row beside a  *)
(* point and takes away what it can; make_tracks of tracks.py cuts what is *)
(* left to length and joins it.  One step is one round of one of the       *)
(* loops, with a call of try_remove_track or two.                          *)
(*                                                                         *)
(* A point is a pair of x and y.  Column x is <<"x", x>> and becomes a     *)
(* track of direction Y; row y is <<"y", y>>.                              *)
(***************************************************************************)
EXTENDS Integers, FiniteSets

CONSTANTS
  XMax, YMax   \* the last coordinates of the grid

ASSUME GridAssumption == XMax \in Nat \ {0} /\ YMax \in Nat \ {0}

VARIABLES
  points,   \* the points of the call
  tracks,   \* x_tracks and y_tracks
  phase,    \* the loop, "idle" between two calls, "formed" at the return
  left      \* of the for loops at the end: the tracks still to be tried

trackvars == <<points, tracks, phase, left>>

(* The corner is asserted to be none.                                      *)
Locs == ((0 .. XMax) \X (0 .. YMax)) \ {<<0, 0>>}

Directions == {"x", "y"}

Other(d) == IF d = "x" THEN "y" ELSE "x"

Of(d) == {t \in tracks : t[1] = d}

(* The points of a track: those it runs beside.  A column reaches nothing  *)
(* in row 0, and a row nothing in column 0.                                *)
On(t) ==
  IF t[1] = "x"
  THEN {p \in points : p[2] > 0 /\ t[2] \in {p[1] - 1, p[1]}}
  ELSE {p \in points : p[1] > 0 /\ t[2] \in {p[2] - 1, p[2]}}

(* The coordinates from one below the least of S to the largest.           *)
Span(S) == {k \in 0 .. XMax + YMax : \E i, j \in S : i - 1 <= k /\ k <= j}

Begin(ps) ==
  /\ phase = "idle"
  /\ points' = ps
  /\ tracks' = {<<"x", x>> : x \in Span({p[1] : p \in ps})} \union
               {<<"y", y>> : y \in Span({p[2] : p \in ps})}
  /\ phase' = "both" /\ left' = {}

(* Mutant of Removable: the last track of a point may go.                  *)
Removable_Last(t) ==
  /\ \A p \in On(t) : Cardinality({s \in tracks : p \in On(s)}) > 0
  /\ Cardinality(Of(t[1])) > 1 \/ Cardinality(Of(Other(t[1]))) <= 1

(* try_remove_track: no point loses its last track, and of several tracks  *)
(* that run alike not the only one that joins them.                        *)
Removable(t) ==
  /\ \A p \in On(t) : Cardinality({s \in tracks : p \in On(s)}) > 1
  /\ Cardinality(Of(t[1])) > 1 \/ Cardinality(Of(Other(t[1]))) <= 1

(* The first of the tracks ts in the order of their number of points.      *)
IsFirst(ts, t) ==
  /\ t \in ts
  /\ \A s \in ts : \/ Cardinality(On(t)) < Cardinality(On(s))
                   \/ Cardinality(On(t)) = Cardinality(On(s)) /\ t[2] <= s[2]

(* The first loop, while there are columns and rows.                       *)
RemoveSmaller ==
  /\ phase = "both" /\ Of("x") # {} /\ Of("y") # {}
  /\ \E x \in Of("x"), y \in Of("y") :
       LET smaller == IF Cardinality(On(x)) < Cardinality(On(y)) THEN x ELSE y
           larger == IF smaller = x THEN y ELSE x
       IN  /\ IsFirst(Of("x"), x) /\ IsFirst(Of("y"), y)
           /\ IF Removable(smaller) THEN tracks' = tracks \ {smaller} /\ UNCHANGED phase
              ELSE IF Removable(larger) THEN tracks' = tracks \ {larger} /\ UNCHANGED phase
              ELSE phase' = "x" /\ UNCHANGED tracks
  /\ UNCHANGED <<points, left>>

EndBoth ==
  /\ phase = "both" /\ (Of("x") = {} \/ Of("y") = {})
  /\ phase' = "x"
  /\ UNCHANGED <<points, tracks, left>>

(* The loops over each dimension, up to the first that has to stay.        *)
RemoveSmallest(d) ==
  /\ phase = d
  /\ \E t \in Of(d) :
       /\ IsFirst(Of(d), t) /\ Removable(t)
       /\ tracks' = tracks \ {t}
  /\ UNCHANGED <<points, phase, left>>

EndDimension(d) ==
  /\ phase = d
  /\ \A t \in Of(d) : ~(IsFirst(Of(d), t) /\ Removable(t))
  /\ IF d = "x"
     THEN phase' = "y" /\ UNCHANGED left
     ELSE phase' = "rest x" /\ left' = Of("x")
  /\ UNCHANGED <<points, tracks>>

Rest(d) == IF d = "x" THEN "rest x" ELSE "rest y"

(* The for loops over all that are left.  The loop around them is left     *)
(* after one round.                                                        *)
TryAny(d) ==
  /\ phase = Rest(d)
  /\ \E t \in left :
       /\ IsFirst(left, t)
       /\ left' = left \ {t}
       /\ tracks' = IF Removable(t) THEN tracks \ {t} ELSE tracks
  /\ UNCHANGED <<points, phase>>

EndAny(d) ==
  /\ phase = Rest(d) /\ left = {}
  /\ IF d = "x"
     THEN phase' = "rest y" /\ left' = Of("y")
     ELSE phase' = "formed" /\ UNCHANGED left
  /\ UNCHANGED <<points, tracks>>

Form ==
  \/ RemoveSmaller \/ EndBoth
  \/ \E d \in Directions : RemoveSmallest(d) \/ EndDimension(d) \/ TryAny(d) \/ EndAny(d)

Return == phase = "formed" /\ phase' = "idle" /\ UNCHANGED <<points, tracks, left>>

(* One call of create_track after the other.                               *)
TrackInit == points = {} /\ tracks = {} /\ phase = "idle" /\ left = {}

TrackNext == (\E ps \in (SUBSET Locs) \ {{}} : Begin(ps)) \/ Form \/ Return

TrackSpec == TrackInit /\ [][TrackNext]_trackvars
-----------------------------------------------------------------------------
(* The result: make_tracks and Tracks.                                     *)

(* is_wire_adjacent_to_track for the track made of t and the points ps: it *)
(* is as long as the points need.                                          *)
Adjacent(ps, t, p) ==
  LET across == IF t[1] = "x" THEN 1 ELSE 2
      along == 3 - across
  IN  /\ t[2] \in {p[across] - 1, p[across]}
      /\ p[along] >= 1
      /\ \E q \in ps : q[along] <= p[along]
      /\ \E q \in ps : p[along] <= q[along]

Least(ts, t) == t \in ts /\ \A s \in ts : t[2] <= s[2]

(* Mutant of Joined: the first column is joined to the first row only.     *)
Joined_Neighbours(s, t) ==
  s[1] = "y" /\ t[1] = "x" /\ Least(Of("x"), t) /\ Least(Of("y"), s)

(* The connections: all rows to the first column, all columns to the first *)
(* row.                                                                    *)
Joined(s, t) ==
  s[1] = "y" /\ t[1] = "x" /\ (Least(Of("x"), t) \/ Least(Of("y"), s))

(* Both coordinates of a corner of two tracks are beside both.             *)
Touch(s, t) ==
  /\ \E p, q \in points : p[1] - 1 <= t[2] /\ t[2] <= q[1]
  /\ \E p, q \in points : p[2] - 1 <= s[2] /\ s[2] <= q[2]

(* insert_tracks asserts that every place of the node has a track beside   *)
(* it; the sanity check of the decomposition and that of make_tracks are   *)
(* weaker.  It holds at every moment of the decomposition.                 *)
PointsMeetATrack ==
  phase # "idle" => \A p \in points : \E t \in tracks : Adjacent(points, t, p)

(* The tracks of a node are one wire: make_tracks's assertion that there   *)
(* is a row where there are two columns holds, its connections join all    *)
(* tracks (the docstring of verify_tracks), and joined tracks touch.       *)
TracksAreOneWire ==
  phase = "formed" =>
    LET Joins(s, t) == Joined(s, t) \/ Joined(t, s)
    IN  /\ \A s, t \in tracks : s # t /\ ~Joins(s, t) =>
             \E u, v \in tracks : /\ Joins(s, u) /\ Joins(v, t)
                                  /\ u = v \/ Joins(u, v)
        /\ \A s, t \in tracks : Joined(s, t) => Touch(s, t)
=============================================================================
