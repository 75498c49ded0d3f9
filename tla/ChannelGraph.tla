---------------------------- MODULE ChannelGraph ----------------------------
(***************************************************************************)
(* Graph.create_channels of utils/lib/rr_graph/graph2.py: the tracks of    *)
(* the routing graph are grouped into channels, every channel is packed by *)
(* a process_track job, the main process collects the results in channel   *)
(* order and writes the ptc numbers into the nodes, and what is left of    *)
(* every channel is filled with padding tracks of capacity 0.              *)
(*                                                                         *)
(* With a pool the jobs of all channels are in flight at once; without one *)
(* a job runs when its result is collected, which is one of the orders the *)
(* pool allows.  A job answers with any packing that ChannelPack allows:   *)
(* this module depends on what is proved there, not on how it is done.     *)
(***************************************************************************)
EXTENDS Integers, Sequences, FiniteSets, SequencesExt

CONSTANTS
  NumTracks,   \* tracks added with add_track before create_channels
  XMax, YMax   \* the last coordinates of the grid

ASSUME BoundsAssumption == NumTracks \in Nat \ {0} /\ XMax \in Nat /\ YMax \in Nat

VARIABLES
  nodes,   \* self.nodes, the tracks only; the id of nodes[i] is i - 1
  pc,      \* "submit", "CHANX", "CHANY", "pad", "returned" or "raised"
  jobs,    \* the channel models: "idle", "in flight", or the packing
  list     \* x_list and y_list, the widths appended so far

vars == <<nodes, pc, jobs, list>>

NoPtc == -1

(* The channels: the y of a CHANX, the x of a CHANY.                       *)
Chan == {<<"CHANX", y>> : y \in 0 .. YMax} \union {<<"CHANY", x>> : x \in 0 .. XMax}

(* The coordinates along a channel.                                        *)
Along(d) == IF d = "CHANX" THEN 0 .. XMax ELSE 0 .. YMax

Interval(d) == {n \in [low : Along(d), high : Along(d)] : n.low <= n.high}

Track(c, n, ptc, capacity) ==
  [chan |-> c, low |-> n.low, high |-> n.high, ptc |-> ptc, capacity |-> capacity]

TracksOf(c) == {i \in DOMAIN nodes : nodes[i].chan = c}

(* The keys of x_tracks or y_tracks.                                       *)
Used(d) == {c[2] : c \in {nodes[i].chan : i \in {j \in DOMAIN nodes : nodes[j].chan[1] = d}}}

Meet(a, b) == a.low <= b.high /\ b.low <= a.high

(* What process_track may return for the tracks S: ChannelPack's           *)
(* TracksOfATreeAreDisjoint, EveryTrackInOnePlace and TreesAreNeeded.      *)
Packings(S) ==
  {f \in [S -> 0 .. Cardinality(S) - 1] :
     /\ \A i, j \in S : i # j /\ f[i] = f[j] => ~Meet(nodes[i], nodes[j])
     /\ \A i \in S : \A p \in 0 .. f[i] - 1 : \E j \in S :
          f[j] = p /\ nodes[j].low <= nodes[i].low /\ nodes[i].low <= nodes[j].high}

(* Mutant of Width: the last ptc instead of the number of trees.           *)
Width_LastPtc(f) == Cardinality({f[i] : i \in DOMAIN f}) - 1

(* The number of trees of a packing.                                       *)
Width(f) == Cardinality({f[i] : i \in DOMAIN f})

Init ==
  /\ nodes \in [1 .. NumTracks ->
                 UNION {{Track(c, n, NoPtc, 1) : n \in Interval(c[1])} : c \in Chan}]
  /\ pc = "submit"
  /\ jobs = [c \in Chan |-> <<"idle">>]
  /\ list = [d \in {"CHANX", "CHANY"} |-> << >>]

(* Mutant of Submit: the jobs of the CHANY channels are forgotten.         *)
Submit_OnlyX ==
  /\ pc = "submit"
  /\ pc' = "CHANX"
  /\ jobs' = [c \in Chan |-> IF TracksOf(c) = {} \/ c[1] = "CHANY" THEN <<"idle">>
                                                                  ELSE <<"in flight">>]
  /\ UNCHANGED <<nodes, list>>

(* pool.apply_async for every channel that has tracks.                     *)
Submit ==
  /\ pc = "submit"
  /\ pc' = "CHANX"
  /\ jobs' = [c \in Chan |-> IF TracksOf(c) = {} THEN <<"idle">> ELSE <<"in flight">>]
  /\ UNCHANGED <<nodes, list>>

(* A worker of the pool finishes.                                          *)
ProcessTrack(c) ==
  /\ jobs[c] = <<"in flight">>
  /\ \E f \in Packings(TracksOf(c)) : jobs' = [jobs EXCEPT ![c] = <<"done", f>>]
  /\ UNCHANGED <<nodes, pc, list>>

(* The loop over range(max(x_tracks) + 1): max of an empty dictionary      *)
(* raises.                                                                 *)
Raise(d) ==
  /\ pc = d
  /\ Used(d) = {}
  /\ pc' = "raised"
  /\ UNCHANGED <<nodes, jobs, list>>

(* The round of the loop for channel Len(list[d]): wait for its job, append *)
(* its width and set_track_ptc its tracks.                                 *)
Collect(d) ==
  LET c == <<d, Len(list[d])>>
  IN  /\ pc = d
      /\ \E k \in Used(d) : c[2] <= k
      /\ IF TracksOf(c) = {}
         THEN /\ list' = [list EXCEPT ![d] = Append(@, 0)]
              /\ UNCHANGED nodes
         ELSE /\ jobs[c][1] = "done"
              /\ list' = [list EXCEPT ![d] = Append(@, Width(jobs[c][2]))]
              /\ nodes' = [i \in DOMAIN nodes |->
                             IF i \in TracksOf(c)
                             THEN [nodes[i] EXCEPT !.ptc = jobs[c][2][i]]
                             ELSE nodes[i]]
      /\ UNCHANGED <<pc, jobs>>

EndLoop(d) ==
  /\ pc = d
  /\ Used(d) # {}
  /\ \A k \in Used(d) : k < Len(list[d])
  /\ pc' = IF d = "CHANX" THEN "CHANY" ELSE "pad"
  /\ UNCHANGED <<nodes, jobs, list>>

(* The coordinates along d that the tracks of either direction reach.      *)
Reached(d) ==
  UNION {IF n.chan[1] = d THEN {n.low, n.high} ELSE {n.chan[2]} : n \in Range(nodes)}

FillLow(d) == LET low == CHOOSE x \in Reached(d) : \A y \in Reached(d) : x <= y
              IN  IF low < 1 THEN 1 ELSE low

FillHigh(d) == CHOOSE x \in Reached(d) : \A y \in Reached(d) : y <= x

(* Mutant of Gaps: a gap starts on the last coordinate of a track.         *)
Gaps_Touching(c, p, lo, hi) ==
  LET Free(x) == /\ x \in lo .. hi
                 /\ \A i \in TracksOf(c) :
                      nodes[i].ptc = p => x \notin nodes[i].low .. nodes[i].high - 1
  IN  {g \in Interval(c[1]) : /\ \A x \in g.low .. g.high : Free(x)
                              /\ ~Free(g.low - 1) /\ ~Free(g.high + 1)}

(* fill_empty: the largest runs of lo .. hi under no track of tree p of c.  *)
Gaps(c, p, lo, hi) ==
  LET Free(x) == /\ x \in lo .. hi
                 /\ \A i \in TracksOf(c) :
                      nodes[i].ptc = p => x \notin nodes[i].low .. nodes[i].high
  IN  {g \in Interval(c[1]) : /\ \A x \in g.low .. g.high : Free(x)
                              /\ ~Free(g.low - 1) /\ ~Free(g.high + 1)}

(* The padding tracks, of capacity 0, of the tree and channel of nodes[i]. *)
PaddingOf(i) ==
  LET c == nodes[i].chan
      p == nodes[i].ptc
  IN  {Track(c, g, p, 0) : g \in Gaps(c, p, FillLow(c[1]), FillHigh(c[1]))}

(* Those of every tree.                                                    *)
Pad ==
  /\ pc = "pad"
  /\ nodes' = nodes \o SetToSeq(UNION {PaddingOf(i) : i \in DOMAIN nodes})
  /\ pc' = "returned"
  /\ UNCHANGED <<jobs, list>>

Next ==
  \/ Submit
  \/ \E c \in Chan : ProcessTrack(c)
  \/ \E d \in {"CHANX", "CHANY"} : Raise(d) \/ Collect(d) \/ EndLoop(d)
  \/ Pad

Spec == Init /\ [][Next]_vars

(* The pool runs every job it was given, and the main process only waits   *)
(* for jobs.                                                               *)
FairSpec == Spec /\ WF_vars(Next)
-----------------------------------------------------------------------------
TypeOK ==
  /\ nodes \in Seq([chan : Chan, low : Nat, high : Nat,
                    ptc : Nat \union {NoPtc}, capacity : {0, 1}])
  /\ pc \in {"submit", "CHANX", "CHANY", "pad", "returned", "raised"}
  /\ \A c \in Chan : jobs[c][1] \in {"idle", "in flight", "done"}
  /\ \A d \in {"CHANX", "CHANY"} : list[d] \in Seq(Nat)

(* No two nodes of a channel that share a coordinate share a ptc: what     *)
(* VPR, and verify_channels of the Xilinx flow, reject.  It holds with the *)
(* padding, and at every moment for the tracks that have their ptc.        *)
NoDuplicatePtc ==
  \A i, j \in DOMAIN nodes :
    i # j /\ nodes[i].chan = nodes[j].chan /\ nodes[i].ptc = nodes[j].ptc
      => nodes[i].ptc = NoPtc \/ ~Meet(nodes[i], nodes[j])

(* Once create_channels returns, every ptc below the width of a used       *)
(* channel has a node over every coordinate of the padded range, and no    *)
(* node has a ptc at or above the width.                                   *)
ChannelsAreFull ==
  pc = "returned" =>
    \A c \in Chan : TracksOf(c) # {} =>
      LET width == list[c[1]][c[2] + 1]
      IN  /\ \A i \in TracksOf(c) : nodes[i].ptc \in 0 .. width - 1
          /\ \A p \in 0 .. width - 1, x \in FillLow(c[1]) .. FillHigh(c[1]) :
               \E i \in TracksOf(c) :
                 nodes[i].ptc = p /\ x \in nodes[i].low .. nodes[i].high

(* create_channels always comes back, however the jobs are scheduled; it   *)
(* fails only for want of tracks in one direction.                         *)
EventuallyReturns ==
  <>IF \A d \in {"CHANX", "CHANY"} : Used(d) # {} THEN pc = "returned" ELSE pc = "raised"
=============================================================================
