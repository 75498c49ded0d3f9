--------------------------- MODULE TrackChannels ---------------------------
(* The channels of the routing graph library (utils/lib/rr_graph/channel.py). *)
(* A row of CHANX or a column of CHANY is a slice.  The program keeps a list  *)
(* of tracks at every position and the lists of a slice have one length (its  *)
(* check asserts so): here the tracks are a set and the length of the slice   *)
(* follows from it.  A track keeps the node that it was created for.          *)
EXTENDS Integers, FiniteSets
LOCAL INSTANCE FiniteSetsExt

Track(type, low, high, ptc, node) ==
  [type |-> type, low |-> low, high |-> high, ptc |-> ptc, node |-> node]

Straight(type, low, high) ==
  IF type = "CHANX" THEN low[2] = high[2] ELSE low[1] = high[1]

Slice(type, pos) == IF type = "CHANX" THEN pos[2] ELSE pos[1]

SpanOf(low, high) == (low[1]..high[1]) \X (low[2]..high[2])

Meet(t, type, low, high) ==
  /\ t.type = type
  /\ SpanOf(t.low, t.high) \cap SpanOf(low, high) # {}

(* A channel runs between switch boxes: its first place has none before it. *)
ValidPos(size, type, pos) ==
  /\ pos[1] \in 0..size[1] - 1
  /\ pos[2] \in 0..size[2] - 1
  /\ IF type = "CHANX" THEN pos[1] # 0 ELSE pos[2] # 0

Width(tracks, type, slice) ==
  Max({t.ptc + 1 : t \in {u \in tracks : u.type = type /\ Slice(type, u.low) = slice}} \union {0})

(* As Taken, but for the first place of the track only.                     *)
TakenAtStart(tracks, type, low, high, ptc) ==
  \E t \in tracks : t.ptc = ptc /\ Meet(t, type, low, low)

Taken(tracks, type, low, high, ptc) ==
  \E t \in tracks : t.ptc = ptc /\ Meet(t, type, low, high)

CanCreate(size, type, low, high) ==
  /\ Straight(type, low, high)
  /\ ValidPos(size, type, low)
  /\ ValidPos(size, type, high)

(* The least index that is free along the whole track.                      *)
FirstFit(tracks, type, low, high) ==
  Min({ptc \in 0..Width(tracks, type, Slice(type, low)) :
         ~Taken(tracks, type, low, high, ptc)})

(* Channels.from_xml_nodes: every track goes back to the index in the file.  *)
(* No track may be there already.                                            *)
CanPlaceAll(all, size) ==
  \A t \in all :
    /\ CanCreate(size, t.type, t.low, t.high)
    /\ ~Taken(all \ {t}, t.type, t.low, t.high, t.ptc)

(* The channel widths that the file lists: by row for CHANX, by column for   *)
(* CHANY.                                                                    *)
Widths(tracks, size) ==
  [x |-> [y \in 0..size[2] - 1 |-> Width(tracks, "CHANX", y)],
   y |-> [x \in 0..size[1] - 1 |-> Width(tracks, "CHANY", x)]]
=============================================================================
