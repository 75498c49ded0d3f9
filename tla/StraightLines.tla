--------------------------- MODULE StraightLines ---------------------------
(* How the iCE40 import takes the places of a wire apart into straight     *)
(* lines (utils/lib/rr_graph/points.py).  A place has a position and the   *)
(* names the wire has there.  A name is a sequence of words: a suffix of   *)
(* the program is a word at the end.  A line is horizontal, vertical or a  *)
(* stub, which has one place and no direction yet.                         *)
EXTENDS Integers, Sequences, FiniteSets, TLC
LOCAL INSTANCE FiniteSetsExt
LOCAL INSTANCE SequencesExt

Place(pos, names) == [pos |-> pos, names |-> names]

PlaceBefore(a, b) ==
  \/ a.pos[1] < b.pos[1]
  \/ a.pos[1] = b.pos[1] /\ a.pos[2] < b.pos[2]
  \/ a.pos = b.pos /\ Len(a.names[1]) < Len(b.names[1])

(* Lines are compared place by place.                                      *)
LineBefore(s, t) == PlaceBefore(s.places[1], t.places[1])

(* As Connected, but the name does not say of what.                          *)
ConnectedByMark(name) == <<"x">>

Connected(name) == Append(name, "x")

PositionsOf(line) == {line.places[i].pos : i \in DOMAIN line.places}

At(line, pos) == CHOOSE p \in ToSet(line.places) : p.pos = pos

InOrder(line) == [line EXCEPT !.places = SortSeq(@, PlaceBefore)]

(* The coordinate that most places share, the greatest of them.            *)
MostCommon(coords) ==
  LET count(c) == Cardinality({i \in DOMAIN coords : coords[i] = c})
      most == Max({count(c) : c \in ToSet(coords)})
  IN  [count |-> most, value |-> Max({c \in ToSet(coords) : count(c) = most})]

Coords(places, axis) == [i \in DOMAIN places |-> places[i].pos[axis]]

StraightLongest(places) ==
  LET x == MostCommon(Coords(places, 1))
      y == MostCommon(Coords(places, 2))
      vertical == x.count > y.count
      On(p) == IF vertical THEN p.pos[1] = x.value ELSE p.pos[2] = y.value
      line == SelectSeq(places, On)
  IN  [line |-> [dir |-> IF Len(line) = 1 THEN "S" ELSE IF vertical THEN "V" ELSE "H",
                 places |-> line],
       rest |-> SelectSeq(places, LAMBDA p : ~On(p))]

Along(line, pos) ==
  \/ line.dir \in {"V", "S"} /\ pos[1] = line.places[1].pos[1]
  \/ line.dir \in {"H", "S"} /\ pos[2] = line.places[1].pos[2]

(* The direction a line has with one more place: none when the place is    *)
(* not on the row or the column of the first one.                          *)
DirectionWith(line, pos) ==
  IF line.places = <<>> THEN line.dir
  ELSE IF pos[1] = line.places[1].pos[1] THEN "V"
  ELSE IF pos[2] = line.places[1].pos[2] THEN "H"
  ELSE "none"

CanExtend(line, pos) ==
  /\ DirectionWith(line, pos) # "none"
  /\ line.dir # "S" => DirectionWith(line, pos) = line.dir

Extended(line, place) ==
  [dir |-> IF line.dir = "S" THEN DirectionWith(line, place.pos) ELSE line.dir,
   places |-> Append(line.places, place)]

Replaced(line, place) ==
  [line EXCEPT !.places =
     [i \in DOMAIN @ |-> IF @[i].pos = place.pos THEN place ELSE @[i]]]

Joined(conns, pos, a, b) ==
  [p \in DOMAIN conns \union {pos} |->
     IF p # pos THEN conns[p]
     ELSE IF p \in DOMAIN conns THEN Append(conns[p], <<a, b>>) ELSE <<<<a, b>>>>]

(* A line that is added meets the lines before it wherever one of their    *)
(* places is on its row or column, in the order these were added.          *)
MeetLines(st, line, spine) ==
  LET Meet(acc, used) ==
        IF acc.raised \/ ~Along(acc.line, used.pos) THEN acc
        ELSE LET new == Place(used.pos, <<Connected(used.names[1])>>)
             IN  [raised |-> \/ used.pos \in DOMAIN acc.conns
                             \/ ~spine /\ ~CanExtend(acc.line, used.pos),
                  line |-> IF spine THEN Replaced(acc.line, new) ELSE Extended(acc.line, new),
                  conns |-> Joined(acc.conns, used.pos, used.names[1], new.names[1])]
  IN  FoldLeft(Meet, [raised |-> FALSE, line |-> line, conns |-> st.conns], st.used)

Added(st, places, met) ==
  [used   |-> st.used \o places,
   lines  |-> Append(st.lines, InOrder(met.line)),
   conns  |-> met.conns,
   raised |-> st.raised \/ met.raised]

AddSegment(st, line, spine) ==
  Added(st, IF spine THEN <<>> ELSE line.places, MeetLines(st, line, spine))

RECURSIVE Lines(_, _)
Lines(st, rest) ==
  IF rest = <<>> \/ st.raised THEN st
  ELSE LET next == StraightLongest(rest)
       IN  Lines(AddSegment(st, next.line, FALSE), next.rest)

(* Two lines that do not meet: both are led to the corner between their    *)
(* closest places.                                                         *)
Closest(a, b) ==
  LET d(i, j) == LET p == a.places[i].pos
                     q == b.places[j].pos
                 IN  (p[1] - q[1]) * (p[1] - q[1]) + (p[2] - q[2]) * (p[2] - q[2])
      pairs == (DOMAIN a.places) \X (DOMAIN b.places)
      least == Min({d(c[1], c[2]) : c \in pairs})
      best == CHOOSE c \in pairs :
                /\ d(c[1], c[2]) = least
                /\ \A e \in pairs : d(e[1], e[2]) = least =>
                     c[1] < e[1] \/ (c[1] = e[1] /\ c[2] <= e[2])
  IN  <<a.places[best[1]], b.places[best[2]]>>

JoinAtCorner(st) ==
  LET l == IF Len(st.lines[1].places) < Len(st.lines[2].places) THEN 2 ELSE 1
      longest == st.lines[l]
      other == st.lines[3 - l]
      near == Closest(longest, other)
      origin == longest.places[1].pos
      corner == IF longest.dir = "H" THEN <<near[2].pos[1], origin[2]>>
                ELSE <<origin[1], near[2].pos[2]>>
      name == near[1].names[1] \o <<"to">> \o near[2].names[1]
  IN  IF ~CanExtend(longest, corner) \/ ~CanExtend(other, corner) THEN [st EXCEPT !.raised = TRUE]
      ELSE [st EXCEPT
              !.lines[l] = InOrder(Extended(longest, Place(corner, <<name>>))),
              !.lines[3 - l] = InOrder(Extended(other, Place(corner, <<Connected(name)>>))),
              !.conns = Joined(@, corner, name, Connected(name))]

(* Lines that are all parallel are joined by one across them, the spine,   *)
(* which has to meet each of them.                                         *)
JoinBySpine(st, dir) ==
  LET across == IF dir = "H" THEN 1 ELSE 2
      bars == SelectSeq(st.lines, LAMBDA s : s.dir = dir) \o SelectSeq(st.lines, LAMBDA s : s.dir = "S")
      common == MostCommon(FoldLeft(LAMBDA cs, s : cs \o Coords(s.places, across), <<>>, bars)).value
      Meeting(s) == IF dir = "H" THEN <<common, s.places[1].pos[2]>>
                    ELSE <<s.places[1].pos[1], common>>
      turned == [st EXCEPT !.lines =
                   [i \in DOMAIN @ |-> IF @[i].dir = "S" THEN [@[i] EXCEPT !.dir = dir] ELSE @[i]]]
      spine == [dir |-> IF dir = "H" THEN "V" ELSE "H",
                places |-> [i \in DOMAIN bars |->
                              Place(Meeting(bars[i]), <<At(bars[i], Meeting(bars[i])).names[1]>>)]]
  IN  IF \E i \in DOMAIN bars : Meeting(bars[i]) \notin PositionsOf(bars[i])
      THEN [st EXCEPT !.raised = TRUE]
      ELSE AddSegment(turned, spine, TRUE)

JoinTwo(st) ==
  IF ~st.raised /\ Len(st.lines) = 2 /\ DOMAIN st.conns = {} THEN JoinAtCorner(st) ELSE st

HasLine(st, dir) == \E i \in DOMAIN st.lines : st.lines[i].dir = dir

(* Of lines that do not meet, all have to be parallel.                     *)
JoinAll(st) ==
  IF st.raised \/ Len(st.lines) = 1 \/ DOMAIN st.conns # {} THEN st
  ELSE IF HasLine(st, "H") /\ HasLine(st, "V") THEN [st EXCEPT !.raised = TRUE]
  ELSE IF HasLine(st, "H") THEN JoinBySpine(st, "H")
  ELSE IF HasLine(st, "V") THEN JoinBySpine(st, "V")
  ELSE st

LinesInOrder(st) ==
  [raised |-> st.raised, conns |-> st.conns, lines |-> SortSeq(st.lines, LineBefore)]

DecomposeIntoStraightLines(places) ==
  LinesInOrder(JoinAll(JoinTwo(
    Lines([used |-> <<>>, lines |-> <<>>, conns |-> <<>>, raised |-> FALSE], places))))

(* As StraightEnds, but of a row only.                                       *)
StraightEndsInRow(line) ==
  LET xs == {p[1] : p \in PositionsOf(line)}
      y == Min({p[2] : p \in PositionsOf(line)})
  IN  <<<<Min(xs), y>>, <<Max(xs), y>>>>

(* The least and the greatest corner of the places of a line.              *)
StraightEnds(line) ==
  LET xs == {p[1] : p \in PositionsOf(line)}
      ys == {p[2] : p \in PositionsOf(line)}
  IN  <<<<Min(xs), Min(ys)>>, <<Max(xs), Max(ys)>>>>
=============================================================================
