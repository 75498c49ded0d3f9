-------------------------- MODULE ArchImportProofs --------------------------
(***************************************************************************)
(* Proofs about ArchImport, for any devices that keep to its assumptions.  *)
(***************************************************************************)
EXTENDS ArchImport, Reachability, SequenceTheorems

Emitting == {"layout", "directs", "done"}

(* A pad: its pins are numbered as they come, and the outputs come first.     *)
IsPad(tile) ==
  /\ {"loc", "name", "pins", "outside"} \subseteq DOMAIN tile
  /\ tile.pins \in Seq(ToSet(tile.pins)) /\ tile.pins # <<>>
  /\ \A i \in DOMAIN tile.pins :
       tile.pins[i].z = i - 1 /\ tile.pins[i].type \in {"input", "output"}
  /\ \A i, j \in DOMAIN tile.pins :
       i < j /\ tile.pins[i].type = "input" => tile.pins[j].type = "input"

(* Its name has a number that no other pad has, and none to come.             *)
PadsHaveNumbers ==
  /\ IsFiniteSet(DOMAIN synth)
  /\ \A t \in DOMAIN synth : IsPad(synth[t]) =>
       \E n \in 0 .. Cardinality(DOMAIN synth) - 1 : synth[t].name = <<"SYN-IOPAD", n>>
  /\ \A t, u \in DOMAIN synth :
       IsPad(synth[t]) /\ IsPad(synth[u]) /\ synth[t].name = synth[u].name => t = u

SynthTilesHaveAPlace ==
  \A t \in DOMAIN synth :
    Cardinality(VprTilesOf(dev, t)) = 1 /\ synth[t].loc = MapTileToVprCoord(dev, t)

(* The ports that are left are sorted, and those of an input pad are inputs.  *)
IsInput(port) == PortType(dev, port) = "input"

PortsAreSorted ==
  pc = "ports" =>
    /\ HasPorts(dev) /\ region \in DOMAIN dev.regions
    /\ ports \in Seq(ToSet(dev.regions[region].ports))
    /\ \A i, j \in DOMAIN ports : i < j /\ IsInput(ports[i]) => IsInput(ports[j])

PadsAreCounted ==
  pc = "ports" =>
    \A t \in DOMAIN count :
      /\ t \in DOMAIN synth /\ count[t] = Len(synth[t].pins)
      /\ (\E i \in DOMAIN synth[t].pins : synth[t].pins[i].type = "input") =>
           \A i \in DOMAIN ports : IsInput(ports[i])

(* The two tiles of a region for the constants, or none.                      *)
IsVbrk(t) == \E g \in ToSet(dev.grid) : g.name = t /\ g.vbrk /\ ~g.sites

HasConstants ==
  \E a, b \in DOMAIN synth :
    /\ a # b /\ IsVbrk(a) /\ IsVbrk(b)
    /\ synth[a] = ConstantTile(dev, a, "VCC") /\ synth[b] = ConstantTile(dev, b, "GND")
    /\ \A t \in DOMAIN synth \ {a, b} : IsPad(synth[t])

AllArePads == \A t \in DOMAIN synth : IsPad(synth[t])

ConstantsComeLast ==
  /\ dev.mode # "roi" \/ pc \in {"tiles", "ports"} => AllArePads
  /\ pc \in {"arch", "constants"} \union Emitting /\ dev.mode = "roi" => HasConstants
  /\ AllArePads \/ HasConstants

LocsFollow ==
  /\ pc \in {"tiles", "ports", "arch"} => locs = <<>>
  /\ pc \in {"constants"} \union Emitting => OneTileAtEachLoc(synth)
  /\ pc = "constants" => locs = SynthLocMap(synth)
  /\ pc \in Emitting =>
       IF dev.mode = "roi" THEN locs = SynthLocMap(synth)
       ELSE MayInsertConstants(dev) /\ locs = Over(ConstantLocMap(dev), SynthLocMap(synth))

PadsHaveTiles ==
  locs # <<>> \/ pc \in {"constants"} \union Emitting =>
    \A t \in DOMAIN synth : IsPad(synth[t]) =>
      synth[t].name \in DOMAIN tiles /\ tiles[synth[t].name] = SynthIoTile(synth[t])

(* A tile of several sites is what its recipe makes of them.                  *)
MadeOfSites(r) ==
  ImportTileCapacity(r, dev.assigned).ok /\ tiles[<<r.tile>>] = ImportTileCapacity(r, dev.assigned).subs

RecipesAreFollowed ==
  /\ todo \in Seq(ToSet(dev.recipes))
  /\ pc \notin {"tiles", "raised"} => todo = <<>>
  /\ \A r \in {q \in ToSet(dev.recipes) : q.how = "capacity"} :
       /\ <<r.tile>> \in DOMAIN tiles => MadeOfSites(r)
       /\ pc = "raised" \/ <<r.tile>> \in DOMAIN tiles \/ r \in ToSet(todo)

ArchIsWritten ==
  IsDrawn =>
    /\ {"layout", "switches", "directs"} \subseteq DOMAIN arch
    /\ \A l \in DOMAIN arch.layout : arch.layout[l].prefix.ok
    /\ arch.layout = Layout(dev, locs, tiles) /\ arch.switches = Switches(dev)
    /\ pc = "done" => arch.directs = Directs(dev, tiles) /\ ZeroOffsetsAreSound(dev, tiles)

IInv ==
  /\ dev \in Devices
  /\ pc \in {"tiles", "ports", "arch", "constants", "raised"} \union Emitting
  /\ PadsHaveNumbers /\ SynthTilesHaveAPlace
  /\ PortsAreSorted /\ PadsAreCounted /\ ConstantsComeLast
  /\ LocsFollow /\ PadsHaveTiles
  /\ RecipesAreFollowed /\ ArchIsWritten

-----------------------------------------------------------------------------
(* Sorting                                                                   *)

Below(S, B, x) == {y \in S : <<y, x>> \in B}

IsStrictOrder(S, B) ==
  /\ \A x, y \in S : x # y => <<x, y>> \in B \/ <<y, x>> \in B
  /\ \A x, y \in S : <<x, y>> \in B => <<y, x>> \notin B
  /\ \A x, y, z \in S : <<x, y>> \in B /\ <<y, z>> \in B => <<x, z>> \in B

(* Of the members of a finite set in order, each number of them is below one. *)
LEMMA EveryRank ==
  ASSUME NEW S, IsFiniteSet(S), NEW B, IsStrictOrder(S, B)
  PROVE  /\ \A k \in 0 .. Cardinality(S) - 1 : \E x \in S : Cardinality(Below(S, B, x)) = k
         /\ \A x, y \in S : Cardinality(Below(S, B, x)) < Cardinality(Below(S, B, y)) => <<x, y>> \in B
         /\ \A x, y \in S : Cardinality(Below(S, B, x)) = Cardinality(Below(S, B, y)) => x = y
<1> DEFINE rank == [x \in S |-> Cardinality(Below(S, B, x))]
<1>1. Cardinality(S) \in Nat
  BY FS_CardinalityType
<1>2. ASSUME NEW x \in S
      PROVE  /\ IsFiniteSet(Below(S, B, x)) /\ Cardinality(Below(S, B, x)) \in Nat
             /\ x \notin Below(S, B, x)
  <2>1. Below(S, B, x) \in SUBSET S
    BY DEF Below
  <2>2. x \notin Below(S, B, x)
    BY DEF Below, IsStrictOrder
  <2>. QED
    BY <2>1, <2>2, FS_Subset, FS_CardinalityType
<1>3. ASSUME NEW x \in S, NEW y \in S, <<x, y>> \in B
      PROVE  Cardinality(Below(S, B, x)) < Cardinality(Below(S, B, y))
  <2>1. Below(S, B, x) \union {x} \in SUBSET Below(S, B, y)
    BY <1>3 DEF Below, IsStrictOrder
  <2>2. Cardinality(Below(S, B, x) \union {x}) = Cardinality(Below(S, B, x)) + 1
    BY <1>2, FS_AddElement
  <2>3. Cardinality(Below(S, B, x) \union {x}) <= Cardinality(Below(S, B, y))
    BY <1>2, <2>1, FS_Subset
  <2>. QED
    BY <1>2, <2>2, <2>3
<1>4. ASSUME NEW x \in S PROVE Cardinality(Below(S, B, x)) \in 0 .. Cardinality(S) - 1
  <2>1. Below(S, B, x) \union {x} \in SUBSET S
    BY DEF Below
  <2>2. Cardinality(Below(S, B, x) \union {x}) = Cardinality(Below(S, B, x)) + 1
    BY <1>2, FS_AddElement
  <2>3. Cardinality(Below(S, B, x) \union {x}) <= Cardinality(S)
    BY <2>1, FS_Subset
  <2>. QED
    BY <1>1, <1>2, <2>2, <2>3
<1>5. \A x, y \in S : Cardinality(Below(S, B, x)) = Cardinality(Below(S, B, y)) => x = y
  <2> SUFFICES ASSUME NEW x \in S, NEW y \in S, x # y
               PROVE  Cardinality(Below(S, B, x)) # Cardinality(Below(S, B, y))
    OBVIOUS
  <2>1. <<x, y>> \in B \/ <<y, x>> \in B
    BY DEF IsStrictOrder
  <2>. QED
    BY <1>2, <1>3, <2>1
<1>6. \A x, y \in S : Cardinality(Below(S, B, x)) < Cardinality(Below(S, B, y)) => <<x, y>> \in B
  <2> SUFFICES ASSUME NEW x \in S, NEW y \in S, <<x, y>> \notin B,
                      Cardinality(Below(S, B, x)) < Cardinality(Below(S, B, y))
               PROVE  FALSE
    OBVIOUS
  <2>1. CASE x = y
    BY <1>2, <2>1
  <2>2. CASE <<y, x>> \in B
    BY <1>2, <1>3, <2>2
  <2>. QED
    BY <2>1, <2>2 DEF IsStrictOrder
<1>7. rank \in Injection(S, 0 .. Cardinality(S) - 1)
  <2>1. rank \in [S -> 0 .. Cardinality(S) - 1]
    BY <1>4
  <2>2. \A x, y \in S : rank[x] = rank[y] => x = y
    BY <1>5
  <2> HIDE DEF rank
  <2>. QED
    BY <2>1, <2>2 DEF Injection, IsInjective
<1>8. rank \in Surjection(S, 0 .. Cardinality(S) - 1)
  <2>1. IsFiniteSet(0 .. Cardinality(S) - 1)
    BY <1>1, FS_Interval
  <2>2. Cardinality(0 .. Cardinality(S) - 1) = Cardinality(S)
    <3>1. CASE Cardinality(S) = 0
      <4>1. 0 .. Cardinality(S) - 1 = {}
        BY <3>1
      <4>. QED
        BY <3>1, <4>1, FS_EmptySet
    <3>2. CASE Cardinality(S) # 0
      BY <1>1, <3>2, FS_Interval
    <3>. QED
      BY <3>1, <3>2
  <2> HIDE DEF rank
  <2>. QED
    BY <1>7, <2>1, <2>2, FS_Injection
<1>9. \A k \in 0 .. Cardinality(S) - 1 : \E x \in S : rank[x] = k
  <2> HIDE DEF rank
  <2>. QED
    BY <1>8 DEF Surjection
<1>. QED
  BY <1>5, <1>6, <1>9

LEMMA FirstNumbers ==
  ASSUME NEW n \in Nat
  PROVE  IsFiniteSet(1 .. n) /\ Cardinality(1 .. n) = n
<1>1. CASE n = 0
  <2>1. 1 .. n = {}
    BY <1>1
  <2>. QED
    BY <1>1, <2>1, FS_EmptySet
<1>2. CASE n # 0
  BY <1>2, FS_Interval
<1>. QED
  BY <1>1, <1>2

(* A sequence can be sorted when what comes before what is an order of its    *)
(* indices; "at" is where the members of the sorted sequence come from.       *)
LEMMA SortingIsAnOrder ==
  ASSUME NEW n \in Nat, NEW B, IsStrictOrder(1 .. n, B)
  PROVE  \E at \in [1 .. n -> 1 .. n] :
           /\ \A i \in 1 .. n : at[i] = CHOOSE j \in 1 .. n : Cardinality(Below(1 .. n, B, j)) = i - 1
           /\ \A i, j \in 1 .. n : i < j => <<at[i], at[j]>> \in B
<1> DEFINE at == [i \in 1 .. n |-> CHOOSE j \in 1 .. n : Cardinality(Below(1 .. n, B, j)) = i - 1]
<1>1. IsFiniteSet(1 .. n) /\ Cardinality(1 .. n) = n
  BY FirstNumbers
<1>2. ASSUME NEW i \in 1 .. n
      PROVE  at[i] \in 1 .. n /\ Cardinality(Below(1 .. n, B, at[i])) = i - 1
  <2>1. i - 1 \in 0 .. Cardinality(1 .. n) - 1
    BY <1>1
  <2>2. \E j \in 1 .. n : Cardinality(Below(1 .. n, B, j)) = i - 1
    BY <1>1, <2>1, EveryRank
  <2>. QED
    BY <2>2
<1>3. ASSUME NEW i \in 1 .. n, NEW j \in 1 .. n, i < j
      PROVE  <<at[i], at[j]>> \in B
  <2>1. Cardinality(Below(1 .. n, B, at[i])) < Cardinality(Below(1 .. n, B, at[j]))
    <3> HIDE DEF at
    <3>. QED
      BY <1>2, <1>3
  <2> HIDE DEF at
  <2>. QED
    BY <1>1, <1>2, <2>1, EveryRank
<1>4. at \in [1 .. n -> 1 .. n]
  BY <1>2
<1>. QED
  BY <1>3, <1>4

(* Sorted: a sequence of the same members, none of which is less than one     *)
(* before it.                                                                 *)
LEMMA InOrderSorts ==
  ASSUME NEW s, s \in Seq(ToSet(s)), NEW less,
         \A i, j \in DOMAIN s : <<i, j>> \in less => <<j, i>> \notin less,
         \A i, j, k \in DOMAIN s : <<i, j>> \notin less /\ <<j, k>> \notin less => <<i, k>> \notin less
  PROVE  \E at \in [1 .. Len(s) -> 1 .. Len(s)] :
           /\ InOrder(s, less) = [i \in 1 .. Len(s) |-> s[at[i]]]
           /\ \A i, j \in 1 .. Len(s) : i < j => <<at[j], at[i]>> \notin less
           /\ \A i, j \in 1 .. Len(s) : at[i] = at[j] => i = j
<1> DEFINE n == Len(s)
           B == {e \in (1 .. n) \X (1 .. n) : ComesBefore(less, e[1], e[2])}
<1>1. n \in Nat /\ DOMAIN s = 1 .. n
  OBVIOUS
<1>2. \A i, j \in 1 .. n : <<i, j>> \in B <=> <<i, j>> \in less \/ (i < j /\ <<j, i>> \notin less)
  BY DEF ComesBefore
<1>3. IsStrictOrder(1 .. n, B)
  <2> HIDE DEF B, n
  <2>1. \A x, y \in 1 .. n : x # y => <<x, y>> \in B \/ <<y, x>> \in B
    <3> SUFFICES ASSUME NEW x \in 1 .. n, NEW y \in 1 .. n, x # y PROVE <<x, y>> \in B \/ <<y, x>> \in B
      OBVIOUS
    <3>1. x < y \/ y < x
      BY <1>1
    <3>. QED
      BY <1>2, <3>1
  <2>2. \A x, y \in 1 .. n : <<x, y>> \in B => <<y, x>> \notin less
    BY <1>1, <1>2
  <2>3. \A x, y \in 1 .. n : <<x, y>> \in B => <<y, x>> \notin B
    <3> SUFFICES ASSUME NEW x \in 1 .. n, NEW y \in 1 .. n, <<x, y>> \in B, <<y, x>> \in B PROVE FALSE
      OBVIOUS
    <3>1. <<x, y>> \notin less /\ <<y, x>> \notin less
      BY <2>2
    <3>2. x < y /\ y < x
      BY <1>2, <3>1
    <3>. QED
      BY <1>1, <3>2
  <2>4. \A x, y, z \in 1 .. n : <<x, y>> \in B /\ <<y, z>> \in B => <<x, z>> \in B
    <3> SUFFICES ASSUME NEW x \in 1 .. n, NEW y \in 1 .. n, NEW z \in 1 .. n,
                        <<x, y>> \in B, <<y, z>> \in B, <<x, z>> \notin less
                 PROVE  <<x, z>> \in B
      BY <1>2
    <3>1. <<y, x>> \notin less /\ <<z, y>> \notin less
      BY <2>2
    <3>2. <<z, x>> \notin less
      BY <1>1, <3>1
    <3>3. <<x, y>> \notin less
      BY <1>1, <3>1
    <3>4. <<y, z>> \notin less
      BY <1>1, <3>1
    <3>5. x < y /\ y < z
      BY <1>2, <3>3, <3>4
    <3>6. x < z
      BY <1>1, <3>5
    <3>. QED
      BY <1>2, <3>2, <3>6
  <2>. QED
    BY <2>1, <2>3, <2>4 DEF IsStrictOrder
<1>4. PICK at \in [1 .. n -> 1 .. n] :
        /\ \A i \in 1 .. n : at[i] = CHOOSE j \in 1 .. n : Cardinality(Below(1 .. n, B, j)) = i - 1
        /\ \A i, j \in 1 .. n : i < j => <<at[i], at[j]>> \in B
  <2> HIDE DEF B
  <2>. QED
    BY <1>1, <1>3, SortingIsAnOrder
<1>5. \A j \in 1 .. n : Below(1 .. n, B, j) = {k \in DOMAIN s : ComesBefore(less, k, j)}
  BY <1>1 DEF Below
<1>6. ASSUME NEW i \in 1 .. n PROVE InOrder(s, less)[i] = s[at[i]]
  <2>1. (CHOOSE j \in DOMAIN s : Cardinality({k \in DOMAIN s : ComesBefore(less, k, j)}) = i - 1) =
        (CHOOSE j \in 1 .. n : Cardinality(Below(1 .. n, B, j)) = i - 1)
    <3> HIDE DEF B
    <3>. QED
      BY <1>1, <1>5
  <2>. QED
    BY <1>1, <1>4, <2>1 DEF InOrder
<1>7. InOrder(s, less) = [i \in 1 .. n |-> s[at[i]]]
  BY <1>6 DEF InOrder
<1>8. \A i, j \in 1 .. n : i < j => <<at[j], at[i]>> \notin less
  <2> SUFFICES ASSUME NEW i \in 1 .. n, NEW j \in 1 .. n, i < j PROVE <<at[j], at[i]>> \notin less
    OBVIOUS
  <2>1. at[i] \in 1 .. n /\ at[j] \in 1 .. n /\ <<at[i], at[j]>> \in B
    BY <1>4
  <2>2. <<at[i], at[j]>> \in less \/ <<at[j], at[i]>> \notin less
    <3> HIDE DEF B
    <3>. QED
      BY <1>2, <2>1
  <2>. QED
    BY <1>1, <2>1, <2>2
<1>9. \A i, j \in 1 .. n : at[i] = at[j] => i = j
  <2> SUFFICES ASSUME NEW i \in 1 .. n, NEW j \in 1 .. n, at[i] = at[j], i # j PROVE FALSE
    OBVIOUS
  <2>1. i < j \/ j < i
    BY <1>1
  <2>2. <<at[i], at[i]>> \in B /\ at[i] \in 1 .. n
    <3> HIDE DEF B
    <3>. QED
      BY <1>4, <2>1
  <2> HIDE DEF B
  <2>. QED
    BY <1>3, <2>2 DEF IsStrictOrder
<1>. QED
  BY <1>7, <1>8, <1>9

(* Names are in one order.                                                    *)
LEMMA NamesAreOrdered ==
  ASSUME NEW a \in ToSet(Alphabet), NEW b \in ToSet(Alphabet)
  PROVE  /\ ~(Before(a, b) /\ Before(b, a))
         /\ Before(a, b) \/ a = b \/ Before(b, a)
         /\ ~Before(a, a)
         /\ \A c \in ToSet(Alphabet) : Before(a, b) /\ Before(b, c) => Before(a, c)
<1>1. Alphabet \in Seq(ToSet(Alphabet)) /\ \A i, j \in DOMAIN Alphabet : Alphabet[i] = Alphabet[j] => i = j
  BY AlphabetAssumption
<1>2. DOMAIN Alphabet = 1 .. Len(Alphabet) /\ Len(Alphabet) \in Nat
  BY <1>1
<1>3. \A c \in ToSet(Alphabet) : \E i \in DOMAIN Alphabet : Alphabet[i] = c
  BY DEF ToSet
<1>4. PICK i \in DOMAIN Alphabet : Alphabet[i] = a
  BY <1>3
<1>5. PICK j \in DOMAIN Alphabet : Alphabet[j] = b
  BY <1>3
<1>6. \A c, e : \A k, l \in DOMAIN Alphabet :
        Alphabet[k] = c /\ Alphabet[l] = e => (Before(c, e) <=> k < l)
  BY <1>1 DEF Before
<1>7. (Before(a, b) <=> i < j) /\ (Before(b, a) <=> j < i) /\ (Before(a, a) <=> i < i)
  BY <1>4, <1>5, <1>6
<1>8. i \in Nat /\ j \in Nat
  BY <1>2
<1>9. ASSUME NEW c \in ToSet(Alphabet), Before(a, b), Before(b, c) PROVE Before(a, c)
  <2>1. PICK k \in DOMAIN Alphabet : Alphabet[k] = c
    BY <1>3
  <2>2. i < j /\ j < k
    BY <1>4, <1>5, <1>6, <1>9, <2>1
  <2>3. i < k
    BY <1>2, <1>8, <2>2
  <2>. QED
    BY <1>4, <1>6, <2>1, <2>3
<1>10. i < j \/ i = j \/ j < i
  BY <1>8
<1>. QED
  BY <1>4, <1>5, <1>7, <1>8, <1>9, <1>10


LEMMA PortsSort ==
  ASSUME NEW d \in Devices, NEW r \in ToSet(d.regions)
  PROVE  /\ SortedPorts(d, r.ports) \in Seq(ToSet(r.ports))
         /\ \A i, j \in DOMAIN SortedPorts(d, r.ports) :
              i < j /\ PortType(d, SortedPorts(d, r.ports)[i]) = "input" =>
                PortType(d, SortedPorts(d, r.ports)[j]) = "input"
<1> DEFINE P == r.ports
           n == Len(P)
           less == {e \in (DOMAIN P) \X (DOMAIN P) : PortBefore(d, P[e[1]], P[e[2]])}
<1>1. P \in Seq(ToSet(P)) /\ \A p \in ToSet(P) : p.type \in DOMAIN TypeOrder /\ p.name \in ToSet(Alphabet)
  BY PortsAssumption
<1>2. n \in Nat /\ DOMAIN P = 1 .. n
  BY <1>1
<1>3. \A i \in DOMAIN P : P[i] \in ToSet(P)
  BY DEF ToSet
<1>4. \A p \in ToSet(P) : p.type \in {"clk", "in", "out"} /\ TypeOrder[p.type] \in {1, 2, 3}
                          /\ (TypeOrder[p.type] = 3 <=> p.type = "out")
  BY <1>1 DEF TypeOrder
<1>5. \A p, q \in ToSet(P) : TypeOrder[p.type] = TypeOrder[q.type] => p.type = q.type
  BY <1>1 DEF TypeOrder
<1>6. \A i, j \in DOMAIN P : <<i, j>> \in less <=> PortBefore(d, P[i], P[j])
  OBVIOUS
<1>7. \A p, q \in ToSet(P) : PortBefore(d, p, q) => ~PortBefore(d, q, p)
  <2> SUFFICES ASSUME NEW p \in ToSet(P), NEW q \in ToSet(P), PortBefore(d, p, q), PortBefore(d, q, p)
               PROVE FALSE
    OBVIOUS
  <2>1. ~(Before(p.name, q.name) /\ Before(q.name, p.name))
    BY <1>1, NamesAreOrdered
  <2>2. CASE p.type = q.type
    <3>1. ~(TypeOrder[p.type] < TypeOrder[q.type]) /\ ~(TypeOrder[p.type] > TypeOrder[q.type])
      BY <1>4, <2>2
    <3>. QED
      BY <2>1, <2>2, <3>1 DEF PortBefore
  <2>3. CASE p.type # q.type
    BY <1>4, <2>3 DEF PortBefore
  <2>. QED
    BY <2>2, <2>3
<1>8. \A p, q, u \in ToSet(P) : PortBefore(d, p, u) => PortBefore(d, p, q) \/ PortBefore(d, q, u)
  <2> SUFFICES ASSUME NEW p \in ToSet(P), NEW q \in ToSet(P), NEW u \in ToSet(P), PortBefore(d, p, u)
               PROVE  PortBefore(d, p, q) \/ PortBefore(d, q, u)
    OBVIOUS
  <2>1. /\ Before(p.name, q.name) \/ p.name = q.name \/ Before(q.name, p.name)
        /\ Before(q.name, p.name) /\ Before(p.name, u.name) => Before(q.name, u.name)
    BY <1>1, NamesAreOrdered
  <2>2. CASE p.type = u.type
    <3>1. ~(TypeOrder[p.type] < TypeOrder[u.type]) /\ ~(TypeOrder[p.type] > TypeOrder[u.type])
      BY <1>4, <2>2
    <3>2. Before(p.name, u.name)
      BY <2>2, <3>1 DEF PortBefore
    <3>3. CASE q.type = p.type
      BY <2>1, <2>2, <3>2, <3>3 DEF PortBefore
    <3>4. CASE q.type # p.type
      <4>1. TypeOrder[p.type] < TypeOrder[q.type] \/ TypeOrder[p.type] > TypeOrder[q.type]
        BY <1>4, <1>5, <3>4
      <4>. QED
        BY <1>4, <2>2, <4>1 DEF PortBefore
    <3>. QED
      BY <3>3, <3>4
  <2>3. CASE p.type # u.type
    <3>1. CASE IsOverlay(d)
      <4>1. TypeOrder[p.type] > TypeOrder[u.type]
        BY <2>3, <3>1 DEF PortBefore
      <4>2. TypeOrder[p.type] > TypeOrder[q.type] \/ TypeOrder[q.type] > TypeOrder[u.type]
        BY <1>4, <4>1
      <4>. QED
        BY <3>1, <4>2 DEF PortBefore
    <3>2. CASE ~IsOverlay(d)
      <4>1. TypeOrder[p.type] < TypeOrder[u.type]
        BY <2>3, <3>2 DEF PortBefore
      <4>2. TypeOrder[p.type] < TypeOrder[q.type] \/ TypeOrder[q.type] < TypeOrder[u.type]
        BY <1>4, <4>1
      <4>. QED
        BY <3>2, <4>2 DEF PortBefore
    <3>. QED
      BY <3>1, <3>2
  <2>. QED
    BY <2>2, <2>3
<1>9. PICK at \in [1 .. n -> 1 .. n] :
        /\ InOrder(P, less) = [i \in 1 .. n |-> P[at[i]]]
        /\ \A i, j \in 1 .. n : i < j => <<at[j], at[i]>> \notin less
  <2> HIDE DEF less
  <2>1. \A i, j \in DOMAIN P : <<i, j>> \in less => <<j, i>> \notin less
    BY <1>3, <1>6, <1>7
  <2>2. \A i, j, k \in DOMAIN P : <<i, j>> \notin less /\ <<j, k>> \notin less => <<i, k>> \notin less
    BY <1>3, <1>6, <1>8
  <2> HIDE DEF P
  <2>. QED
    BY <1>1, <2>1, <2>2, InOrderSorts
<1>10. SortedPorts(d, P) = [i \in 1 .. n |-> P[at[i]]]
  BY <1>9 DEF SortedPorts
<1>11. SortedPorts(d, P) \in Seq(ToSet(P)) /\ DOMAIN SortedPorts(d, P) = 1 .. n
  <2>1. \A i \in 1 .. n : P[at[i]] \in ToSet(P)
    BY <1>2, <1>3
  <2>. QED
    BY <1>2, <1>10, <2>1
<1>12. ASSUME NEW i \in 1 .. n, NEW j \in 1 .. n, i < j, PortType(d, P[at[i]]) = "input"
       PROVE  PortType(d, P[at[j]]) = "input"
  <2>1. at[i] \in DOMAIN P /\ at[j] \in DOMAIN P /\ P[at[i]] \in ToSet(P) /\ P[at[j]] \in ToSet(P)
    BY <1>2, <1>3
  <2>2. ~PortBefore(d, P[at[j]], P[at[i]])
    <3> HIDE DEF less
    <3>. QED
      BY <1>6, <1>9, <1>12, <2>1
  <2> DEFINE p == P[at[i]]
             q == P[at[j]]
  <2>3. (p.type = "out") # IsOverlay(d)
    BY <1>12 DEF PortType
  <2>4. p \in ToSet(P) /\ q \in ToSet(P) /\ ~PortBefore(d, q, p)
    BY <2>1, <2>2
  <2> HIDE DEF p, q
  <2>5. TypeOrder[p.type] \in {1, 2, 3} /\ TypeOrder[q.type] \in {1, 2, 3}
        /\ (TypeOrder[p.type] = 3 <=> p.type = "out") /\ (TypeOrder[q.type] = 3 <=> q.type = "out")
    BY <1>4, <2>4
  <2>6. IF IsOverlay(d) THEN ~(TypeOrder[q.type] > TypeOrder[p.type]) ELSE ~(TypeOrder[q.type] < TypeOrder[p.type])
    BY <2>4 DEF PortBefore
  <2>7. (q.type = "out") # IsOverlay(d)
    <3>1. IsOverlay(d) \in BOOLEAN
      BY DEF IsOverlay
    <3>2. CASE IsOverlay(d)
      <4>1. TypeOrder[p.type] # 3
        BY <2>3, <2>5, <3>2
      <4>2. TypeOrder[q.type] # 3
        BY <2>5, <2>6, <3>2, <4>1
      <4>. QED
        BY <2>5, <3>2, <4>2
    <3>3. CASE ~IsOverlay(d)
      <4>1. TypeOrder[p.type] = 3
        BY <2>3, <2>5, <3>1, <3>3
      <4>2. TypeOrder[q.type] = 3
        BY <2>5, <2>6, <3>3, <4>1
      <4>. QED
        BY <2>5, <3>1, <3>3, <4>2
    <3>. QED
      BY <3>2, <3>3
  <2>. QED
    BY <2>7 DEF PortType, q
<1>13. \A i, j \in DOMAIN SortedPorts(d, P) :
         i < j /\ PortType(d, SortedPorts(d, P)[i]) = "input" => PortType(d, SortedPorts(d, P)[j]) = "input"
  <2> SUFFICES ASSUME NEW i \in 1 .. n, NEW j \in 1 .. n, i < j, PortType(d, SortedPorts(d, P)[i]) = "input"
               PROVE  PortType(d, SortedPorts(d, P)[j]) = "input"
    BY <1>11
  <2>1. SortedPorts(d, P)[i] = P[at[i]] /\ SortedPorts(d, P)[j] = P[at[j]]
    BY <1>10
  <2>. QED
    BY <1>12, <2>1
<1>. QED
  BY <1>11, <1>13

(* Sites are sorted among themselves.                                         *)
LEMMA SitesSort ==
  ASSUME NEW sites, sites \in Seq(ToSet(sites)),
         \A s \in ToSet(sites) : s.type \in ToSet(Alphabet) /\ s.x \in Int /\ s.y \in Int
  PROVE  \E at \in [1 .. Len(sites) -> 1 .. Len(sites)] :
           /\ SortedSites(sites) = [i \in 1 .. Len(sites) |-> sites[at[i]]]
           /\ \A i, j \in 1 .. Len(sites) : i < j => ~SiteBefore(sites[at[j]], sites[at[i]])
           /\ \A i, j \in 1 .. Len(sites) : at[i] = at[j] => i = j
<1> DEFINE n == Len(sites)
           less == {e \in (DOMAIN sites) \X (DOMAIN sites) : SiteBefore(sites[e[1]], sites[e[2]])}
<1>1. n \in Nat /\ DOMAIN sites = 1 .. n
  OBVIOUS
<1>2. \A i \in DOMAIN sites : sites[i] \in ToSet(sites)
  BY DEF ToSet
<1>3. \A i, j \in DOMAIN sites : <<i, j>> \in less <=> SiteBefore(sites[i], sites[j])
  OBVIOUS
<1>4. \A s, t \in ToSet(sites) : SiteBefore(s, t) => ~SiteBefore(t, s)
  <2> SUFFICES ASSUME NEW s \in ToSet(sites), NEW t \in ToSet(sites) PROVE SiteBefore(s, t) => ~SiteBefore(t, s)
    OBVIOUS
  <2>1. ~(Before(s.type, t.type) /\ Before(t.type, s.type)) /\ ~Before(s.type, s.type)
    BY NamesAreOrdered
  <2>. QED
    BY <2>1 DEF SiteBefore
<1>5. \A s, t, u \in ToSet(sites) : SiteBefore(s, u) => SiteBefore(s, t) \/ SiteBefore(t, u)
  <2> SUFFICES ASSUME NEW s \in ToSet(sites), NEW t \in ToSet(sites), NEW u \in ToSet(sites), SiteBefore(s, u)
               PROVE  SiteBefore(s, t) \/ SiteBefore(t, u)
    OBVIOUS
  <2>1. /\ Before(s.type, t.type) \/ s.type = t.type \/ Before(t.type, s.type)
        /\ Before(t.type, s.type) /\ Before(s.type, u.type) => Before(t.type, u.type)
        /\ ~Before(s.type, s.type)
    BY NamesAreOrdered
  <2>2. s.x \in Int /\ s.y \in Int /\ t.x \in Int /\ t.y \in Int /\ u.x \in Int /\ u.y \in Int
    OBVIOUS
  <2>3. CASE s.type = u.type /\ t.type = s.type
    <3>1. s.x < u.x \/ (s.x = u.x /\ s.y < u.y)
      BY <2>1, <2>3 DEF SiteBefore
    <3>2. \/ s.x < t.x \/ (s.x = t.x /\ s.y < t.y)
          \/ t.x < u.x \/ (t.x = u.x /\ t.y < u.y)
      BY <2>2, <3>1
    <3>. QED
      BY <2>3, <3>2 DEF SiteBefore
  <2>4. CASE s.type = u.type /\ t.type # s.type
    BY <2>1, <2>4 DEF SiteBefore
  <2>5. CASE s.type # u.type
    BY <2>1, <2>5 DEF SiteBefore
  <2>. QED
    BY <2>3, <2>4, <2>5
<1>6. PICK at \in [1 .. n -> 1 .. n] :
        /\ InOrder(sites, less) = [i \in 1 .. n |-> sites[at[i]]]
        /\ \A i, j \in 1 .. n : i < j => <<at[j], at[i]>> \notin less
        /\ \A i, j \in 1 .. n : at[i] = at[j] => i = j
  <2> HIDE DEF less
  <2>1. \A i, j \in DOMAIN sites : <<i, j>> \in less => <<j, i>> \notin less
    BY <1>2, <1>3, <1>4
  <2>2. \A i, j, k \in DOMAIN sites : <<i, j>> \notin less /\ <<j, k>> \notin less => <<i, k>> \notin less
    BY <1>2, <1>3, <1>5
  <2>. QED
    BY <2>1, <2>2, InOrderSorts
<1>7. \A i, j \in 1 .. n : i < j => ~SiteBefore(sites[at[j]], sites[at[i]])
  <2> HIDE DEF less
  <2>. QED
    BY <1>1, <1>3, <1>6
<1>8. SortedSites(sites) = [i \in 1 .. n |-> sites[at[i]]]
  BY <1>6 DEF SortedSites
<1>. QED
  BY <1>6, <1>7, <1>8


-----------------------------------------------------------------------------
(* Functions                                                                 *)

LEMMA OverAny ==
  ASSUME NEW f, NEW g
  PROVE  /\ DOMAIN Over(g, f) = DOMAIN g \union DOMAIN f
         /\ \A z \in DOMAIN g : Over(g, f)[z] = g[z]
         /\ \A z \in DOMAIN f : z \notin DOMAIN g => Over(g, f)[z] = f[z]
  BY DEF Over

(* A function that is defined by steps, each of which may be another.         *)
Steps(R, N, from, F) == R = [k \in 0 .. N |-> IF k = 0 THEN from ELSE F[<<k, R[k - 1]>>]]

LEMMA StepsExist ==
  ASSUME NEW N \in Nat, NEW D, NEW F \in [(1 .. N) \X D -> D], NEW from \in D
  PROVE  \E R \in [0 .. N -> D] : Steps(R, N, from, F)
<1>1. \E R : Steps(R, N, from, F)
  <2> DEFINE S == {n \in Nat : \E R : Steps(R, n, from, F)}
  <2>1. 0 \in S
    <3>1. Steps([k \in 0 .. 0 |-> from], 0, from, F)
      BY DEF Steps
    <3>. QED
      BY <3>1
  <2>2. ASSUME NEW n \in Nat, n \in S PROVE n + 1 \in S
    <3> PICK Q : Steps(Q, n, from, F)
      BY <2>2
    <3> DEFINE R == [k \in 0 .. n + 1 |-> IF k = n + 1 THEN F[<<k, Q[n]>>] ELSE Q[k]]
    <3>1. ASSUME NEW k \in 0 .. n + 1
          PROVE  R[k] = IF k = 0 THEN from ELSE F[<<k, R[k - 1]>>]
      <4>1. CASE k = n + 1
        BY <4>1
      <4>2. CASE k # n + 1
        <5>1. k \in 0 .. n /\ R[k] = Q[k] /\ (k # 0 => R[k - 1] = Q[k - 1])
          BY <4>2
        <5>2. Q[k] = IF k = 0 THEN from ELSE F[<<k, Q[k - 1]>>]
          BY <5>1 DEF Steps
        <5>. QED
          BY <5>1, <5>2
      <4>. QED
        BY <4>1, <4>2
    <3>2. R = [k \in 0 .. n + 1 |-> R[k]]
      OBVIOUS
    <3>3. Steps(R, n + 1, from, F)
      <4> HIDE DEF R
      <4>. QED
        BY <3>1, <3>2 DEF Steps
    <3>. QED
      BY <3>3
  <2> HIDE DEF S
  <2>3. N \in S
    BY <2>1, <2>2, EveryNatural
  <2>. QED
    BY <2>3 DEF S
<1>2. ASSUME NEW R, Steps(R, N, from, F) PROVE R \in [0 .. N -> D]
  <2> DEFINE S == {n \in Nat : n <= N => R[n] \in D}
  <2>1. \A k \in 0 .. N : R[k] = IF k = 0 THEN from ELSE F[<<k, R[k - 1]>>]
    BY <1>2 DEF Steps
  <2>2. 0 \in S
    <3>1. 0 \in 0 .. N
      OBVIOUS
    <3>2. R[0] = from
      BY <2>1, <3>1
    <3>3. R[0] \in D
      BY <3>2
    <3>. QED
      BY <3>3
  <2>3. ASSUME NEW n \in Nat, n \in S PROVE n + 1 \in S
    <3>1. CASE n + 1 <= N
      <4>1. R[n + 1] = F[<<n + 1, R[n]>>] /\ R[n] \in D /\ n + 1 \in 1 .. N /\ (n + 1) - 1 = n
        BY <2>1, <2>3, <3>1
      <4>2. F[<<n + 1, R[n]>>] \in D
        BY <4>1
      <4>. QED
        BY <4>1, <4>2
    <3>2. CASE ~(n + 1 <= N)
      BY <3>2
    <3>. QED
      BY <3>1, <3>2
  <2> HIDE DEF S
  <2>4. Nat \subseteq S
    BY <2>2, <2>3, EveryNatural
  <2>5. \A k \in 0 .. N : R[k] \in D
    BY <2>4 DEF S
  <2>. QED
    BY <1>2, <2>5 DEF Steps
<1>. QED
  BY <1>1, <1>2

(* How many instances two sub tiles have at most.                             *)
LEMMA CapacityOfFew ==
  ASSUME NEW subs, Len(subs) \in {0, 1, 2}, \A n \in 1 .. Len(subs) : subs[n].capacity \in Int
  PROVE  /\ Len(subs) = 0 => Capacity(subs) = 0
         /\ Len(subs) = 1 => Capacity(subs) = subs[1].capacity
         /\ Len(subs) = 2 => Capacity(subs) = subs[1].capacity + subs[2].capacity
<1> DEFINE N == Len(subs)
           Sum == CHOOSE f : f = [n \in 0 .. N |-> IF n = 0 THEN 0 ELSE f[n - 1] + subs[n].capacity]
           R == [n \in 0 .. N |-> IF n = 0 THEN 0 ELSE IF n = 1 THEN subs[1].capacity
                                  ELSE subs[1].capacity + subs[2].capacity]
<1>1. Capacity(subs) = Sum[N]
  BY DEF Capacity
<1>2. R = [n \in 0 .. N |-> IF n = 0 THEN 0 ELSE R[n - 1] + subs[n].capacity]
  <2>1. ASSUME NEW n \in 0 .. N
        PROVE  R[n] = IF n = 0 THEN 0 ELSE R[n - 1] + subs[n].capacity
    <3>1. CASE n = 0
      BY <3>1
    <3>2. CASE n = 1
      <4>1. R[0] = 0 /\ R[1] = subs[1].capacity /\ subs[1].capacity \in Int
        BY <3>2
      <4>. QED
        BY <3>2, <4>1
    <3>3. CASE n = 2
      <4>1. R[1] = subs[1].capacity /\ R[2] = subs[1].capacity + subs[2].capacity
        BY <3>3
      <4>. QED
        BY <3>3, <4>1
    <3>. QED
      BY <3>1, <3>2, <3>3
  <2>2. R = [n \in 0 .. N |-> R[n]]
    OBVIOUS
  <2> HIDE DEF R
  <2>. QED
    BY <2>1, <2>2
<1> HIDE DEF R
<1>3. Sum = [n \in 0 .. N |-> IF n = 0 THEN 0 ELSE Sum[n - 1] + subs[n].capacity]
  BY <1>2
<1> HIDE DEF Sum
<1>4. \A n \in 0 .. N : Sum[n] = IF n = 0 THEN 0 ELSE Sum[n - 1] + subs[n].capacity
  BY <1>3
<1>5. Sum[0] = 0
  BY <1>4
<1>6. N >= 1 => Sum[1] = subs[1].capacity
  BY <1>4, <1>5
<1>7. N = 2 => Sum[2] = subs[1].capacity + subs[2].capacity
  BY <1>4, <1>6
<1>. QED
  BY <1>1, <1>5, <1>6, <1>7

LEMMA CapacityOfTwo ==
  ASSUME NEW a, NEW b, a.capacity \in Int, b.capacity \in Int
  PROVE  /\ Capacity(<<>>) = 0
         /\ Capacity(<<a>>) = a.capacity
         /\ Capacity(<<a, b>>) = a.capacity + b.capacity
<1>1. Capacity(<<>>) = 0
  <2> DEFINE p == <<>>
  <2>1. Len(p) = 0
    OBVIOUS
  <2> HIDE DEF p
  <2>2. Capacity(p) = 0
    BY <2>1, CapacityOfFew
  <2>. QED
    BY <2>2 DEF p
<1>2. Capacity(<<a>>) = a.capacity
  <2> DEFINE p == <<a>>
  <2>1. Len(p) = 1 /\ p[1] = a
    OBVIOUS
  <2> HIDE DEF p
  <2>2. Capacity(p) = a.capacity
    BY <2>1, CapacityOfFew
  <2>. QED
    BY <2>2 DEF p
<1>3. Capacity(<<a, b>>) = a.capacity + b.capacity
  <2> DEFINE p == <<a, b>>
  <2>1. Len(p) = 2 /\ p[1] = a /\ p[2] = b
    OBVIOUS
  <2> HIDE DEF p
  <2>2. \A n \in 1 .. Len(p) : p[n].capacity \in Int
    BY <2>1
  <2>3. Capacity(p) = a.capacity + b.capacity
    BY <2>1, <2>2, CapacityOfFew
  <2>. QED
    BY <2>3 DEF p
<1>. QED
  BY <1>1, <1>2, <1>3


-----------------------------------------------------------------------------
(* Places for the constants                                                  *)

LEMMA OneAfterAnother ==
  ASSUME NEW a, NEW b
  PROVE  <<a>> \o <<b>> = <<a, b>> /\ <<a>> \o <<>> = <<a>> /\ <<>> \o <<b>> = <<b>>
<1> DEFINE T == {a, b}
           s == <<a>>
           t == <<b>>
           e == <<>>
<1>1. s \in Seq(T) /\ t \in Seq(T) /\ e \in Seq(T)
  OBVIOUS
<1>2. Len(s) = 1 /\ s[1] = a /\ Len(t) = 1 /\ t[1] = b /\ Len(e) = 0
  OBVIOUS
<1>3. s \o e = s /\ e \o t = t
  <2> HIDE DEF s, t, T
  <2>. QED
    BY <1>1, ConcatEmptySeq
<1>4. s \o t = <<a, b>>
  <2> DEFINE u == s \o t
  <2>1. u \in Seq(T) /\ Len(u) = 2 /\ u[1] = a /\ u[2] = b
    <3>1. /\ s \o t \in Seq(T) /\ Len(s \o t) = Len(s) + Len(t)
          /\ \A i \in 1 .. Len(s) + Len(t) : (s \o t)[i] = IF i <= Len(s) THEN s[i] ELSE t[i - Len(s)]
      <4> HIDE DEF s, t, T
      <4>. QED
        BY <1>1, ConcatProperties
    <3> HIDE DEF s, t, T
    <3>. QED
      BY <1>2, <3>1
  <2> HIDE DEF u, T
  <2>2. u = <<a, b>>
    BY <2>1
  <2>. QED
    BY <2>2 DEF u
<1>. QED
  BY <1>3, <1>4

(* The two places that were found are two.                                    *)
LEMMA ConstantTilesDiffer ==
  ASSUME NEW d \in Devices, NEW S, Len(ConstantTiles(d, S)) = 2
  PROVE  /\ ConstantTiles(d, S)[1] \in Candidates(d, S) /\ ConstantTiles(d, S)[2] \in Candidates(d, S)
         /\ ConstantTiles(d, S)[1].name # ConstantTiles(d, S)[2].name
         /\ ConstantTiles(d, S)[1] \in ToSet(ConstantTiles(d, S))
         /\ ConstantTiles(d, S)[2] \in ToSet(ConstantTiles(d, S))
<1> DEFINE C == Candidates(d, S)
           N == Len(d.grid)
           D == {s \in Seq(C) : Len(s) <= 2}
           Found == CHOOSE f : f = [n \in 0 .. N |->
                      IF n = 0 THEN <<>>
                      ELSE IF d.grid[n] \in C THEN Shifted(f[n - 1], d.grid[n]) ELSE f[n - 1]]
           F == [e \in (1 .. N) \X D |-> IF d.grid[e[1]] \in C THEN Shifted(e[2], d.grid[e[1]]) ELSE e[2]]
<1>1. d.grid \in Seq(ToSet(d.grid)) /\ N \in Nat /\ DOMAIN d.grid = 1 .. N
  BY GridAssumption
<1>2. ConstantTiles(d, S) = Found[N]
  BY DEF ConstantTiles
<1>3. ASSUME NEW s \in D, NEW g \in C
      PROVE  /\ Shifted(s, g) \in D
             /\ Shifted(s, g) = s \/ Shifted(s, g) = <<g>> \/ (s # <<>> /\ Shifted(s, g) = <<g, s[1]>>)
  <2>1. CASE ~(Len(s) < 2 \/ (g.x < s[1].x /\ g.y < s[1].y))
    BY <2>1 DEF Shifted
  <2>2. CASE (Len(s) < 2 \/ (g.x < s[1].x /\ g.y < s[1].y)) /\ s = <<>>
    <3>1. Shifted(s, g) = <<g>> \o SubSeq(s, 1, 0)
      BY <2>2 DEF Shifted
    <3>2. SubSeq(s, 1, 0) = <<>>
      BY <2>2
    <3>3. <<g>> \o <<>> = <<g>>
      OBVIOUS
    <3>4. Shifted(s, g) = <<g>>
      BY <3>1, <3>2, <3>3
    <3>. QED
      BY <3>4
  <2>3. CASE (Len(s) < 2 \/ (g.x < s[1].x /\ g.y < s[1].y)) /\ s # <<>>
    <3>1. Shifted(s, g) = <<g>> \o SubSeq(s, 1, 1)
      BY <2>3 DEF Shifted
    <3>2. s \in Seq(C) /\ Len(s) <= 2 /\ Len(s) # 0
      BY <2>3
    <3>6. Len(s) \in Nat /\ 1 \in 1 .. Len(s) /\ 1 \in DOMAIN s
      BY <3>2
    <3>7. s[1] \in C
      BY <3>2, <3>6
    <3>3. SubSeq(s, 1, 1) = <<s[1]>>
      <4>1. SubSeq(s, 1, 1) \in Seq(C) /\ Len(SubSeq(s, 1, 1)) = 1 /\ SubSeq(s, 1, 1)[1] = s[1]
        <5>1. /\ SubSeq(s, 1, 1) \in Seq(C)
              /\ Len(SubSeq(s, 1, 1)) = IF 1 <= 1 THEN 1 - 1 + 1 ELSE 0
              /\ \A i \in 1 .. 1 - 1 + 1 : SubSeq(s, 1, 1)[i] = s[1 + i - 1]
          <6>1. \A i \in 1 .. 1 : s[i] \in C
            BY <3>7
          <6> HIDE DEF C, D
          <6>. QED
            BY <6>1, SubSeqProperties
        <5>. QED
          BY <5>1
      <4> DEFINE t == SubSeq(s, 1, 1)
      <4>2. t \in Seq(C) /\ Len(t) = 1 /\ t[1] = s[1]
        BY <4>1
      <4> HIDE DEF t, C, D
      <4>3. t = <<s[1]>>
        BY <4>2
      <4>. QED
        BY <4>3 DEF t
    <3>4. <<g>> \o <<s[1]>> = <<g, s[1]>>
      BY OneAfterAnother
    <3>5. Shifted(s, g) = <<g, s[1]>>
      BY <3>1, <3>3, <3>4
    <3>. QED
      BY <2>3, <3>5, <3>7
  <2>. QED
    BY <2>1, <2>2, <2>3
<1>4. Found = [n \in 0 .. N |-> IF n = 0 THEN <<>>
                                ELSE IF d.grid[n] \in C THEN Shifted(Found[n - 1], d.grid[n]) ELSE Found[n - 1]]
  <2>1. F \in [(1 .. N) \X D -> D]
    <3>1. ASSUME NEW e \in (1 .. N) \X D
          PROVE  (IF d.grid[e[1]] \in C THEN Shifted(e[2], d.grid[e[1]]) ELSE e[2]) \in D
      <4>1. e[2] \in D
        OBVIOUS
      <4> HIDE DEF C, D
      <4>. QED
        BY <1>3, <4>1
    <3>. QED
      BY <3>1
  <2>2. <<>> \in D
    OBVIOUS
  <2>3. PICK R \in [0 .. N -> D] : Steps(R, N, <<>>, F)
    <3> HIDE DEF F, D, N
    <3>. QED
      BY <1>1, <2>1, <2>2, StepsExist
  <2>4. ASSUME NEW n \in 0 .. N
        PROVE  R[n] = IF n = 0 THEN <<>>
                      ELSE IF d.grid[n] \in C THEN Shifted(R[n - 1], d.grid[n]) ELSE R[n - 1]
    <3>1. CASE n = 0
      BY <2>3, <3>1 DEF Steps
    <3>2. CASE n # 0
      <4>1. n - 1 \in 0 .. N /\ n \in 1 .. N
        BY <1>1, <3>2
      <4>2. R[n - 1] \in D
        BY <4>1
      <4>3. R[n] = F[<<n, R[n - 1]>>]
        <5> HIDE DEF F
        <5>. QED
          BY <2>3, <3>2 DEF Steps
      <4>4. <<n, R[n - 1]>> \in (1 .. N) \X D
        BY <4>1, <4>2
      <4>5. F[<<n, R[n - 1]>>] = IF d.grid[n] \in C THEN Shifted(R[n - 1], d.grid[n]) ELSE R[n - 1]
        <5> HIDE DEF D, C
        <5>. QED
          BY <4>4
      <4>. QED
        BY <3>2, <4>3, <4>5
    <3>. QED
      BY <3>1, <3>2
  <2> HIDE DEF C, D, F
  <2>5. R = [n \in 0 .. N |-> IF n = 0 THEN <<>>
                              ELSE IF d.grid[n] \in C THEN Shifted(R[n - 1], d.grid[n]) ELSE R[n - 1]]
    BY <2>4
  <2>. QED
    BY <2>5
<1> HIDE DEF Found
<1> DEFINE Good(n) == /\ Found[n] \in D
                      /\ \A i \in DOMAIN Found[n] : \E a \in 1 .. n : Found[n][i] = d.grid[a]
                      /\ Len(Found[n]) = 2 => Found[n][1] # Found[n][2]
<1>5. ASSUME NEW n \in Nat, n + 1 <= N, Good(n) PROVE Good(n + 1)
  <2>1. n + 1 \in 1 .. N /\ n + 1 \in 0 .. N /\ (n + 1) - 1 = n
    BY <1>1, <1>5
  <2>2. Found[n + 1] = IF d.grid[n + 1] \in C THEN Shifted(Found[n], d.grid[n + 1]) ELSE Found[n]
    <3> HIDE DEF C
    <3>. QED
      BY <1>4, <2>1
  <2>3. \A i \in DOMAIN Found[n] : \E a \in 1 .. n + 1 : Found[n][i] = d.grid[a]
    BY <1>5
  <2>4. CASE Found[n + 1] = Found[n]
    BY <1>5, <2>3, <2>4
  <2>5. CASE d.grid[n + 1] \in C
    <3> DEFINE g == d.grid[n + 1]
               s == Found[n]
    <3>0. s \in D /\ g \in C
      BY <1>5, <2>5
    <3>1. /\ Shifted(s, g) \in D
          /\ Shifted(s, g) = s \/ Shifted(s, g) = <<g>> \/ (s # <<>> /\ Shifted(s, g) = <<g, s[1]>>)
      <4> HIDE DEF C, D, g, s
      <4>. QED
        BY <1>3, <3>0
    <3>2. Found[n + 1] = Shifted(s, g)
      BY <2>2, <2>5
    <3>3. CASE Shifted(s, g) = <<g>>
      BY <2>1, <3>1, <3>2, <3>3
    <3>4. CASE s # <<>> /\ Shifted(s, g) = <<g, s[1]>>
      <4>1. 1 \in DOMAIN s
        BY <1>5, <3>4
      <4>2. PICK a \in 1 .. n : s[1] = d.grid[a]
        BY <1>5, <4>1
      <4>3. a \in DOMAIN d.grid /\ n + 1 \in DOMAIN d.grid /\ a # n + 1
        BY <1>1, <2>1
      <4>4. d.grid[a] # d.grid[n + 1]
        BY <4>3, GridAssumption
      <4>5. a \in 1 .. n + 1 /\ n + 1 \in 1 .. n + 1
        BY <2>1
      <4>6. Found[n + 1] = <<g, s[1]>> /\ g # s[1]
        BY <3>2, <3>4, <4>2, <4>4
      <4>. QED
        BY <3>1, <3>2, <4>2, <4>5, <4>6
    <3>. QED
      BY <2>4, <3>1, <3>2, <3>3, <3>4
  <2>. QED
    BY <2>2, <2>4, <2>5
<1>6. Good(0)
  <2>1. Found[0] = <<>>
    BY <1>1, <1>4
  <2>. QED
    BY <2>1
<1>7. Good(N)
  <2> DEFINE T == {n \in Nat : n <= N => Good(n)}
  <2>1. 0 \in T
    <3> HIDE DEF Good
    <3>. QED
      BY <1>6
  <2>2. ASSUME NEW n \in Nat, n \in T PROVE n + 1 \in T
    <3> HIDE DEF Good
    <3>1. CASE n + 1 <= N
      <4>1. Good(n)
        BY <1>1, <2>2, <3>1
      <4>. QED
        BY <1>5, <3>1, <4>1
    <3>2. CASE ~(n + 1 <= N)
      BY <3>2
    <3>. QED
      BY <3>1, <3>2
  <2> HIDE DEF T
  <2>3. N \in T
    BY <1>1, <2>1, <2>2, EveryNatural
  <2> HIDE DEF Good
  <2>. QED
    BY <1>1, <2>3 DEF T
<1> DEFINE found == ConstantTiles(d, S)
<1>8. found \in Seq(C) /\ Len(found) = 2 /\ found[1] # found[2]
  <2>1. Found[N] \in Seq(C) /\ (Len(Found[N]) = 2 => Found[N][1] # Found[N][2])
    <3> HIDE DEF C
    <3>. QED
      BY <1>7
  <2> HIDE DEF C
  <2>2. found = Found[N] /\ Len(found) = 2
    BY <1>2
  <2> HIDE DEF found
  <2>. QED
    BY <2>1, <2>2
<1>9. 1 \in DOMAIN found /\ 2 \in DOMAIN found /\ found[1] \in C /\ found[2] \in C
  <2> HIDE DEF C, found
  <2>1. DOMAIN found = 1 .. 2 /\ found \in [1 .. Len(found) -> C]
    BY <1>8, LenProperties
  <2>2. 1 \in 1 .. Len(found) /\ 2 \in 1 .. Len(found)
    BY <1>8
  <2>. QED
    BY <2>1, <2>2
<1>10. \A g, h \in C : g.name = h.name => g = h
  <2>1. \A g \in C : g \in ToSet(d.grid)
    BY DEF Candidates
  <2>2. \A g \in ToSet(d.grid) : \E i \in DOMAIN d.grid : g = d.grid[i]
    BY DEF ToSet
  <2>. QED
    BY <2>1, <2>2, GridAssumption
<1> HIDE DEF found
<1>11. found[1] \in ToSet(found) /\ found[2] \in ToSet(found)
  BY <1>9 DEF ToSet
<1>12. found[1].name # found[2].name
  BY <1>8, <1>9, <1>10
<1>. QED
  BY <1>9, <1>11, <1>12 DEF found

(* The places that have the constants otherwise.                              *)
LEMMA NullPlacesDiffer ==
  ASSUME NEW d \in Devices, Cardinality(NullPlaces(d)) >= 2
  PROVE  /\ NullPlace(d, 1) \in NullPlaces(d) /\ NullPlace(d, 2) \in NullPlaces(d)
         /\ NullPlace(d, 1).name # NullPlace(d, 2).name
<1> DEFINE S == NullPlaces(d)
           B == {e \in S \X S : InRowsBefore(e[1], e[2])}
<1>1. /\ d.grid \in Seq(ToSet(d.grid))
      /\ \A g \in ToSet(d.grid) : g.x \in Int /\ g.y \in Int
      /\ \A g, h \in ToSet(d.grid) : g.name = h.name \/ <<g.x, g.y>> = <<h.x, h.y>> => g = h
  <2>1. \A g \in ToSet(d.grid) : \E i \in DOMAIN d.grid : g = d.grid[i]
    BY DEF ToSet
  <2>2. /\ d.grid \in Seq(ToSet(d.grid))
        /\ \A i, j \in DOMAIN d.grid :
             d.grid[i].name = d.grid[j].name \/ <<d.grid[i].x, d.grid[i].y>> = <<d.grid[j].x, d.grid[j].y>> => i = j
        /\ \A g \in ToSet(d.grid) : g.x \in Int /\ g.y \in Int
    BY GridAssumption
  <2>3. ASSUME NEW g \in ToSet(d.grid), NEW h \in ToSet(d.grid),
               g.name = h.name \/ <<g.x, g.y>> = <<h.x, h.y>>
        PROVE  g = h
    <3>1. PICK i \in DOMAIN d.grid : g = d.grid[i]
      BY <2>1
    <3>2. PICK j \in DOMAIN d.grid : h = d.grid[j]
      BY <2>1
    <3>3. i = j
      BY <2>2, <2>3, <3>1, <3>2
    <3>. QED
      BY <3>1, <3>2, <3>3
  <2>. QED
    BY <2>2, <2>3
<1>2. S \subseteq ToSet(d.grid)
  BY DEF NullPlaces
<1>3. IsFiniteSet(S)
  <2>1. DOMAIN d.grid = 1 .. Len(d.grid) /\ Len(d.grid) \in Nat
    BY <1>1
  <2>2. IsFiniteSet(1 .. Len(d.grid))
    BY <2>1, FS_Interval
  <2>3. d.grid \in Surjection(1 .. Len(d.grid), ToSet(d.grid))
    BY <1>1, <2>1 DEF Surjection, ToSet
  <2>4. IsFiniteSet(ToSet(d.grid))
    BY <2>2, <2>3, FS_Surjection
  <2>. QED
    BY <1>2, <2>4, FS_Subset
<1>4. IsStrictOrder(S, B)
  <2>1. \A g, h \in S : <<g, h>> \in B <=> InRowsBefore(g, h)
    OBVIOUS
  <2>2. \A g \in S : g.x \in Int /\ g.y \in Int
    BY <1>1, <1>2
  <2>3. ASSUME NEW g \in S, NEW h \in S, g # h PROVE InRowsBefore(g, h) \/ InRowsBefore(h, g)
    <3>1. g.x # h.x \/ g.y # h.y
      BY <1>1, <1>2, <2>3
    <3>. QED
      BY <2>2, <3>1 DEF InRowsBefore
  <2>4. ASSUME NEW g \in S, NEW h \in S, InRowsBefore(g, h) PROVE ~InRowsBefore(h, g)
    BY <2>2, <2>4 DEF InRowsBefore
  <2>5. ASSUME NEW f \in S, NEW g \in S, NEW h \in S, InRowsBefore(f, g), InRowsBefore(g, h)
        PROVE  InRowsBefore(f, h)
    BY <2>2, <2>5 DEF InRowsBefore
  <2> HIDE DEF B, S
  <2>. QED
    BY <2>1, <2>3, <2>4, <2>5 DEF IsStrictOrder
<1>5. Cardinality(S) \in Nat /\ Cardinality(S) >= 2
  BY <1>3, FS_CardinalityType
<1>6. ASSUME NEW n \in 1 .. 2
      PROVE  /\ NullPlace(d, n) \in S
             /\ Cardinality(Below(S, B, NullPlace(d, n))) = n - 1
  <2>1. n - 1 \in 0 .. Cardinality(S) - 1
    BY <1>5
  <2>2. \E g \in S : Cardinality(Below(S, B, g)) = n - 1
    <3> HIDE DEF S, B
    <3>. QED
      BY <1>3, <1>4, <2>1, EveryRank
  <2>3. \A g \in S : Below(S, B, g) = {h \in NullPlaces(d) : InRowsBefore(h, g)}
    BY DEF Below
  <2>4. \E g \in NullPlaces(d) : Cardinality({h \in NullPlaces(d) : InRowsBefore(h, g)}) = n - 1
    <3> HIDE DEF B
    <3>. QED
      BY <2>2, <2>3
  <2>5. NullPlace(d, n) \in NullPlaces(d)
        /\ Cardinality({h \in NullPlaces(d) : InRowsBefore(h, NullPlace(d, n))}) = n - 1
    BY <2>4 DEF NullPlace
  <2> HIDE DEF B
  <2>. QED
    BY <2>3, <2>5
<1>7. NullPlace(d, 1) # NullPlace(d, 2)
  <2> HIDE DEF B, S
  <2>1. Cardinality(Below(S, B, NullPlace(d, 1))) = 0 /\ Cardinality(Below(S, B, NullPlace(d, 2))) = 1
    BY <1>6
  <2>. QED
    BY <2>1
<1>8. NullPlace(d, 1) \in S /\ NullPlace(d, 2) \in S
  BY <1>6
<1>. QED
  BY <1>1, <1>2, <1>7, <1>8


-----------------------------------------------------------------------------
(* What the steps keep                                                       *)

SynthInv == PadsHaveNumbers /\ SynthTilesHaveAPlace

LEMMA InitInv == Init => IInv
<1> SUFFICES ASSUME Init PROVE IInv
  OBVIOUS
<1>1. dev \in Devices /\ pc = "tiles" /\ todo = dev.recipes /\ tiles = <<>> /\ synth = <<>> /\ locs = <<>>
  BY DEF Init
<1>2. DOMAIN synth = {} /\ DOMAIN tiles = {}
  BY <1>1
<1>3. PadsHaveNumbers /\ SynthTilesHaveAPlace /\ ConstantsComeLast
  <2>1. IsFiniteSet(DOMAIN synth)
    BY <1>2, FS_EmptySet
  <2>. QED
    BY <1>1, <1>2, <2>1 DEF PadsHaveNumbers, SynthTilesHaveAPlace, ConstantsComeLast, AllArePads, Emitting
<1>4. PortsAreSorted /\ PadsAreCounted /\ LocsFollow /\ PadsHaveTiles /\ ArchIsWritten
  BY <1>1 DEF PortsAreSorted, PadsAreCounted, LocsFollow, PadsHaveTiles, ArchIsWritten, IsDrawn, Emitting
<1>5. RecipesAreFollowed
  BY <1>1, <1>2, RecipesAssumption DEF RecipesAreFollowed
<1>. QED
  BY <1>1, <1>3, <1>4, <1>5 DEF IInv

LEMMA SynthUnchanged ==
  ASSUME SynthInv, UNCHANGED <<dev, synth>>
  PROVE  SynthInv'
<1>1. PadsHaveNumbers'
  BY DEF SynthInv, PadsHaveNumbers
<1>2. SynthTilesHaveAPlace'
  BY DEF SynthInv, SynthTilesHaveAPlace
<1>. QED
  BY <1>1, <1>2 DEF SynthInv

LEMMA PadsUnchanged ==
  ASSUME UNCHANGED <<dev, synth>>
  PROVE  AllArePads' = AllArePads /\ HasConstants' = HasConstants
  BY DEF AllArePads, HasConstants, IsVbrk

LEMMA RaisedInv ==
  ASSUME IInv, pc' = "raised", UNCHANGED <<dev, todo, tiles, synth, locs>>
  PROVE  IInv'
<1>1. dev' \in Devices /\ SynthInv'
  BY SynthUnchanged DEF IInv, SynthInv
<1>2. PortsAreSorted' /\ PadsAreCounted' /\ LocsFollow' /\ ArchIsWritten'
  BY DEF PortsAreSorted, PadsAreCounted, LocsFollow, ArchIsWritten, IsDrawn, Emitting
<1>3. ConstantsComeLast'
  BY PadsUnchanged DEF IInv, ConstantsComeLast, Emitting
<1>4. PadsHaveTiles'
  BY DEF IInv, PadsHaveTiles, Emitting
<1>5. RecipesAreFollowed'
  BY DEF IInv, RecipesAreFollowed, MadeOfSites
<1>. QED
  BY <1>1, <1>2, <1>3, <1>4, <1>5 DEF IInv, SynthInv

-----------------------------------------------------------------------------
(* Recipes                                                                   *)

LEMMA RecipeInv ==
  ASSUME IInv, pc = "tiles", pc' = "tiles", ElsewhereUnchanged, RecipesAreFollowed'
  PROVE  IInv'
<1>1. dev' \in Devices /\ SynthInv'
  BY SynthUnchanged DEF IInv, SynthInv, ElsewhereUnchanged
<1>2. PortsAreSorted' /\ PadsAreCounted' /\ ArchIsWritten'
  BY DEF PortsAreSorted, PadsAreCounted, ArchIsWritten, IsDrawn
<1>3. ConstantsComeLast'
  BY PadsUnchanged DEF IInv, ConstantsComeLast, Emitting, ElsewhereUnchanged
<1>4. LocsFollow' /\ PadsHaveTiles'
  BY DEF IInv, LocsFollow, PadsHaveTiles, Emitting, ElsewhereUnchanged
<1>. QED
  BY <1>1, <1>2, <1>3, <1>4 DEF IInv, SynthInv

(* What is left of the recipes when one of them has been followed.            *)
LEMMA RestOfRecipes ==
  ASSUME NEW S, NEW s \in Seq(S), s # <<>>
  PROVE  /\ Head(s) \in S /\ Head(s) \in ToSet(s) /\ Tail(s) \in Seq(S)
         /\ \A r \in ToSet(s) : r = Head(s) \/ r \in ToSet(Tail(s))
<1>1. Len(s) \in Nat /\ Len(s) # 0 /\ DOMAIN s = 1 .. Len(s)
  BY EmptySeq
<1>2. Head(s) = s[1] /\ 1 \in DOMAIN s
  BY <1>1
<1>3. Head(s) \in S /\ Head(s) \in ToSet(s)
  BY <1>1, <1>2, ElementOfSeq DEF ToSet
<1>4. /\ Tail(s) \in Seq(S)
      /\ Len(Tail(s)) = Len(s) - 1
      /\ \A i \in 1 .. Len(s) - 1 : Tail(s)[i] = s[i + 1]
  BY <1>1, HeadTailProperties
<1>5. ASSUME NEW r \in ToSet(s), r # Head(s) PROVE r \in ToSet(Tail(s))
  <2>1. PICK i \in DOMAIN s : r = s[i]
    BY DEF ToSet
  <2>2. i # 1 /\ i - 1 \in 1 .. Len(s) - 1 /\ (i - 1) + 1 = i
    BY <1>1, <1>2, <1>5, <2>1
  <2>3. i - 1 \in DOMAIN Tail(s)
    BY <1>1, <1>4, <2>2
  <2>4. Tail(s)[i - 1] = r
    BY <1>4, <2>1, <2>2
  <2>. QED
    BY <2>3, <2>4 DEF ToSet
<1>. QED
  BY <1>3, <1>4, <1>5

(* A tile of several sites is made once, as its recipe says.                  *)
LEMMA FollowedInv ==
  ASSUME IInv, pc = "tiles", pc' \in {"tiles", "raised"}, todo # <<>>, todo' = Tail(todo), dev' = dev,
         NEW STATE new, tiles' = Over(new, tiles),
         \A r \in ToSet(dev.recipes) : r.how = "capacity" =>
           /\ <<r.tile>> \in DOMAIN new => /\ ImportTileCapacity(r, dev.assigned).ok
                                           /\ new[<<r.tile>>] = ImportTileCapacity(r, dev.assigned).subs
           /\ r = Head(todo) => <<r.tile>> \in DOMAIN new
  PROVE  RecipesAreFollowed'
<1>1. todo \in Seq(ToSet(dev.recipes))
  BY DEF IInv, RecipesAreFollowed
<1>2. todo' \in Seq(ToSet(dev.recipes)) /\ \A r \in ToSet(todo) : r = Head(todo) \/ r \in ToSet(todo')
  BY <1>1, RestOfRecipes
<1>3. ASSUME NEW r \in ToSet(dev.recipes), r.how = "capacity"
      PROVE  /\ <<r.tile>> \in DOMAIN tiles' => MadeOfSites(r)'
             /\ <<r.tile>> \in DOMAIN tiles' \/ r \in ToSet(todo')
  <2> DEFINE n == <<r.tile>>
             made == ImportTileCapacity(r, dev.assigned)
  <2>1. /\ n \in DOMAIN tiles => made.ok /\ tiles[n] = made.subs
        /\ n \in DOMAIN tiles \/ r \in ToSet(todo)
    BY <1>3 DEF IInv, RecipesAreFollowed, MadeOfSites
  <2>2. /\ DOMAIN tiles' = DOMAIN new \union DOMAIN tiles
        /\ n \in DOMAIN new => tiles'[n] = new[n]
        /\ n \in DOMAIN tiles /\ n \notin DOMAIN new => tiles'[n] = tiles[n]
    <3>1. /\ DOMAIN Over(new, tiles) = DOMAIN new \union DOMAIN tiles
          /\ \A z \in DOMAIN new : Over(new, tiles)[z] = new[z]
          /\ \A z \in DOMAIN tiles : z \notin DOMAIN new => Over(new, tiles)[z] = tiles[z]
      BY OverAny
    <3>. QED
      BY <3>1
  <2>3. /\ n \in DOMAIN new => made.ok /\ new[n] = made.subs
        /\ r = Head(todo) => n \in DOMAIN new
    BY <1>3
  <2>4. ASSUME n \in DOMAIN tiles' PROVE made.ok /\ tiles'[n] = made.subs
    <3> HIDE DEF made
    <3>. QED
      BY <2>1, <2>2, <2>3, <2>4
  <2>5. n \in DOMAIN tiles' => MadeOfSites(r)'
    BY <2>4 DEF MadeOfSites
  <2>6. n \in DOMAIN tiles' \/ r \in ToSet(todo')
    <3> HIDE DEF made
    <3>. QED
      BY <1>2, <2>1, <2>2, <2>3
  <2>. QED
    BY <2>5, <2>6
<1>4. ASSUME NEW r \in {q \in ToSet(dev.recipes) : q.how = "capacity"}
      PROVE  /\ <<r.tile>> \in DOMAIN tiles' => MadeOfSites(r)'
             /\ pc' = "raised" \/ <<r.tile>> \in DOMAIN tiles' \/ r \in ToSet(todo')
  BY <1>3
<1>. QED
  BY <1>2, <1>4 DEF RecipesAreFollowed

(* The sub tiles that are made of the sites of a tile: one for each, in their *)
(* order, with some of its wires on their sides.                              *)
IsMadeFrom(subs, at, sites) ==
  /\ DOMAIN subs = 1 .. Len(sites) /\ subs \in Seq(ToSet(subs))
  /\ \A i, j \in 1 .. Len(sites) : at[i] = at[j] => i = j
  /\ \A i, j \in 1 .. Len(sites) : i < j => ~SiteBefore(sites[at[j]], sites[at[i]])
  /\ \A i \in 1 .. Len(sites) :
       /\ subs[i].capacity = 1
       /\ subs[i].ins \subseteq Wires(sites[at[i]].pins, "IN")
       /\ subs[i].outs \subseteq Wires(sites[at[i]].pins, "OUT")

LEMMA WiresOfSome ==
  ASSUME NEW P, NEW Q, P \subseteq Q, NEW dir
  PROVE  Wires(P, dir) \subseteq Wires(Q, dir)
BY DEF Wires

LEMMA CapacityOfSites ==
  ASSUME NEW d \in Devices, NEW r \in ToSet(d.recipes), r.how = "capacity", NEW assigned,
         ImportTileCapacity(r, assigned).ok
  PROVE  \E at \in [1 .. Len(r.sites) -> 1 .. Len(r.sites)] :
           IsMadeFrom(ImportTileCapacity(r, assigned).subs, at, r.sites)
<1> DEFINE n == Len(r.sites)
           used == [i \in DOMAIN r.sites |-> [r.sites[i] EXCEPT !.pins = UsedPins(r.sites[i], r.unused)]]
           sites == SortedSites(used)
           made == HeterogeneousTile(r.tile, sites, r.alternatives, assigned)
           subs == made.subs
<1>1. /\ r.sites \in Seq(ToSet(r.sites))
      /\ \A s \in ToSet(r.sites) :
           /\ {"type", "x", "y", "pins"} \subseteq DOMAIN s
           /\ s.type \in ToSet(Alphabet) /\ s.x \in Int /\ s.y \in Int
  BY RecipesAssumption
<1>3. DOMAIN r.sites = 1 .. n /\ n \in Nat /\ \A i \in DOMAIN r.sites : r.sites[i] \in ToSet(r.sites)
  BY <1>1 DEF ToSet
<1>4. ASSUME NEW i \in DOMAIN r.sites
      PROVE  /\ used[i].type = r.sites[i].type /\ used[i].x = r.sites[i].x /\ used[i].y = r.sites[i].y
             /\ used[i].pins \subseteq r.sites[i].pins
  <2>1. {"type", "x", "y", "pins"} \subseteq DOMAIN r.sites[i]
    BY <1>1, <1>3
  <2>2. used[i] = [r.sites[i] EXCEPT !.pins = UsedPins(r.sites[i], r.unused)]
    OBVIOUS
  <2>3. used[i].pins = UsedPins(r.sites[i], r.unused)
    BY <2>1, <2>2
  <2>4. used[i].type = r.sites[i].type /\ used[i].x = r.sites[i].x /\ used[i].y = r.sites[i].y
    BY <2>1, <2>2
  <2>. QED
    BY <2>3, <2>4 DEF UsedPins
<1>5. /\ used \in Seq(ToSet(used)) /\ Len(used) = n
      /\ \A s \in ToSet(used) : \E i \in DOMAIN r.sites : s = used[i]
  <2>1. DOMAIN used = 1 .. n /\ \A i \in DOMAIN used : used[i] \in ToSet(used)
    BY <1>3 DEF ToSet
  <2>2. used = [i \in 1 .. n |-> used[i]]
    BY <1>3
  <2>3. \A s \in ToSet(used) : \E i \in DOMAIN r.sites : s = used[i]
    BY DEF ToSet
  <2> HIDE DEF used, n
  <2>. QED
    BY <1>3, <2>1, <2>2, <2>3
<1>6. \A s \in ToSet(used) : s.type \in ToSet(Alphabet) /\ s.x \in Int /\ s.y \in Int
  <2> SUFFICES ASSUME NEW s \in ToSet(used) PROVE s.type \in ToSet(Alphabet) /\ s.x \in Int /\ s.y \in Int
    OBVIOUS
  <2> HIDE DEF used
  <2>1. PICK i \in DOMAIN r.sites : s = used[i]
    BY <1>5
  <2>2. s.type = r.sites[i].type /\ s.x = r.sites[i].x /\ s.y = r.sites[i].y
    BY <1>4, <2>1
  <2>3. r.sites[i] \in ToSet(r.sites)
    BY <1>3
  <2>. QED
    BY <1>1, <2>2, <2>3
<1>7. PICK at \in [1 .. n -> 1 .. n] :
        /\ sites = [i \in 1 .. n |-> used[at[i]]]
        /\ \A i, j \in 1 .. n : i < j => ~SiteBefore(used[at[j]], used[at[i]])
        /\ \A i, j \in 1 .. n : at[i] = at[j] => i = j
  <2> HIDE DEF used
  <2>1. \E at \in [1 .. Len(used) -> 1 .. Len(used)] :
          /\ SortedSites(used) = [i \in 1 .. Len(used) |-> used[at[i]]]
          /\ \A i, j \in 1 .. Len(used) : i < j => ~SiteBefore(used[at[j]], used[at[i]])
          /\ \A i, j \in 1 .. Len(used) : at[i] = at[j] => i = j
    BY <1>5, <1>6, SitesSort
  <2>2. Len(used) = n
    BY <1>5
  <2> HIDE DEF n
  <2>. QED
    BY <2>1, <2>2
<1>8. \A i, j \in 1 .. n : SiteBefore(used[i], used[j]) <=> SiteBefore(r.sites[i], r.sites[j])
  <2> HIDE DEF used
  <2>. QED
    BY <1>3, <1>4 DEF SiteBefore
<1>9. ImportTileCapacity(r, assigned) = made
  BY DEF ImportTileCapacity
<1> HIDE DEF used, sites
<1>10. DOMAIN sites = 1 .. n /\ \A i \in 1 .. n : at[i] \in 1 .. n /\ sites[i].pins \subseteq r.sites[at[i]].pins
  BY <1>3, <1>4, <1>7
<1>11. /\ DOMAIN subs = 1 .. n
       /\ \A i \in 1 .. n :
            /\ subs[i].ins = Wires(sites[i].pins, "IN") /\ subs[i].outs = Wires(sites[i].pins, "OUT")
            /\ subs[i].capacity = 1
       /\ subs = [i \in 1 .. n |-> subs[i]]
  <2>1. made.ok
    <3> HIDE DEF made
    <3>. QED
      BY <1>9
  <2> DEFINE sub(i) == SubTile(Wires(sites[i].pins, "IN"), Wires(sites[i].pins, "OUT"), 1,
                               SiteMappings(sites, i, r.alternatives),
                               Locations(r.tile, {p.wire : p \in sites[i].pins}, assigned))
  <2>2. subs = [i \in DOMAIN sites |-> sub(i)]
    BY <2>1 DEF HeterogeneousTile
  <2>3. \A i : /\ sub(i).ins = Wires(sites[i].pins, "IN") /\ sub(i).outs = Wires(sites[i].pins, "OUT")
               /\ sub(i).capacity = 1
    BY DEF SubTile
  <2> HIDE DEF sub, made, n
  <2>4. DOMAIN subs = 1 .. n /\ \A i \in 1 .. n : subs[i] = sub(i)
    BY <1>10, <2>2
  <2>5. subs = [i \in 1 .. n |-> subs[i]]
    BY <1>10, <2>2, <2>4
  <2> HIDE DEF subs
  <2>. QED
    BY <2>3, <2>4, <2>5
<1> HIDE DEF made
<1>12. subs \in Seq(ToSet(subs))
  <2>1. \A i \in DOMAIN subs : subs[i] \in ToSet(subs)
    BY DEF ToSet
  <2> DEFINE T == ToSet(subs)
  <2>2. n \in Nat /\ subs = [i \in 1 .. n |-> subs[i]] /\ \A i \in 1 .. n : subs[i] \in T
    BY <1>3, <1>11, <2>1
  <2> HIDE DEF subs, n, T
  <2>3. subs \in Seq(T)
    BY <2>2
  <2>. QED
    BY <2>3 DEF T
<1>13. ASSUME NEW i \in 1 .. n
       PROVE  /\ subs[i].ins \subseteq Wires(r.sites[at[i]].pins, "IN")
              /\ subs[i].outs \subseteq Wires(r.sites[at[i]].pins, "OUT")
  <2>1. subs[i].ins = Wires(sites[i].pins, "IN") /\ subs[i].outs = Wires(sites[i].pins, "OUT")
    BY <1>11
  <2>2. sites[i].pins \subseteq r.sites[at[i]].pins
    BY <1>10
  <2>. QED
    BY <2>1, <2>2, WiresOfSome
<1>14. \A i, j \in 1 .. n : i < j => ~SiteBefore(r.sites[at[j]], r.sites[at[i]])
  BY <1>7, <1>8, <1>10
<1> HIDE DEF subs
<1>15. IsMadeFrom(subs, at, r.sites)
  BY <1>7, <1>11, <1>12, <1>13, <1>14 DEF IsMadeFrom
<1>. QED
  BY <1>9, <1>15 DEF subs

LEMMA NameOfOne ==
  ASSUME NEW a, NEW b, <<a>> = <<b>>
  PROVE  a = b
<1>1. <<a>>[1] = a /\ <<b>>[1] = b
  OBVIOUS
<1>. QED
  BY <1>1

LEMMA WrittenInv ==
  ASSUME IInv, pc = "tiles", todo # <<>>, ElsewhereUnchanged,
         NEW STATE newBlocks, NEW STATE new, Write(newBlocks, new),
         \A r \in ToSet(dev.recipes) : r.how = "capacity" =>
           /\ <<r.tile>> \in DOMAIN new => /\ ImportTileCapacity(r, dev.assigned).ok
                                           /\ new[<<r.tile>>] = ImportTileCapacity(r, dev.assigned).subs
           /\ r = Head(todo) => <<r.tile>> \in DOMAIN new
  PROVE  IInv'
<1>1. pc' = "tiles" /\ todo' = Tail(todo) /\ dev' = dev /\ tiles' = Over(new, tiles)
  BY DEF Write, ElsewhereUnchanged
<1>2. RecipesAreFollowed'
  BY <1>1, FollowedInv
<1>. QED
  BY <1>1, <1>2, RecipeInv

LEMMA RaiseInv ==
  ASSUME IInv, Raise, ElsewhereUnchanged
  PROVE  IInv'
<1>1. pc' = "raised" /\ UNCHANGED <<dev, todo, tiles, synth, locs>>
  BY DEF Raise, ElsewhereUnchanged
<1>. QED
  BY <1>1, RaisedInv

LEMMA WriteBlockInv ==
  ASSUME IInv, pc = "tiles", todo # <<>>, ElsewhereUnchanged, NEW STATE made, WriteBlock(made),
         Head(todo).how \notin {"physical", "capacity", "equiv"}
  PROVE  IInv'
<1>1. CASE made.ok
  <2>1. Write(Only(made.pb.name, made.pb), <<>>)
    BY <1>1 DEF WriteBlock
  <2>2. DOMAIN <<>> = {}
    OBVIOUS
  <2>3. \A r \in ToSet(dev.recipes) : r.how = "capacity" => r # Head(todo)
    OBVIOUS
  <2>. QED
    BY <2>1, <2>2, <2>3, WrittenInv
<1>2. CASE ~made.ok
  BY <1>2, RaiseInv DEF WriteBlock
<1>. QED
  BY <1>1, <1>2

LEMMA WriteTileInv ==
  ASSUME IInv, pc = "tiles", todo # <<>>, ElsewhereUnchanged, NEW STATE made, WriteTile(Head(todo).tile, made),
         Head(todo).how \in {"physical", "capacity"},
         Head(todo).how = "capacity" => made = ImportTileCapacity(Head(todo), dev.assigned)
  PROVE  IInv'
<1> DEFINE q == Head(todo)
           new == Only(<<q.tile>>, made.subs)
<1>1. CASE made.ok
  <2>1. Write(<<>>, new)
    BY <1>1 DEF WriteTile
  <2>2. DOMAIN new = {<<q.tile>>} /\ new[<<q.tile>>] = made.subs
    BY DEF Only
  <2>3. q \in ToSet(dev.recipes) /\ Writes(q, q.tile) /\ dev \in Devices
    BY RestOfRecipes DEF IInv, RecipesAreFollowed, Writes
  <2>4. ASSUME NEW r \in ToSet(dev.recipes), r.how = "capacity"
        PROVE  /\ <<r.tile>> \in DOMAIN new => /\ ImportTileCapacity(r, dev.assigned).ok
                                               /\ new[<<r.tile>>] = ImportTileCapacity(r, dev.assigned).subs
               /\ r = q => <<r.tile>> \in DOMAIN new
    <3>1. <<r.tile>> \in DOMAIN new => r = q
      <4>1. <<r.tile>> \in DOMAIN new => r.tile = q.tile
        BY <2>2, NameOfOne
      <4>. QED
        BY <2>3, <2>4, <4>1, RecipesAssumption
    <3>2. r = q => made = ImportTileCapacity(r, dev.assigned)
      BY <2>4
    <3> HIDE DEF new, q
    <3>. QED
      BY <1>1, <2>2, <3>1, <3>2
  <2> HIDE DEF new
  <2>. QED
    BY <2>1, <2>4, WrittenInv
<1>2. CASE ~made.ok
  BY <1>2, RaiseInv DEF WriteTile
<1>. QED
  BY <1>1, <1>2

LEMMA RecipesInv ==
  ASSUME IInv, \/ ImportFromPrjxray \/ ImportTiles \/ ImportFromDatabase \/ CreateEquivalents
               \/ \E type \in NetTypes : ReadNodes(type) \/ Expand(type)
  PROVE  IInv'
<1> DEFINE r == Head(todo)
<1>1. todo \in Seq(ToSet(dev.recipes)) /\ (todo # <<>> => r \in ToSet(dev.recipes))
  BY RestOfRecipes DEF IInv, RecipesAreFollowed
<1>2. dev \in Devices
  BY DEF IInv
<1>3. CASE ImportFromPrjxray
  <2>1. pc = "tiles" /\ todo # <<>> /\ ElsewhereUnchanged /\ r.how \in {"sites", "fused", "site_as_tile"}
    BY <1>3 DEF ImportFromPrjxray, Recipe
  <2>2. WriteBlock(ImportTile(r)) \/ WriteBlock(ImportFusedTile(r)) \/ WriteBlock(ImportSiteAsTile(r))
    BY <1>3 DEF ImportFromPrjxray
  <2>. QED
    BY <2>1, <2>2, WriteBlockInv
<1>4. CASE ImportTiles
  <2>1. pc = "tiles" /\ todo # <<>> /\ ElsewhereUnchanged /\ r.how \in {"physical", "capacity"}
    BY <1>4 DEF ImportTiles, Recipe
  <2>2. CASE r.how = "physical"
    <3> DEFINE made == ImportPhysicalTile(blocks[r.tile], {blocks[b] : b \in r.equivalents}, dev.assigned)
    <3>1. WriteTile(r.tile, made)
      BY <1>4, <2>2 DEF ImportTiles, Recipe
    <3> HIDE DEF made
    <3>. QED
      BY <2>1, <2>2, <3>1, WriteTileInv
  <2>3. CASE r.how = "capacity"
    <3>1. WriteTile(r.tile, ImportTileCapacity(r, dev.assigned))
      BY <1>4, <2>3 DEF ImportTiles, Recipe
    <3>. QED
      BY <2>1, <2>3, <3>1, WriteTileInv
  <2>. QED
    BY <2>1, <2>2, <2>3
<1>5. CASE ImportFromDatabase
  <2>1. pc = "tiles" /\ todo # <<>> /\ ElsewhereUnchanged /\ r.how = "database"
    BY <1>5 DEF ImportFromDatabase, Recipe
  <2>2. PICK pick \in Picks(dev.db, r.tile), rows \in Orderings(SiteRows(dev.db, r.tile)) :
          WriteBlock(ImportTileFromDatabase(dev.db, r, rows, pick, NodeSets(nets[r.tile].sets)))
    BY <1>5 DEF ImportFromDatabase
  <2>. QED
    BY <2>1, <2>2, WriteBlockInv
<1>6. CASE CreateEquivalents
  <2>1. pc = "tiles" /\ todo # <<>> /\ ElsewhereUnchanged /\ r.how = "equiv"
    BY <1>6 DEF CreateEquivalents, Recipe
  <2> DEFINE netsOf == [t \in DOMAIN nets |-> NodeSets(nets[t].sets)]
             made == [b \in {c \in DOMAIN r.blocks : Hosts(dev.db, r, c) # <<>>} |->
                        CreatePbType(dev.db, r, b, netsOf)]
             new == [t \in ToSet(r.tiles) |-> CreateTile(dev.db, r, t, made, dev.assigned)]
             written == [n \in {<<t>> : t \in DOMAIN new} |-> new[n[1]].subs]
             newBlocks == [b \in DOMAIN made |-> made[b].pb]
  <2>2. Write(newBlocks, written) \/ Raise
    BY <1>6 DEF CreateEquivalents
  <2>3. DOMAIN written = {<<t>> : t \in ToSet(r.tiles)}
    OBVIOUS
  <2> HIDE DEF written, newBlocks, made, new, netsOf
  <2>4. ASSUME NEW c \in ToSet(dev.recipes), c.how = "capacity"
        PROVE  c # r /\ <<c.tile>> \notin DOMAIN written
    <3>1. c # r
      BY <2>1, <2>4
    <3>2. c.tile \notin ToSet(r.tiles)
      BY <1>1, <1>2, <2>1, <2>4, <3>1, RecipesAssumption DEF Writes
    <3>. QED
      BY <2>3, <3>1, <3>2, NameOfOne
  <2>5. CASE Write(newBlocks, written)
    BY <2>1, <2>4, <2>5, WrittenInv
  <2>6. CASE Raise
    BY <2>1, <2>6, RaiseInv
  <2>. QED
    BY <2>2, <2>5, <2>6
<1>7. CASE \E type \in NetTypes : ReadNodes(type) \/ Expand(type)
  <2>1. PICK type \in NetTypes : ReadNodes(type) \/ Expand(type)
    BY <1>7
  <2>2. UNCHANGED <<pc, todo, blocks, tiles>> /\ ElsewhereUnchanged
    BY <2>1 DEF ReadNodes, Expand
  <2>3. pc = "tiles"
    BY <2>1 DEF NetTypes, Recipe
  <2>4. RecipesAreFollowed'
    BY <2>2 DEF IInv, RecipesAreFollowed, MadeOfSites, ElsewhereUnchanged
  <2>. QED
    BY <2>2, <2>3, <2>4, RecipeInv
<1>. QED
  BY <1>3, <1>4, <1>5, <1>6, <1>7


-----------------------------------------------------------------------------
(* Pads                                                                      *)

LEMMA StartRegionInv ==
  ASSUME dev \in Devices, dev' = dev, pc' = "ports", HasPorts(dev), NEW STATE n, n \in DOMAIN dev.regions, StartRegion(n)
  PROVE  PortsAreSorted' /\ PadsAreCounted'
<1>1. region' = n /\ count' = <<>> /\ ports' = SortedPorts(dev, dev.regions[n].ports)
  BY DEF StartRegion
<1>2. dev.regions[n] \in ToSet(dev.regions)
  BY DEF ToSet
<1>3. /\ ports' \in Seq(ToSet(dev.regions[n].ports))
      /\ \A i, j \in DOMAIN ports' :
           i < j /\ PortType(dev, ports'[i]) = "input" => PortType(dev, ports'[j]) = "input"
  BY <1>1, <1>2, PortsSort
<1>4. PortsAreSorted'
  BY <1>1, <1>3 DEF PortsAreSorted, IsInput, HasPorts
<1>5. DOMAIN count' = {}
  BY <1>1
<1>6. PadsAreCounted'
  BY <1>5 DEF PadsAreCounted
<1>. QED
  BY <1>4, <1>6

LEMMA FinishTilesInv ==
  ASSUME IInv, FinishTiles
  PROVE  IInv'
<1>1. pc = "tiles" /\ todo = <<>> /\ UNCHANGED <<dev, todo, nets, blocks, tiles, synth, locs, arch>>
  BY DEF FinishTiles
<1>2. dev \in Devices /\ SynthInv'
  BY <1>1, SynthUnchanged DEF IInv, SynthInv
<1>3. RecipesAreFollowed'
  BY <1>1 DEF IInv, RecipesAreFollowed, MadeOfSites
<1>4. AllArePads' /\ locs' = <<>>
  BY <1>1, PadsUnchanged DEF IInv, ConstantsComeLast, LocsFollow
<1>5. CASE HasPorts(dev)
  <2>1. pc' = "ports" /\ StartRegion(1)
    BY <1>5 DEF FinishTiles
  <2>2. dev.regions \in Seq(ToSet(dev.regions)) /\ dev.regions # <<>>
    BY <1>2, <1>5, PortsAssumption DEF HasPorts
  <2>3. 1 \in DOMAIN dev.regions
    BY <2>2, EmptySeq
  <2>4. PortsAreSorted' /\ PadsAreCounted'
    BY <1>1, <1>2, <1>5, <2>1, <2>3, StartRegionInv
  <2>5. ConstantsComeLast' /\ LocsFollow' /\ PadsHaveTiles' /\ ArchIsWritten'
    BY <1>4, <2>1 DEF ConstantsComeLast, LocsFollow, PadsHaveTiles, ArchIsWritten, IsDrawn, Emitting
  <2>. QED
    BY <1>1, <1>2, <1>3, <2>1, <2>4, <2>5 DEF IInv, SynthInv
<1>6. CASE ~HasPorts(dev)
  <2>1. pc' = "arch" /\ dev'.mode # "roi"
    BY <1>1, <1>6 DEF FinishTiles, HasPorts
  <2>2. PortsAreSorted' /\ PadsAreCounted'
    BY <2>1 DEF PortsAreSorted, PadsAreCounted
  <2>3. ConstantsComeLast' /\ LocsFollow' /\ PadsHaveTiles' /\ ArchIsWritten'
    BY <1>4, <2>1 DEF ConstantsComeLast, LocsFollow, PadsHaveTiles, ArchIsWritten, IsDrawn, Emitting
  <2>. QED
    BY <1>1, <1>2, <1>3, <2>1, <2>2, <2>3 DEF IInv, SynthInv
<1>. QED
  BY <1>5, <1>6

LEMMA NextRegionInv ==
  ASSUME IInv, NextRegion
  PROVE  IInv'
<1>1. pc = "ports" /\ pc' = "ports" /\ UNCHANGED <<dev, pc, todo, nets, blocks, tiles, synth, locs, arch>>
      /\ region < Len(dev.regions) /\ StartRegion(region + 1)
  BY DEF NextRegion
<1>2. dev \in Devices /\ SynthInv'
  BY <1>1, SynthUnchanged DEF IInv, SynthInv
<1>3. HasPorts(dev) /\ region \in DOMAIN dev.regions
  BY <1>1 DEF IInv, PortsAreSorted
<1>4. region + 1 \in DOMAIN dev.regions
  <2>1. DOMAIN dev.regions = 1 .. Len(dev.regions) /\ Len(dev.regions) \in Nat
    BY <1>2, PortsAssumption, LenProperties
  <2>. QED
    BY <1>1, <1>3, <2>1
<1>5. PortsAreSorted' /\ PadsAreCounted'
  BY <1>1, <1>2, <1>3, <1>4, StartRegionInv
<1>6. ConstantsComeLast'
  BY <1>1, PadsUnchanged DEF IInv, ConstantsComeLast, Emitting
<1>7. LocsFollow' /\ PadsHaveTiles' /\ ArchIsWritten' /\ RecipesAreFollowed'
  BY <1>1 DEF IInv, LocsFollow, PadsHaveTiles, ArchIsWritten, IsDrawn, Emitting, RecipesAreFollowed, MadeOfSites
<1>. QED
  BY <1>1, <1>2, <1>5, <1>6, <1>7 DEF IInv, SynthInv

(* The new pin of a pad is the next one, and an input when one before it is.  *)
LEMMA PinIsAdded ==
  ASSUME NEW old, NEW pin, NEW more,
         {"loc", "name", "pins", "outside"} \subseteq DOMAIN old,
         old.pins \in Seq(ToSet(old.pins)),
         old.pins = <<>> \/ IsPad(old),
         pin.z = Len(old.pins), pin.type \in {"input", "output"},
         (\E i \in DOMAIN old.pins : old.pins[i].type = "input") => pin.type = "input",
         NEW new, new = [old EXCEPT !.pins = Append(@, pin), !.outside = @ \union more]
  PROVE  /\ IsPad(new) /\ new.name = old.name /\ new.loc = old.loc /\ Len(new.pins) = Len(old.pins) + 1
         /\ (\E i \in DOMAIN new.pins : new.pins[i].type = "input") => pin.type = "input"
<1> DEFINE pins == old.pins
           all == Append(pins, pin)
           n == Len(pins)
<1>1. new.name = old.name /\ new.loc = old.loc /\ new.pins = all /\ DOMAIN new = DOMAIN old
  OBVIOUS
<1>2. n \in Nat /\ DOMAIN pins = 1 .. n /\ \A i \in DOMAIN pins : pins[i] \in ToSet(pins)
  BY DEF ToSet
<1>3. /\ all \in Seq(ToSet(pins) \union {pin}) /\ Len(all) = n + 1
      /\ \A i \in 1 .. n : all[i] = pins[i]
      /\ all[n + 1] = pin
  <2> DEFINE T == ToSet(pins) \union {pin}
  <2>1. pins \in Seq(T) /\ pin \in T
    BY SeqMonotonic
  <2> HIDE DEF T, pins
  <2>2. all \in Seq(T) /\ Len(all) = n + 1 /\ (\A i \in 1 .. n : all[i] = pins[i]) /\ all[n + 1] = pin
    BY <2>1, AppendProperties
  <2>. QED
    BY <2>2 DEF T
<1>4. \A i \in DOMAIN pins : pins[i].z = i - 1 /\ pins[i].type \in {"input", "output"}
  BY <1>2 DEF IsPad
<1>5. \A i, j \in DOMAIN pins : i < j /\ pins[i].type = "input" => pins[j].type = "input"
  BY <1>2 DEF IsPad
<1>6. (\E i \in DOMAIN pins : pins[i].type = "input") => pin.type = "input"
  OBVIOUS
<1>7. pin.z = n
  OBVIOUS
<1> HIDE DEF all, n, pins
<1>8. DOMAIN all = 1 .. n + 1
  BY <1>2, <1>3
<1>9. all \in Seq(ToSet(all)) /\ all # <<>>
  <2>1. \A i \in 1 .. n + 1 : all[i] \in ToSet(all)
    BY <1>8 DEF ToSet
  <2>2. all = [i \in 1 .. n + 1 |-> all[i]]
    BY <1>3, <1>8
  <2>3. n + 1 \in Nat
    BY <1>2
  <2> DEFINE T == ToSet(all)
  <2> HIDE DEF T
  <2>4. all \in Seq(T)
    BY <2>1, <2>2, <2>3 DEF T
  <2>5. all # <<>>
    BY <1>2, <1>3
  <2>. QED
    BY <2>4, <2>5 DEF T
<1>10. \A i \in DOMAIN all : all[i].z = i - 1 /\ all[i].type \in {"input", "output"}
  <2> SUFFICES ASSUME NEW i \in 1 .. n + 1 PROVE all[i].z = i - 1 /\ all[i].type \in {"input", "output"}
    BY <1>8
  <2>1. CASE i \in 1 .. n
    BY <1>2, <1>3, <1>4, <2>1
  <2>2. CASE i = n + 1
    BY <1>2, <1>3, <1>7, <2>2
  <2>. QED
    BY <1>2, <2>1, <2>2
<1>11. \A i, j \in DOMAIN all : i < j /\ all[i].type = "input" => all[j].type = "input"
  <2> SUFFICES ASSUME NEW i \in 1 .. n + 1, NEW j \in 1 .. n + 1, i < j, all[i].type = "input"
               PROVE  all[j].type = "input"
    BY <1>8
  <2>1. i \in 1 .. n /\ all[i] = pins[i]
    BY <1>2, <1>3
  <2>2. CASE j \in 1 .. n
    BY <1>2, <1>3, <1>5, <2>1, <2>2
  <2>3. CASE j = n + 1
    BY <1>2, <1>3, <1>6, <2>1, <2>3
  <2>. QED
    BY <1>2, <2>2, <2>3
<1>12. IsPad(new)
  <2>1. {"loc", "name", "pins", "outside"} \subseteq DOMAIN new
    BY <1>1
  <2>2. new.pins \in Seq(ToSet(new.pins)) /\ new.pins # <<>>
    BY <1>1, <1>9
  <2>3. \A i \in DOMAIN new.pins : new.pins[i].z = i - 1 /\ new.pins[i].type \in {"input", "output"}
    BY <1>1, <1>10
  <2>4. \A i, j \in DOMAIN new.pins : i < j /\ new.pins[i].type = "input" => new.pins[j].type = "input"
    BY <1>1, <1>11
  <2>. QED
    BY <2>1, <2>2, <2>3, <2>4 DEF IsPad
<1>13. (\E i \in DOMAIN all : all[i].type = "input") => pin.type = "input"
  <2> SUFFICES ASSUME NEW i \in 1 .. n + 1, all[i].type = "input" PROVE pin.type = "input"
    BY <1>8
  <2>1. CASE i \in 1 .. n
    BY <1>2, <1>3, <1>6, <2>1
  <2>2. CASE i = n + 1
    BY <1>3, <2>2
  <2>. QED
    BY <1>2, <2>1, <2>2
<1>. QED
  BY <1>1, <1>3, <1>12, <1>13 DEF n, pins


LEMMA PlacePortInv ==
  ASSUME IInv, PlacePort
  PROVE  IInv'
<1> DEFINE p == Head(ports)
<1>1. pc = "ports" /\ ports # <<>> /\ UNCHANGED <<dev, todo, nets, blocks, tiles, region, locs, arch>>
  BY DEF PlacePort
<1>2. PICK at \in WiresForPort(dev, dev.regions[region], p) :
        IF MayPlace(dev, dev.regions[region], synth, count, at[1])
        THEN /\ synth' = AddPort(dev, synth, count, p, at)
             /\ count' = CountPad(count, at[1])
             /\ ports' = Tail(ports) /\ pc' = pc
        ELSE pc' = "raised" /\ UNCHANGED <<synth, count, ports>>
  BY DEF PlacePort
<1>3. CASE ~MayPlace(dev, dev.regions[region], synth, count, at[1])
  BY <1>1, <1>2, <1>3, RaisedInv
<1>4. CASE MayPlace(dev, dev.regions[region], synth, count, at[1])
  <2> DEFINE t == at[1]
             old == IF t \in DOMAIN synth THEN synth[t] ELSE NewTile(dev, synth, t)
             pin == Pin(dev, p, at[2], Counted(count, t))
             new == [old EXCEPT !.pins = Append(@, pin), !.outside = @ \union p.outside]
  <2>1. /\ synth' = Over(Only(t, new), synth)
        /\ count' = Over(Only(t, Counted(count, t) + 1), count)
        /\ ports' = Tail(ports) /\ pc' = "ports"
    BY <1>1, <1>2, <1>4 DEF AddPort, CountPad
  <2>2. Cardinality(VprTilesOf(dev, t)) = 1 /\ (t \in DOMAIN synth => t \in DOMAIN count)
    BY <1>4 DEF MayPlace
  <2>3. dev \in Devices /\ AllArePads /\ HasPorts(dev) /\ region \in DOMAIN dev.regions
    BY <1>1 DEF IInv, ConstantsComeLast, PortsAreSorted
  <2>4. /\ ports \in Seq(ToSet(dev.regions[region].ports))
        /\ \A i, j \in DOMAIN ports : i < j /\ IsInput(ports[i]) => IsInput(ports[j])
    BY <1>1 DEF IInv, PortsAreSorted
  <2>5. \A u \in DOMAIN count :
          /\ u \in DOMAIN synth /\ count[u] = Len(synth[u].pins)
          /\ (\E i \in DOMAIN synth[u].pins : synth[u].pins[i].type = "input") => \A i \in DOMAIN ports : IsInput(ports[i])
    BY <1>1 DEF IInv, PadsAreCounted
  <2>6. /\ Len(ports) \in Nat /\ DOMAIN ports = 1 .. Len(ports) /\ 1 \in DOMAIN ports /\ p = ports[1]
        /\ Tail(ports) \in Seq(ToSet(dev.regions[region].ports))
        /\ Len(Tail(ports)) = Len(ports) - 1 /\ DOMAIN Tail(ports) = 1 .. Len(ports) - 1
        /\ \A i \in 1 .. Len(ports) - 1 : Tail(ports)[i] = ports[i + 1]
    <3>1. Len(ports) \in Nat /\ DOMAIN ports = 1 .. Len(ports) /\ Len(ports) # 0
      BY <1>1, <2>4, EmptySeq, LenProperties
    <3>2. /\ Tail(ports) \in Seq(ToSet(dev.regions[region].ports))
          /\ Len(Tail(ports)) = Len(ports) - 1
          /\ \A i \in 1 .. Len(ports) - 1 : Tail(ports)[i] = ports[i + 1]
      BY <1>1, <2>4, HeadTailProperties
    <3>3. DOMAIN Tail(ports) = 1 .. Len(ports) - 1
      BY <3>2, LenProperties
    <3>4. p = ports[1]
      BY <3>1
    <3>. QED
      BY <3>1, <3>2, <3>3, <3>4
  <2>7. /\ pin.z = Counted(count, t) /\ pin.type \in {"input", "output"}
        /\ (pin.type = "input" <=> IsInput(p))
    BY DEF Pin, PortType, IsInput
  <2> HIDE DEF pin
  <2>8. /\ {"loc", "name", "pins", "outside"} \subseteq DOMAIN old
        /\ old.pins \in Seq(ToSet(old.pins)) /\ (old.pins = <<>> \/ IsPad(old))
        /\ Counted(count, t) = Len(old.pins)
        /\ (\E i \in DOMAIN old.pins : old.pins[i].type = "input") => IsInput(p)
        /\ old.loc = MapTileToVprCoord(dev, t)
    <3>1. CASE t \in DOMAIN synth
      <4>1. old = synth[t] /\ t \in DOMAIN count
        BY <2>2, <3>1
      <4>2. IsPad(old)
        BY <2>3, <3>1, <4>1 DEF AllArePads
      <4>3. Counted(count, t) = Len(old.pins)
        BY <2>5, <4>1 DEF Counted
      <4>4. (\E i \in DOMAIN old.pins : old.pins[i].type = "input") => IsInput(p)
        BY <2>5, <2>6, <4>1
      <4>5. old.loc = MapTileToVprCoord(dev, t)
        BY <3>1, <4>1 DEF IInv, SynthTilesHaveAPlace
      <4> HIDE DEF old
      <4>6. {"loc", "name", "pins", "outside"} \subseteq DOMAIN old /\ old.pins \in Seq(ToSet(old.pins))
        BY <4>2 DEF IsPad
      <4>. QED
        BY <4>2, <4>3, <4>4, <4>5, <4>6
    <3>2. CASE t \notin DOMAIN synth
      <4>1. old = NewTile(dev, synth, t) /\ t \notin DOMAIN count
        BY <2>5, <3>2
      <4>2. /\ {"loc", "name", "pins", "outside"} \subseteq DOMAIN old
            /\ old.pins = <<>> /\ old.loc = MapTileToVprCoord(dev, t)
        BY <4>1 DEF NewTile
      <4>3. Counted(count, t) = 0
        BY <4>1 DEF Counted
      <4> HIDE DEF old
      <4>4. old.pins \in Seq(ToSet(old.pins)) /\ Len(old.pins) = 0 /\ DOMAIN old.pins = {}
        BY <4>2, EmptySeq
      <4>. QED
        BY <4>2, <4>3, <4>4
    <3>. QED
      BY <3>1, <3>2
  <2> HIDE DEF t
  <2>9. t \notin DOMAIN synth => old.name = <<"SYN-IOPAD", Cardinality(DOMAIN synth)>>
    BY DEF NewTile
  <2>10. t \in DOMAIN synth => old = synth[t]
    OBVIOUS
  <2> HIDE DEF old
  <2>11. /\ IsPad(new) /\ new.name = old.name /\ new.loc = old.loc /\ Len(new.pins) = Len(old.pins) + 1
         /\ (\E i \in DOMAIN new.pins : new.pins[i].type = "input") => pin.type = "input"
    <3>1. pin.z = Len(old.pins) /\ ((\E i \in DOMAIN old.pins : old.pins[i].type = "input") => pin.type = "input")
      BY <2>7, <2>8
    <3>. QED
      BY <2>7, <2>8, <3>1, PinIsAdded
  <2> HIDE DEF new
  <2>12. /\ DOMAIN synth' = DOMAIN synth \union {t} /\ synth'[t] = new
         /\ \A u \in DOMAIN synth : u # t => synth'[u] = synth[u]
    <3>1. /\ DOMAIN Over(Only(t, new), synth) = DOMAIN synth \union {t}
          /\ Over(Only(t, new), synth)[t] = new
          /\ \A z \in DOMAIN synth : z # t => Over(Only(t, new), synth)[z] = synth[z]
      BY DEF Over, Only
    <3>. QED
      BY <2>1, <3>1
  <2>13. /\ DOMAIN count' = DOMAIN count \union {t} /\ count'[t] = Counted(count, t) + 1
         /\ \A u \in DOMAIN count : u # t => count'[u] = count[u]
    <3> DEFINE c == Counted(count, t) + 1
    <3> HIDE DEF c
    <3>1. /\ DOMAIN Over(Only(t, c), count) = DOMAIN count \union {t}
          /\ Over(Only(t, c), count)[t] = c
          /\ \A z \in DOMAIN count : z # t => Over(Only(t, c), count)[z] = count[z]
      BY DEF Over, Only
    <3>2. count' = Over(Only(t, c), count)
      BY <2>1 DEF c
    <3>3. /\ DOMAIN count' = DOMAIN count \union {t} /\ count'[t] = c
          /\ \A u \in DOMAIN count : u # t => count'[u] = count[u]
      BY <3>1, <3>2
    <3>. QED
      BY <3>3 DEF c
  <2>14. AllArePads'
    <3>1. \A u \in DOMAIN synth' : IsPad(synth'[u])
      BY <2>3, <2>11, <2>12 DEF AllArePads
    <3>. QED
      BY <3>1 DEF AllArePads
  <2>15. PadsHaveNumbers'
    <3> DEFINE D == DOMAIN synth
               k == Cardinality(D)
    <3>1. /\ IsFiniteSet(D)
          /\ \A u \in D : \E n \in 0 .. k - 1 : synth[u].name = <<"SYN-IOPAD", n>>
          /\ \A u, v \in D : synth[u].name = synth[v].name => u = v
      BY <2>3 DEF IInv, PadsHaveNumbers, AllArePads
    <3>2. k \in Nat
      BY <3>1, FS_CardinalityType
    <3>3. CASE t \in D
      <4>1. DOMAIN synth' = D
        BY <2>12, <3>3
      <4>2. \A u \in D : synth'[u].name = synth[u].name
        BY <2>10, <2>11, <2>12, <3>3
      <4>3. \A u \in D : \E n \in 0 .. Cardinality(DOMAIN synth') - 1 : synth'[u].name = <<"SYN-IOPAD", n>>
        BY <3>1, <4>1, <4>2
      <4>4. \A u, v \in D : synth'[u].name = synth'[v].name => u = v
        BY <3>1, <4>2
      <4>. QED
        BY <3>1, <4>1, <4>3, <4>4 DEF PadsHaveNumbers
    <3>4. CASE t \notin D
      <4>1. DOMAIN synth' = D \union {t}
        BY <2>12
      <4>2. IsFiniteSet(DOMAIN synth') /\ Cardinality(DOMAIN synth') = k + 1
        BY <3>1, <3>4, <4>1, FS_AddElement
      <4>3. synth'[t].name = <<"SYN-IOPAD", k>>
        BY <2>9, <2>11, <2>12, <3>4
      <4>4. \A u \in D : u # t /\ synth'[u].name = synth[u].name
        BY <2>12, <3>4
      <4>5. ASSUME NEW u \in DOMAIN synth'
            PROVE  \E n \in 0 .. Cardinality(DOMAIN synth') - 1 : synth'[u].name = <<"SYN-IOPAD", n>>
        <5>1. CASE u = t
          <6>1. k \in 0 .. Cardinality(DOMAIN synth') - 1
            BY <3>2, <4>2
          <6>. QED
            BY <4>3, <5>1, <6>1
        <5>2. CASE u \in D
          <6>1. PICK n \in 0 .. k - 1 : synth[u].name = <<"SYN-IOPAD", n>>
            BY <3>1, <5>2
          <6>2. n \in 0 .. Cardinality(DOMAIN synth') - 1
            BY <3>2, <4>2, <6>1
          <6>. QED
            BY <4>4, <5>2, <6>1, <6>2
        <5>. QED
          BY <4>1, <5>1, <5>2
      <4>6. \A u \in D : synth'[u].name # synth'[t].name
        <5>1. ASSUME NEW u \in D, synth[u].name = <<"SYN-IOPAD", k>> PROVE FALSE
          <6>1. PICK n \in 0 .. k - 1 : synth[u].name = <<"SYN-IOPAD", n>>
            BY <3>1
          <6>2. n = k
            BY <5>1, <6>1
          <6>. QED
            BY <3>2, <6>1, <6>2
        <5>. QED
          BY <4>3, <4>4, <5>1
      <4>7. \A u, v \in DOMAIN synth' : synth'[u].name = synth'[v].name => u = v
        BY <3>1, <4>1, <4>4, <4>6
      <4>. QED
        BY <4>2, <4>5, <4>7 DEF PadsHaveNumbers
    <3>. QED
      BY <3>3, <3>4
  <2>16. SynthTilesHaveAPlace'
    <3>1. \A u \in DOMAIN synth : Cardinality(VprTilesOf(dev, u)) = 1 /\ synth[u].loc = MapTileToVprCoord(dev, u)
      BY DEF IInv, SynthTilesHaveAPlace
    <3>2. \A u \in DOMAIN synth' : Cardinality(VprTilesOf(dev, u)) = 1 /\ synth'[u].loc = MapTileToVprCoord(dev, u)
      BY <2>2, <2>8, <2>11, <2>12, <3>1
    <3>. QED
      BY <1>1, <3>2 DEF SynthTilesHaveAPlace
  <2>17. PortsAreSorted'
    <3>1. \A i, j \in DOMAIN Tail(ports) : i < j /\ IsInput(Tail(ports)[i]) => IsInput(Tail(ports)[j])
      <4> SUFFICES ASSUME NEW i \in 1 .. Len(ports) - 1, NEW j \in 1 .. Len(ports) - 1, i < j, IsInput(Tail(ports)[i])
                   PROVE  IsInput(Tail(ports)[j])
        BY <2>6
      <4>1. i + 1 \in DOMAIN ports /\ j + 1 \in DOMAIN ports /\ i + 1 < j + 1
        BY <2>6
      <4>. QED
        BY <2>4, <2>6, <4>1
    <3>2. \A q : IsInput(q)' <=> IsInput(q)
      BY <1>1 DEF IsInput
    <3>3. \A i, j \in DOMAIN ports' : i < j /\ IsInput(ports'[i]) => IsInput(ports'[j])
      BY <2>1, <3>1
    <3>. QED
      BY <1>1, <2>1, <2>3, <2>6, <3>3 DEF PortsAreSorted, HasPorts, IsInput
  <2>18. PadsAreCounted'
    <3>1. ASSUME NEW u \in DOMAIN count'
          PROVE  /\ u \in DOMAIN synth' /\ count'[u] = Len(synth'[u].pins)
                 /\ (\E i \in DOMAIN synth'[u].pins : synth'[u].pins[i].type = "input") =>
                      \A i \in DOMAIN ports' : IsInput(ports'[i])
      <4>1. CASE u = t
        <5>1. u \in DOMAIN synth' /\ count'[u] = Len(synth'[u].pins)
          BY <2>8, <2>11, <2>12, <2>13, <4>1
        <5>2. ASSUME \E i \in DOMAIN new.pins : new.pins[i].type = "input", NEW i \in DOMAIN Tail(ports)
              PROVE  IsInput(Tail(ports)[i])
          <6>1. IsInput(ports[1])
            BY <2>6, <2>7, <2>11, <5>2
          <6>2. i + 1 \in DOMAIN ports /\ 1 < i + 1 /\ Tail(ports)[i] = ports[i + 1]
            BY <2>6
          <6>. QED
            BY <2>4, <2>6, <6>1, <6>2
        <5>. QED
          BY <2>1, <2>12, <4>1, <5>1, <5>2
      <4>2. CASE u # t
        <5>1. u \in DOMAIN count /\ count'[u] = count[u] /\ u \in DOMAIN synth /\ synth'[u] = synth[u]
          BY <2>5, <2>12, <2>13, <4>2
        <5>2. ASSUME \E i \in DOMAIN synth[u].pins : synth[u].pins[i].type = "input", NEW i \in DOMAIN Tail(ports)
              PROVE  IsInput(Tail(ports)[i])
          <6>1. i + 1 \in DOMAIN ports /\ Tail(ports)[i] = ports[i + 1]
            BY <2>6
          <6>. QED
            BY <2>5, <5>1, <5>2, <6>1
        <5>. QED
          BY <2>1, <2>5, <2>12, <5>1, <5>2
      <4>. QED
        BY <4>1, <4>2
    <3>. QED
      BY <1>1, <3>1 DEF PadsAreCounted, IsInput
  <2>19. ConstantsComeLast'
    BY <2>1, <2>14 DEF ConstantsComeLast, Emitting
  <2>20. LocsFollow' /\ PadsHaveTiles' /\ ArchIsWritten' /\ RecipesAreFollowed'
    BY <1>1, <2>1 DEF IInv, LocsFollow, PadsHaveTiles, ArchIsWritten, IsDrawn, Emitting, RecipesAreFollowed, MadeOfSites
  <2>. QED
    BY <1>1, <2>1, <2>3, <2>15, <2>16, <2>17, <2>18, <2>19, <2>20 DEF IInv
<1>. QED
  BY <1>3, <1>4

LEMMA LosePortInv ==
  ASSUME IInv, LosePort \/ RefuseSynthTiles
  PROVE  IInv'
<1>1. pc' = "raised" /\ UNCHANGED <<dev, todo, tiles, synth, locs>>
  BY DEF LosePort, RefuseSynthTiles
<1>. QED
  BY <1>1, RaisedInv


LEMMA FinishPortsInv ==
  ASSUME IInv, FinishPorts
  PROVE  IInv'
<1>1. /\ pc = "ports" /\ ports = <<>>
      /\ UNCHANGED <<dev, todo, nets, blocks, tiles, region, ports, count, locs, arch>>
  BY DEF FinishPorts
<1>2. dev \in Devices /\ AllArePads /\ HasPorts(dev) /\ SynthInv
  BY <1>1 DEF IInv, ConstantsComeLast, PortsAreSorted, SynthInv
<1>3. ASSUME pc' = "arch"
      PROVE  PortsAreSorted' /\ PadsAreCounted' /\ LocsFollow' /\ PadsHaveTiles' /\ ArchIsWritten' /\ RecipesAreFollowed'
  BY <1>1, <1>3 DEF IInv, PortsAreSorted, PadsAreCounted, LocsFollow, PadsHaveTiles, ArchIsWritten, IsDrawn,
                    Emitting, RecipesAreFollowed, MadeOfSites
<1>4. CASE IsOverlay(dev)
  <2>1. pc' = "arch" /\ UNCHANGED synth
    BY <1>4 DEF FinishPorts
  <2>2. SynthInv' /\ AllArePads'
    BY <1>1, <1>2, <2>1, SynthUnchanged, PadsUnchanged
  <2>3. dev'.mode # "roi"
    BY <1>1, <1>4 DEF IsOverlay
  <2>4. ConstantsComeLast'
    BY <2>2, <2>3 DEF ConstantsComeLast
  <2>. QED
    BY <1>1, <1>2, <1>3, <2>1, <2>2, <2>4 DEF IInv, SynthInv
<1>5. CASE ~IsOverlay(dev) /\ MayPlaceConstants(dev, synth)
  <2> DEFINE found == ConstantTiles(dev, synth)
             a == found[1].name
             b == found[2].name
             A == ConstantTile(dev, a, "VCC")
             B == ConstantTile(dev, b, "GND")
  <2>1. pc' = "arch" /\ synth' = Over(Only(a, A), Over(Only(b, B), synth))
    BY <1>5 DEF FinishPorts, AddConstants
  <2>2. /\ \A g \in Candidates(dev, synth) : ~g.sites
        /\ Len(found) = 2
        /\ \A g \in ToSet(found) : Cardinality(VprTilesOf(dev, g.name)) = 1
    BY <1>5 DEF MayPlaceConstants
  <2>3. /\ found[1] \in Candidates(dev, synth) /\ found[2] \in Candidates(dev, synth) /\ a # b
        /\ found[1] \in ToSet(found) /\ found[2] \in ToSet(found)
    BY <1>2, <2>2, ConstantTilesDiffer
  <2>4. /\ a \notin DOMAIN synth /\ b \notin DOMAIN synth /\ IsVbrk(a) /\ IsVbrk(b)
        /\ Cardinality(VprTilesOf(dev, a)) = 1 /\ Cardinality(VprTilesOf(dev, b)) = 1
    <3> HIDE DEF found
    <3>. QED
      BY <2>2, <2>3 DEF Candidates, IsVbrk
  <2> HIDE DEF found, a, b
  <2>5. /\ A.loc = MapTileToVprCoord(dev, a) /\ B.loc = MapTileToVprCoord(dev, b)
        /\ A.pins[1].type = "VCC" /\ B.pins[1].type = "GND" /\ Len(A.pins) = 1 /\ Len(B.pins) = 1
    BY DEF ConstantTile
  <2> HIDE DEF A, B
  <2>6. ~IsPad(A) /\ ~IsPad(B)
    <3>1. \A tile : IsPad(tile) /\ Len(tile.pins) = 1 => tile.pins[1].type \in {"input", "output"}
      <4> SUFFICES ASSUME NEW tile, IsPad(tile), Len(tile.pins) = 1 PROVE tile.pins[1].type \in {"input", "output"}
        OBVIOUS
      <4>1. DOMAIN tile.pins = 1 .. 1
        BY LenProperties DEF IsPad
      <4>. QED
        BY <4>1 DEF IsPad
    <3>. QED
      BY <2>5, <3>1
  <2>7. /\ DOMAIN synth' = DOMAIN synth \union {a, b} /\ synth'[a] = A /\ synth'[b] = B
        /\ \A u \in DOMAIN synth : synth'[u] = synth[u]
    <3>1. /\ DOMAIN Over(Only(a, A), Over(Only(b, B), synth)) = DOMAIN synth \union {a, b}
          /\ Over(Only(a, A), Over(Only(b, B), synth))[a] = A
          /\ Over(Only(a, A), Over(Only(b, B), synth))[b] = B
          /\ \A u \in DOMAIN synth : Over(Only(a, A), Over(Only(b, B), synth))[u] = synth[u]
      BY <2>3, <2>4 DEF Over, Only
    <3>. QED
      BY <2>1, <3>1
  <2>8. HasConstants'
    <3>1. \A t \in DOMAIN synth' \ {a, b} : IsPad(synth'[t])
      BY <1>2, <2>7 DEF AllArePads
    <3>2. synth'[a] = ConstantTile(dev', a, "VCC") /\ synth'[b] = ConstantTile(dev', b, "GND")
      BY <1>1, <2>7 DEF A, B
    <3>3. \E c, e \in DOMAIN synth' :
            /\ c # e /\ (\E g \in ToSet(dev'.grid) : g.name = c /\ g.vbrk /\ ~g.sites)
            /\ (\E g \in ToSet(dev'.grid) : g.name = e /\ g.vbrk /\ ~g.sites)
            /\ synth'[c] = ConstantTile(dev', c, "VCC") /\ synth'[e] = ConstantTile(dev', e, "GND")
            /\ \A t \in DOMAIN synth' \ {c, e} : IsPad(synth'[t])
      <4>1. a \in DOMAIN synth' /\ b \in DOMAIN synth' /\ a # b
        BY <2>3, <2>7
      <4>2. /\ \E g \in ToSet(dev'.grid) : g.name = a /\ g.vbrk /\ ~g.sites
            /\ \E g \in ToSet(dev'.grid) : g.name = b /\ g.vbrk /\ ~g.sites
        BY <1>1, <2>4 DEF IsVbrk
      <4>. QED
        BY <3>1, <3>2, <4>1, <4>2
    <3>. QED
      BY <3>3 DEF HasConstants, IsVbrk
  <2>9. SynthTilesHaveAPlace'
    <3>1. \A u \in DOMAIN synth : Cardinality(VprTilesOf(dev, u)) = 1 /\ synth[u].loc = MapTileToVprCoord(dev, u)
      BY DEF IInv, SynthTilesHaveAPlace
    <3>2. \A u \in DOMAIN synth' : Cardinality(VprTilesOf(dev, u)) = 1 /\ synth'[u].loc = MapTileToVprCoord(dev, u)
      BY <2>4, <2>5, <2>7, <3>1
    <3>. QED
      BY <1>1, <3>2 DEF SynthTilesHaveAPlace
  <2>10. PadsHaveNumbers'
    <3> DEFINE D == DOMAIN synth
               k == Cardinality(D)
    <3>1. /\ IsFiniteSet(D)
          /\ \A u \in D : \E n \in 0 .. k - 1 : synth[u].name = <<"SYN-IOPAD", n>>
          /\ \A u, v \in D : synth[u].name = synth[v].name => u = v
      BY <1>2 DEF IInv, PadsHaveNumbers, AllArePads
    <3>2. k \in Nat
      BY <3>1, FS_CardinalityType
    <3>3. IsFiniteSet(DOMAIN synth') /\ Cardinality(DOMAIN synth') = k + 2
      <4>1. IsFiniteSet(D \union {a}) /\ Cardinality(D \union {a}) = k + 1
        BY <2>4, <3>1, FS_AddElement
      <4>2. b \notin D \union {a} /\ DOMAIN synth' = (D \union {a}) \union {b}
        BY <2>3, <2>4, <2>7
      <4>3. IsFiniteSet(DOMAIN synth') /\ Cardinality(DOMAIN synth') = (k + 1) + 1
        BY <4>1, <4>2, FS_AddElement
      <4>. QED
        BY <3>2, <4>3
    <3>4. \A u \in DOMAIN synth' : IsPad(synth'[u]) => u \in D
      BY <2>6, <2>7
    <3>5. ASSUME NEW u \in D PROVE \E n \in 0 .. Cardinality(DOMAIN synth') - 1 : synth'[u].name = <<"SYN-IOPAD", n>>
      <4>1. PICK n \in 0 .. k - 1 : synth[u].name = <<"SYN-IOPAD", n>>
        BY <3>1
      <4>2. n \in 0 .. Cardinality(DOMAIN synth') - 1
        BY <3>2, <3>3, <4>1
      <4>. QED
        BY <2>7, <4>1, <4>2
    <3>6. \A u, v \in D : synth'[u].name = synth'[v].name => u = v
      BY <2>7, <3>1
    <3>. QED
      BY <3>3, <3>4, <3>5, <3>6 DEF PadsHaveNumbers
  <2>11. dev'.mode = "roi"
    BY <1>1, <1>2, <1>5 DEF HasPorts, IsOverlay
  <2>12. ConstantsComeLast'
    BY <2>1, <2>8, <2>11 DEF ConstantsComeLast
  <2>. QED
    BY <1>1, <1>2, <1>3, <2>1, <2>9, <2>10, <2>12 DEF IInv
<1>6. CASE ~IsOverlay(dev) /\ ~MayPlaceConstants(dev, synth)
  <2>1. pc' = "raised" /\ UNCHANGED synth
    BY <1>6 DEF FinishPorts
  <2>. QED
    BY <1>1, <2>1, RaisedInv
<1>. QED
  BY <1>4, <1>5, <1>6


-----------------------------------------------------------------------------
(* The architecture                                                          *)

(* What a pad is and what a constant is.                                      *)
LEMMA PadsAreNotConstants ==
  ASSUME IInv
  PROVE  \A t \in DOMAIN synth :
           /\ IsPad(synth[t]) <=> ~IsConstant(synth[t])
           /\ IsPad(synth[t]) => SynthName(synth[t]) = synth[t].name
<1>1. ASSUME NEW tile, IsPad(tile) PROVE ~IsConstant(tile)
  <2>1. 1 \in DOMAIN tile.pins
    BY <1>1, EmptySeq, LenProperties DEF IsPad
  <2>2. tile.pins[1].type \in {"input", "output"}
    BY <1>1, <2>1 DEF IsPad
  <2>. QED
    BY <2>2 DEF IsConstant, Signals
<1>2. \A t \in DOMAIN synth : ~IsConstant(synth[t]) => IsPad(synth[t])
  <2>1. CASE AllArePads
    BY <2>1 DEF AllArePads
  <2>2. CASE HasConstants
    <3>1. PICK a, b \in DOMAIN synth :
            /\ synth[a] = ConstantTile(dev, a, "VCC") /\ synth[b] = ConstantTile(dev, b, "GND")
            /\ \A t \in DOMAIN synth \ {a, b} : IsPad(synth[t])
      BY <2>2 DEF HasConstants
    <3>2. IsConstant(synth[a]) /\ IsConstant(synth[b])
      BY <3>1 DEF ConstantTile, IsConstant, Signals
    <3>. QED
      BY <3>1, <3>2
  <2>. QED
    BY <2>1, <2>2 DEF IInv, ConstantsComeLast
<1>. QED
  BY <1>1, <1>2 DEF SynthName

(* The names of pads are not those of tiles with connections or constants.    *)
LEMMA PadNames ==
  ASSUME NEW n, NEW w
  PROVE  <<"SYN-IOPAD", n>> # <<w>>
<1>1. Len(<<"SYN-IOPAD", n>>) = 2 /\ Len(<<w>>) = 1
  OBVIOUS
<1>. QED
  BY <1>1

(* Other tiles do not touch those of several sites.                           *)
LEMMA TilesAddedInv ==
  ASSUME IInv, dev' = dev, todo' = todo, pc \notin {"tiles", "raised"},
         NEW STATE new, tiles' = Over(new, tiles),
         \A r \in ToSet(dev.recipes) : r.how = "capacity" => <<r.tile>> \notin DOMAIN new
  PROVE  RecipesAreFollowed'
<1>1. todo = <<>> /\ todo \in Seq(ToSet(dev.recipes))
  BY DEF IInv, RecipesAreFollowed
<1>2. ToSet(todo) = {}
  BY <1>1 DEF ToSet
<1>3. /\ DOMAIN Over(new, tiles) = DOMAIN new \union DOMAIN tiles
      /\ \A z \in DOMAIN tiles : z \notin DOMAIN new => Over(new, tiles)[z] = tiles[z]
  BY DEF Over
<1>4. ASSUME NEW r \in {q \in ToSet(dev.recipes) : q.how = "capacity"}
      PROVE  <<r.tile>> \in DOMAIN tiles' /\ MadeOfSites(r)'
  <2>1. <<r.tile>> \in DOMAIN tiles /\ MadeOfSites(r)
    BY <1>2 DEF IInv, RecipesAreFollowed
  <2>2. tiles'[<<r.tile>>] = tiles[<<r.tile>>] /\ <<r.tile>> \in DOMAIN tiles'
    BY <1>3, <2>1
  <2>. QED
    BY <2>1, <2>2 DEF MadeOfSites
<1>. QED
  BY <1>1, <1>4 DEF RecipesAreFollowed

LEMMA ReadSynthTilesInv ==
  ASSUME IInv, ReadSynthTiles
  PROVE  IInv'
<1> DEFINE new == SynthTileTypes(synth)
           pads == {t \in DOMAIN synth : ~IsConstant(synth[t])}
<1>1. /\ pc = "arch" /\ OneTileAtEachLoc(synth) /\ pc' = "constants" /\ locs' = SynthLocMap(synth)
      /\ tiles' = Over(new, tiles)
      /\ UNCHANGED <<dev, todo, nets, region, ports, count, synth, arch>>
  BY DEF ReadSynthTiles
<1>2. dev' \in Devices /\ SynthInv'
  BY <1>1, SynthUnchanged DEF IInv, SynthInv
<1>3. \A t \in pads : IsPad(synth[t])
  BY PadsAreNotConstants
<1>4. /\ \A t \in pads : \E n \in 0 .. Cardinality(DOMAIN synth) - 1 : synth[t].name = <<"SYN-IOPAD", n>>
      /\ \A t, u \in pads : synth[t].name = synth[u].name => t = u
  BY <1>3 DEF IInv, PadsHaveNumbers
<1>5. DOMAIN new = {synth[t].name : t \in pads}
  BY DEF SynthTileTypes
<1>6. ASSUME NEW t \in pads PROVE new[synth[t].name] = SynthIoTile(synth[t])
  <2> DEFINE u == CHOOSE v \in pads : synth[v].name = synth[t].name
  <2>1. u \in pads /\ synth[u].name = synth[t].name
    OBVIOUS
  <2>2. u = t
    BY <1>4, <2>1
  <2>3. new[synth[t].name] = SynthIoTile(synth[u])
    BY DEF SynthTileTypes
  <2>. QED
    BY <2>2, <2>3
<1> HIDE DEF new
<1>7. PortsAreSorted' /\ PadsAreCounted' /\ ArchIsWritten' /\ LocsFollow'
  BY <1>1 DEF PortsAreSorted, PadsAreCounted, ArchIsWritten, IsDrawn, LocsFollow, Emitting
<1>8. ConstantsComeLast'
  BY <1>1, PadsUnchanged DEF IInv, ConstantsComeLast, Emitting
<1>9. PadsHaveTiles'
  <2>1. ASSUME NEW t \in DOMAIN synth, IsPad(synth[t])
        PROVE  synth[t].name \in DOMAIN tiles' /\ tiles'[synth[t].name] = SynthIoTile(synth[t])
    <3>1. t \in pads
      BY <2>1, PadsAreNotConstants
    <3>2. synth[t].name \in DOMAIN new /\ new[synth[t].name] = SynthIoTile(synth[t])
      BY <1>5, <1>6, <3>1
    <3>. QED
      BY <1>1, <3>2 DEF Over
  <2>. QED
    BY <1>1, <2>1 DEF PadsHaveTiles
<1>10. RecipesAreFollowed'
  <2>1. \A r \in ToSet(dev.recipes) : <<r.tile>> \notin DOMAIN new
    BY <1>4, <1>5, PadNames
  <2>. QED
    BY <1>1, <2>1, TilesAddedInv
<1>. QED
  BY <1>1, <1>2, <1>7, <1>8, <1>9, <1>10 DEF IInv, SynthInv

LEMMA InsertConstantTilesInv ==
  ASSUME IInv, InsertConstantTiles
  PROVE  IInv'
<1>1. /\ pc = "constants" /\ tiles' = Over(ConstantTileTypes, tiles)
      /\ UNCHANGED <<dev, todo, nets, region, ports, count, synth, arch>>
  BY DEF InsertConstantTiles
<1>2. \/ dev.mode = "roi" /\ locs' = locs /\ pc' = "layout"
      \/ dev.mode # "roi" /\ MayInsertConstants(dev) /\ locs' = Over(ConstantLocMap(dev), locs) /\ pc' = "layout"
      \/ pc' = "raised" /\ locs' = locs
  BY DEF InsertConstantTiles
<1>3. dev' \in Devices /\ SynthInv'
  BY <1>1, SynthUnchanged DEF IInv, SynthInv
<1>4. PortsAreSorted' /\ PadsAreCounted'
  BY <1>2 DEF PortsAreSorted, PadsAreCounted
<1>5. DOMAIN ConstantTileTypes = {<<"SYN-VCC">>, <<"SYN-GND">>}
  BY DEF ConstantTileTypes, Signals, SynthTileOf
<1>6. RecipesAreFollowed'
  <2>1. {SynthTileOf[s] : s \in Signals} = {"SYN-VCC", "SYN-GND"}
    BY DEF Signals, SynthTileOf
  <2>2. \A r \in ToSet(dev.recipes) : r.how = "capacity" => r.tile \notin {"SYN-VCC", "SYN-GND"}
    BY <2>1, RecipesAssumption DEF IInv
  <2>3. \A r \in ToSet(dev.recipes) : r.how = "capacity" => <<r.tile>> \notin DOMAIN ConstantTileTypes
    BY <1>5, <2>2, NameOfOne
  <2>. QED
    BY <1>1, <2>3, TilesAddedInv
<1>7. ConstantsComeLast'
  BY <1>1, <1>2, PadsUnchanged DEF IInv, ConstantsComeLast, Emitting
<1>8. LocsFollow'
  BY <1>1, <1>2 DEF IInv, LocsFollow, Emitting
<1>9. PadsHaveTiles'
  <2>1. ASSUME NEW t \in DOMAIN synth, IsPad(synth[t])
        PROVE  synth[t].name \in DOMAIN tiles' /\ tiles'[synth[t].name] = SynthIoTile(synth[t])
    <3>1. synth[t].name \in DOMAIN tiles /\ tiles[synth[t].name] = SynthIoTile(synth[t])
      BY <1>1, <2>1 DEF IInv, PadsHaveTiles
    <3>2. PICK n \in 0 .. Cardinality(DOMAIN synth) - 1 : synth[t].name = <<"SYN-IOPAD", n>>
      BY <2>1 DEF IInv, PadsHaveNumbers
    <3>3. synth[t].name \notin DOMAIN ConstantTileTypes
      BY <1>5, <3>2, PadNames
    <3>. QED
      BY <1>1, <3>1, <3>3 DEF Over
  <2>. QED
    BY <1>1, <2>1 DEF PadsHaveTiles
<1>10. ArchIsWritten'
  BY <1>2 DEF ArchIsWritten, IsDrawn
<1>. QED
  BY <1>1, <1>2, <1>3, <1>4, <1>6, <1>7, <1>8, <1>9, <1>10 DEF IInv, SynthInv, Emitting

LEMMA EmitInv ==
  ASSUME IInv, EmitLayout \/ EmitDirects
  PROVE  IInv'
<1>1. /\ pc \in {"layout", "directs"}
      /\ UNCHANGED <<dev, todo, nets, blocks, tiles, region, ports, count, synth, locs>>
  BY DEF EmitLayout, EmitDirects
<1>2. CASE pc' = "raised"
  BY <1>1, <1>2, RaisedInv
<1>3. CASE pc' # "raised"
  <2>1. \/ /\ pc' = "directs"
           /\ arch' = [layout |-> Layout(dev, locs, tiles), extent |-> Extent(dev), switches |-> Switches(dev),
                       segments |-> Segments(dev), directs |-> {}]
           /\ \A l \in DOMAIN Layout(dev, locs, tiles) : Layout(dev, locs, tiles)[l].prefix.ok
        \/ pc = "directs" /\ pc' = "done" /\ ZeroOffsetsAreSound(dev, tiles) /\ arch' = [arch EXCEPT !.directs = Directs(dev, tiles)]
    BY <1>3 DEF EmitLayout, EmitDirects
  <2>2. dev' \in Devices /\ SynthInv'
    BY <1>1, SynthUnchanged DEF IInv, SynthInv
  <2>3. PortsAreSorted' /\ PadsAreCounted'
    BY <2>1 DEF PortsAreSorted, PadsAreCounted
  <2>4. ConstantsComeLast'
    BY <1>1, <2>1, PadsUnchanged DEF IInv, ConstantsComeLast, Emitting
  <2>5. LocsFollow'
    BY <1>1, <2>1 DEF IInv, LocsFollow, Emitting
  <2>6. PadsHaveTiles' /\ RecipesAreFollowed'
    BY <1>1, <2>1 DEF IInv, PadsHaveTiles, Emitting, RecipesAreFollowed, MadeOfSites
  <2>7. ArchIsWritten'
    <3>1. CASE pc' = "directs"
      BY <1>1, <2>1, <3>1 DEF ArchIsWritten
    <3>2. CASE pc' # "directs"
      <4>1. /\ pc = "directs" /\ pc' = "done" /\ ZeroOffsetsAreSound(dev, tiles)
            /\ arch' = [arch EXCEPT !.directs = Directs(dev, tiles)]
        BY <2>1, <3>2
      <4>2. /\ {"layout", "switches", "directs"} \subseteq DOMAIN arch
            /\ \A l \in DOMAIN arch.layout : arch.layout[l].prefix.ok
            /\ arch.layout = Layout(dev, locs, tiles) /\ arch.switches = Switches(dev)
        BY <4>1 DEF IInv, ArchIsWritten, IsDrawn
      <4>3. /\ DOMAIN arch' = DOMAIN arch /\ arch'.layout = arch.layout /\ arch'.switches = arch.switches
            /\ arch'.directs = Directs(dev, tiles)
        BY <4>1, <4>2
      <4>. QED
        BY <1>1, <4>1, <4>2, <4>3 DEF ArchIsWritten
    <3>. QED
      BY <3>1, <3>2
  <2>. QED
    BY <1>1, <2>1, <2>2, <2>3, <2>4, <2>5, <2>6, <2>7 DEF IInv, SynthInv, Emitting
<1>. QED
  BY <1>2, <1>3

LEMMA InvIsKept == IInv /\ [Next]_vars => IInv'
<1> SUFFICES ASSUME IInv, [Next]_vars PROVE IInv'
  OBVIOUS
<1>1. CASE Next
  BY <1>1, RecipesInv, FinishTilesInv, PlacePortInv, LosePortInv, NextRegionInv, FinishPortsInv,
     ReadSynthTilesInv, InsertConstantTilesInv, EmitInv DEF Next
<1>2. CASE UNCHANGED vars
  <2>1. UNCHANGED <<dev, pc, todo, tiles, region, ports, count, synth, locs, arch>>
    BY <1>2 DEF vars
  <2>2. dev' \in Devices /\ SynthInv'
    BY <2>1, SynthUnchanged DEF IInv, SynthInv
  <2>3. ConstantsComeLast'
    BY <2>1, PadsUnchanged DEF IInv, ConstantsComeLast
  <2>4. PortsAreSorted' /\ PadsAreCounted'
    BY <2>1 DEF IInv, PortsAreSorted, PadsAreCounted, IsInput, HasPorts
  <2>5. LocsFollow' /\ PadsHaveTiles' /\ RecipesAreFollowed'
    BY <2>1 DEF IInv, LocsFollow, PadsHaveTiles, RecipesAreFollowed, MadeOfSites
  <2>6. ArchIsWritten'
    BY <2>1 DEF IInv, ArchIsWritten, IsDrawn
  <2>. QED
    BY <2>1, <2>2, <2>3, <2>4, <2>5, <2>6 DEF IInv, SynthInv
<1>. QED
  BY <1>1, <1>2

(* In the end all the tiles of several sites are there.                       *)
LEMMA SitesAreFollowed ==
  ASSUME IInv, pc \notin {"tiles", "raised"}, NEW r \in ToSet(dev.recipes), r.how = "capacity"
  PROVE  /\ ImportTileCapacity(r, dev.assigned).ok
         /\ tiles[<<r.tile>>] = ImportTileCapacity(r, dev.assigned).subs
<1>1. todo = <<>>
  BY DEF IInv, RecipesAreFollowed
<1>2. ToSet(todo) = {}
  BY <1>1 DEF ToSet
<1>3. <<r.tile>> \in DOMAIN tiles /\ MadeOfSites(r)
  BY <1>2 DEF IInv, RecipesAreFollowed
<1>. QED
  BY <1>3 DEF MadeOfSites


-----------------------------------------------------------------------------
(* The instances of a pad                                                    *)

(* The outputs are the first pins, and the inputs the others.                 *)
LEMMA OutputsComeFirst ==
  ASSUME NEW tile, IsPad(tile)
  PROVE  /\ PinsOfType(tile, "output") \in Nat /\ PinsOfType(tile, "input") \in Nat
         /\ PinsOfType(tile, "output") + PinsOfType(tile, "input") = Len(tile.pins)
         /\ Len(tile.pins) \in Nat \ {0} /\ DOMAIN tile.pins = 1 .. Len(tile.pins)
         /\ \A i \in DOMAIN tile.pins :
              /\ tile.pins[i].z = i - 1
              /\ \/ tile.pins[i].type = "output" /\ i <= PinsOfType(tile, "output")
                 \/ tile.pins[i].type = "input" /\ i > PinsOfType(tile, "output")
<1> DEFINE pins == tile.pins
           n == Len(pins)
           Outs == {i \in DOMAIN pins : pins[i].type = "output"}
           Ins == {i \in DOMAIN pins : pins[i].type = "input"}
           m == Cardinality(Outs)
<1>1. n \in Nat /\ n # 0 /\ DOMAIN pins = 1 .. n
  <2>1. pins \in Seq(ToSet(pins)) /\ pins # <<>>
    BY DEF IsPad
  <2>. QED
    BY <2>1, EmptySeq, LenProperties
<1>2. /\ \A i \in DOMAIN pins : pins[i].z = i - 1 /\ pins[i].type \in {"input", "output"}
      /\ \A i, j \in DOMAIN pins : i < j /\ pins[i].type = "input" => pins[j].type = "input"
  BY DEF IsPad
<1>3. IsFiniteSet(1 .. n) /\ Cardinality(1 .. n) = n
  <2> HIDE DEF n
  <2>. QED
    BY <1>1, FirstNumbers
<1>4. /\ Outs \in SUBSET (1 .. n) /\ Ins \in SUBSET (1 .. n) /\ Outs \union Ins = 1 .. n /\ Outs \cap Ins = {}
  BY <1>1, <1>2
<1>5. PinsOfType(tile, "output") = m /\ PinsOfType(tile, "input") = Cardinality(Ins)
  BY DEF PinsOfType
<1> HIDE DEF Outs, Ins
<1>6. /\ IsFiniteSet(Outs) /\ IsFiniteSet(Ins) /\ m \in Nat /\ Cardinality(Ins) \in Nat
  BY <1>3, <1>4, FS_Subset, FS_CardinalityType
<1>7. m + Cardinality(Ins) = n
  <2>1. Cardinality(Outs \union Ins) = m + Cardinality(Ins) - Cardinality(Outs \cap Ins)
    BY <1>6, FS_Union
  <2>2. Cardinality(Outs \cap Ins) = 0
    BY <1>4, FS_EmptySet
  <2>3. n = m + Cardinality(Ins) - 0
    BY <1>3, <1>4, <2>1, <2>2
  <2> DEFINE k == Cardinality(Ins)
  <2>4. m \in Nat /\ k \in Nat /\ n = m + k - 0
    BY <1>6, <2>3
  <2> HIDE DEF m, k, n
  <2>5. m + k = n
    BY <2>4
  <2>. QED
    BY <2>5 DEF k
<1>8. ASSUME NEW i \in Outs PROVE i <= m
  <2>1. i \in 1 .. n
    BY <1>4
  <2>2. 1 .. i \in SUBSET Outs
    <3> SUFFICES ASSUME NEW j \in 1 .. i, j \notin Outs PROVE FALSE
      OBVIOUS
    <3>1. j \in DOMAIN pins /\ i \in DOMAIN pins /\ pins[i].type = "output" /\ j < i
      BY <1>1, <2>1 DEF Outs
    <3>2. pins[j].type = "input"
      BY <1>2, <3>1 DEF Outs
    <3>3. pins[i].type = "input"
      BY <1>2, <3>1, <3>2
    <3>. QED
      BY <3>1, <3>3
  <2>3. Cardinality(1 .. i) = i
    BY <1>1, <2>1, FS_Interval
  <2>4. Cardinality(1 .. i) <= m
    BY <1>6, <2>2, FS_Subset
  <2>. QED
    BY <2>3, <2>4
<1>9. ASSUME NEW i \in Ins PROVE i > m
  <2>1. i \in 1 .. n
    BY <1>4
  <2>2. Outs \in SUBSET (1 .. i - 1)
    <3> SUFFICES ASSUME NEW j \in Outs, j \notin 1 .. i - 1 PROVE FALSE
      OBVIOUS
    <3>1. j \in DOMAIN pins /\ i \in DOMAIN pins /\ pins[i].type = "input" /\ pins[j].type = "output" /\ j >= i
      BY <1>1, <1>4, <2>1 DEF Outs, Ins
    <3>2. i < j
      <4>1. i # j
        BY <3>1
      <4>. QED
        BY <1>1, <3>1, <4>1
    <3>. QED
      BY <1>2, <3>1, <3>2
  <2>3. IsFiniteSet(1 .. i - 1) /\ Cardinality(1 .. i - 1) = i - 1
    <3>1. CASE i = 1
      <4>1. 1 .. i - 1 = {}
        BY <3>1
      <4>. QED
        BY <3>1, <4>1, FS_EmptySet
    <3>2. CASE i # 1
      BY <1>1, <2>1, <3>2, FS_Interval
    <3>. QED
      BY <3>1, <3>2
  <2>4. m <= i - 1
    <3>1. Cardinality(Outs) <= Cardinality(1 .. i - 1)
      BY <2>2, <2>3, FS_Subset
    <3>. QED
      BY <2>3, <3>1
  <2>. QED
    BY <1>1, <1>6, <2>1, <2>4
<1>10. \A i \in DOMAIN pins : \/ pins[i].type = "output" /\ i <= m
                              \/ pins[i].type = "input" /\ i > m
  <2> SUFFICES ASSUME NEW i \in DOMAIN pins
               PROVE  \/ pins[i].type = "output" /\ i <= m
                      \/ pins[i].type = "input" /\ i > m
    OBVIOUS
  <2>1. (pins[i].type = "output" /\ i \in Outs) \/ (pins[i].type = "input" /\ i \in Ins)
    <3>1. pins[i].type \in {"input", "output"}
      BY <1>2
    <3>2. pins[i].type = "output" => i \in Outs
      BY DEF Outs
    <3>3. pins[i].type = "input" => i \in Ins
      BY DEF Ins
    <3>. QED
      BY <3>1, <3>2, <3>3
  <2> HIDE DEF m
  <2>. QED
    BY <1>8, <1>9, <2>1
<1>11. \A i \in DOMAIN pins : pins[i].z = i - 1
  BY <1>2
<1> HIDE DEF m
<1>12. PinsOfType(tile, "output") + PinsOfType(tile, "input") = n
  BY <1>5, <1>7
<1>13. PinsOfType(tile, "output") \in Nat /\ PinsOfType(tile, "input") \in Nat
  BY <1>5, <1>6
<1>14. \A i \in DOMAIN pins : \/ pins[i].type = "output" /\ i <= PinsOfType(tile, "output")
                              \/ pins[i].type = "input" /\ i > PinsOfType(tile, "output")
  BY <1>5, <1>10
<1>. QED
  BY <1>1, <1>11, <1>12, <1>13, <1>14

(* What the two sub tiles of a pad are.                                       *)
LEMMA PadSubTiles ==
  ASSUME NEW dir \in {"IN", "OUT"}, NEW c \in Nat, c # 0
  PROVE  \E sub : /\ PadSubTile(dir, c) = <<sub>> /\ sub.capacity = c
                  /\ dir = "IN" => sub.ins # {}
                  /\ dir = "OUT" => sub.outs # {}
<1> DEFINE pads == {Port(PadPort(dir))}
           none == [loc |-> {}, fc0 |-> {}]
           sub == SubTile(IF dir = "IN" THEN pads ELSE {}, IF dir = "OUT" THEN pads ELSE {}, c,
                          {<<PadBlock(dir), {<<q, q>> : q \in pads}>>}, none)
<1>1. PadSubTile(dir, c) = <<sub>>
  BY DEF PadSubTile
<1>2. sub.capacity = c /\ (dir = "IN" => sub.ins = pads) /\ (dir = "OUT" => sub.outs = pads)
  BY DEF SubTile
<1>3. pads # {}
  OBVIOUS
<1> HIDE DEF sub, pads
<1>. QED
  BY <1>1, <1>2, <1>3

LEMMA PartsOfTwo ==
  ASSUME NEW a, NEW b
  PROVE  /\ SubSeq(<<a>>, 1, 0) = <<>> /\ SubSeq(<<a>>, 1, 1) = <<a>>
         /\ SubSeq(<<a, b>>, 1, 0) = <<>> /\ SubSeq(<<a, b>>, 1, 1) = <<a>> /\ SubSeq(<<a, b>>, 1, 2) = <<a, b>>
<1> DEFINE T == {a, b}
           s == <<a>>
           t == <<a, b>>
<1>1. s \in Seq(T) /\ t \in Seq(T) /\ Len(s) = 1 /\ Len(t) = 2 /\ s[1] = a /\ t[1] = a /\ t[2] = b
  OBVIOUS
<1>2. \A i \in 1 .. 1 : s[i] \in T
  BY <1>1
<1>3. \A i \in 1 .. 2 : t[i] \in T
  BY <1>1
<1> HIDE DEF s, t, T
<1>4. SubSeq(s, 1, 0) = <<>> /\ SubSeq(t, 1, 0) = <<>>
  BY SubSeqEmpty
<1>5. SubSeq(s, 1, 1) = s
  <2>1. /\ SubSeq(s, 1, 1) \in Seq(T)
        /\ Len(SubSeq(s, 1, 1)) = IF 1 <= 1 THEN 1 - 1 + 1 ELSE 0
        /\ \A i \in 1 .. 1 - 1 + 1 : SubSeq(s, 1, 1)[i] = s[1 + i - 1]
    BY <1>2, SubSeqProperties
  <2>2. Len(SubSeq(s, 1, 1)) = Len(s) /\ \A i \in 1 .. Len(SubSeq(s, 1, 1)) : SubSeq(s, 1, 1)[i] = s[i]
    BY <1>1, <2>1
  <2>. QED
    BY <1>1, <2>1, <2>2, SeqEqual
<1>6. SubSeq(t, 1, 1) = s
  <2>1. /\ SubSeq(t, 1, 1) \in Seq(T)
        /\ Len(SubSeq(t, 1, 1)) = IF 1 <= 1 THEN 1 - 1 + 1 ELSE 0
        /\ \A i \in 1 .. 1 - 1 + 1 : SubSeq(t, 1, 1)[i] = t[1 + i - 1]
    <3>1. \A i \in 1 .. 1 : t[i] \in T
      BY <1>3
    <3>. QED
      BY <3>1, SubSeqProperties
  <2>2. Len(SubSeq(t, 1, 1)) = Len(s) /\ \A i \in 1 .. Len(SubSeq(t, 1, 1)) : SubSeq(t, 1, 1)[i] = s[i]
    BY <1>1, <2>1
  <2>. QED
    BY <1>1, <2>1, <2>2, SeqEqual
<1>7. SubSeq(t, 1, 2) = t
  <2>1. /\ SubSeq(t, 1, 2) \in Seq(T)
        /\ Len(SubSeq(t, 1, 2)) = IF 1 <= 2 THEN 2 - 1 + 1 ELSE 0
        /\ \A i \in 1 .. 2 - 1 + 1 : SubSeq(t, 1, 2)[i] = t[1 + i - 1]
    BY <1>3, SubSeqProperties
  <2>2. Len(SubSeq(t, 1, 2)) = Len(t) /\ \A i \in 1 .. Len(SubSeq(t, 1, 2)) : SubSeq(t, 1, 2)[i] = t[i]
    BY <1>1, <2>1
  <2>. QED
    BY <1>1, <2>1, <2>2, SeqEqual
<1>. QED
  BY <1>4, <1>5, <1>6, <1>7 DEF s, t

LEMMA CapacityOfOne ==
  ASSUME NEW a, a.capacity \in Nat
  PROVE  Capacity(<<>>) = 0 /\ Capacity(<<a>>) = a.capacity
<1>1. a.capacity \in Int
  OBVIOUS
<1>. QED
  BY <1>1, CapacityOfTwo

(* The place of an instance in one sub tile, and in two.                      *)
LEMMA SubTileOfOne ==
  ASSUME NEW a, a.capacity \in Nat, NEW z \in Nat, z < a.capacity
  PROVE  SubTileAt(<<a>>, z) = 1 /\ <<a>>[1] = a
<1> DEFINE subs == <<a>>
<1>1. DOMAIN subs = 1 .. 1 /\ subs[1] = a
  OBVIOUS
<1>2. Capacity(SubSeq(subs, 1, 0)) = 0 /\ Capacity(SubSeq(subs, 1, 1)) = a.capacity
  <2>1. SubSeq(subs, 1, 0) = <<>> /\ SubSeq(subs, 1, 1) = <<a>>
    BY PartsOfTwo
  <2>2. Capacity(<<>>) = 0 /\ Capacity(<<a>>) = a.capacity
    BY CapacityOfOne
  <2>. QED
    BY <2>1, <2>2
<1> HIDE DEF subs
<1>3. \A i \in DOMAIN subs : (Capacity(SubSeq(subs, 1, i - 1)) <= z /\ z < Capacity(SubSeq(subs, 1, i))) <=> i = 1
  BY <1>1, <1>2
<1>4. SubTileAt(subs, z) = 1
  BY <1>1, <1>3 DEF SubTileAt
<1>. QED
  BY <1>1, <1>4 DEF subs

LEMMA SubTileOfTwo ==
  ASSUME NEW a, NEW b, a.capacity \in Nat, b.capacity \in Nat, NEW z \in Nat, z < a.capacity + b.capacity
  PROVE  /\ SubTileAt(<<a, b>>, z) = IF z < a.capacity THEN 1 ELSE 2
         /\ <<a, b>>[1] = a /\ <<a, b>>[2] = b
<1> DEFINE subs == <<a, b>>
           at == IF z < a.capacity THEN 1 ELSE 2
<1>1. DOMAIN subs = {1, 2} /\ subs[1] = a /\ subs[2] = b
  OBVIOUS
<1>2. /\ Capacity(SubSeq(subs, 1, 0)) = 0 /\ Capacity(SubSeq(subs, 1, 1)) = a.capacity
      /\ Capacity(SubSeq(subs, 1, 2)) = a.capacity + b.capacity
  <2>1. SubSeq(subs, 1, 0) = <<>> /\ SubSeq(subs, 1, 1) = <<a>> /\ SubSeq(subs, 1, 2) = <<a, b>>
    BY PartsOfTwo
  <2>2. a.capacity \in Int /\ b.capacity \in Int
    OBVIOUS
  <2>3. Capacity(<<>>) = 0 /\ Capacity(<<a>>) = a.capacity /\ Capacity(<<a, b>>) = a.capacity + b.capacity
    BY <2>2, CapacityOfTwo
  <2>. QED
    BY <2>1, <2>3
<1> HIDE DEF subs
<1>3. \A i \in DOMAIN subs : (Capacity(SubSeq(subs, 1, i - 1)) <= z /\ z < Capacity(SubSeq(subs, 1, i))) <=> i = at
  <2> SUFFICES ASSUME NEW i \in {1, 2}
               PROVE  (Capacity(SubSeq(subs, 1, i - 1)) <= z /\ z < Capacity(SubSeq(subs, 1, i))) <=> i = at
    BY <1>1
  <2>1. CASE i = 1
    <3>1. i - 1 = 0 /\ Capacity(SubSeq(subs, 1, i - 1)) = 0 /\ Capacity(SubSeq(subs, 1, i)) = a.capacity
      BY <1>2, <2>1
    <3>. QED
      BY <2>1, <3>1
  <2>2. CASE i = 2
    <3>1. /\ i - 1 = 1 /\ Capacity(SubSeq(subs, 1, i - 1)) = a.capacity
          /\ Capacity(SubSeq(subs, 1, i)) = a.capacity + b.capacity
      BY <1>2, <2>2
    <3>. QED
      BY <2>2, <3>1
  <2>. QED
    BY <2>1, <2>2
<1>4. at \in DOMAIN subs
  BY <1>1
<1> HIDE DEF at
<1>5. SubTileAt(subs, z) = at
  BY <1>3, <1>4 DEF SubTileAt
<1>. QED
  BY <1>1, <1>5 DEF subs, at

(* Each pin of a pad has an instance of its direction.                        *)
LEMMA PadsFit ==
  ASSUME NEW tile, IsPad(tile)
  PROVE  /\ Capacity(SynthIoTile(tile)) = Len(tile.pins)
         /\ {tile.pins[i].z : i \in DOMAIN tile.pins} = 0 .. Len(tile.pins) - 1
         /\ \A i \in DOMAIN tile.pins :
              IF tile.pins[i].type = "output"
              THEN SynthIoTile(tile)[SubTileAt(SynthIoTile(tile), tile.pins[i].z)].outs # {}
              ELSE SynthIoTile(tile)[SubTileAt(SynthIoTile(tile), tile.pins[i].z)].ins # {}
<1> DEFINE pins == tile.pins
           n == Len(pins)
           m == PinsOfType(tile, "output")
           k == PinsOfType(tile, "input")
           subs == SynthIoTile(tile)
<1>1. /\ m \in Nat /\ k \in Nat /\ m + k = n /\ n \in Nat \ {0} /\ DOMAIN pins = 1 .. n
      /\ \A i \in DOMAIN pins :
           /\ pins[i].z = i - 1
           /\ (pins[i].type = "output" /\ i <= m) \/ (pins[i].type = "input" /\ i > m)
  BY OutputsComeFirst
<1>2. subs = PadSubTile("OUT", m) \o PadSubTile("IN", k)
  BY DEF SynthIoTile
<1>3. PadSubTile("OUT", 0) = <<>> /\ PadSubTile("IN", 0) = <<>>
  BY DEF PadSubTile
<1> HIDE DEF pins, n, m, k, subs
<1>4. {pins[i].z : i \in DOMAIN pins} = 0 .. n - 1
  <2>1. \A i \in DOMAIN pins : pins[i].z \in 0 .. n - 1
    BY <1>1
  <2>2. ASSUME NEW z \in 0 .. n - 1 PROVE z + 1 \in DOMAIN pins /\ pins[z + 1].z = z
    BY <1>1
  <2>. QED
    BY <2>1, <2>2
<1>5. Capacity(subs) = n /\ \A i \in DOMAIN pins :
        IF i <= m THEN subs[SubTileAt(subs, i - 1)].outs # {} ELSE subs[SubTileAt(subs, i - 1)].ins # {}
  <2>1. CASE k = 0
    <3>1. PICK a : PadSubTile("OUT", m) = <<a>> /\ a.capacity = m /\ a.outs # {}
      <4>1. m # 0
        BY <1>1, <2>1
      <4>. QED
        BY <1>1, <4>1, PadSubTiles
    <3>2. subs = <<a>>
      BY <1>2, <1>3, <2>1, <3>1, OneAfterAnother
    <3>3. Capacity(<<a>>) = m
      BY <1>1, <3>1, CapacityOfOne
    <3>4. m = n
      BY <1>1, <2>1
    <3>5. ASSUME NEW i \in DOMAIN pins PROVE i <= m /\ <<a>>[SubTileAt(<<a>>, i - 1)].outs # {}
      <4>1. i - 1 \in Nat /\ i - 1 < a.capacity /\ i <= m /\ a.capacity \in Nat
        BY <1>1, <3>1, <3>4
      <4>2. SubTileAt(<<a>>, i - 1) = 1 /\ <<a>>[1] = a
        BY <4>1, SubTileOfOne
      <4>. QED
        BY <3>1, <4>1, <4>2
    <3>. QED
      BY <3>2, <3>3, <3>4, <3>5
  <2>2. CASE m = 0
    <3>1. PICK a : PadSubTile("IN", k) = <<a>> /\ a.capacity = k /\ a.ins # {}
      <4>1. k # 0
        BY <1>1, <2>2
      <4>. QED
        BY <1>1, <4>1, PadSubTiles
    <3>2. subs = <<a>>
      BY <1>2, <1>3, <2>2, <3>1, OneAfterAnother
    <3>3. Capacity(<<a>>) = k
      BY <1>1, <3>1, CapacityOfOne
    <3>4. k = n
      BY <1>1, <2>2
    <3>5. ASSUME NEW i \in DOMAIN pins PROVE ~(i <= m) /\ <<a>>[SubTileAt(<<a>>, i - 1)].ins # {}
      <4>1. i - 1 \in Nat /\ i - 1 < a.capacity /\ ~(i <= m) /\ a.capacity \in Nat
        BY <1>1, <2>2, <3>1, <3>4
      <4>2. SubTileAt(<<a>>, i - 1) = 1 /\ <<a>>[1] = a
        BY <4>1, SubTileOfOne
      <4>. QED
        BY <3>1, <4>1, <4>2
    <3>. QED
      BY <3>2, <3>3, <3>4, <3>5
  <2>3. CASE m # 0 /\ k # 0
    <3>1. PICK a : PadSubTile("OUT", m) = <<a>> /\ a.capacity = m /\ a.outs # {}
      BY <1>1, <2>3, PadSubTiles
    <3>2. PICK b : PadSubTile("IN", k) = <<b>> /\ b.capacity = k /\ b.ins # {}
      BY <1>1, <2>3, PadSubTiles
    <3>3. subs = <<a, b>>
      BY <1>2, <3>1, <3>2, OneAfterAnother
    <3>4. Capacity(<<a, b>>) = n
      BY <1>1, <3>1, <3>2, CapacityOfTwo
    <3>5. ASSUME NEW i \in DOMAIN pins
          PROVE  IF i <= m THEN <<a, b>>[SubTileAt(<<a, b>>, i - 1)].outs # {}
                 ELSE <<a, b>>[SubTileAt(<<a, b>>, i - 1)].ins # {}
      <4>1. i - 1 \in Nat /\ i - 1 < a.capacity + b.capacity /\ a.capacity \in Nat /\ b.capacity \in Nat
        BY <1>1, <3>1, <3>2
      <4>2. /\ SubTileAt(<<a, b>>, i - 1) = IF i - 1 < a.capacity THEN 1 ELSE 2
            /\ <<a, b>>[1] = a /\ <<a, b>>[2] = b
        BY <4>1, SubTileOfTwo
      <4>3. i <= m <=> i - 1 < a.capacity
        BY <1>1, <3>1
      <4>. QED
        BY <3>1, <3>2, <4>2, <4>3
    <3>. QED
      BY <3>3, <3>4, <3>5
  <2>. QED
    BY <1>1, <2>1, <2>2, <2>3
<1>6. ASSUME NEW i \in DOMAIN pins
      PROVE  IF pins[i].type = "output" THEN subs[SubTileAt(subs, pins[i].z)].outs # {}
             ELSE subs[SubTileAt(subs, pins[i].z)].ins # {}
  <2>1. pins[i].z = i - 1 /\ ((pins[i].type = "output" /\ i <= m) \/ (pins[i].type = "input" /\ i > m))
    BY <1>1
  <2>2. IF i <= m THEN subs[SubTileAt(subs, i - 1)].outs # {} ELSE subs[SubTileAt(subs, i - 1)].ins # {}
    BY <1>5
  <2>3. i \in Nat /\ m \in Nat
    BY <1>1
  <2>4. CASE pins[i].type = "output"
    <3>1. i <= m
      BY <2>1, <2>4
    <3>. QED
      BY <2>1, <2>2, <2>4, <3>1
  <2>5. CASE pins[i].type = "input"
    <3>1. ~(i <= m)
      BY <2>1, <2>3, <2>5
    <3>. QED
      BY <2>1, <2>2, <2>5, <3>1
  <2>. QED
    BY <2>1, <2>4, <2>5
<1>. QED
  BY <1>4, <1>5, <1>6 DEF pins, n, subs

(* PadsHaveTheirPlace: the instance that prjxray_create_synth_tiles.py gave a *)
(* port of the design is, in the tile that prjxray_arch_import.py writes for  *)
(* it, an instance of a pad of its direction.                                 *)
THEOREM PadsArePlaced == Spec => []PadsHaveTheirPlace
<1>1. IInv => PadsHaveTheirPlace
  <2> SUFFICES ASSUME IInv, locs # <<>>, NEW t \in DOMAIN synth, ~IsConstant(synth[t])
               PROVE  LET subs == tiles[synth[t].name]
                          pins == synth[t].pins
                      IN  /\ Capacity(subs) = Len(pins)
                          /\ {pins[i].z : i \in DOMAIN pins} = 0 .. Len(pins) - 1
                          /\ \A i \in DOMAIN pins :
                               IF pins[i].type = "output" THEN subs[SubTileAt(subs, pins[i].z)].outs # {}
                               ELSE subs[SubTileAt(subs, pins[i].z)].ins # {}
    BY DEF PadsHaveTheirPlace
  <2>1. IsPad(synth[t])
    BY PadsAreNotConstants
  <2>2. tiles[synth[t].name] = SynthIoTile(synth[t])
    BY <2>1 DEF IInv, PadsHaveTiles
  <2>. QED
    BY <2>1, <2>2, PadsFit
<1>. QED
  BY <1>1, InitInv, InvIsKept, PTL DEF Spec


-----------------------------------------------------------------------------
(* The layout                                                                *)

LEMMA GridInfoIsUnique ==
  ASSUME NEW d \in Devices, NEW g \in ToSet(d.grid)
  PROVE  GridInfo(d, g.name) = g
<1>1. \A h \in ToSet(d.grid) : \E i \in DOMAIN d.grid : h = d.grid[i]
  BY DEF ToSet
<1>2. \A i, j \in DOMAIN d.grid : d.grid[i].name = d.grid[j].name => i = j
  BY GridAssumption
<1>3. \A h \in ToSet(d.grid) : h.name = g.name => h = g
  BY <1>1, <1>2
<1>. QED
  BY <1>3 DEF GridInfo

(* A tile of a place without sites is not left out.                           *)
LEMMA NothingProhibited ==
  ASSUME NEW d \in Devices, NEW g \in ToSet(d.grid), ~g.sites, NEW t \in d.db.tiles, t.phy = g.name
  PROVE  ~HasProhibitedSites(d, t)
<1>1. GridInfo(d, t.phy) = g
  BY GridInfoIsUnique
<1>2. \A i \in d.db.instances : i.prohibited => GridInfo(d, i.phy).sites
  BY TilesAssumption
<1>. QED
  BY <1>1, <1>2 DEF HasProhibitedSites

(* What is at a place of the layout.                                          *)
LEMMA LayoutOf ==
  ASSUME NEW d \in Devices, NEW where, NEW subs
  PROVE  /\ \A t \in d.db.tiles : IsEmitted(d, t, where) =>
              /\ <<t.x, t.y>> \in DOMAIN Layout(d, where, subs)
              /\ Layout(d, where, subs)[<<t.x, t.y>>] = Single(d, t, where, subs)
         /\ \A l \in DOMAIN Layout(d, where, subs) :
              \E t \in d.db.tiles : <<t.x, t.y>> = l /\ IsEmitted(d, t, where)
<1> DEFINE emitted == {t \in d.db.tiles : IsEmitted(d, t, where)}
           places == {<<t.x, t.y>> : t \in emitted}
           At(l) == CHOOSE t \in emitted : <<t.x, t.y>> = l
<1>1. Layout(d, where, subs) = [l \in places |-> Single(d, At(l), where, subs)]
  BY DEF Layout
<1>2. ASSUME NEW t \in emitted PROVE At(<<t.x, t.y>>) = t
  <2>1. At(<<t.x, t.y>>) \in emitted /\ <<At(<<t.x, t.y>>).x, At(<<t.x, t.y>>).y>> = <<t.x, t.y>>
    <3>1. \E u \in emitted : <<u.x, u.y>> = <<t.x, t.y>>
      OBVIOUS
    <3> HIDE DEF emitted
    <3>. QED
      BY <3>1
  <2> DEFINE u == At(<<t.x, t.y>>)
  <2>2. u \in d.db.tiles /\ t \in d.db.tiles /\ <<u.x, u.y>> = <<t.x, t.y>>
    BY <2>1
  <2> HIDE DEF u
  <2>3. u = t
    BY <2>2, GridAssumption
  <2>. QED
    BY <2>3 DEF u
<1>3. \A t \in emitted : <<t.x, t.y>> \in places
  OBVIOUS
<1>4. \A l \in places : \E t \in emitted : <<t.x, t.y>> = l
  OBVIOUS
<1>5. \A t \in d.db.tiles : t \in emitted <=> IsEmitted(d, t, where)
  OBVIOUS
<1>6. emitted \subseteq d.db.tiles
  OBVIOUS
<1> HIDE DEF emitted, places, At
<1>7. ASSUME NEW t \in emitted
      PROVE  /\ <<t.x, t.y>> \in DOMAIN Layout(d, where, subs)
             /\ Layout(d, where, subs)[<<t.x, t.y>>] = Single(d, t, where, subs)
  <2>1. <<t.x, t.y>> \in places /\ At(<<t.x, t.y>>) = t
    BY <1>2, <1>3
  <2>. QED
    BY <1>1, <2>1
<1>8. DOMAIN Layout(d, where, subs) = places
  BY <1>1
<1>. QED
  BY <1>4, <1>5, <1>6, <1>7, <1>8

LEMMA TypesOfLayout ==
  ASSUME NEW d \in Devices, NEW where, NEW subs
  PROVE  /\ \A t \in d.db.tiles : <<t.x, t.y>> \in DOMAIN where /\ ~HasProhibitedSites(d, t) =>
              <<t.x, t.y>> \in DOMAIN Layout(d, where, subs)
         /\ \A l \in DOMAIN Layout(d, where, subs) :
              IF l \in DOMAIN where THEN Layout(d, where, subs)[l].type = where[l]
              ELSE \E t \in d.db.tiles : Layout(d, where, subs)[l].type = <<t.type>>
<1>1. ASSUME NEW t \in d.db.tiles, <<t.x, t.y>> \in DOMAIN where, ~HasProhibitedSites(d, t)
      PROVE  <<t.x, t.y>> \in DOMAIN Layout(d, where, subs)
  <2>1. IsEmitted(d, t, where)
    BY <1>1 DEF IsEmitted, IsSynthetic
  <2>. QED
    BY <2>1, LayoutOf
<1>2. ASSUME NEW l \in DOMAIN Layout(d, where, subs)
      PROVE  IF l \in DOMAIN where THEN Layout(d, where, subs)[l].type = where[l]
             ELSE \E t \in d.db.tiles : Layout(d, where, subs)[l].type = <<t.type>>
  <2>1. PICK t \in d.db.tiles : <<t.x, t.y>> = l /\ IsEmitted(d, t, where)
    BY LayoutOf
  <2>2. Layout(d, where, subs)[l] = Single(d, t, where, subs)
    BY <2>1, LayoutOf
  <2>3. Single(d, t, where, subs).type = IF l \in DOMAIN where THEN where[l] ELSE <<t.type>>
    BY <2>1 DEF Single, IsSynthetic
  <2>. QED
    BY <2>2, <2>3
<1>. QED
  BY <1>1, <1>2

(* The tile of the device at the place of a synthetic tile.                   *)
LEMMA SynthTilesStandOnTiles ==
  ASSUME IInv, NEW t \in DOMAIN synth
  PROVE  \E u \in dev.db.tiles : u \in VprTilesOf(dev, t) /\ synth[t].loc = <<u.x, u.y>>
<1>1. Cardinality(VprTilesOf(dev, t)) = 1 /\ synth[t].loc = MapTileToVprCoord(dev, t)
  BY DEF IInv, SynthTilesHaveAPlace
<1>2. VprTilesOf(dev, t) # {}
  BY <1>1, FS_EmptySet
<1>3. \E u \in dev.db.tiles : u \in VprTilesOf(dev, t)
  BY <1>2 DEF VprTilesOf
<1>. QED
  BY <1>1, <1>3 DEF MapTileToVprCoord

LEMMA NamesAtTheirPlaces ==
  ASSUME OneTileAtEachLoc(synth)
  PROVE  /\ DOMAIN SynthLocMap(synth) = SynthLocs(synth)
         /\ \A t \in DOMAIN synth : /\ synth[t].loc \in SynthLocs(synth)
                                    /\ SynthLocMap(synth)[synth[t].loc] = SynthName(synth[t])
         /\ \A l \in SynthLocs(synth) : \E t \in DOMAIN synth : synth[t].loc = l
<1> DEFINE At(l) == CHOOSE t \in DOMAIN synth : synth[t].loc = l
<1>1. \A t \in DOMAIN synth : At(synth[t].loc) = t
  <2> SUFFICES ASSUME NEW t \in DOMAIN synth PROVE At(synth[t].loc) = t
    OBVIOUS
  <2>1. At(synth[t].loc) \in DOMAIN synth /\ synth[At(synth[t].loc)].loc = synth[t].loc
    OBVIOUS
  <2>. QED
    BY <2>1 DEF OneTileAtEachLoc
<1>2. SynthLocMap(synth) = [l \in SynthLocs(synth) |-> SynthName(synth[At(l)])]
  BY DEF SynthLocMap
<1>3. SynthLocs(synth) = {synth[t].loc : t \in DOMAIN synth}
  BY DEF SynthLocs
<1> HIDE DEF At
<1>. QED
  BY <1>1, <1>2, <1>3

(* Where the constants are that a region does not come with.                  *)
LEMMA ConstantPlaces ==
  ASSUME NEW d \in Devices, MayInsertConstants(d)
  PROVE  \E v, w \in d.db.tiles :
           /\ v.type = "NULL" /\ w.type = "NULL" /\ <<v.x, v.y>> # <<w.x, w.y>>
           /\ ~HasProhibitedSites(d, v) /\ ~HasProhibitedSites(d, w)
           /\ ConstantLocMap(d) = Over(Only(<<v.x, v.y>>, <<"SYN-VCC">>), Only(<<w.x, w.y>>, <<"SYN-GND">>))
<1> DEFINE Places(n) == {<<t.x, t.y>> : t \in TilesAt(d, NullPlace(d, n))}
           Loc(n) == CHOOSE l \in Places(n) : TRUE
<1>1. /\ NullPlace(d, 1) \in NullPlaces(d) /\ NullPlace(d, 2) \in NullPlaces(d)
      /\ NullPlace(d, 1).name # NullPlace(d, 2).name
  BY NullPlacesDiffer DEF MayInsertConstants
<1>2. ASSUME NEW n \in {1, 2}
      PROVE  \E v \in d.db.tiles : /\ v.phy = NullPlace(d, n).name /\ Loc(n) = <<v.x, v.y>>
                                   /\ v.type = "NULL" /\ ~HasProhibitedSites(d, v)
  <2> DEFINE g == NullPlace(d, n)
  <2>1. g \in ToSet(d.grid) /\ g.type = "NULL" /\ ~g.sites
    <3>1. g \in ToSet(d.grid) /\ g.type = "NULL"
      BY <1>1 DEF NullPlaces
    <3>2. \A h \in ToSet(d.grid) : h.type = "NULL" => ~h.sites
      BY GridAssumption
    <3>. QED
      BY <3>1, <3>2
  <2>2. TilesAt(d, g) # {}
    <3>1. Cardinality(TilesAt(d, g)) = 1
      <4>1. \A k \in 1 .. 2 : Cardinality(TilesAt(d, NullPlace(d, k))) = 1
        BY DEF MayInsertConstants
      <4>2. n \in 1 .. 2
        OBVIOUS
      <4>. QED
        BY <4>1, <4>2
    <3>. QED
      BY <3>1, FS_EmptySet
  <2> HIDE DEF g
  <2>3. Loc(n) \in Places(n)
    BY <2>2 DEF g
  <2>4. PICK v \in TilesAt(d, NullPlace(d, n)) : Loc(n) = <<v.x, v.y>>
    <3> HIDE DEF Loc
    <3>. QED
      BY <2>3
  <2>5. v \in d.db.tiles /\ v.phy = g.name
    BY <2>4 DEF TilesAt, g
  <2>6. v.type = "NULL" /\ ~HasProhibitedSites(d, v)
    BY <2>1, <2>5, TilesAssumption, NothingProhibited
  <2> HIDE DEF Loc
  <2>. QED
    BY <2>4, <2>5, <2>6 DEF g
<1>3. ConstantLocMap(d) = Over(Only(Loc(1), <<"SYN-VCC">>), Only(Loc(2), <<"SYN-GND">>))
  <2>1. SynthTileOf["VCC"] = "SYN-VCC" /\ SynthTileOf["GND"] = "SYN-GND"
    BY DEF SynthTileOf
  <2>. QED
    BY <2>1 DEF ConstantLocMap
<1> HIDE DEF Loc
<1>4. PICK v \in d.db.tiles : /\ v.phy = NullPlace(d, 1).name /\ Loc(1) = <<v.x, v.y>>
                              /\ v.type = "NULL" /\ ~HasProhibitedSites(d, v)
  BY <1>2
<1>5. PICK w \in d.db.tiles : /\ w.phy = NullPlace(d, 2).name /\ Loc(2) = <<w.x, w.y>>
                              /\ w.type = "NULL" /\ ~HasProhibitedSites(d, w)
  BY <1>2
<1>6. <<v.x, v.y>> # <<w.x, w.y>>
  BY <1>1, <1>4, <1>5, GridAssumption
<1>. QED
  BY <1>3, <1>4, <1>5, <1>6


(* No name of a pad is that of a constant.                                    *)
LEMMA PadsHaveOtherNames ==
  ASSUME IInv, NEW t \in DOMAIN synth, IsPad(synth[t]), NEW w
  PROVE  SynthName(synth[t]) # <<w>>
<1>1. SynthName(synth[t]) = synth[t].name
  BY PadsAreNotConstants
<1>2. PICK n \in 0 .. Cardinality(DOMAIN synth) - 1 : synth[t].name = <<"SYN-IOPAD", n>>
  BY DEF IInv, PadsHaveNumbers
<1>. QED
  BY <1>1, <1>2, PadNames

(* Each synthetic tile is drawn where it is, and each constant once.          *)
LEMMA SynthTilesAreDrawn ==
  ASSUME IInv, pc \in Emitting, NEW t \in DOMAIN synth
  PROVE  synth[t].loc \in DOMAIN locs /\ locs[synth[t].loc] = SynthName(synth[t])
<1>1. synth[t].loc \in DOMAIN SynthLocMap(synth) /\ SynthLocMap(synth)[synth[t].loc] = SynthName(synth[t])
  BY NamesAtTheirPlaces DEF IInv, LocsFollow
<1>2. CASE dev.mode = "roi"
  BY <1>1, <1>2 DEF IInv, LocsFollow
<1>3. CASE dev.mode # "roi"
  <2>1. MayInsertConstants(dev) /\ locs = Over(ConstantLocMap(dev), SynthLocMap(synth)) /\ dev \in Devices
    BY <1>3 DEF IInv, LocsFollow
  <2>2. PICK v, w \in dev.db.tiles :
          /\ v.type = "NULL" /\ w.type = "NULL"
          /\ ConstantLocMap(dev) = Over(Only(<<v.x, v.y>>, <<"SYN-VCC">>), Only(<<w.x, w.y>>, <<"SYN-GND">>))
    BY <2>1, ConstantPlaces
  <2>3. PICK u \in dev.db.tiles : u \in VprTilesOf(dev, t) /\ synth[t].loc = <<u.x, u.y>>
    BY SynthTilesStandOnTiles
  <2>4. u.type # "NULL"
    BY <2>3 DEF VprTilesOf
  <2>5. synth[t].loc # <<v.x, v.y>> /\ synth[t].loc # <<w.x, w.y>>
    BY <2>1, <2>2, <2>3, <2>4, GridAssumption
  <2>6. DOMAIN ConstantLocMap(dev) = {<<v.x, v.y>>, <<w.x, w.y>>}
    BY <2>2 DEF Over, Only
  <2>7. synth[t].loc \notin DOMAIN ConstantLocMap(dev)
    BY <2>5, <2>6
  <2>. QED
    BY <1>1, <2>1, <2>7 DEF Over
<1>. QED
  BY <1>2, <1>3

LEMMA ConstantsAreDrawn ==
  ASSUME IInv, pc \in Emitting, NEW s \in Signals
  PROVE  \E c \in dev.db.tiles :
           /\ ~HasProhibitedSites(dev, c) /\ <<c.x, c.y>> \in DOMAIN locs
           /\ \A l \in DOMAIN locs : locs[l] = <<SynthTileOf[s]>> <=> l = <<c.x, c.y>>
<1>1. OneTileAtEachLoc(synth) /\ dev \in Devices
  BY DEF IInv, LocsFollow
<1>2. SynthTileOf["VCC"] = "SYN-VCC" /\ SynthTileOf["GND"] = "SYN-GND" /\ s \in {"VCC", "GND"}
  BY DEF SynthTileOf, Signals
<1>3. <<"SYN-VCC">> # <<"SYN-GND">>
  <2>1. <<"SYN-VCC">>[1] = "SYN-VCC" /\ <<"SYN-GND">>[1] = "SYN-GND"
    OBVIOUS
  <2>. QED
    BY <2>1
<1>4. CASE dev.mode = "roi"
  <2>1. locs = SynthLocMap(synth) /\ HasConstants
    BY <1>4 DEF IInv, LocsFollow, ConstantsComeLast
  <2>2. PICK a, b \in DOMAIN synth :
          /\ a # b /\ IsVbrk(a) /\ IsVbrk(b)
          /\ synth[a] = ConstantTile(dev, a, "VCC") /\ synth[b] = ConstantTile(dev, b, "GND")
          /\ \A t \in DOMAIN synth \ {a, b} : IsPad(synth[t])
    BY <2>1 DEF HasConstants
  <2>3. SynthName(synth[a]) = <<"SYN-VCC">> /\ SynthName(synth[b]) = <<"SYN-GND">>
    <3>1. synth[a].pins[1].type = "VCC" /\ synth[b].pins[1].type = "GND"
      BY <2>2 DEF ConstantTile
    <3>. QED
      BY <1>2, <3>1 DEF SynthName, IsConstant, Signals
  <2>4. \A t \in DOMAIN synth \ {a, b} : SynthName(synth[t]) # <<SynthTileOf[s]>>
    BY <2>2, PadsHaveOtherNames
  <2>5. PICK x \in {a, b} : /\ SynthName(synth[x]) = <<SynthTileOf[s]>>
                            /\ \A t \in DOMAIN synth : SynthName(synth[t]) = <<SynthTileOf[s]>> => t = x
    <3>1. CASE s = "VCC"
      <4>1. SynthTileOf[s] = "SYN-VCC"
        BY <1>2, <3>1
      <4>. QED
        BY <1>3, <2>3, <2>4, <4>1
    <3>2. CASE s = "GND"
      <4>1. SynthTileOf[s] = "SYN-GND"
        BY <1>2, <3>2
      <4>. QED
        BY <1>3, <2>3, <2>4, <4>1
    <3>. QED
      BY <1>2, <3>1, <3>2
  <2>6. x \in DOMAIN synth /\ IsVbrk(x)
    BY <2>2
  <2>7. PICK c \in dev.db.tiles : c \in VprTilesOf(dev, x) /\ synth[x].loc = <<c.x, c.y>>
    BY <2>6, SynthTilesStandOnTiles
  <2>8. ~HasProhibitedSites(dev, c)
    <3>1. PICK g \in ToSet(dev.grid) : g.name = x /\ g.vbrk /\ ~g.sites
      BY <2>6 DEF IsVbrk
    <3>2. x \in c.phys
      BY <2>7 DEF VprTilesOf
    <3>3. c.phy = g.name
      BY <1>1, <3>1, <3>2, TilesAssumption
    <3>. QED
      BY <1>1, <3>1, <3>3, NothingProhibited
  <2>9. <<c.x, c.y>> \in DOMAIN locs /\ locs[<<c.x, c.y>>] = <<SynthTileOf[s]>>
    BY <2>5, <2>6, <2>7, SynthTilesAreDrawn
  <2>10. ASSUME NEW l \in DOMAIN locs, locs[l] = <<SynthTileOf[s]>> PROVE l = <<c.x, c.y>>
    <3>1. PICK t \in DOMAIN synth : synth[t].loc = l
      BY <1>1, <2>1, NamesAtTheirPlaces
    <3>2. SynthName(synth[t]) = <<SynthTileOf[s]>>
      BY <2>10, <3>1, SynthTilesAreDrawn
    <3>3. t = x
      BY <2>5, <3>2
    <3>. QED
      BY <2>7, <3>1, <3>3
  <2>. QED
    BY <2>8, <2>9, <2>10
<1>5. CASE dev.mode # "roi"
  <2>1. MayInsertConstants(dev) /\ locs = Over(ConstantLocMap(dev), SynthLocMap(synth)) /\ AllArePads
    BY <1>5 DEF IInv, LocsFollow, ConstantsComeLast
  <2>2. PICK v, w \in dev.db.tiles :
          /\ v.type = "NULL" /\ w.type = "NULL" /\ <<v.x, v.y>> # <<w.x, w.y>>
          /\ ~HasProhibitedSites(dev, v) /\ ~HasProhibitedSites(dev, w)
          /\ ConstantLocMap(dev) = Over(Only(<<v.x, v.y>>, <<"SYN-VCC">>), Only(<<w.x, w.y>>, <<"SYN-GND">>))
    BY <1>1, <2>1, ConstantPlaces
  <2> DEFINE L == <<v.x, v.y>>
             M == <<w.x, w.y>>
  <2>3. /\ DOMAIN ConstantLocMap(dev) = {L, M}
        /\ ConstantLocMap(dev)[L] = <<"SYN-VCC">> /\ ConstantLocMap(dev)[M] = <<"SYN-GND">>
    BY <2>2 DEF Over, Only
  <2> HIDE DEF L, M
  <2>4. /\ L \in DOMAIN locs /\ M \in DOMAIN locs /\ locs[L] = <<"SYN-VCC">> /\ locs[M] = <<"SYN-GND">>
        /\ \A l \in DOMAIN locs : l \in {L, M} \/ (l \in SynthLocs(synth) /\ locs[l] = SynthLocMap(synth)[l])
    <3>1. DOMAIN locs = {L, M} \union SynthLocs(synth)
      <4>1. DOMAIN locs = DOMAIN ConstantLocMap(dev) \union DOMAIN SynthLocMap(synth)
        BY <2>1 DEF Over
      <4>2. DOMAIN SynthLocMap(synth) = SynthLocs(synth)
        BY <1>1, NamesAtTheirPlaces
      <4>. QED
        BY <2>3, <4>1, <4>2
    <3>2. locs[L] = <<"SYN-VCC">> /\ locs[M] = <<"SYN-GND">>
      BY <2>1, <2>3 DEF Over
    <3>3. \A l \in SynthLocs(synth) : l \notin {L, M} => locs[l] = SynthLocMap(synth)[l]
      <4>1. DOMAIN SynthLocMap(synth) = SynthLocs(synth)
        BY <1>1, NamesAtTheirPlaces
      <4>2. \A l \in SynthLocs(synth) : l \notin DOMAIN ConstantLocMap(dev) =>
              Over(ConstantLocMap(dev), SynthLocMap(synth))[l] = SynthLocMap(synth)[l]
        BY <4>1 DEF Over
      <4>. QED
        BY <2>1, <2>3, <4>2
    <3>. QED
      BY <3>1, <3>2, <3>3
  <2>5. ASSUME NEW l \in DOMAIN locs, l \notin {L, M} PROVE locs[l] # <<SynthTileOf[s]>>
    <3>1. l \in SynthLocs(synth) /\ locs[l] = SynthLocMap(synth)[l]
      BY <2>4, <2>5
    <3>2. PICK t \in DOMAIN synth : synth[t].loc = l
      BY <1>1, <3>1, NamesAtTheirPlaces
    <3>3. IsPad(synth[t]) /\ locs[l] = SynthName(synth[t])
      BY <1>1, <2>1, <3>1, <3>2, NamesAtTheirPlaces DEF AllArePads
    <3>. QED
      BY <3>3, PadsHaveOtherNames
  <2>6. CASE s = "VCC"
    <3>1. SynthTileOf[s] = "SYN-VCC"
      BY <1>2, <2>6
    <3>2. \A l \in DOMAIN locs : locs[l] = <<SynthTileOf[s]>> <=> l = L
      BY <1>3, <2>4, <2>5, <3>1
    <3>. QED
      BY <2>2, <2>4, <3>2 DEF L
  <2>7. CASE s = "GND"
    <3>1. SynthTileOf[s] = "SYN-GND"
      BY <1>2, <2>7
    <3>2. \A l \in DOMAIN locs : locs[l] = <<SynthTileOf[s]>> <=> l = M
      BY <1>3, <2>4, <2>5, <3>1
    <3>. QED
      BY <2>2, <2>4, <3>2 DEF M
  <2>. QED
    BY <1>2, <2>6, <2>7
<1>. QED
  BY <1>4, <1>5

(* SynthTilesAreEmitted: prjxray_arch_import.py draws each pad and constant   *)
(* where prjxray_create_synth_tiles.py placed it, and each constant once.     *)
THEOREM SynthTilesAreInTheLayout == Spec => []SynthTilesAreEmitted
<1>1. IInv => SynthTilesAreEmitted
  <2> SUFFICES ASSUME IInv, IsDrawn PROVE SynthTilesAreEmitted
    BY DEF SynthTilesAreEmitted
  <2>1. arch.layout = Layout(dev, locs, tiles) /\ pc \in Emitting /\ dev \in Devices
    BY DEF IInv, ArchIsWritten, IsDrawn, Emitting
  <2>2. ASSUME NEW t \in DOMAIN synth, ~CannotBePlaced(synth[t].loc)
        PROVE  synth[t].loc \in DOMAIN arch.layout /\ arch.layout[synth[t].loc].type = SynthName(synth[t])
    <3>1. PICK u \in dev.db.tiles : synth[t].loc = <<u.x, u.y>>
      BY SynthTilesStandOnTiles
    <3>2. ~HasProhibitedSites(dev, u)
      BY <2>2, <3>1 DEF CannotBePlaced
    <3>3. synth[t].loc \in DOMAIN locs /\ locs[synth[t].loc] = SynthName(synth[t])
      BY <2>1, SynthTilesAreDrawn
    <3>4. synth[t].loc \in DOMAIN arch.layout
      BY <2>1, <3>1, <3>2, <3>3, TypesOfLayout
    <3>. QED
      BY <2>1, <3>3, <3>4, TypesOfLayout
  <2>3. ASSUME NEW s \in Signals
        PROVE  Cardinality({l \in DOMAIN arch.layout : arch.layout[l].type = <<SynthTileOf[s]>>}) = 1
    <3> DEFINE Drawn == {l \in DOMAIN arch.layout : arch.layout[l].type = <<SynthTileOf[s]>>}
    <3>1. PICK c \in dev.db.tiles :
            /\ ~HasProhibitedSites(dev, c) /\ <<c.x, c.y>> \in DOMAIN locs
            /\ \A l \in DOMAIN locs : locs[l] = <<SynthTileOf[s]>> <=> l = <<c.x, c.y>>
      BY <2>1, ConstantsAreDrawn
    <3>2. <<c.x, c.y>> \in DOMAIN arch.layout
      BY <2>1, <3>1, TypesOfLayout
    <3>3. arch.layout[<<c.x, c.y>>].type = <<SynthTileOf[s]>>
      BY <2>1, <3>1, <3>2, TypesOfLayout
    <3>4. ASSUME NEW l \in DOMAIN arch.layout, arch.layout[l].type = <<SynthTileOf[s]>>
          PROVE  l = <<c.x, c.y>>
      <4>1. l \in DOMAIN locs
        <5> SUFFICES ASSUME l \notin DOMAIN locs PROVE FALSE
          OBVIOUS
        <5>1. PICK t \in dev.db.tiles : arch.layout[l].type = <<t.type>>
          BY <2>1, TypesOfLayout
        <5>2. t.type = SynthTileOf[s]
          <6>1. <<t.type>> = <<SynthTileOf[s]>>
            BY <3>4, <5>1
          <6>2. <<t.type>>[1] = <<SynthTileOf[s]>>[1]
            BY <6>1
          <6>. QED
            BY <6>2
        <5>. QED
          BY <2>1, <5>2, TilesAssumption
      <4>2. locs[l] = <<SynthTileOf[s]>>
        BY <2>1, <3>4, <4>1, TypesOfLayout
      <4>. QED
        BY <3>1, <4>1, <4>2
    <3>5. Drawn = {<<c.x, c.y>>}
      BY <3>2, <3>3, <3>4
    <3>. QED
      BY <3>5, FS_Singleton
  <2>. QED
    BY <2>2, <2>3 DEF SynthTilesAreEmitted
<1>. QED
  BY <1>1, InitInv, InvIsKept, PTL DEF Spec

-----------------------------------------------------------------------------
(* The directs                                                               *)

(* Between two pins there is one nearest direct.                              *)
LEMMA OneIsNearest ==
  ASSUME NEW d \in Devices, NEW x \in Nearest(d), NEW y \in Nearest(d), x.from = y.from, x.to = y.to
  PROVE  x = y
<1> DEFINE directs == d.assigned.directs
<1>1. PICK i \in DOMAIN directs : x = directs[i] /\ IsNearest(directs, i)
  BY DEF Nearest
<1>2. PICK j \in DOMAIN directs : y = directs[j] /\ IsNearest(directs, j)
  BY DEF Nearest
<1>3. \A k \in DOMAIN directs : Offset(directs[k]) \in Int
  <2>1. \A k \in DOMAIN directs : directs[k] \in ToSet(directs)
    BY DEF ToSet
  <2>2. \A z \in ToSet(directs) : z.dx \in Int /\ z.dy \in Int
    BY DirectsAssumption
  <2>. QED
    BY <2>1, <2>2 DEF Offset, Gap
<1>4. i \in Int /\ j \in Int
  <2>1. DOMAIN directs = 1 .. Len(directs)
    BY DirectsAssumption, LenProperties
  <2>. QED
    BY <2>1
<1> HIDE DEF directs
<1>5. \/ Offset(directs[i]) < Offset(directs[j])
      \/ Offset(directs[i]) = Offset(directs[j]) /\ i <= j
  BY <1>1, <1>2 DEF IsNearest
<1>6. \/ Offset(directs[j]) < Offset(directs[i])
      \/ Offset(directs[j]) = Offset(directs[i]) /\ j <= i
  BY <1>1, <1>2 DEF IsNearest
<1>7. i = j
  BY <1>3, <1>4, <1>5, <1>6
<1>. QED
  BY <1>1, <1>2, <1>7

(* Each direct of the architecture is one of the nearest.                     *)
LEMMA DirectsAreNearest ==
  ASSUME IInv, pc = "done", NEW x \in arch.directs
  PROVE  \E n \in Nearest(dev) :
           /\ x.from = n.from /\ x.to = n.to /\ Offset(x) = Offset(n)
           /\ x.switch = IF n.switch = Delayless THEN {} ELSE {n.switch}
           /\ \/ Offset(n) # 0 /\ x = AddDirect(n, 0)
              \/ /\ n \in ZeroOffset(dev) /\ x.dz = ZOffset(tiles[<<n.from[1]>>], n.from[2], n.to[2])
                 /\ x = AddDirect(n, ZOffset(tiles[<<n.from[1]>>], n.from[2], n.to[2]))
<1>1. PICK n \in Nearest(dev) :
        \/ Offset(n) # 0 /\ x = AddDirect(n, 0)
        \/ n \in ZeroOffset(dev) /\ x = AddDirect(n, ZOffset(tiles[<<n.from[1]>>], n.from[2], n.to[2]))
  <2>1. x \in Directs(dev, tiles)
    BY DEF IInv, ArchIsWritten, IsDrawn
  <2>. QED
    BY <2>1 DEF Directs, ZeroOffset
<1>2. PICK dz : /\ x = AddDirect(n, dz)
                /\ \/ Offset(n) # 0 /\ x = AddDirect(n, 0)
                   \/ n \in ZeroOffset(dev) /\ dz = ZOffset(tiles[<<n.from[1]>>], n.from[2], n.to[2])
  BY <1>1
<1>3. /\ x.from = n.from /\ x.to = n.to /\ x.dx = n.dx /\ x.dy = n.dy /\ x.dz = dz
      /\ x.switch = IF n.switch = Delayless THEN {} ELSE {n.switch}
  BY <1>2 DEF AddDirect
<1>4. Offset(x) = Offset(n)
  BY <1>3 DEF Offset
<1>. QED
  BY <1>2, <1>3, <1>4

(* The last sub tile with a port that is at one side only.                    *)
LEMMA LastSubTile ==
  ASSUME NEW subs, subs \in Seq(ToSet(subs)), NEW port, SubTilesWith(subs, port) # {}
  PROVE  \E i \in DOMAIN subs : /\ i \in Int /\ Max(SubTilesWith(subs, port)) = i - 1
                                /\ port \in subs[i].ins \union subs[i].outs
<1> DEFINE S == SubTilesWith(subs, port)
           With == {j \in DOMAIN subs : port \in subs[j].ins \union subs[j].outs}
<1>1. DOMAIN subs = 1 .. Len(subs) /\ Len(subs) \in Nat
  BY LenProperties
<1>2. S = {i - 1 : i \in With}
  BY DEF SubTilesWith
<1>3. With \subseteq 1 .. Len(subs)
  BY <1>1
<1>4. \A i \in With : port \in subs[i].ins \union subs[i].outs /\ i \in DOMAIN subs
  OBVIOUS
<1> HIDE DEF With, S
<1>5. S \subseteq 0 .. Len(subs)
  BY <1>1, <1>2, <1>3
<1>6. IsFiniteSet(S) /\ S \in SUBSET Int /\ S # {}
  <2>1. IsFiniteSet(0 .. Len(subs))
    BY <1>1, FS_Interval
  <2>2. S # {}
    BY DEF S
  <2>3. 0 .. Len(subs) \in SUBSET Int
    BY <1>1
  <2>. QED
    BY <1>5, <2>1, <2>2, <2>3, FS_Subset
<1>7. Max(S) \in S
  <2>1. \E m \in S : \A x \in S : x <= m
    BY <1>6, GreatestInteger
  <2>2. \E m \in S : \A x \in S : m >= x
    BY <1>6, <2>1
  <2>. QED
    BY <2>2 DEF Max
<1>8. PICK i \in With : Max(S) = i - 1
  BY <1>2, <1>7
<1>. QED
  BY <1>1, <1>3, <1>4, <1>8 DEF S

(* The sub tiles of a tile with connections of its own have their ends on the *)
(* sides that the pins of the sites have.                                     *)
Ends(subs, x) ==
  /\ subs \in Seq(ToSet(subs))
  /\ \A i \in DOMAIN subs : x.from[2] \notin subs[i].ins /\ x.to[2] \notin subs[i].outs

LEMMA DirectEnds ==
  ASSUME IInv, pc = "done", NEW x \in ZeroOffset(dev)
  PROVE  Ends(tiles[<<x.from[1]>>], x)
<1>1. PICK r \in ToSet(dev.recipes) :
        /\ r.how = "capacity" /\ r.tile = x.from[1]
        /\ \A p \in SitePins(r.sites) : (p.wire = x.from[2] => p.dir = "OUT") /\ (p.wire = x.to[2] => p.dir = "IN")
  BY RecipesAssumption DEF IInv
<1>2. ImportTileCapacity(r, dev.assigned).ok /\ tiles[<<r.tile>>] = ImportTileCapacity(r, dev.assigned).subs
  BY <1>1, SitesAreFollowed
<1> DEFINE subs == tiles[<<r.tile>>]
           n == Len(r.sites)
<1>3. PICK at \in [1 .. n -> 1 .. n] : IsMadeFrom(subs, at, r.sites)
  BY <1>1, <1>2, CapacityOfSites DEF IInv
<1>4. r.sites \in Seq(ToSet(r.sites))
  BY <1>1, RecipesAssumption DEF IInv
<1> HIDE DEF subs
<1>5. \A i \in 1 .. n : \A p \in r.sites[i].pins : p \in SitePins(r.sites)
  BY <1>4 DEF SitePins, ToSet
<1>6. ASSUME NEW i \in DOMAIN subs PROVE x.from[2] \notin subs[i].ins /\ x.to[2] \notin subs[i].outs
  <2>1. /\ i \in 1 .. n /\ at[i] \in 1 .. n
        /\ subs[i].ins \subseteq Wires(r.sites[at[i]].pins, "IN")
        /\ subs[i].outs \subseteq Wires(r.sites[at[i]].pins, "OUT")
    BY <1>3 DEF IsMadeFrom
  <2>2. x.from[2] \notin Wires(r.sites[at[i]].pins, "IN") /\ x.to[2] \notin Wires(r.sites[at[i]].pins, "OUT")
    BY <1>1, <1>5, <2>1 DEF Wires
  <2>. QED
    BY <2>1, <2>2
<1>7. subs \in Seq(ToSet(subs))
  BY <1>3 DEF IsMadeFrom
<1>. QED
  BY <1>1, <1>6, <1>7 DEF Ends, subs

(* DirectsMeetTheirPorts: of the directs that prjxray_arch_import.py reads it *)
(* writes one between two pins, with a switch that it has written, and within *)
(* a tile from the sub tile with the one port to that with the other.         *)
THEOREM DirectsLeadToTheirPorts == Spec => []DirectsMeetTheirPorts
<1>1. IInv => DirectsMeetTheirPorts
  <2> SUFFICES ASSUME IInv, pc = "done" PROVE DirectsMeetTheirPorts
    BY DEF DirectsMeetTheirPorts
  <2>1. /\ arch.directs = Directs(dev, tiles) /\ arch.switches = Switches(dev)
        /\ ZeroOffsetsAreSound(dev, tiles) /\ dev \in Devices
    BY DEF IInv, ArchIsWritten, IsDrawn
  <2>2. ASSUME NEW x \in arch.directs, NEW y \in arch.directs, x.from = y.from, x.to = y.to
        PROVE  x = y
    <3>1. PICK n \in Nearest(dev) :
            /\ x.from = n.from /\ x.to = n.to
            /\ \/ Offset(n) # 0 /\ x = AddDirect(n, 0)
               \/ n \in ZeroOffset(dev) /\ x = AddDirect(n, ZOffset(tiles[<<n.from[1]>>], n.from[2], n.to[2]))
      BY DirectsAreNearest
    <3>2. PICK m \in Nearest(dev) :
            /\ y.from = m.from /\ y.to = m.to
            /\ \/ Offset(m) # 0 /\ y = AddDirect(m, 0)
               \/ m \in ZeroOffset(dev) /\ y = AddDirect(m, ZOffset(tiles[<<m.from[1]>>], m.from[2], m.to[2]))
      BY DirectsAreNearest
    <3>3. n.from = m.from /\ n.to = m.to
      BY <2>2, <3>1, <3>2
    <3>4. n = m
      BY <2>1, <3>3, OneIsNearest
    <3>5. \A z \in ZeroOffset(dev) : Offset(z) = 0
      BY DEF ZeroOffset
    <3> DEFINE dz == ZOffset(tiles[<<n.from[1]>>], n.from[2], n.to[2])
    <3>6. /\ \/ Offset(n) # 0 /\ x = AddDirect(n, 0)
             \/ Offset(n) = 0 /\ x = AddDirect(n, dz)
          /\ \/ Offset(n) # 0 /\ y = AddDirect(n, 0)
             \/ Offset(n) = 0 /\ y = AddDirect(n, dz)
      BY <3>1, <3>2, <3>4, <3>5
    <3> HIDE DEF dz
    <3>. QED
      BY <3>6
  <2>3. ASSUME NEW x \in arch.directs PROVE x.switch \subseteq arch.switches
    <3>1. PICK n \in Nearest(dev) : x.switch = IF n.switch = Delayless THEN {} ELSE {n.switch}
      BY DirectsAreNearest
    <3>2. n.switch \in dev.switches \union {Delayless}
      <4>1. n \in ToSet(dev.assigned.directs)
        BY DEF Nearest, ToSet
      <4>. QED
        BY <2>1, <4>1, DirectsAssumption
    <3>. QED
      BY <2>1, <3>1, <3>2 DEF Switches
  <2>4. ASSUME NEW x \in arch.directs, Offset(x) = 0
        PROVE  \E i, j \in DOMAIN tiles[<<x.from[1]>>] :
                 /\ x.from[2] \in tiles[<<x.from[1]>>][i].outs /\ x.to[2] \in tiles[<<x.to[1]>>][j].ins
                 /\ j = i + x.dz
    <3>1. PICK n \in ZeroOffset(dev) :
            /\ x.from = n.from /\ x.to = n.to
            /\ x.dz = ZOffset(tiles[<<n.from[1]>>], n.from[2], n.to[2])
      BY <2>4, DirectsAreNearest
    <3> DEFINE subs == tiles[<<n.from[1]>>]
    <3>2. /\ x.from = n.from /\ x.to = n.to /\ x.dz = ZOffset(subs, n.from[2], n.to[2])
          /\ n.from[1] = n.to[1]
      BY <3>1 DEF ZeroOffset
    <3>3. Ends(subs, n)
      BY DirectEnds
    <3>4. SubTilesWith(subs, n.from[2]) # {} /\ SubTilesWith(subs, n.to[2]) # {}
      BY <2>1 DEF ZeroOffsetsAreSound
    <3> HIDE DEF subs
    <3>5. PICK i \in DOMAIN subs : /\ i \in Int /\ Max(SubTilesWith(subs, n.from[2])) = i - 1
                                   /\ n.from[2] \in subs[i].ins \union subs[i].outs
      BY <3>3, <3>4, LastSubTile DEF Ends
    <3>6. PICK j \in DOMAIN subs : /\ j \in Int /\ Max(SubTilesWith(subs, n.to[2])) = j - 1
                                   /\ n.to[2] \in subs[j].ins \union subs[j].outs
      BY <3>3, <3>4, LastSubTile DEF Ends
    <3>7. n.from[2] \in subs[i].outs /\ n.to[2] \in subs[j].ins
      BY <3>3, <3>5, <3>6 DEF Ends
    <3>8. j = i + x.dz
      <4>1. x.dz = (j - 1) - (i - 1)
        BY <3>2, <3>5, <3>6 DEF ZOffset
      <4>. QED
        BY <3>5, <3>6, <4>1
    <3>9. subs = tiles[<<x.from[1]>>] /\ subs = tiles[<<x.to[1]>>]
      BY <3>2 DEF subs
    <3>. QED
      BY <3>2, <3>7, <3>8, <3>9
  <2>. QED
    BY <2>2, <2>3, <2>4 DEF DirectsMeetTheirPorts
<1>. QED
  BY <1>1, InitInv, InvIsKept, PTL DEF Spec

-----------------------------------------------------------------------------
(* The prefixes of several sites                                             *)

LEMMA CapacityOfAll ==
  ASSUME NEW subs, subs \in Seq(ToSet(subs)), \A i \in DOMAIN subs : subs[i].capacity = 1
  PROVE  Capacity(subs) = Len(subs)
<1> DEFINE N == Len(subs)
           Sum == CHOOSE f : f = [n \in 0 .. N |-> IF n = 0 THEN 0 ELSE f[n - 1] + subs[n].capacity]
           R == [n \in 0 .. N |-> n]
           S == {n \in Nat : n <= N => Sum[n] = n}
<1>1. Capacity(subs) = Sum[N]
  BY DEF Capacity
<1>2. N \in Nat /\ DOMAIN subs = 1 .. N /\ \A n \in 1 .. N : subs[n].capacity = 1
  OBVIOUS
<1> HIDE DEF N
<1>3. R = [n \in 0 .. N |-> IF n = 0 THEN 0 ELSE R[n - 1] + subs[n].capacity]
  <2>1. ASSUME NEW n \in 0 .. N
        PROVE  R[n] = IF n = 0 THEN 0 ELSE R[n - 1] + subs[n].capacity
    <3>1. n # 0 => n - 1 \in 0 .. N /\ n \in 1 .. N
      BY <1>2
    <3>2. n # 0 => R[n - 1] = n - 1 /\ subs[n].capacity = 1
      BY <1>2, <3>1
    <3>. QED
      BY <1>2, <3>2
  <2>2. R = [n \in 0 .. N |-> R[n]]
    OBVIOUS
  <2> HIDE DEF R
  <2>. QED
    BY <2>1, <2>2
<1> HIDE DEF R
<1>4. Sum = [n \in 0 .. N |-> IF n = 0 THEN 0 ELSE Sum[n - 1] + subs[n].capacity]
  BY <1>3
<1> HIDE DEF Sum
<1>5. \A n \in 0 .. N : Sum[n] = IF n = 0 THEN 0 ELSE Sum[n - 1] + subs[n].capacity
  BY <1>4
<1>6. 0 \in S
  BY <1>2, <1>5
<1>7. ASSUME NEW n \in Nat, n \in S PROVE n + 1 \in S
  <2> SUFFICES ASSUME n + 1 <= N PROVE Sum[n + 1] = n + 1
    OBVIOUS
  <2>1. n + 1 \in 0 .. N /\ n + 1 \in 1 .. N /\ n <= N /\ n + 1 # 0 /\ (n + 1) - 1 = n
    BY <1>2
  <2>2. Sum[n + 1] = Sum[n] + subs[n + 1].capacity
    BY <1>5, <2>1
  <2>3. Sum[n] = n /\ subs[n + 1].capacity = 1
    BY <1>2, <1>7, <2>1
  <2>. QED
    BY <2>2, <2>3
<1> HIDE DEF S
<1>8. N \in S
  BY <1>2, <1>6, <1>7, EveryNatural
<1>. QED
  BY <1>1, <1>2, <1>8 DEF S, N

(* A sequence of the members of a set in their order has each where its rank  *)
(* says.                                                                      *)
IsInOrder(o, n, S, B) ==
  /\ o \in [1 .. n -> S] /\ \A x \in S : \E i \in 1 .. n : o[i] = x
  /\ \A i, j \in 1 .. n : i < j => <<o[i], o[j]>> \in B

LEMMA RankOfSorted ==
  ASSUME NEW S, NEW B, IsStrictOrder(S, B), NEW n \in Nat, NEW o, IsInOrder(o, n, S, B)
  PROVE  \A i \in 1 .. n : Cardinality(Below(S, B, o[i])) = i - 1
<1> USE DEF IsInOrder
<1> SUFFICES ASSUME NEW i \in 1 .. n PROVE Cardinality(Below(S, B, o[i])) = i - 1
  OBVIOUS
<1>1. \A x, y \in S : <<x, y>> \in B => <<y, x>> \notin B
  BY DEF IsStrictOrder
<1>2. ASSUME NEW k \in 1 .. n PROVE <<o[k], o[i]>> \in B <=> k < i
  <2>1. k < i \/ k = i \/ i < k
    OBVIOUS
  <2>2. o[i] \in S /\ o[k] \in S
    OBVIOUS
  <2>3. i < k => <<o[i], o[k]>> \in B
    OBVIOUS
  <2>4. i < k => <<o[k], o[i]>> \notin B
    BY <1>1, <2>2, <2>3
  <2>5. k = i => <<o[k], o[i]>> \notin B
    BY <1>1, <2>2
  <2>6. k < i => <<o[k], o[i]>> \in B
    OBVIOUS
  <2>. QED
    BY <2>1, <2>4, <2>5, <2>6
<1> DEFINE f == [k \in 1 .. i - 1 |-> o[k]]
           Before_i == Below(S, B, o[i])
<1>3. i - 1 \in Nat /\ \A k \in 1 .. i - 1 : k \in 1 .. n /\ k < i
  OBVIOUS
<1>4. \A k \in 1 .. i - 1 : f[k] = o[k] /\ f[k] \in Before_i
  BY <1>2, <1>3 DEF Below
<1>5. \A x \in Before_i : \E k \in 1 .. i - 1 : f[k] = x
  <2> SUFFICES ASSUME NEW x \in Before_i PROVE \E k \in 1 .. i - 1 : f[k] = x
    OBVIOUS
  <2>1. x \in S /\ <<x, o[i]>> \in B
    BY DEF Below
  <2>2. PICK k \in 1 .. n : o[k] = x
    BY <2>1
  <2>3. k < i
    BY <1>2, <2>1, <2>2
  <2>4. k \in 1 .. i - 1
    BY <2>3
  <2>. QED
    BY <2>2, <2>4
<1>6. \A k, l \in 1 .. i - 1 : f[k] = f[l] => k = l
  <2> SUFFICES ASSUME NEW k \in 1 .. i - 1, NEW l \in 1 .. i - 1, f[k] = f[l], k # l PROVE FALSE
    OBVIOUS
  <2>1. k \in 1 .. n /\ l \in 1 .. n /\ o[k] = o[l] /\ o[k] \in S
    BY <1>3
  <2>2. <<o[k], o[k]>> \in B
    <3>1. k < l \/ l < k
      OBVIOUS
    <3>. QED
      BY <2>1, <3>1
  <2>. QED
    BY <1>1, <2>1, <2>2
<1> HIDE DEF Before_i
<1>7. f \in Bijection(1 .. i - 1, Before_i)
  <2>1. f \in [1 .. i - 1 -> Before_i]
    BY <1>4
  <2> HIDE DEF f
  <2>. QED
    BY <1>5, <1>6, <2>1 DEF Bijection, Injection, Surjection, IsInjective
<1>8. IsFiniteSet(1 .. i - 1) /\ Cardinality(1 .. i - 1) = i - 1
  BY <1>3, FirstNumbers
<1>9. Cardinality(Before_i) = Cardinality(1 .. i - 1)
  <2> HIDE DEF f
  <2>1. f \in Surjection(1 .. i - 1, Before_i) /\ f \in Injection(1 .. i - 1, Before_i)
    BY <1>7 DEF Bijection
  <2>. QED
    BY <1>8, <2>1, FS_Surjection
<1>. QED
  BY <1>8, <1>9 DEF Before_i

(* There is only one such sequence.                                           *)
LEMMA SortedIsUnique ==
  ASSUME NEW S, IsFiniteSet(S), NEW B, IsStrictOrder(S, B), NEW n \in Nat,
         NEW o, IsInOrder(o, n, S, B), NEW p, IsInOrder(p, n, S, B)
  PROVE  \A i \in 1 .. n : o[i] = p[i]
<1>1. \A i \in 1 .. n : Cardinality(Below(S, B, o[i])) = i - 1
  BY RankOfSorted
<1>2. \A i \in 1 .. n : Cardinality(Below(S, B, p[i])) = i - 1
  BY RankOfSorted
<1>3. \A x, y \in S : Cardinality(Below(S, B, x)) = Cardinality(Below(S, B, y)) => x = y
  BY EveryRank
<1>. QED
  BY <1>1, <1>2, <1>3 DEF IsInOrder

(* Instances of sites, of which no two are alike, have one order.             *)
LEMMA PrefixOfSorted ==
  ASSUME NEW S, IsFiniteSet(S),
         \A a \in S : a.type \in ToSet(Alphabet) /\ a.x \in Int /\ a.y \in Int,
         \A a, b \in S : a.type = b.type /\ a.x = b.x /\ a.y = b.y => a = b,
         NEW p \in [1 .. Cardinality(S) -> S], \A a \in S : \E i \in 1 .. Cardinality(S) : p[i] = a,
         \A i, j \in 1 .. Cardinality(S) : i < j => InstanceBefore(p[i], p[j])
  PROVE  CapacityPrefix(S) = [i \in 1 .. Cardinality(S) |-> MakePrefix(p[i].type, p[i].x, p[i].y)]
<1> DEFINE n == Cardinality(S)
           B == {e \in S \X S : InstanceBefore(e[1], e[2])}
           Follows(o) == \A i, j \in DOMAIN o : i < j => InstanceBefore(o[i], o[j])
           order == CHOOSE o \in Orderings(S) : Follows(o)
<1>1. n \in Nat
  BY FS_CardinalityType
<1>2. \A a, b \in S : <<a, b>> \in B <=> InstanceBefore(a, b)
  OBVIOUS
<1>3. IsStrictOrder(S, B)
  <2> HIDE DEF B
  <2>1. ASSUME NEW a \in S, NEW b \in S, a # b PROVE InstanceBefore(a, b) \/ InstanceBefore(b, a)
    <3>1. Before(a.type, b.type) \/ a.type = b.type \/ Before(b.type, a.type)
      BY NamesAreOrdered
    <3>2. a.type # b.type \/ a.x # b.x \/ a.y # b.y
      BY <2>1
    <3>3. (a.x < b.x \/ a.x = b.x \/ b.x < a.x) /\ (a.y < b.y \/ a.y = b.y \/ b.y < a.y)
      OBVIOUS
    <3>. QED
      BY <3>1, <3>2, <3>3 DEF InstanceBefore
  <2>2. ASSUME NEW a \in S, NEW b \in S, InstanceBefore(a, b) PROVE ~InstanceBefore(b, a)
    <3>1. ~(Before(a.type, b.type) /\ Before(b.type, a.type)) /\ ~Before(a.type, a.type)
      BY NamesAreOrdered
    <3>2. a.x \in Int /\ a.y \in Int /\ b.x \in Int /\ b.y \in Int
      OBVIOUS
    <3>. QED
      BY <2>2, <3>1, <3>2 DEF InstanceBefore
  <2>3. ASSUME NEW a \in S, NEW b \in S, NEW c \in S, InstanceBefore(a, b), InstanceBefore(b, c)
        PROVE  InstanceBefore(a, c)
    <3>1. Before(a.type, b.type) /\ Before(b.type, c.type) => Before(a.type, c.type)
      BY NamesAreOrdered
    <3>2. a.x \in Int /\ a.y \in Int /\ b.x \in Int /\ b.y \in Int /\ c.x \in Int /\ c.y \in Int
      OBVIOUS
    <3>3. CASE a.type = b.type /\ b.type = c.type
      <4>1. a.x < b.x \/ (a.x = b.x /\ a.y < b.y) \/ Before(a.type, a.type)
        BY <2>3, <3>3 DEF InstanceBefore
      <4>2. b.x < c.x \/ (b.x = c.x /\ b.y < c.y) \/ Before(a.type, a.type)
        BY <2>3, <3>3 DEF InstanceBefore
      <4>3. ~Before(a.type, a.type)
        BY NamesAreOrdered
      <4>4. a.x < c.x \/ (a.x = c.x /\ a.y < c.y)
        BY <3>2, <4>1, <4>2, <4>3
      <4>. QED
        BY <3>3, <4>4 DEF InstanceBefore
    <3>4. CASE a.type = b.type /\ b.type # c.type
      BY <2>3, <3>4 DEF InstanceBefore
    <3>5. CASE a.type # b.type /\ b.type = c.type
      BY <2>3, <3>5 DEF InstanceBefore
    <3>6. CASE a.type # b.type /\ b.type # c.type
      BY <2>3, <3>1, <3>6 DEF InstanceBefore
    <3>. QED
      BY <3>3, <3>4, <3>5, <3>6
  <2>. QED
    BY <1>2, <2>1, <2>2, <2>3 DEF IsStrictOrder
<1>4. p \in Orderings(S) /\ Follows(p)
  <2>1. {p[i] : i \in DOMAIN p} = S /\ DOMAIN p = 1 .. n
    OBVIOUS
  <2>. QED
    BY <2>1 DEF Orderings
<1>5. order \in Orderings(S) /\ Follows(order)
  <2> HIDE DEF Follows
  <2>. QED
    BY <1>4
<1>6. CapacityPrefix(S) = [i \in DOMAIN order |-> MakePrefix(order[i].type, order[i].x, order[i].y)]
  BY DEF CapacityPrefix
<1> HIDE DEF order
<1>7. order \in [1 .. n -> S] /\ DOMAIN order = 1 .. n /\ \A a \in S : \E i \in 1 .. n : order[i] = a
  <2>1. order \in [1 .. n -> S] /\ {order[i] : i \in DOMAIN order} = S
    BY <1>5 DEF Orderings
  <2>. QED
    BY <2>1
<1>8. /\ \A i, j \in 1 .. n : i < j => <<order[i], order[j]>> \in B
      /\ \A i, j \in 1 .. n : i < j => <<p[i], p[j]>> \in B
  BY <1>2, <1>4, <1>5, <1>7
<1>9. \A i \in 1 .. n : order[i] = p[i]
  <2>1. p \in [1 .. n -> S] /\ \A a \in S : \E i \in 1 .. n : p[i] = a
    OBVIOUS
  <2> HIDE DEF B, n, Follows
  <2>2. IsInOrder(order, n, S, B) /\ IsInOrder(p, n, S, B)
    BY <1>7, <1>8, <2>1 DEF IsInOrder
  <2>3. IsFiniteSet(S) /\ n \in Nat /\ IsStrictOrder(S, B)
    BY <1>1, <1>3
  <2>. QED
    <3>1. ASSUME NEW q, NEW u, IsInOrder(q, n, S, B), IsInOrder(u, n, S, B) PROVE \A i \in 1 .. n : q[i] = u[i]
      BY <2>3, <3>1, SortedIsUnique
    <3>. QED
      BY <2>2, <3>1
<1> HIDE DEF B, n
<1>. QED
  BY <1>6, <1>7, <1>9 DEF n


RowOf(d, i) == [type |-> d.db.sites[i.site].type, x |-> i.x, y |-> i.y]

(* The prefix of each of the sites of a tile is in the place of the sub tile  *)
(* whose wires lead to it: when the database has as many as there are sub     *)
(* tiles, it has one for each, and both are in the same order.                *)
LEMMA PrefixesOfSites ==
  ASSUME dev \in Devices, NEW r \in ToSet(dev.recipes), r.how = "capacity",
         NEW t \in dev.db.tiles, t.type = r.tile, NEW subs, NEW at \in [1 .. Len(r.sites) -> 1 .. Len(r.sites)],
         IsMadeFrom(subs, at, r.sites), Cardinality(InstancesAt(dev, t.phy)) = Len(r.sites)
  PROVE  /\ DOMAIN CapacityPrefix(InstancesAt(dev, t.phy)) = DOMAIN subs
         /\ \A k \in DOMAIN subs : \A site \in SitesOfSubTile(t, subs[k]) :
              \E i \in InstancesOf(dev, t) :
                /\ i.site = site
                /\ CapacityPrefix(InstancesAt(dev, t.phy))[k] = MakePrefix(dev.db.sites[site].type, i.x, i.y)
<1> DEFINE n == Len(r.sites)
           I == InstancesOf(dev, t)
           S == InstancesAt(dev, t.phy)
<1>1. /\ r.sites \in Seq(ToSet(r.sites))
      /\ \A s \in ToSet(r.sites) : s.type \in ToSet(Alphabet) /\ s.x \in Int /\ s.y \in Int
  BY RecipesAssumption
<1>2. n \in Nat /\ DOMAIN r.sites = 1 .. n /\ \A k \in 1 .. n : r.sites[k] \in ToSet(r.sites)
  BY <1>1 DEF ToSet
<1>3. PICK of \in [I -> 1 .. n] : IsLaidOut(dev, r, t, of)
  BY <1>2, SitesAssumption
<1>4. /\ \A i \in I : /\ i.x \in Int /\ i.y \in Int /\ dev.db.sites[i.site].type = r.sites[of[i]].type
                      /\ of[i] \in 1 .. n
                      /\ \A q \in r.sites[of[i]].pins :
                           q.wire # NoName => dev.db.wit[<<dev.db.phyType[t.phy], q.wire>>].site = i.site
      /\ \A i, j \in I : of[i] = of[j] => i = j
      /\ \A i, j \in I : r.sites[of[i]].type = r.sites[of[j]].type =>
           /\ i.x < j.x <=> r.sites[of[i]].x < r.sites[of[j]].x
           /\ i.y < j.y <=> r.sites[of[i]].y < r.sites[of[j]].y
  BY <1>3 DEF IsLaidOut
<1>5. S = {RowOf(dev, i) : i \in I}
  BY DEF InstancesAt, InstancesOf, RowOf
<1>6. \A i \in I : /\ RowOf(dev, i).type = dev.db.sites[i.site].type
                   /\ RowOf(dev, i).x = i.x /\ RowOf(dev, i).y = i.y
  BY DEF RowOf
<1> DEFINE g == [i \in I |-> RowOf(dev, i)]
<1> HIDE DEF n, I, S
<1>7. IsFiniteSet(I) /\ Cardinality(I) <= n /\ (Cardinality(I) = n => \A k \in 1 .. n : \E i \in I : of[i] = k)
  <2>1. of \in Injection(I, 1 .. n)
    BY <1>3, <1>4 DEF Injection, IsInjective
  <2>2. IsFiniteSet(1 .. n) /\ Cardinality(1 .. n) = n
    BY <1>2, FirstNumbers
  <2>3. /\ IsFiniteSet(I) /\ Cardinality(I) <= Cardinality(1 .. n)
        /\ Cardinality(I) = Cardinality(1 .. n) <=> of \in Surjection(I, 1 .. n)
    BY <2>1, <2>2, FS_Injection
  <2>. QED
    BY <2>2, <2>3 DEF Surjection
<1>8. /\ IsFiniteSet(S) /\ Cardinality(S) = n /\ Cardinality(I) = n
      /\ \A i, j \in I : RowOf(dev, i) = RowOf(dev, j) => i = j
  <2>1. g \in Surjection(I, S)
    <3>1. g \in [I -> S] /\ \A x \in S : \E i \in I : g[i] = x
      BY <1>5
    <3> HIDE DEF g
    <3>. QED
      BY <3>1 DEF Surjection
  <2>2. /\ IsFiniteSet(S) /\ Cardinality(S) <= Cardinality(I)
        /\ Cardinality(S) = Cardinality(I) <=> g \in Injection(I, S)
    <3> HIDE DEF g
    <3>. QED
      BY <1>7, <2>1, FS_Surjection
  <2>3. Cardinality(S) = n
    BY DEF S, n
  <2>4. Cardinality(I) \in Nat
    BY <1>7, FS_CardinalityType
  <2>5. Cardinality(I) = n
    BY <1>2, <1>7, <2>2, <2>3, <2>4
  <2>6. \A i, j \in I : g[i] = g[j] => i = j
    <3> HIDE DEF g
    <3>. QED
      BY <2>2, <2>3, <2>5 DEF Injection, IsInjective
  <2>. QED
    BY <2>2, <2>3, <2>5, <2>6
<1>9. \A k \in 1 .. n : \E i \in I : of[i] = k
  BY <1>7, <1>8
<1> HIDE DEF g
<1> DEFINE There(k) == CHOOSE i \in I : of[i] = k
<1>10. \A k \in 1 .. n : There(k) \in I /\ of[There(k)] = k
  BY <1>9
<1> HIDE DEF There
<1>11. /\ at \in [1 .. n -> 1 .. n] /\ \A k, l \in 1 .. n : at[k] = at[l] => k = l
       /\ \A k, l \in 1 .. n : k < l => ~SiteBefore(r.sites[at[l]], r.sites[at[k]])
       /\ DOMAIN subs = 1 .. n
       /\ \A k \in 1 .. n : /\ subs[k].ins \subseteq Wires(r.sites[at[k]].pins, "IN")
                            /\ subs[k].outs \subseteq Wires(r.sites[at[k]].pins, "OUT")
  BY DEF IsMadeFrom, n
<1>12. \A k \in 1 .. n : \E l \in 1 .. n : at[l] = k
  <2>1. at \in Injection(1 .. n, 1 .. n)
    BY <1>11 DEF Injection, IsInjective
  <2>2. IsFiniteSet(1 .. n)
    BY <1>2, FirstNumbers
  <2>3. at \in Surjection(1 .. n, 1 .. n)
    BY <2>1, <2>2, FS_Injection
  <2>. QED
    BY <2>3 DEF Surjection
<1> DEFINE p == [k \in 1 .. n |-> RowOf(dev, There(at[k]))]
<1>13. \A k \in 1 .. n : at[k] \in 1 .. n /\ There(at[k]) \in I /\ of[There(at[k])] = at[k]
  BY <1>10, <1>11
<1>14. p \in [1 .. n -> S]
  BY <1>5, <1>13
<1>15. \A a \in S : \E k \in 1 .. n : p[k] = a
  <2> SUFFICES ASSUME NEW a \in S PROVE \E k \in 1 .. n : p[k] = a
    OBVIOUS
  <2>1. PICK i \in I : a = RowOf(dev, i)
    BY <1>5
  <2>2. PICK k \in 1 .. n : at[k] = of[i]
    BY <1>4, <1>12
  <2>3. There(at[k]) = i
    BY <1>4, <1>13, <2>2
  <2>. QED
    BY <2>1, <2>3
<1>16. ASSUME NEW k \in 1 .. n, NEW l \in 1 .. n, k < l PROVE InstanceBefore(p[k], p[l])
  <2> DEFINE i == There(at[k])
             j == There(at[l])
             a == r.sites[at[k]]
             b == r.sites[at[l]]
  <2>1. /\ i \in I /\ j \in I /\ of[i] = at[k] /\ of[j] = at[l]
        /\ a.type \in ToSet(Alphabet) /\ b.type \in ToSet(Alphabet)
        /\ a.x \in Int /\ a.y \in Int /\ b.x \in Int /\ b.y \in Int
    BY <1>1, <1>2, <1>13
  <2>2. /\ p[k].type = a.type /\ p[k].x = i.x /\ p[k].y = i.y
        /\ p[l].type = b.type /\ p[l].x = j.x /\ p[l].y = j.y
    BY <1>4, <1>6, <2>1
  <2>3. i.x \in Int /\ i.y \in Int /\ j.x \in Int /\ j.y \in Int
    BY <1>4, <2>1
  <2>4. ~SiteBefore(b, a)
    BY <1>11, <1>16
  <2>5. i # j
    <3>1. at[k] # at[l]
      BY <1>2, <1>11, <1>16
    <3>. QED
      BY <2>1, <3>1
  <2>6. ~(i.x = j.x /\ i.y = j.y /\ a.type = b.type)
    <3>1. RowOf(dev, i) # RowOf(dev, j)
      BY <1>8, <2>1, <2>5
    <3>2. dev.db.sites[i.site].type = a.type /\ dev.db.sites[j.site].type = b.type
      BY <1>4, <2>1
    <3>. QED
      BY <3>1, <3>2 DEF RowOf
  <2>7. a.type = b.type => /\ i.x < j.x <=> a.x < b.x
                           /\ i.y < j.y <=> a.y < b.y
                           /\ j.x < i.x <=> b.x < a.x
                           /\ j.y < i.y <=> b.y < a.y
    <3>1. i \in I /\ j \in I /\ a = r.sites[of[i]] /\ b = r.sites[of[j]]
      BY <2>1
    <3> HIDE DEF i, j, a, b
    <3>2. \A u, v \in I : r.sites[of[u]].type = r.sites[of[v]].type =>
            /\ u.x < v.x <=> r.sites[of[u]].x < r.sites[of[v]].x
            /\ u.y < v.y <=> r.sites[of[u]].y < r.sites[of[v]].y
      BY <1>4
    <3>3. a.type = b.type => (i.x < j.x <=> a.x < b.x) /\ (i.y < j.y <=> a.y < b.y)
      BY <3>1, <3>2
    <3>4. a.type = b.type => (j.x < i.x <=> b.x < a.x) /\ (j.y < i.y <=> b.y < a.y)
      BY <3>1, <3>2
    <3>. QED
      BY <3>3, <3>4
  <2> HIDE DEF i, j, a, b, p
  <2>8. CASE a.type # b.type
    <3>1. Before(a.type, b.type)
      BY <2>1, <2>4, <2>8, NamesAreOrdered DEF SiteBefore
    <3>. QED
      BY <2>2, <3>1 DEF InstanceBefore
  <2>9. CASE a.type = b.type
    <3>1. ~(b.x < a.x) /\ ~(b.x = a.x /\ b.y < a.y)
      BY <2>4, <2>9 DEF SiteBefore
    <3>2. i.x < j.x \/ (i.x = j.x /\ i.y < j.y)
      BY <2>1, <2>3, <2>6, <2>7, <2>9, <3>1
    <3>. QED
      BY <2>2, <2>9, <3>2 DEF InstanceBefore
  <2>. QED
    BY <2>8, <2>9
<1>17. CapacityPrefix(S) = [k \in 1 .. n |-> MakePrefix(p[k].type, p[k].x, p[k].y)]
  <2>1. \A a \in S : a.type \in ToSet(Alphabet) /\ a.x \in Int /\ a.y \in Int
    BY <1>1, <1>2, <1>4, <1>5, <1>6
  <2>2. \A a, b \in S : a.type = b.type /\ a.x = b.x /\ a.y = b.y => a = b
    BY <1>5 DEF RowOf
  <2> HIDE DEF p
  <2>3. \A k, l \in 1 .. n : k < l => InstanceBefore(p[k], p[l])
    BY <1>16
  <2>4. IsFiniteSet(S) /\ Cardinality(S) = n
    BY <1>8
  <2> HIDE DEF There
  <2>5. \A q : q \in [1 .. Cardinality(S) -> S] /\ (\A a \in S : \E k \in 1 .. Cardinality(S) : q[k] = a)
               /\ (\A k, l \in 1 .. Cardinality(S) : k < l => InstanceBefore(q[k], q[l])) =>
               CapacityPrefix(S) = [k \in 1 .. Cardinality(S) |-> MakePrefix(q[k].type, q[k].x, q[k].y)]
    <3> SUFFICES ASSUME NEW q \in [1 .. Cardinality(S) -> S], \A a \in S : \E k \in 1 .. Cardinality(S) : q[k] = a,
                        \A k, l \in 1 .. Cardinality(S) : k < l => InstanceBefore(q[k], q[l])
                 PROVE  CapacityPrefix(S) = [k \in 1 .. Cardinality(S) |-> MakePrefix(q[k].type, q[k].x, q[k].y)]
      OBVIOUS
    <3>. QED
      BY <2>1, <2>2, <2>4, PrefixOfSorted
  <2>. QED
    BY <1>14, <1>15, <2>3, <2>4, <2>5
<1>18. ASSUME NEW k \in 1 .. n, NEW site \in SitesOfSubTile(t, subs[k])
       PROVE  \E i \in I : i.site = site /\ CapacityPrefix(S)[k] = MakePrefix(dev.db.sites[site].type, i.x, i.y)
  <2> DEFINE i == There(at[k])
  <2>1. PICK wire \in subs[k].ins \union subs[k].outs : site = dev.db.wit[<<dev.db.phyType[t.phy], wire>>].site
    BY DEF SitesOfSubTile
  <2>2. \E q \in r.sites[at[k]].pins : q.wire = wire /\ wire # NoName
    <3>1. wire \in Wires(r.sites[at[k]].pins, "IN") \/ wire \in Wires(r.sites[at[k]].pins, "OUT")
      BY <1>11, <2>1
    <3>. QED
      BY <3>1 DEF Wires
  <2>3. i \in I /\ of[i] = at[k]
    BY <1>13
  <2>4. site = i.site
    <3>1. PICK q \in r.sites[of[i]].pins : q.wire = wire /\ wire # NoName
      BY <2>2, <2>3
    <3>2. dev.db.wit[<<dev.db.phyType[t.phy], q.wire>>].site = i.site
      BY <1>4, <2>3, <3>1
    <3>. QED
      BY <2>1, <3>1, <3>2
  <2>5. CapacityPrefix(S)[k] = MakePrefix(dev.db.sites[i.site].type, i.x, i.y)
    BY <1>6, <1>17, <2>3
  <2> HIDE DEF i
  <2>. QED
    BY <2>3, <2>4, <2>5
<1>. QED
  BY <1>11, <1>17, <1>18 DEF I, S, n


(* A place of the layout has the name of a pad or of a constant when it has a *)
(* synthetic tile.                                                            *)
LEMMA OtherNamesAtPlaces ==
  ASSUME IInv, pc \in Emitting, NEW l \in DOMAIN locs, NEW w, w \notin {"SYN-VCC", "SYN-GND"}
  PROVE  locs[l] # <<w>>
<1>1. OneTileAtEachLoc(synth)
  BY DEF IInv, LocsFollow
<1>2. \A s \in Signals : SynthTileOf[s] \in {"SYN-VCC", "SYN-GND"}
  BY DEF Signals, SynthTileOf
<1>3. ASSUME NEW t \in DOMAIN synth PROVE SynthName(synth[t]) # <<w>>
  <2>1. CASE IsPad(synth[t])
    BY <2>1, PadsHaveOtherNames
  <2>2. CASE ~IsPad(synth[t])
    <3>1. IsConstant(synth[t])
      BY <2>2, PadsAreNotConstants
    <3>2. SynthName(synth[t]) = <<SynthTileOf[synth[t].pins[1].type]>> /\ synth[t].pins[1].type \in Signals
      BY <3>1 DEF SynthName, IsConstant
    <3>. QED
      BY <1>2, <3>2, NameOfOne
  <2>. QED
    BY <2>1, <2>2
<1>4. ASSUME l \in DOMAIN SynthLocMap(synth) PROVE SynthLocMap(synth)[l] # <<w>>
  BY <1>1, <1>3, <1>4, NamesAtTheirPlaces
<1>5. CASE dev.mode = "roi"
  BY <1>4, <1>5 DEF IInv, LocsFollow
<1>6. CASE dev.mode # "roi"
  <2>1. MayInsertConstants(dev) /\ locs = Over(ConstantLocMap(dev), SynthLocMap(synth)) /\ dev \in Devices
    BY <1>6 DEF IInv, LocsFollow
  <2>2. PICK v, u \in dev.db.tiles :
          ConstantLocMap(dev) = Over(Only(<<v.x, v.y>>, <<"SYN-VCC">>), Only(<<u.x, u.y>>, <<"SYN-GND">>))
    BY <2>1, ConstantPlaces
  <2>3. \A k \in DOMAIN ConstantLocMap(dev) : ConstantLocMap(dev)[k] \in {<<"SYN-VCC">>, <<"SYN-GND">>}
    BY <2>2 DEF Over, Only
  <2>4. <<"SYN-VCC">> # <<w>> /\ <<"SYN-GND">> # <<w>>
    BY NameOfOne
  <2>5. \/ l \in DOMAIN ConstantLocMap(dev) /\ locs[l] = ConstantLocMap(dev)[l]
        \/ l \in DOMAIN SynthLocMap(synth) /\ locs[l] = SynthLocMap(synth)[l]
    BY <2>1 DEF Over
  <2>. QED
    BY <1>4, <2>3, <2>4, <2>5
<1>. QED
  BY <1>5, <1>6

(* What the prefixes of a tile of several sites are.                          *)
LEMMA PrefixOfTile ==
  ASSUME NEW t, t.site = "none", NEW c, FasmTilePrefix(dev, t, c).ok
  PROVE  \/ FasmTilePrefix(dev, t, c).sites = <<>>
         \/ /\ Cardinality(InstancesAt(dev, t.phy)) = c
            /\ FasmTilePrefix(dev, t, c).sites = CapacityPrefix(InstancesAt(dev, t.phy))
<1> DEFINE prefix == SitesPrefix(dev, t, c)
           made == FasmTilePrefix(dev, t, c)
<1>1. CASE Cardinality(TypesWithBits(dev, t)) > 1
  <2>1. made = Placeholders(dev, t, c)
    BY <1>1 DEF FasmTilePrefix
  <2>2. Placeholders(dev, t, c).sites = <<>>
    BY DEF Placeholders
  <2>. QED
    BY <2>1, <2>2
<1>2. CASE ~(Cardinality(TypesWithBits(dev, t)) > 1) /\ HasBits(dev, t) = {}
  <2>1. made = [NoPrefix EXCEPT !.ok = FALSE]
    BY <1>2 DEF FasmTilePrefix
  <2>2. ~made.ok
    BY <2>1 DEF NoPrefix
  <2>. QED
    BY <2>2
<1>3. CASE ~(Cardinality(TypesWithBits(dev, t)) > 1) /\ HasBits(dev, t) # {}
  <2>1. made = [NoPrefix EXCEPT !.ok = prefix.ok, !.tile = Max(HasBits(dev, t)), !.sites = prefix.sites]
    BY <1>3 DEF FasmTilePrefix
  <2> HIDE DEF prefix
  <2>2. made.ok = prefix.ok /\ made.sites = prefix.sites
    BY <2>1 DEF NoPrefix
  <2>3. CASE c > 1
    <3> DEFINE S == InstancesAt(dev, t.phy)
               known == \A i \in S : i.type \in DOMAIN PrefixRequired
    <3>1. prefix = [ok |-> known /\ Cardinality(S) = c, sites |-> IF known THEN CapacityPrefix(S) ELSE <<>>]
      BY <2>3 DEF prefix, SitesPrefix
    <3> HIDE DEF known, S
    <3>2. known /\ Cardinality(S) = c /\ prefix.sites = CapacityPrefix(S)
      BY <2>2, <3>1
    <3>. QED
      BY <2>2, <3>2 DEF S
  <2>4. CASE ~(c > 1)
    <3>1. prefix = [ok |-> TRUE, sites |-> <<>>]
      BY <2>4 DEF prefix, SitesPrefix
    <3>. QED
      BY <2>2, <3>1
  <2>. QED
    BY <2>3, <2>4
<1>. QED
  BY <1>1, <1>2, <1>3

(* The two programs agree: the prefixes that the layout gives to the sites of *)
(* a tile are in the order of the sub tiles, for any sites and any database   *)
(* that have them in the same places of each other.                           *)
THEOREM PrefixesAreInOrder == Spec => []PrefixesFollowTheSubTiles
<1>1. IInv => PrefixesFollowTheSubTiles
  <2> SUFFICES ASSUME IInv, IsDrawn, NEW r \in ToSet(dev.recipes), r.how = "capacity",
                      NEW l \in DOMAIN arch.layout, arch.layout[l].type = <<r.tile>>,
                      NEW k \in DOMAIN arch.layout[l].prefix.sites,
                      NEW site \in SitesOfSubTile(TileAt(l), tiles[<<r.tile>>][k])
               PROVE  arch.layout[l].prefix.sites[k] \in
                        {MakePrefix(dev.db.sites[site].type, i.x, i.y) :
                           i \in {j \in dev.db.instances : j.phy = TileAt(l).phy /\ j.site = site}}
    BY DEF PrefixesFollowTheSubTiles
  <2>1. /\ dev \in Devices /\ pc \in Emitting /\ pc \notin {"tiles", "raised"}
        /\ arch.layout = Layout(dev, locs, tiles) /\ arch.layout[l].prefix.ok
    BY DEF IInv, ArchIsWritten, IsDrawn, Emitting
  <2>2. PICK t \in dev.db.tiles : <<t.x, t.y>> = l /\ IsEmitted(dev, t, locs)
    BY <2>1, LayoutOf
  <2>3. arch.layout[l] = Single(dev, t, locs, tiles)
    BY <2>1, <2>2, LayoutOf
  <2>4. TileAt(l) = t
    <3>1. TileAt(l) \in dev.db.tiles /\ <<TileAt(l).x, TileAt(l).y>> = <<t.x, t.y>>
      BY <2>2 DEF TileAt
    <3>. QED
      BY <2>1, <3>1, GridAssumption
  <2>5. r.tile \notin {"SYN-VCC", "SYN-GND"}
    <3>1. {SynthTileOf[s] : s \in Signals} = {"SYN-VCC", "SYN-GND"}
      BY DEF Signals, SynthTileOf
    <3>. QED
      BY <2>1, <3>1, RecipesAssumption
  <2>6. l \notin DOMAIN locs
    <3>1. l \in DOMAIN locs => arch.layout[l].type = locs[l]
      BY <2>2, <2>3 DEF Single, IsSynthetic
    <3>. QED
      BY <2>1, <2>5, <3>1, OtherNamesAtPlaces
  <2> DEFINE subs == tiles[<<r.tile>>]
             prefix == arch.layout[l].prefix
  <2>7. t.type = r.tile /\ prefix = IF t.pss THEN NoPrefix ELSE FasmTilePrefix(dev, t, Capacity(subs))
    <3>1. /\ arch.layout[l].type = <<t.type>>
          /\ prefix = IF t.pss THEN NoPrefix ELSE FasmTilePrefix(dev, t, Capacity(tiles[<<t.type>>]))
      BY <2>2, <2>3, <2>6 DEF Single, IsSynthetic
    <3>2. t.type = r.tile
      BY <3>1, NameOfOne
    <3>. QED
      BY <3>1, <3>2
  <2>8. PICK at \in [1 .. Len(r.sites) -> 1 .. Len(r.sites)] : IsMadeFrom(subs, at, r.sites)
    <3>1. ImportTileCapacity(r, dev.assigned).ok /\ subs = ImportTileCapacity(r, dev.assigned).subs
      BY <2>1, SitesAreFollowed
    <3>. QED
      BY <2>1, <3>1, CapacityOfSites
  <2>9. Capacity(subs) = Len(r.sites)
    <3>1. /\ subs \in Seq(ToSet(subs)) /\ DOMAIN subs = 1 .. Len(r.sites)
          /\ \A i \in DOMAIN subs : subs[i].capacity = 1
      BY <2>8 DEF IsMadeFrom
    <3>2. Len(r.sites) \in Nat
      BY <2>1, RecipesAssumption, LenProperties
    <3> HIDE DEF subs
    <3>3. Len(subs) = Len(r.sites)
      BY <3>1, <3>2
    <3>. QED
      BY <3>1, <3>3, CapacityOfAll
  <2>10. t.site = "none"
    BY <2>1, <2>7, SitesAssumption
  <2> HIDE DEF subs
  <2>11. prefix.sites # <<>>
    BY DEF prefix
  <2>12. /\ Cardinality(InstancesAt(dev, t.phy)) = Len(r.sites)
         /\ prefix.sites = CapacityPrefix(InstancesAt(dev, t.phy))
    <3>1. ~t.pss
      BY <2>7, <2>11 DEF NoPrefix
    <3>2. prefix = FasmTilePrefix(dev, t, Capacity(subs)) /\ prefix.ok
      BY <2>1, <2>7, <3>1
    <3> HIDE DEF prefix
    <3>. QED
      BY <2>9, <2>10, <2>11, <3>2, PrefixOfTile
  <2>13. /\ DOMAIN CapacityPrefix(InstancesAt(dev, t.phy)) = DOMAIN subs
         /\ \A m \in DOMAIN subs : \A s \in SitesOfSubTile(t, subs[m]) :
              \E i \in InstancesOf(dev, t) :
                /\ i.site = s
                /\ CapacityPrefix(InstancesAt(dev, t.phy))[m] = MakePrefix(dev.db.sites[s].type, i.x, i.y)
    BY <2>1, <2>7, <2>8, <2>12, PrefixesOfSites
  <2>14. PICK i \in InstancesOf(dev, t) :
           i.site = site /\ prefix.sites[k] = MakePrefix(dev.db.sites[site].type, i.x, i.y)
    BY <2>4, <2>12, <2>13 DEF subs
  <2>. QED
    BY <2>4, <2>14 DEF InstancesOf
<1>. QED
  BY <1>1, InitInv, InvIsKept, PTL DEF Spec

-----------------------------------------------------------------------------
(* The nets of a tile                                                        *)

IsClosedFor(db, phys, nodes) == \A m \in nodes : OnePipAway(db, phys, m) \subseteq nodes

(* Connected is the least set with the node that no pip leads out of: as many *)
(* steps as there are nodes are enough.                                       *)
LEMMA ConnectedIsClosure ==
  ASSUME NEW db, NEW phys, NEW node, IsFiniteSet(db.wires)
  PROVE  /\ node \in Connected(db, phys, node)
         /\ IsClosedFor(db, phys, Connected(db, phys, node))
         /\ \A C : node \in C /\ IsClosedFor(db, phys, C) => Connected(db, phys, node) \subseteq C
<1> DEFINE E == NodesIn(db, phys)
           N == Cardinality(E)
           Step(gs) == gs \union UNION {OnePipAway(db, phys, m) : m \in gs}
           In == [e \in E |-> {e}]
           Out == [e \in E |-> OnePipAway(db, phys, e)]
           R == CHOOSE r : r = [n \in 0 .. N |-> IF n = 0 THEN {node} ELSE Step(r[n - 1])]
<1>1. IsFiniteSet(E) /\ N \in Nat
  <2> DEFINE V == {v \in db.wires : v.phy \in phys}
             node_of == [w \in V |-> w.node]
  <2>1. IsFiniteSet(V)
    BY FS_Subset
  <2>2. IsFiniteSet(E)
    <3>1. node_of \in Surjection(V, E)
      BY DEF NodesIn, Surjection
    <3> HIDE DEF node_of, V, E
    <3>. QED
      BY <2>1, <3>1, FS_Surjection
  <2>. QED
    BY <2>2, FS_CardinalityType
<1>2. \A m : m \notin E => OnePipAway(db, phys, m) = {}
  BY DEF OnePipAway, NodesIn
<1>3. \A gs : Grown(gs, E, In, Out) = Step(gs)
  <2> SUFFICES ASSUME NEW gs PROVE Grown(gs, E, In, Out) = Step(gs)
    OBVIOUS
  <2>1. \A e \in E : In[e] \intersect gs # {} <=> e \in gs
    OBVIOUS
  <2>2. \A e \in E : Out[e] = OnePipAway(db, phys, e)
    OBVIOUS
  <2> HIDE DEF E, In, Out
  <2>3. ASSUME NEW n
        PROVE  n \in UNION {Out[e] : e \in {f \in E : In[f] \intersect gs # {}}}
                 <=> \E m \in gs : n \in OnePipAway(db, phys, m)
    BY <1>2, <2>1, <2>2
  <2>. QED
    BY <2>3 DEF Grown
<1>4. Grows(R, N, {node}, E, In, Out)
  <2>1. PICK r : Grows(r, N, {node}, E, In, Out)
    <3> HIDE DEF E, N, In, Out
    <3>. QED
      BY <1>1, GrowthExists
  <2> HIDE DEF N, In, Out, Step, R
  <2>2. r = [n \in 0 .. N |-> IF n = 0 THEN {node} ELSE Step(r[n - 1])]
    BY <1>3, <2>1 DEF Grows
  <2> USE DEF R
  <2>3. R = [n \in 0 .. N |-> IF n = 0 THEN {node} ELSE Step(R[n - 1])]
    BY <2>2
  <2> HIDE DEF R
  <2>. QED
    BY <1>3, <2>3 DEF Grows
<1>5. Connected(db, phys, node) = R[N]
  BY DEF Connected
<1>6. \A gs : IsClosed(gs, E, In, Out) <=> IsClosedFor(db, phys, gs)
  <2> SUFFICES ASSUME NEW gs PROVE IsClosed(gs, E, In, Out) <=> IsClosedFor(db, phys, gs)
    OBVIOUS
  <2>1. \A e \in E : In[e] \intersect gs # {} <=> e \in gs
    OBVIOUS
  <2> HIDE DEF E
  <2>. QED
    BY <1>2, <2>1 DEF IsClosed, IsClosedFor
<1> HIDE DEF R, In, Out, E
<1>7. /\ {node} \subseteq R[N]
      /\ IsClosed(R[N], E, In, Out)
      /\ \A C : {node} \subseteq C /\ IsClosed(C, E, In, Out) => R[N] \subseteq C
  BY <1>1, <1>4, GrowthIsClosure
<1> HIDE DEF N
<1>. QED
  BY <1>5, <1>6, <1>7

(* A pip joins in both directions, so that connected nodes have one net.      *)
LEMMA ConnectedIsSymmetric ==
  ASSUME NEW db, NEW phys, NEW node, IsFiniteSet(db.wires)
  PROVE  \A m \in Connected(db, phys, node) : Connected(db, phys, m) = Connected(db, phys, node)
<1>1. \A x, y : y \in OnePipAway(db, phys, x) => x \in OnePipAway(db, phys, y)
  <2> SUFFICES ASSUME NEW x, NEW y, y \in OnePipAway(db, phys, x)
               PROVE  x \in OnePipAway(db, phys, y)
    OBVIOUS
  <2>1. PICK v \in db.wires : /\ v.node = y /\ v.phy \in phys
                                  /\ \E u \in db.wires, pip \in db.pips :
                                       /\ u.node = x /\ u.phy = v.phy
                                       /\ pip.type = db.phyType[v.phy] /\ ~pip.pseudo
                                       /\ pip.ends = {u.name, v.name}
    BY DEF OnePipAway
  <2>2. PICK u \in db.wires, pip \in db.pips :
          /\ u.node = x /\ u.phy = v.phy
          /\ pip.type = db.phyType[v.phy] /\ ~pip.pseudo
          /\ pip.ends = {u.name, v.name}
    BY <2>1
  <2>3. /\ u.phy \in phys /\ v.phy = u.phy /\ pip.type = db.phyType[u.phy]
        /\ pip.ends = {v.name, u.name}
    BY <2>1, <2>2
  <2>. QED
    BY <2>1, <2>2, <2>3 DEF OnePipAway
<1>2. ASSUME NEW x, NEW y \in Connected(db, phys, x) PROVE Connected(db, phys, y) \subseteq Connected(db, phys, x)
  BY <1>2, ConnectedIsClosure
<1> DEFINE Back == {x \in Connected(db, phys, node) : node \in Connected(db, phys, x)}
<1>3. node \in Back
  BY ConnectedIsClosure
<1>4. IsClosedFor(db, phys, Back)
  <2> SUFFICES ASSUME NEW x \in Back, NEW y \in OnePipAway(db, phys, x) PROVE y \in Back
    BY DEF IsClosedFor
  <2>1. y \in Connected(db, phys, node)
    BY ConnectedIsClosure DEF IsClosedFor
  <2>2. x \in Connected(db, phys, y)
    <3>1. x \in OnePipAway(db, phys, y)
      BY <1>1
    <3>. QED
      BY <3>1, ConnectedIsClosure DEF IsClosedFor
  <2>3. node \in Connected(db, phys, y)
    BY <1>2, <2>2
  <2>. QED
    BY <2>1, <2>3
<1>5. Connected(db, phys, node) \subseteq Back
  BY <1>3, <1>4, ConnectedIsClosure
<1>. QED
  BY <1>2, <1>5

(* While nodes are taken, the sets are apart, each is part of a net, and that *)
(* of a node which was taken has the nodes one pip away.                      *)
SetsArePartsOfNets(db, phys, sets) ==
  \A n \in DOMAIN sets :
    /\ n \in sets[n] /\ sets[n] \subseteq DOMAIN sets /\ sets[n] \subseteq Connected(db, phys, n)
    /\ \A m \in sets[n] : sets[m] = sets[n]

TakenNodesAreJoined(db, net) ==
  \A n \in NodesIn(db, net.phys) \ net.left :
    n \in DOMAIN net.sets /\ OnePipAway(db, net.phys, n) \subseteq net.sets[n]

IsPartlyExpanded(db, net) ==
  /\ {"phys", "sets", "left"} \subseteq DOMAIN net
  /\ net.left \subseteq NodesIn(db, net.phys) /\ DOMAIN net.sets \subseteq NodesIn(db, net.phys)
  /\ SetsArePartsOfNets(db, net.phys, net.sets) /\ TakenNodesAreJoined(db, net)

NetsInv == dev \in Devices /\ \A type \in DOMAIN nets : IsPartlyExpanded(dev.db, nets[type])

(* Sets that meet become one.                                                 *)
LEMMA OneMoreNode ==
  ASSUME NEW db, NEW phys, NEW sets, NEW node \in NodesIn(db, phys), IsFiniteSet(db.wires),
         DOMAIN sets \subseteq NodesIn(db, phys), SetsArePartsOfNets(db, phys, sets),
         NEW new, new = ExpandNode(db, phys, sets, node)
  PROVE  /\ SetsArePartsOfNets(db, phys, new)
         /\ DOMAIN sets \subseteq DOMAIN new /\ DOMAIN new \subseteq NodesIn(db, phys)
         /\ \A n \in DOMAIN sets : sets[n] \subseteq new[n]
         /\ node \in DOMAIN new /\ OnePipAway(db, phys, node) \subseteq new[node]
<1> DEFINE others == OnePipAway(db, phys, node)
           all == {node} \union others
           merged == Merged(sets, node, others)
<1>1. merged = UNION {SetOf(sets, n) : n \in all}
  BY DEF Merged
<1>2. \A n : /\ n \in SetOf(sets, n)
             /\ n \in DOMAIN sets => SetOf(sets, n) = sets[n]
             /\ n \notin DOMAIN sets => SetOf(sets, n) = {n}
  BY DEF SetOf, SetsArePartsOfNets
<1>3. DOMAIN new = DOMAIN sets \union merged /\ \A n \in DOMAIN new : new[n] = IF n \in merged THEN merged ELSE sets[n]
  BY DEF ExpandNode, Share
<1>4. all \subseteq NodesIn(db, phys) /\ all \subseteq Connected(db, phys, node)
  <2>1. others \subseteq NodesIn(db, phys)
    BY DEF OnePipAway, NodesIn
  <2>2. node \in Connected(db, phys, node) /\ others \subseteq Connected(db, phys, node)
    BY ConnectedIsClosure DEF IsClosedFor
  <2>. QED
    BY <2>1, <2>2
<1>5. all \subseteq merged
  BY <1>1, <1>2
<1>6. \A n \in DOMAIN sets : sets[n] \cap merged # {} => sets[n] \subseteq merged
  <2> SUFFICES ASSUME NEW n \in DOMAIN sets, NEW m \in sets[n], m \in merged PROVE sets[n] \subseteq merged
    OBVIOUS
  <2>1. PICK k \in all : m \in SetOf(sets, k)
    BY <1>1
  <2>2. m \in DOMAIN sets /\ sets[m] = sets[n]
    BY DEF SetsArePartsOfNets
  <2>3. SetOf(sets, k) = sets[n]
    <3>1. CASE k \in DOMAIN sets
      BY <1>2, <2>1, <2>2, <3>1 DEF SetsArePartsOfNets
    <3>2. CASE k \notin DOMAIN sets
      BY <1>2, <2>1, <2>2, <3>2
    <3>. QED
      BY <3>1, <3>2
  <2>. QED
    BY <1>1, <2>1, <2>3
<1>7. merged \subseteq Connected(db, phys, node) /\ merged \subseteq NodesIn(db, phys)
  <2> SUFFICES ASSUME NEW k \in all
               PROVE  SetOf(sets, k) \subseteq Connected(db, phys, node) /\ SetOf(sets, k) \subseteq NodesIn(db, phys)
    BY <1>1
  <2>1. Connected(db, phys, k) = Connected(db, phys, node)
    BY <1>4, ConnectedIsSymmetric
  <2>2. k \in Connected(db, phys, node) /\ k \in NodesIn(db, phys)
    BY <1>4
  <2>3. CASE k \in DOMAIN sets
    <3>1. SetOf(sets, k) = sets[k] /\ sets[k] \subseteq DOMAIN sets /\ sets[k] \subseteq Connected(db, phys, k)
      BY <1>2, <2>3 DEF SetsArePartsOfNets
    <3>. QED
      BY <2>1, <3>1
  <2>4. CASE k \notin DOMAIN sets
    BY <1>2, <2>2, <2>4
  <2>. QED
    BY <2>3, <2>4
<1> HIDE DEF merged, all
<1>8. \A m \in merged : Connected(db, phys, m) = Connected(db, phys, node)
  BY <1>7, ConnectedIsSymmetric
<1>9. ASSUME NEW n \in DOMAIN new
      PROVE  /\ n \in new[n] /\ new[n] \subseteq DOMAIN new /\ new[n] \subseteq Connected(db, phys, n)
             /\ \A m \in new[n] : new[m] = new[n]
  <2>1. CASE n \in merged
    BY <1>3, <1>7, <1>8, <2>1
  <2>2. CASE n \notin merged
    <3>1. n \in DOMAIN sets /\ new[n] = sets[n]
      BY <1>3, <2>2
    <3>2. /\ n \in sets[n] /\ sets[n] \subseteq DOMAIN sets /\ sets[n] \subseteq Connected(db, phys, n)
          /\ \A m \in sets[n] : sets[m] = sets[n]
      BY <3>1 DEF SetsArePartsOfNets
    <3>3. \A m \in sets[n] : m \notin merged
      BY <1>6, <2>2, <3>1, <3>2
    <3>4. \A m \in sets[n] : m \in DOMAIN new /\ new[m] = sets[m]
      BY <1>3, <3>2, <3>3
    <3>. QED
      BY <3>1, <3>2, <3>4
  <2>. QED
    BY <2>1, <2>2
<1>10. ASSUME NEW n \in DOMAIN sets PROVE sets[n] \subseteq new[n]
  <2>1. n \in sets[n] /\ n \in DOMAIN new
    BY <1>3 DEF SetsArePartsOfNets
  <2>. QED
    BY <1>3, <1>6, <2>1
<1>11. node \in merged /\ others \subseteq merged
  BY <1>5 DEF all
<1>. QED
  BY <1>3, <1>7, <1>9, <1>10, <1>11 DEF SetsArePartsOfNets

LEMMA NetsInitInv == Init => NetsInv
  BY DEF Init, NetsInv

LEMMA ReadNodesInv ==
  ASSUME NetsInv, NEW type, ReadNodes(type)
  PROVE  NetsInv'
<1>1. PICK phys :
        nets' = Over(Only(type, [phys |-> phys, sets |-> <<>>, left |-> NodesIn(dev.db, phys)]), nets)
  BY DEF ReadNodes
<1>2. dev' = dev
  BY DEF ReadNodes, ElsewhereUnchanged
<1> DEFINE net == [phys |-> phys, sets |-> <<>>, left |-> NodesIn(dev.db, phys)]
           one == Only(type, net)
<1>3. DOMAIN one = {type} /\ one[type] = net
  BY DEF Only
<1>4. nets' = Over(one, nets)
  BY <1>1
<1>5. IsPartlyExpanded(dev.db, net)
  BY DEF IsPartlyExpanded, SetsArePartsOfNets, TakenNodesAreJoined
<1> HIDE DEF one, net
<1>6. /\ DOMAIN nets' = {type} \union DOMAIN nets /\ nets'[type] = net
      /\ \A t \in DOMAIN nets : t # type => nets'[t] = nets[t]
  <2> DEFINE both == Over(one, nets)
  <2>1. /\ DOMAIN both = DOMAIN one \union DOMAIN nets
        /\ \A z \in DOMAIN one : both[z] = one[z]
        /\ \A z \in DOMAIN nets : z \notin DOMAIN one => both[z] = nets[z]
    BY OverAny
  <2>2. nets' = both
    BY <1>4
  <2> HIDE DEF both
  <2>. QED
    BY <1>3, <2>1, <2>2
<1>7. \A t \in DOMAIN nets' : IsPartlyExpanded(dev.db, nets'[t])
  BY <1>5, <1>6 DEF NetsInv
<1>. QED
  BY <1>2, <1>7 DEF NetsInv

LEMMA ExpandInv ==
  ASSUME NetsInv, NEW type, Expand(type)
  PROVE  NetsInv'
<1>1. type \in DOMAIN nets /\ dev' = dev
  BY DEF Expand, ElsewhereUnchanged
<1> DEFINE net == nets[type]
           phys == net.phys
           new(node) == ExpandNode(dev.db, phys, net.sets, node)
<1>2. PICK node \in net.left :
        nets' = [nets EXCEPT ![type].left = @ \ {node}, ![type].sets = new(node)]
  <2>1. \A node : EquivExpandNode(dev.db, phys, net.sets, node) = new(node)
    BY DEF ExpandNode, EquivExpandNode
  <2> HIDE DEF new
  <2>2. \A node : (IF Recipe("equiv") THEN EquivExpandNode(dev.db, phys, net.sets, node) ELSE new(node)) = new(node)
    BY <2>1
  <2>3. PICK node \in net.left :
          nets' = [nets EXCEPT ![type].left = @ \ {node},
                               ![type].sets = IF Recipe("equiv")
                                              THEN EquivExpandNode(dev.db, phys, @, node)
                                              ELSE ExpandNode(dev.db, phys, @, node)]
    BY Zenon DEF Expand
  <2>. QED
    BY <2>2, <2>3 DEF new
<1>3. IsPartlyExpanded(dev.db, net) /\ node \in NodesIn(dev.db, phys)
  BY <1>1 DEF NetsInv, IsPartlyExpanded
<1>4. /\ DOMAIN nets' = DOMAIN nets /\ \A t \in DOMAIN nets : t # type => nets'[t] = nets[t]
      /\ DOMAIN nets'[type] = DOMAIN net /\ nets'[type].phys = phys
      /\ nets'[type].left = net.left \ {node} /\ nets'[type].sets = new(node)
  BY <1>1, <1>2, <1>3 DEF IsPartlyExpanded
<1>5. IsFiniteSet(dev.db.wires)
  BY WiresAssumption DEF NetsInv
<1> DEFINE sets == net.sets
           later == ExpandNode(dev.db, phys, sets, node)
<1>6. /\ SetsArePartsOfNets(dev.db, phys, later)
      /\ DOMAIN sets \subseteq DOMAIN later /\ DOMAIN later \subseteq NodesIn(dev.db, phys)
      /\ \A n \in DOMAIN sets : sets[n] \subseteq later[n]
      /\ node \in DOMAIN later /\ OnePipAway(dev.db, phys, node) \subseteq later[node]
  BY <1>3, <1>5, OneMoreNode DEF IsPartlyExpanded
<1>7. nets'[type].sets = later
  BY <1>4
<1> HIDE DEF later
<1>8. TakenNodesAreJoined(dev.db, nets'[type])
  <2> SUFFICES ASSUME NEW n \in NodesIn(dev.db, phys), n \notin net.left \/ n = node
               PROVE  n \in DOMAIN later /\ OnePipAway(dev.db, phys, n) \subseteq later[n]
    BY <1>4, <1>7 DEF TakenNodesAreJoined
  <2>1. CASE n = node
    BY <1>6, <2>1
  <2>2. CASE n \notin net.left
    <3>1. n \in DOMAIN sets /\ OnePipAway(dev.db, phys, n) \subseteq sets[n]
      BY <1>3, <2>2 DEF IsPartlyExpanded, TakenNodesAreJoined
    <3>. QED
      BY <1>6, <3>1
  <2>. QED
    BY <2>1, <2>2
<1>9. IsPartlyExpanded(dev.db, nets'[type])
  <2>1. {"phys", "sets", "left"} \subseteq DOMAIN nets'[type] /\ net.left \subseteq NodesIn(dev.db, phys)
    BY <1>3, <1>4 DEF IsPartlyExpanded
  <2>. QED
    BY <1>4, <1>6, <1>7, <1>8, <2>1 DEF IsPartlyExpanded
<1>10. \A t \in DOMAIN nets' : IsPartlyExpanded(dev.db, nets'[t])
  <2> SUFFICES ASSUME NEW t \in DOMAIN nets' PROVE IsPartlyExpanded(dev.db, nets'[t])
    OBVIOUS
  <2>1. CASE t = type
    BY <1>9, <2>1
  <2>2. CASE t # type
    BY <1>4, <2>2 DEF NetsInv
  <2>. QED
    BY <2>1, <2>2
<1>. QED
  BY <1>1, <1>10 DEF NetsInv

LEMMA NetsInvIsKept == NetsInv /\ [Next]_vars => NetsInv'
<1> SUFFICES ASSUME NetsInv, [Next]_vars PROVE NetsInv'
  OBVIOUS
<1>1. ASSUME dev' = dev, nets' = <<>> \/ nets' = nets PROVE NetsInv'
  <2>1. \A t \in DOMAIN nets' : t \in DOMAIN nets /\ nets'[t] = nets[t]
    BY <1>1
  <2>2. \A t \in DOMAIN nets' : IsPartlyExpanded(dev.db, nets'[t])
    BY <2>1 DEF NetsInv
  <2>. QED
    BY <1>1, <2>2 DEF NetsInv
<1>2. ASSUME NEW a, NEW b, Write(a, b) \/ Raise PROVE nets' = <<>> \/ nets' = nets
  BY <1>2 DEF Write, Raise
<1>3. ASSUME NEW a, WriteBlock(a) PROVE nets' = <<>> \/ nets' = nets
  BY <1>3 DEF Write, Raise, WriteBlock
<1>4. ASSUME NEW a, NEW b, WriteTile(a, b) PROVE nets' = <<>> \/ nets' = nets
  BY <1>4 DEF Write, Raise, WriteTile
<1>5. CASE ImportFromPrjxray
  BY <1>1, <1>3, <1>5 DEF ImportFromPrjxray, ElsewhereUnchanged
<1>6. CASE ImportTiles
  BY <1>1, <1>3, <1>4, <1>6 DEF ImportTiles, ElsewhereUnchanged
<1>7. CASE ImportFromDatabase
  BY <1>1, <1>3, <1>7 DEF ImportFromDatabase, ElsewhereUnchanged
<1>8. CASE CreateEquivalents
  BY <1>1, <1>2, <1>8 DEF CreateEquivalents, ElsewhereUnchanged
<1>9. CASE FinishTiles \/ PlacePort \/ LosePort \/ NextRegion \/ FinishPorts \/ UNCHANGED vars
  BY <1>1, <1>9 DEF FinishTiles, PlacePort, LosePort, NextRegion, FinishPorts, vars
<1>10. CASE ReadSynthTiles \/ RefuseSynthTiles \/ InsertConstantTiles \/ EmitLayout \/ EmitDirects
  BY <1>1, <1>10 DEF ReadSynthTiles, RefuseSynthTiles, InsertConstantTiles, EmitLayout, EmitDirects
<1>. QED
  BY <1>5, <1>6, <1>7, <1>8, <1>9, <1>10, ReadNodesInv, ExpandInv DEF Next

(* expand_nodes_in_tile_type: when no node is left, the sets are the nets of  *)
(* the tile, in whatever order the nodes came and the pips were found.        *)
THEOREM NetsOfTilesAreWhole == Spec => []NetsAreConnected
<1>1. NetsInv => NetsAreConnected
  <2> SUFFICES ASSUME NetsInv, NEW type \in DOMAIN nets, nets[type].left = {}
               PROVE  /\ DOMAIN nets[type].sets = NodesIn(dev.db, nets[type].phys)
                      /\ \A n \in DOMAIN nets[type].sets :
                           nets[type].sets[n] = Connected(dev.db, nets[type].phys, n)
    BY DEF NetsAreConnected
  <2> DEFINE phys == nets[type].phys
             sets == nets[type].sets
  <2>1. /\ SetsArePartsOfNets(dev.db, phys, sets) /\ DOMAIN sets \subseteq NodesIn(dev.db, phys)
        /\ \A n \in NodesIn(dev.db, phys) : n \in DOMAIN sets /\ OnePipAway(dev.db, phys, n) \subseteq sets[n]
    BY DEF NetsInv, IsPartlyExpanded, TakenNodesAreJoined
  <2>2. IsFiniteSet(dev.db.wires)
    BY WiresAssumption DEF NetsInv
  <2> HIDE DEF phys, sets
  <2>3. ASSUME NEW n \in DOMAIN sets PROVE sets[n] = Connected(dev.db, phys, n)
    <3>1. n \in sets[n] /\ sets[n] \subseteq Connected(dev.db, phys, n)
      BY <2>1 DEF SetsArePartsOfNets
    <3>2. IsClosedFor(dev.db, phys, sets[n])
      BY <2>1 DEF SetsArePartsOfNets, IsClosedFor
    <3>. QED
      BY <2>2, <3>1, <3>2, ConnectedIsClosure
  <2>. QED
    BY <2>1, <2>3 DEF phys, sets
<1>. QED
  BY <1>1, NetsInitInv, NetsInvIsKept, PTL DEF Spec

=============================================================================
