--------------------------- MODULE TileGridProofs ---------------------------
(***************************************************************************)
(* Proofs about TileGrid, for grids of any size, any tile types and any    *)
(* number of operations: no merge, split or insertion gives a phy_tile two *)
(* roots or none, or puts a site in two tiles, and the links stay those of *)
(* a rectangle.  And about VprGrid, which drives it with any lists of      *)
(* merges and splits: every tile of a type to split is split once, the     *)
(* sites of the tiles that are split end in the tile made for their y, and *)
(* every wire ends in a tile of the output.                                *)
(***************************************************************************)
EXTENDS VprGrid, Reachability, FiniteSetTheorems

(* The links.  The number of tiles is bounded, so that walks end.          *)
Numbered ==
  /\ Cardinality(Tiles) \in Nat /\ Tiles = 1 .. Cardinality(Tiles)
  /\ Cardinality(Tiles) <= MaxTiles

Linked ==
  /\ DOMAIN neighboors = Tiles
  /\ \A t \in Tiles : DOMAIN neighboors[t] \subseteq Dir
  /\ \A t \in Tiles : \A d \in DOMAIN neighboors[t] : neighboors[t][d] \in Tiles

LinksInv == Numbered /\ Linked /\ MeshIsRectangular

(* row has the tiles from t on in direction e, each once, up to the last.  *)
IsRow(row, t, e) ==
  /\ row \in Seq(Tiles) /\ Len(row) >= 1 /\ row[1] = t
  /\ \A i \in DOMAIN row : IF i < Len(row)
                           THEN e \in DOMAIN neighboors[row[i]] /\ neighboors[row[i]][e] = row[i + 1]
                           ELSE e \notin DOMAIN neighboors[row[i]]
  /\ \A i, j \in DOMAIN row : row[i] = row[j] => i = j

(* walk_in_direction goes from tile to tile while there is one ahead.      *)
Steps(node, t, e) ==
  /\ node \in [0 .. MaxTiles -> Tiles] /\ node[0] = t
  /\ \A n \in 0 .. MaxTiles - 1 :
       /\ e \in DOMAIN neighboors[node[n]] => node[n + 1] = neighboors[node[n]][e]
       /\ e \notin DOMAIN neighboors[node[n]] => node[n + 1] = node[n]

Moves(node) == {n \in 1 .. MaxTiles : node[n] # node[n - 1]}

LEMMA WalkNodes ==
  ASSUME LinksInv, NEW t \in Tiles, NEW e
  PROVE  \E node : /\ Steps(node, t, e)
                   /\ Walk(t, e) = [i \in 1 .. Cardinality(Moves(node)) + 1 |-> node[i - 1]]
<1> DEFINE ahead == [u \in Tiles |-> IF e \in DOMAIN neighboors[u] THEN neighboors[u][e] ELSE u]
           node == CHOOSE f : f = [n \in 0 .. MaxTiles |-> IF n = 0 THEN t ELSE ahead[f[n - 1]]]
<1>1. Walk(t, e) = [i \in 1 .. Cardinality(Moves(node)) + 1 |-> node[i - 1]]
  BY DEF Walk, Moves
<1>2. MaxTiles \in Nat
  BY GridAssumption
<1>3. ahead \in [Tiles -> Tiles]
  BY DEF LinksInv, Linked
<1>4. node \in [0 .. MaxTiles -> Tiles]
      /\ node = [n \in 0 .. MaxTiles |-> IF n = 0 THEN t ELSE ahead[node[n - 1]]]
  <2>1. PICK f \in [0 .. MaxTiles -> Tiles] : Iterates(f, MaxTiles, t, ahead)
    <3> HIDE DEF ahead
    <3>. QED
      BY <1>2, <1>3, IteratesExist
  <2> HIDE DEF ahead
  <2>2. f = [n \in 0 .. MaxTiles |-> IF n = 0 THEN t ELSE ahead[f[n - 1]]]
    BY <2>1 DEF Iterates
  <2>3. node = [n \in 0 .. MaxTiles |-> IF n = 0 THEN t ELSE ahead[node[n - 1]]]
    BY <2>2
  <2>4. \A n \in 0 .. MaxTiles : node[n] \in Tiles
    <3> DEFINE S == {n \in Nat : n <= MaxTiles => node[n] \in Tiles}
    <3> HIDE DEF node
    <3>1. 0 \in S
      BY <1>2, <2>3
    <3>2. ASSUME NEW n \in Nat, n \in S PROVE n + 1 \in S
      <4>1. CASE n + 1 <= MaxTiles
        <5>1. node[n + 1] = ahead[node[n]] /\ node[n] \in Tiles
          BY <1>2, <2>3, <3>2, <4>1
        <5>. QED
          BY <1>3, <5>1
      <4>2. CASE ~(n + 1 <= MaxTiles)
        BY <4>2
      <4>. QED
        BY <4>1, <4>2
    <3> HIDE DEF S
    <3>3. Nat \subseteq S
      BY <3>1, <3>2, EveryNatural
    <3>. QED
      BY <1>2, <3>3 DEF S
  <2> HIDE DEF node
  <2>. QED
    BY <2>3, <2>4
<1> HIDE DEF node
<1>5. /\ node[0] = t
      /\ \A n \in 0 .. MaxTiles - 1 :
           /\ e \in DOMAIN neighboors[node[n]] => node[n + 1] = neighboors[node[n]][e]
           /\ e \notin DOMAIN neighboors[node[n]] => node[n + 1] = node[n]
  <2>1. \A n \in 0 .. MaxTiles - 1 : node[n + 1] = ahead[node[n]] /\ node[n] \in Tiles
    BY <1>2, <1>4
  <2>2. \A n \in 0 .. MaxTiles - 1 : node[n + 1] = IF e \in DOMAIN neighboors[node[n]] THEN neighboors[node[n]][e] ELSE node[n]
    BY <2>1
  <2>3. node[0] = t
    BY <1>2, <1>4
  <2>. QED
    BY <2>2, <2>3
<1>6. Steps(node, t, e)
  <2> HIDE DEF ahead
  <2>. QED
    BY <1>4, <1>5 DEF Steps
<1>. QED
  BY <1>1, <1>6

LEMMA WalkIsASeq ==
  ASSUME LinksInv, NEW t \in Tiles, NEW e
  PROVE  Walk(t, e) \in Seq(Tiles) /\ Len(Walk(t, e)) \in Nat \ {0}
<1>1. PICK node : /\ Steps(node, t, e)
                  /\ Walk(t, e) = [i \in 1 .. Cardinality(Moves(node)) + 1 |-> node[i - 1]]
  BY WalkNodes
<1>2. MaxTiles \in Nat
  BY GridAssumption
<1>3. Cardinality(Moves(node)) \in 0 .. MaxTiles
  <2>1. IsFiniteSet(1 .. MaxTiles) /\ Cardinality(1 .. MaxTiles) = MaxTiles /\ Moves(node) \subseteq 1 .. MaxTiles
    BY <1>2, FS_Interval DEF Moves
  <2>2. IsFiniteSet(Moves(node)) /\ Cardinality(Moves(node)) <= MaxTiles
    BY <2>1, FS_Subset
  <2>. QED
    BY <2>2, FS_CardinalityType
<1> DEFINE m == Cardinality(Moves(node))
<1>4. \A i \in 1 .. m + 1 : i - 1 \in 0 .. MaxTiles
  BY <1>2, <1>3
<1>5. \A i \in 1 .. m + 1 : node[i - 1] \in Tiles
  BY <1>1, <1>4 DEF Steps
<1> HIDE DEF m
<1>6. m \in Nat
  BY <1>2, <1>3 DEF m
<1>. QED
  BY <1>1, <1>5, <1>6 DEF m

(* From an end of the grid walk_in_direction visits each tile of the row   *)
(* once and stops at the last, whatever rows were inserted before: links   *)
(* that lead back say which tile comes before, and the first has none.     *)
LEMMA WalkIsARow ==
  ASSUME LinksInv, NEW t \in Tiles, NEW e \in Dir, Opposite[e] \notin DOMAIN neighboors[t]
  PROVE  IsRow(Walk(t, e), t, e)
<1>0. PICK node : /\ Steps(node, t, e)
                  /\ Walk(t, e) = [i \in 1 .. Cardinality(Moves(node)) + 1 |-> node[i - 1]]
  BY WalkNodes
<1> DEFINE steps == {n \in 1 .. MaxTiles : node[n] # node[n - 1]}
           back == Opposite[e]
           Goes(n) == e \in DOMAIN neighboors[node[n]]
<1>1. Walk(t, e) = [i \in 1 .. Cardinality(steps) + 1 |-> node[i - 1]]
  BY <1>0 DEF Moves
<1>2. MaxTiles \in Nat /\ Cardinality(Tiles) \in Nat /\ Cardinality(Tiles) <= MaxTiles
      /\ IsFiniteSet(Tiles)
  <2>1. IsFiniteSet(1 .. Cardinality(Tiles))
    BY FS_Interval DEF LinksInv, Numbered
  <2>. QED
    BY <2>1, GridAssumption DEF LinksInv, Numbered
<1>4. node \in [0 .. MaxTiles -> Tiles]
  BY <1>0 DEF Steps
<1>5. /\ node[0] = t
      /\ \A n \in 0 .. MaxTiles - 1 :
           /\ Goes(n) => node[n + 1] = neighboors[node[n]][e]
           /\ ~Goes(n) => node[n + 1] = node[n]
  BY <1>0 DEF Steps
<1>6. \A u \in Tiles : e \in DOMAIN neighboors[u] =>
        /\ back \in DOMAIN neighboors[neighboors[u][e]]
        /\ neighboors[neighboors[u][e]][back] = u
  BY DEF LinksInv, MeshIsRectangular
<1> DEFINE Fresh == {n \in Nat : n <= MaxTiles /\ (\A k \in 0 .. n - 1 : Goes(k)) =>
                                   \A i, j \in 0 .. n : i < j => node[i] # node[j]}
<1>7. Nat \subseteq Fresh
  <2>1. 0 \in Fresh
    OBVIOUS
  <2>2. ASSUME NEW n \in Nat, n \in Fresh PROVE n + 1 \in Fresh
    <3> SUFFICES ASSUME n + 1 <= MaxTiles, \A k \in 0 .. n : Goes(k),
                        NEW i \in 0 .. n, node[i] = node[n + 1]
                 PROVE  FALSE
      <4>1. (\A k \in 0 .. (n + 1) - 1 : Goes(k)) => \A k \in 0 .. n : Goes(k)
        OBVIOUS
      <4>2. n + 1 <= MaxTiles /\ (\A k \in 0 .. n : Goes(k)) => \A i, j \in 0 .. n : i < j => node[i] # node[j]
        BY <1>2, <2>2
      <4>3. \A i, j \in 0 .. n + 1 : i < j => (j = n + 1 /\ i \in 0 .. n) \/ (i \in 0 .. n /\ j \in 0 .. n)
        OBVIOUS
      <4>. QED
        BY <4>1, <4>2, <4>3
    <3> HIDE DEF Goes, Fresh
    <3>1. n \in 0 .. MaxTiles - 1 /\ Goes(n) /\ node[n] \in Tiles
      <4>1. n \in 0 .. MaxTiles - 1 /\ n \in 0 .. MaxTiles /\ n \in 0 .. n
        BY <1>2
      <4>. QED
        BY <1>4, <4>1
    <3>2. back \in DOMAIN neighboors[node[n + 1]] /\ neighboors[node[n + 1]][back] = node[n]
      BY <1>5, <1>6, <3>1 DEF Goes
    <3>3. i # 0
      BY <1>5, <3>2
    <3>4. i - 1 \in 0 .. MaxTiles - 1 /\ i - 1 \in 0 .. n /\ i - 1 < n /\ Goes(i - 1) /\ node[i - 1] \in Tiles
          /\ node[i] = node[(i - 1) + 1]
      <4>1. i - 1 \in 0 .. MaxTiles - 1 /\ i - 1 \in 0 .. MaxTiles /\ i - 1 \in 0 .. n /\ i - 1 < n
            /\ (i - 1) + 1 = i
        BY <1>2, <3>3
      <4>. QED
        BY <1>4, <4>1
    <3>5. neighboors[node[i]][back] = node[i - 1]
      BY <1>5, <1>6, <3>4 DEF Goes
    <3>6. node[i - 1] = node[n]
      BY <3>2, <3>5
    <3>7. n <= MaxTiles /\ (\A k \in 0 .. n - 1 : Goes(k)) /\ n \in 0 .. n
      BY <1>2
    <3>8. \A h, j \in 0 .. n : h < j => node[h] # node[j]
      BY <2>2, <3>7 DEF Fresh
    <3>. QED
      BY <3>4, <3>6, <3>7, <3>8
  <2> HIDE DEF Fresh
  <2>. QED
    BY <2>1, <2>2, EveryNatural
<1>8. ~(\A k \in 0 .. MaxTiles - 1 : Goes(k))
  <2> SUFFICES ASSUME \A k \in 0 .. MaxTiles - 1 : Goes(k) PROVE FALSE
    OBVIOUS
  <2>1. \A i, j \in 0 .. MaxTiles : i < j => node[i] # node[j]
    BY <1>2, <1>7
  <2> HIDE DEF Fresh, Goes
  <2>2. IsFiniteSet(0 .. MaxTiles) /\ Cardinality(0 .. MaxTiles) = MaxTiles + 1
    BY <1>2, FS_Interval
  <2>3. \E i, j \in 0 .. MaxTiles : i # j /\ node[i] = node[j]
    <3>1. IsFiniteSet(0 .. MaxTiles) /\ IsFiniteSet(Tiles) /\ Cardinality(Tiles) < Cardinality(0 .. MaxTiles)
      BY <1>2, <2>2
    <3>. QED
      <4> DEFINE S == 0 .. MaxTiles
      <4>1. IsFiniteSet(S) /\ Cardinality(Tiles) < Cardinality(S) /\ node \in [S -> Tiles]
        BY <1>4, <3>1
      <4> HIDE DEF S
      <4>2. \E i, j \in S : i # j /\ node[i] = node[j]
        BY <3>1, <4>1, FS_PigeonHole
      <4>. QED
        BY <4>2 DEF S
  <2>. QED
    BY <1>2, <2>1, <2>3
<1>9. PICK m \in 0 .. MaxTiles - 1 : ~Goes(m) /\ \A k \in 0 .. m - 1 : Goes(k)
  <2> DEFINE Ends == {k \in 0 .. MaxTiles - 1 : ~Goes(k)}
  <2>1. Ends \in SUBSET Nat /\ Ends # {}
    BY <1>2, <1>8
  <2>2. PICK m \in Ends : \A k \in Ends : m <= k
    <3> HIDE DEF Ends
    <3>. QED
      BY <2>1, LeastNatural
  <2>3. \A k \in 0 .. m - 1 : Goes(k)
    <3>1. \A k \in 0 .. m - 1 : k \in 0 .. MaxTiles - 1 /\ ~(m <= k)
      BY <1>2
    <3>. QED
      BY <2>2, <3>1
  <2>. QED
    BY <2>2, <2>3
<1>10. \A i, j \in 0 .. m : i < j => node[i] # node[j]
  BY <1>2, <1>7, <1>9
<1>11. \A n \in m .. MaxTiles : node[n] = node[m]
  <2> DEFINE S == {n \in Nat : n >= m /\ n <= MaxTiles => node[n] = node[m]}
  <2>1. 0 \in S
    OBVIOUS
  <2>2. ASSUME NEW n \in Nat, n \in S PROVE n + 1 \in S
    <3> SUFFICES ASSUME n + 1 >= m, n + 1 <= MaxTiles PROVE node[n + 1] = node[m]
      OBVIOUS
    <3>1. CASE n + 1 = m
      BY <3>1
    <3>2. CASE n + 1 # m
      <4>1. n >= m /\ n \in 0 .. MaxTiles - 1
        BY <1>2, <3>2
      <4>2. node[n] = node[m]
        <5>1. n >= m /\ n <= MaxTiles
          BY <1>2, <4>1
        <5>. QED
          BY <2>2, <5>1
      <4>3. ~Goes(n)
        BY <1>9, <4>2 DEF Goes
      <4>. QED
        BY <1>5, <4>1, <4>2, <4>3
    <3>. QED
      BY <3>1, <3>2
  <2> HIDE DEF S
  <2>3. Nat \subseteq S
    BY <2>1, <2>2, EveryNatural
  <2>. QED
    BY <1>2, <1>9, <2>3 DEF S
<1>12. steps = 1 .. m
  <2>1. ASSUME NEW n \in 1 .. MaxTiles, n <= m PROVE node[n] # node[n - 1]
    <3>1. n - 1 \in 0 .. m /\ n \in 0 .. m /\ n - 1 < n
      BY <2>1, <1>9
    <3>. QED
      BY <1>10, <3>1
  <2>2. ASSUME NEW n \in 1 .. MaxTiles, n > m PROVE node[n] = node[n - 1]
    <3>1. n - 1 \in m .. MaxTiles /\ n \in m .. MaxTiles
      BY <1>2, <2>2
    <3>. QED
      BY <1>11, <3>1
  <2>3. \A n \in 1 .. MaxTiles : n \in 1 .. m <=> n <= m
    OBVIOUS
  <2>4. \A n \in 1 .. m : n \in 1 .. MaxTiles
    BY <1>2
  <2>5. \A n \in 1 .. MaxTiles : n > m \/ n <= m
    BY <1>2
  <2>. QED
    BY <2>1, <2>2, <2>3, <2>4, <2>5
<1>13. Walk(t, e) = [i \in 1 .. m + 1 |-> node[i - 1]]
  <2>1. m \in Nat
    BY <1>2
  <2>2. Cardinality(1 .. m) = m
    BY <2>1, FS_Interval
  <2>. QED
    BY <1>1, <1>12, <2>2
<1> DEFINE row == [i \in 1 .. m + 1 |-> node[i - 1]]
<1>14. row \in Seq(Tiles) /\ Len(row) = m + 1 /\ row[1] = t
  <2>1. \A i \in 1 .. m + 1 : i - 1 \in 0 .. MaxTiles
    BY <1>2
  <2>2. \A i \in 1 .. m + 1 : node[i - 1] \in Tiles
    BY <1>4, <2>1
  <2>. QED
    BY <1>2, <1>5, <2>2
<1>15. ASSUME NEW i \in 1 .. m + 1
       PROVE  IF i < m + 1 THEN e \in DOMAIN neighboors[row[i]] /\ neighboors[row[i]][e] = row[i + 1]
                           ELSE e \notin DOMAIN neighboors[row[i]]
  <2>1. row[i] = node[i - 1]
    OBVIOUS
  <2>2. CASE i < m + 1
    <3>1. i - 1 \in 0 .. m - 1 /\ i - 1 \in 0 .. MaxTiles - 1 /\ (i - 1) + 1 = i
      BY <1>2, <2>2
    <3>2. row[i + 1] = node[i]
      BY <2>2
    <3>. QED
      BY <1>5, <1>9, <2>1, <2>2, <3>1, <3>2
  <2>3. CASE ~(i < m + 1)
    <3>1. i - 1 = m
      BY <2>3
    <3>. QED
      BY <1>9, <2>1, <2>3, <3>1
  <2>. QED
    BY <2>2, <2>3
<1>16. ASSUME NEW i \in 1 .. m + 1, NEW j \in 1 .. m + 1, row[i] = row[j] PROVE i = j
  <2>1. node[i - 1] = node[j - 1] /\ i - 1 \in 0 .. m /\ j - 1 \in 0 .. m
    BY <1>16
  <2>. QED
    BY <1>10, <2>1
<1>17. DOMAIN row = 1 .. m + 1
  OBVIOUS
<1> HIDE DEF row, Goes
<1>18. IsRow(row, t, e)
  BY <1>14, <1>15, <1>16, <1>17 DEF IsRow
<1>. QED
  BY <1>13, <1>18 DEF row

(* The four directions, as an insertion in one of them sees them.          *)
LEMMA Directions ==
  ASSUME NEW d \in Dir
  PROVE  LET o == Opposite[d]
             a == SplitNext[d]
             b == Opposite[SplitNext[d]]
         IN  /\ Dir = {d, o, a, b}
             /\ d # o /\ d # a /\ d # b /\ o # a /\ o # b /\ a # b
             /\ Opposite[o] = d /\ Opposite[a] = b /\ Opposite[b] = a
<1>1. CASE d = "NORTH"
  BY <1>1 DEF Dir, Opposite, SplitNext
<1>2. CASE d = "SOUTH"
  BY <1>2 DEF Dir, Opposite, SplitNext
<1>3. CASE d = "EAST"
  BY <1>3 DEF Dir, Opposite, SplitNext
<1>4. CASE d = "WEST"
  BY <1>4 DEF Dir, Opposite, SplitNext
<1>. QED
  BY <1>1, <1>2, <1>3, <1>4 DEF Dir

(* Where a step along the row leads, and that no link along the row leads  *)
(* into it or out of it.                                                   *)
Along(row, i, f, a) == IF f = a THEN i + 1 ELSE i - 1

InRow(row, t) == \E i \in DOMAIN row : row[i] = t

RowClosed(row, a, b) ==
  /\ \A i \in DOMAIN row, f \in {a, b} :
       LET j == Along(row, i, f, a)
       IN  /\ f \in DOMAIN neighboors[row[i]] <=> j \in DOMAIN row
           /\ j \in DOMAIN row => neighboors[row[i]][f] = row[j]
  /\ \A t \in Tiles : \A f \in {a, b} :
       f \in DOMAIN neighboors[t] => (InRow(row, neighboors[t][f]) <=> InRow(row, t))

LEMMA RowIsClosed ==
  ASSUME LinksInv, NEW edge \in Tiles, NEW d \in Dir, IsTop(edge, d),
         NEW row, row = Walk(edge, SplitNext[d])
  PROVE  /\ row \in Seq(Tiles) /\ Len(row) \in Nat
         /\ DOMAIN row = 1 .. Len(row)
         /\ \A i, j \in DOMAIN row : row[i] = row[j] => i = j
         /\ RowClosed(row, SplitNext[d], Opposite[SplitNext[d]])
<1> DEFINE a == SplitNext[d]
           b == Opposite[a]
<1>1. a \in Dir /\ b \in Dir /\ a # b /\ Opposite[a] = b /\ Opposite[b] = a
  BY Directions
<1>2. IsRow(row, edge, a) /\ b \notin DOMAIN neighboors[edge]
  BY <1>1, WalkIsARow DEF IsTop
<1> HIDE DEF a, b
<1>3. row \in Seq(Tiles) /\ Len(row) \in Nat /\ Len(row) >= 1 /\ DOMAIN row = 1 .. Len(row) /\ row[1] = edge
  BY <1>2 DEF IsRow
<1>4. \A i, j \in DOMAIN row : row[i] = row[j] => i = j
  BY <1>2 DEF IsRow
<1>5. \A i \in DOMAIN row :
        /\ i < Len(row) => a \in DOMAIN neighboors[row[i]] /\ neighboors[row[i]][a] = row[i + 1]
        /\ ~(i < Len(row)) => a \notin DOMAIN neighboors[row[i]]
  BY <1>2 DEF IsRow
<1>6. \A t \in Tiles : \A f \in {a, b} : f \in DOMAIN neighboors[t] =>
        /\ neighboors[t][f] \in Tiles
        /\ Opposite[f] \in DOMAIN neighboors[neighboors[t][f]]
        /\ neighboors[neighboors[t][f]][Opposite[f]] = t
  BY DEF LinksInv, Linked, MeshIsRectangular
<1>7. \A i \in DOMAIN row : row[i] \in Tiles
  BY <1>3
<1>8. ASSUME NEW i \in DOMAIN row
      PROVE  /\ i > 1 => b \in DOMAIN neighboors[row[i]] /\ neighboors[row[i]][b] = row[i - 1]
             /\ ~(i > 1) => b \notin DOMAIN neighboors[row[i]]
  <2>1. CASE i > 1
    <3>1. i - 1 \in DOMAIN row /\ i - 1 < Len(row) /\ (i - 1) + 1 = i
      BY <1>3, <2>1
    <3>2. a \in DOMAIN neighboors[row[i - 1]] /\ neighboors[row[i - 1]][a] = row[i] /\ row[i - 1] \in Tiles
      BY <1>5, <1>7, <3>1
    <3>. QED
      BY <1>1, <1>6, <2>1, <3>2
  <2>2. CASE ~(i > 1)
    BY <1>2, <1>3, <2>2
  <2>. QED
    BY <2>1, <2>2
<1>9. ASSUME NEW i \in DOMAIN row, NEW f \in {a, b}
      PROVE  LET j == Along(row, i, f, a)
             IN  /\ f \in DOMAIN neighboors[row[i]] <=> j \in DOMAIN row
                 /\ j \in DOMAIN row => neighboors[row[i]][f] = row[j]
  <2>1. CASE f = a
    <3>1. Along(row, i, f, a) = i + 1 /\ (i + 1 \in DOMAIN row <=> i < Len(row))
      BY <1>3, <2>1 DEF Along
    <3>. QED
      BY <1>5, <2>1, <3>1
  <2>2. CASE f = b
    <3>1. Along(row, i, f, a) = i - 1 /\ (i - 1 \in DOMAIN row <=> i > 1)
      BY <1>1, <1>3, <2>2 DEF Along
    <3>. QED
      BY <1>8, <2>2, <3>1
  <2>. QED
    BY <2>1, <2>2
<1>10. ASSUME NEW t \in Tiles, NEW f \in {a, b}, f \in DOMAIN neighboors[t]
       PROVE  InRow(row, neighboors[t][f]) <=> InRow(row, t)
  <2>1. ASSUME NEW u \in Tiles, NEW g \in {a, b}, g \in DOMAIN neighboors[u], InRow(row, u)
        PROVE  InRow(row, neighboors[u][g])
    <3> PICK i \in DOMAIN row : row[i] = u
      BY <2>1 DEF InRow
    <3>1. Along(row, i, g, a) \in DOMAIN row /\ neighboors[u][g] = row[Along(row, i, g, a)]
      BY <1>9, <2>1
    <3>. QED
      BY <3>1 DEF InRow
  <2>2. /\ neighboors[t][f] \in Tiles /\ Opposite[f] \in {a, b}
        /\ Opposite[f] \in DOMAIN neighboors[neighboors[t][f]]
        /\ neighboors[neighboors[t][f]][Opposite[f]] = t
    BY <1>1, <1>6, <1>10
  <2>. QED
    BY <1>10, <2>1, <2>2
<1>. QED
  BY <1>3, <1>4, <1>9, <1>10 DEF a, b, RowClosed

(* What an insertion does to every link, old and new.                      *)
Relinks(row, n, d, o, a, b) ==
  /\ \A t \in Tiles :
       /\ \A f \in {o, a, b} : f \in DOMAIN neighboors'[t] <=> f \in DOMAIN neighboors[t]
       /\ \A f \in {a, b} : f \in DOMAIN neighboors[t] => neighboors'[t][f] = neighboors[t][f]
       /\ d \in DOMAIN neighboors'[t] <=> d \in DOMAIN neighboors[t] \/ InRow(row, t)
       /\ d \in DOMAIN neighboors[t] /\ ~InRow(row, t) => neighboors'[t][d] = neighboors[t][d]
       /\ o \in DOMAIN neighboors[t] /\ ~InRow(row, neighboors[t][o]) =>
            neighboors'[t][o] = neighboors[t][o]
       /\ \A i \in DOMAIN row :
            /\ row[i] = t => neighboors'[t][d] = n + i
            /\ o \in DOMAIN neighboors[t] /\ neighboors[t][o] = row[i] => neighboors'[t][o] = n + i
  /\ \A i \in DOMAIN row :
       /\ o \in DOMAIN neighboors'[n + i] /\ neighboors'[n + i][o] = row[i]
       /\ d \in DOMAIN neighboors'[n + i] <=> d \in DOMAIN neighboors[row[i]]
       /\ d \in DOMAIN neighboors[row[i]] => neighboors'[n + i][d] = neighboors[row[i]][d]
       /\ \A f \in {a, b} :
            /\ f \in DOMAIN neighboors'[n + i] <=> Along(row, i, f, a) \in DOMAIN row
            /\ Along(row, i, f, a) \in DOMAIN row => neighboors'[n + i][f] = n + Along(row, i, f, a)

LEMMA InsertRelinks ==
  ASSUME LinksInv, NEW edge \in Tiles, NEW d \in Dir, InsertEmpty(edge, d),
         NEW row, row = Walk(edge, SplitNext[d]), NEW n, n = Cardinality(Tiles)
  PROVE  /\ Tiles' = Tiles \union {n + i : i \in DOMAIN row}
         /\ \A i \in DOMAIN row : n + i \notin Tiles
         /\ DOMAIN neighboors' = Tiles' /\ \A t \in Tiles' : DOMAIN neighboors'[t] \subseteq Dir
         /\ Relinks(row, n, d, Opposite[d], SplitNext[d], Opposite[SplitNext[d]])
<1> DEFINE o == Opposite[d]
           a == SplitNext[d]
           b == Opposite[a]
           added == {n + i : i \in DOMAIN row}
<1>1. /\ Dir = {d, o, a, b}
      /\ d # o /\ d # a /\ d # b /\ o # a /\ o # b /\ a # b
      /\ Opposite[o] = d /\ Opposite[a] = b /\ Opposite[b] = a
  BY Directions
<1>2. /\ row \in Seq(Tiles) /\ Len(row) \in Nat /\ DOMAIN row = 1 .. Len(row)
      /\ \A i, j \in DOMAIN row : row[i] = row[j] => i = j
  BY RowIsClosed DEF InsertEmpty
<1>3. n \in Nat /\ Tiles = 1 .. n
  BY DEF LinksInv, Numbered
<1>4. /\ neighboors' = [t \in Tiles \union added |->
                          IF t \in Tiles THEN Relinked(row, d, n, t) ELSE LinksOfNew(row, d, n, t - n)]
      /\ Tiles' = Tiles \union added
  BY DEF InsertEmpty, Tiles
<1>5. \A i \in DOMAIN row : n + i \notin Tiles /\ n + i \in added /\ (n + i) - n = i
  <2>1. \A i \in 1 .. Len(row) : n + i \notin 1 .. n /\ (n + i) - n = i
    BY <1>2, <1>3
  <2>. QED
    BY <1>2, <1>3, <2>1
<1>6. \A t \in Tiles : DOMAIN neighboors[t] \subseteq Dir
  BY DEF LinksInv, Linked
<1>7. ASSUME NEW t \in Tiles
      PROVE  /\ DOMAIN neighboors'[t] \subseteq Dir
             /\ \A f \in {o, a, b} : f \in DOMAIN neighboors'[t] <=> f \in DOMAIN neighboors[t]
             /\ \A f \in {a, b} : f \in DOMAIN neighboors[t] => neighboors'[t][f] = neighboors[t][f]
             /\ d \in DOMAIN neighboors'[t] <=> d \in DOMAIN neighboors[t] \/ InRow(row, t)
             /\ d \in DOMAIN neighboors[t] /\ ~InRow(row, t) => neighboors'[t][d] = neighboors[t][d]
             /\ o \in DOMAIN neighboors[t] /\ ~InRow(row, neighboors[t][o]) =>
                  neighboors'[t][o] = neighboors[t][o]
             /\ \A i \in DOMAIN row :
                  /\ row[i] = t => neighboors'[t][d] = n + i
                  /\ o \in DOMAIN neighboors[t] /\ neighboors[t][o] = row[i] => neighboors'[t][o] = n + i
  <2> DEFINE inRow  == {i \in DOMAIN row : row[i] = t}
             behind == {i \in DOMAIN row : d \in DOMAIN neighboors[row[i]] /\ neighboors[row[i]][d] = t}
             dom    == DOMAIN neighboors[t] \union (IF inRow = {} THEN {} ELSE {d})
  <2>1. neighboors'[t] = [f \in dom |->
            IF f = d /\ inRow # {} THEN n + (CHOOSE i \in inRow : TRUE)
            ELSE IF f = o /\ behind # {} THEN n + (CHOOSE i \in behind : TRUE)
            ELSE neighboors[t][f]]
    BY <1>4 DEF Relinked
  <2>2. inRow # {} <=> InRow(row, t)
    BY DEF InRow
  <2>3. \A i \in DOMAIN row : row[i] = t => inRow = {i}
    BY <1>2
  <2>4. \A i \in DOMAIN row : i \in behind <=> o \in DOMAIN neighboors[t] /\ neighboors[t][o] = row[i]
    <3>1. \A u \in Tiles : d \in DOMAIN neighboors[u] =>
            o \in DOMAIN neighboors[neighboors[u][d]] /\ neighboors[neighboors[u][d]][o] = u
      BY DEF LinksInv, MeshIsRectangular
    <3>2. o \in DOMAIN neighboors[t] =>
            d \in DOMAIN neighboors[neighboors[t][o]] /\ neighboors[neighboors[t][o]][d] = t
      BY <1>1 DEF LinksInv, MeshIsRectangular
    <3>3. \A i \in DOMAIN row : row[i] \in Tiles
      BY <1>2
    <3>. QED
      BY <3>1, <3>2, <3>3
  <2>5. \A i \in DOMAIN row : i \in behind => behind = {i}
    BY <1>2, <2>4
  <2>6. \A i : (CHOOSE j \in {i} : TRUE) = i
    OBVIOUS
  <2> HIDE DEF inRow, behind, o, a, b
  <2>7. DOMAIN neighboors'[t] = dom
    BY <2>1
  <2>8. dom \subseteq Dir
    BY <1>6
  <2>9. \A f \in {o, a, b} : f \in DOMAIN neighboors'[t] <=> f \in DOMAIN neighboors[t]
    BY <1>1, <2>7
  <2>10. \A f \in {a, b} : f \in DOMAIN neighboors[t] => neighboors'[t][f] = neighboors[t][f]
    BY <1>1, <2>1
  <2>11. d \in DOMAIN neighboors'[t] <=> d \in DOMAIN neighboors[t] \/ InRow(row, t)
    BY <2>2, <2>7
  <2>12. d \in DOMAIN neighboors[t] /\ ~InRow(row, t) => neighboors'[t][d] = neighboors[t][d]
    BY <1>1, <2>1, <2>2
  <2>13. ASSUME o \in DOMAIN neighboors[t], ~InRow(row, neighboors[t][o])
         PROVE  neighboors'[t][o] = neighboors[t][o]
    <3>1. behind = {}
      BY <2>4, <2>13 DEF InRow, behind
    <3>. QED
      BY <1>1, <2>1, <2>13, <3>1
  <2>14. ASSUME NEW i \in DOMAIN row, row[i] = t PROVE neighboors'[t][d] = n + i
    <3>1. inRow = {i} /\ inRow # {} /\ d \in dom
      BY <2>3, <2>14
    <3>. QED
      BY <2>1, <2>6, <3>1
  <2>15. ASSUME NEW i \in DOMAIN row, o \in DOMAIN neighboors[t], neighboors[t][o] = row[i]
         PROVE  neighboors'[t][o] = n + i
    <3>1. behind = {i} /\ behind # {} /\ o \in dom /\ o # d
      BY <1>1, <2>4, <2>5, <2>15
    <3>. QED
      BY <2>1, <2>6, <3>1
  <2>. QED
    BY <2>7, <2>8, <2>9, <2>10, <2>11, <2>12, <2>13, <2>14, <2>15
<1>8. ASSUME NEW i \in DOMAIN row
      PROVE  /\ DOMAIN neighboors'[n + i] \subseteq Dir
             /\ o \in DOMAIN neighboors'[n + i] /\ neighboors'[n + i][o] = row[i]
             /\ d \in DOMAIN neighboors'[n + i] <=> d \in DOMAIN neighboors[row[i]]
             /\ d \in DOMAIN neighboors[row[i]] => neighboors'[n + i][d] = neighboors[row[i]][d]
             /\ \A f \in {a, b} :
                  /\ f \in DOMAIN neighboors'[n + i] <=> Along(row, i, f, a) \in DOMAIN row
                  /\ Along(row, i, f, a) \in DOMAIN row => neighboors'[n + i][f] = n + Along(row, i, f, a)
  <2> DEFINE dom == {o} \union (DOMAIN neighboors[row[i]] \intersect {d})
                        \union (IF i < Len(row) THEN {a} ELSE {})
                        \union (IF i > 1 THEN {b} ELSE {})
  <2>1. neighboors'[n + i] = LinksOfNew(row, d, n, i)
    BY <1>4, <1>5
  <2>2. neighboors'[n + i] = [e \in dom |-> CASE e = o -> row[i]
                                              [] e = d -> neighboors[row[i]][d]
                                              [] e = a -> n + i + 1
                                              [] e = b -> n + i - 1]
    BY <2>1 DEF LinksOfNew
  <2>3. i \in 1 .. Len(row)
    BY <1>2
  <2> HIDE DEF o, a, b
  <2>4. DOMAIN neighboors'[n + i] = dom
    BY <2>2
  <2>5. neighboors'[n + i][o] = row[i]
    BY <1>1, <2>2
  <2>6. d \in dom <=> d \in DOMAIN neighboors[row[i]]
    BY <1>1
  <2>7. d \in DOMAIN neighboors[row[i]] => neighboors'[n + i][d] = neighboors[row[i]][d]
    BY <1>1, <2>2
  <2>8. Along(row, i, a, a) = i + 1 /\ Along(row, i, b, a) = i - 1
    BY <1>1 DEF Along
  <2>9. i + 1 \in DOMAIN row <=> i < Len(row)
    BY <1>2, <2>3
  <2>10. i - 1 \in DOMAIN row <=> i > 1
    BY <1>2, <2>3
  <2>11. (a \in dom <=> i < Len(row)) /\ (b \in dom <=> i > 1)
    BY <1>1
  <2>12. i < Len(row) => neighboors'[n + i][a] = n + (i + 1)
    <3>1. i < Len(row) => neighboors'[n + i][a] = n + i + 1
      BY <1>1, <2>2, <2>11
    <3>. QED
      BY <1>3, <2>3, <3>1
  <2>13. i > 1 => neighboors'[n + i][b] = n + (i - 1)
    <3>1. i > 1 => neighboors'[n + i][b] = n + i - 1
      BY <1>1, <2>2, <2>11
    <3>. QED
      BY <1>3, <2>3, <3>1
  <2>14. dom \subseteq Dir
    BY <1>1
  <2> HIDE DEF dom
  <2>. QED
    BY <2>4, <2>5, <2>6, <2>7, <2>8, <2>9, <2>10, <2>11, <2>12, <2>13, <2>14 DEF dom
<1>9. DOMAIN neighboors' = Tiles' /\ \A t \in Tiles' : DOMAIN neighboors'[t] \subseteq Dir
  <2>1. DOMAIN neighboors' = Tiles'
    BY <1>4
  <2>2. \A t \in Tiles : DOMAIN neighboors'[t] \subseteq Dir
    BY <1>7
  <2>3. \A t \in added : DOMAIN neighboors'[t] \subseteq Dir
    BY <1>8
  <2>. QED
    BY <1>4, <2>1, <2>2, <2>3
<1> HIDE DEF o, a, b
<1>10. Relinks(row, n, d, o, a, b)
  BY <1>7, <1>8 DEF Relinks
<1>. QED
  BY <1>4, <1>5, <1>9, <1>10 DEF o, a, b

(* An insertion leaves the links those of a rectangle.  Every link e of a  *)
(* tile is followed; the tile is an old or a new one, and e leads across   *)
(* the new row (d and o) or along it (a and b).                            *)
LEMMA InsertMesh ==
  ASSUME LinksInv, NEW edge \in Tiles, NEW d \in Dir, InsertEmpty(edge, d)
  PROVE  MeshIsRectangular'
<1> DEFINE o == Opposite[d]
           a == SplitNext[d]
           b == Opposite[a]
           row == Walk(edge, a)
           n == Cardinality(Tiles)
           D(t) == DOMAIN neighboors[t]
           E(t) == DOMAIN neighboors'[t]
<1>1. /\ Dir = {d, o, a, b}
      /\ d # o /\ d # a /\ d # b /\ o # a /\ o # b /\ a # b
      /\ Opposite[d] = o /\ Opposite[o] = d /\ Opposite[a] = b /\ Opposite[b] = a
  BY Directions
<1>2. /\ row \in Seq(Tiles) /\ DOMAIN row = 1 .. Len(row)
      /\ \A i \in DOMAIN row, f \in {a, b} :
           LET j == Along(row, i, f, a)
           IN  (f \in D(row[i]) <=> j \in DOMAIN row) /\ (j \in DOMAIN row => neighboors[row[i]][f] = row[j])
      /\ \A t \in Tiles : \A f \in {a, b} :
           f \in D(t) => (InRow(row, neighboors[t][f]) <=> InRow(row, t))
  <2>1. IsTop(edge, d)
    BY DEF InsertEmpty
  <2>2. /\ row \in Seq(Tiles) /\ DOMAIN row = 1 .. Len(row)
        /\ \A i \in DOMAIN row, f \in {a, b} :
             LET j == Along(row, i, f, a)
             IN  /\ f \in DOMAIN neighboors[row[i]] <=> j \in DOMAIN row
                 /\ j \in DOMAIN row => neighboors[row[i]][f] = row[j]
        /\ \A t \in Tiles : \A f \in {a, b} :
             f \in DOMAIN neighboors[t] => (InRow(row, neighboors[t][f]) <=> InRow(row, t))
    <3>1. row = Walk(edge, SplitNext[d])
      OBVIOUS
    <3> HIDE DEF row
    <3>2. row \in Seq(Tiles) /\ DOMAIN row = 1 .. Len(row)
      BY <2>1, <3>1, RowIsClosed
    <3>3. RowClosed(row, a, b)
      BY <2>1, <3>1, RowIsClosed
    <3>. QED
      BY <3>2, <3>3 DEF RowClosed
  <2>. QED
    BY <2>2
<1>3. /\ Tiles' = Tiles \union {n + i : i \in DOMAIN row}
      /\ DOMAIN neighboors' = Tiles' /\ \A t \in Tiles' : E(t) \subseteq Dir
      /\ Relinks(row, n, d, o, a, b)
  BY InsertRelinks
<1> HIDE DEF o, a, b, row, n
<1>4. \A t \in Tiles : \A e \in D(t) :
        /\ neighboors[t][e] \in Tiles
        /\ Opposite[e] \in D(neighboors[t][e]) /\ neighboors[neighboors[t][e]][Opposite[e]] = t
        /\ \A f \in Dir \ {e, Opposite[e]} :
             /\ f \in D(t) <=> f \in D(neighboors[t][e])
             /\ f \in D(t) => neighboors[neighboors[t][f]][e] = neighboors[neighboors[t][e]][f]
  BY DEF LinksInv, Linked, MeshIsRectangular
<1>5. \A i \in DOMAIN row : row[i] \in Tiles /\ InRow(row, row[i])
  BY <1>2 DEF InRow
<1>6. \A t \in Tiles :
        /\ \A f \in {o, a, b} : f \in E(t) <=> f \in D(t)
        /\ \A f \in {a, b} : f \in D(t) => neighboors'[t][f] = neighboors[t][f]
        /\ d \in E(t) <=> d \in D(t) \/ InRow(row, t)
        /\ d \in D(t) /\ ~InRow(row, t) => neighboors'[t][d] = neighboors[t][d]
        /\ o \in D(t) /\ ~InRow(row, neighboors[t][o]) => neighboors'[t][o] = neighboors[t][o]
        /\ \A i \in DOMAIN row :
             /\ row[i] = t => neighboors'[t][d] = n + i
             /\ o \in D(t) /\ neighboors[t][o] = row[i] => neighboors'[t][o] = n + i
  BY <1>3 DEF Relinks
<1>7. \A i \in DOMAIN row :
        /\ o \in E(n + i) /\ neighboors'[n + i][o] = row[i]
        /\ d \in E(n + i) <=> d \in D(row[i])
        /\ d \in D(row[i]) => neighboors'[n + i][d] = neighboors[row[i]][d]
        /\ \A f \in {a, b} :
             LET j == Along(row, i, f, a)
             IN  (f \in E(n + i) <=> j \in DOMAIN row) /\ (j \in DOMAIN row => neighboors'[n + i][f] = n + j)
  BY <1>3 DEF Relinks
<1> DEFINE Symmetric(t, e) == /\ Opposite[e] \in E(neighboors'[t][e])
                              /\ neighboors'[neighboors'[t][e]][Opposite[e]] = t
           SameEnds(t, e) == \A f \in Dir \ {e, Opposite[e]} : f \in E(t) <=> f \in E(neighboors'[t][e])
           Square(t, e, f) == f \in E(t) =>
                                neighboors'[neighboors'[t][f]][e] = neighboors'[neighboors'[t][e]][f]
(* Along the row: where the step from the i-th tile leads, old and new.    *)
<1>8. ASSUME NEW i \in DOMAIN row, NEW f \in {a, b}, f \in E(n + i) \/ f \in D(row[i])
      PROVE  \E j \in DOMAIN row : /\ neighboors[row[i]][f] = row[j] /\ neighboors'[row[i]][f] = row[j]
                                   /\ f \in E(n + i) /\ f \in D(row[i])
                                   /\ neighboors'[n + i][f] = n + j
                                   /\ Opposite[f] \in E(n + j) /\ neighboors'[n + j][Opposite[f]] = n + i
  <2> DEFINE j == Along(row, i, f, a)
  <2>1. j \in DOMAIN row /\ neighboors[row[i]][f] = row[j] /\ neighboors'[n + i][f] = n + j
        /\ f \in E(n + i) /\ f \in D(row[i])
    BY <1>2, <1>7, <1>8
  <2>2. neighboors'[row[i]][f] = row[j]
    BY <1>5, <1>6, <2>1
  <2>3. Opposite[f] \in {a, b} /\ Along(row, j, Opposite[f], a) = i
    <3>1. i \in 1 .. Len(row) /\ Len(row) \in Nat
      BY <1>2
    <3>. QED
      BY <1>1, <3>1 DEF Along
  <2>4. Opposite[f] \in E(n + j) /\ neighboors'[n + j][Opposite[f]] = n + i
    BY <1>7, <2>1, <2>3
  <2>. QED
    BY <2>1, <2>2, <2>4
<1>9. ASSUME NEW t \in Tiles, d \in E(t)
      PROVE  Symmetric(t, d) /\ SameEnds(t, d) /\ Square(t, d, a) /\ Square(t, d, b)
  <2>1. CASE InRow(row, t)
    <3> PICK i \in DOMAIN row : row[i] = t
      BY <2>1 DEF InRow
    <3>1. neighboors'[t][d] = n + i
      BY <1>6
    <3>2. Symmetric(t, d)
      BY <1>1, <1>7, <3>1
    <3>3. \A f \in {a, b} : f \in E(t) <=> f \in E(n + i)
      BY <1>2, <1>6, <1>7
    <3>4. ASSUME NEW f \in {a, b}, f \in E(t) PROVE Square(t, d, f)
      <4>1. f \in E(n + i)
        BY <3>3, <3>4
      <4>2. PICK j \in DOMAIN row : neighboors'[row[i]][f] = row[j] /\ neighboors'[n + i][f] = n + j
        BY <1>8, <4>1
      <4>. QED
        BY <1>5, <1>6, <3>1, <4>2
    <3>. QED
      BY <1>1, <3>1, <3>2, <3>3, <3>4
  <2>2. CASE ~InRow(row, t)
    <3> DEFINE u == neighboors[t][d]
    <3>1. d \in D(t) /\ neighboors'[t][d] = u /\ u \in Tiles /\ o \in D(u) /\ neighboors[u][o] = t
      BY <1>1, <1>4, <1>6, <1>9, <2>2
    <3>2. Symmetric(t, d)
      BY <1>1, <1>6, <2>2, <3>1
    <3>3. \A f \in {a, b} : f \in D(t) <=> f \in D(u)
      BY <1>1, <1>4, <3>1
    <3>4. SameEnds(t, d)
      BY <1>1, <1>6, <3>1, <3>3
    <3>5. ASSUME NEW f \in {a, b}, f \in E(t) PROVE Square(t, d, f)
      <4> DEFINE w == neighboors[t][f]
      <4>1. f \in D(t) /\ f \in D(u) /\ neighboors'[t][f] = w /\ neighboors'[u][f] = neighboors[u][f]
            /\ w \in Tiles /\ ~InRow(row, w)
        BY <1>2, <1>4, <1>6, <2>2, <3>1, <3>3, <3>5
      <4>2. d \in D(w) /\ neighboors[w][d] = neighboors[u][f]
        BY <1>1, <1>4, <3>1, <4>1
      <4>. QED
        BY <1>6, <3>1, <4>1, <4>2
    <3>. QED
      BY <3>2, <3>4, <3>5
  <2>. QED
    BY <2>1, <2>2
<1>10. ASSUME NEW t \in Tiles, o \in E(t)
       PROVE  Symmetric(t, o) /\ SameEnds(t, o) /\ Square(t, o, a) /\ Square(t, o, b)
  <2> DEFINE v == neighboors[t][o]
  <2>1. o \in D(t) /\ v \in Tiles /\ d \in D(v) /\ neighboors[v][d] = t
    BY <1>1, <1>4, <1>6, <1>10
  <2>2. \A f \in {a, b} : f \in D(t) <=> f \in D(v)
    BY <1>1, <1>4, <2>1
  <2>3. CASE InRow(row, v)
    <3> PICK i \in DOMAIN row : row[i] = v
      BY <2>3 DEF InRow
    <3>1. neighboors'[t][o] = n + i
      BY <1>6, <2>1
    <3>2. Symmetric(t, o)
      BY <1>1, <1>7, <2>1, <3>1
    <3>3. \A f \in {a, b} : f \in E(t) <=> f \in E(n + i)
      BY <1>2, <1>6, <1>7, <2>2
    <3>4. ASSUME NEW f \in {a, b}, f \in E(t) PROVE Square(t, o, f)
      <4> DEFINE w == neighboors[t][f]
      <4>1. f \in D(t) /\ neighboors'[t][f] = w /\ w \in Tiles /\ f \in E(n + i)
        BY <1>4, <1>6, <3>3, <3>4
      <4>2. PICK j \in DOMAIN row : neighboors[row[i]][f] = row[j] /\ neighboors'[n + i][f] = n + j
        BY <1>8, <4>1
      <4>3. o \in D(w) /\ neighboors[w][o] = row[j]
        BY <1>1, <1>4, <2>1, <4>1, <4>2
      <4>4. neighboors'[w][o] = n + j
        BY <1>6, <4>1, <4>3
      <4>. QED
        BY <3>1, <4>1, <4>2, <4>4
    <3>. QED
      BY <1>1, <3>1, <3>2, <3>3, <3>4
  <2>4. CASE ~InRow(row, v)
    <3>1. neighboors'[t][o] = v
      BY <1>6, <2>1, <2>4
    <3>2. Symmetric(t, o)
      BY <1>1, <1>6, <2>1, <2>4, <3>1
    <3>3. SameEnds(t, o)
      BY <1>1, <1>6, <2>1, <2>2, <3>1
    <3>4. ASSUME NEW f \in {a, b}, f \in E(t) PROVE Square(t, o, f)
      <4> DEFINE w == neighboors[t][f]
      <4>1. f \in D(t) /\ f \in D(v) /\ neighboors'[t][f] = w /\ neighboors'[v][f] = neighboors[v][f]
            /\ w \in Tiles
        BY <1>4, <1>6, <2>1, <2>2, <3>4
      <4>2. o \in D(w) /\ neighboors[w][o] = neighboors[v][f]
        BY <1>1, <1>4, <2>1, <4>1
      <4>3. ~InRow(row, neighboors[v][f])
        BY <1>2, <2>1, <2>4, <4>1
      <4>4. neighboors'[w][o] = neighboors[v][f]
        BY <1>6, <4>1, <4>2, <4>3
      <4>. QED
        BY <3>1, <4>1, <4>4
    <3>. QED
      BY <3>2, <3>3, <3>4
  <2>. QED
    BY <2>3, <2>4
<1>11. ASSUME NEW t \in Tiles, NEW e \in {a, b}, e \in E(t)
       PROVE  Symmetric(t, e) /\ SameEnds(t, e)
  <2> DEFINE u == neighboors[t][e]
  <2>1. e \in D(t) /\ neighboors'[t][e] = u /\ u \in Tiles /\ Opposite[e] \in {a, b}
        /\ Opposite[e] \in D(u) /\ neighboors[u][Opposite[e]] = t
    BY <1>1, <1>4, <1>6, <1>11
  <2>2. Symmetric(t, e)
    BY <1>6, <2>1
  <2>3. \A f \in {d, o} : f \in D(t) <=> f \in D(u)
    BY <1>1, <1>4, <2>1
  <2>4. \A f \in {d, o} : f \in E(t) <=> f \in E(u)
    BY <1>2, <1>6, <2>1, <2>3
  <2>. QED
    BY <1>1, <2>1, <2>2, <2>4
<1>12. ASSUME NEW i \in DOMAIN row
       PROVE  Symmetric(n + i, o) /\ SameEnds(n + i, o) /\ Square(n + i, o, a) /\ Square(n + i, o, b)
  <2>1. neighboors'[n + i][o] = row[i]
    BY <1>7
  <2>2. Symmetric(n + i, o)
    BY <1>1, <1>5, <1>6, <2>1
  <2>3. \A f \in {a, b} : f \in E(n + i) <=> f \in E(row[i])
    BY <1>2, <1>5, <1>6, <1>7
  <2>4. ASSUME NEW f \in {a, b}, f \in E(n + i) PROVE Square(n + i, o, f)
    <3>1. PICK j \in DOMAIN row : neighboors'[row[i]][f] = row[j] /\ neighboors'[n + i][f] = n + j
      BY <1>8, <2>4
    <3>. QED
      BY <1>7, <2>1, <3>1
  <2>. QED
    BY <1>1, <2>1, <2>2, <2>3, <2>4
<1>13. ASSUME NEW i \in DOMAIN row, d \in E(n + i)
       PROVE  Symmetric(n + i, d) /\ SameEnds(n + i, d) /\ Square(n + i, d, a) /\ Square(n + i, d, b)
  <2> DEFINE u == neighboors[row[i]][d]
  <2>1. d \in D(row[i]) /\ neighboors'[n + i][d] = u /\ u \in Tiles /\ o \in D(u) /\ neighboors[u][o] = row[i]
    BY <1>1, <1>4, <1>5, <1>7, <1>13
  <2>2. Symmetric(n + i, d)
    BY <1>1, <1>6, <2>1
  <2>3. \A f \in {a, b} : f \in E(n + i) <=> f \in E(u)
    BY <1>1, <1>2, <1>4, <1>5, <1>6, <1>7, <2>1
  <2>4. ASSUME NEW f \in {a, b}, f \in E(n + i) PROVE Square(n + i, d, f)
    <3>1. PICK j \in DOMAIN row : neighboors[row[i]][f] = row[j] /\ neighboors'[n + i][f] = n + j
                                  /\ f \in D(row[i])
      BY <1>8, <2>4
    <3>2. f \in D(u) /\ d \in D(row[j]) /\ neighboors[row[j]][d] = neighboors[u][f]
      BY <1>1, <1>4, <1>5, <2>1, <3>1
    <3>. QED
      BY <1>6, <1>7, <2>1, <3>1, <3>2
  <2>. QED
    BY <1>1, <2>1, <2>2, <2>3, <2>4
<1>14. ASSUME NEW i \in DOMAIN row, NEW e \in {a, b}, e \in E(n + i)
       PROVE  Symmetric(n + i, e) /\ SameEnds(n + i, e)
  <2>1. PICK j \in DOMAIN row : /\ neighboors[row[i]][e] = row[j] /\ e \in D(row[i])
                                /\ neighboors'[n + i][e] = n + j
                                /\ Opposite[e] \in E(n + j) /\ neighboors'[n + j][Opposite[e]] = n + i
    BY <1>8, <1>14
  <2>2. d \in D(row[i]) <=> d \in D(row[j])
    BY <1>1, <1>4, <1>5, <2>1
  <2>3. \A f \in {d, o} : f \in E(n + i) <=> f \in E(n + j)
    BY <1>7, <2>2
  <2>. QED
    BY <1>1, <2>1, <2>3
<1>15. ASSUME NEW t \in Tiles', NEW e \in E(t)
       PROVE  Symmetric(t, e) /\ SameEnds(t, e)
  <2>1. e \in {d, o, a, b}
    BY <1>1, <1>3
  <2> HIDE DEF Symmetric, SameEnds, E
  <2>2. CASE t \in Tiles
    BY <1>9, <1>10, <1>11, <1>15, <2>1, <2>2
  <2>3. CASE t \notin Tiles
    <3> PICK i \in DOMAIN row : t = n + i
      BY <1>3, <2>3
    <3>. QED
      BY <1>12, <1>13, <1>14, <1>15, <2>1
  <2>. QED
    BY <2>2, <2>3
<1>16. ASSUME NEW t \in Tiles', NEW e \in {d, o}, e \in E(t), NEW f \in {a, b}
       PROVE  Square(t, e, f)
  <2> HIDE DEF Square, E
  <2>1. CASE t \in Tiles
    BY <1>9, <1>10, <1>16, <2>1
  <2>2. CASE t \notin Tiles
    <3> PICK i \in DOMAIN row : t = n + i
      BY <1>3, <2>2
    <3>. QED
      BY <1>12, <1>13, <1>16
  <2>. QED
    BY <2>1, <2>2
<1>17. ASSUME NEW t \in Tiles', NEW e \in E(t), NEW f \in Dir \ {e, Opposite[e]}, f \in E(t)
       PROVE  neighboors'[neighboors'[t][f]][e] = neighboors'[neighboors'[t][e]][f]
  <2>1. (e \in {d, o} /\ f \in {a, b}) \/ (e \in {a, b} /\ f \in {d, o})
    BY <1>1, <1>3
  <2>. QED
    BY <1>16, <1>17, <2>1
<1>. QED
  <2> SUFFICES ASSUME NEW t \in Tiles', NEW e \in E(t)
               PROVE  LET u == neighboors'[t][e]
                      IN  /\ Opposite[e] \in DOMAIN neighboors'[u]
                          /\ neighboors'[u][Opposite[e]] = t
                          /\ \A f \in Dir \ {e, Opposite[e]} :
                               /\ f \in DOMAIN neighboors'[t] <=> f \in DOMAIN neighboors'[u]
                               /\ f \in DOMAIN neighboors'[t] =>
                                    neighboors'[neighboors'[t][f]][e] = neighboors'[u][f]
    BY DEF MeshIsRectangular
  <2>. QED
    BY <1>15, <1>17

LEMMA InsertNumbered ==
  ASSUME LinksInv, NEW edge \in Tiles, NEW d \in Dir, InsertEmpty(edge, d)
  PROVE  Numbered'
<1> DEFINE row == Walk(edge, SplitNext[d])
           n == Cardinality(Tiles)
<1>1. n \in Nat /\ Tiles = 1 .. n /\ MaxTiles \in Nat
  BY GridAssumption DEF LinksInv, Numbered
<1>2. IsTop(edge, d) /\ Cardinality(Tiles \union {n + i : i \in DOMAIN row}) <= MaxTiles
  BY DEF InsertEmpty
<1>3. row = Walk(edge, SplitNext[d])
  OBVIOUS
<1> HIDE DEF row
<1>4. Len(row) \in Nat /\ DOMAIN row = 1 .. Len(row)
  BY <1>2, <1>3, RowIsClosed
<1>5. Tiles' = Tiles \union {n + i : i \in DOMAIN row}
  BY <1>3, InsertRelinks
<1>6. 1 .. n \union {n + i : i \in 1 .. Len(row)} = 1 .. n + Len(row)
  <2>1. \A k \in 1 .. n + Len(row) : k \in 1 .. n \/ (k - n \in 1 .. Len(row) /\ k = n + (k - n))
    BY <1>1, <1>4
  <2>2. \A i \in 1 .. Len(row) : n + i \in 1 .. n + Len(row)
    BY <1>1, <1>4
  <2>3. 1 .. n \subseteq 1 .. n + Len(row)
    BY <1>1, <1>4
  <2>. QED
    BY <2>1, <2>2, <2>3
<1>7. Tiles' = 1 .. n + Len(row) /\ n + Len(row) \in Nat
  BY <1>1, <1>4, <1>5, <1>6
<1>8. Cardinality(1 .. n + Len(row)) = n + Len(row)
  BY <1>7, FS_Interval
<1>. QED
  BY <1>2, <1>5, <1>7, <1>8 DEF Numbered

LEMMA InsertLinked ==
  ASSUME LinksInv, NEW edge \in Tiles, NEW d \in Dir, InsertEmpty(edge, d)
  PROVE  Linked'
<1> DEFINE o == Opposite[d]
           a == SplitNext[d]
           b == Opposite[a]
           row == Walk(edge, a)
           n == Cardinality(Tiles)
<1>1. Dir = {d, o, a, b}
  BY Directions
<1>2. /\ Tiles' = Tiles \union {n + i : i \in DOMAIN row}
      /\ DOMAIN neighboors' = Tiles' /\ \A t \in Tiles' : DOMAIN neighboors'[t] \subseteq Dir
      /\ Relinks(row, n, d, o, a, b)
  BY InsertRelinks
<1>3. row \in Seq(Tiles) /\ DOMAIN row = 1 .. Len(row)
  <2>1. IsTop(edge, d) /\ row = Walk(edge, SplitNext[d])
    BY DEF InsertEmpty
  <2> HIDE DEF row
  <2>. QED
    BY <2>1, RowIsClosed
<1> HIDE DEF o, a, b, row, n
<1>4. \A t \in Tiles : \A f \in DOMAIN neighboors[t] : neighboors[t][f] \in Tiles
  BY DEF LinksInv, Linked
<1>5. \A i \in DOMAIN row : row[i] \in Tiles /\ row[i] \in Tiles' /\ n + i \in Tiles'
  BY <1>2, <1>3
<1>6. Tiles \subseteq Tiles'
  BY <1>2
<1>7. ASSUME NEW t \in Tiles, NEW e \in DOMAIN neighboors'[t]
      PROVE  neighboors'[t][e] \in Tiles'
  <2>1. CASE e = d
    <3>1. CASE InRow(row, t)
      BY <1>2, <1>5, <2>1, <3>1 DEF Relinks, InRow
    <3>2. CASE ~InRow(row, t)
      BY <1>2, <1>4, <1>6, <2>1, <3>2 DEF Relinks
    <3>. QED
      BY <3>1, <3>2
  <2>2. CASE e = o
    <3>1. o \in DOMAIN neighboors[t] /\ neighboors[t][o] \in Tiles
      BY <1>2, <1>4, <2>2 DEF Relinks
    <3>2. CASE InRow(row, neighboors[t][o])
      BY <1>2, <1>5, <2>2, <3>1, <3>2 DEF Relinks, InRow
    <3>3. CASE ~InRow(row, neighboors[t][o])
      BY <1>2, <1>6, <2>2, <3>1, <3>3 DEF Relinks
    <3>. QED
      BY <3>2, <3>3
  <2>3. CASE e \in {a, b}
    BY <1>2, <1>4, <1>6, <2>3 DEF Relinks
  <2>. QED
    BY <1>1, <1>2, <1>6, <2>1, <2>2, <2>3
<1>8. ASSUME NEW i \in DOMAIN row, NEW e \in DOMAIN neighboors'[n + i]
      PROVE  neighboors'[n + i][e] \in Tiles'
  <2>1. CASE e = d
    BY <1>2, <1>4, <1>5, <1>6, <2>1 DEF Relinks
  <2>2. CASE e = o
    BY <1>2, <1>5, <2>2 DEF Relinks
  <2>3. CASE e \in {a, b}
    BY <1>2, <1>5, <2>3 DEF Relinks
  <2>. QED
    BY <1>1, <1>2, <1>5, <2>1, <2>2, <2>3
<1>. QED
  <2> SUFFICES ASSUME NEW t \in Tiles', NEW e \in DOMAIN neighboors'[t]
               PROVE  neighboors'[t][e] \in Tiles'
    BY <1>2 DEF Linked
  <2>. QED
    BY <1>2, <1>7, <1>8

(* Tile (x, y) of the initial grid, and the coordinates of a tile.         *)
At(x, y) == y * Width + x + 1

X(t) == (t - 1) % Width

Y(t) == (t - 1) \div Width

LEMMA Coordinates ==
  /\ \A t \in PhyTiles : X(t) \in 0 .. Width - 1 /\ Y(t) \in 0 .. Height - 1 /\ t = At(X(t), Y(t))
  /\ \A x \in 0 .. Width - 1, y \in 0 .. Height - 1 :
       At(x, y) \in PhyTiles /\ X(At(x, y)) = x /\ Y(At(x, y)) = y
<1>1. Width \in Nat \ {0} /\ Height \in Nat \ {0}
  BY GridAssumption
<1>2. \A h \in Nat, w \in Nat \ {0} : /\ h = w * (h \div w) + (h % w)
                                      /\ h \div w \in Nat /\ h % w \in 0 .. w - 1
  OBVIOUS
<1>3. \A y, z \in Nat : y * Width < z * Width => y < z
  BY <1>1
<1>4. ASSUME NEW t \in PhyTiles
      PROVE  X(t) \in 0 .. Width - 1 /\ Y(t) \in 0 .. Height - 1 /\ t = At(X(t), Y(t))
  <2>1. t \in 1 .. Width * Height /\ t - 1 \in Nat
    BY <1>1 DEF PhyTiles
  <2>2. t - 1 = Width * Y(t) + X(t) /\ Y(t) \in Nat /\ X(t) \in 0 .. Width - 1
    BY <1>1, <1>2, <2>1 DEF X, Y
  <2> HIDE DEF X, Y
  <2>3. Y(t) * Width < Height * Width
    BY <1>1, <2>1, <2>2
  <2>4. Y(t) < Height
    BY <1>1, <1>3, <2>2, <2>3
  <2>5. t = At(X(t), Y(t))
    BY <1>1, <2>1, <2>2 DEF At
  <2>. QED
    BY <1>1, <2>2, <2>4, <2>5
<1>5. ASSUME NEW x \in 0 .. Width - 1, NEW y \in 0 .. Height - 1
      PROVE  At(x, y) \in PhyTiles /\ X(At(x, y)) = x /\ Y(At(x, y)) = y
  <2>1. y \in Nat /\ x \in Nat /\ y + 1 <= Height /\ x + 1 <= Width /\ y * Width \in Nat
    BY <1>1
  <2>2. (y + 1) * Width <= Height * Width
    BY <1>1, <2>1
  <2>3. At(x, y) \in 1 .. Width * Height /\ At(x, y) - 1 = y * Width + x
    BY <1>1, <2>1, <2>2 DEF At
  <2>4. (y * Width + x) \div Width = y /\ (y * Width + x) % Width = x
    BY <1>1, <2>1
  <2>. QED
    BY <2>3, <2>4 DEF PhyTiles, X, Y
<1>. QED
  BY <1>4, <1>5

(* build_mesh links a rectangle.                                           *)
LEMMA InitLinks == Init => LinksInv
<1> SUFFICES ASSUME Init PROVE LinksInv
  OBVIOUS
<1>1. Width \in Nat \ {0} /\ Height \in Nat \ {0} /\ Width * Height \in Nat /\ Width * Height <= MaxTiles
  BY GridAssumption
<1>2. Tiles = PhyTiles /\ neighboors = Mesh
  BY DEF Init, Tiles
<1>3. Numbered
  <2> DEFINE size == Width * Height
  <2>1. size \in Nat /\ size <= MaxTiles /\ Tiles = 1 .. size
    BY <1>1, <1>2 DEF PhyTiles
  <2> HIDE DEF size
  <2>2. Cardinality(1 .. size) = size
    BY <2>1, FS_Interval
  <2>. QED
    BY <2>1, <2>2 DEF Numbered
<1> DEFINE Dom(t) == {e \in Dir : \/ e = "NORTH" /\ Y(t) > 0
                                  \/ e = "SOUTH" /\ Y(t) < Height - 1
                                  \/ e = "EAST" /\ X(t) < Width - 1
                                  \/ e = "WEST" /\ X(t) > 0}
           To(t, e) == CASE e = "NORTH" -> t - Width
                         [] e = "SOUTH" -> t + Width
                         [] e = "EAST"  -> t + 1
                         [] e = "WEST"  -> t - 1
<1>4. neighboors = [t \in PhyTiles |-> [e \in Dom(t) |-> To(t, e)]]
  BY <1>2 DEF Mesh, X, Y
<1>5. \A t \in PhyTiles : DOMAIN neighboors[t] = Dom(t) /\ \A e \in Dom(t) : neighboors[t][e] = To(t, e)
  <2> HIDE DEF Dom, To
  <2>. QED
    BY <1>4
<1>6. \A t \in PhyTiles : X(t) \in 0 .. Width - 1 /\ Y(t) \in 0 .. Height - 1 /\ t = At(X(t), Y(t))
  BY Coordinates
<1>7. \A x, y \in Int : /\ At(x, y) - Width = At(x, y - 1) /\ At(x, y) + Width = At(x, y + 1)
                        /\ At(x, y) + 1 = At(x + 1, y) /\ At(x, y) - 1 = At(x - 1, y)
  BY <1>1 DEF At
<1> HIDE DEF X, Y, At, Dom, To
<1>8. ASSUME NEW t \in PhyTiles
      PROVE  /\ "NORTH" \in Dom(t) <=> Y(t) > 0
             /\ "SOUTH" \in Dom(t) <=> Y(t) < Height - 1
             /\ "EAST" \in Dom(t) <=> X(t) < Width - 1
             /\ "WEST" \in Dom(t) <=> X(t) > 0
             /\ "NORTH" \in Dom(t) => neighboors[t]["NORTH"] = At(X(t), Y(t) - 1)
             /\ "SOUTH" \in Dom(t) => neighboors[t]["SOUTH"] = At(X(t), Y(t) + 1)
             /\ "EAST" \in Dom(t) => neighboors[t]["EAST"] = At(X(t) + 1, Y(t))
             /\ "WEST" \in Dom(t) => neighboors[t]["WEST"] = At(X(t) - 1, Y(t))
  <2>1. /\ "NORTH" \in Dom(t) <=> Y(t) > 0
        /\ "SOUTH" \in Dom(t) <=> Y(t) < Height - 1
        /\ "EAST" \in Dom(t) <=> X(t) < Width - 1
        /\ "WEST" \in Dom(t) <=> X(t) > 0
    BY DEF Dom, Dir
  <2>2. /\ To(t, "NORTH") = t - Width /\ To(t, "SOUTH") = t + Width
        /\ To(t, "EAST") = t + 1 /\ To(t, "WEST") = t - 1
    BY DEF To
  <2>3. X(t) \in Int /\ Y(t) \in Int /\ t = At(X(t), Y(t))
    BY <1>1, <1>6
  <2>4. /\ t - Width = At(X(t), Y(t) - 1) /\ t + Width = At(X(t), Y(t) + 1)
        /\ t + 1 = At(X(t) + 1, Y(t)) /\ t - 1 = At(X(t) - 1, Y(t))
    BY <1>7, <2>3
  <2>. QED
    BY <1>5, <2>1, <2>2, <2>4
<1>9. \A x \in 0 .. Width - 1, y \in 0 .. Height - 1 :
        At(x, y) \in PhyTiles /\ X(At(x, y)) = x /\ Y(At(x, y)) = y
  BY Coordinates
(* Where the four links lead, in coordinates.                              *)
<1>10. ASSUME NEW t \in PhyTiles
       PROVE  /\ "NORTH" \in Dom(t) => LET u == neighboors[t]["NORTH"]
                                       IN  u \in PhyTiles /\ X(u) = X(t) /\ Y(u) = Y(t) - 1
              /\ "SOUTH" \in Dom(t) => LET u == neighboors[t]["SOUTH"]
                                       IN  u \in PhyTiles /\ X(u) = X(t) /\ Y(u) = Y(t) + 1
              /\ "EAST" \in Dom(t) => LET u == neighboors[t]["EAST"]
                                      IN  u \in PhyTiles /\ X(u) = X(t) + 1 /\ Y(u) = Y(t)
              /\ "WEST" \in Dom(t) => LET u == neighboors[t]["WEST"]
                                      IN  u \in PhyTiles /\ X(u) = X(t) - 1 /\ Y(u) = Y(t)
  <2>1. X(t) \in 0 .. Width - 1 /\ Y(t) \in 0 .. Height - 1
    BY <1>6
  <2>2. ASSUME "NORTH" \in Dom(t)
        PROVE  LET u == neighboors[t]["NORTH"] IN u \in PhyTiles /\ X(u) = X(t) /\ Y(u) = Y(t) - 1
    <3>1. Y(t) - 1 \in 0 .. Height - 1
      BY <1>1, <1>8, <2>1, <2>2
    <3>. QED
      BY <1>8, <1>9, <2>1, <2>2, <3>1
  <2>3. ASSUME "SOUTH" \in Dom(t)
        PROVE  LET u == neighboors[t]["SOUTH"] IN u \in PhyTiles /\ X(u) = X(t) /\ Y(u) = Y(t) + 1
    <3>1. Y(t) + 1 \in 0 .. Height - 1
      BY <1>1, <1>8, <2>1, <2>3
    <3>. QED
      BY <1>8, <1>9, <2>1, <2>3, <3>1
  <2>4. ASSUME "EAST" \in Dom(t)
        PROVE  LET u == neighboors[t]["EAST"] IN u \in PhyTiles /\ X(u) = X(t) + 1 /\ Y(u) = Y(t)
    <3>1. X(t) + 1 \in 0 .. Width - 1
      BY <1>1, <1>8, <2>1, <2>4
    <3>. QED
      BY <1>8, <1>9, <2>1, <2>4, <3>1
  <2>5. ASSUME "WEST" \in Dom(t)
        PROVE  LET u == neighboors[t]["WEST"] IN u \in PhyTiles /\ X(u) = X(t) - 1 /\ Y(u) = Y(t)
    <3>1. X(t) - 1 \in 0 .. Width - 1
      BY <1>1, <1>8, <2>1, <2>5
    <3>. QED
      BY <1>8, <1>9, <2>1, <2>5, <3>1
  <2>. QED
    BY <2>2, <2>3, <2>4, <2>5
<1>11. \A t \in PhyTiles : Dom(t) \subseteq Dir
  BY DEF Dom
<1>12. Linked
  <2>1. DOMAIN neighboors = Tiles
    BY <1>2, <1>4
  <2>2. ASSUME NEW t \in PhyTiles, NEW e \in Dom(t) PROVE neighboors[t][e] \in PhyTiles
    BY <1>10, <1>11 DEF Dir
  <2>. QED
    BY <1>2, <1>5, <1>11, <2>1, <2>2 DEF Linked
<1>13. \A t, u \in PhyTiles : X(t) = X(u) /\ Y(t) = Y(u) => t = u
  BY <1>6
<1>14. \A t \in PhyTiles : X(t) \in Int /\ Y(t) \in Int /\ X(t) >= 0 /\ Y(t) >= 0 /\ X(t) < Width /\ Y(t) < Height
  BY <1>1, <1>6
<1>15. ASSUME NEW t \in PhyTiles, NEW d \in Dom(t)
       PROVE  LET u == neighboors[t][d]
              IN  /\ Opposite[d] \in Dom(u)
                  /\ neighboors[u][Opposite[d]] = t
                  /\ \A e \in Dir \ {d, Opposite[d]} :
                       /\ e \in Dom(t) <=> e \in Dom(u)
                       /\ e \in Dom(t) => neighboors[neighboors[t][e]][d] = neighboors[u][e]
  <2> DEFINE u == neighboors[t][d]
             o == Opposite[d]
  <2>1. u \in PhyTiles /\ d \in Dir /\ o \in Dir
    BY <1>10, <1>11 DEF Dir, Opposite
  <2>2. o \in Dom(u)
    BY <1>1, <1>8, <1>10, <1>14, <2>1 DEF Dir, Opposite
  <2>3. LET v == neighboors[u][o] IN v \in PhyTiles /\ X(v) = X(t) /\ Y(v) = Y(t)
    BY <1>1, <1>10, <1>14, <2>1, <2>2 DEF Dir, Opposite
  <2>4. neighboors[u][o] = t
    BY <1>13, <2>3
  <2>5. ASSUME NEW e \in Dir \ {d, o}
        PROVE  /\ e \in Dom(t) <=> e \in Dom(u)
               /\ e \in Dom(t) => neighboors[neighboors[t][e]][d] = neighboors[u][e]
    <3>1. e \in Dom(t) <=> e \in Dom(u)
      BY <1>1, <1>8, <1>10, <1>14, <2>1 DEF Dir, Opposite
    <3>2. ASSUME e \in Dom(t)
          PROVE  neighboors[neighboors[t][e]][d] = neighboors[u][e]
      <4> DEFINE w == neighboors[t][e]
      <4>1. w \in PhyTiles /\ d \in Dom(w)
        BY <1>1, <1>8, <1>10, <1>14, <2>1, <3>2 DEF Dir, Opposite
      <4>2. LET p == neighboors[w][d]
                q == neighboors[u][e]
            IN  p \in PhyTiles /\ q \in PhyTiles /\ X(p) = X(q) /\ Y(p) = Y(q)
        BY <1>1, <1>10, <1>14, <2>1, <3>1, <3>2, <4>1 DEF Dir, Opposite
      <4>. QED
        BY <1>13, <4>2
    <3>. QED
      BY <3>1, <3>2
  <2>. QED
    BY <2>2, <2>4, <2>5
<1>16. MeshIsRectangular
  <2>1. ASSUME NEW t \in PhyTiles, NEW d \in Dom(t) PROVE neighboors[t][d] \in PhyTiles
    BY <1>2, <1>5, <1>12 DEF Linked
  <2>. QED
    BY <1>2, <1>5, <1>15, <2>1 DEF MeshIsRectangular
<1>. QED
  BY <1>3, <1>12, <1>16 DEF LinksInv

LEMMA NextLinks == LinksInv /\ [Next]_vars => LinksInv'
<1> SUFFICES ASSUME LinksInv, [Next]_vars PROVE LinksInv'
  OBVIOUS
<1>1. ASSUME Tiles' = Tiles, neighboors' = neighboors PROVE LinksInv'
  BY <1>1 DEF LinksInv, Numbered, Linked, MeshIsRectangular
<1>2. CASE UNCHANGED vars
  BY <1>1, <1>2 DEF vars, Tiles
<1>3. CASE Next
  <2> PICK t \in Tiles, d \in Dir :
         \/ MergeInDir(t, d) \/ MergeInDirRaises(t, d)
         \/ InsertEmpty(t, d) \/ InsertEmptyRaises(t, d)
         \/ \E types \in SplitTypes : \E map \in SplitMaps(types) :
              SplitTile(t, types, d, map) \/ SplitTileRaises(t, types, d, map)
    BY <1>3 DEF Next
  <2>1. CASE MergeInDir(t, d)
    BY <1>1, <2>1 DEF MergeInDir, Tiles
  <2>2. CASE InsertEmpty(t, d)
    BY <2>2, InsertNumbered, InsertLinked, InsertMesh DEF LinksInv
  <2>3. ASSUME NEW types \in SplitTypes, NEW map \in SplitMaps(types), SplitTile(t, types, d, map)
        PROVE  LinksInv'
    BY <1>1, <2>3 DEF SplitTile, Tiles
  <2>4. ASSUME NEW types \in SplitTypes, NEW map \in SplitMaps(types), SplitTileRaises(t, types, d, map)
        PROVE  LinksInv'
    BY <1>1, <2>4 DEF SplitTileRaises, Tiles
  <2>5. CASE MergeInDirRaises(t, d) \/ InsertEmptyRaises(t, d)
    BY <1>1, <2>5 DEF MergeInDirRaises, InsertEmptyRaises, Tiles
  <2>. QED
    BY <2>1, <2>2, <2>3, <2>4, <2>5
<1>. QED
  BY <1>2, <1>3

(* However many rows and columns are inserted, and wherever, into a grid   *)
(* of any size, the links between the tiles stay those of a rectangle: the *)
(* shape that output_grid walks, and check_grid_loc asserts, to position   *)
(* the tiles.                                                              *)
THEOREM LinksAreARectangle == Spec => []MeshIsRectangular
<1>1. LinksInv => MeshIsRectangular
  BY DEF LinksInv
<1>. QED
  BY <1>1, InitLinks, NextLinks, PTL DEF Spec

-----------------------------------------------------------------------------
TilesAreTyped == grid \in [Tiles -> Tile]

(* The parts of this invariant are inductive together.  Of the links an    *)
(* insertion only needs that its row is one of tiles.                      *)
IInv == TilesAreTyped /\ EachPhyTileHasOneRoot /\ NoSiteIsDuplicated
-----------------------------------------------------------------------------
LEMMA InitIInv == Init => IInv
<1> SUFFICES ASSUME Init PROVE IInv
  OBVIOUS
<1> PICK types \in [PhyTiles -> Types] : grid = [p \in PhyTiles |-> PhysicalTile(p, types[p])]
  BY DEF Init
<1>1. Tiles = PhyTiles
  BY DEF Tiles
<1>2. \A p \in PhyTiles : grid[p] \in Tile /\ grid[p].root = {p}
                          /\ grid[p].sites \subseteq {p} \X SiteYs
  BY GridAssumption DEF PhysicalTile, Tile, Sites
<1>3. TilesAreTyped
  BY <1>1, <1>2 DEF TilesAreTyped
<1>4. EachPhyTileHasOneRoot
  BY <1>1, <1>2 DEF EachPhyTileHasOneRoot
<1>5. NoSiteIsDuplicated
  BY <1>1, <1>2 DEF NoSiteIsDuplicated
<1>. QED
  BY <1>3, <1>4, <1>5 DEF IInv

(* A merge moves the roots and sites of a tile to another one.             *)
LEMMA MergeIInv ==
  ASSUME IInv, NEW t \in Tiles, NEW d \in Dir, MergeInDir(t, d)
  PROVE  IInv'
<1> PICK into \in Tiles : grid' = [grid EXCEPT ![t] = EmptiedTile(t),
                                               ![into].root = @ \union grid[t].root,
                                               ![into].phys = @ \union grid[t].phys,
                                               ![into].sites = @ \union grid[t].sites]
  BY DEF MergeInDir
<1>1. grid \in [Tiles -> Tile] /\ Empty \in Types
  BY GridAssumption DEF IInv, TilesAreTyped
<1>2. /\ DOMAIN grid' = Tiles
      /\ grid'[into].root = grid[into].root \union grid[t].root
      /\ grid'[into].sites = grid[into].sites \union grid[t].sites
      /\ t # into => grid'[t].root = {} /\ grid'[t].sites = {}
      /\ \A u \in Tiles \ {t, into} : grid'[u] = grid[u]
      /\ \A u \in Tiles : grid'[u] \in Tile
  <2>1. EmptiedTile(t) \in Tile /\ EmptiedTile(t).root = {} /\ EmptiedTile(t).sites = {}
    BY <1>1 DEF EmptiedTile, Tile
  <2>. QED
    BY <1>1, <2>1 DEF Tiles, Tile
<1>3. Tiles' = Tiles
  BY <1>2 DEF Tiles
<1>4. TilesAreTyped'
  BY <1>2, <1>3 DEF TilesAreTyped, Tiles
<1>5. EachPhyTileHasOneRoot'
  <2> SUFFICES ASSUME NEW p \in PhyTiles
               PROVE  \E u \in Tiles : p \in grid'[u].root /\ \A v \in Tiles \ {u} : p \notin grid'[v].root
    BY <1>3 DEF EachPhyTileHasOneRoot
  <2> PICK u \in Tiles : p \in grid[u].root /\ \A v \in Tiles \ {u} : p \notin grid[v].root
    BY DEF IInv, EachPhyTileHasOneRoot
  <2>1. CASE u \in {t, into}
    BY <1>2, <2>1
  <2>2. CASE u \notin {t, into}
    BY <1>2, <2>2
  <2>. QED
    BY <2>1, <2>2
<1>6. NoSiteIsDuplicated'
  BY <1>2, <1>3 DEF IInv, NoSiteIsDuplicated
<1>. QED
  BY <1>4, <1>5, <1>6 DEF IInv

(* A split leaves the roots alone and shares the sites of its first tile   *)
(* out among tiles that are all different.                                 *)
LEMMA SplitIInv ==
  ASSUME IInv, NEW t \in Tiles, NEW types \in SplitTypes, NEW d \in Dir,
         NEW map \in SplitMaps(types), SplitTile(t, types, d, map)
  PROVE  IInv'
<1> DEFINE Index(new, u) == CHOOSE i \in DOMAIN new : new[i] = u
           Taken(new) == {new[i] : i \in DOMAIN new}
<1> PICK new \in NewTiles(types) :
      /\ TakenBySplit(new, t, types, d)
      /\ grid' = [u \in Tiles |->
           IF u \in Taken(new)
           THEN [type |-> types[Index(new, u)], root |-> grid[u].root, phys |-> grid[t].phys,
                 sites |-> {s \in grid[t].sites : map[s[2]] + 1 = Index(new, u)},
                 split |-> TRUE]
           ELSE grid[u]]
  BY DEF SplitTile
<1>1. grid \in [Tiles -> Tile] /\ types \in Seq(Types)
  BY GridAssumption DEF IInv, TilesAreTyped
<1>2. PICK n \in 1 .. Len(types) : new \in [1 .. n -> Tiles]
  BY DEF NewTiles
<1>3. n >= 1 /\ DOMAIN new = 1 .. n /\ new[1] = t /\ t \in Taken(new)
  BY <1>1, <1>2 DEF TakenBySplit
<1>4. \A u \in Taken(new) : Index(new, u) \in 1 .. n /\ new[Index(new, u)] = u
  BY <1>3
<1>5. /\ \A u \in Tiles : grid'[u].root = grid[u].root
      /\ \A u \in Tiles \ Taken(new) : grid'[u].sites = grid[u].sites
      /\ \A u \in Taken(new) : u \in Tiles =>
           grid'[u].sites = {s \in grid[t].sites : map[s[2]] + 1 = Index(new, u)}
  OBVIOUS
<1>6. Tiles' = Tiles
  BY DEF Tiles
<1>7. TilesAreTyped'
  <2>1. \A u \in Tiles : grid'[u] \in Tile
    <3> SUFFICES ASSUME NEW u \in Tiles PROVE grid'[u] \in Tile
      OBVIOUS
    <3>1. CASE u \in Taken(new)
      <4>1. types[Index(new, u)] \in Types
        <5>1. Index(new, u) \in 1 .. Len(types)
          BY <1>1, <1>2, <1>4, <3>1
        <5>. QED
          BY <1>1, <5>1
      <4>. QED
        BY <1>1, <3>1, <4>1 DEF Tile
    <3>2. CASE u \notin Taken(new)
      BY <1>1, <3>2
    <3>. QED
      BY <3>1, <3>2
  <2>. QED
    BY <1>6, <2>1 DEF TilesAreTyped
<1>8. EachPhyTileHasOneRoot'
  BY <1>5, <1>6 DEF IInv, EachPhyTileHasOneRoot
<1>9. NoSiteIsDuplicated'
  <2> SUFFICES ASSUME NEW u \in Tiles, NEW v \in Tiles, u # v
               PROVE  grid'[u].sites \intersect grid'[v].sites = {}
    BY <1>6 DEF NoSiteIsDuplicated
  <2>1. CASE u \in Taken(new) /\ v \in Taken(new)
    <3>1. Index(new, u) # Index(new, v)
      BY <1>4, <2>1
    <3>2. \A s \in grid'[u].sites : map[s[2]] + 1 = Index(new, u)
      BY <1>5, <2>1
    <3>3. \A s \in grid'[v].sites : map[s[2]] + 1 = Index(new, v)
      BY <1>5, <2>1
    <3> HIDE DEF Index
    <3>. QED
      BY <3>1, <3>2, <3>3
  <2>2. \A w \in Taken(new), x \in Tiles : w \in Tiles /\ x \notin Taken(new) =>
          grid'[w].sites \intersect grid'[x].sites = {}
    BY <1>3, <1>5 DEF IInv, NoSiteIsDuplicated
  <2>3. CASE u \notin Taken(new) /\ v \notin Taken(new)
    BY <1>5, <2>3 DEF IInv, NoSiteIsDuplicated
  <2>. QED
    BY <2>1, <2>2, <2>3
<1>. QED
  BY <1>7, <1>8, <1>9 DEF IInv

(* An insertion adds tiles that have neither roots nor sites.              *)
LEMMA InsertIInv ==
  ASSUME LinksInv, IInv, NEW edge \in Tiles, NEW d \in Dir, InsertEmpty(edge, d)
  PROVE  IInv'
<1> DEFINE row == Walk(edge, SplitNext[d])
           n == Cardinality(Tiles)
           added == {n + i : i \in DOMAIN row}
           new(t) == [type |-> Empty, root |-> {}, phys |-> grid[row[t - n]].phys, sites |-> {},
                      split |-> FALSE]
<1>1. grid' = [t \in Tiles \union added |-> IF t \in Tiles THEN grid[t] ELSE new(t)]
  BY DEF InsertEmpty
<1>2. grid \in [Tiles -> Tile] /\ Empty \in Types
  BY GridAssumption DEF IInv, TilesAreTyped
<1>3. Tiles' = Tiles \union added
  BY <1>1 DEF Tiles
<1>4. /\ \A t \in Tiles : grid'[t] = grid[t]
      /\ \A t \in Tiles' \ Tiles : grid'[t].root = {} /\ grid'[t].sites = {} /\ grid'[t] \in Tile
  <2> SUFFICES ASSUME NEW t \in Tiles' \ Tiles
               PROVE  grid'[t].root = {} /\ grid'[t].sites = {} /\ grid'[t] \in Tile
    BY <1>1, <1>3
  <2> PICK i \in DOMAIN row : t = n + i
    BY <1>3
  <2>1. row[t - n] \in Tiles
    <3>1. row \in Seq(Tiles)
      <4>1. IsTop(edge, d) /\ row = Walk(edge, SplitNext[d])
        BY DEF InsertEmpty
      <4> HIDE DEF row
      <4>. QED
        BY <4>1, RowIsClosed
    <3>2. n \in Nat
      BY DEF LinksInv, Numbered
    <3> HIDE DEF row
    <3>3. i \in 1 .. Len(row) /\ t - n = i
      BY <3>1, <3>2
    <3>. QED
      BY <3>1, <3>3
  <2>. QED
    BY <1>1, <1>2, <1>3, <2>1 DEF Tile
<1>5. TilesAreTyped'
  <2>1. grid' = [t \in Tiles' |-> grid'[t]]
    BY <1>1, <1>3
  <2>2. \A t \in Tiles' : grid'[t] \in Tile
    BY <1>2, <1>3, <1>4
  <2>. QED
    BY <2>1, <2>2 DEF TilesAreTyped
<1>6. EachPhyTileHasOneRoot'
  <2> SUFFICES ASSUME NEW p \in PhyTiles
               PROVE  \E u \in Tiles' : p \in grid'[u].root /\ \A v \in Tiles' \ {u} : p \notin grid'[v].root
    BY DEF EachPhyTileHasOneRoot
  <2> PICK u \in Tiles : p \in grid[u].root /\ \A v \in Tiles \ {u} : p \notin grid[v].root
    BY DEF IInv, EachPhyTileHasOneRoot
  <2>. QED
    BY <1>3, <1>4
<1>7. NoSiteIsDuplicated'
  BY <1>3, <1>4 DEF IInv, NoSiteIsDuplicated
<1>. QED
  BY <1>5, <1>6, <1>7 DEF IInv

(* What raises, or stutters, leaves the tiles alone.                       *)
LEMMA SameGridIInv ==
  ASSUME IInv, grid' = grid
  PROVE  IInv'
BY DEF IInv, TilesAreTyped, EachPhyTileHasOneRoot, NoSiteIsDuplicated, Tiles

LEMMA NextIInv == LinksInv /\ IInv /\ [Next]_vars => IInv'
<1> SUFFICES ASSUME LinksInv, IInv, [Next]_vars PROVE IInv'
  OBVIOUS
<1>1. CASE UNCHANGED vars
  BY <1>1, SameGridIInv DEF vars
<1>2. CASE Next
  <2> PICK t \in Tiles, d \in Dir :
         \/ MergeInDir(t, d) \/ MergeInDirRaises(t, d)
         \/ InsertEmpty(t, d) \/ InsertEmptyRaises(t, d)
         \/ \E types \in SplitTypes : \E map \in SplitMaps(types) :
              SplitTile(t, types, d, map) \/ SplitTileRaises(t, types, d, map)
    BY <1>2 DEF Next
  <2>1. CASE MergeInDir(t, d)
    BY <2>1, MergeIInv
  <2>2. CASE InsertEmpty(t, d)
    BY <2>2, InsertIInv
  <2>3. ASSUME NEW types \in SplitTypes, NEW map \in SplitMaps(types),
               SplitTile(t, types, d, map)
        PROVE  IInv'
    BY <2>3, SplitIInv
  <2>4. ASSUME NEW types \in SplitTypes, NEW map \in SplitMaps(types),
               SplitTileRaises(t, types, d, map)
        PROVE  IInv'
    BY <2>4, SameGridIInv DEF SplitTileRaises
  <2>5. CASE MergeInDirRaises(t, d) \/ InsertEmptyRaises(t, d)
    BY <2>5, SameGridIInv DEF MergeInDirRaises, InsertEmptyRaises
  <2>. QED
    BY <2>1, <2>2, <2>3, <2>4, <2>5
<1>. QED
  BY <1>1, <1>2

LEMMA Invariance == Spec => []IInv
BY InitIInv, InitLinks, NextIInv, NextLinks, PTL DEF Spec
-----------------------------------------------------------------------------
(* Whatever sequence of merges, splits and insertions is applied to a grid *)
(* of any size, each phy_tile is the root of exactly one tile: what the    *)
(* docstring of Tile calls its invariant.                                  *)
THEOREM OneRoot == Spec => []EachPhyTileHasOneRoot
<1>1. IInv => EachPhyTileHasOneRoot
  BY DEF IInv
<1>. QED
  BY <1>1, Invariance, PTL

(* No such sequence puts a site in two tiles.                              *)
THEOREM SitesAreNotCopied == Spec => []NoSiteIsDuplicated
<1>1. IInv => NoSiteIsDuplicated
  BY DEF IInv
<1>. QED
  BY <1>1, Invariance, PTL
-----------------------------------------------------------------------------
(* Every tile keeps the fields of Tile, the tiles are numbered without a   *)
(* gap, and every link leads to a tile.                                    *)
THEOREM TypeCorrect == Spec => []TypeOK
<1> DEFINE Rest == raised \in {"nothing", "AssertionError", "KeyError", "IndexError"} /\ ops \in 0 .. MaxOps
<1>1. Init => Rest
  BY GridAssumption DEF Init
<1>2. Rest /\ [Next]_vars => Rest'
  <2> SUFFICES ASSUME Rest, [Next]_vars PROVE Rest'
    OBVIOUS
  <2>1. CASE UNCHANGED vars
    BY <2>1 DEF vars
  <2>2. CASE Next
    <3>1. ops' \in 0 .. MaxOps
      BY <2>2, GridAssumption DEF Next
    <3>2. PICK t \in Tiles, d \in Dir :
            \/ MergeInDir(t, d) \/ MergeInDirRaises(t, d)
            \/ InsertEmpty(t, d) \/ InsertEmptyRaises(t, d)
            \/ \E types \in SplitTypes : \E map \in SplitMaps(types) :
                 SplitTile(t, types, d, map) \/ SplitTileRaises(t, types, d, map)
      BY <2>2 DEF Next
    <3>3. ASSUME NEW types, NEW map, SplitTile(t, types, d, map) \/ SplitTileRaises(t, types, d, map)
          PROVE  raised' \in {raised, "AssertionError", "KeyError", "IndexError"}
      BY <3>3 DEF SplitTile, SplitTileRaises
    <3>4. raised' \in {raised, "AssertionError", "KeyError", "IndexError"}
      BY <3>2, <3>3 DEF MergeInDir, MergeInDirRaises, InsertEmpty, InsertEmptyRaises
    <3>. QED
      BY <3>1, <3>4
  <2>. QED
    BY <2>1, <2>2
<1>3. IInv /\ LinksInv /\ Rest => TypeOK
  BY DEF IInv, TilesAreTyped, LinksInv, Numbered, Linked, TypeOK
<1>4. Spec => []Rest
  <2> HIDE DEF Rest
  <2>. QED
    BY <1>1, <1>2, PTL DEF Spec
<1>. QED
  <2> HIDE DEF Rest
  <2>. QED
    BY <1>3, <1>4, Invariance, InitLinks, NextLinks, PTL DEF Spec
-----------------------------------------------------------------------------
(* The places of the ys of a style in their order: each y has its own, and *)
(* there are no others.                                                    *)
LEMMA RanksAreThePlaces ==
  ASSUME NEW ys \in SUBSET SiteYs
  PROVE  /\ IsFiniteSet(ys) /\ Cardinality(ys) \in Nat
         /\ \A y \in ys : Rank(ys, y) \in 0 .. Cardinality(ys) - 1
         /\ \A y, z \in ys : Rank(ys, y) = Rank(ys, z) => y = z
         /\ \A n \in 0 .. Cardinality(ys) - 1 : \E y \in ys : Rank(ys, y) = n
<1> DEFINE below(v) == {w \in ys : w < v}
           places == 0 .. Cardinality(ys) - 1
<1>1. ys \subseteq Nat /\ IsFiniteSet(ys)
  BY CallAssumption, GridAssumption, FS_Subset
<1>2. Cardinality(ys) \in Nat
  BY <1>1, FS_CardinalityType
<1>3. ASSUME NEW y \in ys
      PROVE  Rank(ys, y) \in places
  <2>1. below(y) \subseteq ys /\ y \notin below(y)
    BY <1>1
  <2>2. Cardinality(below(y)) \in Nat /\ Cardinality(below(y)) <= Cardinality(ys)
    BY <1>1, <2>1, FS_Subset, FS_CardinalityType
  <2>3. Cardinality(below(y)) # Cardinality(ys)
    BY <1>1, <2>1, FS_Subset
  <2>. QED
    BY <1>2, <2>2, <2>3 DEF Rank
<1>4. ASSUME NEW u \in ys, NEW v \in ys, u < v PROVE Rank(ys, u) # Rank(ys, v)
  <2>1. below(u) \subseteq below(v) /\ u \in below(v) /\ u \notin below(u)
    <3>1. u \in Nat /\ v \in Nat /\ \A w \in ys : w \in Nat
      BY <1>1
    <3>2. \A w \in ys : w < u => w < v
      BY <1>4, <3>1
    <3>3. ~(u < u)
      BY <3>1
    <3>. QED
      BY <1>4, <3>2, <3>3
  <2>2. IsFiniteSet(below(v))
    BY <1>1, FS_Subset
  <2>3. Cardinality(below(u)) # Cardinality(below(v))
    <3> HIDE DEF below
    <3>. QED
      BY <2>1, <2>2, FS_Subset
  <2>. QED
    BY <2>3 DEF Rank
<1>5. ASSUME NEW y \in ys, NEW z \in ys, Rank(ys, y) = Rank(ys, z) PROVE y = z
  <2>1. y < z \/ z < y \/ y = z
    BY <1>1
  <2>. QED
    BY <1>4, <1>5, <2>1
<1> DEFINE rank == [y \in ys |-> Rank(ys, y)]
<1>6. IsFiniteSet(places) /\ Cardinality(places) = Cardinality(ys)
  <2>1. IsFiniteSet(0 .. Cardinality(ys) - 1)
        /\ Cardinality(0 .. Cardinality(ys) - 1) = IF 0 > Cardinality(ys) - 1 THEN 0
                                                   ELSE Cardinality(ys) - 1 - 0 + 1
    BY <1>2, FS_Interval
  <2>. QED
    BY <1>2, <2>1
<1> HIDE DEF places, below
<1>7. rank \in Injection(ys, places)
  BY <1>3, <1>5 DEF Injection, IsInjective
<1>8. rank \in Surjection(ys, places)
  <2> HIDE DEF rank
  <2>. QED
    BY <1>6, <1>7, FS_Injection
<1>9. \A n \in places : \E y \in ys : rank[y] = n
  <2> HIDE DEF rank
  <2>. QED
    BY <1>8 DEF Surjection
<1>. QED
  BY <1>1, <1>2, <1>3, <1>5, <1>9 DEF places

(* The type that a style has for y is the one at the index for y, and the  *)
(* types of the style are those it has for its ys, each at one index.      *)
LEMMA TypesAndIndexes ==
  ASSUME NEW style \in Styles
  PROVE  /\ DOMAIN style \subseteq SiteYs
         /\ Cardinality(DOMAIN style) \in Nat
         /\ DOMAIN TypesOf(style) = 1 .. Cardinality(DOMAIN style)
         /\ Len(TypesOf(style)) = Cardinality(DOMAIN style)
         /\ YIndex(style) \in SplitMaps(TypesOf(style))
         /\ DOMAIN YIndex(style) = DOMAIN style
         /\ \A y \in DOMAIN style : TypesOf(style)[YIndex(style)[y] + 1] = style[y]
         /\ \A i \in DOMAIN TypesOf(style) : \E y \in DOMAIN style :
              YIndex(style)[y] + 1 = i /\ TypesOf(style)[i] = style[y]
<1> DEFINE ys == DOMAIN style
           c == Cardinality(ys)
<1>1. ys \subseteq SiteYs /\ style \in [ys -> Types]
  BY DEF Styles
<1> HIDE DEF ys
<1>2. /\ c \in Nat
      /\ \A y \in ys : Rank(ys, y) \in 0 .. c - 1
      /\ \A y, z \in ys : Rank(ys, y) = Rank(ys, z) => y = z
      /\ \A n \in 0 .. c - 1 : \E y \in ys : Rank(ys, y) = n
  BY <1>1, RanksAreThePlaces
<1> HIDE DEF c
<1>3. TypesOf(style) = [i \in 1 .. c |-> style[CHOOSE y \in ys : Rank(ys, y) = i - 1]]
  BY DEF TypesOf, ys, c
<1>4. DOMAIN TypesOf(style) = 1 .. c /\ Len(TypesOf(style)) = c
  BY <1>2, <1>3
<1>5. YIndex(style) = [y \in ys |-> Rank(ys, y)]
  BY DEF YIndex, ys
<1>6. ASSUME NEW y \in ys
      PROVE  /\ YIndex(style)[y] + 1 \in 1 .. c
             /\ TypesOf(style)[YIndex(style)[y] + 1] = style[y]
  <2> DEFINE i == Rank(ys, y) + 1
  <2>1. i \in 1 .. c /\ i - 1 = Rank(ys, y) /\ YIndex(style)[y] + 1 = i
    BY <1>2, <1>5
  <2> HIDE DEF i
  <2>2. (CHOOSE z \in ys : Rank(ys, z) = i - 1) = y
    BY <1>2, <2>1
  <2>3. TypesOf(style)[i] = style[CHOOSE z \in ys : Rank(ys, z) = i - 1]
    BY <1>3, <2>1
  <2>. QED
    BY <2>1, <2>2, <2>3
<1>7. ASSUME NEW i \in 1 .. c
      PROVE  \E y \in ys : YIndex(style)[y] + 1 = i /\ TypesOf(style)[i] = style[y]
  <2>1. i - 1 \in 0 .. c - 1
    BY <1>2
  <2>2. PICK y \in ys : Rank(ys, y) = i - 1
    BY <1>2, <2>1
  <2>3. YIndex(style)[y] + 1 = i
    BY <1>2, <1>5, <2>2
  <2>. QED
    BY <1>6, <2>3
<1>8. YIndex(style) \in SplitMaps(TypesOf(style))
  <2>1. YIndex(style) \in [ys -> 0 .. c - 1]
    BY <1>2, <1>5
  <2>. QED
    BY <1>1, <1>4, <2>1 DEF SplitMaps
<1>9. DOMAIN YIndex(style) = ys
  BY <1>5
<1>. QED
  BY <1>1, <1>2, <1>4, <1>6, <1>7, <1>8, <1>9 DEF ys, c
-----------------------------------------------------------------------------
(* The loops of merge_tile_type and split_tile_type, driven as in          *)
(* create_vpr_grid.  The calls they have left are some of those they began *)
(* with.                                                                   *)
DriverTyped ==
  /\ merges \in Seq(Types \X Dir)
  /\ splits \in Seq(Types \X Dir \X Styles)
  /\ \A j \in DOMAIN splits : \E i \in DOMAIN Splits : splits[j] = Splits[i]
  /\ tops \in Seq(Tiles)
  /\ top \in Tiles \union {None}
  /\ top # None \/ tops # << >> => splits # << >>

(* The call of split_tile_type that is being done.                         *)
LEMMA TheCall ==
  ASSUME DriverTyped, splits # << >>
  PROVE  /\ \E i \in DOMAIN Splits : Splits[i] = Head(splits)
         /\ SplitType \in Types /\ SplitDir \in Dir /\ SplitStyle \in Styles
         /\ DOMAIN SplitStyle = YsOf[SplitType]
         /\ SplitInto \in SplitTypes
<1>1. 1 \in DOMAIN splits /\ Head(splits) = splits[1] /\ splits[1] \in Types \X Dir \X Styles
  BY DEF DriverTyped
<1>2. PICK i \in DOMAIN Splits : Splits[i] = Head(splits)
  BY <1>1 DEF DriverTyped
<1>3. DOMAIN Splits[i][3] = YsOf[Splits[i][1]] /\ TypesOf(Splits[i][3]) \in SplitTypes
  BY CallAssumption
<1>. QED
  BY <1>1, <1>2, <1>3 DEF SplitType, SplitDir, SplitStyle, SplitInto

LEMMA InitTyped == DriverInit => DriverTyped
BY CallAssumption DEF DriverInit, DriverTyped

LEMMA InitMaps == DriverInit => Init
BY CallAssumption DEF DriverInit, GridInit, Init

(* Operations never take a tile away.                                      *)
LEMMA TilesOnlyGrow ==
  ASSUME NEW t, NEW d, NEW types, NEW map,
         \/ MergeInDir(t, d) \/ MergeInDirRaises(t, d)
         \/ InsertEmpty(t, d) \/ InsertEmptyRaises(t, d)
         \/ SplitTile(t, types, d, map) \/ SplitTileRaises(t, types, d, map)
  PROVE  Tiles \subseteq Tiles'
<1>1. CASE MergeInDir(t, d)
  BY <1>1 DEF MergeInDir, Tiles
<1>2. CASE InsertEmpty(t, d)
  BY <1>2 DEF InsertEmpty, Tiles
<1>3. CASE SplitTile(t, types, d, map)
  BY <1>3 DEF SplitTile, Tiles
<1>4. CASE SplitTileRaises(t, types, d, map) \/ MergeInDirRaises(t, d) \/ InsertEmptyRaises(t, d)
  BY <1>4 DEF SplitTileRaises, MergeInDirRaises, InsertEmptyRaises, Tiles
<1>. QED
  BY <1>1, <1>2, <1>3, <1>4

(* What a tile SplitNextTile splits is: one of the row of top, the first   *)
(* that has the type.                                                      *)
SplitsOne(t) ==
  \/ SplitTile(t, SplitInto, SplitDir, YIndex(SplitStyle))
  \/ SplitTileRaises(t, SplitInto, SplitDir, YIndex(SplitStyle))

LEMMA TheTileToSplit ==
  ASSUME LinksInv, DriverTyped, SplitNextTile
  PROVE  \E t \in Tiles : grid[t].type = SplitType /\ SplitsOne(t)
<1>1. top \in Tiles
  BY DEF SplitNextTile, DriverTyped
<1>2. PICK row \in {Walk(top, SplitNext[SplitDir])} : \E i \in ToSplit(row) : SplitsOne(row[i])
  BY DEF SplitNextTile, SplitsOne
<1>3. row \in Seq(Tiles)
  BY <1>1, <1>2, WalkIsASeq
<1>4. PICK i \in DOMAIN row : grid[row[i]].type = SplitType /\ SplitsOne(row[i])
  BY <1>2 DEF ToSplit
<1>5. row[i] \in Tiles
  BY <1>3
<1>. QED
  BY <1>4, <1>5

(* The bottom of a row, and the tile that its top is taken for.            *)
LEMMA FoundRow ==
  ASSUME LinksInv, DriverTyped, FindRow
  PROVE  \E t \in Tiles :
           LET a == SplitNext[SplitDir]
               bottom == Last(Walk(t, a))
               row == Walk(bottom, Opposite[a])
           IN  /\ bottom \in Tiles /\ row \in Seq(Tiles) /\ Last(row) \in Tiles
               /\ seen' = seen \union ToSet(row) /\ tops' = Append(tops, Last(row))
<1>1. PICK t \in Tiles :
        LET row == Walk(Last(Walk(t, SplitNext[SplitDir])), Opposite[SplitNext[SplitDir]])
        IN  seen' = seen \union ToSet(row) /\ tops' = Append(tops, Last(row))
  BY DEF FindRow, ItemsOf, TopOf
<1> DEFINE a == SplitNext[SplitDir]
           bottom == Last(Walk(t, a))
           row == Walk(bottom, Opposite[a])
<1>2. bottom \in Tiles
  <2>1. Walk(t, a) \in Seq(Tiles) /\ Len(Walk(t, a)) \in Nat \ {0}
    BY WalkIsASeq
  <2>. QED
    BY <2>1 DEF Last
<1> HIDE DEF bottom
<1>3. row \in Seq(Tiles) /\ Len(row) \in Nat \ {0}
  BY <1>2, WalkIsASeq
<1>4. Last(row) \in Tiles
  <2> HIDE DEF row
  <2>. QED
    BY <1>3 DEF Last
<1>. QED
  BY <1>1, <1>2, <1>3, <1>4 DEF bottom

(* One step of the driver is one operation on the grid, or none, and keeps *)
(* its types.                                                              *)
LEMMA StepMaps ==
  ASSUME LinksInv, DriverTyped, DriverNext
  PROVE  [Next]_vars /\ DriverTyped'
<1>1. CASE MergeTile
  <2>1. merges # << >> /\ Head(merges)[2] \in Dir
    BY <1>1 DEF MergeTile, DriverTyped
  <2> PICK t \in Tiles : MergeInDir(t, Head(merges)[2]) \/ MergeInDirRaises(t, Head(merges)[2])
    BY <1>1 DEF MergeTile, ItemsOf
  <2>2. Next
    BY <1>1, <2>1 DEF MergeTile, Operating, Next
  <2>3. Tiles \subseteq Tiles' /\ UNCHANGED driver
    BY <1>1, TilesOnlyGrow DEF MergeTile
  <2>. QED
    BY <2>2, <2>3 DEF driver, DriverTyped
<1>2. CASE InsertRow
  <2>1. top \in Tiles /\ SplitDir \in Dir
    BY <1>2, TheCall DEF InsertRow, DriverTyped
  <2>2. Next
    BY <1>2, <2>1 DEF InsertRow, Operating, Next
  <2>3. Tiles \subseteq Tiles' /\ UNCHANGED <<merges, splits, tops, top>>
    BY <1>2, TilesOnlyGrow DEF InsertRow
  <2>. QED
    BY <2>2, <2>3 DEF DriverTyped
<1>3. CASE SplitNextTile
  <2>1. SplitDir \in Dir /\ SplitInto \in SplitTypes /\ SplitStyle \in Styles
    BY <1>3, TheCall DEF SplitNextTile, DriverTyped
  <2>2. YIndex(SplitStyle) \in SplitMaps(SplitInto)
    BY <2>1, TypesAndIndexes DEF SplitInto
  <2> PICK t \in Tiles : SplitsOne(t)
    BY <1>3, TheTileToSplit
  <2>3. Next
    BY <1>3, <2>1, <2>2 DEF SplitNextTile, SplitsOne, Operating, Next
  <2>4. Tiles \subseteq Tiles' /\ UNCHANGED driver
    BY <1>3, TilesOnlyGrow DEF SplitNextTile, SplitsOne
  <2>. QED
    BY <2>3, <2>4 DEF driver, DriverTyped
<1>4. CASE EndMerge
  <2>1. merges' \in Seq(Types \X Dir)
    BY <1>4 DEF EndMerge, DriverTyped
  <2>. QED
    BY <1>4, <2>1 DEF EndMerge, vars, DriverTyped, Tiles
<1>5. CASE FindRow
  <2>1. splits # << >> /\ UNCHANGED <<vars, merges, splits, top>>
    BY <1>5 DEF FindRow, Splitting
  <2>2. PICK t \in Tiles : tops' = Append(tops, t)
    BY <1>5, FoundRow
  <2>3. tops' \in Seq(Tiles)
    BY <2>2 DEF DriverTyped
  <2>. QED
    BY <2>1, <2>3 DEF vars, DriverTyped, Tiles
<1>6. CASE StartRow
  <2>1. Head(tops) \in Tiles /\ Tail(tops) \in Seq(Tiles)
    BY <1>6 DEF StartRow, DriverTyped
  <2>. QED
    BY <1>6, <2>1 DEF StartRow, Splitting, vars, DriverTyped, Tiles
<1>7. CASE EndSplit
  <2>1. splits' = Tail(splits) /\ splits # << >> /\ splits \in Seq(Types \X Dir \X Styles)
    BY <1>7 DEF EndSplit, Splitting, DriverTyped
  <2>2. splits' \in Seq(Types \X Dir \X Styles)
        /\ \A j \in DOMAIN splits' : j + 1 \in DOMAIN splits /\ splits'[j] = splits[j + 1]
    BY <2>1
  <2>3. UNCHANGED <<vars, merges, tops, top>> /\ top = None /\ tops = << >>
    BY <1>7 DEF EndSplit
  <2>. QED
    BY <2>2, <2>3 DEF vars, DriverTyped, Tiles
<1>8. CASE EndFind \/ EndRow \/ AssignWires
  <2>1. UNCHANGED <<vars, merges, splits, tops>> /\ top' \in {top, None}
    BY <1>8 DEF EndFind, EndRow, AssignWires
  <2>. QED
    BY <2>1 DEF vars, DriverTyped, Tiles
<1>. QED
  BY <1>1, <1>2, <1>3, <1>4, <1>5, <1>6, <1>7, <1>8 DEF DriverNext

LEMMA StutterTyped ==
  ASSUME DriverTyped, UNCHANGED <<vars, driver>>
  PROVE  [Next]_vars /\ DriverTyped'
BY DEF DriverTyped, vars, driver, Tiles

LEMMA DriverInvariance == DriverSpec => [](DriverTyped /\ LinksInv) /\ Spec
<1>1. DriverTyped /\ LinksInv /\ [DriverNext]_<<vars, driver>> => [Next]_vars /\ DriverTyped'
  BY StepMaps, StutterTyped
<1>. QED
  BY <1>1, InitTyped, InitMaps, InitLinks, NextLinks, PTL DEF DriverSpec, Spec

(* Each phy_tile is the root of one tile of the VPR grid, so the wires of  *)
(* no site, which create_vpr_grid hands out by root, get one tile each.    *)
THEOREM DriverOneRoot == DriverSpec => []EachPhyTileHasOneRoot
BY DriverInvariance, OneRoot, PTL

(* Nor do the loops put a site in two tiles.                               *)
THEOREM DriverSitesAreNotCopied == DriverSpec => []NoSiteIsDuplicated
BY DriverInvariance, SitesAreNotCopied, PTL

(* However many rows split_in_dir inserts to make room, the VPR grid is    *)
(* linked as a rectangle.                                                  *)
THEOREM DriverLinksAreARectangle == DriverSpec => []MeshIsRectangular
BY DriverInvariance, LinksAreARectangle, PTL
-----------------------------------------------------------------------------
(* Tiles are split after all merges only.                                  *)
SplitsComeLast ==
  merges # << >> => top = None /\ \A t \in Tiles : ~grid[t].split

SitesHaveTheirType ==
  \A t \in Tiles : grid[t].split =>
    \A s \in grid[t].sites : \E i \in DOMAIN Splits : grid[t].type = Splits[i][3][s[2]]

SitesInv == SplitsComeLast /\ SitesHaveTheirType

LEMMA SitesInit == DriverInit => SitesInv
<1> SUFFICES ASSUME DriverInit PROVE SitesInv
  OBVIOUS
<1>1. \A t \in Tiles : ~grid[t].split
  BY DEF DriverInit, GridInit, Tiles, PhysicalTile
<1>. QED
  BY <1>1 DEF DriverInit, SitesInv, SplitsComeLast, SitesHaveTheirType

(* What the operations do to the tiles.                                    *)
LEMMA MergedTiles ==
  ASSUME IInv, NEW t \in Tiles, NEW d \in Dir, MergeInDir(t, d)
  PROVE  /\ Tiles' = Tiles
         /\ \A u \in Tiles : grid'[u].split = grid[u].split
         /\ \A u \in Tiles \ {t} :
              /\ grid'[u].type = grid[u].type
              /\ grid[u].phys \subseteq grid'[u].phys /\ grid'[u].phys \subseteq grid[u].phys \union grid[t].phys
              /\ grid[u].sites \subseteq grid'[u].sites
         /\ grid'[t].type = Empty /\ grid'[t].phys \subseteq grid[t].phys
<1> PICK into \in Tiles : grid' = [grid EXCEPT ![t] = EmptiedTile(t),
                                               ![into].root = @ \union grid[t].root,
                                               ![into].phys = @ \union grid[t].phys,
                                               ![into].sites = @ \union grid[t].sites]
  BY DEF MergeInDir
<1>1. grid \in [Tiles -> Tile] /\ Empty \in Types
  BY GridAssumption DEF IInv, TilesAreTyped
<1>2. /\ EmptiedTile(t) \in Tile
      /\ EmptiedTile(t).type = Empty /\ EmptiedTile(t).split = grid[t].split
      /\ EmptiedTile(t).phys = {}
  BY <1>1 DEF EmptiedTile, Tile
<1> HIDE DEF EmptiedTile
<1>3. DOMAIN grid' = Tiles
  BY <1>1
<1>4. \A u \in Tiles \ {t, into} : grid'[u] = grid[u]
  BY <1>1
<1>5. CASE t # into
  <2>1. grid'[t] = EmptiedTile(t)
    BY <1>1, <1>5
  <2>2. /\ grid'[into].type = grid[into].type /\ grid'[into].split = grid[into].split
        /\ grid'[into].phys = grid[into].phys \union grid[t].phys
        /\ grid'[into].sites = grid[into].sites \union grid[t].sites
    BY <1>1, <1>5 DEF Tile
  <2>. QED
    BY <1>2, <1>3, <1>4, <2>1, <2>2 DEF Tiles
<1>6. CASE t = into
  <2>1. grid'[t].type = Empty /\ grid'[t].split = grid[t].split /\ grid'[t].phys = grid[t].phys
    BY <1>1, <1>2, <1>6 DEF Tile
  <2>. QED
    BY <1>3, <1>4, <1>6, <2>1 DEF Tiles
<1>. QED
  BY <1>5, <1>6

LEMMA InsertedTiles ==
  ASSUME NEW edge, NEW d, InsertEmpty(edge, d)
  PROVE  /\ Tiles \subseteq Tiles' /\ \A t \in Tiles : grid'[t] = grid[t]
         /\ \A t \in Tiles' \ Tiles : grid'[t].type = Empty /\ ~grid'[t].split
BY DEF InsertEmpty, Tiles

(* The n tiles that a split takes, and what they and the others are then.  *)
IndexIn(new, u) == CHOOSE i \in DOMAIN new : new[i] = u

TakesTiles(n, new, t, types, d, map) ==
  /\ new \in [1 .. n -> Tiles]
  /\ TakenBySplit(new, t, types, d)
  /\ \A i \in 1 .. n : new[i] # t => grid[new[i]].type = Empty
  /\ \A s \in grid[t].sites : s[2] \in DOMAIN map /\ map[s[2]] < n
  /\ Tiles' = Tiles
  /\ \A u \in Tiles : (\A i \in 1 .. n : new[i] # u) => grid'[u] = grid[u]
  /\ \A i \in 1 .. n :
       LET u == new[i]
       IN  /\ grid'[u].type = types[IndexIn(new, u)]
           /\ grid'[u].phys = grid[t].phys /\ grid'[u].split
           /\ grid'[u].sites = {s \in grid[t].sites : map[s[2]] + 1 = IndexIn(new, u)}
  /\ \A i \in 1 .. n : IndexIn(new, new[i]) \in 1 .. n /\ new[IndexIn(new, new[i])] = new[i]
  /\ new[1] = t

LEMMA TakenTiles ==
  ASSUME IInv, NEW t \in Tiles, NEW types \in SplitTypes, NEW d, NEW map,
         SplitTile(t, types, d, map)
  PROVE  \E n \in 1 .. Len(types) : \E new : TakesTiles(n, new, t, types, d, map)
<1> PICK new \in NewTiles(types) :
      /\ TakenBySplit(new, t, types, d)
      /\ \A u \in {new[i] : i \in DOMAIN new} \ {t} : grid[u].type = Empty
      /\ \A s \in grid[t].sites : s[2] \in DOMAIN map /\ map[s[2]] < Len(new)
      /\ grid' = [u \in Tiles |->
           IF u \in {new[i] : i \in DOMAIN new}
           THEN [type |-> types[IndexIn(new, u)], root |-> grid[u].root, phys |-> grid[t].phys,
                 sites |-> {s \in grid[t].sites : map[s[2]] + 1 = IndexIn(new, u)},
                 split |-> TRUE]
           ELSE grid[u]]
  BY DEF SplitTile, IndexIn
<1>1. types \in Seq(Types) /\ Len(types) \in Nat
  BY GridAssumption
<1>2. PICK n \in 1 .. Len(types) : new \in [1 .. n -> Tiles]
  BY DEF NewTiles
<1>3. n >= 1 /\ DOMAIN new = 1 .. n /\ Len(new) = n /\ new[1] = t
  BY <1>1, <1>2 DEF TakenBySplit
<1>4. \A i \in 1 .. n : IndexIn(new, new[i]) \in 1 .. n /\ new[IndexIn(new, new[i])] = new[i]
  BY <1>3 DEF IndexIn
<1>5. \A i \in 1 .. n : new[i] # t => grid[new[i]].type = Empty
  BY <1>3
<1>6. \A s \in grid[t].sites : s[2] \in DOMAIN map /\ map[s[2]] < n
  BY <1>3
<1>7. Tiles' = Tiles
  BY DEF Tiles
<1>8. \A u \in Tiles : (\A i \in 1 .. n : new[i] # u) => grid'[u] = grid[u]
  BY <1>3
<1>9. ASSUME NEW i \in 1 .. n
      PROVE  LET u == new[i]
             IN  /\ grid'[u].type = types[IndexIn(new, u)]
                 /\ grid'[u].phys = grid[t].phys /\ grid'[u].split
                 /\ grid'[u].sites = {s \in grid[t].sites : map[s[2]] + 1 = IndexIn(new, u)}
  <2>1. new[i] \in Tiles /\ new[i] \in {new[k] : k \in DOMAIN new}
    BY <1>2, <1>3
  <2>. QED
    BY <2>1
<1>. QED
  BY <1>2, <1>3, <1>4, <1>5, <1>6, <1>7, <1>8, <1>9 DEF TakesTiles

LEMMA SitesStep ==
  DriverTyped /\ LinksInv /\ IInv /\ SitesInv /\ [DriverNext]_<<vars, driver>> => SitesInv'
<1> SUFFICES ASSUME DriverTyped, LinksInv, IInv, SitesInv, [DriverNext]_<<vars, driver>> PROVE SitesInv'
  OBVIOUS
<1> USE DEF SitesInv
<1>1. ASSUME UNCHANGED grid PROVE Tiles' = Tiles /\ SitesHaveTheirType'
  BY <1>1 DEF SitesHaveTheirType, Tiles
<1>2. CASE MergeTile
  <2>1. UNCHANGED <<merges, top>> /\ merges # << >> /\ Head(merges)[2] \in Dir
    BY <1>2 DEF MergeTile, driver, DriverTyped
  <2> PICK t \in Tiles : MergeInDir(t, Head(merges)[2]) \/ MergeInDirRaises(t, Head(merges)[2])
    BY <1>2 DEF MergeTile, ItemsOf
  <2>2. Tiles' = Tiles /\ \A u \in Tiles : ~grid'[u].split
    <3>1. \A u \in Tiles : ~grid[u].split
      BY <2>1 DEF SplitsComeLast
    <3>2. CASE MergeInDir(t, Head(merges)[2])
      BY <2>1, <3>1, <3>2, MergedTiles
    <3>3. CASE MergeInDirRaises(t, Head(merges)[2])
      BY <3>1, <3>3 DEF MergeInDirRaises, Tiles
    <3>. QED
      BY <3>2, <3>3
  <2>. QED
    BY <2>1, <2>2 DEF SplitsComeLast, SitesHaveTheirType
<1>3. CASE EndMerge
  <2>1. UNCHANGED <<grid, top>> /\ merges # << >>
    BY <1>3 DEF EndMerge, vars
  <2>. QED
    BY <1>1, <2>1 DEF SplitsComeLast
<1>4. CASE FindRow \/ EndFind \/ StartRow \/ EndRow \/ EndSplit \/ AssignWires \/ UNCHANGED <<vars, driver>>
  <2>1. UNCHANGED <<grid, merges>>
    BY <1>4 DEF FindRow, EndFind, StartRow, EndRow, EndSplit, AssignWires, vars, driver
  <2>2. merges # << >> => UNCHANGED top
    BY <1>4 DEF FindRow, EndFind, StartRow, EndRow, EndSplit, AssignWires, Splitting, driver, SplitsComeLast
  <2>. QED
    BY <1>1, <2>1, <2>2 DEF SplitsComeLast
<1>5. CASE InsertRow
  <2>1. UNCHANGED <<merges, top>> /\ top # None /\ top \in Tiles /\ SplitDir \in Dir
    BY <1>5, TheCall DEF InsertRow, DriverTyped
  <2>2. CASE InsertEmpty(top, SplitDir)
    <3>1. \A t \in Tiles' : (t \in Tiles /\ grid'[t] = grid[t]) \/ ~grid'[t].split
      BY <2>1, <2>2, InsertedTiles
    <3>. QED
      BY <2>1, <3>1 DEF SplitsComeLast, SitesHaveTheirType
  <2>3. CASE InsertEmptyRaises(top, SplitDir)
    BY <1>1, <2>1, <2>3 DEF InsertEmptyRaises, SplitsComeLast
  <2>. QED
    BY <1>5, <2>2, <2>3 DEF InsertRow
<1>6. CASE SplitNextTile
  <2>1. UNCHANGED <<merges, top>> /\ top # None /\ splits # << >>
    BY <1>6 DEF SplitNextTile, driver, DriverTyped
  <2>2. SplitsComeLast'
    BY <2>1 DEF SplitsComeLast
  <2>3. /\ SplitDir \in Dir /\ SplitInto \in SplitTypes /\ SplitStyle \in Styles
        /\ \E i \in DOMAIN Splits : Splits[i][3] = SplitStyle
    BY <2>1, TheCall DEF SplitStyle
  <2> PICK t \in Tiles : SplitsOne(t)
    BY <1>6, TheTileToSplit
  <2>4. CASE SplitTile(t, SplitInto, SplitDir, YIndex(SplitStyle))
    <3> DEFINE map == YIndex(SplitStyle)
    <3>1. PICK n \in 1 .. Len(SplitInto) : \E new : TakesTiles(n, new, t, SplitInto, SplitDir, map)
      BY <2>3, <2>4, TakenTiles
    <3>2. PICK new : TakesTiles(n, new, t, SplitInto, SplitDir, map)
      BY <3>1
    <3>3. /\ DOMAIN map = DOMAIN SplitStyle
          /\ \A y \in DOMAIN SplitStyle : SplitInto[map[y] + 1] = SplitStyle[y]
      BY <2>3, TypesAndIndexes DEF SplitInto
    <3> HIDE DEF map
    <3>4. ASSUME NEW u \in Tiles, grid'[u].split, NEW s \in grid'[u].sites
          PROVE  \E j \in DOMAIN Splits : grid'[u].type = Splits[j][3][s[2]]
      <4>1. CASE \E i \in 1 .. n : new[i] = u
        <5>1. /\ grid'[u].type = SplitInto[IndexIn(new, u)]
              /\ s \in grid[t].sites /\ map[s[2]] + 1 = IndexIn(new, u) /\ s[2] \in DOMAIN map
          BY <3>2, <3>4, <4>1 DEF TakesTiles
        <5>2. grid'[u].type = SplitStyle[s[2]]
          BY <3>3, <5>1
        <5>. QED
          BY <2>3, <5>2
      <4>2. CASE \A i \in 1 .. n : new[i] # u
        BY <3>2, <3>4, <4>2 DEF TakesTiles, SitesHaveTheirType
      <4>. QED
        BY <4>1, <4>2
    <3>. QED
      BY <2>2, <3>2, <3>4 DEF TakesTiles, SitesHaveTheirType
  <2>5. CASE SplitTileRaises(t, SplitInto, SplitDir, YIndex(SplitStyle))
    BY <1>1, <2>2, <2>5 DEF SplitTileRaises
  <2>. QED
    BY <2>4, <2>5 DEF SplitsOne
<1>. QED
  BY <1>2, <1>3, <1>4, <1>5, <1>6 DEF DriverNext

(* Whatever is merged and split in which order, the sites of a split tile  *)
(* have the type made for their y.                                         *)
THEOREM SitesKeepTheirY == DriverSpec => []SitesFollowTheirY
<1>1. SitesInv => SitesFollowTheirY
  BY DEF SitesInv, SitesHaveTheirType, SitesFollowTheirY
<1>. QED
  BY <1>1, DriverInvariance, SitesInit, SitesStep, Invariance, PTL DEF DriverSpec
-----------------------------------------------------------------------------
(* All tiles of a row have a neighbour across it, or none has.             *)
LEMMA RowsAreAlike ==
  ASSUME LinksInv, NEW t \in Tiles, NEW e \in Dir, NEW row, IsRow(row, t, e),
         NEW f \in Dir \ {e, Opposite[e]}
  PROVE  \A i \in DOMAIN row : row[i] \in Tiles /\ (f \in DOMAIN neighboors[row[i]] <=> f \in DOMAIN neighboors[t])
<1>1. /\ Len(row) \in Nat /\ DOMAIN row = 1 .. Len(row) /\ row[1] = t
      /\ \A i \in DOMAIN row : row[i] \in Tiles
  BY DEF IsRow
<1>2. \A i \in DOMAIN row : i < Len(row) =>
        e \in DOMAIN neighboors[row[i]] /\ neighboors[row[i]][e] = row[i + 1]
  BY DEF IsRow
<1> DEFINE Alike(i) == f \in DOMAIN neighboors[row[i]] <=> f \in DOMAIN neighboors[t]
           S == {n \in Nat : n + 1 \in DOMAIN row => Alike(n + 1)}
<1>3. 0 \in S
  BY <1>1
<1>4. ASSUME NEW n \in Nat, n \in S PROVE n + 1 \in S
  <2> SUFFICES ASSUME n + 2 \in DOMAIN row PROVE Alike(n + 2)
    OBVIOUS
  <2>1. n + 1 \in DOMAIN row /\ n + 1 < Len(row) /\ (n + 1) + 1 = n + 2
    BY <1>1
  <2>2. Alike(n + 1)
    BY <1>4, <2>1
  <2>3. /\ e \in DOMAIN neighboors[row[n + 1]] /\ neighboors[row[n + 1]][e] = row[n + 2]
        /\ row[n + 1] \in Tiles
    BY <1>1, <1>2, <2>1
  <2>4. f \in DOMAIN neighboors[row[n + 1]] <=> f \in DOMAIN neighboors[row[n + 2]]
    BY <2>3 DEF LinksInv, MeshIsRectangular
  <2>. QED
    BY <2>2, <2>4
<1> HIDE DEF S
<1>5. Nat \subseteq S
  BY <1>3, <1>4, EveryNatural
<1>6. ASSUME NEW i \in DOMAIN row PROVE Alike(i)
  <2>1. i - 1 \in Nat /\ (i - 1) + 1 = i
    BY <1>1
  <2>. QED
    BY <1>5, <2>1 DEF S
<1>. QED
  BY <1>1, <1>6

(* The tiles across from those of a row are a row.                         *)
LEMMA RowBeside ==
  ASSUME LinksInv, NEW t \in Tiles, NEW e \in Dir, NEW row, IsRow(row, t, e),
         NEW f \in Dir \ {e, Opposite[e]}, f \in DOMAIN neighboors[t]
  PROVE  IsRow([i \in DOMAIN row |-> neighboors[row[i]][f]], neighboors[t][f], e)
<1> DEFINE beside == [i \in DOMAIN row |-> neighboors[row[i]][f]]
<1>1. /\ Len(row) \in Nat /\ DOMAIN row = 1 .. Len(row) /\ Len(row) >= 1 /\ row[1] = t
  BY DEF IsRow
<1>2. \A i \in DOMAIN row : row[i] \in Tiles /\ f \in DOMAIN neighboors[row[i]]
  BY RowsAreAlike
<1>3. \A i \in DOMAIN row : neighboors[row[i]][f] \in Tiles
  BY <1>2 DEF LinksInv, Linked
<1>4. beside \in Seq(Tiles) /\ Len(beside) = Len(row) /\ DOMAIN beside = DOMAIN row
      /\ beside[1] = neighboors[t][f]
  BY <1>1, <1>3
<1>5. \A i \in DOMAIN row : /\ Opposite[f] \in DOMAIN neighboors[beside[i]]
                            /\ neighboors[beside[i]][Opposite[f]] = row[i]
  BY <1>2 DEF LinksInv, MeshIsRectangular
<1>6. \A i, j \in DOMAIN row : row[i] = row[j] => i = j
  BY DEF IsRow
<1>7. \A i, j \in DOMAIN beside : beside[i] = beside[j] => i = j
  <2> HIDE DEF beside
  <2>. QED
    BY <1>4, <1>5, <1>6
<1>8. e \in Dir \ {f, Opposite[f]}
  BY DEF Dir, Opposite
<1>9. ASSUME NEW i \in DOMAIN row
      PROVE  IF i < Len(row)
             THEN e \in DOMAIN neighboors[beside[i]] /\ neighboors[beside[i]][e] = beside[i + 1]
             ELSE e \notin DOMAIN neighboors[beside[i]]
  <2>1. /\ e \in DOMAIN neighboors[row[i]] <=> e \in DOMAIN neighboors[beside[i]]
        /\ e \in DOMAIN neighboors[row[i]] =>
             neighboors[neighboors[row[i]][e]][f] = neighboors[beside[i]][e]
    BY <1>2, <1>8 DEF LinksInv, MeshIsRectangular
  <2>2. IF i < Len(row) THEN e \in DOMAIN neighboors[row[i]] /\ neighboors[row[i]][e] = row[i + 1]
                        ELSE e \notin DOMAIN neighboors[row[i]]
    BY DEF IsRow
  <2>3. i < Len(row) => i + 1 \in DOMAIN row
    BY <1>1
  <2>. QED
    BY <2>1, <2>2, <2>3
<1> HIDE DEF beside
<1>10. IsRow(beside, neighboors[t][f], e)
  BY <1>1, <1>4, <1>7, <1>9 DEF IsRow
<1>. QED
  BY <1>10 DEF beside

(* Walked back from its end, a row is a row.                               *)
LEMMA RowBack ==
  ASSUME LinksInv, NEW t \in Tiles, NEW e \in Dir, NEW row, IsRow(row, t, e),
         Opposite[e] \notin DOMAIN neighboors[t]
  PROVE  /\ Last(row) \in Tiles /\ e \notin DOMAIN neighboors[Last(row)]
         /\ IsRow(Reverse(row), Last(row), Opposite[e])
         /\ \A u : InRow(Reverse(row), u) <=> InRow(row, u)
<1> DEFINE n == Len(row)
           back == [i \in 1 .. n |-> row[(n - i) + 1]]
<1>1. n \in Nat /\ n >= 1 /\ DOMAIN row = 1 .. n /\ row[1] = t /\ \A i \in 1 .. n : row[i] \in Tiles
  BY DEF IsRow
<1>2. \A i \in 1 .. n : i < n => e \in DOMAIN neighboors[row[i]] /\ neighboors[row[i]][e] = row[i + 1]
  BY <1>1 DEF IsRow
<1>3. e \notin DOMAIN neighboors[row[n]] /\ Last(row) = row[n]
  BY <1>1 DEF IsRow, Last
<1>4. \A i, j \in 1 .. n : row[i] = row[j] => i = j
  BY <1>1 DEF IsRow
<1>5. Reverse(row) = back
  BY DEF Reverse
<1> HIDE DEF n
<1>6. \A i \in 1 .. n : (n - i) + 1 \in 1 .. n /\ (n - ((n - i) + 1)) + 1 = i
  BY <1>1
<1>7. back \in Seq(Tiles) /\ Len(back) = n /\ DOMAIN back = 1 .. n /\ back[1] = row[n]
  <2>1. (n - 1) + 1 = n
    BY <1>1
  <2>2. \A i \in 1 .. n : back[i] \in Tiles
    BY <1>1, <1>6
  <2>3. 1 \in 1 .. n
    BY <1>1
  <2>. QED
    BY <1>1, <2>1, <2>2, <2>3
<1>8. \A i, j \in 1 .. n : back[i] = back[j] => i = j
  <2> SUFFICES ASSUME NEW i \in 1 .. n, NEW j \in 1 .. n, back[i] = back[j] PROVE i = j
    OBVIOUS
  <2>1. (n - i) + 1 = (n - j) + 1
    BY <1>4, <1>6
  <2>. QED
    BY <1>1, <2>1
<1>9. ASSUME NEW i \in 1 .. n
      PROVE  IF i < n
             THEN /\ Opposite[e] \in DOMAIN neighboors[back[i]]
                  /\ neighboors[back[i]][Opposite[e]] = back[i + 1]
             ELSE Opposite[e] \notin DOMAIN neighboors[back[i]]
  <2>1. CASE i < n
    <3> DEFINE k == n - i
    <3>1. k \in 1 .. n /\ k < n /\ back[i] = row[k + 1] /\ back[i + 1] = row[k]
      <4>1. (n - (i + 1)) + 1 = n - i /\ i + 1 \in 1 .. n /\ n - i \in 1 .. n /\ n - i < n
        BY <1>1, <2>1
      <4>. QED
        BY <4>1
    <3> HIDE DEF k, back
    <3>2. e \in DOMAIN neighboors[row[k]] /\ neighboors[row[k]][e] = row[k + 1] /\ row[k] \in Tiles
      BY <1>1, <1>2, <3>1
    <3>. QED
      BY <2>1, <3>1, <3>2 DEF LinksInv, MeshIsRectangular
  <2>2. CASE ~(i < n)
    <3>1. i = n /\ (n - n) + 1 = 1
      BY <1>1, <2>2
    <3>. QED
      BY <1>1, <2>2, <3>1
  <2>. QED
    BY <2>1, <2>2
<1>10. \A u : InRow(back, u) <=> InRow(row, u)
  <2> SUFFICES ASSUME NEW u PROVE InRow(back, u) <=> InRow(row, u)
    OBVIOUS
  <2>1. ASSUME NEW i \in 1 .. n, row[i] = u PROVE back[(n - i) + 1] = u
    BY <1>6, <2>1
  <2>2. \A i \in 1 .. n : back[i] = row[(n - i) + 1]
    OBVIOUS
  <2> HIDE DEF back
  <2>. QED
    BY <1>1, <1>6, <1>7, <2>1, <2>2 DEF InRow
<1> HIDE DEF back
<1>11. IsRow(back, row[n], Opposite[e])
  BY <1>1, <1>7, <1>8, <1>9 DEF IsRow
<1>. QED
  BY <1>1, <1>3, <1>5, <1>10, <1>11

(* From a tile of a row, walk_in_direction goes to the end of the row.     *)
LEMMA WalkEnds ==
  ASSUME LinksInv, NEW s \in Tiles, NEW e \in Dir, NEW row, IsRow(row, s, e), NEW i \in DOMAIN row
  PROVE  Last(Walk(row[i], e)) = Last(row)
<1> DEFINE c == Len(row) - i
<1>1. /\ Len(row) \in Nat /\ DOMAIN row = 1 .. Len(row) /\ row[i] \in Tiles
      /\ c \in Nat /\ i + c = Len(row)
  BY DEF IsRow
<1>2. MaxTiles \in Nat
  BY GridAssumption
<1>3. Len(row) <= MaxTiles
  <2>1. IsFiniteSet(Tiles) /\ Cardinality(Tiles) <= MaxTiles /\ Cardinality(Tiles) \in Nat
    BY FS_Interval DEF LinksInv, Numbered
  <2> DEFINE S == 1 .. Len(row)
  <2>2. IsFiniteSet(S) /\ Cardinality(S) = Len(row)
    <3>1. \A n \in Nat : IsFiniteSet(1 .. n) /\ Cardinality(1 .. n) = n
      BY FS_Interval
    <3>. QED
      BY <1>1, <3>1
  <2>3. row \in Injection(S, Tiles)
    <3>1. row \in [S -> Tiles]
      <4>1. row \in Seq(Tiles)
        BY DEF IsRow
      <4>. QED
        BY <1>1, <4>1
    <3>2. \A k, j \in S : row[k] = row[j] => k = j
      BY <1>1 DEF IsRow
    <3> HIDE DEF S
    <3>. QED
      BY <3>1, <3>2 DEF Injection, IsInjective
  <2> HIDE DEF S
  <2>4. Cardinality(S) <= Cardinality(Tiles)
    BY <2>1, <2>3, FS_Injection
  <2>. QED
    BY <1>1, <1>2, <2>1, <2>2, <2>4
<1>4. PICK node : /\ Steps(node, row[i], e)
                  /\ Walk(row[i], e) = [k \in 1 .. Cardinality(Moves(node)) + 1 |-> node[k - 1]]
  BY <1>1, WalkNodes
<1>5. /\ node[0] = row[i]
      /\ \A n \in 0 .. MaxTiles - 1 :
           /\ e \in DOMAIN neighboors[node[n]] => node[n + 1] = neighboors[node[n]][e]
           /\ e \notin DOMAIN neighboors[node[n]] => node[n + 1] = node[n]
  BY <1>4 DEF Steps
<1>6. \A k \in 1 .. Len(row) : IF k < Len(row)
                               THEN e \in DOMAIN neighboors[row[k]] /\ neighboors[row[k]][e] = row[k + 1]
                               ELSE e \notin DOMAIN neighboors[row[k]]
  BY <1>1 DEF IsRow
<1> DEFINE S == {n \in Nat : n <= MaxTiles => /\ n <= c => node[n] = row[i + n]
                                              /\ n >= c => node[n] = row[Len(row)]}
<1>7. 0 \in S
  <2>1. i \in Nat /\ i + 0 = i
    BY <1>1
  <2>2. 0 >= c => i = Len(row)
    BY <1>1, <2>1
  <2>. QED
    BY <1>5, <2>1, <2>2
<1>8. ASSUME NEW n \in Nat, n \in S PROVE n + 1 \in S
  <2> SUFFICES ASSUME n + 1 <= MaxTiles
               PROVE  /\ n + 1 <= c => node[n + 1] = row[i + (n + 1)]
                      /\ n + 1 >= c => node[n + 1] = row[Len(row)]
    OBVIOUS
  <2>1. n \in 0 .. MaxTiles - 1 /\ n <= MaxTiles
    BY <1>2
  <2>2. CASE n + 1 <= c
    <3>1. i + n \in 1 .. Len(row) /\ i + n < Len(row) /\ (i + n) + 1 = i + (n + 1) /\ n <= c
      BY <1>1, <2>2
    <3>2. node[n] = row[i + n]
      BY <1>8, <2>1, <3>1
    <3>3. node[n + 1] = row[i + (n + 1)]
      BY <1>5, <1>6, <2>1, <3>1, <3>2
    <3>4. n + 1 >= c => i + (n + 1) = Len(row)
      BY <1>1, <2>2
    <3>. QED
      BY <3>3, <3>4
  <2>3. CASE ~(n + 1 <= c)
    <3>1. n >= c /\ Len(row) \in 1 .. Len(row) /\ ~(Len(row) < Len(row))
      BY <1>1, <2>3
    <3>2. node[n] = row[Len(row)]
      BY <1>8, <2>1, <3>1
    <3>. QED
      BY <1>5, <1>6, <2>1, <2>3, <3>1, <3>2
  <2>. QED
    BY <2>2, <2>3
<1> HIDE DEF S
<1>9. Nat \subseteq S
  BY <1>7, <1>8, EveryNatural
<1>10. \A n \in 0 .. MaxTiles : /\ n <= c => node[n] = row[i + n]
                                /\ n >= c => node[n] = row[Len(row)]
  BY <1>2, <1>9 DEF S
<1> HIDE DEF c
<1>11. c <= MaxTiles
  BY <1>1, <1>2, <1>3
<1>12. Moves(node) = 1 .. c
  <2>1. ASSUME NEW n \in 1 .. MaxTiles, n <= c PROVE node[n] # node[n - 1]
    <3>1. /\ n \in 0 .. MaxTiles /\ n - 1 \in 0 .. MaxTiles /\ n - 1 <= c
          /\ i + n \in 1 .. Len(row) /\ i + (n - 1) \in 1 .. Len(row) /\ i + n # i + (n - 1)
      BY <1>1, <1>2, <2>1
    <3>2. node[n] = row[i + n] /\ node[n - 1] = row[i + (n - 1)]
      BY <1>10, <2>1, <3>1
    <3>. QED
      BY <1>1, <3>1, <3>2 DEF IsRow
  <2>2. ASSUME NEW n \in 1 .. MaxTiles, ~(n <= c) PROVE node[n] = node[n - 1]
    <3>1. n \in 0 .. MaxTiles /\ n - 1 \in 0 .. MaxTiles /\ n >= c /\ n - 1 >= c
      BY <1>1, <1>2, <2>2
    <3>. QED
      BY <1>10, <3>1
  <2>3. \A n \in 1 .. MaxTiles : n \in 1 .. c <=> n <= c
    BY <1>1
  <2>4. \A n \in 1 .. c : n \in 1 .. MaxTiles
    BY <1>1, <1>2, <1>11
  <2>. QED
    BY <2>1, <2>2, <2>3, <2>4 DEF Moves
<1>13. Cardinality(Moves(node)) = c
  BY <1>1, <1>12, FS_Interval
<1>14. Len(Walk(row[i], e)) = c + 1 /\ Walk(row[i], e)[c + 1] = node[c]
  <2>1. (c + 1) - 1 = c /\ c + 1 \in 1 .. c + 1
    BY <1>1
  <2>. QED
    BY <1>1, <1>4, <1>13, <2>1
<1>15. node[c] = row[Len(row)]
  <2>1. c \in 0 .. MaxTiles /\ c >= c
    BY <1>1, <1>2, <1>11
  <2>. QED
    BY <1>10, <2>1
<1>. QED
  BY <1>14, <1>15 DEF Last
(* From a tile without a neighbour, walk_in_direction goes nowhere.        *)
LEMMA NoWalk ==
  ASSUME NEW t \in Tiles, NEW e, e \notin DOMAIN neighboors[t]
  PROVE  Len(Walk(t, e)) = 1
<1> DEFINE ahead == [u \in Tiles |-> IF e \in DOMAIN neighboors[u] THEN neighboors[u][e] ELSE u]
           node == CHOOSE f : f = [n \in 0 .. MaxTiles |-> IF n = 0 THEN t ELSE ahead[f[n - 1]]]
           steps == {n \in 1 .. MaxTiles : node[n] # node[n - 1]}
           still == [n \in 0 .. MaxTiles |-> t]
<1>1. Walk(t, e) = [i \in 1 .. Cardinality(steps) + 1 |-> node[i - 1]]
  BY DEF Walk
<1>2. MaxTiles \in Nat /\ ahead[t] = t
  BY GridAssumption
<1>3. node = [n \in 0 .. MaxTiles |-> IF n = 0 THEN t ELSE ahead[node[n - 1]]]
  <2> HIDE DEF ahead
  <2>1. still = [n \in 0 .. MaxTiles |-> IF n = 0 THEN t ELSE ahead[still[n - 1]]]
    BY <1>2
  <2> HIDE DEF still
  <2>. QED
    BY <2>1
<1> HIDE DEF node
<1>4. \A n \in 0 .. MaxTiles : node[n] = t
  <2> DEFINE S == {n \in Nat : n <= MaxTiles => node[n] = t}
  <2> HIDE DEF ahead
  <2>1. 0 \in S
    BY <1>2, <1>3
  <2>2. ASSUME NEW n \in Nat, n \in S PROVE n + 1 \in S
    BY <1>2, <1>3, <2>2
  <2> HIDE DEF S
  <2>3. Nat \subseteq S
    BY <2>1, <2>2, EveryNatural
  <2>. QED
    BY <1>2, <2>3 DEF S
<1>5. steps = {}
  BY <1>2, <1>4
<1>6. Cardinality(steps) + 1 = 1
  BY <1>5, FS_EmptySet
<1> HIDE DEF steps
<1>. QED
  BY <1>1, <1>6

(* The origin is the corner that output_grid begins at, and every tile is  *)
(* reached from it by steps south and east.                                *)
Cornered == Origin \in Tiles /\ DOMAIN neighboors[Origin] \subseteq {"SOUTH", "EAST"}

SouthEast(C) ==
  \A t \in C : \A d \in {"SOUTH", "EAST"} : d \in DOMAIN neighboors[t] => neighboors[t][d] \in C

Spanned == \A C \in SUBSET Tiles : Origin \in C /\ SouthEast(C) => C = Tiles

(* The walks south from the tiles east of the origin visit all tiles.      *)
LEMMA OutputIsAll ==
  ASSUME LinksInv, Cornered, Spanned
  PROVE  OutputTiles = Tiles
<1> DEFINE first == Walk(Origin, "EAST")
           column(u) == Walk(u, "SOUTH")
<1>1. {"NORTH", "SOUTH", "EAST", "WEST"} = Dir
  BY DEF Dir
<1>2. Opposite["EAST"] = "WEST" /\ Opposite["SOUTH"] = "NORTH" /\ Opposite["NORTH"] = "SOUTH"
  BY DEF Opposite
<1>3. Origin \in Tiles /\ "WEST" \notin DOMAIN neighboors[Origin] /\ "NORTH" \notin DOMAIN neighboors[Origin]
  BY DEF Cornered
<1>4. IsRow(first, Origin, "EAST")
  BY <1>1, <1>2, <1>3, WalkIsARow
<1>5. \A i \in DOMAIN first : first[i] \in Tiles /\ "NORTH" \notin DOMAIN neighboors[first[i]]
  <2>1. "EAST" \in Dir /\ "NORTH" \in Dir \ {"EAST", Opposite["EAST"]}
    BY <1>1, <1>2
  <2> HIDE DEF first
  <2>. QED
    BY <1>3, <1>4, <2>1, RowsAreAlike
<1>6. \A i \in DOMAIN first : IsRow(column(first[i]), first[i], "SOUTH")
  BY <1>1, <1>2, <1>5, WalkIsARow
<1>7. OutputTiles = UNION {ToSet(column(u)) : u \in ToSet(first)}
  BY DEF OutputTiles
<1> HIDE DEF first, column
<1>8. \A t : t \in OutputTiles <=> \E i \in DOMAIN first : \E j \in DOMAIN column(first[i]) : column(first[i])[j] = t
  BY <1>7 DEF ToSet
<1>9. OutputTiles \subseteq Tiles
  <2>1. \A i \in DOMAIN first : \A j \in DOMAIN column(first[i]) : column(first[i])[j] \in Tiles
    BY <1>6 DEF IsRow
  <2>. QED
    BY <1>8, <2>1
<1>10. Origin \in OutputTiles
  <2>1. 1 \in DOMAIN first /\ first[1] = Origin
    BY <1>4 DEF IsRow
  <2>2. 1 \in DOMAIN column(first[1]) /\ column(first[1])[1] = first[1]
    BY <1>6, <2>1 DEF IsRow
  <2>. QED
    BY <1>8, <2>1, <2>2
<1>11. ASSUME NEW i \in DOMAIN first, NEW j \in DOMAIN column(first[i]),
              "SOUTH" \in DOMAIN neighboors[column(first[i])[j]]
       PROVE  \E k \in DOMAIN column(first[i]) :
                column(first[i])[k] = neighboors[column(first[i])[j]]["SOUTH"]
  <2> DEFINE c == column(first[i])
  <2>1. IsRow(c, first[i], "SOUTH")
    BY <1>6
  <2> HIDE DEF c
  <2>2. Len(c) \in Nat /\ DOMAIN c = 1 .. Len(c)
    BY <2>1 DEF IsRow
  <2>3. j \in DOMAIN c /\ "SOUTH" \in DOMAIN neighboors[c[j]]
    BY <1>11 DEF c
  <2>4. j < Len(c) /\ neighboors[c[j]]["SOUTH"] = c[j + 1]
    BY <2>1, <2>3 DEF IsRow
  <2>5. j + 1 \in DOMAIN c
    BY <2>2, <2>3, <2>4
  <2>. QED
    BY <2>4, <2>5 DEF c
<1>12. ASSUME NEW i \in DOMAIN first, NEW j \in DOMAIN column(first[i]),
              "EAST" \in DOMAIN neighboors[column(first[i])[j]]
       PROVE  \E k \in DOMAIN column(first[i + 1]) :
                /\ i + 1 \in DOMAIN first
                /\ column(first[i + 1])[k] = neighboors[column(first[i])[j]]["EAST"]
  <2> DEFINE c == column(first[i])
             b == column(first[i + 1])
             In(n) == \E k \in DOMAIN b : b[k] = neighboors[c[n]]["EAST"]
             S == {n \in Nat : n + 1 \in DOMAIN c => In(n + 1)}
  <2>1. IsRow(c, first[i], "SOUTH") /\ first[i] \in Tiles
    BY <1>5, <1>6
  <2>2. j \in DOMAIN c /\ "EAST" \in DOMAIN neighboors[c[j]]
    BY <1>12
  <2>3. \A n \in DOMAIN c : c[n] \in Tiles /\ "EAST" \in DOMAIN neighboors[c[n]]
    <3>1. "SOUTH" \in Dir /\ "EAST" \in Dir \ {"SOUTH", Opposite["SOUTH"]}
      BY <1>1, <1>2
    <3> HIDE DEF c
    <3>2. \A n \in DOMAIN c : c[n] \in Tiles /\ ("EAST" \in DOMAIN neighboors[c[n]] <=> "EAST" \in DOMAIN neighboors[first[i]])
      BY <2>1, <3>1, RowsAreAlike
    <3>. QED
      BY <2>2, <3>2
  <2>4. Len(c) \in Nat /\ DOMAIN c = 1 .. Len(c) /\ Len(c) >= 1 /\ c[1] = first[i]
    <3> HIDE DEF c
    <3>. QED
      BY <2>1 DEF IsRow
  <2>5. i + 1 \in DOMAIN first /\ neighboors[first[i]]["EAST"] = first[i + 1]
    <3>1. "EAST" \in DOMAIN neighboors[first[i]]
      BY <2>3, <2>4
    <3>. QED
      BY <1>4, <3>1 DEF IsRow
  <2>6. IsRow(b, first[i + 1], "SOUTH")
    BY <1>6, <2>5
  <2>7. \A n \in DOMAIN c : n < Len(c) =>
          "SOUTH" \in DOMAIN neighboors[c[n]] /\ neighboors[c[n]]["SOUTH"] = c[n + 1]
    <3> HIDE DEF c
    <3>. QED
      BY <2>1 DEF IsRow
  <2>8. \A k \in DOMAIN b : "SOUTH" \in DOMAIN neighboors[b[k]] =>
          k + 1 \in DOMAIN b /\ b[k + 1] = neighboors[b[k]]["SOUTH"]
    <3> HIDE DEF b
    <3>. QED
      BY <2>6 DEF IsRow
  <2>9. 0 \in S
    <3>1. 1 \in DOMAIN b /\ b[1] = first[i + 1]
      <4> HIDE DEF b
      <4>. QED
        BY <2>6 DEF IsRow
    <3>. QED
      BY <2>4, <2>5, <3>1
  <2> HIDE DEF c, b
  <2>10. ASSUME NEW n \in Nat, n \in S PROVE n + 1 \in S
    <3> SUFFICES ASSUME n + 2 \in DOMAIN c PROVE In(n + 2)
      OBVIOUS
    <3>1. n + 1 \in DOMAIN c /\ n + 1 < Len(c) /\ (n + 1) + 1 = n + 2
      BY <2>4
    <3>2. PICK k \in DOMAIN b : b[k] = neighboors[c[n + 1]]["EAST"]
      BY <2>10, <3>1
    <3>3. /\ c[n + 1] \in Tiles /\ "EAST" \in DOMAIN neighboors[c[n + 1]]
          /\ "SOUTH" \in DOMAIN neighboors[c[n + 1]] /\ neighboors[c[n + 1]]["SOUTH"] = c[n + 2]
      BY <2>3, <2>7, <3>1
    <3>4. /\ "SOUTH" \in DOMAIN neighboors[b[k]]
          /\ neighboors[b[k]]["SOUTH"] = neighboors[c[n + 2]]["EAST"]
      <4>1. \A e \in Dir \ {"SOUTH", "NORTH"} : e \in DOMAIN neighboors[c[n + 1]] =>
              neighboors[neighboors[c[n + 1]][e]]["SOUTH"] = neighboors[c[n + 2]][e]
        BY <1>2, <3>3 DEF LinksInv, MeshIsRectangular
      <4>2. \A e \in Dir \ {"EAST", "WEST"} :
              e \in DOMAIN neighboors[c[n + 1]] => e \in DOMAIN neighboors[neighboors[c[n + 1]]["EAST"]]
        BY <1>2, <3>3 DEF LinksInv, MeshIsRectangular
      <4>. QED
        BY <1>1, <3>2, <3>3, <4>1, <4>2
    <3>. QED
      BY <2>8, <3>4
  <2> HIDE DEF S
  <2>11. Nat \subseteq S
    BY <2>9, <2>10, EveryNatural
  <2>12. In(j)
    <3>1. j - 1 \in Nat /\ (j - 1) + 1 = j
      BY <2>2, <2>4
    <3>. QED
      BY <2>2, <2>11, <3>1 DEF S
  <2>. QED
    BY <2>5, <2>12 DEF b, c
<1>13. SouthEast(OutputTiles)
  <2> SUFFICES ASSUME NEW t \in OutputTiles, NEW d \in {"SOUTH", "EAST"}, d \in DOMAIN neighboors[t]
               PROVE  neighboors[t][d] \in OutputTiles
    BY DEF SouthEast
  <2>0. PICK i \in DOMAIN first : \E j \in DOMAIN column(first[i]) : column(first[i])[j] = t
    BY <1>8
  <2>1. PICK j \in DOMAIN column(first[i]) : column(first[i])[j] = t
    BY <2>0
  <2>2. CASE d = "SOUTH"
    BY <1>8, <1>11, <2>1, <2>2
  <2>3. CASE d = "EAST"
    BY <1>8, <1>12, <2>1, <2>3
  <2>. QED
    BY <2>2, <2>3
<1>. QED
  BY <1>9, <1>10, <1>13 DEF Spanned

(* The links of the initial grid lead from the first tile to every other.  *)
LEMMA MeshIsSpanned ==
  ASSUME NEW C, C \subseteq PhyTiles, Origin \in C,
         \A t \in C : \A d \in {"SOUTH", "EAST"} : d \in DOMAIN Mesh[t] => Mesh[t][d] \in C
  PROVE  C = PhyTiles
<1>1. Width \in Nat \ {0} /\ Height \in Nat \ {0}
  BY GridAssumption
<1>2. /\ \A t \in PhyTiles : X(t) \in 0 .. Width - 1 /\ Y(t) \in 0 .. Height - 1 /\ t = At(X(t), Y(t))
      /\ \A x \in 0 .. Width - 1, y \in 0 .. Height - 1 :
           At(x, y) \in PhyTiles /\ X(At(x, y)) = x /\ Y(At(x, y)) = y
  BY Coordinates
<1> DEFINE Dom(t) == {e \in Dir : \/ e = "NORTH" /\ Y(t) > 0
                                  \/ e = "SOUTH" /\ Y(t) < Height - 1
                                  \/ e = "EAST" /\ X(t) < Width - 1
                                  \/ e = "WEST" /\ X(t) > 0}
           To(t, e) == CASE e = "NORTH" -> t - Width
                         [] e = "SOUTH" -> t + Width
                         [] e = "EAST"  -> t + 1
                         [] e = "WEST"  -> t - 1
<1>3. Mesh = [t \in PhyTiles |-> [e \in Dom(t) |-> To(t, e)]]
  BY DEF Mesh, X, Y
<1>4. ASSUME NEW t \in PhyTiles
      PROVE  /\ Y(t) < Height - 1 => "SOUTH" \in DOMAIN Mesh[t] /\ Mesh[t]["SOUTH"] = t + Width
             /\ X(t) < Width - 1 => "EAST" \in DOMAIN Mesh[t] /\ Mesh[t]["EAST"] = t + 1
  <2>1. /\ Y(t) < Height - 1 => "SOUTH" \in Dom(t)
        /\ X(t) < Width - 1 => "EAST" \in Dom(t)
    BY DEF Dom, Dir
  <2>2. To(t, "SOUTH") = t + Width /\ To(t, "EAST") = t + 1
    BY DEF To
  <2> HIDE DEF Dom, To
  <2>3. DOMAIN Mesh[t] = Dom(t) /\ \A e \in Dom(t) : Mesh[t][e] = To(t, e)
    BY <1>3
  <2>. QED
    BY <2>1, <2>2, <2>3
<1>5. \A x, y \in Int : At(x, y) + Width = At(x, y + 1) /\ At(x, y) + 1 = At(x + 1, y)
  BY <1>1 DEF At
<1>6. At(0, 0) = Origin
  BY <1>1 DEF At, Origin
<1> HIDE DEF X, Y, At, Dom, To
<1> DEFINE East == {x \in Nat : x <= Width - 1 => At(x, 0) \in C}
<1>7. 0 \in East
  BY <1>6
<1>8. ASSUME NEW x \in Nat, x \in East PROVE x + 1 \in East
  <2> SUFFICES ASSUME x + 1 <= Width - 1 PROVE At(x + 1, 0) \in C
    OBVIOUS
  <2> DEFINE t == At(x, 0)
  <2>1. t \in C /\ t \in PhyTiles /\ X(t) = x
    BY <1>1, <1>2, <1>8
  <2>2. X(t) < Width - 1
    BY <1>1, <2>1
  <2>3. "EAST" \in DOMAIN Mesh[t] /\ Mesh[t]["EAST"] = t + 1
    BY <1>4, <2>1, <2>2
  <2>4. t + 1 = At(x + 1, 0)
    BY <1>5
  <2> HIDE DEF t
  <2>. QED
    BY <2>1, <2>3, <2>4
<1> HIDE DEF East
<1>9. Nat \subseteq East
  BY <1>7, <1>8, EveryNatural
<1>10. ASSUME NEW x \in 0 .. Width - 1, NEW y \in 0 .. Height - 1
       PROVE  At(x, y) \in C
  <2> DEFINE South == {z \in Nat : z <= Height - 1 => At(x, z) \in C}
  <2>1. 0 \in South
    BY <1>1, <1>9 DEF East
  <2>2. ASSUME NEW z \in Nat, z \in South PROVE z + 1 \in South
    <3> SUFFICES ASSUME z + 1 <= Height - 1 PROVE At(x, z + 1) \in C
      OBVIOUS
    <3> DEFINE t == At(x, z)
    <3>1. t \in C /\ t \in PhyTiles /\ Y(t) = z
      BY <1>1, <1>2, <2>2
    <3>2. Y(t) < Height - 1
      BY <1>1, <3>1
    <3>3. "SOUTH" \in DOMAIN Mesh[t] /\ Mesh[t]["SOUTH"] = t + Width
      BY <1>4, <3>1, <3>2
    <3>4. t + Width = At(x, z + 1)
      BY <1>1, <1>5
    <3> HIDE DEF t
    <3>. QED
      BY <3>1, <3>3, <3>4
  <2> HIDE DEF South
  <2>3. Nat \subseteq South
    BY <2>1, <2>2, EveryNatural
  <2>. QED
    BY <1>1, <2>3 DEF South
<1>. QED
  BY <1>2, <1>10

(* Every tile lies on the row or column, in each direction, of an end of   *)
(* the grid: this is so for the corner, and for what is south or east of a *)
(* tile for which it is.                                                   *)
OnLine(e, t) ==
  \E s \in Tiles : \E row :
    IsRow(row, s, e) /\ Opposite[e] \notin DOMAIN neighboors[s] /\ InRow(row, t)

LEMMA Lined ==
  ASSUME LinksInv, Cornered, Spanned, NEW e \in Dir
  PROVE  \A t \in Tiles : OnLine(e, t)
<1>1. ASSUME NEW d \in {"SOUTH", "EAST"}
      PROVE  \A t \in Tiles : OnLine(d, t)
  <2> DEFINE C == {t \in Tiles : OnLine(d, t)}
  <2>1. d \in Dir /\ Opposite[d] \in {"NORTH", "WEST"}
    BY DEF Dir, Opposite
  <2>2. Origin \in Tiles /\ Opposite[d] \notin DOMAIN neighboors[Origin]
    BY <2>1 DEF Cornered
  <2>3. Origin \in C
    <3>1. IsRow(Walk(Origin, d), Origin, d)
      BY <2>1, <2>2, WalkIsARow
    <3>2. InRow(Walk(Origin, d), Origin)
      BY <3>1 DEF IsRow, InRow
    <3>. QED
      BY <2>2, <3>1, <3>2 DEF OnLine
  <2>4. ASSUME NEW t \in C, NEW f \in {"SOUTH", "EAST"}, f \in DOMAIN neighboors[t]
        PROVE  neighboors[t][f] \in C
    <3>1. neighboors[t][f] \in Tiles
      BY <2>4 DEF LinksInv, Linked
    <3>2. PICK s \in Tiles : \E row :
            IsRow(row, s, d) /\ Opposite[d] \notin DOMAIN neighboors[s] /\ InRow(row, t)
      BY DEF OnLine
    <3>3. PICK row : IsRow(row, s, d) /\ Opposite[d] \notin DOMAIN neighboors[s] /\ InRow(row, t)
      BY <3>2
    <3>4. PICK i \in DOMAIN row : row[i] = t
      BY <3>3 DEF InRow
    <3>5. CASE f = d
      <4>1. i < Len(row) /\ neighboors[t][f] = row[i + 1] /\ i + 1 \in DOMAIN row
        BY <2>4, <3>3, <3>4, <3>5 DEF IsRow
      <4>2. InRow(row, neighboors[t][f])
        BY <4>1 DEF InRow
      <4>. QED
        BY <3>1, <3>3, <4>2 DEF OnLine
    <3>6. CASE f # d
      <4>1. f \in Dir \ {d, Opposite[d]} /\ Opposite[d] \in Dir \ {f, Opposite[f]}
        BY <3>6 DEF Dir, Opposite
      <4>2. f \in DOMAIN neighboors[s]
        BY <2>1, <2>4, <3>3, <3>4, <4>1, RowsAreAlike
      <4> DEFINE beside == [k \in DOMAIN row |-> neighboors[row[k]][f]]
      <4>3. IsRow(beside, neighboors[s][f], d)
        BY <2>1, <3>3, <4>1, <4>2, RowBeside
      <4>4. neighboors[s][f] \in Tiles /\ Opposite[d] \notin DOMAIN neighboors[neighboors[s][f]]
        BY <3>3, <4>1, <4>2 DEF LinksInv, Linked, MeshIsRectangular
      <4>5. InRow(beside, neighboors[t][f])
        BY <3>4 DEF InRow
      <4> HIDE DEF beside
      <4>. QED
        BY <3>1, <4>3, <4>4, <4>5 DEF OnLine
    <3>. QED
      BY <3>5, <3>6
  <2>5. C \in SUBSET Tiles /\ SouthEast(C)
    BY <2>4 DEF SouthEast
  <2>6. C = Tiles
    <3> HIDE DEF C
    <3>. QED
      BY <2>3, <2>5 DEF Spanned
  <2>. QED
    BY <2>6
<1>2. CASE e \in {"SOUTH", "EAST"}
  BY <1>1, <1>2
<1>3. CASE e \notin {"SOUTH", "EAST"}
  <2>1. Opposite[e] \in {"SOUTH", "EAST"} /\ Opposite[e] \in Dir /\ Opposite[Opposite[e]] = e
    BY <1>3 DEF Dir, Opposite
  <2> SUFFICES ASSUME NEW t \in Tiles PROVE OnLine(e, t)
    OBVIOUS
  <2>2. OnLine(Opposite[e], t)
    BY <1>1, <2>1
  <2>3. PICK s \in Tiles : \E row :
          IsRow(row, s, Opposite[e]) /\ e \notin DOMAIN neighboors[s] /\ InRow(row, t)
    BY <2>1, <2>2 DEF OnLine
  <2>4. PICK row : IsRow(row, s, Opposite[e]) /\ e \notin DOMAIN neighboors[s] /\ InRow(row, t)
    BY <2>3
  <2>5. /\ Last(row) \in Tiles /\ Opposite[e] \notin DOMAIN neighboors[Last(row)]
        /\ IsRow(Reverse(row), Last(row), e) /\ InRow(Reverse(row), t)
    BY <2>1, <2>4, RowBack
  <2>. QED
    BY <2>5 DEF OnLine
<1>. QED
  BY <1>2, <1>3

(* u is on the row or column to split that begins at v.                    *)
OnRow(v, u) == \E row : IsRow(row, v, SplitNext[SplitDir]) /\ InRow(row, u)

(* The walks of split_tile_type to the bottom of a row and back to its top *)
(* end where they should, and mark only tiles of that row as seen.         *)
LEMMA FoundTop ==
  ASSUME LinksInv, DriverTyped, Cornered, Spanned, FindRow
  PROVE  \E v \in Tiles : /\ tops' = Append(tops, v) /\ IsTop(v, SplitDir)
                          /\ \A u \in seen' : u \in seen \/ OnRow(v, u)
<1> DEFINE a == SplitNext[SplitDir]
<1>1. a \in Dir /\ Opposite[a] \in Dir /\ Opposite[Opposite[a]] = a
  <2>1. SplitDir \in Dir
    BY TheCall DEF FindRow, Splitting
  <2>. QED
    BY <2>1 DEF Dir, Opposite, SplitNext
<1>2. PICK t \in Tiles :
        LET bottom == Last(Walk(t, a))
            row == Walk(bottom, Opposite[a])
        IN  /\ bottom \in Tiles /\ row \in Seq(Tiles) /\ Last(row) \in Tiles
            /\ seen' = seen \union ToSet(row) /\ tops' = Append(tops, Last(row))
  BY FoundRow
<1> DEFINE bottom == Last(Walk(t, a))
           row == Walk(bottom, Opposite[a])
<1> HIDE DEF a
<1>3. OnLine(a, t)
  BY <1>1, Lined
<1>4. PICK s \in Tiles : \E line :
        IsRow(line, s, a) /\ Opposite[a] \notin DOMAIN neighboors[s] /\ InRow(line, t)
  BY <1>3 DEF OnLine
<1>5. PICK line : IsRow(line, s, a) /\ Opposite[a] \notin DOMAIN neighboors[s] /\ InRow(line, t)
  BY <1>4
<1>6. bottom = Last(line)
  <2> PICK i \in DOMAIN line : line[i] = t
    BY <1>5 DEF InRow
  <2>. QED
    BY <1>1, <1>5, WalkEnds
<1>7. bottom \in Tiles /\ a \notin DOMAIN neighboors[bottom]
  BY <1>1, <1>5, <1>6, RowBack
<1> HIDE DEF bottom
<1>8. IsRow(row, bottom, Opposite[a])
  BY <1>1, <1>7, WalkIsARow
<1>9. seen' = seen \union ToSet(row) /\ tops' = Append(tops, Last(row))
  BY <1>2 DEF bottom
<1> HIDE DEF row
<1>10. /\ Last(row) \in Tiles /\ Opposite[a] \notin DOMAIN neighboors[Last(row)]
       /\ IsRow(Reverse(row), Last(row), a)
       /\ \A u : InRow(Reverse(row), u) <=> InRow(row, u)
  BY <1>1, <1>7, <1>8, RowBack
<1>11. IsTop(Last(row), SplitDir)
  BY <1>10 DEF IsTop, a
<1>12. ASSUME NEW u \in ToSet(row) PROVE OnRow(Last(row), u)
  <2>1. InRow(row, u)
    BY DEF ToSet, InRow
  <2>. QED
    BY <1>10, <2>1 DEF OnRow, a
<1>. QED
  BY <1>9, <1>10, <1>11, <1>12
-----------------------------------------------------------------------------
(* The rows or columns to split are known by their ends, and the one that  *)
(* rows are inserted beside is not the outermost.                          *)
TopsAreEnds ==
  /\ \A k \in DOMAIN tops : IsTop(tops[k], SplitDir)
  /\ top # None => IsTop(top, SplitDir)

TopHasRoom == top # None /\ inserts > 0 => SplitDir \in DOMAIN neighboors[top]

CornerInv == Cornered /\ Spanned /\ TopsAreEnds /\ TopHasRoom

LEMMA CornerInit == DriverInit => CornerInv
<1> SUFFICES ASSUME DriverInit PROVE CornerInv
  OBVIOUS
<1>1. Width \in Nat \ {0} /\ Height \in Nat \ {0}
  BY GridAssumption
<1>2. Tiles = PhyTiles /\ neighboors = Mesh /\ top = None /\ tops = << >>
  BY DEF DriverInit, GridInit, Tiles
<1>3. Origin \in PhyTiles
  BY <1>1 DEF Origin, PhyTiles
<1>4. DOMAIN Mesh[Origin] \subseteq {"SOUTH", "EAST"}
  <2>1. (1 - 1) % Width = 0 /\ (1 - 1) \div Width = 0
    BY <1>1
  <2>2. DOMAIN Mesh[Origin] = {e \in Dir : \/ e = "NORTH" /\ 0 > 0
                                           \/ e = "SOUTH" /\ 0 < Height - 1
                                           \/ e = "EAST" /\ 0 < Width - 1
                                           \/ e = "WEST" /\ 0 > 0}
    BY <1>3, <2>1 DEF Mesh, Origin
  <2>. QED
    BY <2>2
<1>5. Spanned
  BY <1>2, MeshIsSpanned DEF Spanned, SouthEast
<1>. QED
  BY <1>2, <1>3, <1>4, <1>5 DEF CornerInv, Cornered, TopsAreEnds, TopHasRoom

(* Inserting a row keeps the corner, and what is reached from it: a new    *)
(* tile is reached from the tile beside it that is nearer to the corner.   *)
LEMMA InsertKeepsCorner ==
  ASSUME LinksInv, Cornered, Spanned, NEW edge \in Tiles, NEW d \in Dir, InsertEmpty(edge, d),
         d \in DOMAIN neighboors[edge]
  PROVE  Cornered' /\ Spanned' /\ \A t \in Tiles : DOMAIN neighboors[t] \subseteq DOMAIN neighboors'[t]
<1> DEFINE o == Opposite[d]
           a == SplitNext[d]
           b == Opposite[a]
           row == Walk(edge, a)
           n == Cardinality(Tiles)
           D(t) == DOMAIN neighboors[t]
           E(t) == DOMAIN neighboors'[t]
<1>1. /\ Dir = {d, o, a, b}
      /\ d # o /\ d # a /\ d # b /\ o # a /\ o # b /\ a # b
      /\ Opposite[d] = o /\ Opposite[o] = d /\ Opposite[a] = b /\ Opposite[b] = a
  BY Directions
<1>2. b \notin D(edge)
  BY DEF InsertEmpty, IsTop
<1>3. IsRow(row, edge, a)
  BY <1>1, <1>2, WalkIsARow
<1>4. /\ Tiles' = Tiles \union {n + i : i \in DOMAIN row}
      /\ DOMAIN neighboors' = Tiles' /\ \A t \in Tiles' : E(t) \subseteq Dir
      /\ Relinks(row, n, d, o, a, b)
  BY InsertRelinks
<1> HIDE DEF o, a, b, row, n
<1>5. \A i \in DOMAIN row : row[i] \in Tiles /\ d \in D(row[i])
  BY <1>1, <1>3, RowsAreAlike
<1>6. \A t \in Tiles : \A e \in D(t) :
        /\ neighboors[t][e] \in Tiles /\ e \in Dir
        /\ Opposite[e] \in D(neighboors[t][e]) /\ neighboors[neighboors[t][e]][Opposite[e]] = t
  BY DEF LinksInv, Linked, MeshIsRectangular
<1>7. \A t \in Tiles :
        /\ \A f \in {o, a, b} : f \in E(t) <=> f \in D(t)
        /\ \A f \in {a, b} : f \in D(t) => neighboors'[t][f] = neighboors[t][f]
        /\ d \in E(t) <=> d \in D(t) \/ InRow(row, t)
        /\ d \in D(t) /\ ~InRow(row, t) => neighboors'[t][d] = neighboors[t][d]
        /\ o \in D(t) /\ ~InRow(row, neighboors[t][o]) => neighboors'[t][o] = neighboors[t][o]
        /\ \A i \in DOMAIN row :
             /\ row[i] = t => neighboors'[t][d] = n + i
             /\ o \in D(t) /\ neighboors[t][o] = row[i] => neighboors'[t][o] = n + i
  BY <1>4 DEF Relinks
<1>8. \A i \in DOMAIN row :
        /\ o \in E(n + i) /\ neighboors'[n + i][o] = row[i]
        /\ d \in D(row[i]) => d \in E(n + i) /\ neighboors'[n + i][d] = neighboors[row[i]][d]
  BY <1>4 DEF Relinks
<1>9. \A t \in Tiles : D(t) \subseteq E(t)
  BY <1>1, <1>6, <1>7
<1>10. Cornered'
  <2>1. Origin \in Tiles /\ D(Origin) \subseteq {"SOUTH", "EAST"} /\ Origin' = Origin
    BY DEF Cornered, Origin
  <2>2. ASSUME NEW e \in E(Origin) PROVE e \in D(Origin)
    <3>1. CASE e = d /\ InRow(row, Origin)
      BY <1>5, <3>1 DEF InRow
    <3>2. CASE ~(e = d /\ InRow(row, Origin))
      BY <1>1, <1>4, <1>7, <2>1, <2>2, <3>2
    <3>. QED
      BY <3>1, <3>2
  <2>. QED
    BY <1>4, <2>1, <2>2 DEF Cornered
<1>11. Spanned'
  <2> SUFFICES ASSUME NEW C \in SUBSET Tiles', Origin \in C,
                      \A t \in C : \A g \in {"SOUTH", "EAST"} : g \in E(t) => neighboors'[t][g] \in C
               PROVE  Tiles' \subseteq C
    BY DEF Spanned, SouthEast, Origin
  <2> DEFINE old == C \intersect Tiles
  <2>1. ASSUME NEW t \in old, NEW g \in {"SOUTH", "EAST"}, g \in D(t)
        PROVE  neighboors[t][g] \in C
    <3> DEFINE u == neighboors[t][g]
    <3>1. t \in Tiles /\ u \in Tiles /\ g \in Dir /\ g \in E(t) /\ neighboors'[t][g] \in C
      BY <1>6, <1>9, <2>1
    <3>2. CASE g \in {a, b}
      BY <1>7, <2>1, <3>1, <3>2
    <3>3. CASE g = d
      <4>1. CASE InRow(row, t)
        <5> PICK i \in DOMAIN row : row[i] = t
          BY <4>1 DEF InRow
        <5>1. n + i \in C /\ g \in E(n + i) /\ neighboors'[n + i][g] = u
          BY <1>7, <1>8, <2>1, <3>1, <3>3
        <5>. QED
          BY <5>1
      <4>2. CASE ~InRow(row, t)
        BY <1>7, <2>1, <3>1, <3>3, <4>2
      <4>. QED
        BY <4>1, <4>2
    <3>4. CASE g = o
      <4>1. CASE InRow(row, u)
        <5> PICK i \in DOMAIN row : row[i] = u
          BY <4>1 DEF InRow
        <5>1. n + i \in C /\ g \in E(n + i) /\ neighboors'[n + i][g] = u
          BY <1>7, <1>8, <2>1, <3>1, <3>4
        <5>. QED
          BY <5>1
      <4>2. CASE ~InRow(row, u)
        BY <1>7, <2>1, <3>1, <3>4, <4>2
      <4>. QED
        BY <4>1, <4>2
    <3>. QED
      BY <1>1, <3>1, <3>2, <3>3, <3>4
  <2>2. old = Tiles
    <3>1. old \in SUBSET Tiles /\ Origin \in old
      BY DEF Cornered
    <3>2. SouthEast(old)
      BY <1>6, <2>1 DEF SouthEast
    <3> HIDE DEF old
    <3>. QED
      BY <3>1, <3>2 DEF Spanned
  <2>3. ASSUME NEW i \in DOMAIN row PROVE n + i \in C
    <3>1. row[i] \in Tiles /\ row[i] \in C
      BY <1>5, <2>2
    <3> DEFINE u == neighboors[row[i]][d]
    <3>2. u \in Tiles /\ o \in D(u) /\ neighboors[u][o] = row[i]
      BY <1>1, <1>5, <1>6
    <3>3. CASE d \in {"SOUTH", "EAST"}
      <4>1. d \in E(row[i]) /\ neighboors'[row[i]][d] = n + i
        BY <1>7, <3>1 DEF InRow
      <4>. QED
        BY <3>1, <3>3, <4>1
    <3>4. CASE d \notin {"SOUTH", "EAST"}
      <4>1. o \in {"SOUTH", "EAST"}
        BY <3>4 DEF Dir, o, Opposite
      <4>2. u \in C /\ o \in E(u) /\ neighboors'[u][o] = n + i
        BY <1>7, <2>2, <3>2
      <4>. QED
        BY <4>1, <4>2
    <3>. QED
      BY <3>3, <3>4
  <2>. QED
    BY <1>4, <2>2, <2>3
<1>. QED
  BY <1>9, <1>10, <1>11

(* The ends that insertions start at stay ends.                            *)
LEMMA InsertKeepsTops ==
  ASSUME LinksInv, NEW edge \in Tiles, NEW d \in Dir, InsertEmpty(edge, d),
         NEW t \in Tiles, IsTop(t, d)
  PROVE  Opposite[SplitNext[d]] \notin DOMAIN neighboors'[t]
<1> DEFINE row == Walk(edge, SplitNext[d])
           n == Cardinality(Tiles)
<1>1. Relinks(row, n, d, Opposite[d], SplitNext[d], Opposite[SplitNext[d]])
  BY InsertRelinks
<1>. QED
  BY <1>1 DEF Relinks, IsTop

(* split_in_dir inserts rows only if a tile of the row has a tile ahead,   *)
(* and then all of them have.                                              *)
LEMMA InsertsNeedRoom ==
  ASSUME LinksInv, NEW t \in Tiles, SplitDir \in Dir, IsTop(t, SplitDir), NumToInsert(t) > 0
  PROVE  SplitDir \in DOMAIN neighboors[t]
<1> DEFINE e == SplitNext[SplitDir]
           row == Walk(t, e)
<1>1. e \in Dir /\ SplitDir \in Dir \ {e, Opposite[e]}
  BY Directions
<1>2. IsRow(row, t, e)
  BY <1>1, WalkIsARow DEF IsTop
<1>3. PICK k \in Nat \ {0} : \E u \in ToSet(row) : k < Len(Walk(u, SplitDir))
  <2> DEFINE full == {k \in {1} \union 2 .. Len(SplitInto) - 1 :
                        \E u \in ToSet(row) :
                          LET ahead == Walk(u, SplitDir)
                          IN  /\ grid[u].type = SplitType
                              /\ k < Len(ahead) /\ grid[ahead[k + 1]].type # Empty}
  <2>1. NumToInsert(t) = IF full = {} THEN 0 ELSE CHOOSE k \in full : \A l \in full : l <= k
    BY DEF NumToInsert
  <2>2. PICK k \in full : TRUE
    <3> HIDE DEF full
    <3>. QED
      BY <2>1
  <2>3. k \in Nat \ {0}
    OBVIOUS
  <2>. QED
    BY <2>2, <2>3
<1>4. PICK i \in DOMAIN row : k < Len(Walk(row[i], SplitDir))
  BY <1>3 DEF ToSet
<1> HIDE DEF e, row
<1>5. row[i] \in Tiles /\ (SplitDir \in DOMAIN neighboors[row[i]] <=> SplitDir \in DOMAIN neighboors[t])
  BY <1>1, <1>2, RowsAreAlike
<1>6. SplitDir \in DOMAIN neighboors[row[i]]
  <2>1. Len(Walk(row[i], SplitDir)) # 1
    <3>1. ~(k < 1)
      OBVIOUS
    <3>. QED
      BY <1>4, <3>1
  <2>. QED
    BY <1>5, <2>1, NoWalk
<1>. QED
  BY <1>5, <1>6

LEMMA CornerStep ==
  DriverTyped /\ LinksInv /\ CornerInv /\ [DriverNext]_<<vars, driver>> => CornerInv'
<1> SUFFICES ASSUME DriverTyped, LinksInv, CornerInv, [DriverNext]_<<vars, driver>>
             PROVE  CornerInv'
  OBVIOUS
<1> USE DEF CornerInv
<1>1. ASSUME UNCHANGED neighboors, Tiles' = Tiles PROVE Cornered' /\ Spanned'
  BY <1>1 DEF Cornered, Spanned, SouthEast, Origin
<1>2. ASSUME UNCHANGED <<neighboors, tops, top, inserts, splits>>, Tiles' = Tiles PROVE CornerInv'
  BY <1>1, <1>2 DEF TopsAreEnds, TopHasRoom, IsTop, SplitDir
<1>3. CASE InsertRow
  <2>1. /\ top # None /\ top \in Tiles /\ inserts > 0 /\ SplitDir \in Dir
        /\ tops \in Seq(Tiles) /\ UNCHANGED <<tops, top, splits>>
    BY <1>3, TheCall DEF InsertRow, DriverTyped
  <2>2. SplitDir \in DOMAIN neighboors[top] /\ IsTop(top, SplitDir)
    BY <2>1 DEF TopsAreEnds, TopHasRoom
  <2>3. InsertEmpty(top, SplitDir)
    BY <1>3, <2>2 DEF InsertRow, InsertEmptyRaises
  <2>4. /\ Cornered' /\ Spanned'
        /\ \A t \in Tiles : DOMAIN neighboors[t] \subseteq DOMAIN neighboors'[t]
    BY <2>1, <2>2, <2>3, InsertKeepsCorner
  <2>5. TopHasRoom'
    BY <2>1, <2>2, <2>4 DEF TopHasRoom, SplitDir
  <2>6. \A t \in Tiles : IsTop(t, SplitDir) => Opposite[SplitNext[SplitDir]] \notin DOMAIN neighboors'[t]
    BY <2>1, <2>3, InsertKeepsTops
  <2>7. TopsAreEnds'
    <3>1. \A k \in DOMAIN tops : tops[k] \in Tiles /\ IsTop(tops[k], SplitDir)
      BY <2>1 DEF TopsAreEnds
    <3>2. /\ \A k \in DOMAIN tops : Opposite[SplitNext[SplitDir]] \notin DOMAIN neighboors'[tops[k]]
          /\ Opposite[SplitNext[SplitDir]] \notin DOMAIN neighboors'[top]
      BY <2>1, <2>2, <2>6, <3>1
    <3>. QED
      BY <2>1, <3>2 DEF TopsAreEnds, IsTop, SplitDir
  <2>. QED
    BY <2>4, <2>5, <2>7
<1>4. CASE FindRow
  <2>1. UNCHANGED <<grid, neighboors, splits, top, inserts>>
    BY <1>4 DEF FindRow, vars
  <2>2. PICK t \in Tiles : tops' = Append(tops, t) /\ IsTop(t, SplitDir)
    BY <1>4, FoundTop
  <2>3. \A k \in DOMAIN tops' : IsTop(tops'[k], SplitDir)
    <3>1. tops \in Seq(Tiles)
      BY DEF DriverTyped
    <3>2. \A k \in DOMAIN tops' : (k \in DOMAIN tops /\ tops'[k] = tops[k]) \/ tops'[k] = t
      BY <2>2, <3>1
    <3>. QED
      BY <2>2, <3>2 DEF TopsAreEnds
  <2>. QED
    BY <1>1, <2>1, <2>3 DEF TopsAreEnds, TopHasRoom, IsTop, SplitDir, Tiles
<1>5. CASE StartRow
  <2>1. /\ UNCHANGED <<grid, neighboors, splits>>
        /\ splits # << >> /\ tops # << >> /\ tops \in Seq(Tiles)
        /\ top' = Head(tops) /\ tops' = Tail(tops) /\ inserts' = NumToInsert(Head(tops))
    BY <1>5 DEF StartRow, Splitting, vars, DriverTyped
  <2>2. /\ 1 \in DOMAIN tops /\ Head(tops) = tops[1] /\ Head(tops) \in Tiles
        /\ \A k \in DOMAIN tops' : k + 1 \in DOMAIN tops /\ tops'[k] = tops[k + 1]
    BY <2>1
  <2>3. IsTop(Head(tops), SplitDir) /\ \A k \in DOMAIN tops' : IsTop(tops'[k], SplitDir)
    BY <2>2 DEF TopsAreEnds
  <2>4. SplitDir \in Dir
    BY <2>1, TheCall
  <2>5. inserts' > 0 => SplitDir \in DOMAIN neighboors[Head(tops)]
    BY <2>1, <2>2, <2>3, <2>4, InsertsNeedRoom
  <2>. QED
    BY <1>1, <2>1, <2>3, <2>5 DEF TopsAreEnds, TopHasRoom, IsTop, SplitDir, Tiles
<1>6. CASE MergeTile
  <2>1. UNCHANGED neighboors /\ Tiles' = Tiles
    BY <1>6 DEF MergeTile, MergeInDir, MergeInDirRaises, Tiles
  <2>. QED
    BY <1>2, <1>6, <2>1 DEF MergeTile, driver
<1>7. CASE SplitNextTile
  <2>1. UNCHANGED neighboors /\ Tiles' = Tiles
    <3> PICK t \in Tiles : SplitsOne(t)
      BY <1>7, TheTileToSplit
    <3>. QED
      BY DEF SplitsOne, SplitTile, SplitTileRaises, Tiles
  <2>. QED
    BY <1>2, <1>7, <2>1 DEF SplitNextTile, driver
<1>8. CASE EndMerge \/ EndFind \/ AssignWires \/ UNCHANGED <<vars, driver>>
  <2>1. UNCHANGED <<grid, neighboors, tops, top, inserts, splits>>
    BY <1>8 DEF EndMerge, EndFind, AssignWires, vars, driver
  <2>. QED
    BY <1>2, <2>1 DEF Tiles
<1>9. CASE EndRow \/ EndSplit
  <2>1. UNCHANGED <<grid, neighboors, tops>> /\ top' = None /\ (splits' = splits \/ tops = << >>)
    BY <1>9 DEF EndRow, EndSplit, vars
  <2>. QED
    BY <1>1, <2>1 DEF TopsAreEnds, TopHasRoom, IsTop, SplitDir, Tiles
<1>. QED
  BY <1>2, <1>3, <1>4, <1>5, <1>6, <1>7, <1>8, <1>9 DEF DriverNext

(* Wires are assigned when all merges and splits are done, to the tiles    *)
(* that have their sites or their roots.                                   *)
WiresInv == Assigned => merges = << >> /\ splits = << >> /\ EveryWireHasATile

LEMMA WiresInit == DriverInit => WiresInv
BY DEF DriverInit, WiresInv, Assigned

LEMMA WiresStep ==
  DriverTyped /\ IInv /\ LinksInv /\ CornerInv /\ WiresInv /\ [DriverNext]_<<vars, driver>> => WiresInv'
<1> SUFFICES ASSUME DriverTyped, IInv, LinksInv, CornerInv, WiresInv, [DriverNext]_<<vars, driver>>
             PROVE  WiresInv'
  OBVIOUS
<1>1. CASE AssignWires
  <2>1. UNCHANGED <<grid, neighboors, merges, splits>> /\ merges = << >> /\ splits = << >>
    BY <1>1 DEF AssignWires, vars
  <2>2. OutputTiles = Tiles
    BY OutputIsAll DEF CornerInv
  <2>3. wires' = [w \in Wires |-> IF Homes(w, Tiles) = {} THEN None
                                  ELSE CHOOSE t \in Homes(w, Tiles) : TRUE]
    BY <1>1, <2>2 DEF AssignWires
  <2>4. ASSUME NEW w \in Wires
        PROVE  /\ wires'[w] \in Tiles
               /\ \A t \in Tiles : w \in grid[t].sites => wires'[w] = t
    <3>1. w[1] \in PhyTiles
      BY DEF Wires
    <3>2. PICK t \in Tiles : w[1] \in grid[t].root
      BY <3>1 DEF IInv, EachPhyTileHasOneRoot
    <3>3. Homes(w, Tiles) # {} /\ Homes(w, Tiles) \subseteq Tiles
      BY <3>2 DEF Homes
    <3>4. wires'[w] \in Homes(w, Tiles)
      BY <2>3, <3>3
    <3>5. ASSUME NEW u \in Tiles, w \in grid[u].sites PROVE wires'[w] = u
      <4>1. Homes(w, Tiles) = {v \in Tiles : w \in grid[v].sites}
        BY <3>5 DEF Homes
      <4>. QED
        BY <3>4, <3>5, <4>1 DEF IInv, NoSiteIsDuplicated
    <3>. QED
      BY <3>3, <3>4, <3>5
  <2>5. OutputTiles' = OutputTiles /\ Tiles' = Tiles
    BY <2>1 DEF OutputTiles, Walk, Origin, Tiles
  <2>. QED
    BY <2>1, <2>2, <2>4, <2>5 DEF WiresInv, EveryWireHasATile
<1>2. CASE UNCHANGED <<vars, driver>>
  <2>1. UNCHANGED <<grid, neighboors, wires, merges, splits>>
    BY <1>2 DEF vars, driver
  <2>2. OutputTiles' = OutputTiles /\ Tiles' = Tiles
    BY <2>1 DEF OutputTiles, Walk, Origin, Tiles
  <2>. QED
    BY <2>1, <2>2 DEF WiresInv, EveryWireHasATile, Assigned
<1>3. CASE DriverNext /\ ~AssignWires
  <2>1. merges # << >> \/ splits # << >>
    BY <1>3 DEF DriverNext, MergeTile, EndMerge, FindRow, EndFind, StartRow, InsertRow,
                SplitNextTile, EndRow, EndSplit, Splitting, DriverTyped
  <2>2. UNCHANGED wires
    BY <1>3 DEF DriverNext, MergeTile, EndMerge, FindRow, EndFind, StartRow, InsertRow,
                SplitNextTile, EndRow, EndSplit, driver
  <2>. QED
    BY <2>1, <2>2 DEF WiresInv, Assigned
<1>. QED
  BY <1>1, <1>2, <1>3

(* Every wire gets a tile of the output, for every device and every list   *)
(* of merges and splits: wherever rows were pushed in, output_grid, which  *)
(* starts at the first tile and goes east and south, meets every tile, and *)
(* each wire has a tile to go to, the tile of its site if it has one.      *)
THEOREM WiresHaveTiles == DriverSpec => []EveryWireHasATile
<1> DEFINE Known == DriverTyped /\ IInv /\ LinksInv /\ CornerInv /\ WiresInv
<1>1. DriverInit => Known
  BY InitTyped, InitMaps, InitIInv, InitLinks, CornerInit, WiresInit
<1>2. Known /\ [DriverNext]_<<vars, driver>> => Known'
  BY StepMaps, StutterTyped, NextIInv, NextLinks, CornerStep, WiresStep
<1>3. Known => EveryWireHasATile
  BY DEF WiresInv, EveryWireHasATile
<1>. QED
  BY <1>1, <1>2, <1>3, PTL DEF DriverSpec
-----------------------------------------------------------------------------
(* Two walks along the same row meet the same tiles.                       *)
LEMMA RowUnique ==
  ASSUME NEW t, NEW e, NEW row, NEW line, IsRow(row, t, e), IsRow(line, t, e)
  PROVE  \A u : InRow(line, u) => InRow(row, u)
<1>1. /\ Len(row) \in Nat /\ DOMAIN row = 1 .. Len(row) /\ Len(row) >= 1 /\ row[1] = t
      /\ Len(line) \in Nat /\ DOMAIN line = 1 .. Len(line) /\ line[1] = t
  BY DEF IsRow
<1>2. \A i \in DOMAIN row : IF i < Len(row)
                            THEN e \in DOMAIN neighboors[row[i]] /\ neighboors[row[i]][e] = row[i + 1]
                            ELSE e \notin DOMAIN neighboors[row[i]]
  BY DEF IsRow
<1>3. \A i \in DOMAIN line : i < Len(line) =>
        e \in DOMAIN neighboors[line[i]] /\ neighboors[line[i]][e] = line[i + 1]
  BY DEF IsRow
<1> DEFINE S == {n \in Nat : n + 1 \in DOMAIN line => n + 1 \in DOMAIN row /\ row[n + 1] = line[n + 1]}
<1>4. 0 \in S
  BY <1>1
<1>5. ASSUME NEW n \in Nat, n \in S PROVE n + 1 \in S
  <2> SUFFICES ASSUME n + 2 \in DOMAIN line PROVE n + 2 \in DOMAIN row /\ row[n + 2] = line[n + 2]
    OBVIOUS
  <2>1. n + 1 \in DOMAIN line /\ n + 1 < Len(line) /\ (n + 1) + 1 = n + 2
    BY <1>1
  <2>2. n + 1 \in DOMAIN row /\ row[n + 1] = line[n + 1]
    BY <1>5, <2>1
  <2>3. n + 1 < Len(row) /\ row[n + 2] = line[n + 2]
    BY <1>2, <1>3, <2>1, <2>2
  <2>. QED
    BY <1>1, <2>3
<1> HIDE DEF S
<1>6. Nat \subseteq S
  BY <1>4, <1>5, EveryNatural
<1>7. \A i \in DOMAIN line : i - 1 \in Nat /\ (i - 1) + 1 = i
  BY <1>1
<1>8. \A i \in DOMAIN line : i \in DOMAIN row /\ row[i] = line[i]
  BY <1>6, <1>7 DEF S
<1>. QED
  BY <1>8 DEF InRow

(* A row along which an insertion goes, or parallel to it, stays a row.    *)
LEMMA InsertKeepsRows ==
  ASSUME LinksInv, NEW edge \in Tiles, NEW d \in Dir, InsertEmpty(edge, d),
         NEW v, NEW row, IsRow(row, v, SplitNext[d])
  PROVE  IsRow(row, v, SplitNext[d])'
<1> DEFINE a == SplitNext[d]
           added == Walk(edge, a)
           n == Cardinality(Tiles)
<1>1. Relinks(added, n, d, Opposite[d], a, Opposite[a])
  BY InsertRelinks
<1>2. \A t \in Tiles : /\ a \in DOMAIN neighboors'[t] <=> a \in DOMAIN neighboors[t]
                       /\ a \in DOMAIN neighboors[t] => neighboors'[t][a] = neighboors[t][a]
  BY <1>1 DEF Relinks
<1>3. Tiles \subseteq Tiles' /\ a' = a
  BY InsertedTiles
<1> HIDE DEF a
<1>4. IsRow(row, v, a)
  BY DEF a
<1>5. row \in Seq(Tiles) /\ DOMAIN row = 1 .. Len(row) /\ \A i \in DOMAIN row : row[i] \in Tiles
  BY <1>4 DEF IsRow
<1>6. row \in Seq(Tiles')
  BY <1>3, <1>5
<1>7. IsRow(row, v, a)'
  BY <1>2, <1>3, <1>4, <1>5, <1>6 DEF IsRow
<1>. QED
  BY <1>7 DEF a

(* The tiles that a split takes are all different.                         *)
LEMMA TakenAreDistinct ==
  ASSUME LinksInv, Cornered, Spanned, NEW t \in Tiles, NEW d \in Dir, NEW types,
         NEW n \in Nat \ {0}, NEW new \in [1 .. n -> Tiles], TakenBySplit(new, t, types, d)
  PROVE  \A i, j \in 1 .. n : new[i] = new[j] => i = j
<1>1. /\ new[1] = t
      /\ \A i \in 1 .. n : i > 1 => d \in DOMAIN neighboors[new[i - 1]] /\ neighboors[new[i - 1]][d] = new[i]
  BY DEF TakenBySplit
<1>2. OnLine(d, t)
  BY Lined
<1>3. PICK s \in Tiles : \E row : IsRow(row, s, d) /\ InRow(row, t)
  BY <1>2 DEF OnLine
<1>4. PICK row : IsRow(row, s, d) /\ InRow(row, t)
  BY <1>3
<1>5. PICK k \in DOMAIN row : row[k] = t
  BY <1>4 DEF InRow
<1>6. Len(row) \in Nat /\ DOMAIN row = 1 .. Len(row)
  BY <1>4 DEF IsRow
<1>7. \A i \in DOMAIN row : IF i < Len(row)
                            THEN d \in DOMAIN neighboors[row[i]] /\ neighboors[row[i]][d] = row[i + 1]
                            ELSE d \notin DOMAIN neighboors[row[i]]
  BY <1>4 DEF IsRow
<1> DEFINE S == {m \in Nat : m + 1 \in 1 .. n => k + m \in DOMAIN row /\ new[m + 1] = row[k + m]}
<1>8. 0 \in S
  BY <1>1, <1>5, <1>6
<1>9. ASSUME NEW m \in Nat, m \in S PROVE m + 1 \in S
  <2> SUFFICES ASSUME m + 2 \in 1 .. n
               PROVE  k + (m + 1) \in DOMAIN row /\ new[m + 2] = row[k + (m + 1)]
    OBVIOUS
  <2>1. m + 1 \in 1 .. n /\ m + 2 > 1 /\ (m + 2) - 1 = m + 1
    OBVIOUS
  <2>2. k + m \in DOMAIN row /\ new[m + 1] = row[k + m]
    BY <1>9, <2>1
  <2>3. d \in DOMAIN neighboors[new[m + 1]] /\ neighboors[new[m + 1]][d] = new[m + 2]
    BY <1>1, <2>1
  <2>4. k + m < Len(row) /\ new[m + 2] = row[(k + m) + 1]
    BY <1>7, <2>2, <2>3
  <2>5. (k + m) + 1 = k + (m + 1) /\ k + (m + 1) \in DOMAIN row
    BY <1>6, <2>2, <2>4
  <2>. QED
    BY <2>4, <2>5
<1> HIDE DEF S
<1>10. Nat \subseteq S
  BY <1>8, <1>9, EveryNatural
<1>11. ASSUME NEW i \in 1 .. n PROVE k + (i - 1) \in DOMAIN row /\ new[i] = row[k + (i - 1)]
  <2>1. i - 1 \in Nat /\ (i - 1) + 1 = i
    OBVIOUS
  <2>. QED
    BY <1>10, <2>1 DEF S
<1>12. \A i, j \in DOMAIN row : row[i] = row[j] => i = j
  BY <1>4 DEF IsRow
<1> SUFFICES ASSUME NEW i \in 1 .. n, NEW j \in 1 .. n, new[i] = new[j] PROVE i = j
  OBVIOUS
<1>13. k + (i - 1) = k + (j - 1)
  BY <1>11, <1>12
<1>. QED
  BY <1>6, <1>13
-----------------------------------------------------------------------------
(* What becomes of the tiles, for EveryTileIsSplitOnce.                    *)
IsSplitType(type) == \E i \in DOMAIN Splits : Splits[i][1] = type

(* The types that a split makes are those of no tile of the device, and    *)
(* each is made once.                                                      *)
LEMMA MadeTypes ==
  ASSUME NEW k \in DOMAIN Splits, NEW types, types = TypesOf(Splits[k][3])
  PROVE  /\ DOMAIN types = 1 .. Len(types) /\ Len(types) \in Nat
         /\ \A i \in DOMAIN types : types[i] # Empty /\ ~IsSplitType(types[i])
         /\ \A i, j \in DOMAIN types : types[i] = types[j] => i = j
<1> DEFINE style == Splits[k][3]
<1>1. style \in Styles
  BY CallAssumption
<1>2. /\ \A y, z \in DOMAIN style : style[y] = style[z] => y = z
      /\ \A y \in DOMAIN style : style[y] # Empty /\ \A j \in DOMAIN Splits : style[y] # Splits[j][1]
  BY TypesAssumption
<1> HIDE DEF style
<1>3. /\ DOMAIN types = 1 .. Len(types) /\ Len(types) \in Nat
      /\ \A i \in DOMAIN types : \E y \in DOMAIN style :
           YIndex(style)[y] + 1 = i /\ types[i] = style[y]
  BY <1>1, TypesAndIndexes DEF style
<1>4. \A i \in DOMAIN types : types[i] # Empty /\ ~IsSplitType(types[i])
  BY <1>2, <1>3 DEF IsSplitType
<1>5. ASSUME NEW i \in DOMAIN types, NEW j \in DOMAIN types, types[i] = types[j] PROVE i = j
  <2>1. PICK y \in DOMAIN style : YIndex(style)[y] + 1 = i /\ types[i] = style[y]
    BY <1>3
  <2>2. PICK z \in DOMAIN style : YIndex(style)[z] + 1 = j /\ types[j] = style[z]
    BY <1>3
  <2>. QED
    BY <1>2, <1>5, <2>1, <2>2
<1>. QED
  BY <1>3, <1>4, <1>5

WellSplit(p) ==
  \E i \in DOMAIN Splits :
    /\ phy_tile[p] = Splits[i][1]
    /\ {grid[t].type : t \in Made(p)} = ToSet(TypesOf(Splits[i][3]))
    /\ \A t, u \in Made(p) : grid[t].type = grid[u].type => t = u

Unsplit(p) ==
  /\ grid[p].type = phy_tile[p] /\ ~grid[p].split
  /\ p \in grid[p].phys /\ {p} \X YsOf[phy_tile[p]] \subseteq grid[p].sites
  /\ Made(p) = {}

TheTable == phy_tile \in [PhyTiles -> Types] /\ PhyTiles \subseteq Tiles

(* The phases: no split before the last merge, and first the rows are      *)
(* looked for.                                                             *)
Phases ==
  /\ \A j \in DOMAIN merges : \E m \in DOMAIN Merges : merges[j] = Merges[m]
  /\ merges # << >> => looking /\ seen = {} /\ \A p \in ToBeSplit : Unsplit(p)
  /\ looking => top = None
  /\ ~looking => splits # << >>

(* A phy_tile of a type to split is split, or as it was and its split is   *)
(* still to come.                                                          *)
SplitOrLeft ==
  \A p \in ToBeSplit :
    WellSplit(p) \/ (Unsplit(p) /\ \E j \in DOMAIN splits : splits[j][1] = phy_tile[p])

(* No other tile has a type to split.                                      *)
OfSplitType == \A t \in Tiles : IsSplitType(grid[t].type) => t \in ToBeSplit /\ Unsplit(t)

(* What phy_tile_pkeys says of the tiles to split and of those made.       *)
OwnPhys == \A t \in PhyTiles : ~grid[t].split => grid[t].phys \intersect ToBeSplit \subseteq {t}

MadeOfOne ==
  \A t \in Tiles : grid[t].split =>
    grid[t].type # Empty /\ \E p \in ToBeSplit : grid[t].phys \intersect ToBeSplit = {p}

OthersStay ==
  \A p \in PhyTiles \ ToBeSplit : phy_tile[p] # Empty /\ p \notin ToBeMerged =>
    grid[p].type = phy_tile[p] /\ ~grid[p].split

(* Tiles that were seen, and later all those still to split, are on a row  *)
(* to split.                                                               *)
Covered ==
  /\ looking => \A u \in seen : \E k \in DOMAIN tops : OnRow(tops[k], u)
  /\ ~looking => \A t \in Tiles : grid[t].type = SplitType =>
       (top # None /\ OnRow(top, t)) \/ \E k \in DOMAIN tops : OnRow(tops[k], t)

TilesInv == SplitOrLeft /\ OfSplitType /\ OwnPhys /\ MadeOfOne /\ OthersStay

OnceInv == TheTable /\ Phases /\ TilesInv /\ Covered

LEMMA OnceInit == DriverInit => OnceInv
<1> SUFFICES ASSUME DriverInit PROVE OnceInv
  OBVIOUS
<1>1. phy_tile \in [PhyTiles -> Types] /\ Tiles = PhyTiles
  BY CallAssumption DEF DriverInit, GridInit, Tiles
<1>2. \A p \in PhyTiles : grid[p] = PhysicalTile(p, phy_tile[p])
  BY DEF DriverInit, GridInit
<1>3. ASSUME NEW p \in PhyTiles
      PROVE  /\ grid[p].type = phy_tile[p] /\ ~grid[p].split /\ grid[p].phys = {p}
             /\ grid[p].sites = {p} \X YsOf[phy_tile[p]]
  <2> DEFINE sites == {p} \X YsOf[phy_tile[p]]
  <2>1. grid[p] = [type |-> phy_tile[p], root |-> {p}, phys |-> {p}, sites |-> sites, split |-> FALSE]
    BY <1>2 DEF PhysicalTile
  <2> HIDE DEF sites
  <2>2. /\ grid[p].type = phy_tile[p] /\ ~grid[p].split /\ grid[p].phys = {p}
        /\ grid[p].sites = sites
    BY <2>1
  <2>. QED
    BY <2>2 DEF sites
<1>4. \A p \in PhyTiles : Unsplit(p)
  BY <1>1, <1>3 DEF Unsplit, Made
<1>5. ToBeSplit \subseteq PhyTiles /\ \A p \in PhyTiles : p \in ToBeSplit <=> IsSplitType(phy_tile[p])
  BY DEF ToBeSplit, IsSplitType
<1>6. merges = Merges /\ splits = Splits /\ looking /\ seen = {} /\ top = None
  BY DEF DriverInit
<1>7. TheTable
  BY <1>1 DEF TheTable
<1>8. Phases
  BY <1>4, <1>5, <1>6 DEF Phases
<1>9. SplitOrLeft
  BY <1>4, <1>5, <1>6 DEF SplitOrLeft, IsSplitType
<1>10. OfSplitType
  BY <1>1, <1>3, <1>4, <1>5 DEF OfSplitType
<1>11. OwnPhys /\ MadeOfOne /\ OthersStay
  BY <1>1, <1>3 DEF OwnPhys, MadeOfOne, OthersStay
<1>12. Covered
  BY <1>6 DEF Covered
<1>. QED
  BY <1>7, <1>8, <1>9, <1>10, <1>11, <1>12 DEF OnceInv, TilesInv

(* The rest of the grid stays when a step takes no tile and makes only     *)
(* empty ones.                                                             *)
LEMMA TilesKept ==
  ASSUME TheTable, TilesInv, UNCHANGED <<phy_tile, splits>>,
         Tiles \subseteq Tiles', \A t \in Tiles : grid'[t] = grid[t],
         \A t \in Tiles' \ Tiles : grid'[t].type = Empty /\ ~grid'[t].split
  PROVE  TilesInv'
<1>1. \A p : Made(p)' = Made(p)
  BY DEF Made
<1>2. ToBeSplit' = ToBeSplit /\ ToBeMerged' = ToBeMerged /\ ToBeSplit \subseteq PhyTiles
      /\ PhyTiles \subseteq Tiles
  BY DEF ToBeSplit, ToBeMerged, TheTable
<1>3. ~IsSplitType(Empty)
  BY TypesAssumption DEF IsSplitType
<1>4. ASSUME NEW p \in PhyTiles PROVE Unsplit(p) => Unsplit(p)'
  BY <1>1, <1>2 DEF Unsplit
<1>5. ASSUME NEW p \in PhyTiles PROVE WellSplit(p) => WellSplit(p)'
  <2>1. \A t \in Made(p) : grid'[t] = grid[t]
    BY DEF Made
  <2>. QED
    BY <1>1, <2>1 DEF WellSplit
<1>6. SplitOrLeft'
  BY <1>2, <1>4, <1>5 DEF TilesInv, SplitOrLeft
<1>7. OfSplitType'
  <2> SUFFICES ASSUME NEW t \in Tiles', IsSplitType(grid'[t].type)
               PROVE  t \in ToBeSplit /\ Unsplit(t)'
    BY <1>2 DEF OfSplitType, IsSplitType
  <2>1. t \in Tiles /\ IsSplitType(grid[t].type)
    BY <1>3
  <2>. QED
    BY <1>2, <1>4, <2>1 DEF TilesInv, OfSplitType
<1>8. OwnPhys' /\ OthersStay'
  BY <1>2 DEF TilesInv, OwnPhys, OthersStay
<1>9. MadeOfOne'
  BY <1>2 DEF TilesInv, MadeOfOne
<1>. QED
  BY <1>6, <1>7, <1>8, <1>9 DEF TilesInv

(* A merge takes no tile to split, since it comes before all splits and    *)
(* its type is another.                                                    *)
LEMMA TilesMerged ==
  ASSUME IInv, SplitsComeLast, TheTable, Phases, TilesInv, UNCHANGED <<phy_tile, splits>>,
         merges # << >>, 1 \in DOMAIN merges, NEW t \in ItemsOf(merges[1][1]), NEW d \in Dir, MergeInDir(t, d)
  PROVE  TilesInv' /\ \A p \in ToBeSplit : Unsplit(p)'
<1>1. PICK m \in DOMAIN Merges : merges[1] = Merges[m]
  BY DEF Phases
<1>2. t \in Tiles /\ t \in PhyTiles /\ grid[t].type = Merges[m][1]
  BY <1>1 DEF ItemsOf
<1>3. ToBeSplit' = ToBeSplit /\ ToBeMerged' = ToBeMerged /\ ToBeSplit \subseteq PhyTiles
      /\ PhyTiles \subseteq Tiles /\ \A p \in ToBeSplit : Unsplit(p)
  BY DEF ToBeSplit, ToBeMerged, TheTable, Phases
<1>4. t \notin ToBeSplit
  <2> SUFFICES ASSUME t \in ToBeSplit PROVE FALSE
    OBVIOUS
  <2>1. grid[t].type = phy_tile[t]
    BY <1>3 DEF Unsplit
  <2>. QED
    BY <1>2, <2>1, TypesAssumption DEF ToBeSplit
<1>5. \A u \in Tiles : ~grid[u].split
  BY DEF SplitsComeLast
<1>6. /\ Tiles' = Tiles
      /\ \A u \in Tiles : ~grid'[u].split
      /\ \A u \in Tiles \ {t} :
           /\ grid'[u].type = grid[u].type
           /\ grid[u].phys \subseteq grid'[u].phys /\ grid'[u].phys \subseteq grid[u].phys \union grid[t].phys
           /\ grid[u].sites \subseteq grid'[u].sites
      /\ grid'[t].type = Empty /\ grid'[t].phys \subseteq grid[t].phys
  BY <1>2, <1>5, MergedTiles
<1>7. \A p : Made(p)' = {}
  BY <1>6 DEF Made
<1>8. ASSUME NEW p \in ToBeSplit PROVE Unsplit(p)'
  <2>1. p \in Tiles \ {t} /\ Unsplit(p)
    BY <1>3, <1>4
  <2>. QED
    BY <1>6, <1>7, <2>1 DEF Unsplit
<1>9. SplitOrLeft'
  <2>1. \A p \in ToBeSplit : \E j \in DOMAIN splits : splits[j][1] = phy_tile[p]
    <3> SUFFICES ASSUME NEW p \in ToBeSplit PROVE \E j \in DOMAIN splits : splits[j][1] = phy_tile[p]
      OBVIOUS
    <3>1. ~WellSplit(p)
      <4>1. Made(p) = {}
        BY <1>3 DEF Unsplit
      <4> SUFFICES ASSUME NEW i \in DOMAIN Splits, {grid[u].type : u \in Made(p)} = ToSet(TypesOf(Splits[i][3]))
                   PROVE  FALSE
        BY DEF WellSplit
      <4>2. ToSet(TypesOf(Splits[i][3])) = {}
        BY <4>1
      <4>3. Splits[i][3] \in Styles /\ DOMAIN Splits[i][3] # {}
        BY CallAssumption
      <4>4. PICK y \in DOMAIN Splits[i][3] : TRUE
        BY <4>3
      <4>5. /\ TypesOf(Splits[i][3])[YIndex(Splits[i][3])[y] + 1] = Splits[i][3][y]
            /\ YIndex(Splits[i][3]) \in SplitMaps(TypesOf(Splits[i][3]))
            /\ DOMAIN YIndex(Splits[i][3]) = DOMAIN Splits[i][3]
            /\ DOMAIN TypesOf(Splits[i][3]) = 1 .. Cardinality(DOMAIN Splits[i][3])
            /\ Len(TypesOf(Splits[i][3])) = Cardinality(DOMAIN Splits[i][3])
            /\ Cardinality(DOMAIN Splits[i][3]) \in Nat
        BY <4>3, TypesAndIndexes
      <4>6. YIndex(Splits[i][3])[y] \in 0 .. Len(TypesOf(Splits[i][3])) - 1
        BY <4>5 DEF SplitMaps
      <4>7. YIndex(Splits[i][3])[y] + 1 \in DOMAIN TypesOf(Splits[i][3])
        BY <4>5, <4>6
      <4>. QED
        BY <4>2, <4>7 DEF ToSet
    <3>. QED
      BY <3>1 DEF TilesInv, SplitOrLeft
  <2>. QED
    BY <1>3, <1>8, <2>1 DEF SplitOrLeft
<1>10. OfSplitType'
  <2> SUFFICES ASSUME NEW u \in Tiles, IsSplitType(grid'[u].type)
               PROVE  u \in ToBeSplit
    BY <1>3, <1>6, <1>8 DEF OfSplitType, IsSplitType
  <2>1. u # t
    BY <1>6, TypesAssumption DEF IsSplitType
  <2>. QED
    BY <1>6, <2>1 DEF TilesInv, OfSplitType
<1>11. OwnPhys'
  <2> SUFFICES ASSUME NEW u \in PhyTiles, NEW p \in ToBeSplit, p \in grid'[u].phys PROVE p = u
    BY <1>3 DEF OwnPhys
  <2>1. u \in Tiles /\ p \notin grid[t].phys
    BY <1>2, <1>3, <1>4, <1>5 DEF TilesInv, OwnPhys
  <2>2. p \in grid[u].phys
    BY <1>6, <2>1
  <2>. QED
    BY <1>5, <2>1, <2>2 DEF TilesInv, OwnPhys
<1>12. MadeOfOne'
  BY <1>6 DEF MadeOfOne
<1>13. OthersStay'
  <2> SUFFICES ASSUME NEW p \in PhyTiles \ ToBeSplit, phy_tile[p] # Empty, p \notin ToBeMerged
               PROVE  grid'[p].type = phy_tile[p] /\ ~grid'[p].split
    BY <1>3 DEF OthersStay
  <2>1. grid[p].type = phy_tile[p] /\ p \in Tiles
    BY <1>3 DEF TilesInv, OthersStay
  <2>2. p # t
    BY <1>2, <2>1 DEF ToBeMerged
  <2>. QED
    BY <1>6, <2>1, <2>2
<1>. QED
  BY <1>8, <1>9, <1>10, <1>11, <1>12, <1>13 DEF TilesInv

(* A split makes one tile of each type out of its tile, of empty ones, and *)
(* takes nothing from what was split before.                               *)
LEMMA TilesSplit ==
  ASSUME DriverTyped, LinksInv, IInv, Cornered, Spanned, TheTable, TilesInv,
         UNCHANGED <<phy_tile, splits>>, splits # << >>,
         NEW t \in Tiles, grid[t].type = SplitType,
         SplitTile(t, SplitInto, SplitDir, YIndex(SplitStyle))
  PROVE  /\ TilesInv' /\ Tiles' = Tiles
         /\ \A u \in Tiles : IsSplitType(grid'[u].type) => grid'[u].type = grid[u].type
<1> PICK k \in DOMAIN Splits : Splits[k] = Head(splits)
  BY TheCall
<1> DEFINE types == SplitInto
           map == YIndex(SplitStyle)
<1>1. /\ SplitType = Splits[k][1] /\ SplitStyle = Splits[k][3] /\ SplitStyle \in Styles
      /\ types = TypesOf(Splits[k][3]) /\ types \in SplitTypes /\ SplitDir \in Dir
      /\ DOMAIN SplitStyle = YsOf[SplitType]
  BY TheCall DEF SplitType, SplitStyle, SplitInto
<1>2. t \in ToBeSplit /\ Unsplit(t)
  BY <1>1 DEF TilesInv, OfSplitType, IsSplitType
<1>3. t \in PhyTiles /\ phy_tile[t] = SplitType /\ grid[t].phys \intersect ToBeSplit = {t}
  BY <1>2 DEF Unsplit, TilesInv, OwnPhys, ToBeSplit
<1>4. PICK n \in 1 .. Len(types) : \E new : TakesTiles(n, new, t, types, SplitDir, map)
  BY <1>1, TakenTiles
<1>5. PICK new : TakesTiles(n, new, t, types, SplitDir, map)
  BY <1>4
<1>6. /\ DOMAIN types = 1 .. Len(types) /\ Len(types) \in Nat
      /\ \A i \in DOMAIN types : types[i] # Empty /\ ~IsSplitType(types[i])
      /\ \A i, j \in DOMAIN types : types[i] = types[j] => i = j
  BY <1>1, MadeTypes
<1>7. \A i \in DOMAIN types : \E y \in DOMAIN SplitStyle : map[y] + 1 = i
  BY <1>1, TypesAndIndexes DEF SplitInto
<1> HIDE DEF types, map
<1>8. n = Len(types)
  <2>1. Len(types) \in DOMAIN types
    BY <1>6
  <2>2. PICK y \in DOMAIN SplitStyle : map[y] + 1 = Len(types)
    BY <1>7, <2>1
  <2>3. <<t, y>> \in grid[t].sites /\ <<t, y>>[2] = y
    BY <1>1, <1>2, <1>3 DEF Unsplit
  <2>4. map[y] < n
    BY <1>5, <2>3 DEF TakesTiles
  <2>5. map[y] \in Int
    <3>1. map \in SplitMaps(types) /\ DOMAIN map = DOMAIN SplitStyle
      BY <1>1, TypesAndIndexes DEF map, types, SplitInto
    <3>. QED
      BY <3>1 DEF SplitMaps
  <2>6. n \in Nat /\ n <= Len(types)
    BY <1>4, <1>6
  <2>7. Len(types) \in Nat /\ map[y] + 1 = Len(types)
    BY <1>6, <2>2
  <2>. QED
    BY <2>4, <2>5, <2>6, <2>7
<1>9. \A i, j \in 1 .. n : new[i] = new[j] => i = j
  BY <1>1, <1>5, <1>6, TakenAreDistinct DEF TakesTiles
<1> DEFINE Taken(u) == \E i \in 1 .. n : new[i] = u
<1>10. ASSUME NEW i \in 1 .. n
       PROVE  /\ new[i] \in Tiles /\ grid'[new[i]].type = types[i]
              /\ grid'[new[i]].phys = grid[t].phys /\ grid'[new[i]].split
              /\ new[i] = t \/ grid[new[i]].type = Empty
  <2>1. IndexIn(new, new[i]) = i
    BY <1>5, <1>9 DEF TakesTiles
  <2>. QED
    BY <1>5, <2>1 DEF TakesTiles
<1>11. Tiles' = Tiles /\ \A u \in Tiles : ~Taken(u) => grid'[u] = grid[u]
  BY <1>5 DEF TakesTiles
<1>12. Taken(t) /\ new[1] = t
  BY <1>5, <1>6, <1>8 DEF TakesTiles
<1>13. \A u : Taken(u) => ~grid[u].split /\ u \in Tiles /\ (u = t \/ grid[u].type = Empty)
  BY <1>2, <1>10 DEF Unsplit, TilesInv, MadeOfOne
<1>14. ToBeSplit' = ToBeSplit /\ ToBeMerged' = ToBeMerged /\ ToBeSplit \subseteq PhyTiles
       /\ PhyTiles \subseteq Tiles
  BY DEF ToBeSplit, ToBeMerged, TheTable
<1>15. Made(t)' = {u \in Tiles : Taken(u)}
  <2>1. \A u \in Tiles : Taken(u) => grid'[u].split /\ t \in grid'[u].phys
    BY <1>3, <1>10
  <2>2. \A u \in Tiles : ~Taken(u) => ~(grid[u].split /\ t \in grid[u].phys)
    BY <1>2 DEF Unsplit, Made
  <2>. QED
    BY <1>11, <2>1, <2>2 DEF Made
<1>16. WellSplit(t)'
  <2>1. {grid'[u].type : u \in Made(t)'} = ToSet(types)
    <3>1. ASSUME NEW i \in DOMAIN types PROVE types[i] \in {grid'[u].type : u \in Made(t)'}
      BY <1>6, <1>8, <1>10, <1>15
    <3>2. ASSUME NEW u \in Made(t)' PROVE grid'[u].type \in ToSet(types)
      BY <1>6, <1>8, <1>10, <1>15 DEF ToSet
    <3>. QED
      BY <3>1, <3>2 DEF ToSet
  <2>2. \A u, v \in Made(t)' : grid'[u].type = grid'[v].type => u = v
    BY <1>6, <1>8, <1>10, <1>15
  <2>3. phy_tile'[t] = Splits[k][1] /\ types = TypesOf(Splits[k][3])
    BY <1>1, <1>3 DEF types
  <2>. QED
    BY <2>1, <2>2, <2>3 DEF WellSplit
<1>17. ASSUME NEW q \in ToBeSplit, q # t
       PROVE  /\ Made(q)' = Made(q) /\ \A u \in Made(q) : ~Taken(u)
              /\ WellSplit(q) => WellSplit(q)'
              /\ Unsplit(q) => Unsplit(q)'
  <2>1. \A u \in Tiles : Taken(u) => q \notin grid'[u].phys /\ ~grid[u].split
    BY <1>3, <1>10, <1>13, <1>17
  <2>2. Made(q)' = Made(q) /\ \A u \in Made(q) : ~Taken(u)
    BY <1>11, <2>1 DEF Made
  <2>3. \A u \in Made(q) : grid'[u] = grid[u]
    BY <1>11, <2>2 DEF Made
  <2>4. WellSplit(q) => WellSplit(q)'
    BY <2>2, <2>3 DEF WellSplit
  <2>5. ASSUME Unsplit(q) PROVE Unsplit(q)'
    <3>1. grid[q].type # Empty
      BY <2>5, TypesAssumption DEF Unsplit, ToBeSplit
    <3>2. grid'[q] = grid[q]
      BY <1>11, <1>13, <1>14, <1>17, <3>1
    <3>. QED
      BY <2>2, <2>5, <3>2 DEF Unsplit
  <2>. QED
    BY <2>2, <2>4, <2>5
<1>18. SplitOrLeft'
  BY <1>14, <1>16, <1>17 DEF TilesInv, SplitOrLeft
<1>19. \A u \in Tiles : IsSplitType(grid'[u].type) => ~Taken(u)
  BY <1>6, <1>8, <1>10
<1>20. OfSplitType'
  <2> SUFFICES ASSUME NEW u \in Tiles, IsSplitType(grid'[u].type)
               PROVE  u \in ToBeSplit /\ Unsplit(u)'
    BY <1>11, <1>14 DEF OfSplitType, IsSplitType
  <2>1. grid'[u] = grid[u] /\ u # t
    BY <1>11, <1>12, <1>19
  <2>. QED
    BY <1>17, <2>1 DEF TilesInv, OfSplitType
<1>21. OwnPhys'
  <2> SUFFICES ASSUME NEW u \in PhyTiles, ~grid'[u].split
               PROVE  grid'[u].phys \intersect ToBeSplit \subseteq {u}
    BY <1>14 DEF OwnPhys
  <2>1. u \in Tiles /\ grid'[u] = grid[u]
    BY <1>10, <1>11, <1>14
  <2>. QED
    BY <2>1 DEF TilesInv, OwnPhys
<1>22. MadeOfOne'
  <2> SUFFICES ASSUME NEW u \in Tiles, grid'[u].split
               PROVE  grid'[u].type # Empty /\ \E p \in ToBeSplit : grid'[u].phys \intersect ToBeSplit = {p}
    BY <1>11, <1>14 DEF MadeOfOne
  <2>1. CASE Taken(u)
    BY <1>2, <1>3, <1>6, <1>8, <1>10, <2>1
  <2>2. CASE ~Taken(u)
    BY <1>11, <2>2 DEF TilesInv, MadeOfOne
  <2>. QED
    BY <2>1, <2>2
<1>23. OthersStay'
  <2> SUFFICES ASSUME NEW p \in PhyTiles \ ToBeSplit, phy_tile[p] # Empty, p \notin ToBeMerged
               PROVE  grid'[p].type = phy_tile[p] /\ ~grid'[p].split
    BY <1>14 DEF OthersStay
  <2>1. grid[p].type = phy_tile[p] /\ ~grid[p].split /\ p \in Tiles
    BY <1>14 DEF TilesInv, OthersStay
  <2>2. ~Taken(p)
    BY <1>2, <1>13, <2>1
  <2>. QED
    BY <1>11, <2>1, <2>2
<1>24. \A u \in Tiles : IsSplitType(grid'[u].type) => grid'[u].type = grid[u].type
  BY <1>11, <1>19
<1>. QED
  BY <1>11, <1>18, <1>20, <1>21, <1>22, <1>23, <1>24 DEF TilesInv

(* A row is found where it was as long as the links stay.                  *)
LEMMA RowsStay ==
  ASSUME UNCHANGED <<neighboors, splits>>, Tiles' = Tiles
  PROVE  \A v, u : (\E row : IsRow(row, v, SplitNext[SplitDir]) /\ InRow(row, u)) <=>
                   (\E row : IsRow(row, v, SplitNext[SplitDir])' /\ InRow(row, u))
BY DEF IsRow, SplitDir

LEMMA OnceStep ==
  DriverTyped /\ LinksInv /\ IInv /\ SitesInv /\ CornerInv /\ OnceInv /\ [DriverNext]_<<vars, driver>>
    => OnceInv'
<1> SUFFICES ASSUME DriverTyped, LinksInv, IInv, SitesInv, CornerInv, OnceInv,
                    [DriverNext]_<<vars, driver>>
             PROVE  OnceInv'
  OBVIOUS
<1> USE DEF OnceInv
<1>1. ASSUME Tiles \subseteq Tiles', UNCHANGED phy_tile PROVE TheTable'
  BY <1>1 DEF TheTable
<1>2. ASSUME UNCHANGED <<grid, phy_tile, splits>> PROVE TheTable' /\ TilesInv' /\ Tiles' = Tiles
  <2>1. Tiles' = Tiles
    BY <1>2 DEF Tiles
  <2>. QED
    BY <1>1, <1>2, <2>1, TilesKept
<1>3. ASSUME UNCHANGED <<grid, phy_tile, splits, merges, looking, seen, top>> PROVE Phases'
  <2>1. \A p : Unsplit(p)' <=> Unsplit(p)
    BY <1>3 DEF Unsplit, Made, Tiles
  <2>2. ToBeSplit' = ToBeSplit
    BY <1>3 DEF ToBeSplit
  <2>. QED
    BY <1>3, <2>1, <2>2 DEF Phases
<1>4. ASSUME UNCHANGED <<grid, neighboors, splits, looking, seen, tops, top>> PROVE Covered'
  <2>1. Tiles' = Tiles /\ SplitType' = SplitType
    BY <1>4 DEF Tiles, SplitType
  <2>2. \A v, u : OnRow(v, u)' <=> OnRow(v, u)
    BY <1>4, <2>1, RowsStay DEF OnRow
  <2>. QED
    BY <1>4, <2>1, <2>2 DEF Covered, OnRow
<1>5. CASE MergeTile
  <2>1. merges # << >> /\ UNCHANGED <<phy_tile, merges, splits, looking, seen, tops, top>>
    BY <1>5 DEF MergeTile, driver
  <2>2. looking /\ seen = {} /\ 1 \in DOMAIN merges /\ merges[1][2] \in Dir /\ Head(merges) = merges[1]
    BY <2>1 DEF Phases, DriverTyped
  <2> PICK t \in ItemsOf(merges[1][1]) :
        MergeInDir(t, merges[1][2]) \/ MergeInDirRaises(t, merges[1][2])
    BY <1>5, <2>2 DEF MergeTile
  <2>3. t \in Tiles
    BY DEF ItemsOf
  <2>4. CASE MergeInDir(t, merges[1][2])
    <3>1. TilesInv' /\ \A p \in ToBeSplit : Unsplit(p)'
      BY <2>1, <2>2, <2>4, TilesMerged DEF SitesInv
    <3>2. Tiles' = Tiles
      BY <2>4 DEF MergeInDir, Tiles
    <3>3. ToBeSplit' = ToBeSplit
      BY <2>1 DEF ToBeSplit
    <3>4. Phases'
      BY <2>1, <2>2, <3>1, <3>3 DEF Phases
    <3>5. Covered'
      BY <2>1, <2>2 DEF Covered
    <3>. QED
      BY <1>1, <2>1, <3>1, <3>2, <3>4, <3>5
  <2>5. CASE MergeInDirRaises(t, merges[1][2])
    BY <1>2, <1>3, <1>4, <2>1, <2>5 DEF MergeInDirRaises
  <2>. QED
    BY <2>4, <2>5
<1>6. CASE EndMerge
  <2>1. /\ UNCHANGED <<grid, neighboors, phy_tile, splits, looking, seen, tops, top>>
        /\ merges # << >> /\ merges' = Tail(merges)
    BY <1>6 DEF EndMerge, vars
  <2>2. merges \in Seq(Types \X Dir)
    BY DEF DriverTyped
  <2>3. \A j \in DOMAIN merges' : j + 1 \in DOMAIN merges /\ merges'[j] = merges[j + 1]
    BY <2>1, <2>2
  <2>4. \A p : Unsplit(p)' <=> Unsplit(p)
    BY <2>1 DEF Unsplit, Made, Tiles
  <2>5. ToBeSplit' = ToBeSplit
    BY <2>1 DEF ToBeSplit
  <2>6. Phases'
    BY <2>1, <2>3, <2>4, <2>5 DEF Phases
  <2>. QED
    BY <1>2, <1>4, <2>1, <2>6
<1>7. CASE FindRow
  <2>1. /\ UNCHANGED <<grid, neighboors, phy_tile, merges, splits, looking, top>>
        /\ looking /\ merges = << >>
    BY <1>7 DEF FindRow, Splitting, vars
  <2>2. PICK v \in Tiles : tops' = Append(tops, v) /\ \A u \in seen' : u \in seen \/ OnRow(v, u)
    BY <1>7, FoundTop DEF CornerInv
  <2>3. Tiles' = Tiles /\ TheTable' /\ TilesInv'
    BY <1>2, <2>1
  <2>4. Phases'
    BY <2>1 DEF Phases
  <2>5. \A w, u : OnRow(w, u)' <=> OnRow(w, u)
    BY <2>1, <2>3, RowsStay DEF OnRow
  <2>6. Covered'
    <3>1. /\ tops \in Seq(Tiles) /\ Len(tops') \in DOMAIN tops' /\ tops'[Len(tops')] = v
          /\ \A k \in DOMAIN tops : k \in DOMAIN tops' /\ tops'[k] = tops[k]
      BY <2>2 DEF DriverTyped
    <3>2. \A u \in seen' : \E k \in DOMAIN tops' : OnRow(tops'[k], u)
      BY <2>1, <2>2, <3>1 DEF Covered
    <3>. QED
      BY <2>1, <2>5, <3>2 DEF Covered, OnRow
  <2>. QED
    BY <2>3, <2>4, <2>6
<1>8. CASE EndFind
  <2>1. /\ UNCHANGED <<grid, neighboors, phy_tile, merges, splits, seen, tops, top>>
        /\ looking /\ ~looking' /\ merges = << >> /\ splits # << >> /\ ItemsOf(SplitType) \subseteq seen
    BY <1>8 DEF EndFind, Splitting, vars
  <2>2. Tiles' = Tiles /\ TheTable' /\ TilesInv'
    BY <1>2, <2>1
  <2>3. Phases'
    BY <2>1 DEF Phases
  <2>4. ASSUME NEW t \in Tiles, grid[t].type = SplitType PROVE t \in seen
    <3>1. IsSplitType(SplitType)
      BY <2>1, TheCall DEF IsSplitType, SplitType
    <3>2. t \in PhyTiles
      BY <2>4, <3>1 DEF TilesInv, OfSplitType, ToBeSplit
    <3>. QED
      BY <2>1, <2>4, <3>2 DEF ItemsOf
  <2>5. \A w, u : OnRow(w, u)' <=> OnRow(w, u)
    BY <2>1, <2>2, RowsStay DEF OnRow
  <2>6. Covered'
    <3>1. SplitType' = SplitType
      BY <2>1 DEF SplitType
    <3>2. \A t \in Tiles : grid[t].type = SplitType => \E k \in DOMAIN tops : OnRow(tops[k], t)
      BY <2>1, <2>4 DEF Covered
    <3>. QED
      BY <2>1, <2>2, <2>5, <3>1, <3>2 DEF Covered, OnRow
  <2>. QED
    BY <2>2, <2>3, <2>6
<1>9. CASE StartRow
  <2>1. /\ UNCHANGED <<grid, neighboors, phy_tile, merges, splits, looking, seen>>
        /\ ~looking /\ merges = << >> /\ tops # << >> /\ top = None /\ top' = Head(tops) /\ tops' = Tail(tops)
    BY <1>9 DEF StartRow, Splitting, vars
  <2>2. Tiles' = Tiles /\ TheTable' /\ TilesInv'
    BY <1>2, <2>1
  <2>3. Phases'
    BY <2>1 DEF Phases
  <2>4. \A w, u : OnRow(w, u)' <=> OnRow(w, u)
    BY <2>1, <2>2, RowsStay DEF OnRow
  <2>5. Covered'
    <3>1. tops \in Seq(Tiles) /\ tops # << >>
      BY <2>1 DEF DriverTyped
    <3>2. \A k \in DOMAIN tops : tops[k] = top' \/ \E l \in DOMAIN tops' : tops'[l] = tops[k]
      <4> SUFFICES ASSUME NEW k \in DOMAIN tops, k # 1 PROVE \E l \in DOMAIN tops' : tops'[l] = tops[k]
        BY <2>1, <3>1
      <4>1. k - 1 \in DOMAIN tops' /\ tops'[k - 1] = tops[k]
        BY <2>1, <3>1
      <4>. QED
        BY <4>1
    <3>3. top' # None
      <4>1. top' \in Tiles
        BY <2>1, <3>1
      <4>. QED
        BY <4>1 DEF LinksInv, Numbered, None
    <3>4. SplitType' = SplitType
      BY <2>1 DEF SplitType
    <3>5. \A t \in Tiles : grid[t].type = SplitType =>
            OnRow(top', t) \/ \E l \in DOMAIN tops' : OnRow(tops'[l], t)
      BY <2>1, <3>2 DEF Covered
    <3>. QED
      BY <2>1, <2>2, <2>4, <3>3, <3>4, <3>5 DEF Covered, OnRow
  <2>. QED
    BY <2>2, <2>3, <2>5
<1>10. CASE InsertRow
  <2>1. /\ top # None /\ top \in Tiles /\ splits # << >> /\ SplitDir \in Dir
        /\ UNCHANGED <<phy_tile, merges, splits, looking, seen, tops, top>>
    BY <1>10, TheCall DEF InsertRow, DriverTyped
  <2>2. ~looking /\ merges = << >>
    BY <2>1 DEF Phases, SitesInv, SplitsComeLast
  <2>3. Phases'
    BY <2>1, <2>2 DEF Phases
  <2>4. CASE InsertEmpty(top, SplitDir)
    <3>1. /\ Tiles \subseteq Tiles' /\ \A t \in Tiles : grid'[t] = grid[t]
          /\ \A t \in Tiles' \ Tiles : grid'[t].type = Empty /\ ~grid'[t].split
      BY <2>4, InsertedTiles
    <3>2. TheTable' /\ TilesInv'
      BY <1>1, <2>1, <3>1, TilesKept
    <3>3. \A v, row : IsRow(row, v, SplitNext[SplitDir]) => IsRow(row, v, SplitNext[SplitDir])'
      <4>1. \A v, row : IsRow(row, v, SplitNext[SplitDir]) =>
              /\ row \in Seq(Tiles') /\ Len(row) >= 1 /\ row[1] = v
              /\ \A i \in DOMAIN row :
                   IF i < Len(row)
                   THEN /\ SplitNext[SplitDir] \in DOMAIN neighboors'[row[i]]
                        /\ neighboors'[row[i]][SplitNext[SplitDir]] = row[i + 1]
                   ELSE SplitNext[SplitDir] \notin DOMAIN neighboors'[row[i]]
              /\ \A i, j \in DOMAIN row : row[i] = row[j] => i = j
        BY <2>1, <2>4, InsertKeepsRows DEF IsRow
      <4>2. SplitDir' = SplitDir
        BY <2>1 DEF SplitDir
      <4>. QED
        BY <4>1, <4>2 DEF IsRow
    <3>4. Covered'
      <4>1. SplitType' = SplitType /\ SplitType # Empty
        BY <2>1, TheCall, TypesAssumption DEF SplitType
      <4>2. \A v, u : OnRow(v, u) => \E row : IsRow(row, v, SplitNext[SplitDir])' /\ InRow(row, u)
        BY <3>3 DEF OnRow
      <4>3. \A t \in Tiles' : grid'[t].type = SplitType => t \in Tiles /\ grid[t].type = SplitType
        BY <3>1, <4>1
      <4>. QED
        BY <2>1, <2>2, <4>1, <4>2, <4>3 DEF Covered, OnRow
    <3>. QED
      BY <2>3, <3>2, <3>4
  <2>5. CASE InsertEmptyRaises(top, SplitDir)
    BY <1>2, <1>4, <2>1, <2>3, <2>5 DEF InsertEmptyRaises
  <2>. QED
    BY <1>10, <2>4, <2>5 DEF InsertRow
<1>11. CASE SplitNextTile
  <2>1. /\ top # None /\ splits # << >> /\ UNCHANGED <<phy_tile, merges, splits, looking, seen, tops, top>>
    BY <1>11 DEF SplitNextTile, DriverTyped, driver
  <2>2. ~looking /\ merges = << >>
    BY <2>1 DEF Phases, SitesInv, SplitsComeLast
  <2>3. Phases'
    BY <2>1, <2>2 DEF Phases
  <2> PICK t \in Tiles : grid[t].type = SplitType /\ SplitsOne(t)
    BY <1>11, TheTileToSplit
  <2>4. CASE SplitTile(t, SplitInto, SplitDir, YIndex(SplitStyle))
    <3>1. /\ TilesInv' /\ Tiles' = Tiles
          /\ \A u \in Tiles : IsSplitType(grid'[u].type) => grid'[u].type = grid[u].type
      BY <2>1, <2>4, TilesSplit DEF CornerInv
    <3>2. neighboors' = neighboors
      BY <2>4 DEF SplitTile
    <3>3. \A w, u : OnRow(w, u)' <=> OnRow(w, u)
      BY <2>1, <3>1, <3>2, RowsStay DEF OnRow
    <3>4. SplitType' = SplitType /\ IsSplitType(SplitType)
      BY <2>1, TheCall DEF SplitType, IsSplitType
    <3>5. Covered'
      BY <2>1, <2>2, <3>1, <3>3, <3>4 DEF Covered, OnRow
    <3>. QED
      BY <1>1, <2>1, <2>3, <3>1, <3>5
  <2>5. CASE SplitTileRaises(t, SplitInto, SplitDir, YIndex(SplitStyle))
    BY <1>2, <1>4, <2>1, <2>3, <2>5 DEF SplitTileRaises
  <2>. QED
    BY <2>4, <2>5 DEF SplitsOne
<1>12. CASE EndRow
  <2>1. /\ UNCHANGED <<grid, neighboors, phy_tile, merges, splits, looking, seen, tops>>
        /\ top # None /\ top' = None /\ ToSplit(Walk(top, SplitNext[SplitDir])) = {}
        /\ top \in Tiles /\ splits # << >>
    BY <1>12 DEF EndRow, vars, DriverTyped
  <2>2. ~looking /\ merges = << >>
    BY <2>1 DEF Phases, SitesInv, SplitsComeLast
  <2>3. Tiles' = Tiles /\ TheTable' /\ TilesInv'
    BY <1>2, <2>1
  <2>4. Phases'
    BY <2>1, <2>2 DEF Phases
  <2>5. ASSUME NEW t \in Tiles, grid[t].type = SplitType PROVE ~OnRow(top, t)
    <3>1. SplitNext[SplitDir] \in Dir /\ IsTop(top, SplitDir)
      BY <2>1, TheCall, Directions DEF CornerInv, TopsAreEnds
    <3>2. IsRow(Walk(top, SplitNext[SplitDir]), top, SplitNext[SplitDir])
      BY <2>1, <3>1, WalkIsARow DEF IsTop
    <3>3. ~InRow(Walk(top, SplitNext[SplitDir]), t)
      BY <2>1, <2>5 DEF ToSplit, InRow
    <3>. QED
      BY <3>2, <3>3, RowUnique DEF OnRow
  <2>6. \A w, u : OnRow(w, u)' <=> OnRow(w, u)
    BY <2>1, <2>3, RowsStay DEF OnRow
  <2>7. Covered'
    <3>1. SplitType' = SplitType
      BY <2>1 DEF SplitType
    <3>2. \A t \in Tiles : grid[t].type = SplitType => \E k \in DOMAIN tops : OnRow(tops[k], t)
      BY <2>2, <2>5 DEF Covered
    <3>. QED
      BY <2>1, <2>2, <2>3, <2>6, <3>1, <3>2 DEF Covered, OnRow
  <2>. QED
    BY <2>3, <2>4, <2>7
<1>13. CASE EndSplit
  <2>1. /\ UNCHANGED <<grid, phy_tile, merges, tops, top>>
        /\ merges = << >> /\ splits # << >> /\ splits' = Tail(splits)
        /\ ~looking /\ looking' /\ seen' = {} /\ top = None /\ tops = << >>
    BY <1>13 DEF EndSplit, Splitting, vars
  <2>2. Tiles' = Tiles /\ TheTable'
    BY <1>1, <2>1 DEF Tiles
  <2>3. Phases'
    BY <2>1 DEF Phases
  <2>4. Covered'
    BY <2>1 DEF Covered
  <2>5. \A t \in Tiles : grid[t].type # SplitType
    BY <2>1 DEF Covered
  <2>6. ToBeSplit' = ToBeSplit /\ ToBeMerged' = ToBeMerged /\ ToBeSplit \subseteq Tiles
    BY <2>1 DEF ToBeSplit, ToBeMerged, TheTable
  <2>7. \A p : (Unsplit(p)' <=> Unsplit(p)) /\ (WellSplit(p)' <=> WellSplit(p))
    <3>1. \A p : Made(p)' = Made(p)
      BY <2>1 DEF Made, Tiles
    <3>2. \A p : Unsplit(p)' <=> Unsplit(p)
      BY <2>1, <3>1 DEF Unsplit
    <3>3. \A p : WellSplit(p)' <=> WellSplit(p)
      BY <2>1, <3>1 DEF WellSplit
    <3>. QED
      BY <3>2, <3>3
  <2>8. SplitOrLeft'
    <3> SUFFICES ASSUME NEW p \in ToBeSplit, Unsplit(p), NEW j \in DOMAIN splits,
                        splits[j][1] = phy_tile[p]
                 PROVE  \E l \in DOMAIN splits' : splits'[l][1] = phy_tile[p]
      BY <2>1, <2>6, <2>7 DEF TilesInv, SplitOrLeft
    <3>1. grid[p].type = phy_tile[p] /\ p \in Tiles
      BY <2>6 DEF Unsplit
    <3>2. splits \in Seq(Types \X Dir \X Styles)
      BY DEF DriverTyped
    <3>3. j # 1
      BY <2>1, <2>5, <3>1, <3>2 DEF SplitType
    <3>4. j - 1 \in DOMAIN splits' /\ splits'[j - 1] = splits[j]
      BY <2>1, <3>2, <3>3
    <3>. QED
      BY <3>4
  <2>9. OfSplitType' /\ OwnPhys' /\ MadeOfOne' /\ OthersStay'
    BY <2>1, <2>2, <2>6, <2>7 DEF TilesInv, OfSplitType, OwnPhys, MadeOfOne, OthersStay, IsSplitType
  <2>. QED
    BY <2>2, <2>3, <2>4, <2>8, <2>9 DEF TilesInv
<1>14. CASE AssignWires \/ UNCHANGED <<vars, driver>>
  <2>1. UNCHANGED <<grid, neighboors, phy_tile, merges, splits, looking, seen, tops, top>>
    BY <1>14 DEF AssignWires, vars, driver
  <2>. QED
    BY <1>2, <1>3, <1>4, <2>1
<1>. QED
  BY <1>5, <1>6, <1>7, <1>8, <1>9, <1>10, <1>11, <1>12, <1>13, <1>14 DEF DriverNext

(* For every device, and every list of merges and splits, in whatever      *)
(* order the tiles come: when the loops of split_tile_type have ended, no  *)
(* tile of a type to split was left out, none was taken twice, and no      *)
(* split took a tile that was not empty.                                   *)
THEOREM TilesAreSplitOnce == DriverSpec => []EveryTileIsSplitOnce
<1> DEFINE Known == DriverTyped /\ LinksInv /\ IInv /\ SitesInv /\ CornerInv /\ OnceInv
<1>1. DriverInit => Known
  BY InitTyped, InitMaps, InitIInv, InitLinks, SitesInit, CornerInit, OnceInit
<1>2. Known /\ [DriverNext]_<<vars, driver>> => Known'
  BY StepMaps, StutterTyped, NextIInv, NextLinks, SitesStep, CornerStep, OnceStep
<1>3. Known => EveryTileIsSplitOnce
  <2> SUFFICES ASSUME OnceInv, Done PROVE EveryTileIsSplitOnce
    BY DEF EveryTileIsSplitOnce
  <2>1. splits = << >>
    BY DEF Done
  <2>2. \A p \in ToBeSplit : WellSplit(p)
    BY <2>1 DEF OnceInv, TilesInv, SplitOrLeft
  <2>3. \A t \in Tiles : grid[t].split => \E p \in ToBeSplit : grid[t].phys \intersect ToBeSplit = {p}
    BY DEF OnceInv, TilesInv, MadeOfOne
  <2>4. \A p, q \in ToBeSplit : p # q => Made(p) \intersect Made(q) = {}
    BY <2>3 DEF Made
  <2>5. \A t \in Tiles : grid[t].split => \E p \in ToBeSplit : t \in Made(p)
    BY <2>3 DEF Made
  <2>. QED
    BY <2>2, <2>4, <2>5 DEF EveryTileIsSplitOnce, WellSplit, OnceInv, TilesInv, OthersStay
<1>. QED
  BY <1>1, <1>2, <1>3, PTL DEF DriverSpec
=============================================================================
