------------------------------ MODULE TileGrid ------------------------------
(***************************************************************************)
(* utils/tile_splitter/grid.py: a grid of Tile objects linked to their     *)
(* neighbours, whose tiles are merged, split, and pushed apart by empty    *)
(* rows and columns.  One action per operation on the linked tiles; the    *)
(* methods that loop over them (merge_tile_type, split_in_dir and          *)
(* split_tile_type) are in VprGrid.                                        *)
(*                                                                         *)
(* Tiles are numbered in the order they are made.  The initial tile p is   *)
(* made from the phy_tile p.  The lists root_phy_tile_pkeys and            *)
(* phy_tile_pkeys are sets here, without their order.                      *)
(***************************************************************************)
EXTENDS Integers, Sequences, FiniteSets

CONSTANTS
  Width, Height,   \* of the initial grid
  Types,           \* tile_type_pkeys a tile can have
  Empty,           \* empty_tile_type_pkey
  SplitTypes,      \* the lists of tile_type_pkeys that tiles are split into
  SiteYs,          \* the y coordinates that sites have in their tiles
  YsOf,            \* those of the sites that the phy_tiles of a type have
  MaxTiles,        \* bound: tiles there ever are
  MaxOps           \* bound: operations done on one grid

ASSUME GridAssumption ==
  /\ Width \in Nat \ {0} /\ Height \in Nat \ {0}
  /\ Width * Height <= MaxTiles /\ MaxTiles \in Nat /\ MaxOps \in Nat
  /\ Empty \in Types
  /\ SplitTypes \subseteq Seq(Types)
  /\ SiteYs \subseteq Nat
  /\ YsOf \in [Types -> SUBSET SiteYs]

VARIABLES
  grid,         \* the Tile objects: type, root, phys, sites, split
  neighboors,   \* for each tile, the tile in each direction that has one
  raised,       \* the exception an operation ended with, if any
  ops           \* the number of operations done, for the bound only

vars == <<grid, neighboors, raised, ops>>

Dir == {"NORTH", "SOUTH", "EAST", "WEST"}

Opposite ==
  [NORTH |-> "SOUTH", SOUTH |-> "NORTH", EAST |-> "WEST", WEST |-> "EAST"]

(* SPLIT_NEXT_DIRECTIONS: along the row or column that is inserted.        *)
SplitNext ==
  [NORTH |-> "EAST", SOUTH |-> "EAST", EAST |-> "SOUTH", WEST |-> "SOUTH"]

PhyTiles == 1 .. Width * Height

(* A site of a physical tile, known by its y coordinate in the tile.       *)
Sites == PhyTiles \X SiteYs

Tile ==
  [type : Types, root : SUBSET PhyTiles, phys : SUBSET PhyTiles, sites : SUBSET Sites,
   split : BOOLEAN]

Tiles == DOMAIN grid

(* Grid.__init__ with build_mesh: tile (x, y) is number y * Width + x + 1. *)
Mesh ==
  [t \in PhyTiles |->
     LET x == (t - 1) % Width
         y == (t - 1) \div Width
     IN  [d \in {e \in Dir : \/ e = "NORTH" /\ y > 0
                             \/ e = "SOUTH" /\ y < Height - 1
                             \/ e = "EAST" /\ x < Width - 1
                             \/ e = "WEST" /\ x > 0} |->
            CASE d = "NORTH" -> t - Width
              [] d = "SOUTH" -> t + Width
              [] d = "EAST"  -> t + 1
              [] d = "WEST"  -> t - 1]]

Origin == 1

(* A tile as it is made from phy_tile p, with the sites of its type.       *)
PhysicalTile(p, type) ==
  [type |-> type, root |-> {p}, phys |-> {p}, sites |-> {p} \X YsOf[type], split |-> FALSE]

Init ==
  /\ \E types \in [PhyTiles -> Types] : grid = [p \in PhyTiles |-> PhysicalTile(p, types[p])]
  /\ neighboors = Mesh
  /\ raised = "nothing"
  /\ ops = 0

(* walk_in_direction: the tiles from t to the end of the grid.             *)
Walk(t, d) ==
  LET ahead == [u \in Tiles |-> IF d \in DOMAIN neighboors[u] THEN neighboors[u][d] ELSE u]
      node[n \in 0 .. MaxTiles] == IF n = 0 THEN t ELSE ahead[node[n - 1]]
      steps == {n \in 1 .. MaxTiles : node[n] # node[n - 1]}
  IN  [i \in 1 .. Cardinality(steps) + 1 |-> node[i - 1]]

(* Mutants of EmptiedTile: a list is merged but not emptied.               *)
EmptiedTile_KeepsRoot(t) == [grid[t] EXCEPT !.type = Empty, !.phys = {}, !.sites = {}]

EmptiedTile(t) ==
  [grid[t] EXCEPT !.type = Empty, !.root = {}, !.phys = {}, !.sites = {}]

(* merge_in_dir: everything t has goes to its neighbour, and t is empty.   *)
MergeInDir(t, d) ==
  /\ d \in DOMAIN neighboors[t]
  /\ \E into \in Tiles :
       /\ neighboors[t][d] = into
       /\ grid' = [grid EXCEPT ![t] = EmptiedTile(t),
                               ![into].root = @ \union grid[t].root,
                               ![into].phys = @ \union grid[t].phys,
                               ![into].sites = @ \union grid[t].sites]
  /\ UNCHANGED <<neighboors, raised>>

(* Its assertion that there is a neighbour to merge into.                  *)
MergeInDirRaises(t, d) ==
  /\ d \notin DOMAIN neighboors[t]
  /\ raised' = "AssertionError"
  /\ UNCHANGED <<grid, neighboors>>

(* new is what split_tile collects while it walks from t: as many tiles as *)
(* there are types, or all there are before the end of the grid.           *)
TakenBySplit(new, t, types, d) ==
  /\ new[1] = t
  /\ \A i \in DOMAIN new : i > 1 =>
       d \in DOMAIN neighboors[new[i - 1]] /\ neighboors[new[i - 1]][d] = new[i]
  /\ Len(new) = Len(types) \/ d \notin DOMAIN neighboors[new[Len(new)]]

NewTiles(types) == UNION {[1 .. n -> Tiles] : n \in 1 .. Len(types)}

(* split_tile: t and the empty tiles after it become types[1], types[2]... *)
(* of the phy_tiles of t, and share out the sites of t; map[y] is the      *)
(* index that sites at y go to.                                            *)
SplitTile(t, types, d, map) ==
  \E new \in NewTiles(types) :
    LET Index(u) == CHOOSE i \in DOMAIN new : new[i] = u
        taken == {new[i] : i \in DOMAIN new}
    IN  /\ TakenBySplit(new, t, types, d)
        /\ \A u \in taken \ {t} : grid[u].type = Empty
        /\ \A s \in grid[t].sites : s[2] \in DOMAIN map /\ map[s[2]] < Len(new)
        /\ grid' = [u \in Tiles |->
             IF u \in taken
             THEN [type |-> types[Index(u)], root |-> grid[u].root, phys |-> grid[t].phys,
                   sites |-> {s \in grid[t].sites : map[s[2]] + 1 = Index(u)},
                   split |-> TRUE]
             ELSE grid[u]]
        /\ UNCHANGED <<neighboors, raised>>

(* The ways split_tile ends in an exception: its assertion that the tiles  *)
(* it takes are empty, a site that the map does not have, or an index past *)
(* the last tile it took; which site comes first is open.  The grid, half  *)
(* changed and lost with the exception, is shown as it was.                *)
SplitTileRaises(t, types, d, map) ==
  \E new \in NewTiles(types) :
    LET occupied == \E i \in DOMAIN new : new[i] # t /\ grid[new[i]].type # Empty
        unmapped == \E s \in grid[t].sites : s[2] \notin DOMAIN map
        missing  == \E s \in grid[t].sites : s[2] \in DOMAIN map /\ map[s[2]] >= Len(new)
    IN  /\ TakenBySplit(new, t, types, d)
        /\ \/ occupied /\ raised' = "AssertionError"
           \/ ~occupied /\ unmapped /\ raised' = "KeyError"
           \/ ~occupied /\ missing /\ raised' = "IndexError"
        /\ UNCHANGED <<grid, neighboors>>

(* top is the end of its row or column where an insertion must start.      *)
IsTop(top, d) == Opposite[SplitNext[d]] \notin DOMAIN neighboors[top]

(* Mutant of Relinked: the old neighbour keeps pointing at its old tile.   *)
Relinked_OneWay(row, d, n, t) ==
  IF \E i \in DOMAIN row : row[i] = t
  THEN [e \in DOMAIN neighboors[t] \union {d} |->
          IF e = d THEN n + (CHOOSE i \in DOMAIN row : row[i] = t) ELSE neighboors[t][e]]
  ELSE neighboors[t]

(* insert_in_direction, on the tiles that were there: those of the row, and *)
(* the old neighbours behind them, now point at the new tiles.             *)
Relinked(row, d, n, t) ==
  LET inRow  == {i \in DOMAIN row : row[i] = t}
      behind == {i \in DOMAIN row : d \in DOMAIN neighboors[row[i]] /\ neighboors[row[i]][d] = t}
  IN  [e \in DOMAIN neighboors[t] \union (IF inRow = {} THEN {} ELSE {d}) |->
         IF e = d /\ inRow # {} THEN n + (CHOOSE i \in inRow : TRUE)
         ELSE IF e = Opposite[d] /\ behind # {} THEN n + (CHOOSE i \in behind : TRUE)
         ELSE neighboors[t][e]]

(* The links of the tile inserted beside row[i]: to row[i], to the old      *)
(* neighbour of row[i], and to the tiles inserted before and after it; n   *)
(* tiles were there before.                                                *)
LinksOfNew(row, d, n, i) ==
  LET along == SplitNext[d]
  IN  [e \in {Opposite[d]} \union (DOMAIN neighboors[row[i]] \intersect {d})
                           \union (IF i < Len(row) THEN {along} ELSE {})
                           \union (IF i > 1 THEN {Opposite[along]} ELSE {}) |->
         CASE e = Opposite[d]     -> row[i]
           [] e = d               -> neighboors[row[i]][d]
           [] e = along           -> n + i + 1
           [] e = Opposite[along] -> n + i - 1]

(* insert_empty: a new empty tile beside every tile of the row or column   *)
(* that starts at top, of the same phy_tiles.                              *)
InsertEmpty(top, d) ==
  LET row    == Walk(top, SplitNext[d])
      n      == Cardinality(Tiles)
      added  == {n + i : i \in DOMAIN row}
  IN  /\ IsTop(top, d)
      /\ Cardinality(Tiles \union added) <= MaxTiles
      /\ grid' = [t \in Tiles \union added |->
           IF t \in Tiles THEN grid[t]
           ELSE [type |-> Empty, root |-> {}, phys |-> grid[row[t - n]].phys, sites |-> {},
                 split |-> FALSE]]
      /\ neighboors' = [t \in Tiles \union added |->
           IF t \in Tiles THEN Relinked(row, d, n, t)
           ELSE LinksOfNew(row, d, n, t - n)]
      /\ UNCHANGED raised

(* Its assertion that top is the end of its row or column.                 *)
InsertEmptyRaises(top, d) ==
  /\ ~IsTop(top, d)
  /\ raised' = "AssertionError"
  /\ UNCHANGED <<grid, neighboors>>

(* Site y coordinates are mapped to one of the new types.                  *)
SplitMaps(types) == UNION {[ys -> 0 .. Len(types) - 1] : ys \in SUBSET SiteYs}

Next ==
  /\ raised = "nothing"
  /\ ops < MaxOps
  /\ ops' = ops + 1
  /\ \E t \in Tiles, d \in Dir :
       \/ MergeInDir(t, d) \/ MergeInDirRaises(t, d)
       \/ InsertEmpty(t, d) \/ InsertEmptyRaises(t, d)
       \/ \E types \in SplitTypes : \E map \in SplitMaps(types) :
            SplitTile(t, types, d, map) \/ SplitTileRaises(t, types, d, map)

Spec == Init /\ [][Next]_vars
-----------------------------------------------------------------------------
TypeOK ==
  /\ Tiles = 1 .. Cardinality(Tiles)
  /\ grid \in [Tiles -> Tile]
  /\ DOMAIN neighboors = Tiles
  /\ \A t \in Tiles : DOMAIN neighboors[t] \subseteq Dir
  /\ \A t \in Tiles : \A d \in DOMAIN neighboors[t] : neighboors[t][d] \in Tiles
  /\ raised \in {"nothing", "AssertionError", "KeyError", "IndexError"}
  /\ ops \in 0 .. MaxOps

(* "Each phy_tile_pkey will appear in 1 and only 1 Tile object's           *)
(* root_phy_tile_pkeys list": wires, pips and sites of a physical tile     *)
(* find their tile through it.                                             *)
EachPhyTileHasOneRoot ==
  \A p \in PhyTiles : \E t \in Tiles :
    p \in grid[t].root /\ \A u \in Tiles \ {t} : p \notin grid[u].root

(* No site is ever in two tiles.                                           *)
NoSiteIsDuplicated ==
  \A t, u \in Tiles : t # u => grid[t].sites \intersect grid[u].sites = {}

(* The links are those of a rectangle: they are symmetric, going east then *)
(* south is going south then east, and no tile of a row has a neighbour in *)
(* a direction in which another has none.                                  *)
MeshIsRectangular ==
  \A t \in Tiles : \A d \in DOMAIN neighboors[t] :
    LET u == neighboors[t][d]
    IN  /\ Opposite[d] \in DOMAIN neighboors[u]
        /\ neighboors[u][Opposite[d]] = t
        /\ \A e \in Dir \ {d, Opposite[d]} :
             /\ e \in DOMAIN neighboors[t] <=> e \in DOMAIN neighboors[u]
             /\ e \in DOMAIN neighboors[t] =>
                  neighboors[neighboors[t][e]][d] = neighboors[u][e]
=============================================================================
