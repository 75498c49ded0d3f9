------------------------------ MODULE VprGrid ------------------------------
(***************************************************************************)
(* How the VPR grid is made from the physical one: the merge and split     *)
(* loops of Grid (merge_tile_type, split_tile_type, split_in_dir) as       *)
(* create_vpr_grid of prjxray_form_channels.py drives them, and the wires  *)
(* it then hands to the tiles of the grid that comes out.                  *)
(*                                                                         *)
(* Every change of the tiles is one operation of TileGrid.  The loops go   *)
(* over the tiles in no given order: the code takes the order in which the *)
(* database returns them.  A tile that was merged is no longer of the type *)
(* looked for, so "the next tile of the type" is any tile that is.  A walk *)
(* is bound with \E, as an only element, where TLC is to take it once.     *)
(***************************************************************************)
EXTENDS TileGrid, SequencesExt

CONSTANTS
  Layouts,   \* the assignments of types to phy_tiles to start from
  Merges,    \* tiles_to_merge, in order: pairs of a type and a direction
  Splits     \* tiles_to_split and split_styles, in order: a type, its
             \* direction, and the new type for each y of its sites

(* The place of a y coordinate in the sorted list of the ys.               *)
Rank(ys, y) == Cardinality({z \in ys : z < y})

(* The tile_type_pkeys that create_vpr_grid makes for a style: the types   *)
(* for the y coordinates, in their order.                                  *)
TypesOf(style) ==
  [i \in 1 .. Cardinality(DOMAIN style) |->
     style[CHOOSE y \in DOMAIN style : Rank(DOMAIN style, y) = i - 1]]

(* Mutant of YIndex: sorted downwards.                                     *)
YIndex_Downwards(style) ==
  [y \in DOMAIN style |-> Cardinality({z \in DOMAIN style : z > y})]

(* Its split_map: a site goes to the new tile for its y.                   *)
YIndex(style) == [y \in DOMAIN style |-> Rank(DOMAIN style, y)]

Styles == UNION {[ys -> Types] : ys \in SUBSET SiteYs}

ASSUME CallAssumption ==
  /\ IsFiniteSet(SiteYs)
  /\ Layouts \subseteq [PhyTiles -> Types]
  /\ Merges \in Seq(Types \X Dir)
  /\ Splits \in Seq(Types \X Dir \X Styles)
  /\ \A i \in DOMAIN Splits :
       /\ DOMAIN Splits[i][3] = YsOf[Splits[i][1]] /\ DOMAIN Splits[i][3] # {}
       /\ TypesOf(Splits[i][3]) \in SplitTypes

(* Both lists are dicts, and no type is in both.  The types of the styles  *)
(* are rows that were inserted into tile_type just before: no tile of the  *)
(* device has one, and those for different ys are different.               *)
ASSUME TypesAssumption ==
  /\ \A i, j \in DOMAIN Splits : Splits[i][1] = Splits[j][1] => i = j
  /\ \A i \in DOMAIN Splits :
       /\ Splits[i][1] # Empty
       /\ \A m \in DOMAIN Merges : Merges[m][1] # Splits[i][1]
       /\ \A y, z \in DOMAIN Splits[i][3] : Splits[i][3][y] = Splits[i][3][z] => y = z
       /\ \A y \in DOMAIN Splits[i][3] :
            /\ Splits[i][3][y] # Empty
            /\ \A j \in DOMAIN Splits : Splits[i][3][y] # Splits[j][1]

VARIABLES
  phy_tile,         \* the table: the type of each phy_tile
  merges, splits,   \* the calls of merge_tile_type and split_tile_type left
  looking,          \* split_tile_type runs its first loop
  seen,             \* tiles_seen
  tops,             \* tops_to_split, those not dealt with
  top,              \* the tile split_in_dir works from, if it is running
  inserts,          \* the rows it still has to insert
  wires             \* the tile of each wire, once the tiles have their rows

driver == <<phy_tile, merges, splits, looking, seen, tops, top, inserts, wires>>

None == 0

(* The wires of a phy_tile: those of its sites, known by their y, and those *)
(* of no site.                                                             *)
NoSite == -1
Wires == PhyTiles \X (SiteYs \union {NoSite})

GridInit ==
  /\ phy_tile \in Layouts
  /\ grid = [p \in PhyTiles |-> PhysicalTile(p, phy_tile[p])]
  /\ neighboors = Mesh
  /\ raised = "nothing"
  /\ ops = 0

DriverInit ==
  /\ GridInit
  /\ merges = Merges
  /\ splits = Splits
  /\ looking = TRUE /\ seen = {} /\ tops = << >>
  /\ top = None
  /\ inserts = 0
  /\ wires = [w \in Wires |-> None]

(* The tiles of a type among those the grid was built from: self.items.    *)
ItemsOf(type) == {t \in Tiles \intersect PhyTiles : grid[t].type = type}

Operating == raised = "nothing" /\ ops < MaxOps /\ ops' = ops + 1

(* merge_tile_type, for the next tile of the type.                         *)
MergeTile ==
  /\ merges # << >>
  /\ Operating
  /\ \E t \in ItemsOf(Head(merges)[1]) :
       MergeInDir(t, Head(merges)[2]) \/ MergeInDirRaises(t, Head(merges)[2])
  /\ UNCHANGED driver

EndMerge ==
  /\ merges # << >>
  /\ ItemsOf(Head(merges)[1]) = {}
  /\ merges' = Tail(merges)
  /\ UNCHANGED <<vars, phy_tile, splits, looking, seen, tops, top, inserts, wires>>

SplitType == Head(splits)[1]
SplitDir == Head(splits)[2]
SplitStyle == Head(splits)[3]
SplitInto == TypesOf(SplitStyle)

Splitting == merges = << >> /\ splits # << >>

(* Mutant of TopOf: the walk back to the top is left out.                  *)
TopOf_Bottom(row) == Head(row)

(* The tile that the walk back through a row ends at.                      *)
TopOf(row) == Last(row)

(* split_tile_type, for the next tile of the type that was not seen yet:   *)
(* it walks to the bottom of its row, then back to the top.                *)
FindRow ==
  /\ Splitting /\ looking
  /\ \E t \in ItemsOf(SplitType) \ seen :
       \E bottom \in {Last(Walk(t, SplitNext[SplitDir]))} :
       \E row \in {Walk(bottom, Opposite[SplitNext[SplitDir]])} :
         /\ seen' = seen \union ToSet(row)
         /\ tops' = Append(tops, TopOf(row))
  /\ UNCHANGED <<vars, phy_tile, merges, splits, looking, top, inserts, wires>>

EndFind ==
  /\ Splitting /\ looking
  /\ ItemsOf(SplitType) \subseteq seen
  /\ looking' = FALSE
  /\ UNCHANGED <<vars, phy_tile, merges, splits, seen, tops, top, inserts, wires>>

(* Mutant of NumToInsert: no room is made.                                 *)
NumToInsert_NoRoom(t) == 0

(* split_in_dir: the furthest tile that a split in the row of t would take *)
(* and that is not empty.  The first one ahead is looked at even if the    *)
(* split has one type only and takes none.                                 *)
NumToInsert(t) ==
  LET full == {k \in {1} \union 2 .. Len(SplitInto) - 1 :
                 \E u \in ToSet(Walk(t, SplitNext[SplitDir])) :
                   LET ahead == Walk(u, SplitDir)
                   IN  /\ grid[u].type = SplitType
                       /\ k < Len(ahead) /\ grid[ahead[k + 1]].type # Empty}
  IN  IF full = {} THEN 0 ELSE CHOOSE k \in full : \A l \in full : l <= k

(* split_in_dir is called for the next of tops_to_split.                   *)
StartRow ==
  /\ Splitting /\ ~looking /\ top = None /\ tops # << >>
  /\ top' = Head(tops)
  /\ tops' = Tail(tops)
  /\ inserts' = NumToInsert(Head(tops))
  /\ UNCHANGED <<vars, phy_tile, merges, splits, looking, seen, wires>>

InsertRow ==
  /\ top # None /\ inserts > 0
  /\ Operating
  /\ InsertEmpty(top, SplitDir) \/ InsertEmptyRaises(top, SplitDir)
  /\ inserts' = inserts - 1
  /\ UNCHANGED <<phy_tile, merges, splits, looking, seen, tops, top, wires>>

(* The places of a row that are still of the type to split.                *)
ToSplit(row) == {i \in DOMAIN row : grid[row[i]].type = SplitType}

SplitNextTile ==
  /\ top # None /\ inserts = 0
  /\ Operating
  /\ \E row \in {Walk(top, SplitNext[SplitDir])} : \E i \in ToSplit(row) :
       /\ \A j \in ToSplit(row) : i <= j
       /\ \/ SplitTile(row[i], SplitInto, SplitDir, YIndex(SplitStyle))
          \/ SplitTileRaises(row[i], SplitInto, SplitDir, YIndex(SplitStyle))
  /\ UNCHANGED driver

EndRow ==
  /\ top # None /\ inserts = 0
  /\ \E row \in {Walk(top, SplitNext[SplitDir])} : ToSplit(row) = {}
  /\ top' = None
  /\ UNCHANGED <<vars, phy_tile, merges, splits, looking, seen, tops, inserts, wires>>

EndSplit ==
  /\ Splitting /\ ~looking /\ top = None /\ tops = << >>
  /\ splits' = Tail(splits)
  /\ looking' = TRUE /\ seen' = {}
  /\ UNCHANGED <<vars, phy_tile, merges, tops, top, inserts, wires>>

(* output_grid: the tiles below those east of the origin.                  *)
OutputTiles == UNION {ToSet(Walk(t, "SOUTH")) : t \in ToSet(Walk(Origin, "EAST"))}

(* Mutant of Homes: the root is assigned after the sites.                  *)
Homes_RootLast(w, tiles) ==
  LET root == {t \in tiles : w[1] \in grid[t].root}
  IN  IF root # {} THEN root ELSE {t \in tiles : w \in grid[t].sites}

(* Those of a set of tiles that wire w is assigned to.                     *)
Homes(w, tiles) ==
  LET site == {t \in tiles : w \in grid[t].sites}
  IN  IF site # {} THEN site ELSE {t \in tiles : w[1] \in grid[t].root}

(* The wires go to the tile their phy_tile is a root of, and those of a    *)
(* site then to the tile of the site; wires of a tile that is not in the   *)
(* output stay without one.                                                *)
AssignWires ==
  /\ merges = << >> /\ splits = << >> /\ raised = "nothing"
  /\ \E tiles \in {OutputTiles} :
       wires' = [w \in Wires |-> LET homes == Homes(w, tiles)
                                 IN  IF homes = {} THEN None ELSE CHOOSE t \in homes : TRUE]
  /\ UNCHANGED <<vars, phy_tile, merges, splits, looking, seen, tops, top, inserts>>

DriverNext ==
  \/ MergeTile \/ EndMerge
  \/ FindRow \/ EndFind
  \/ StartRow \/ InsertRow \/ SplitNextTile \/ EndRow \/ EndSplit
  \/ AssignWires

DriverSpec == DriverInit /\ [][DriverNext]_<<vars, driver>>

(* A sequential program that keeps running.                                *)
FairDriverSpec == DriverSpec /\ WF_<<vars, driver>>(DriverNext)
-----------------------------------------------------------------------------
Assigned == \E w \in Wires : wires[w] # None

(* Every wire of the device ends up in a tile of the VPR grid, and the     *)
(* wires of a site in the same tile as the site.                           *)
EveryWireHasATile ==
  Assigned => LET tiles == OutputTiles IN \A w \in Wires :
    /\ wires[w] \in tiles
    /\ \A t \in Tiles : w \in grid[t].sites => wires[w] = t

(* A site of a tile that was split, merged into it or its own, ends in the *)
(* tile that has the type made for its y: LIOPAD_S for 0, LIOPAD_M for 1.  *)
SitesFollowTheirY ==
  Assigned => \A t \in Tiles : grid[t].split =>
    \A s \in grid[t].sites : \E i \in DOMAIN Splits :
      grid[t].type = Splits[i][3][s[2]]

Done == merges = << >> /\ splits = << >>

(* The tiles that a phy_tile was split into.                               *)
Made(p) == {t \in Tiles : grid[t].split /\ p \in grid[t].phys}

ToBeSplit == {p \in PhyTiles : \E i \in DOMAIN Splits : Splits[i][1] = phy_tile[p]}
ToBeMerged == {p \in PhyTiles : \E m \in DOMAIN Merges : Merges[m][1] = phy_tile[p]}

(* When the loops of split_tile_type, which look for rows while they mark  *)
(* tiles as seen and then split rows that grow, have ended, no tile was    *)
(* left out or taken twice: each phy_tile of a type in tiles_to_split has  *)
(* become one tile for each type of its style, no two of them share a      *)
(* tile, every tile that was split comes from one of them, and the others  *)
(* have the type they had, or are merged away.                             *)
EveryTileIsSplitOnce ==
  Done =>
    /\ \A p \in ToBeSplit : \E i \in DOMAIN Splits :
         /\ phy_tile[p] = Splits[i][1]
         /\ {grid[t].type : t \in Made(p)} = ToSet(TypesOf(Splits[i][3]))
         /\ \A t, u \in Made(p) : grid[t].type = grid[u].type => t = u
    /\ \A p, q \in ToBeSplit : p # q => Made(p) \intersect Made(q) = {}
    /\ \A t \in Tiles : grid[t].split => \E p \in ToBeSplit : t \in Made(p)
    /\ \A p \in PhyTiles \ ToBeSplit : phy_tile[p] # Empty /\ p \notin ToBeMerged =>
         grid[p].type = phy_tile[p] /\ ~grid[p].split

(* split_in_dir makes the room its splits need, so that create_vpr_grid    *)
(* never stops on an exception and ends with every wire assigned.          *)
EventuallyAssigned == <>Assigned
=============================================================================
