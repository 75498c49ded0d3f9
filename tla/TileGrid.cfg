\* Two by two tiles, pushed apart by two rows or columns, merged and split.
SPECIFICATION Spec
CONSTANTS
  Width = 2
  Height = 2
  Empty = Empty
  A = A
  Types <- MCTypes
  SplitTypes <- MCSplitTypes
  SiteYs = {0, 1}
  YsOf <- MCYsOf
  MaxOps = 3
  MaxTiles = 8
INVARIANTS
  MeshIsRectangular
  EachPhyTileHasOneRoot
\* A split that raises, or the bound, ends the behaviour.
CHECK_DEADLOCK FALSE
