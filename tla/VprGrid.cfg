\* Every layout of two columns and three rows that a device could have.
SPECIFICATION FairDriverSpec
CONSTANTS
  Width = 2
  Height = 3
  Empty = Empty
  LIOB33 = LIOB33
  LIOI3 = LIOI3
  CLB = CLB
  LIOPAD_S = LIOPAD_S
  LIOPAD_M = LIOPAD_M
  LIOI3_SING = LIOI3_SING
  LIOPAD_SING = LIOPAD_SING
  Types <- MCTypes
  SplitTypes <- MCSplitTypes
  Layouts <- DeviceLayouts
  Merges <- MCMerges
  Splits <- MCSplits
  SiteYs = {0, 1}
  YsOf <- MCYsOf
  MaxOps = 12
  MaxTiles = 10
INVARIANTS
  EveryWireHasATile
  SitesFollowTheirY
  EveryTileIsSplitOnce
PROPERTIES
  EventuallyAssigned
