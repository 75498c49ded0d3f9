\* Devices of two tiles, with up to two failures.
SPECIFICATION Spec
CONSTANTS
  TileTypes <- MCTileTypes
  Devices <- MCDevices
  MaxFailures = 2
INVARIANTS
  NodesAreComponents
  TargetsAreWhole
PROPERTIES
  EventuallyBuilt
\* The build ends.
CHECK_DEADLOCK FALSE
