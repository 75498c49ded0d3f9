\* Every choice of up to five pips between seven nodes, in two tiles.
SPECIFICATION Spec
CONSTANTS
  o = o
  t = t
  u = u
  i = i
  x = x
  b = b
  c = c
  Nodes <- MCNodes
  Kind <- MCKind
  Segments <- MCSegments
  Joints <- MCJoints
  SiteTile <- MCSiteTile
  NumTiles = 2
  Layouts <- MCLayouts
  Batch = 2
INVARIANTS
  EveryPipHasItsEdges
  OneWireNodePerPin
  DeadTracksCutNoRoute
\* The import ends.
CHECK_DEADLOCK FALSE
