\* Whether every edge that was made reaches the database.
SPECIFICATION Spec
CONSTANTS
  o = o
  t = t
  u = u
  i = i
  x = x
  b = b
  c = c
  Nodes <- MCNodes
  Kind <- MCKind
  Segments <- MCSegments
  Joints <- MCJoints
  SiteTile <- MCSiteTile
  NumTiles = 2
  Layouts <- MCLayouts
  Batch = 2
INVARIANT EveryEdgeIsCommitted
\* The import ends.
CHECK_DEADLOCK FALSE
