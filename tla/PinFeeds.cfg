\* Every choice of two to four pips between two output pins, three tracks and
\* two input pins.
SPECIFICATION FeedsSpec
CONSTANTS
  o = o
  c = c
  t = t
  u = u
  z = z
  i = i
  j = j
  Nodes <- MCNodes
  Kind <- MCKind
  Segments <- MCSegments
  Joints <- MCJoints
  SiteTile <- MCSiteTile
  NumTiles = 2
  Layouts <- MCLayouts
  Batch = 0
  ConstantTracks = {z}
  Feed <- MCFeed
INVARIANTS
  FeedsAreTheOnlyWay
  OutputsNameTheirTracks
PROPERTY EventuallyAnnotated
\* The program ends.
CHECK_DEADLOCK FALSE
