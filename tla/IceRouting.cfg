\* A part of five tiles by five, with any choice of the wire groups.
CONSTANTS
  Part = "1k"
  MaxX = 4
  MaxY = 4
  GridSize <- MCGridSize
  Layouts <- MCLayouts
  Hlc <- MCHlc
SPECIFICATION Spec
CHECK_DEADLOCK FALSE
INVARIANTS
  NetsAreWhole
  RoutesAreTheDatabase
  FileIsTheGraph
